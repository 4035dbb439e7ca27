------------------------- MODULE UsageHistoryProofs -------------------------
(***************************************************************************)
(* What holds of UsageHistory for any rows, deltas, resets and scopes.     *)
(***************************************************************************)
EXTENDS UsageHistory, FiniteSetTheorems, WellFoundedInduction, TLAPS

(* The types, those of the export apart. *)
Types ==
  /\ rows \in [Keys -> SUBSET Deltas]
  /\ archived \in [Deltas -> Nat]
  /\ stage \in [Admins -> {"idle", "counted", "copied", "deleted"}]
  /\ scope \in [Admins -> Scopes \cup {None}]
  /\ \A a \in Admins : stage[a] # "idle" => scope[a] \in Scopes
  /\ copy \in [Admins -> [Keys -> SUBSET Deltas]]
  /\ gone \in [Admins -> SUBSET Keys]
  /\ \A a \in Admins : stage[a] # "deleted" => gone[a] = {}
  /\ booked \in SUBSET Deltas /\ late \in SUBSET Deltas /\ discarded \in SUBSET Deltas

(* Only what was added is anywhere, and only in its own row. *)
InPlace ==
  /\ \A k \in Keys : \A d \in rows[k] : d \in booked /\ Target[d] = k
  /\ \A a \in Admins, k \in Keys : \A d \in copy[a][k] : d \in booked /\ Target[d] = k
  /\ \A d \in Deltas : archived[d] > 0 => d \in booked

(* What a request has copied was in its scope. *)
CopiedInScope ==
  \A a \in Admins, k \in Keys :
    copy[a][k] # {} => stage[a] \in {"copied", "deleted"} /\ InScope(k, scope[a])

(* What a request deletes it has copied, late deltas apart. *)
Covered ==
  \A a \in Admins :
    /\ stage[a] = "copied" => \A k \in Keys : InScope(k, scope[a]) => rows[k] \subseteq copy[a][k] \cup late
    /\ \A k \in gone[a] : rows[k] \subseteq copy[a][k] \cup late

(* What is there of what it has copied, it deletes. *)
Reached ==
  \A a \in Admins, k \in Keys :
    stage[a] = "deleted" /\ copy[a][k] \cap rows[k] # {} => k \in gone[a]

(* No two requests have deleted the same row. *)
Exclusive == \A a, b \in Admins : a # b => gone[a] \cap gone[b] = {}

(* With nothing added in between, copies are what they are copies of. *)
Verbatim ==
  late = {} =>
    \A a \in Admins, k \in Keys :
      /\ stage[a] = "copied" /\ InScope(k, scope[a]) /\ rows[k] # {} => rows[k] = copy[a][k]
      /\ k \in gone[a] => rows[k] # {} /\ rows[k] = copy[a][k]

UInv ==
  /\ Types /\ InPlace /\ CopiedInScope /\ Covered /\ Reached /\ Exclusive /\ Verbatim
  /\ KeptSomewhere /\ CountedOnce

USE DEF UInv

-----------------------------------------------------------------------------
LEMMA LiveIs == \A d : d \in Live <=> \E k \in Keys : d \in rows[k]
  BY DEF Live
LEMMA LiveIsPrime == \A d : d \in Live' <=> \E k \in Keys : d \in rows'[k]
  BY DEF Live

(* A check-in adds a delta of its own to a row nobody holds. *)
LEMMA BookStep ==
  ASSUME UInv, NEW d \in Deltas, Book(d)
  PROVE  UInv'
<1> DEFINE k0 == Target[d]
<1>1. k0 \in Keys /\ d \notin booked /\ ~Locked(k0)
  BY TargetAssumption DEF Book
<1>2. /\ rows' = [rows EXCEPT ![k0] = @ \cup {d}]
      /\ booked' = booked \cup {d}
      /\ late \subseteq late' /\ late' \subseteq late \cup {d}
      /\ (\E a \in Admins : stage[a] = "copied" /\ InScope(k0, scope[a])) => d \in late'
      /\ UNCHANGED <<archived, stage, scope, copy, gone, discarded>>
  BY DEF Book, reset
<1> HIDE DEF k0
<1>3. \A k \in Keys : rows'[k] = IF k = k0 THEN rows[k] \cup {d} ELSE rows[k]
  BY <1>1, <1>2 DEF Types
<1>4. \A a \in Admins : k0 \notin gone[a]
  BY <1>1 DEF Locked
<1>5. Types'
  BY <1>1, <1>2 DEF Types
<1>6. InPlace'
  BY <1>1, <1>2, <1>3 DEF InPlace, k0
<1>7. CopiedInScope' /\ Exclusive'
  BY <1>2 DEF CopiedInScope, Exclusive, InScope
<1>8. Covered'
  <2>1. ASSUME NEW a \in Admins, stage[a] = "copied", NEW k \in Keys, InScope(k, scope[a])
        PROVE  rows'[k] \subseteq copy[a][k] \cup late'
    BY <2>1, <1>2, <1>3 DEF Covered
  <2>2. ASSUME NEW a \in Admins, NEW k \in gone[a]
        PROVE  rows'[k] \subseteq copy[a][k] \cup late'
    <3>1. k \in Keys /\ k # k0
      BY <1>4 DEF Types
    <3> QED BY <3>1, <1>2, <1>3 DEF Covered
  <2> QED BY <2>1, <2>2, <1>2 DEF Covered, InScope
<1>9. Reached'
  BY <1>1, <1>2, <1>3 DEF Reached, InPlace
<1>10. Verbatim'
  <2> SUFFICES ASSUME late' = {}, NEW a \in Admins, NEW k \in Keys
               PROVE  /\ stage'[a] = "copied" /\ InScope(k, scope'[a]) /\ rows'[k] # {}
                         => rows'[k] = copy'[a][k]
                      /\ k \in gone'[a] => rows'[k] # {} /\ rows'[k] = copy'[a][k]
    BY DEF Verbatim, InScope
  <2>1. late = {}
    BY <1>2
  <2> QED BY <2>1, <1>2, <1>3, <1>4 DEF Verbatim
<1>11. KeptSomewhere'
  BY <1>1, <1>2, <1>3, LiveIs, LiveIsPrime DEF KeptSomewhere
<1>12. CountedOnce'
  BY <1>1, <1>2, <1>3, LiveIs, LiveIsPrime DEF CountedOnce, InPlace
<1> QED BY <1>5, <1>6, <1>7, <1>8, <1>9, <1>10, <1>11, <1>12

(* Rows that nobody holds go for good. *)
LEMMA DiscardStep ==
  ASSUME UInv, NEW S \in SUBSET Keys, Discard(S)
  PROVE  UInv'
<1>1. /\ \A a \in Admins : gone[a] \cap S = {}
      /\ \A k \in Keys : rows'[k] = IF k \in S THEN {} ELSE rows[k]
      /\ rows' \in [Keys -> SUBSET Deltas]
  BY DEF Discard, Without, Locked, Types
<1>2. discarded' = discarded \cup UNION {rows[k] : k \in S}
  BY DEF Discard
<1>3. UNCHANGED <<archived, stage, scope, copy, gone, booked, late>>
  BY DEF Discard, reset
<1>4. Types' /\ InPlace' /\ CopiedInScope' /\ Exclusive'
  BY <1>1, <1>2, <1>3 DEF Types, InPlace, CopiedInScope, Exclusive, InScope
<1>5. Covered'
  BY <1>1, <1>3 DEF Covered, InScope, Types
<1>6. Reached'
  BY <1>1, <1>3 DEF Reached
<1>7. Verbatim'
  BY <1>1, <1>3 DEF Verbatim, InScope
<1>8. KeptSomewhere'
  BY <1>1, <1>2, <1>3, LiveIs, LiveIsPrime DEF KeptSomewhere
<1>9. CountedOnce'
  BY <1>1, <1>3, LiveIs, LiveIsPrime DEF CountedOnce
<1> QED BY <1>4, <1>5, <1>6, <1>7, <1>8, <1>9

(* A request begins, copies, deletes: no row changes. *)
LEMMA ResetStep ==
  ASSUME UInv, NEW a \in Admins,
         (\E s \in Scopes : BeginReset(a, s)) \/ Copy(a) \/ Delete(a)
  PROVE  UInv'
<1>1. UNCHANGED <<rows, archived, booked, discarded, late>>
  BY DEF BeginReset, Copy, Delete, table
<1>2. KeptSomewhere' /\ CountedOnce'
  BY <1>1 DEF KeptSomewhere, CountedOnce, Live
<1>3. ASSUME NEW s \in Scopes, BeginReset(a, s)  PROVE UInv'
  <2>1. /\ stage[a] = "idle"
        /\ stage' = [stage EXCEPT ![a] = "counted"]
        /\ scope' = [scope EXCEPT ![a] = s]
        /\ UNCHANGED <<copy, gone>>
    BY <1>3 DEF BeginReset
  <2>2. Types' /\ InPlace' /\ Exclusive'
    <3>1. \A b \in Admins : stage'[b] # "idle" => scope'[b] \in Scopes
      BY <1>3, <2>1 DEF Types
    <3> QED BY <1>1, <2>1, <3>1 DEF Types, InPlace, Exclusive
  <2>3. \A b \in Admins : /\ stage'[b] = IF b = a THEN "counted" ELSE stage[b]
                          /\ b # a => scope'[b] = scope[b]
    BY <2>1 DEF Types
  <2>4. \A k \in Keys : copy[a][k] = {} /\ k \notin gone[a]
    BY <2>1 DEF Types, CopiedInScope
  <2>5. CopiedInScope' /\ Covered' /\ Reached' /\ Verbatim'
    BY <1>1, <2>1, <2>3, <2>4, SMTT(30) DEF Types, CopiedInScope, Covered, Reached, Verbatim, InScope
  <2> QED BY <1>2, <2>2, <2>5
<1>4. CASE Copy(a)
  <2>1. /\ stage[a] = "counted"
        /\ stage' = [stage EXCEPT ![a] = "copied"]
        /\ copy' = [copy EXCEPT ![a] = [k \in Keys |-> IF InScope(k, scope[a]) THEN rows[k] ELSE {}]]
        /\ UNCHANGED <<scope, gone>>
    BY <1>4 DEF Copy
  <2>2. \A b \in Admins, k \in Keys :
          copy'[b][k] = IF b # a THEN copy[b][k] ELSE IF InScope(k, scope[a]) THEN rows[k] ELSE {}
    BY <2>1 DEF Types
  <2>3. Types'
    BY <1>1, <2>1 DEF Types
  <2>4. InPlace' /\ Exclusive'
    BY <1>1, <2>1, <2>2 DEF InPlace, Exclusive
  <2>5. \A b \in Admins : stage'[b] = IF b = a THEN "copied" ELSE stage[b]
    BY <2>1 DEF Types
  <2>6. \A k, s : InScope(k, s)' = InScope(k, s)
    BY DEF InScope
  <2>7. CopiedInScope'
    BY <1>1, <2>1, <2>2, <2>5, <2>6 DEF CopiedInScope, InScope
  <2>8. gone[a] = {}
    BY <2>1 DEF Types
  <2>9. \A b \in Admins : gone[b] \subseteq Keys
    BY DEF Types
  <2>10. Covered'
    BY <1>1, <2>1, <2>2, <2>5, <2>8, <2>9 DEF Covered, InScope
  <2>11. Reached'
    BY <1>1, <2>1, <2>2, <2>5 DEF Reached
  <2>12. Verbatim'
    BY <1>1, <2>1, <2>2, <2>5, <2>8 DEF Verbatim, InScope
  <2> QED BY <1>2, <2>3, <2>4, <2>7, <2>10, <2>11, <2>12
<1>5. CASE Delete(a)
  <2> DEFINE taken == {k \in Present : InScope(k, scope[a])}
  <2>1. /\ stage[a] = "copied"
        /\ \A k \in taken : ~Locked(k)
        /\ stage' = [stage EXCEPT ![a] = "deleted"]
        /\ gone' = [gone EXCEPT ![a] = taken]
        /\ UNCHANGED <<scope, copy>>
    BY <1>5 DEF Delete
  <2>2. \A k : k \in taken <=> k \in Keys /\ rows[k] # {} /\ InScope(k, scope[a])
    BY DEF Present
  <2>3. \A b \in Admins : taken \cap gone[b] = {}
    BY <2>1 DEF Locked
  <2> HIDE DEF taken
  <2>4. \A b \in Admins : /\ gone'[b] = IF b = a THEN taken ELSE gone[b]
                          /\ stage'[b] = IF b = a THEN "deleted" ELSE stage[b]
    BY <2>1 DEF Types
  <2>5. taken \subseteq Keys
    BY <2>2
  <2>6. Types' /\ InPlace'
    BY <1>1, <2>1, <2>4, <2>5 DEF Types, InPlace
  <2>7. CopiedInScope'
    BY <2>1, <2>4 DEF CopiedInScope, InScope
  <2>8. Exclusive'
    BY <2>3, <2>4 DEF Exclusive
  <2>9. Covered'
    BY <1>1, <2>1, <2>2, <2>4 DEF Covered, InScope
  <2>10. Reached'
    BY <1>1, <2>1, <2>2, <2>4 DEF Reached, CopiedInScope
  <2>11. Verbatim'
    BY <1>1, <2>1, <2>2, <2>4 DEF Verbatim, InScope
  <2> QED BY <1>2, <2>6, <2>7, <2>8, <2>9, <2>10, <2>11
<1> QED BY <1>3, <1>4, <1>5

(* What ending a request does to the others: nothing. *)
LEMMA CloseIs ==
  ASSUME Types, NEW a \in Admins, Close(a)
  PROVE  \A b \in Admins :
           /\ stage'[b] = IF b = a THEN "idle" ELSE stage[b]
           /\ scope'[b] = IF b = a THEN None ELSE scope[b]
           /\ gone'[b] = IF b = a THEN {} ELSE gone[b]
           /\ \A k \in Keys : copy'[b][k] = IF b = a THEN {} ELSE copy[b][k]
  BY DEF Close, Types, NoRows

LEMMA CloseTypes ==
  ASSUME Types, NEW a \in Admins, Close(a)
  PROVE  /\ stage' \in [Admins -> {"idle", "counted", "copied", "deleted"}]
         /\ scope' \in [Admins -> Scopes \cup {None}]
         /\ copy' \in [Admins -> [Keys -> SUBSET Deltas]]
         /\ gone' \in [Admins -> SUBSET Keys]
         /\ \A b \in Admins : stage'[b] # "deleted" => gone'[b] = {}
         /\ \A b \in Admins : stage'[b] # "idle" => scope'[b] \in Scopes
  BY DEF Close, Types, NoRows

LEMMA RollbackStep ==
  ASSUME UInv, NEW a \in Admins, Close(a), UNCHANGED <<table, booked, discarded, late>>
  PROVE  UInv'
<1>1. UNCHANGED <<rows, archived>>
  BY DEF table
<1>2. Types'
  BY <1>1, CloseTypes DEF Types
<1>3. InPlace' /\ CopiedInScope' /\ Exclusive'
  BY <1>1, CloseIs DEF InPlace, CopiedInScope, Exclusive, InScope
<1>4. Covered' /\ Reached' /\ Verbatim'
  <2>1. \A b \in Admins : gone[b] \subseteq Keys
    BY DEF Types
  <2> QED BY <1>1, <2>1, CloseIs DEF Covered, Reached, Verbatim, InScope
<1>5. KeptSomewhere' /\ CountedOnce'
  BY <1>1 DEF KeptSomewhere, CountedOnce, Live
<1> QED BY <1>2, <1>3, <1>4, <1>5

(* The copies of a delta are its row's copy or none, so a commit archives it once or not at all. *)
LEMMA CopiesOf ==
  ASSUME UInv, NEW a \in Admins, NEW d \in Deltas
  PROVE  LET C == {k \in Copied(a) : d \in copy[a][k]}
         IN /\ Cardinality(C) \in {0, 1}
            /\ Cardinality(C) = 1 <=> d \in copy[a][Target[d]]
<1> DEFINE C == {k \in Copied(a) : d \in copy[a][k]}
<1>1. Target[d] \in Keys
  BY TargetAssumption
<1>2. CASE d \in copy[a][Target[d]]
  <2>1. C = {Target[d]}
    BY <1>1, <1>2 DEF Copied, InPlace
  <2> QED BY <2>1, <1>2, FS_Singleton
<1>3. CASE d \notin copy[a][Target[d]]
  <2>1. C = {}
    BY <1>1, <1>3 DEF Copied, InPlace
  <2>2. Cardinality(C) = 0
    BY <2>1, FS_EmptySet
  <2> QED BY <2>2, <1>3
<1> QED BY <1>2, <1>3

(* Equal counts leave no room for a row that was deleted and not copied. *)
LEMMA NothingLeftOut ==
  ASSUME UInv, NEW a \in Admins, CountsAgree(a), late = {}
  PROVE  gone[a] = Copied(a)
<1>1. gone[a] \subseteq Copied(a)
  BY DEF Verbatim, Copied, Types
<1>2. IsFiniteSet(Copied(a))
  BY KeysAssumption, FS_Subset DEF Copied
<1> QED BY <1>1, <1>2, FS_Subset DEF CountsAgree

LEMMA CommitStep ==
  ASSUME UInv, NEW a \in Admins, Commit(a)
  PROVE  UInv'
<1> DEFINE Copies(d) == Cardinality({k \in Copied(a) : d \in copy[a][k]})
<1>1. /\ stage[a] = "deleted" /\ CountsAgree(a) /\ Close(a)
      /\ \A k \in Keys : rows'[k] = IF k \in gone[a] THEN {} ELSE rows[k]
      /\ rows' \in [Keys -> SUBSET Deltas]
      /\ archived' = [d \in Deltas |-> archived[d] + Copies(d)]
      /\ UNCHANGED <<booked, discarded, late>>
  BY DEF Commit, Without, Types
<1>2. \A d \in Deltas : /\ Copies(d) \in {0, 1}
                        /\ Copies(d) = 1 <=> d \in copy[a][Target[d]]
  BY CopiesOf
<1> HIDE DEF Copies
<1>3. \A d \in Deltas :
        archived'[d] = IF d \in copy[a][Target[d]] THEN archived[d] + 1 ELSE archived[d]
  BY <1>1, <1>2 DEF Types
<1>4. Types'
  <2>1. archived' \in [Deltas -> Nat]
    BY <1>1, <1>2 DEF Types
  <2> QED BY <1>1, <2>1, CloseTypes DEF Types
<1>5. InPlace'
  <2>1. \A d \in Deltas : archived'[d] > 0 => d \in booked
    BY <1>3, TargetAssumption DEF InPlace, Types
  <2> QED BY <1>1, <2>1, CloseIs DEF InPlace
<1>6. CopiedInScope' /\ Exclusive'
  BY <1>1, CloseIs DEF CopiedInScope, Exclusive, InScope
<1>7. \A b \in Admins : gone[b] \subseteq Keys
  BY DEF Types
<1>8. Covered'
  BY <1>1, <1>7, CloseIs DEF Covered, InScope
<1>9. Reached'
  BY <1>1, CloseIs DEF Reached
<1>10. Verbatim'
  BY <1>1, CloseIs DEF Verbatim, InScope, Exclusive
<1>11. KeptSomewhere'
  <2> SUFFICES ASSUME NEW d \in booked \ (discarded \cup late)
               PROVE  (\E k \in Keys : d \in rows'[k]) \/ archived'[d] > 0
    BY <1>1, LiveIsPrime DEF KeptSomewhere
  <2>1. d \in Deltas /\ archived[d] \in Nat
    BY DEF Types
  <2>2. CASE archived[d] > 0
    BY <1>3, <2>1, <2>2
  <2>3. CASE d \in Live
    <3>1. PICK k \in Keys : d \in rows[k]
      BY <2>3, LiveIs
    <3>2. CASE k \in gone[a]
      <4>1. d \in copy[a][k] /\ Target[d] = k
        BY <3>1, <3>2 DEF Covered, InPlace
      <4> QED BY <4>1, <1>3, <2>1
    <3> QED BY <3>1, <3>2, <1>1
  <2> QED BY <2>2, <2>3 DEF KeptSomewhere
<1>12. CountedOnce'
  <2> SUFFICES ASSUME NEW d \in Deltas
               PROVE  /\ archived'[d] > 0 => ~\E k \in Keys : d \in rows'[k]
                      /\ late = {} => archived'[d] <= 1
    BY <1>1, LiveIsPrime DEF CountedOnce
  <2>1. Target[d] \in Keys /\ archived[d] \in Nat
    BY TargetAssumption DEF Types
  <2>2. CASE d \in copy[a][Target[d]]
    <3>1. \A k \in Keys : d \in rows[k] => k \in gone[a]
      BY <1>1, <2>1, <2>2 DEF Reached, InPlace
    <3>2. late = {} => archived[d] = 0
      <4> SUFFICES ASSUME late = {}
                   PROVE  archived[d] = 0
        OBVIOUS
      <4>1. Target[d] \in Copied(a)
        BY <2>1, <2>2 DEF Copied
      <4>2. Target[d] \in gone[a]
        BY <1>1, <4>1, NothingLeftOut
      <4>3. d \in rows[Target[d]]
        BY <2>1, <2>2, <4>2 DEF Verbatim
      <4> QED BY <2>1, <4>3, LiveIs DEF CountedOnce
    <3> QED BY <1>1, <1>3, <2>1, <2>2, <3>1, <3>2
  <2>3. CASE d \notin copy[a][Target[d]]
    BY <1>1, <1>3, <2>1, <2>3, LiveIs DEF CountedOnce
  <2> QED BY <2>2, <2>3
<1> QED BY <1>4, <1>5, <1>6, <1>8, <1>9, <1>10, <1>11, <1>12

-----------------------------------------------------------------------------
LEMMA UsageInit == Init => UInv
  BY LiveIs DEF Init, Types, InPlace, CopiedInScope, Covered, Reached, Exclusive, Verbatim,
     KeptSomewhere, CountedOnce, NoRows

LEMMA UsageStep == UInv /\ [Next]_vars => UInv'
<1> SUFFICES ASSUME UInv, [Next]_vars
             PROVE  UInv'
  OBVIOUS
<1>1. ASSUME UNCHANGED <<table, reset, booked, discarded, late>>
      PROVE  UInv'
  BY <1>1 DEF table, reset, Types, InPlace, CopiedInScope, Covered, Reached, Exclusive, Verbatim,
     KeptSomewhere, CountedOnce, Live, InScope
<1>2. CASE \E d \in Deltas : Book(d)
  BY <1>2, BookStep
<1>3. ASSUME NEW before \in Cutoffs, Cleanup(before)
      PROVE  UInv'
  <2>1. {k \in Present : Date[k] < before} \in SUBSET Keys
    BY DEF Present
  <2> QED BY <1>3, <2>1, DiscardStep DEF Cleanup
<1>4. ASSUME NEW o \in Devices, DropDevice(o)
      PROVE  UInv'
  <2>1. {k \in Present : Owner[k] = o} \in SUBSET Keys
    BY DEF Present
  <2> QED BY <1>4, <2>1, DiscardStep DEF DropDevice
<1>5. ASSUME NEW a \in Admins, (\E s \in Scopes : BeginReset(a, s)) \/ Copy(a) \/ Delete(a)
      PROVE  UInv'
  BY <1>5, ResetStep
<1>6. ASSUME NEW a \in Admins, Commit(a)
      PROVE  UInv'
  BY <1>6, CommitStep
<1>7. ASSUME NEW a \in Admins, Refuse(a) \/ Fail(a)
      PROVE  UInv'
  BY <1>7, RollbackStep DEF Refuse, Fail
<1>8. CASE (\E from, to \in {Date[k] : k \in Keys} \cup {Date[k] + 1 : k \in Keys} : BeginExport(from, to))
           \/ NextBatch \/ EndExport
  BY <1>1, <1>8 DEF BeginExport, NextBatch, EndExport
<1>9. CASE Over \/ UNCHANGED vars
  BY <1>1, <1>9 DEF Over, vars
<1> QED BY <1>2, <1>3, <1>4, <1>5, <1>6, <1>7, <1>8, <1>9 DEF Next

LEMMA UsageInvariance == Spec => []UInv
<1> QED BY UsageInit, UsageStep, PTL DEF Spec

(***************************************************************************)
(* For any rows, deltas and number of resets: what a reset takes from the  *)
(* live table is in the archive, unless it was added while the reset was   *)
(* between its two statements.                                             *)
(***************************************************************************)
THEOREM NothingLostButLate == Spec => []KeptSomewhere
<1>1. UInv => KeptSomewhere
  OBVIOUS
<1> QED BY <1>1, UsageInvariance, PTL

(***************************************************************************)
(* However many resets overlap, the comparison of their counts keeps a     *)
(* delta from being archived twice or archived and live.                   *)
(***************************************************************************)
THEOREM NothingCountedTwice == Spec => []CountedOnce
<1>1. UInv => CountedOnce
  OBVIOUS
<1> QED BY <1>1, UsageInvariance, PTL

-----------------------------------------------------------------------------
(* The export *)

(* A set of numbers has a least one. *)
LEMMA Least ==
  ASSUME NEW T \in SUBSET Nat, T # {}
  PROVE  \E x \in T : \A y \in T : x <= y
<1>1. PICK x \in T : \A y \in T : ~(<<y, x>> \in OpToRel(<, Nat))
  BY NatLessThanWellFounded, WFMin
<1>2. ASSUME NEW y \in T PROVE x <= y
  <2>1. <<y, x>> \in Nat \X Nat
    BY <1>1
  <2>2. y < x => <<y, x>> \in {ss \in Nat \X Nat : ss[1] < ss[2]}
    BY <2>1
  <2>3. y < x => <<y, x>> \in OpToRel(<, Nat)
    BY <2>2 DEF OpToRel
  <2>4. ~(y < x)
    BY <2>3, <1>1, Zenon
  <2> QED BY <2>4
<1> QED BY <1>2

IsLast(m, S) == m \in S /\ \A s \in S : s <= m

(* A finite set of numbers has a greatest one. *)
LEMMA Greatest ==
  ASSUME NEW T \in SUBSET Nat, IsFiniteSet(T), T # {}
  PROVE  \E m \in T : IsLast(m, T)
<1> DEFINE Sizes == {n \in Nat : \E S \in SUBSET Nat :
                       IsFiniteSet(S) /\ S # {} /\ Cardinality(S) = n /\ \A m \in S : ~IsLast(m, S)}
<1> SUFFICES ASSUME \A m \in T : ~IsLast(m, T) PROVE FALSE
  OBVIOUS
<1>1. Cardinality(T) \in Sizes
  BY FS_CardinalityType
<1>2. PICK n \in Sizes : \A y \in Sizes : n <= y
  <2>1. Sizes \in SUBSET Nat /\ Sizes # {}
    BY <1>1
  <2> HIDE DEF Sizes
  <2> QED BY <2>1, Least
<1>3. PICK S \in SUBSET Nat :
        IsFiniteSet(S) /\ S # {} /\ Cardinality(S) = n /\ \A m \in S : ~IsLast(m, S)
  BY <1>2
<1>4. PICK x \in S : TRUE
  BY <1>3
<1> DEFINE R == S \ {x}
<1>5. IsFiniteSet(R) /\ Cardinality(R) = n - 1 /\ n \in Nat
  BY <1>2, <1>3, FS_RemoveElement
<1>6. R # {}
  <2> SUFFICES ASSUME R = {} PROVE FALSE
    OBVIOUS
  <2>1. IsLast(x, S)
    BY DEF IsLast
  <2> QED BY <1>3, <2>1
<1>7. PICK m \in R : IsLast(m, R)
  <2> SUFFICES ASSUME \A m \in R : ~IsLast(m, R) PROVE FALSE
    OBVIOUS
  <2>1. Cardinality(R) \in Nat
    BY <1>5, FS_CardinalityType
  <2>2. Cardinality(R) \in Sizes
    BY <1>5, <1>6, <2>1
  <2> HIDE DEF Sizes, R
  <2> QED BY <1>2, <1>5, <2>1, <2>2
<1>8. CASE m <= x
  <2>1. IsLast(x, S)
    BY <1>7, <1>8 DEF IsLast
  <2> QED BY <1>3, <2>1
<1>9. CASE x < m
  <2>1. IsLast(m, S)
    BY <1>7, <1>9 DEF IsLast
  <2> QED BY <1>3, <1>7, <2>1
<1> QED BY <1>8, <1>9

(* Up to a row of R. *)
UpTo(R, k) == {j \in R : j <= k}

(***************************************************************************)
(* What a bounded query returns: with a row every row before it, and, when *)
(* it returns less than it may, all there is.                              *)
(***************************************************************************)
LEMMA FirstRows ==
  ASSUME NEW R \in SUBSET Nat, IsFiniteSet(R)
  PROVE  /\ FirstOf(R) \in SUBSET R /\ IsFiniteSet(FirstOf(R))
         /\ \A k \in FirstOf(R), j \in R : j <= k => j \in FirstOf(R)
         /\ Cardinality(FirstOf(R)) # Batch => FirstOf(R) = R
<1> DEFINE S == FirstOf(R)
<1>1. /\ S \in SUBSET R /\ IsFiniteSet(S)
      /\ \A k \in R : k \in S <=> Cardinality(UpTo(R, k)) <= Batch
  BY FS_Subset DEF FirstOf, UpTo
<1>2. \A k \in R : IsFiniteSet(UpTo(R, k)) /\ Cardinality(UpTo(R, k)) \in Nat
  BY FS_Subset, FS_CardinalityType DEF UpTo
<1> HIDE DEF S
<1>3. ASSUME NEW k \in S, NEW j \in R, j <= k PROVE j \in S
  <2>1. k \in R /\ UpTo(R, j) \in SUBSET UpTo(R, k)
    <3>1. k \in Nat /\ j \in Nat /\ k \in R
      BY <1>1
    <3>2. ASSUME NEW i \in R, i <= j PROVE i <= k
      BY <1>3, <3>1, <3>2
    <3> QED BY <3>1, <3>2 DEF UpTo
  <2>2. Cardinality(UpTo(R, j)) <= Cardinality(UpTo(R, k))
    BY <1>2, <2>1, FS_Subset
  <2> QED BY <1>1, <1>2, <2>1, <2>2, BoundsAssumption
<1>4. Cardinality(S) \in Nat /\ Cardinality(S) <= Batch
  <2>1. Cardinality(S) \in Nat
    BY <1>1, FS_CardinalityType
  <2>2. CASE S = {}
    BY <2>2, FS_EmptySet, BoundsAssumption
  <2>3. CASE S # {}
    <3>1. PICK m \in S : IsLast(m, S)
      BY <1>1, <2>3, Greatest
    <3>2. S \in SUBSET UpTo(R, m) /\ m \in R
      BY <1>1, <3>1 DEF UpTo, IsLast
    <3>3. Cardinality(S) <= Cardinality(UpTo(R, m))
      BY <1>2, <3>2, FS_Subset
    <3> QED BY <1>1, <1>2, <2>1, <3>2, <3>3, BoundsAssumption
  <2> QED BY <2>1, <2>2, <2>3
<1>5. ASSUME S # R PROVE Cardinality(S) = Batch
  <2>1. PICK m \in R \ S : \A y \in R \ S : m <= y
    <3>1. R \ S \in SUBSET Nat /\ R \ S # {}
      BY <1>1, <1>5
    <3> QED BY <3>1, Least
  <2>2. UpTo(R, m) \in SUBSET (S \cup {m})
    <3>1. ASSUME NEW j \in UpTo(R, m), j \notin S, j # m PROVE FALSE
      BY <2>1, <3>1 DEF UpTo
    <3> QED BY <3>1
  <2>3. IsFiniteSet(S \cup {m}) /\ Cardinality(S \cup {m}) = Cardinality(S) + 1
    BY <1>1, <2>1, FS_AddElement
  <2>4. Cardinality(UpTo(R, m)) <= Cardinality(S \cup {m})
    BY <2>2, <2>3, FS_Subset
  <2>5. ~(Cardinality(UpTo(R, m)) <= Batch)
    BY <1>1, <2>1
  <2> QED BY <1>2, <1>4, <2>1, <2>3, <2>4, <2>5, BoundsAssumption
<1> QED BY <1>1, <1>3, <1>5 DEF S

LEMMA LastSent ==
  ASSUME NEW S \in SUBSET Nat, IsFiniteSet(S), NEW after \in Nat, \A s \in S : after < s
  PROVE  /\ LastOf(S, after) \in Nat /\ after <= LastOf(S, after)
         /\ \A s \in S : s <= LastOf(S, after)
         /\ LastOf(S, after) \in S \cup {after}
<1>1. CASE S = {}
  BY <1>1 DEF LastOf
<1>2. CASE S # {}
  <2>1. \E k \in S : \A j \in S : j <= k
    BY <1>2, Greatest DEF IsLast
  <2>2. LastOf(S, after) \in S /\ \A j \in S : j <= LastOf(S, after)
    <3> DEFINE Top(k) == \A j \in S : j <= k
    <3>1. LastOf(S, after) = CHOOSE k \in S : Top(k)
      BY <1>2 DEF LastOf
    <3>2. \E k \in S : Top(k)
      BY <2>1
    <3> HIDE DEF Top
    <3>3. LastOf(S, after) \in S /\ Top(LastOf(S, after))
      BY <3>1, <3>2
    <3> QED BY <3>3 DEF Top
  <2>3. LastOf(S, after) \in Nat /\ after < LastOf(S, after)
    BY <2>2
  <2> QED BY <2>2, <2>3
<1> QED BY <1>1, <1>2

(***************************************************************************)
(* The invariant of an export under way: the rows watched are there and in *)
(* its range, nothing past the last row sent has been sent, everything     *)
(* watched up to it has, and after a short batch nothing watched is left.  *)
(***************************************************************************)
ExportTypes ==
  /\ export \in [on: BOOLEAN, from: Nat, to: Nat, after: Nat, full: BOOLEAN]
  /\ sent \in [Keys -> Nat]
  /\ through \in SUBSET Keys
  /\ requests \in Nat /\ removals \in Nat /\ exports \in Nat
InRange(k) == export.from <= Date[k] /\ Date[k] < export.to
Watched == \A k \in through : export.on /\ rows[k] # {} /\ InRange(k)
SentSoFar ==
  \A k \in Keys :
    /\ sent[k] <= 1
    /\ ~export.on \/ export.after < k => sent[k] = 0
    /\ k \in through /\ k <= export.after => sent[k] = 1
NoneLeft == export.on /\ ~export.full => \A k \in through : k <= export.after

ExportInv == ExportTypes /\ Watched /\ SentSoFar /\ NoneLeft

(* A batch sent: of the rows that are there, the first ones past the last row sent. *)
LEMMA BatchSent ==
  ASSUME sent \in [Keys -> Nat], NEW from \in Nat, NEW to \in Nat, NEW after \in Nat,
         Sending(from, to, after, Fetched(from, to, after)),
         rows' = rows, through' \subseteq RowsOf(from, to),
         \A k \in Keys : sent[k] <= 1 /\ (after < k => sent[k] = 0),
         \A k \in through' : k <= after => sent[k] = 1,
         requests' \in Nat, removals' \in Nat, exports' \in Nat
  PROVE  ExportInv'
<1> DEFINE R == {k \in RowsOf(from, to) : k > after}
           S == FirstOf(R)
           l == LastOf(S, after)
<1>1. R \in SUBSET Keys /\ R \in SUBSET Nat /\ IsFiniteSet(R) /\ Keys \in SUBSET Nat
  BY KeysAssumption, FS_Subset DEF RowsOf, Present
<1>2. \A k \in R : after < k
  BY <1>1
<1>3. /\ sent' = [k \in Keys |-> sent[k] + IF k \in S THEN 1 ELSE 0]
      /\ export' = [on |-> TRUE, from |-> from, to |-> to, after |-> l, full |-> Cardinality(S) = Batch]
  BY DEF Sending, Fetched
<1>4. \A k \in RowsOf(from, to) : k \in Keys /\ rows[k] # {} /\ from <= Date[k] /\ Date[k] < to
  BY DEF RowsOf, Present
<1>5. \A k \in RowsOf(from, to) : after < k => k \in R
  BY <1>1, <1>4
<1> HIDE DEF R
<1>6. /\ S \in SUBSET R /\ IsFiniteSet(S)
      /\ \A k \in S, j \in R : j <= k => j \in S
      /\ Cardinality(S) # Batch => S = R
  BY <1>1, FirstRows
<1> HIDE DEF S
<1>7. l \in Nat /\ after <= l /\ (\A s \in S : s <= l) /\ l \in S \cup {after}
  BY <1>1, <1>2, <1>6, LastSent
<1> HIDE DEF l
<1>8. \A k \in Keys : sent'[k] = sent[k] + IF k \in S THEN 1 ELSE 0
  BY <1>3
<1>9. \A k \in Keys : k \in Nat
  BY <1>1
<1>10. ExportTypes'
  BY <1>3, <1>4, <1>7 DEF ExportTypes
<1>11. Watched'
  BY <1>3, <1>4 DEF Watched, InRange
<1>12. SentSoFar'
  <2> SUFFICES ASSUME NEW k \in Keys
               PROVE  /\ sent'[k] <= 1
                      /\ l < k => sent'[k] = 0
                      /\ k \in through' /\ k <= l => sent'[k] = 1
    BY <1>3 DEF SentSoFar
  <2>1. k \in S => after < k /\ sent[k] = 0 /\ k <= l
    BY <1>2, <1>6, <1>7
  <2>2. sent[k] \in Nat /\ sent[k] <= 1 /\ k \in Nat
    BY <1>9
  <2>3. sent'[k] <= 1
    BY <1>8, <2>1, <2>2
  <2>4. ASSUME l < k PROVE sent'[k] = 0
    <3>1. k \notin S /\ after < k
      BY <1>7, <1>9, <2>1, <2>4
    <3> QED BY <1>8, <3>1
  <2>5. ASSUME k \in through', k <= l PROVE sent'[k] = 1
    <3>1. CASE k <= after
      <4>1. k \notin S /\ sent[k] = 1
        BY <1>9, <2>1, <2>5, <3>1
      <4> QED BY <1>8, <4>1
    <3>2. CASE after < k
      <4>1. k \in R
        BY <1>5, <2>5, <3>2
      <4>2. l \in S
        BY <1>7, <1>9, <2>5, <3>2
      <4>3. k \in S
        BY <1>6, <2>5, <4>1, <4>2
      <4> QED BY <1>8, <2>1, <4>3
    <3> QED BY <1>9, <3>1, <3>2
  <2> QED BY <2>3, <2>4, <2>5
<1>13. NoneLeft'
  <2> SUFFICES ASSUME Cardinality(S) # Batch, NEW k \in through'
               PROVE  k <= l
    BY <1>3 DEF NoneLeft
  <2>1. k \in Nat /\ k \in RowsOf(from, to)
    BY <1>4, <1>9
  <2>2. CASE k <= after
    BY <1>7, <2>1, <2>2
  <2>3. CASE after < k
    BY <1>5, <1>6, <1>7, <2>1, <2>3
  <2> QED BY <2>1, <2>2, <2>3
<1> QED BY <1>10, <1>11, <1>12, <1>13 DEF ExportInv

(* A step that sends nothing and stops watching the rows it takes away. *)
LEMMA NothingSent ==
  ASSUME ExportInv, UNCHANGED <<export, sent>>, through' \subseteq through,
         \A k \in through' : rows'[k] # {},
         requests' \in Nat, removals' \in Nat, exports' \in Nat
  PROVE  ExportInv'
BY DEF ExportInv, ExportTypes, Watched, InRange, SentSoFar, NoneLeft

LEMMA ExportInit == Init => ExportInv
BY DEF Init, ExportInv, ExportTypes, Watched, SentSoFar, NoneLeft, NoExport

LEMMA ExportStep == UInv /\ ExportInv /\ [Next]_vars => ExportInv'
<1> SUFFICES ASSUME UInv, ExportInv, [Next]_vars PROVE ExportInv'
  OBVIOUS
<1>1. /\ rows \in [Keys -> SUBSET Deltas] /\ through \in SUBSET Keys /\ sent \in [Keys -> Nat]
      /\ requests \in Nat /\ removals \in Nat /\ exports \in Nat
  BY DEF Types, ExportInv, ExportTypes
<1>2. \A k \in through : rows[k] # {}
  BY DEF ExportInv, Watched
<1>3. ASSUME NEW d \in Deltas, Book(d) PROVE ExportInv'
  <2>1. \A k \in Keys : rows[k] \subseteq rows'[k]
    BY <1>1, <1>3 DEF Book
  <2>2. UNCHANGED <<export, sent, through, requests, removals, exports>>
    BY <1>3 DEF Book, reading, counts
  <2> QED BY <1>1, <1>2, <2>1, <2>2, NothingSent
<1>4. ASSUME NEW S \in SUBSET Keys, Discard(S) PROVE ExportInv'
  <2>1. /\ through' = through \ S /\ \A k \in Keys \ S : rows'[k] = rows[k]
        /\ UNCHANGED <<export, sent, requests, exports>> /\ removals' = removals + 1
    BY <1>1, <1>4 DEF Discard, Without
  <2> QED BY <1>1, <1>2, <2>1, NothingSent
<1>5. ASSUME NEW before \in Cutoffs, Cleanup(before) PROVE ExportInv'
  <2>1. {k \in Present : Date[k] < before} \in SUBSET Keys
    BY DEF Present
  <2> QED BY <1>4, <1>5, <2>1 DEF Cleanup
<1>6. ASSUME NEW o \in Devices, DropDevice(o) PROVE ExportInv'
  <2>1. {k \in Present : Owner[k] = o} \in SUBSET Keys
    BY DEF Present
  <2> QED BY <1>4, <1>6, <2>1 DEF DropDevice
<1>7. ASSUME NEW a \in Admins, Commit(a) PROVE ExportInv'
  <2>1. /\ through' = through \ gone[a] /\ \A k \in Keys \ gone[a] : rows'[k] = rows[k]
        /\ UNCHANGED <<export, sent, counts>>
    BY <1>1, <1>7 DEF Commit, Without
  <2> QED BY <1>1, <1>2, <2>1, NothingSent DEF counts
<1>8. ASSUME NEW a \in Admins,
             (\E s \in Scopes : BeginReset(a, s)) \/ Copy(a) \/ Delete(a) \/ Refuse(a) \/ Fail(a)
      PROVE  ExportInv'
  <2>1. /\ UNCHANGED <<rows, export, sent, through, removals, exports>>
        /\ requests' = requests \/ requests' = requests + 1
    BY <1>8 DEF BeginReset, Copy, Delete, Refuse, Fail, table, reading, counts
  <2>2. requests' \in Nat
    BY <1>1, <2>1
  <2> QED BY <1>1, <1>2, <2>1, <2>2, NothingSent
<1>9. ASSUME NEW from \in {Date[k] : k \in Keys} \cup {Date[k] + 1 : k \in Keys},
             NEW to \in {Date[k] : k \in Keys} \cup {Date[k] + 1 : k \in Keys}, BeginExport(from, to)
      PROVE  ExportInv'
  <2>1. from \in Nat /\ to \in Nat /\ 0 \in Nat
    BY KeysAssumption
  <2>2. /\ Sending(from, to, 0, Fetched(from, to, 0)) /\ through' = RowsOf(from, to)
        /\ rows' = rows /\ requests' = requests /\ removals' = removals /\ exports' = exports + 1
    BY <1>9 DEF BeginExport, table
  <2>3. \A k \in Keys : sent[k] = 0
    BY <1>9 DEF BeginExport, ExportInv, SentSoFar
  <2>4. \A k \in through' : ~(k <= 0)
    BY <2>2, KeysAssumption DEF RowsOf, Present
  <2> QED BY <1>1, <2>1, <2>2, <2>3, <2>4, BatchSent
<1>10. ASSUME NextBatch PROVE ExportInv'
  <2> DEFINE from == export.from
             to == export.to
             after == export.after
  <2>1. from \in Nat /\ to \in Nat /\ after \in Nat /\ export.on
    BY <1>10 DEF NextBatch, ExportInv, ExportTypes
  <2>2. /\ Sending(from, to, after, Fetched(from, to, after))
        /\ UNCHANGED <<rows, through, requests, removals, exports>>
    BY <1>10 DEF NextBatch, table, counts
  <2>3. \A k \in Keys : sent[k] <= 1 /\ (after < k => sent[k] = 0)
    BY DEF ExportInv, SentSoFar
  <2>4. \A k \in through' : k <= after => sent[k] = 1
    BY <1>1, <2>2 DEF ExportInv, SentSoFar
  <2>5. through' \subseteq RowsOf(from, to)
    BY <1>1, <2>2 DEF ExportInv, Watched, InRange, RowsOf, Present
  <2> HIDE DEF from, to, after
  <2> QED BY <1>1, <2>1, <2>2, <2>3, <2>4, <2>5, BatchSent
<1>11. ASSUME EndExport PROVE ExportInv'
  BY <1>1, <1>11 DEF EndExport, NoExport, counts, ExportInv, ExportTypes, Watched, SentSoFar, NoneLeft
<1>12. ASSUME Over \/ UNCHANGED vars PROVE ExportInv'
  BY <1>1, <1>2, <1>12, NothingSent DEF Over, vars, table, reading, counts
<1> QED BY <1>3, <1>5, <1>6, <1>7, <1>8, <1>9, <1>10, <1>11, <1>12 DEF Next

LEMMA ExportInvariance == Spec => []ExportInv
<1> QED BY UsageInit, UsageStep, ExportInit, ExportStep, PTL DEF Spec

(***************************************************************************)
(* For any rows, range and batch: an export that pages by the last row     *)
(* sent misses no row that is there all the time and sends none twice,     *)
(* whatever is deleted, archived and added under it:                       *)
(* export_usage_history.                                                   *)
(***************************************************************************)
THEOREM ExportsEverything == Spec => []ExportComplete
<1>1. ExportInv => ExportComplete
  BY DEF ExportInv, ExportTypes, SentSoFar, NoneLeft, ExportComplete
<1> QED BY <1>1, ExportInvariance, PTL

(* The variables stay what they are declared to be. *)
THEOREM TypeCorrect == Spec => []TypeOK
<1>1. UInv /\ ExportInv => TypeOK
  BY DEF Types, ExportInv, ExportTypes, TypeOK
<1> QED BY <1>1, UsageInvariance, ExportInvariance, PTL
=============================================================================
