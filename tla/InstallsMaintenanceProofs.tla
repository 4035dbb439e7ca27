---------------------- MODULE InstallsMaintenanceProofs ----------------------
(***************************************************************************)
(* What holds of the maintenance requests for any payloads, rows and       *)
(* requests.  That counters follow payloads is proved without a look into  *)
(* a payload; the later theorems rest on what stamping and clearing do.    *)
(***************************************************************************)
EXTENDS InstallsMaintenance, Sequences, FiniteSetTheorems, WellFoundedInduction, TLAPS

Domains ==
  /\ DOMAIN data = Rows /\ DOMAIN counts = Rows
  /\ DOMAIN aged = Admins /\ DOMAIN plan = Admins /\ DOMAIN pending = Admins
  /\ \A a \in Admins : DOMAIN pending[a] = Rows

(* What a request is about to write was counted on the payload that goes with it, or if *)
(* it writes none, on the payload it has read.                                           *)
PlansCounted ==
  \A a \in Admins : \A w \in aged[a] \cup plan[a] : w.row \in Rows /\ w.counts = Counts(w.is)

(* What it has written is right, unless it wrote counters over another payload. *)
PendingCounted ==
  \A a \in Admins : \A r \in Rows :
    pending[a][r] # Absent /\ pending[a][r].sure
      => pending[a][r].counts = Counts(pending[a][r].data.is)

CountInv == Domains /\ PlansCounted /\ PendingCounted /\ CountersFollow

-----------------------------------------------------------------------------
(* A row that exists is a row. *)
LEMMA PresentRows == Present \subseteq Rows
BY DEF Present

LEMMA CountInit == Init => CountInv
<1> SUFFICES ASSUME Init PROVE CountInv OBVIOUS
<1>1. Domains BY DEF Init, Domains, Nothing
<1>2. PlansCounted BY DEF Init, PlansCounted
<1>3. PendingCounted BY DEF Init, PendingCounted, Nothing
<1>4. CountersFollow BY DEF Init, CountersFollow, Present
<1> QED BY <1>1, <1>2, <1>3, <1>4 DEF CountInv

(* A step that leaves rows, plans and transactions alone. *)
LEMMA CountUntouched ==
  CountInv /\ UNCHANGED <<data, counts, aged, plan, pending, doubtful>> => CountInv'
BY DEF CountInv, Domains, PlansCounted, PendingCounted, CountersFollow, Present

(* A step that only plans, and plans writes that are counted. *)
LEMMA CountPlanned ==
  /\ CountInv
  /\ UNCHANGED <<data, counts, pending, doubtful>>
  /\ DOMAIN aged' = Admins /\ DOMAIN plan' = Admins
  /\ PlansCounted'
  => CountInv'
BY DEF CountInv, Domains, PendingCounted, CountersFollow, Present

LEMMA CountStore ==
  ASSUME CountInv, NEW r \in Rows, NEW report \in Reports, Store(r, report)
  PROVE  CountInv'
<1> DEFINE p == Stamped(report)
<1>1. /\ data' = [data EXCEPT ![r] = [by |-> reports + 1, is |-> p]]
      /\ counts' = [counts EXCEPT ![r] = CountersOf(r, p)]
      /\ doubtful' = IF data[r] # Absent /\ data[r].is = p THEN doubtful ELSE doubtful \ {r}
      /\ UNCHANGED <<aged, plan, pending>>
  BY DEF Store, request
<1> HIDE DEF p
<1>2. Domains' BY <1>1 DEF CountInv, Domains
<1>3. PlansCounted' /\ PendingCounted' BY <1>1 DEF CountInv, PlansCounted, PendingCounted
<1>4. CountersFollow'
  <2> SUFFICES ASSUME NEW q \in Rows, data'[q] # Absent, q \notin doubtful'
               PROVE  counts'[q] = Counts(data'[q].is)
    BY DEF CountersFollow, Present
  <2>1. CASE q = r
    <3>1. data'[q].is = p /\ counts'[q] = CountersOf(r, p)
      BY <1>1, <2>1 DEF CountInv, Domains
    <3>2. CASE data[r] # Absent /\ data[r].is = p
      <4>1. r \in Present \ doubtful BY <1>1, <2>1, <3>2 DEF Present
      <4>2. counts[r] = Counts(p) BY <3>2, <4>1 DEF CountInv, CountersFollow
      <4> QED BY <3>1, <3>2, <4>2 DEF CountersOf
    <3>3. CASE ~(data[r] # Absent /\ data[r].is = p)
      BY <3>1, <3>3 DEF CountersOf
    <3> QED BY <3>2, <3>3
  <2>2. CASE q # r
    <3>1. data'[q] = data[q] /\ counts'[q] = counts[q] BY <1>1, <2>2 DEF CountInv, Domains
    <3>2. q \in Present \ doubtful BY <1>1, <2>2, <3>1 DEF Present
    <3> QED BY <3>1, <3>2 DEF CountInv, CountersFollow
  <2> QED BY <2>1, <2>2
<1> QED BY <1>2, <1>3, <1>4 DEF CountInv

LEMMA CountBeginClear ==
  ASSUME CountInv, NEW a \in Admins, NEW all \in BOOLEAN, NEW byAge \in BOOLEAN,
         BeginClear(a, all, byAge)
  PROVE  CountInv'
<1> DEFINE W == UNION {Writes(r, Cleared(data[r].is), FALSE) : r \in Silent(all)}
<1>1. /\ plan' = [plan EXCEPT ![a] = W]
      /\ UNCHANGED <<data, counts, aged, pending, doubtful>>
  BY DEF BeginClear, Begin, table
<1>2. ASSUME NEW w \in W PROVE w.row \in Rows /\ w.counts = Counts(w.is)
  <2>1. PICK r \in Silent(all) : w \in Writes(r, Cleared(data[r].is), FALSE)
    OBVIOUS
  <2>2. r \in Rows BY PresentRows DEF Silent
  <2>3. w.row = r /\ w.counts = Counts(w.is) BY <2>1 DEF Writes, AWrite
  <2> QED BY <2>2, <2>3
<1> HIDE DEF W
<1>3. PlansCounted' BY <1>1, <1>2 DEF CountInv, Domains, PlansCounted
<1>4. DOMAIN aged' = Admins /\ DOMAIN plan' = Admins BY <1>1 DEF CountInv, Domains
<1> QED BY <1>1, <1>3, <1>4, CountPlanned

LEMMA CountListItems ==
  ASSUME CountInv, NEW a \in Admins, ListItems(a)
  PROVE  CountInv'
<1> DEFINE W == UNION {Writes(r, ClearedByAge(data[r].is), TRUE) :
                         r \in {q \in Present : ClearedByAge(data[q].is) # data[q].is}}
<1>1. /\ aged' = [aged EXCEPT ![a] = W]
      /\ UNCHANGED <<data, counts, plan, pending, doubtful>>
  BY DEF ListItems, table, history
<1>2. ASSUME NEW w \in W PROVE w.row \in Rows /\ w.counts = Counts(w.is)
  <2>1. PICK r \in {q \in Present : ClearedByAge(data[q].is) # data[q].is} : w \in Writes(r, ClearedByAge(data[r].is), TRUE)
    OBVIOUS
  <2>2. r \in Rows BY PresentRows
  <2>3. w.row = r /\ w.counts = Counts(w.is) BY <2>1 DEF Writes, AWrite
  <2> QED BY <2>2, <2>3
<1> HIDE DEF W
<1>3. PlansCounted' BY <1>1, <1>2 DEF CountInv, Domains, PlansCounted
<1>4. DOMAIN aged' = Admins /\ DOMAIN plan' = Admins BY <1>1 DEF CountInv, Domains
<1> QED BY <1>1, <1>3, <1>4, CountPlanned

LEMMA CountReadBatch ==
  ASSUME CountInv, NEW a \in Admins, ReadBatch(a)
  PROVE  CountInv'
<1> DEFINE W == UNION {Writes(r, Stamped(data[r].is), TRUE) : r \in NextRows(a)}
<1>1. /\ plan' = [plan EXCEPT ![a] = W]
      /\ UNCHANGED <<data, counts, aged, pending, doubtful>>
  BY DEF ReadBatch, table, history
<1>2. ASSUME NEW w \in W PROVE w.row \in Rows /\ w.counts = Counts(w.is)
  <2>1. PICK r \in NextRows(a) : w \in Writes(r, Stamped(data[r].is), TRUE)
    OBVIOUS
  <2>2. r \in Rows BY PresentRows DEF NextRows
  <2>3. w.row = r /\ w.counts = Counts(w.is) BY <2>1 DEF Writes, AWrite
  <2> QED BY <2>2, <2>3
<1> HIDE DEF W
<1>3. PlansCounted' BY <1>1, <1>2 DEF CountInv, Domains, PlansCounted
<1>4. DOMAIN aged' = Admins /\ DOMAIN plan' = Admins BY <1>1 DEF CountInv, Domains
<1> QED BY <1>1, <1>3, <1>4, CountPlanned

(* An UPDATE takes a write from the plan into the transaction. *)
LEMMA CountUpdate ==
  ASSUME CountInv, NEW a \in Admins, NEW w \in aged[a] \cup plan[a], Update(a, w)
  PROVE  CountInv'
<1> DEFINE r == w.row
           now == IF pending[a][r] # Absent THEN pending[a][r]
                  ELSE [data |-> data[r], counts |-> counts[r]]
           written == [data |-> IF w.both THEN [by |-> w.by, is |-> w.is] ELSE now.data,
                       counts |-> w.counts, sure |-> w.both \/ now.data.is = w.is]
<1>1. /\ pending' = [pending EXCEPT ![a][r] = written]
      /\ aged' = [aged EXCEPT ![a] = @ \ {w}]
      /\ plan' = [plan EXCEPT ![a] = IF w \in aged[a] THEN @ ELSE @ \ {w}]
      /\ UNCHANGED <<data, counts, doubtful>>
  BY DEF Update, table, history
<1>2. r \in Rows /\ w.counts = Counts(w.is) BY DEF CountInv, PlansCounted
<1>3. written.sure => written.counts = Counts(written.data.is) BY <1>2
<1> HIDE DEF r, written
<1>4. Domains' BY <1>1, <1>2 DEF CountInv, Domains
<1>5. PlansCounted' BY <1>1 DEF CountInv, Domains, PlansCounted
<1>6. PendingCounted'
  <2> SUFFICES ASSUME NEW b \in Admins, NEW q \in Rows, pending'[b][q] # Absent, pending'[b][q].sure
               PROVE  pending'[b][q].counts = Counts(pending'[b][q].data.is)
    BY DEF PendingCounted
  <2>1. CASE b = a /\ q = r
    <3>1. pending'[b][q] = written BY <1>1, <1>2, <2>1 DEF CountInv, Domains
    <3> QED BY <1>3, <3>1
  <2>2. CASE ~(b = a /\ q = r)
    <3>1. pending'[b][q] = pending[b][q] BY <1>1, <1>2, <2>2 DEF CountInv, Domains
    <3> QED BY <3>1 DEF CountInv, PendingCounted
  <2> QED BY <2>1, <2>2
<1>7. CountersFollow' BY <1>1 DEF CountInv, CountersFollow, Present
<1> QED BY <1>4, <1>5, <1>6, <1>7 DEF CountInv

(* A commit brings in what was written; what is not sure becomes doubtful. *)
LEMMA CountCommit ==
  ASSUME CountInv, NEW a \in Admins, Commit(a)
  PROVE  CountInv'
<1>1. /\ data' = [r \in Rows |-> IF r \in Touched(a) THEN pending[a][r].data ELSE data[r]]
      /\ counts' = [r \in Rows |-> IF r \in Touched(a) THEN pending[a][r].counts ELSE counts[r]]
      /\ pending' = [pending EXCEPT ![a] = Nothing]
      /\ doubtful' = (doubtful \ Touched(a)) \cup {r \in Touched(a) : ~pending[a][r].sure}
      /\ UNCHANGED <<aged, plan>>
  BY DEF Commit
<1>2. Domains' BY <1>1 DEF CountInv, Domains, Nothing
<1>3. PlansCounted' BY <1>1 DEF CountInv, PlansCounted
<1>4. PendingCounted' BY <1>1 DEF CountInv, Domains, PendingCounted, Nothing
<1>5. CountersFollow'
  <2> SUFFICES ASSUME NEW q \in Rows, data'[q] # Absent, q \notin doubtful'
               PROVE  counts'[q] = Counts(data'[q].is)
    BY DEF CountersFollow, Present
  <2>1. CASE q \in Touched(a)
    <3>1. pending[a][q] # Absent /\ pending[a][q].sure BY <1>1, <2>1 DEF Touched
    <3>2. pending[a][q].counts = Counts(pending[a][q].data.is)
      BY <3>1 DEF CountInv, PendingCounted
    <3> QED BY <1>1, <2>1, <3>2
  <2>2. CASE q \notin Touched(a)
    <3>1. data'[q] = data[q] /\ counts'[q] = counts[q] BY <1>1, <2>2
    <3>2. q \in Present \ doubtful BY <1>1, <2>2, <3>1 DEF Present
    <3> QED BY <3>1, <3>2 DEF CountInv, CountersFollow
  <2> QED BY <2>1, <2>2
<1> QED BY <1>2, <1>3, <1>4, <1>5 DEF CountInv

LEMMA CountFail ==
  ASSUME CountInv, NEW a \in Admins, Fail(a)
  PROVE  CountInv'
<1>1. /\ aged' = [aged EXCEPT ![a] = {}]
      /\ plan' = [plan EXCEPT ![a] = {}]
      /\ pending' = [pending EXCEPT ![a] = Nothing]
      /\ UNCHANGED <<data, counts, doubtful>>
  BY DEF Fail, table, history
<1>2. Domains' BY <1>1 DEF CountInv, Domains, Nothing
<1>3. PlansCounted' BY <1>1 DEF CountInv, Domains, PlansCounted
<1>4. PendingCounted' BY <1>1 DEF CountInv, Domains, PendingCounted, Nothing
<1>5. CountersFollow' BY <1>1 DEF CountInv, CountersFollow, Present
<1> QED BY <1>2, <1>3, <1>4, <1>5 DEF CountInv

LEMMA CountStep == CountInv /\ [Next]_vars => CountInv'
<1> SUFFICES ASSUME CountInv, [Next]_vars PROVE CountInv' OBVIOUS
<1>1. CASE UNCHANGED vars BY <1>1, CountUntouched DEF vars, table, request, history
<1>2. ASSUME NEW r \in Rows, FallSilent(r) PROVE CountInv'
  BY <1>2, CountUntouched DEF FallSilent, request, history
<1>3. ASSUME NEW r \in Rows, NEW report \in Reports, Store(r, report) PROVE CountInv'
  BY <1>3, CountStore
<1>4. ASSUME NEW a \in Admins, NEW all \in BOOLEAN, NEW byAge \in BOOLEAN, BeginClear(a, all, byAge)
      PROVE  CountInv'
  BY <1>4, CountBeginClear
<1>5. ASSUME NEW a \in Admins, ListItems(a) PROVE CountInv' BY <1>5, CountListItems
<1>6. ASSUME NEW a \in Admins, BeginReclassify(a) PROVE CountInv'
  BY <1>6, CountUntouched DEF BeginReclassify, Begin, table
<1>7. ASSUME NEW a \in Admins, ReadBatch(a) PROVE CountInv' BY <1>7, CountReadBatch
<1>8. ASSUME NEW a \in Admins, EndReclassify(a) PROVE CountInv'
  BY <1>8, CountUntouched DEF EndReclassify, table, history
<1>9. ASSUME NEW a \in Admins, NEW w \in aged[a] \cup plan[a], Update(a, w) PROVE CountInv'
  BY <1>9, CountUpdate
<1>10. ASSUME NEW a \in Admins, Commit(a) PROVE CountInv' BY <1>10, CountCommit
<1>11. ASSUME NEW a \in Admins, Fail(a) PROVE CountInv' BY <1>11, CountFail
<1> QED BY <1>1, <1>2, <1>3, <1>4, <1>5, <1>6, <1>7, <1>8, <1>9, <1>10, <1>11 DEF Next

(***************************************************************************)
(* The counters of a row agree with its payload, whatever requests and     *)
(* check-ins overlap, but for rows of an earlier release and rows whose    *)
(* counters alone were rewritten over another payload.                     *)
(***************************************************************************)
THEOREM CountersFollowPayloads == Spec => []CountersFollow
<1>1. CountInv => CountersFollow BY DEF CountInv
<1> QED BY CountInit, CountStep, <1>1, PTL DEF Spec

-----------------------------------------------------------------------------
(* What is done to payloads *)

(* A set of numbers has a least one. *)
LEMMA Least ==
  ASSUME NEW T \in SUBSET Nat, T # {}
  PROVE  \E x \in T : \A y \in T : x <= y
<1>1. PICK x \in T : \A y \in T : ~(<<y, x>> \in OpToRel(<, Nat))
  BY NatLessThanWellFounded, WFMin
<1>2. ASSUME NEW y \in T PROVE x <= y
  <2>1. <<y, x>> \in Nat \X Nat
    BY <1>1
  <2>2. y < x => <<y, x>> \in {ss \in Nat \X Nat : ss[1] < ss[2]}
    BY <2>1
  <2>3. y < x => <<y, x>> \in OpToRel(<, Nat)
    BY <2>2 DEF OpToRel
  <2>4. ~(y < x)
    BY <2>3, <1>1, Zenon
  <2> QED BY <2>4
<1> QED BY <1>2

(* The first of a few states is one of them, or none. *)
LEMMA FirstSaidIsAState ==
  ASSUME NEW s \in Seq(States \cup {"none"})
  PROVE  FirstSaid(s) \in States \cup {"none"}
<1> DEFINE said == {n \in DOMAIN s : s[n] # "none"}
           first == CHOOSE n \in said : \A m \in said : n <= m
<1>1. said \subseteq DOMAIN s /\ said \in SUBSET Nat
  OBVIOUS
<1>2. FirstSaid(s) = IF said = {} THEN "none" ELSE s[first]
  BY DEF FirstSaid
<1> HIDE DEF said
<1>3. said # {} => first \in said
  <2>1. said # {} => \E n \in said : \A m \in said : n <= m
    BY <1>1, Least
  <2> QED BY <2>1
<1> QED BY <1>1, <1>2, <1>3

LEMMA ClassIsAState ==
  ASSUME NEW i, NEW sessions
  PROVE  Classify(i, sessions) \in States \cup {"none"}
<1> DEFINE Said == States \cup {"none"}
<1>1. \A text : StateOf(text) \in Said
  BY DEF StateOf
<1>2. \A S, s : s \in Said => Only(S, s) \in Said
  BY DEF Only
<1>3. \A b, s : s \in Said => When(b, s) \in Said
  BY DEF When
<1>4. "error" \in Said /\ "warning" \in Said
  BY DEF States
<1> HIDE DEF Said
<1>5. \A t, u \in Said : <<t, u>> \in Seq(Said)
  OBVIOUS
<1>6. \A s \in Seq(Said) : FirstSaid(s) \in Said
  BY FirstSaidIsAState DEF Said
<1>7. ASSUME NEW s1 \in Said, NEW s2 \in Said, NEW s3 \in Said, NEW s4 \in Said, NEW s5 \in Said,
             NEW s6 \in Said, NEW s7 \in Said, NEW s8 \in Said, NEW s9 \in Said, NEW s10 \in Said
      PROVE  FirstSaid(<<s1, s2, s3, s4, s5, s6, s7, s8, s9, s10>>) \in Said
  <2>1. <<s1, s2, s3, s4, s5, s6, s7, s8, s9, s10>> \in Seq(Said)
    OBVIOUS
  <2> QED BY <1>6, <2>1
<1> DEFINE verdict == FirstSaid(<<StateOf(i.current), StateOf(i.mapped)>>)
           presence == StateOf(i.status)
<1>8. verdict \in Said /\ presence \in Said
  BY <1>1, <1>5, <1>6
<1> HIDE DEF verdict, presence
<1>9. Classify(i, sessions) \in Said
  <2> DEFINE reported == ~sessions \/ i.seen
             good == verdict \in {"installed", "removed"}
             s1 == Only(Problems, verdict)
             s2 == When(good /\ i.loop, "warning")
             s3 == When(good, verdict)
             s4 == Only(Problems, presence)
             s5 == Only(Problems, StateOf(i.attempt))
             s6 == When(reported /\ i.error, "error")
             s7 == When(reported /\ i.warning, "warning")
             s8 == When(i.loop, "warning")
  <2>1. Classify(i, sessions) = FirstSaid(<<s1, s2, s3, s4, s5, s6, s7, s8, verdict, presence>>)
    BY DEF Classify, verdict, presence
  <2>2. s1 \in Said /\ s2 \in Said /\ s3 \in Said /\ s4 \in Said
    BY <1>2, <1>3, <1>4, <1>8
  <2>3. s5 \in Said /\ s6 \in Said /\ s7 \in Said /\ s8 \in Said
    BY <1>1, <1>2, <1>3, <1>4
  <2> HIDE DEF s1, s2, s3, s4, s5, s6, s7, s8
  <2>4. FirstSaid(<<s1, s2, s3, s4, s5, s6, s7, s8, verdict, presence>>) \in Said
    BY <1>7, <1>8, <2>2, <2>3
  <2> QED BY <2>1, <2>4
<1> QED BY <1>9 DEF Said

(* Stamping sets nothing but the stamps, so a second time it changes nothing. *)
LEMMA StampedIs ==
  ASSUME NEW p \in Payload
  PROVE  /\ Stamped(p) \in Payload /\ Stamped(p).items = p.items
         /\ Stamped(Stamped(p)) = Stamped(p)
BY ClassIsAState DEF Stamped, Payload

(* Clearing an item leaves its age; a cleared one is not flagged any more. *)
LEMMA ClearedItemIs ==
  ASSUME NEW i \in Item, NEW platform \in {"cimian", "munki"}
  PROVE  /\ ClearedItem(platform, i) \in Item /\ ClearedItem(platform, i).age = i.age
         /\ ClearedItem(platform, ClearedItem(platform, i)) = ClearedItem(platform, i)
<1>1. {"", "Installed"} \subseteq Text
  <2>1. "installed" \in States /\ "Installed" \in Texts["installed"]
    BY DEF Texts, States
  <2> QED BY <2>1 DEF Text
<1>2. ClearedItem(platform, i) \in Item /\ ClearedItem(platform, i).age = i.age
  BY <1>1, ZenonT(40) DEF ClearedItem, Item
<1>3. ~Flagged(platform, ClearedItem(platform, i))
  BY DEF ClearedItem, Flagged, Item, CimianMatch, MunkiMatch, MunkiExact
<1> QED BY <1>2, <1>3 DEF ClearedItem

LEMMA ClearedIs ==
  ASSUME NEW p \in Payload
  PROVE  Cleared(p) \in Payload /\ Cleared(Cleared(p)) = Cleared(p)
<1>1. \A n \in Names : /\ ClearedItem(p.platform, p.items[n]) \in Item
                       /\ ClearedItem(p.platform, ClearedItem(p.platform, p.items[n])) = ClearedItem(p.platform, p.items[n])
  BY ClearedItemIs DEF Payload
<1> DEFINE items == [n \in Names |-> ClearedItem(p.platform, p.items[n])]
           run == IF p.platform = "munki" THEN {} ELSE p.run
<1>2. Cleared(p) = [p EXCEPT !.items = items, !.run = run]
  BY DEF Cleared
<1>3. items \in [Names -> Item] /\ run \in SUBSET Problems
  BY <1>1 DEF Payload
<1>4. [n \in Names |-> ClearedItem(p.platform, items[n])] = items
  BY <1>1
<1> HIDE DEF items
<1>5. /\ Cleared(p) \in Payload /\ Cleared(p).platform = p.platform
      /\ Cleared(p).items = items /\ Cleared(p).run = run
  BY <1>2, <1>3 DEF Payload
<1> DEFINE q == Cleared(p)
           again == [n \in Names |-> ClearedItem(q.platform, q.items[n])]
<1>6. Cleared(q) = [q EXCEPT !.items = again, !.run = IF q.platform = "munki" THEN {} ELSE q.run]
  BY DEF Cleared
<1>7. again = items
  BY <1>4, <1>5
<1>7a. q \in Payload /\ q.platform = p.platform /\ q.items = items /\ q.run = run
  BY <1>5
<1> HIDE DEF again, q
<1>8. Cleared(q) = q
  <2>1. (IF q.platform = "munki" THEN {} ELSE q.run) = q.run
    BY <1>7a
  <2>2. Cleared(q) = [q EXCEPT !.items = q.items, !.run = q.run]
    BY <1>6, <1>7, <1>7a, <2>1
  <2> QED BY <1>7a, <2>2 DEF Payload
<1> QED BY <1>5, <1>8 DEF q

(* The same for the cleanup of old items, and it leaves the others alone. *)
LEMMA ClearedByAgeIs ==
  ASSUME NEW p \in Payload
  PROVE  /\ ClearedByAge(p) \in Payload
         /\ \A n \in Names : /\ ClearedByAge(p).items[n].age = p.items[n].age
                             /\ p.items[n].age # "old" => ClearedByAge(p).items[n] = p.items[n]
         /\ Cleared(p) = p => ClearedByAge(p) = p
<1>1. \A n \in Names : p.items[n] \in Item /\ ClearedItem(p.platform, p.items[n]) \in Item
                       /\ ClearedItem(p.platform, p.items[n]).age = p.items[n].age
  BY ClearedItemIs DEF Payload
<1>2. ClearedByAge(p) = [platform |-> p.platform, sessions |-> p.sessions,
        items |-> [n \in Names |-> IF p.platform = "cimian" /\ p.items[n].age = "old"
                                   THEN ClearedItem(p.platform, p.items[n]) ELSE p.items[n]],
        run |-> p.run, failed |-> p.failed, stamp |-> p.stamp]
  BY DEF ClearedByAge, Payload
<1>3. Cleared(p) = p => \A n \in Names : ClearedItem(p.platform, p.items[n]) = p.items[n]
  <2>1. p.items = [n \in Names |-> p.items[n]] /\ Cleared(p).items = [n \in Names |-> ClearedItem(p.platform, p.items[n])]
    BY DEF Cleared, Payload
  <2> QED BY <2>1
<1>4. ClearedByAge(p) \in Payload
  BY <1>1, <1>2 DEF Payload
<1>5. Cleared(p) = p => ClearedByAge(p) = p
  BY <1>2, <1>3 DEF Payload
<1> QED BY <1>1, <1>2, <1>4, <1>5

(* Problems are counted in numbers. *)
LEMMA CountsAreNumbers ==
  ASSUME NEW p \in Payload
  PROVE  Counts(p) \in Counters
<1>1. \A T \in SUBSET Names : Cardinality(T) \in Nat
  BY NamesAssumption, FS_Subset, FS_CardinalityType
<1>2. \A st : Cardinality(InState(p, st)) \in Nat
  BY <1>1 DEF InState
<1>3. Cardinality(Unattributed(p)) \in Nat
  BY <1>1 DEF Unattributed, Payload
<1> QED BY <1>2, <1>3 DEF Counts, Counters

-----------------------------------------------------------------------------
(***************************************************************************)
(* Types.  What is about to be written, and what an open transaction has   *)
(* written, is of a row that is there; a request holds either only in the  *)
(* stages that write, and no two hold one row.                             *)
(***************************************************************************)
Writing == [row: Rows, by: Nat, is: Payload, both: BOOLEAN, counts: Counters]

DataTypes ==
  /\ data \in [Rows -> Stored \cup {Absent}] /\ counts \in [Rows -> Counters]
  /\ recent \in SUBSET Rows
  /\ overtaken \in SUBSET Rows /\ doubtful \in SUBSET Rows
  /\ blurred \in [Admins -> SUBSET Rows]
  /\ reports \in 0..MaxReports /\ requests \in 0..MaxRequests
RequestTypes ==
  /\ stage \in [Admins -> {"idle", "listed", "clearing", "batch", "stamping"}]
  /\ fleet \in [Admins -> BOOLEAN]
  /\ aged \in [Admins -> SUBSET Writing] /\ plan \in [Admins -> SUBSET Writing]
  /\ pending \in [Admins -> [Rows -> Written \cup {Absent}]]
  /\ last \in [Admins -> Rows \cup {0}]
OfPresent ==
  \A a \in Admins :
    /\ \A w \in aged[a] \cup plan[a] : w.row \in Present
    /\ \A r \in Rows : pending[a][r] # Absent => r \in Present
Empty ==
  \A a \in Admins :
    /\ stage[a] \in {"idle", "batch"} => plan[a] = {}
    /\ stage[a] # "clearing" => aged[a] = {}
    /\ stage[a] \in {"idle", "batch", "listed"} => pending[a] = Nothing
OneWriter ==
  \A a, b \in Admins, r \in Rows : a # b => pending[a][r] = Absent \/ pending[b][r] = Absent

TypeInv == DataTypes /\ RequestTypes /\ OfPresent /\ Empty /\ OneWriter

LEMMA TypeInit == Init => TypeInv
<1> SUFFICES ASSUME Init PROVE TypeInv
  OBVIOUS
<1>1. PICK l \in Legacy :
        /\ data = [r \in Rows |-> IF r = 1 THEN [by |-> 0, is |-> l.is] ELSE Absent]
        /\ counts = [r \in Rows |-> IF r = 1 THEN l.counts ELSE [errors |-> 0, warnings |-> 0]]
  BY DEF Init
<1>2. l.is \in Payload /\ l.counts \in Counters
  BY PayloadsAssumption
<1>3. [by |-> 0, is |-> l.is] \in Stored /\ [errors |-> 0, warnings |-> 0] \in Counters
  BY <1>2 DEF Stored, Counters
<1>4. DataTypes
  BY <1>1, <1>2, <1>3, BoundsAssumption, RowsAssumption DEF Init, DataTypes
<1>5. pending \in [Admins -> [Rows -> Written \cup {Absent}]] /\ \A a \in Admins, r \in Rows : pending[a][r] = Absent
  BY DEF Init, Nothing
<1>6. RequestTypes
  BY <1>5 DEF Init, RequestTypes
<1>7. OfPresent /\ Empty /\ OneWriter
  BY <1>5 DEF Init, OfPresent, Empty, OneWriter
<1> QED BY <1>4, <1>6, <1>7 DEF TypeInv

(* The writes that a query plans for a row it has read. *)
LEMMA WritesAreWrites ==
  ASSUME TypeInv, NEW r \in Present, NEW p \in Payload, NEW whole \in BOOLEAN
  PROVE  Writes(r, p, whole) \subseteq {w \in Writing : w.row = r /\ w.is = p}
<1>1. r \in Rows /\ data[r] \in Stored
  BY DEF Present, TypeInv, DataTypes
<1>2. ASSUME NEW both \in BOOLEAN PROVE AWrite(r, p, both) \in {w \in Writing : w.row = r /\ w.is = p}
  BY <1>1, CountsAreNumbers DEF AWrite, Writing, Stored
<1> DEFINE both == whole \/ p # data[r].is
<1>3. Writes(r, p, whole) \subseteq {AWrite(r, p, both)} /\ both \in BOOLEAN
  BY DEF Writes
<1> HIDE DEF both
<1> QED BY <1>2, <1>3

LEMMA TypeOfStore ==
  ASSUME TypeInv, NEW r \in Rows, NEW report \in Reports, Store(r, report)
  PROVE  TypeInv'
<1> DEFINE p == Stamped(report)
<1>1. p \in Payload
  BY StampedIs, PayloadsAssumption
<1> HIDE DEF p
<1>2. /\ data' = [data EXCEPT ![r] = [by |-> reports + 1, is |-> p]]
      /\ counts' = [counts EXCEPT ![r] = CountersOf(r, p)]
      /\ UNCHANGED <<stage, fleet, aged, plan, pending, last, requests>>
      /\ recent' = recent \cup {r} /\ reports' = reports + 1 /\ reports < MaxReports
      /\ overtaken' \subseteq overtaken \cup {r} /\ doubtful' \subseteq doubtful
      /\ blurred' = [a \in Admins |-> IF Clears(a) THEN blurred[a] \cup {r} ELSE blurred[a]]
  BY DEF Store, request, p
<1>3. CountersOf(r, p) \in Counters
  BY <1>1, CountsAreNumbers DEF CountersOf, TypeInv, DataTypes
<1>4. reports \in Nat /\ reports + 1 \in 0..MaxReports /\ [by |-> reports + 1, is |-> p] \in Stored
  BY <1>1, <1>2, BoundsAssumption DEF Stored, TypeInv, DataTypes
<1>5. DataTypes'
  BY <1>2, <1>3, <1>4 DEF TypeInv, DataTypes
<1>6. Present \subseteq Present'
  BY <1>2, <1>4, AbsentAssumption DEF Present, TypeInv, DataTypes
<1>7. RequestTypes' /\ OfPresent' /\ Empty' /\ OneWriter'
  BY <1>2, <1>6 DEF TypeInv, RequestTypes, OfPresent, Empty, OneWriter
<1> QED BY <1>5, <1>7 DEF TypeInv

(* A step that leaves the rows alone, and of the requests changes one without its transaction. *)
LEMMA TypeOfPlan ==
  ASSUME TypeInv, NEW a \in Admins,
         UNCHANGED <<data, counts, recent, pending, doubtful, overtaken, reports>>,
         blurred' \in [Admins -> SUBSET Rows], requests' \in 0..MaxRequests,
         stage' \in [Admins -> {"idle", "listed", "clearing", "batch", "stamping"}],
         fleet' \in [Admins -> BOOLEAN], last' \in [Admins -> Rows \cup {0}],
         aged' \in [Admins -> SUBSET Writing], plan' \in [Admins -> SUBSET Writing],
         \A b \in Admins \ {a} : UNCHANGED <<stage[b], aged[b], plan[b]>>,
         \A w \in aged'[a] \cup plan'[a] : w.row \in Present,
         stage'[a] \in {"idle", "batch"} => plan'[a] = {},
         stage'[a] # "clearing" => aged'[a] = {}, pending[a] = Nothing
  PROVE  TypeInv'
<1>1. Present' = Present
  BY DEF Present
<1>2. DataTypes' /\ RequestTypes'
  BY DEF TypeInv, DataTypes, RequestTypes
<1>3. OfPresent'
  BY <1>1 DEF TypeInv, OfPresent
<1>4. Empty' /\ OneWriter'
  BY DEF TypeInv, Empty, OneWriter
<1> QED BY <1>2, <1>3, <1>4 DEF TypeInv

IsLast(m, S) == m \in S /\ \A s \in S : s <= m

(* A finite set of numbers has a greatest one. *)
LEMMA Greatest ==
  ASSUME NEW T \in SUBSET Nat, IsFiniteSet(T), T # {}
  PROVE  \E m \in T : IsLast(m, T)
<1> DEFINE Sizes == {n \in Nat : \E S \in SUBSET Nat :
                       IsFiniteSet(S) /\ S # {} /\ Cardinality(S) = n /\ \A m \in S : ~IsLast(m, S)}
<1> SUFFICES ASSUME \A m \in T : ~IsLast(m, T) PROVE FALSE
  OBVIOUS
<1>1. Cardinality(T) \in Sizes
  BY FS_CardinalityType
<1>2. PICK n \in Sizes : \A y \in Sizes : n <= y
  <2>1. Sizes \in SUBSET Nat /\ Sizes # {}
    BY <1>1
  <2> HIDE DEF Sizes
  <2> QED BY <2>1, Least
<1>3. PICK S \in SUBSET Nat :
        IsFiniteSet(S) /\ S # {} /\ Cardinality(S) = n /\ \A m \in S : ~IsLast(m, S)
  BY <1>2
<1>4. PICK x \in S : TRUE
  BY <1>3
<1> DEFINE R == S \ {x}
<1>5. IsFiniteSet(R) /\ Cardinality(R) = n - 1 /\ n \in Nat
  BY <1>2, <1>3, FS_RemoveElement
<1>6. R # {}
  <2> SUFFICES ASSUME R = {} PROVE FALSE
    OBVIOUS
  <2>1. IsLast(x, S)
    BY DEF IsLast
  <2> QED BY <1>3, <2>1
<1>7. PICK m \in R : IsLast(m, R)
  <2> SUFFICES ASSUME \A m \in R : ~IsLast(m, R) PROVE FALSE
    OBVIOUS
  <2>1. Cardinality(R) \in Nat
    BY <1>5, FS_CardinalityType
  <2>2. Cardinality(R) \in Sizes
    BY <1>5, <1>6, <2>1
  <2> HIDE DEF Sizes, R
  <2> QED BY <1>2, <1>5, <2>1, <2>2
<1>8. CASE m <= x
  <2>1. IsLast(x, S)
    BY <1>7, <1>8 DEF IsLast
  <2> QED BY <1>3, <2>1
<1>9. CASE x < m
  <2>1. IsLast(m, S)
    BY <1>7, <1>9 DEF IsLast
  <2> QED BY <1>3, <1>7, <2>1
<1> QED BY <1>8, <1>9

(* A batch, being finite, has a last row, and holds every row that is left up to that one. *)
LEMMA LastOfBatch ==
  ASSUME NEW a \in Admins, NextRows(a) # {}, last[a] \in Nat
  PROVE  LET top == CHOOSE r \in NextRows(a) : \A q \in NextRows(a) : q <= r
         IN /\ top \in NextRows(a)
            /\ \A r \in Present : last[a] < r /\ r <= top => r \in NextRows(a)
<1> DEFINE rows == NextRows(a)
           left == {r \in Present : r > last[a]}
           top == CHOOSE r \in rows : \A q \in rows : q <= r
<1>1. rows = {r \in left : Cardinality({q \in left : q <= r}) <= Batch}
  BY DEF NextRows
<1>2. left \subseteq Nat /\ left \subseteq Rows
  BY RowsAssumption, PresentRows
<1>3. IsFiniteSet(left) /\ IsFiniteSet(rows)
  BY <1>1, <1>2, RowsAssumption, FS_Subset
<1>4. \E r \in rows : \A q \in rows : q <= r
  <2>1. rows \in SUBSET Nat /\ rows # {}
    BY <1>1, <1>2
  <2> HIDE DEF rows
  <2> QED BY <1>3, <2>1, Greatest DEF IsLast
<1> HIDE DEF rows
<1>5. top \in rows
  BY <1>4
<1> HIDE DEF top
<1>6. ASSUME NEW r \in Present, last[a] < r, r <= top PROVE r \in rows
  <2> DEFINE Upto(x) == {q \in left : q <= x}
  <2>1. r \in left /\ top \in left
    BY <1>1, <1>2, <1>5, <1>6, RowsAssumption, PresentRows
  <2>2. Upto(r) \in SUBSET Upto(top) /\ Upto(top) \in SUBSET left
    <3>1. r \in Nat /\ top \in Nat /\ \A q \in left : q \in Nat
      BY <1>2, <2>1
    <3> HIDE DEF left
    <3> QED BY <1>6, <3>1
  <2>3. IsFiniteSet(Upto(top)) /\ IsFiniteSet(Upto(r))
    BY <1>3, <2>2, FS_Subset
  <2>4. Cardinality(Upto(r)) \in Nat /\ Cardinality(Upto(top)) \in Nat
    BY <2>3, FS_CardinalityType
  <2>5. Cardinality(Upto(r)) <= Cardinality(Upto(top))
    BY <2>2, <2>3, FS_Subset
  <2>6. Cardinality(Upto(top)) <= Batch
    BY <1>1, <1>5
  <2>7. Cardinality(Upto(r)) <= Batch
    BY <2>4, <2>5, <2>6, BoundsAssumption
  <2> QED BY <1>1, <2>1, <2>7
<1> QED BY <1>5, <1>6 DEF rows, top

LEMMA TypeOfQueries ==
  ASSUME TypeInv, NEW a \in Admins,
         \/ \E all, byAge \in BOOLEAN : BeginClear(a, all, byAge)
         \/ ListItems(a) \/ BeginReclassify(a) \/ ReadBatch(a) \/ EndReclassify(a)
  PROVE  TypeInv'
<1> DEFINE Ws == {w \in Writing : w.row \in Present}
<1>1. /\ stage \in [Admins -> {"idle", "listed", "clearing", "batch", "stamping"}]
      /\ fleet \in [Admins -> BOOLEAN] /\ last \in [Admins -> Rows \cup {0}]
      /\ aged \in [Admins -> SUBSET Writing] /\ plan \in [Admins -> SUBSET Writing]
      /\ aged[a] \subseteq Ws /\ plan[a] \subseteq Ws
      /\ blurred \in [Admins -> SUBSET Rows] /\ requests \in 0..MaxRequests
      /\ stage[a] # "clearing" => aged[a] = {}
      /\ stage[a] \in {"idle", "batch"} => plan[a] = {}
      /\ stage[a] \in {"idle", "batch", "listed"} => pending[a] = Nothing
  BY DEF TypeInv, DataTypes, RequestTypes, OfPresent, Empty
<1>2. ASSUME NEW r \in Present, NEW p, NEW whole \in BOOLEAN,
             p \in {Cleared(data[r].is), ClearedByAge(data[r].is), Stamped(data[r].is)}
      PROVE  Writes(r, p, whole) \subseteq Ws
  <2>1. data[r].is \in Payload
    BY DEF Present, Stored, TypeInv, DataTypes
  <2>2. p \in Payload
    BY <1>2, <2>1, ClearedIs, ClearedByAgeIs, StampedIs
  <2> QED BY <2>2, WritesAreWrites
<1>3. ASSUME NEW to \in {"listed", "clearing", "batch"}, NEW all \in BOOLEAN, Begin(a, to, all)
      PROVE  /\ stage[a] = "idle" /\ stage' = [stage EXCEPT ![a] = to] /\ fleet' = [fleet EXCEPT ![a] = all]
             /\ blurred' \in [Admins -> SUBSET Rows] /\ requests' \in 0..MaxRequests
             /\ UNCHANGED <<data, counts, recent, doubtful, overtaken, reports>>
  BY <1>1, <1>3, BoundsAssumption DEF Begin, table
<1>4. Ws \subseteq Writing /\ \A w \in Ws : w.row \in Present
  OBVIOUS
<1> HIDE DEF Ws
<1>5. ASSUME NEW all \in BOOLEAN, NEW byAge \in BOOLEAN, BeginClear(a, all, byAge) PROVE TypeInv'
  <2> DEFINE W == UNION {Writes(r, Cleared(data[r].is), FALSE) : r \in Silent(all)}
             to == IF byAge THEN "listed" ELSE "clearing"
  <2>1. /\ Begin(a, to, all) /\ plan' = [plan EXCEPT ![a] = W] /\ UNCHANGED <<aged, pending, last>>
    BY <1>5 DEF BeginClear
  <2>2. \A r \in Silent(all) : Writes(r, Cleared(data[r].is), FALSE) \subseteq Ws
    BY <1>2 DEF Silent
  <2>3. W \subseteq Ws
    BY <2>2
  <2>4. to \in {"listed", "clearing"}
    OBVIOUS
  <2> HIDE DEF W, to
  <2>5. /\ stage[a] = "idle" /\ stage' = [stage EXCEPT ![a] = to] /\ fleet' = [fleet EXCEPT ![a] = all]
        /\ blurred' \in [Admins -> SUBSET Rows] /\ requests' \in 0..MaxRequests
        /\ UNCHANGED <<data, counts, recent, doubtful, overtaken, reports>>
    BY <1>3, <2>1, <2>4
  <2>6. W \in SUBSET Writing /\ \A w \in W : w.row \in Present
    BY <1>4, <2>3
  <2> QED BY <1>1, <2>1, <2>4, <2>5, <2>6, TypeOfPlan
<1>6. CASE ListItems(a)
  <2> DEFINE W == UNION {Writes(r, ClearedByAge(data[r].is), TRUE) :
                           r \in {q \in Present : ClearedByAge(data[q].is) # data[q].is}}
  <2>1. /\ stage[a] = "listed" /\ stage' = [stage EXCEPT ![a] = "clearing"] /\ aged' = [aged EXCEPT ![a] = W]
        /\ UNCHANGED <<data, counts, recent, fleet, plan, pending, last, overtaken, blurred, doubtful, reports, requests>>
    BY <1>6 DEF ListItems, table, history
  <2>2. \A r \in Present : Writes(r, ClearedByAge(data[r].is), TRUE) \subseteq Ws
    BY <1>2
  <2>3. W \subseteq Ws
    BY <2>2
  <2> HIDE DEF W
  <2>4. W \in SUBSET Writing /\ \A w \in W \cup plan[a] : w.row \in Present
    BY <1>1, <1>4, <2>3
  <2> QED BY <1>1, <2>1, <2>4, TypeOfPlan
<1>7. CASE BeginReclassify(a)
  <2>1. /\ Begin(a, "batch", FALSE) /\ last' = [last EXCEPT ![a] = 0] /\ UNCHANGED <<aged, plan, pending>>
    BY <1>7 DEF BeginReclassify
  <2>2. /\ stage[a] = "idle" /\ stage' = [stage EXCEPT ![a] = "batch"] /\ fleet' = [fleet EXCEPT ![a] = FALSE]
        /\ blurred' \in [Admins -> SUBSET Rows] /\ requests' \in 0..MaxRequests
        /\ UNCHANGED <<data, counts, recent, doubtful, overtaken, reports>>
    BY <1>3, <2>1
  <2> QED BY <1>1, <2>1, <2>2, TypeOfPlan
<1>8. CASE ReadBatch(a)
  <2> DEFINE rows == NextRows(a)
             W == UNION {Writes(r, Stamped(data[r].is), TRUE) : r \in rows}
             top == CHOOSE r \in rows : \A q \in rows : q <= r
  <2>1. /\ stage[a] = "batch" /\ stage' = [stage EXCEPT ![a] = "stamping"] /\ plan' = [plan EXCEPT ![a] = W]
        /\ rows # {} /\ last' = [last EXCEPT ![a] = top]
        /\ UNCHANGED <<data, counts, recent, fleet, aged, pending, overtaken, blurred, doubtful, reports, requests>>
    BY <1>8 DEF ReadBatch, table, history
  <2>2. \A r \in Present : Writes(r, Stamped(data[r].is), TRUE) \subseteq Ws
    BY <1>2
  <2>3. rows \subseteq Present
    BY DEF NextRows
  <2>4. W \subseteq Ws
    BY <2>2, <2>3
  <2>5. top \in Rows
    <3> HIDE DEF W, rows, top
    <3>1. last[a] \in Nat
      <4>1. last[a] \in Rows \cup {0}
        BY <1>1
      <4>2. Rows \subseteq Nat
        BY RowsAssumption, Zenon
      <4>3. 0 \in Nat
        OBVIOUS
      <4> QED BY <4>1, <4>2, <4>3
    <3>2. NextRows(a) # {}
      BY <2>1 DEF rows
    <3>3. top \in NextRows(a)
      BY <3>1, <3>2, LastOfBatch DEF top, rows
    <3> QED BY <2>3, <3>3, PresentRows DEF rows
  <2> HIDE DEF W, top, rows
  <2>6. W \in SUBSET Writing /\ \A w \in W : w.row \in Present
    BY <1>4, <2>4
  <2> QED BY <1>1, <2>1, <2>5, <2>6, TypeOfPlan
<1>9. CASE EndReclassify(a)
  <2>1. /\ stage[a] = "batch" /\ stage' = [stage EXCEPT ![a] = "idle"]
        /\ UNCHANGED <<data, counts, recent, fleet, aged, plan, pending, last, overtaken, blurred, doubtful, reports, requests>>
    BY <1>9 DEF EndReclassify, table, history
  <2> QED BY <1>1, <2>1, TypeOfPlan
<1> QED BY <1>5, <1>6, <1>7, <1>8, <1>9

(* An UPDATE moves a write of its plan into its transaction; one that leaves the payload *)
(* leaves that of the transaction, or the one in the row.                                *)
Moved(a, w) ==
  /\ w \in Writing /\ w.row \in Present /\ w.row \in Rows
  /\ pending' \in [Admins -> [Rows -> Written \cup {Absent}]]
  /\ pending'[a][w.row] \in Written /\ pending'[a][w.row].counts = w.counts
  /\ pending'[a][w.row].data.is =
       IF w.both THEN w.is
       ELSE IF pending[a][w.row] # Absent THEN pending[a][w.row].data.is ELSE data[w.row].is
  /\ \A b \in Admins, q \in Rows : b # a \/ q # w.row => pending'[b][q] = pending[b][q]
  /\ \A b \in Admins \ {a} : UNCHANGED <<aged[b], plan[b], pending[b]>>
  /\ aged'[a] = aged[a] \ {w}
  /\ plan'[a] = IF w \in aged[a] THEN plan[a] ELSE plan[a] \ {w}
  /\ aged' \in [Admins -> SUBSET Writing] /\ plan' \in [Admins -> SUBSET Writing]
  /\ stage[a] \in {"clearing", "stamping"} /\ (aged[a] # {} => w \in aged[a])
  /\ \A b \in Admins \ {a} : pending[b][w.row] = Absent
  /\ UNCHANGED <<data, counts, recent, stage, fleet, last, overtaken, blurred, doubtful, reports, requests>>

LEMMA AnUpdate ==
  ASSUME TypeInv, NEW a \in Admins, NEW w \in aged[a] \cup plan[a], Update(a, w)
  PROVE  Moved(a, w)
<1> DEFINE r == w.row
           now == IF pending[a][r] # Absent THEN pending[a][r]
                  ELSE [data |-> data[r], counts |-> counts[r]]
           written == [data |-> IF w.both THEN [by |-> w.by, is |-> w.is] ELSE now.data,
                       counts |-> w.counts, sure |-> w.both \/ now.data.is = w.is]
<1>1. /\ pending' = [pending EXCEPT ![a][r] = written]
      /\ aged' = [aged EXCEPT ![a] = @ \ {w}]
      /\ plan' = [plan EXCEPT ![a] = IF w \in aged[a] THEN @ ELSE @ \ {w}]
      /\ stage[a] \in {"clearing", "stamping"} /\ (aged[a] # {} => w \in aged[a])
      /\ \A b \in Admins \ {a} : pending[b][r] = Absent
      /\ UNCHANGED <<data, counts, recent, stage, fleet, last, overtaken, blurred, doubtful, reports, requests>>
  BY DEF Update, table, history
<1>2. w \in Writing /\ r \in Present /\ r \in Rows
  BY DEF TypeInv, RequestTypes, OfPresent, Present
<1>3. now.data \in Stored
  BY <1>2 DEF Present, Written, TypeInv, DataTypes, RequestTypes
<1>4. now.data.is = IF pending[a][r] # Absent THEN pending[a][r].data.is ELSE data[r].is
  OBVIOUS
<1> HIDE DEF now
<1>5. written \in Written
  <2>1. (IF w.both THEN [by |-> w.by, is |-> w.is] ELSE now.data) \in Stored
    BY <1>2, <1>3 DEF Writing, Stored
  <2>2. w.counts \in Counters /\ (w.both \/ now.data.is = w.is) \in BOOLEAN
    BY <1>2 DEF Writing
  <2> QED BY <2>1, <2>2 DEF Written
<1>6. written.counts = w.counts /\ written.data.is = IF w.both THEN w.is ELSE now.data.is
  OBVIOUS
<1> HIDE DEF written, r
<1>7. /\ pending'[a][r] = written
      /\ \A b \in Admins, q \in Rows : b # a \/ q # r => pending'[b][q] = pending[b][q]
      /\ pending' \in [Admins -> [Rows -> Written \cup {Absent}]]
      /\ \A b \in Admins \ {a} : UNCHANGED <<aged[b], plan[b], pending[b]>>
      /\ aged'[a] = aged[a] \ {w} /\ plan'[a] = IF w \in aged[a] THEN plan[a] ELSE plan[a] \ {w}
      /\ aged' \in [Admins -> SUBSET Writing] /\ plan' \in [Admins -> SUBSET Writing]
  BY <1>1, <1>2, <1>5 DEF TypeInv, RequestTypes
<1> QED BY <1>1, <1>2, <1>4, <1>5, <1>6, <1>7 DEF r, Moved

LEMMA TypeOfUpdate ==
  ASSUME TypeInv, NEW a \in Admins, NEW w \in aged[a] \cup plan[a], Update(a, w)
  PROVE  TypeInv'
<1>0. Moved(a, w)
  BY AnUpdate
<1>1. DataTypes'
  BY <1>0 DEF Moved, TypeInv, DataTypes
<1>2. RequestTypes'
  BY <1>0 DEF Moved, TypeInv, RequestTypes
<1>3. OfPresent'
  <2>1. Present' = Present
    BY <1>0 DEF Moved, Present
  <2>2. \A b \in Admins : aged'[b] \subseteq aged[b] /\ plan'[b] \subseteq plan[b]
    BY <1>0 DEF Moved
  <2> QED BY <1>0, <2>1, <2>2 DEF Moved, TypeInv, OfPresent
<1>4. Empty'
  <2>1. \A b \in Admins : aged'[b] \subseteq aged[b] /\ plan'[b] \subseteq plan[b] /\ (b # a => pending'[b] = pending[b])
    BY <1>0 DEF Moved
  <2> QED BY <1>0, <2>1 DEF Moved, TypeInv, Empty
<1>5. OneWriter'
  BY <1>0 DEF Moved, TypeInv, OneWriter
<1> QED BY <1>1, <1>2, <1>3, <1>4, <1>5 DEF TypeInv

LEMMA TypeOfEnd ==
  ASSUME TypeInv, NEW a \in Admins, Commit(a) \/ Fail(a)
  PROVE  TypeInv'
<1>1. /\ pending' = [pending EXCEPT ![a] = Nothing]
      /\ aged' = [aged EXCEPT ![a] = {}] /\ plan' = [plan EXCEPT ![a] = {}]
      /\ stage' \in {[stage EXCEPT ![a] = to] : to \in {"idle", "batch"}}
      /\ UNCHANGED <<recent, fleet, last, reports, requests>>
  BY DEF Commit, Fail, table, TypeInv, RequestTypes
<1>2. data' \in [Rows -> Stored \cup {Absent}] /\ counts' \in [Rows -> Counters] /\ Present \subseteq Present'
  <2>1. CASE Commit(a)
    <3>1. \A r \in Touched(a) : pending[a][r].data \in Stored /\ pending[a][r].counts \in Counters
      BY DEF Touched, TypeInv, RequestTypes, Written
    <3>2. /\ data' = [r \in Rows |-> IF r \in Touched(a) THEN pending[a][r].data ELSE data[r]]
          /\ counts' = [r \in Rows |-> IF r \in Touched(a) THEN pending[a][r].counts ELSE counts[r]]
      BY <2>1 DEF Commit
    <3> QED BY <3>1, <3>2, AbsentAssumption DEF TypeInv, DataTypes, Present
  <2>2. CASE Fail(a)
    BY <2>2 DEF Fail, table, TypeInv, DataTypes, Present
  <2> QED BY <2>1, <2>2
<1>3. overtaken' \in SUBSET Rows /\ doubtful' \in SUBSET Rows /\ blurred' \in [Admins -> SUBSET Rows]
  <2>1. Touched(a) \subseteq Rows
    BY DEF Touched
  <2> QED BY <2>1 DEF Commit, Fail, history, TypeInv, DataTypes
<1>4. DataTypes'
  BY <1>1, <1>2, <1>3 DEF TypeInv, DataTypes
<1>5. Nothing \in [Rows -> Written \cup {Absent}] /\ \A r \in Rows : Nothing[r] = Absent
  BY DEF Nothing
<1>6. RequestTypes'
  BY <1>1, <1>5 DEF TypeInv, RequestTypes
<1>7. /\ pending'[a] = Nothing /\ aged'[a] = {} /\ plan'[a] = {}
      /\ \A b \in Admins \ {a} : UNCHANGED <<pending[b], aged[b], plan[b], stage[b]>>
  BY <1>1 DEF TypeInv, RequestTypes
<1>8. OfPresent' /\ OneWriter'
  BY <1>2, <1>5, <1>7 DEF TypeInv, OfPresent, OneWriter
<1>9. Empty'
  BY <1>7 DEF TypeInv, Empty
<1> QED BY <1>4, <1>6, <1>8, <1>9 DEF TypeInv

LEMMA TypeStep == TypeInv /\ [Next]_vars => TypeInv'
<1> SUFFICES ASSUME TypeInv, [Next]_vars PROVE TypeInv'
  OBVIOUS
<1>1. CASE UNCHANGED vars
  BY <1>1 DEF vars, table, request, history, TypeInv, DataTypes, RequestTypes, OfPresent, Empty, OneWriter, Present
<1>2. ASSUME NEW r \in Rows, FallSilent(r) PROVE TypeInv'
  BY <1>2 DEF FallSilent, request, history, TypeInv, DataTypes, RequestTypes, OfPresent, Empty, OneWriter, Present
<1>3. ASSUME NEW r \in Rows, NEW report \in Reports, Store(r, report) PROVE TypeInv'
  BY <1>3, TypeOfStore
<1>4. ASSUME NEW a \in Admins, NEW all \in BOOLEAN, NEW byAge \in BOOLEAN, BeginClear(a, all, byAge)
      PROVE  TypeInv'
  BY <1>4, TypeOfQueries
<1>5. ASSUME NEW a \in Admins, ListItems(a) \/ BeginReclassify(a) \/ ReadBatch(a) \/ EndReclassify(a)
      PROVE  TypeInv'
  BY <1>5, TypeOfQueries
<1>6. ASSUME NEW a \in Admins, NEW w \in aged[a] \cup plan[a], Update(a, w) PROVE TypeInv'
  BY <1>6, TypeOfUpdate
<1>7. ASSUME NEW a \in Admins, Commit(a) \/ Fail(a) PROVE TypeInv'
  BY <1>7, TypeOfEnd
<1> QED BY <1>1, <1>2, <1>3, <1>4, <1>5, <1>6, <1>7 DEF Next

(* Type correctness, and that no two transactions write one row. *)
THEOREM TypeCorrect == Spec => []TypeOK
<1>1. ASSUME TypeInv PROVE TypeOK
  <2>1. \A r \in Rows : data[r] = Absent \/ data[r] \in Stored
    BY <1>1 DEF TypeInv, DataTypes
  <2>2. ASSUME NEW a \in Admins
        PROVE  /\ \A w \in aged[a] \cup plan[a] : w.row \in Present /\ w.is \in Payload
               /\ stage[a] \in {"idle", "batch"} => aged[a] = {} /\ plan[a] = {} /\ pending[a] = Nothing
               /\ \A r \in Rows : pending[a][r] # Absent => r \in Present
               /\ \A b \in Admins, r \in Rows : a # b => pending[a][r] = Absent \/ pending[b][r] = Absent
    <3>1. \A w \in aged[a] \cup plan[a] : w.row \in Present /\ w.is \in Payload
      BY <1>1 DEF TypeInv, RequestTypes, OfPresent, Writing
    <3>2. stage[a] \in {"idle", "batch"} => aged[a] = {} /\ plan[a] = {} /\ pending[a] = Nothing
      BY <1>1 DEF TypeInv, Empty
    <3> QED BY <1>1, <3>1, <3>2 DEF TypeInv, OfPresent, OneWriter
  <2> QED BY <1>1, <2>1, <2>2 DEF TypeInv, DataTypes, RequestTypes, TypeOK
<1> QED BY <1>1, TypeInit, TypeStep, PTL DEF Spec
-----------------------------------------------------------------------------
(***************************************************************************)
(* Live failures.  For a row of a device that is checking in, what a       *)
(* request for silent devices or old items is about to write differs from  *)
(* the payload there in old items alone, unless the row was overtaken.     *)
(***************************************************************************)
Same(p, q) ==
  \A n \in Names : p.items[n].age = "recent" \/ q.items[n].age = "recent" => p.items[n] = q.items[n]

LiveRow(a, r) ==
  /\ \A w \in aged[a] \cup plan[a] : w.row = r /\ w.both => Same(w.is, data[r].is)
  /\ pending[a][r] # Absent => Same(pending[a][r].data.is, data[r].is)

LiveInv == \A a \in Admins, r \in recent \ overtaken : ~fleet[a] => LiveRow(a, r)

LEMMA SameIsTransitive ==
  ASSUME NEW p, NEW q, NEW s, Same(p, q), Same(q, s)
  PROVE  Same(p, s)
BY DEF Same

LEMMA SameIsSymmetric ==
  ASSUME NEW p, NEW q, Same(p, q)
  PROVE  Same(q, p)
BY DEF Same

LEMMA SameItself == \A p : Same(p, p)
BY DEF Same

(* Stamping and the cleanup of old items leave recent ones alone. *)
LEMMA SameAfter ==
  ASSUME NEW p \in Payload
  PROVE  Same(Stamped(p), p) /\ Same(ClearedByAge(p), p)
BY StampedIs, ClearedByAgeIs DEF Same

(* A step that leaves the rows alone, and of the requests changes one alone. *)
LEMMA LiveOfOne ==
  ASSUME LiveInv, NEW a \in Admins, UNCHANGED <<data, recent, overtaken>>,
         \A b \in Admins \ {a} : UNCHANGED <<fleet[b], aged[b], plan[b], pending[b]>>,
         \A r \in recent \ overtaken : ~fleet'[a] => LiveRow(a, r)'
  PROVE  LiveInv'
<1> SUFFICES ASSUME NEW b \in Admins, NEW r \in recent' \ overtaken', ~fleet'[b] PROVE LiveRow(b, r)'
  BY DEF LiveInv
<1>1. CASE b = a
  BY <1>1
<1>2. CASE b # a
  <2>1. LiveRow(b, r)
    BY <1>2 DEF LiveInv
  <2> QED BY <1>2, <2>1 DEF LiveRow
<1> QED BY <1>1, <1>2

LEMMA LiveStore ==
  ASSUME TypeInv, LiveInv, NEW r \in Rows, NEW report \in Reports, Store(r, report)
  PROVE  LiveInv'
<1>1. /\ data' = [data EXCEPT ![r] = [by |-> reports + 1, is |-> Stamped(report)]]
      /\ recent' = recent \cup {r} /\ ~Locked(r)
      /\ overtaken' = IF \E a \in Admins : \E w \in aged[a] \cup plan[a] : w.row = r /\ w.both
                      THEN overtaken \cup {r} ELSE overtaken \ {r}
      /\ UNCHANGED <<fleet, aged, plan, pending>>
  BY DEF Store, request
<1> SUFFICES ASSUME NEW b \in Admins, NEW q \in recent' \ overtaken', ~fleet[b] PROVE LiveRow(b, q)'
  BY <1>1 DEF LiveInv
<1>2. CASE q = r
  <2>1. ~\E a \in Admins : \E w \in aged[a] \cup plan[a] : w.row = r /\ w.both
    BY <1>1, <1>2
  <2>2. pending[b][r] = Absent
    BY <1>1 DEF Locked
  <2> QED BY <1>1, <1>2, <2>1, <2>2 DEF LiveRow
<1>3. CASE q # r
  <2>1. q \in recent \ overtaken /\ data'[q] = data[q]
    BY <1>1, <1>3 DEF TypeInv, DataTypes
  <2>2. LiveRow(b, q)
    BY <2>1 DEF LiveInv
  <2> QED BY <1>1, <2>1, <2>2 DEF LiveRow
<1> QED BY <1>2, <1>3

(* The queries: silent devices are no live ones, and the other writes leave recent items. *)
LEMMA LiveQueries ==
  ASSUME TypeInv, LiveInv, NEW a \in Admins,
         \/ \E all, byAge \in BOOLEAN : BeginClear(a, all, byAge)
         \/ ListItems(a) \/ BeginReclassify(a) \/ ReadBatch(a) \/ EndReclassify(a)
  PROVE  LiveInv'
<1>1. /\ fleet \in [Admins -> BOOLEAN] /\ DOMAIN plan = Admins /\ DOMAIN aged = Admins
      /\ recent \subseteq Rows
      /\ stage[a] # "clearing" => aged[a] = {}
      /\ stage[a] \in {"idle", "batch"} => plan[a] = {}
      /\ stage[a] \in {"idle", "batch", "listed"} => \A r \in Rows : pending[a][r] = Absent
  BY DEF TypeInv, DataTypes, RequestTypes, Empty, Nothing
<1>2. \A r \in Present : data[r].is \in Payload
  BY DEF Present, Stored, TypeInv, DataTypes
<1>3. ASSUME NEW all \in BOOLEAN, NEW byAge \in BOOLEAN, BeginClear(a, all, byAge) PROVE LiveInv'
  <2> DEFINE W == UNION {Writes(r, Cleared(data[r].is), FALSE) : r \in Silent(all)}
  <2>1. /\ plan' = [plan EXCEPT ![a] = W] /\ fleet' = [fleet EXCEPT ![a] = all] /\ stage[a] = "idle"
        /\ UNCHANGED <<data, recent, overtaken, aged, pending>>
    BY <1>3 DEF BeginClear, Begin, table
  <2>2. ~all => \A w \in W : w.row \notin recent
    BY DEF Writes, AWrite, Silent
  <2> HIDE DEF W
  <2>3. \A r \in recent \ overtaken : ~fleet'[a] => LiveRow(a, r)'
    BY <1>1, <2>1, <2>2 DEF LiveRow
  <2>4. \A b \in Admins \ {a} : UNCHANGED <<fleet[b], aged[b], plan[b], pending[b]>>
    BY <1>1, <2>1
  <2> QED BY <2>1, <2>3, <2>4, LiveOfOne
<1>4. CASE ListItems(a)
  <2> DEFINE W == UNION {Writes(r, ClearedByAge(data[r].is), TRUE) :
                           r \in {q \in Present : ClearedByAge(data[q].is) # data[q].is}}
  <2>1. /\ stage[a] = "listed" /\ aged' = [aged EXCEPT ![a] = W]
        /\ UNCHANGED <<data, recent, overtaken, fleet, plan, pending>>
    BY <1>4 DEF ListItems, table, history
  <2>2. ASSUME NEW w \in W PROVE Same(w.is, data[w.row].is)
    <3>1. PICK r \in Present : w \in Writes(r, ClearedByAge(data[r].is), TRUE)
      OBVIOUS
    <3>2. w.row = r /\ w.is = ClearedByAge(data[r].is)
      BY <3>1 DEF Writes, AWrite
    <3> QED BY <1>2, <3>2, SameAfter
  <2> HIDE DEF W
  <2>3. ASSUME NEW r \in recent \ overtaken, ~fleet'[a] PROVE LiveRow(a, r)'
    <3>1. LiveRow(a, r)
      BY <2>1, <2>3 DEF LiveInv
    <3> QED BY <1>1, <2>1, <2>2, <3>1 DEF LiveRow
  <2>4. \A b \in Admins \ {a} : UNCHANGED <<fleet[b], aged[b], plan[b], pending[b]>>
    BY <1>1, <2>1
  <2> QED BY <2>1, <2>3, <2>4, LiveOfOne
<1>5. CASE BeginReclassify(a)
  <2>1. /\ stage[a] = "idle" /\ fleet' = [fleet EXCEPT ![a] = FALSE]
        /\ UNCHANGED <<data, recent, overtaken, aged, plan, pending>>
    BY <1>5 DEF BeginReclassify, Begin, table
  <2>2. \A r \in recent \ overtaken : LiveRow(a, r)'
    BY <1>1, <2>1 DEF LiveRow
  <2>3. \A b \in Admins \ {a} : UNCHANGED <<fleet[b], aged[b], plan[b], pending[b]>>
    BY <1>1, <2>1
  <2> QED BY <2>1, <2>2, <2>3, LiveOfOne
<1>6. CASE ReadBatch(a)
  <2> DEFINE W == UNION {Writes(r, Stamped(data[r].is), TRUE) : r \in NextRows(a)}
  <2>1. /\ stage[a] = "batch" /\ plan' = [plan EXCEPT ![a] = W]
        /\ UNCHANGED <<data, recent, overtaken, fleet, aged, pending>>
    BY <1>6 DEF ReadBatch, table, history
  <2>2. ASSUME NEW w \in W PROVE Same(w.is, data[w.row].is)
    <3>1. PICK r \in NextRows(a) : w \in Writes(r, Stamped(data[r].is), TRUE)
      OBVIOUS
    <3>2. w.row = r /\ w.is = Stamped(data[r].is)
      BY <3>1 DEF Writes, AWrite
    <3>3. r \in Present
      BY DEF NextRows
    <3> QED BY <1>2, <3>2, <3>3, SameAfter
  <2> HIDE DEF W
  <2>3. \A r \in recent \ overtaken : LiveRow(a, r)'
    BY <1>1, <2>1, <2>2 DEF LiveRow
  <2>4. \A b \in Admins \ {a} : UNCHANGED <<fleet[b], aged[b], plan[b], pending[b]>>
    BY <1>1, <2>1
  <2> QED BY <2>1, <2>3, <2>4, LiveOfOne
<1>7. CASE EndReclassify(a)
  BY <1>7 DEF EndReclassify, table, history, LiveInv, LiveRow
<1> QED BY <1>3, <1>4, <1>5, <1>6, <1>7

LEMMA LiveUpdate ==
  ASSUME TypeInv, LiveInv, NEW a \in Admins, NEW w \in aged[a] \cup plan[a], Update(a, w)
  PROVE  LiveInv'
<1>0. Moved(a, w)
  BY AnUpdate
<1>1. ASSUME NEW q \in recent \ overtaken, ~fleet'[a] PROVE LiveRow(a, q)'
  <2>1. LiveRow(a, q) /\ q \in Rows
    BY <1>0, <1>1 DEF Moved, LiveInv, TypeInv, DataTypes
  <2>2. \A v \in aged'[a] \cup plan'[a] : v.row = q /\ v.both => Same(v.is, data[q].is)
    BY <1>0, <2>1 DEF LiveRow, Moved
  <2>3. pending'[a][q] # Absent => Same(pending'[a][q].data.is, data[q].is)
    <3>1. CASE q = w.row
      BY <1>0, <2>1, <3>1, SameItself DEF LiveRow, Moved
    <3>2. CASE q # w.row
      BY <1>0, <2>1, <3>2 DEF LiveRow, Moved
    <3> QED BY <3>1, <3>2
  <2>4. data' = data
    BY <1>0 DEF Moved
  <2> QED BY <2>2, <2>3, <2>4 DEF LiveRow
<1>2. /\ UNCHANGED <<data, recent, overtaken>>
      /\ \A b \in Admins \ {a} : UNCHANGED <<fleet[b], aged[b], plan[b], pending[b]>>
  BY <1>0 DEF Moved
<1> QED BY <1>1, <1>2, LiveOfOne

LEMMA LiveCommit ==
  ASSUME TypeInv, LiveInv, NEW a \in Admins, Commit(a)
  PROVE  LiveInv'
<1>1. /\ data' = [r \in Rows |-> IF r \in Touched(a) THEN pending[a][r].data ELSE data[r]]
      /\ pending' = [pending EXCEPT ![a] = Nothing]
      /\ overtaken' = IF fleet[a] THEN overtaken \cup Touched(a) ELSE overtaken
      /\ aged[a] = {} /\ plan[a] = {}
      /\ UNCHANGED <<recent, fleet, aged, plan>>
  BY DEF Commit
<1> SUFFICES ASSUME NEW b \in Admins, NEW r \in recent \ overtaken', ~fleet[b] PROVE LiveRow(b, r)'
  BY <1>1 DEF LiveInv
<1>2. r \in Rows /\ r \in recent \ overtaken
  BY <1>1 DEF TypeInv, DataTypes
<1>3. Same(data[r].is, data'[r].is)
  <2>1. CASE r \in Touched(a)
    <3>1. ~fleet[a] /\ pending[a][r] # Absent
      BY <1>1, <2>1 DEF Touched
    <3>2. Same(pending[a][r].data.is, data[r].is)
      BY <1>2, <3>1 DEF LiveInv, LiveRow
    <3> QED BY <1>1, <1>2, <2>1, <3>2, SameIsSymmetric
  <2>2. CASE r \notin Touched(a)
    BY <1>1, <1>2, <2>2, SameItself
  <2> QED BY <2>1, <2>2
<1>4. CASE b = a
  <2>1. pending'[a][r] = Absent
    BY <1>1, <1>2 DEF Nothing, TypeInv, RequestTypes
  <2> QED BY <1>1, <1>4, <2>1 DEF LiveRow
<1>5. CASE b # a
  <2>1. LiveRow(b, r) /\ pending'[b] = pending[b]
    BY <1>1, <1>2, <1>5 DEF LiveInv, TypeInv, RequestTypes
  <2>2. \A w \in aged[b] \cup plan[b] : w.row = r /\ w.both => Same(w.is, data'[r].is)
    BY <1>3, <2>1, SameIsTransitive DEF LiveRow
  <2>3. pending[b][r] # Absent => Same(pending[b][r].data.is, data'[r].is)
    BY <1>3, <2>1, SameIsTransitive DEF LiveRow
  <2> QED BY <1>1, <2>1, <2>2, <2>3 DEF LiveRow
<1> QED BY <1>4, <1>5

LEMMA LiveStep == TypeInv /\ LiveInv /\ [Next]_vars => LiveInv'
<1> SUFFICES ASSUME TypeInv, LiveInv, [Next]_vars PROVE LiveInv'
  OBVIOUS
<1>1. CASE UNCHANGED vars
  BY <1>1 DEF vars, table, request, history, LiveInv, LiveRow
<1>2. ASSUME NEW r \in Rows, FallSilent(r) PROVE LiveInv'
  <2>1. recent' \subseteq recent /\ UNCHANGED <<data, fleet, aged, plan, pending, overtaken>>
    BY <1>2 DEF FallSilent, request, history
  <2> QED BY <2>1 DEF LiveInv, LiveRow
<1>3. ASSUME NEW r \in Rows, NEW report \in Reports, Store(r, report) PROVE LiveInv'
  BY <1>3, LiveStore
<1>4. ASSUME NEW a \in Admins, NEW all \in BOOLEAN, NEW byAge \in BOOLEAN, BeginClear(a, all, byAge)
      PROVE  LiveInv'
  BY <1>4, LiveQueries
<1>5. ASSUME NEW a \in Admins, ListItems(a) \/ BeginReclassify(a) \/ ReadBatch(a) \/ EndReclassify(a)
      PROVE  LiveInv'
  BY <1>5, LiveQueries
<1>6. ASSUME NEW a \in Admins, NEW w \in aged[a] \cup plan[a], Update(a, w) PROVE LiveInv'
  BY <1>6, LiveUpdate
<1>7. ASSUME NEW a \in Admins, Commit(a) PROVE LiveInv'
  BY <1>7, LiveCommit
<1>8. ASSUME NEW a \in Admins, Fail(a) PROVE LiveInv'
  <2>1. /\ aged' = [aged EXCEPT ![a] = {}] /\ plan' = [plan EXCEPT ![a] = {}]
        /\ pending' = [pending EXCEPT ![a] = Nothing]
        /\ UNCHANGED <<data, recent, overtaken, fleet>>
    BY <1>8 DEF Fail, table, history
  <2>2. \A r \in recent \ overtaken : LiveRow(a, r)'
    BY <2>1 DEF LiveRow, Nothing, TypeInv, DataTypes, RequestTypes
  <2>3. \A b \in Admins \ {a} : UNCHANGED <<fleet[b], aged[b], plan[b], pending[b]>>
    BY <2>1 DEF TypeInv, RequestTypes
  <2> QED BY <2>1, <2>2, <2>3, LiveOfOne
<1> QED BY <1>1, <1>2, <1>3, <1>4, <1>5, <1>6, <1>7, <1>8 DEF Next

(***************************************************************************)
(* A cleanup of silent devices and old items never takes away what a       *)
(* device that is checking in has reported of a recent attempt.            *)
(***************************************************************************)
THEOREM RecentFailuresSurvive == Spec => LiveFailuresStay
<1>1. Init => LiveInv
  BY DEF Init, LiveInv
<1>2. ASSUME TypeInv, LiveInv, NEW a \in Admins, NEW r \in recent \ overtaken, Commit(a), ~fleet[a],
             NEW n \in Names, data[r].is.items[n].age = "recent"
      PROVE  data'[r].is.items[n] = data[r].is.items[n]
  <2>1. data' = [q \in Rows |-> IF q \in Touched(a) THEN pending[a][q].data ELSE data[q]] /\ r \in Rows
    BY <1>2 DEF Commit, TypeInv, DataTypes
  <2>2. CASE r \in Touched(a)
    <3>1. Same(pending[a][r].data.is, data[r].is)
      BY <1>2, <2>2 DEF LiveInv, LiveRow, Touched
    <3> QED BY <1>2, <2>1, <2>2, <3>1 DEF Same
  <2>3. CASE r \notin Touched(a)
    BY <2>1, <2>3
  <2> QED BY <2>2, <2>3
<1> DEFINE Stay == \A a \in Admins, r \in recent \ overtaken : Commit(a) /\ ~fleet[a] =>
              \A n \in Names : data[r].is.items[n].age = "recent" => data'[r].is.items[n] = data[r].is.items[n]
<1>3. TypeInv /\ LiveInv => Stay
  BY <1>2
<1>4. TypeInv /\ LiveInv => [Stay]_vars
  BY <1>3
<1> QED BY <1>1, <1>4, TypeInit, TypeStep, LiveStep, PTL DEF Spec, LiveFailuresStay
-----------------------------------------------------------------------------
(***************************************************************************)
(* What requests leave behind.  In a row that nobody else changed, a       *)
(* cleanup of the whole fleet has one write left that clears the payload   *)
(* there and counts it, or it has written so, or there was nothing to do.  *)
(* A row up to the last that reclassify has read agrees with the           *)
(* classifier, or is about to.                                             *)
(***************************************************************************)
Left(a, r) == {w \in plan[a] : w.row = r}
Old(a, r) == {w \in aged[a] : w.row = r}

ClearRow(a, r) ==
  LET p == data[r].is IN
  \/ \E w : /\ Left(a, r) = {w} /\ w.is = Cleared(p) /\ w.counts = Counts(w.is)
            /\ w.both \/ (w.is = p /\ Old(a, r) = {} /\ pending[a][r] = Absent)
  \/ /\ Left(a, r) = {} /\ Old(a, r) = {}
     /\ IF pending[a][r] # Absent
        THEN pending[a][r].data.is = Cleared(p) /\ pending[a][r].counts = Counts(Cleared(p))
        ELSE Cleared(p) = p /\ counts[r] = Counts(p)
ClearOf(a) == Clears(a) /\ fleet[a] => \A r \in Present \ blurred[a] : ClearRow(a, r)

Agrees(p, c) == Stamped(p) = p /\ c = Counts(p)
StampRow(a, r) == Agrees(data[r].is, counts[r]) \/ pending[a][r] # Absent \/ Left(a, r) # {}
StampOf(a) ==
  stage[a] \in {"batch", "stamping"} =>
    /\ \A w \in plan[a] : w.both /\ Agrees(w.is, w.counts)
    /\ \A r \in Rows : pending[a][r] # Absent => Agrees(pending[a][r].data.is, pending[a][r].counts)
    /\ \A r \in Present \ blurred[a] : r <= last[a] => StampRow(a, r)

SettleInv == \A a \in Admins : ClearOf(a) /\ StampOf(a)

LEMMA SettleInit == Init => SettleInv
BY DEF Init, SettleInv, ClearOf, StampOf, Clears

(* A request that a step leaves alone, with the rows, stays as it is. *)
LEMMA SettleAlone ==
  ASSUME NEW b \in Admins, ClearOf(b), StampOf(b),
         UNCHANGED <<data, counts, stage[b], fleet[b], aged[b], plan[b], pending[b], last[b], blurred[b]>>
  PROVE  ClearOf(b)' /\ StampOf(b)'
<1>1. Present' = Present /\ Clears(b)' = Clears(b)
  BY DEF Present, Clears
<1>2. \A r : Left(b, r)' = Left(b, r) /\ Old(b, r)' = Old(b, r)
  BY DEF Left, Old
<1>3. \A r : ClearRow(b, r)' = ClearRow(b, r)
  BY <1>2 DEF ClearRow
<1>4. \A r : StampRow(b, r)' = StampRow(b, r)
  BY <1>2 DEF StampRow
<1> QED BY <1>1, <1>3, <1>4 DEF ClearOf, StampOf

(* A step of one request that leaves the rows alone. *)
LEMMA SettleOfOne ==
  ASSUME SettleInv, NEW a \in Admins, UNCHANGED <<data, counts>>,
         \A b \in Admins \ {a} :
           UNCHANGED <<stage[b], fleet[b], aged[b], plan[b], pending[b], last[b], blurred[b]>>,
         ClearOf(a)' /\ StampOf(a)'
  PROVE  SettleInv'
<1> SUFFICES ASSUME NEW b \in Admins PROVE ClearOf(b)' /\ StampOf(b)'
  BY DEF SettleInv
<1>1. CASE b = a
  BY <1>1
<1>2. CASE b # a
  BY <1>2, SettleAlone DEF SettleInv
<1> QED BY <1>1, <1>2

(* A check-in: it blurs the row for a cleanup, and agrees with the classifier by itself. *)
LEMMA SettleStore ==
  ASSUME TypeInv, SettleInv, NEW r \in Rows, NEW report \in Reports, Store(r, report)
  PROVE  SettleInv'
<1> DEFINE p == Stamped(report)
<1>1. /\ data' = [data EXCEPT ![r] = [by |-> reports + 1, is |-> p]]
      /\ counts' = [counts EXCEPT ![r] = CountersOf(r, p)]
      /\ ~Locked(r)
      /\ blurred' = [a \in Admins |-> IF Clears(a) THEN blurred[a] \cup {r} ELSE blurred[a]]
      /\ UNCHANGED <<stage, fleet, aged, plan, pending, last>>
  BY DEF Store, request
<1>2. Stamped(p) = p
  BY StampedIs, PayloadsAssumption
<1> HIDE DEF p
<1>3. data'[r].is = p /\ counts'[r] = CountersOf(r, p)
  BY <1>1 DEF TypeInv, DataTypes
<1>4. ASSUME NEW q \in Rows, q # r PROVE data'[q] = data[q] /\ counts'[q] = counts[q]
  BY <1>1, <1>4 DEF TypeInv, DataTypes
<1> SUFFICES ASSUME NEW b \in Admins PROVE ClearOf(b)' /\ StampOf(b)'
  BY DEF SettleInv
<1>5. ClearOf(b) /\ StampOf(b) /\ (Clears(b)' <=> Clears(b))
  BY <1>1 DEF SettleInv, Clears
<1>6. \A q : Left(b, q)' = Left(b, q) /\ Old(b, q)' = Old(b, q)
  BY <1>1 DEF Left, Old
<1>7. ClearOf(b)'
  <2> SUFFICES ASSUME Clears(b), fleet[b], NEW q \in Present' \ blurred'[b] PROVE ClearRow(b, q)'
    BY <1>1, <1>5 DEF ClearOf
  <2>1. q # r /\ q \in Rows /\ q \notin blurred[b]
    BY <1>1 DEF Present
  <2>2. data'[q] = data[q] /\ counts'[q] = counts[q] /\ q \in Present
    BY <1>4, <2>1 DEF Present
  <2>3. ClearRow(b, q)
    BY <1>5, <2>1, <2>2 DEF ClearOf
  <2> QED BY <1>1, <1>6, <2>2, <2>3 DEF ClearRow
<1>8. StampOf(b)'
  <2> SUFFICES ASSUME stage[b] \in {"batch", "stamping"}, NEW q \in Present' \ blurred'[b], q <= last[b]
               PROVE  StampRow(b, q)'
    BY <1>1, <1>5 DEF StampOf
  <2>1. q \in Rows /\ q \notin blurred[b]
    BY <1>1 DEF Present, Clears
  <2>2. CASE q = r
    <3>1. CASE data[r] # Absent /\ data[r].is = p
      <4>1. r \in Present
        BY <3>1 DEF Present
      <4>2. StampRow(b, r) /\ pending[b][r] = Absent
        BY <1>1, <1>5, <2>1, <2>2, <4>1 DEF StampOf, Locked
      <4>3. counts'[r] = counts[r]
        BY <1>3, <3>1 DEF CountersOf
      <4> QED BY <1>3, <1>6, <2>2, <3>1, <4>2, <4>3 DEF StampRow
    <3>2. CASE ~(data[r] # Absent /\ data[r].is = p)
      <4>1. counts'[r] = Counts(p)
        BY <1>3, <3>2 DEF CountersOf
      <4> QED BY <1>2, <1>3, <2>2, <4>1 DEF StampRow, Agrees
    <3> QED BY <3>1, <3>2
  <2>3. CASE q # r
    <3>1. data'[q] = data[q] /\ counts'[q] = counts[q] /\ q \in Present
      BY <1>4, <2>1, <2>3 DEF Present
    <3>2. StampRow(b, q)
      BY <1>5, <2>1, <3>1 DEF StampOf
    <3> QED BY <1>1, <1>6, <3>1, <3>2 DEF StampRow
  <2> QED BY <2>2, <2>3
<1> QED BY <1>7, <1>8
(* A write of the whole row. *)
LEMMA WholeWrites ==
  ASSUME NEW r, NEW p
  PROVE  Writes(r, p, TRUE) = IF p = data[r].is /\ Counts(p) = counts[r] THEN {} ELSE {AWrite(r, p, TRUE)}
<1>1. (TRUE \/ p # data[r].is) = TRUE
  OBVIOUS
<1> QED BY <1>1 DEF Writes

(* What a request that is not writing has left and has written: nothing. *)
LEMMA SettleQueries ==
  ASSUME TypeInv, SettleInv, NEW a \in Admins,
         \/ \E all, byAge \in BOOLEAN : BeginClear(a, all, byAge)
         \/ ListItems(a) \/ BeginReclassify(a) \/ ReadBatch(a) \/ EndReclassify(a)
  PROVE  SettleInv'
<1>1. /\ DOMAIN stage = Admins /\ DOMAIN fleet = Admins /\ DOMAIN last = Admins /\ DOMAIN blurred = Admins
      /\ DOMAIN plan = Admins /\ DOMAIN aged = Admins
      /\ last[a] \in Rows \cup {0}
      /\ stage[a] # "clearing" => aged[a] = {}
      /\ stage[a] \in {"idle", "batch"} => plan[a] = {}
      /\ stage[a] \in {"idle", "batch", "listed"} => \A r \in Rows : pending[a][r] = Absent
  BY DEF TypeInv, DataTypes, RequestTypes, Empty, Nothing
<1>2. ClearOf(a) /\ StampOf(a)
  BY DEF SettleInv
<1>3. Present \subseteq Rows /\ \A r \in Present : data[r].is \in Payload
  BY DEF Present, Stored, TypeInv, DataTypes
<1>4. ASSUME NEW all \in BOOLEAN, NEW byAge \in BOOLEAN, BeginClear(a, all, byAge) PROVE SettleInv'
  <2> DEFINE W == UNION {Writes(r, Cleared(data[r].is), FALSE) : r \in Silent(all)}
             to == IF byAge THEN "listed" ELSE "clearing"
  <2>1. /\ plan' = [plan EXCEPT ![a] = W] /\ fleet' = [fleet EXCEPT ![a] = all]
        /\ stage[a] = "idle" /\ stage' = [stage EXCEPT ![a] = to]
        /\ UNCHANGED <<data, counts, aged, pending, last>>
        /\ blurred' = [blurred EXCEPT ![a] = {}]
    BY <1>4 DEF BeginClear, Begin, table
  <2>2. to \notin {"batch", "stamping"}
    OBVIOUS
  <2>3. ASSUME all, NEW r \in Present PROVE {w \in W : w.row = r} = Writes(r, Cleared(data[r].is), FALSE)
    <3>1. \A q \in Silent(all) : \A w \in Writes(q, Cleared(data[q].is), FALSE) : w.row = q
      BY DEF Writes, AWrite
    <3>2. r \in Silent(all)
      BY <2>3 DEF Silent
    <3> QED BY <3>1, <3>2
  <2> HIDE DEF W, to
  <2>4. ASSUME all, NEW r \in Present PROVE ClearRow(a, r)'
    <3> DEFINE p == data[r].is
    <3>1. /\ Left(a, r)' = Writes(r, Cleared(p), FALSE) /\ Old(a, r)' = {} /\ pending'[a][r] = Absent
          /\ data'[r].is = p /\ counts'[r] = counts[r]
      BY <1>1, <1>3, <2>1, <2>3, <2>4 DEF Left, Old
    <3>2. CASE Cleared(p) = p /\ Counts(Cleared(p)) = counts[r]
      <4>1. Left(a, r)' = {}
        BY <3>1, <3>2 DEF Writes
      <4> QED BY <3>1, <3>2, <4>1 DEF ClearRow
    <3>3. CASE ~(Cleared(p) = p /\ Counts(Cleared(p)) = counts[r])
      <4> DEFINE w == AWrite(r, Cleared(p), FALSE \/ Cleared(p) # p)
      <4>1. Left(a, r)' = {w}
        BY <3>1, <3>3 DEF Writes
      <4>2. w.is = Cleared(p) /\ w.counts = Counts(w.is) /\ (w.both \/ w.is = p)
        BY DEF AWrite
      <4> HIDE DEF w
      <4> QED BY <3>1, <4>1, <4>2 DEF ClearRow
    <3> QED BY <3>2, <3>3
  <2>5. ClearOf(a)' /\ StampOf(a)'
    <3>1. Present' = Present /\ fleet'[a] = all /\ stage'[a] \notin {"batch", "stamping"}
      BY <1>1, <2>1, <2>2 DEF Present
    <3> QED BY <2>4, <3>1 DEF ClearOf, StampOf
  <2> QED BY <1>1, <2>1, <2>5, SettleOfOne
<1>5. CASE ListItems(a)
  <2> DEFINE S == {q \in Present : ClearedByAge(data[q].is) # data[q].is}
             W == UNION {Writes(r, ClearedByAge(data[r].is), TRUE) : r \in S}
  <2>1. /\ stage[a] = "listed" /\ stage' = [stage EXCEPT ![a] = "clearing"] /\ aged' = [aged EXCEPT ![a] = W]
        /\ UNCHANGED <<data, counts, fleet, plan, pending, last, blurred>>
    BY <1>5 DEF ListItems, table, history
  <2>2. ASSUME NEW r \in Present, Cleared(data[r].is) = data[r].is PROVE {w \in W : w.row = r} = {}
    <3>1. \A q \in S : \A w \in Writes(q, ClearedByAge(data[q].is), TRUE) : w.row = q
      BY DEF Writes, AWrite
    <3>2. r \notin S
      BY <1>3, <2>2, ClearedByAgeIs
    <3> QED BY <3>1, <3>2
  <2> HIDE DEF W
  <2>3. ASSUME fleet[a], NEW r \in Present \ blurred[a] PROVE ClearRow(a, r)'
    <3>1. ClearRow(a, r) /\ pending[a][r] = Absent
      BY <1>1, <1>2, <1>3, <2>1, <2>3 DEF ClearOf, Clears
    <3>2. Cleared(data[r].is) = data[r].is => Old(a, r)' = {}
      BY <1>1, <2>1, <2>2 DEF Old
    <3>3. Left(a, r)' = Left(a, r)
      BY <2>1 DEF Left
    <3>4. CASE Left(a, r) = {}
      BY <2>1, <3>1, <3>2, <3>3, <3>4 DEF ClearRow
    <3>5. CASE Left(a, r) # {}
      BY <2>1, <3>1, <3>2, <3>3, <3>5 DEF ClearRow
    <3> QED BY <3>4, <3>5
  <2>4. ClearOf(a)' /\ StampOf(a)'
    <3>1. Present' = Present /\ stage'[a] = "clearing"
      BY <1>1, <2>1 DEF Present
    <3> QED BY <2>1, <2>3, <3>1 DEF ClearOf, StampOf
  <2> QED BY <1>1, <2>1, <2>4, SettleOfOne
<1>6. CASE BeginReclassify(a)
  <2>1. /\ fleet' = [fleet EXCEPT ![a] = FALSE] /\ stage[a] = "idle" /\ stage' = [stage EXCEPT ![a] = "batch"]
        /\ UNCHANGED <<data, counts, aged, plan, pending>> /\ last' = [last EXCEPT ![a] = 0]
        /\ blurred' = [blurred EXCEPT ![a] = {}]
    BY <1>6 DEF BeginReclassify, Begin, table
  <2>2. \A r \in Present' : ~(r <= last'[a])
    <3>1. last'[a] = 0 /\ Present' = Present
      BY <1>1, <2>1 DEF Present
    <3> QED BY <1>3, <3>1, RowsAssumption
  <2>3. ClearOf(a)' /\ StampOf(a)'
    BY <1>1, <2>1, <2>2 DEF ClearOf, StampOf, Clears
  <2> QED BY <1>1, <2>1, <2>3, SettleOfOne
<1>7. CASE ReadBatch(a)
  <2> DEFINE W == UNION {Writes(r, Stamped(data[r].is), TRUE) : r \in NextRows(a)}
             top == CHOOSE r \in NextRows(a) : \A q \in NextRows(a) : q <= r
  <2>1. /\ stage[a] = "batch" /\ stage' = [stage EXCEPT ![a] = "stamping"] /\ plan' = [plan EXCEPT ![a] = W]
        /\ last' = [last EXCEPT ![a] = top] /\ NextRows(a) # {}
        /\ UNCHANGED <<data, counts, fleet, aged, pending, blurred>>
    BY <1>7 DEF ReadBatch, table, history
  <2>2. ASSUME NEW w \in W PROVE w.both /\ Agrees(w.is, w.counts)
    <3>1. PICK r \in NextRows(a) : w \in Writes(r, Stamped(data[r].is), TRUE)
      OBVIOUS
    <3> DEFINE p == Stamped(data[r].is)
    <3>2. w.both /\ w.is = p /\ w.counts = Counts(w.is)
      <4> HIDE DEF p, W
      <4>1. w = AWrite(r, p, TRUE)
        BY <3>1, WholeWrites DEF p
      <4> QED BY <4>1 DEF AWrite
    <3>3. data[r].is \in Payload
      BY <1>3 DEF NextRows
    <3> QED BY <3>2, <3>3, StampedIs DEF Agrees
  <2>3. ASSUME NEW r \in NextRows(a) PROVE Agrees(data[r].is, counts[r]) \/ \E w \in W : w.row = r
    <3> DEFINE p == Stamped(data[r].is)
    <3>1. Writes(r, p, TRUE) \subseteq W
      OBVIOUS
    <3>2. CASE p = data[r].is /\ Counts(p) = counts[r]
      BY <3>2 DEF Agrees
    <3>3. CASE ~(p = data[r].is /\ Counts(p) = counts[r])
      <4>1. AWrite(r, p, TRUE) \in W
        BY <3>1, <3>3, WholeWrites
      <4>2. AWrite(r, p, TRUE).row = r
        BY DEF AWrite
      <4> QED BY <4>1, <4>2
    <3> QED BY <3>2, <3>3
  <2>4. last[a] \in Nat
    <3>1. Rows \subseteq Nat /\ 0 \in Nat
      BY RowsAssumption
    <3>2. last[a] \in Rows \cup {0}
      BY <1>1
    <3> HIDE DEF W, top
    <3> QED BY <3>1, <3>2
  <2>5. /\ top \in NextRows(a)
        /\ \A r \in Present : last[a] < r /\ r <= top => r \in NextRows(a)
    BY <2>1, <2>4, LastOfBatch
  <2> HIDE DEF W, top
  <2>6. ASSUME NEW r \in Present \ blurred[a], r <= top PROVE StampRow(a, r)'
    <3>1. r \in Nat
      BY <1>3, RowsAssumption
    <3>2. Left(a, r)' = {w \in W : w.row = r}
      BY <1>1, <2>1 DEF Left
    <3>3. CASE r <= last[a]
      <4>1. Left(a, r) = {} /\ pending[a][r] = Absent
        BY <1>1, <1>3, <2>1 DEF Left
      <4>2. StampRow(a, r)
        BY <1>2, <2>1, <2>6, <3>3 DEF StampOf
      <4> QED BY <2>1, <4>1, <4>2 DEF StampRow
    <3>4. CASE last[a] < r
      <4>1. r \in NextRows(a)
        BY <2>5, <2>6, <3>4
      <4> QED BY <2>1, <2>3, <3>2, <4>1 DEF StampRow
    <3> QED BY <2>4, <3>1, <3>3, <3>4
  <2>7. ClearOf(a)' /\ StampOf(a)'
    <3>1. /\ Present' = Present /\ stage'[a] = "stamping" /\ plan'[a] = W /\ last'[a] = top
          /\ \A r \in Rows : pending'[a][r] = Absent
      BY <1>1, <2>1 DEF Present
    <3> QED BY <2>1, <2>2, <2>6, <3>1 DEF ClearOf, StampOf, Clears
  <2> QED BY <1>1, <2>1, <2>7, SettleOfOne
<1>8. CASE EndReclassify(a)
  <2>1. /\ stage' = [stage EXCEPT ![a] = "idle"]
        /\ UNCHANGED <<data, counts, fleet, aged, plan, pending, last, blurred>>
    BY <1>8 DEF EndReclassify, table, history
  <2>2. ClearOf(a)' /\ StampOf(a)'
    BY <1>1, <2>1 DEF ClearOf, StampOf, Clears
  <2> QED BY <1>1, <2>1, <2>2, SettleOfOne
<1> QED BY <1>4, <1>5, <1>6, <1>7, <1>8

LEMMA SettleUpdate ==
  ASSUME TypeInv, SettleInv, NEW a \in Admins, NEW w \in aged[a] \cup plan[a], Update(a, w)
  PROVE  SettleInv'
<1>1. Moved(a, w)
  BY AnUpdate
<1>2. ClearOf(a) /\ StampOf(a)
  BY DEF SettleInv
<1>3. /\ UNCHANGED <<data, counts, stage, fleet, last, blurred>> /\ Present' = Present /\ (Clears(a)' <=> Clears(a))
      /\ pending'[a][w.row] # Absent
  BY <1>1, AbsentAssumption DEF Moved, Present, Clears
<1>4. ASSUME NEW q \in Rows, q # w.row
      PROVE  Left(a, q)' = Left(a, q) /\ Old(a, q)' = Old(a, q) /\ pending'[a][q] = pending[a][q]
  BY <1>1, <1>4 DEF Moved, Left, Old
<1>5. ClearOf(a)'
  <2> SUFFICES ASSUME Clears(a), fleet[a], NEW r \in Present \ blurred[a] PROVE ClearRow(a, r)'
    BY <1>3 DEF ClearOf
  <2>1. ClearRow(a, r) /\ r \in Rows
    BY <1>2 DEF ClearOf, Present
  <2>2. CASE r # w.row
    BY <1>3, <1>4, <2>1, <2>2 DEF ClearRow
  <2>3. CASE r = w.row /\ w \in aged[a]
    <3>1. w \in Old(a, r) /\ Left(a, r)' = Left(a, r)
      BY <1>1, <2>3 DEF Old, Left, Moved
    <3>2. PICK v : /\ Left(a, r) = {v} /\ v.is = Cleared(data[r].is) /\ v.counts = Counts(v.is)
                   /\ v.both
      BY <2>1, <3>1 DEF ClearRow
    <3> QED BY <1>3, <3>1, <3>2 DEF ClearRow
  <2>4. CASE r = w.row /\ w \notin aged[a]
    <3>1. w \in Left(a, r) /\ Old(a, r) = {} /\ Old(a, r)' = {} /\ Left(a, r)' = Left(a, r) \ {w}
      BY <1>1, <2>4 DEF Old, Left, Moved
    <3>2. /\ Left(a, r) = {w} /\ w.is = Cleared(data[r].is) /\ w.counts = Counts(w.is)
          /\ w.both \/ (w.is = data[r].is /\ pending[a][r] = Absent)
      BY <2>1, <3>1 DEF ClearRow
    <3>3. pending'[a][r].data.is = Cleared(data[r].is) /\ pending'[a][r].counts = Counts(Cleared(data[r].is))
      BY <1>1, <2>4, <3>2 DEF Moved
    <3>4. Left(a, r)' = {}
      BY <3>1, <3>2
    <3> QED BY <1>3, <2>4, <3>1, <3>3, <3>4 DEF ClearRow
  <2> QED BY <2>2, <2>3, <2>4
<1>6. StampOf(a)'
  <2> SUFFICES ASSUME stage[a] \in {"batch", "stamping"} PROVE StampOf(a)'
    BY <1>3 DEF StampOf
  <2>1. aged[a] = {} /\ w \in plan[a] /\ w.both /\ Agrees(w.is, w.counts)
    BY <1>2 DEF StampOf, TypeInv, Empty
  <2>2. \A v \in plan'[a] : v.both /\ Agrees(v.is, v.counts)
    BY <1>1, <1>2 DEF Moved, StampOf
  <2>3. ASSUME NEW r \in Rows, pending'[a][r] # Absent
        PROVE  Agrees(pending'[a][r].data.is, pending'[a][r].counts)
    <3>1. CASE r = w.row
      BY <1>1, <2>1, <3>1 DEF Moved
    <3>2. CASE r # w.row
      BY <1>2, <1>4, <2>3, <3>2 DEF StampOf
    <3> QED BY <3>1, <3>2
  <2>4. ASSUME NEW r \in Present \ blurred[a], r <= last[a] PROVE StampRow(a, r)'
    <3>1. StampRow(a, r) /\ r \in Rows
      BY <1>2, <2>4 DEF StampOf, Present
    <3>2. CASE r = w.row
      BY <1>3, <3>2 DEF StampRow
    <3>3. CASE r # w.row
      BY <1>3, <1>4, <3>1, <3>3 DEF StampRow
    <3> QED BY <3>2, <3>3
  <2> QED BY <1>3, <2>2, <2>3, <2>4 DEF StampOf
<1>7. \A b \in Admins \ {a} : UNCHANGED <<stage[b], fleet[b], aged[b], plan[b], pending[b], last[b], blurred[b]>>
  BY <1>1 DEF Moved
<1> QED BY <1>3, <1>5, <1>6, <1>7, SettleOfOne
(* A commit: what others have written of a row does not stand in the way, or blurs it. *)
LEMMA SettleCommit ==
  ASSUME TypeInv, SettleInv, NEW a \in Admins, Commit(a)
  PROVE  SettleInv'
<1>1. /\ data' = [r \in Rows |-> IF r \in Touched(a) THEN pending[a][r].data ELSE data[r]]
      /\ counts' = [r \in Rows |-> IF r \in Touched(a) THEN pending[a][r].counts ELSE counts[r]]
      /\ pending' = [pending EXCEPT ![a] = Nothing]
      /\ stage' = [stage EXCEPT ![a] = IF @ = "clearing" THEN "idle" ELSE "batch"]
      /\ blurred' = [b \in Admins |-> IF b # a /\ (Clears(a) \/ Clears(b))
                                      THEN blurred[b] \cup Touched(a) ELSE blurred[b]]
      /\ stage[a] \in {"clearing", "stamping"} /\ plan[a] = {}
      /\ UNCHANGED <<fleet, aged, plan, last>>
  BY DEF Commit
<1>2. Present' = Present
  <2>1. \A r \in Touched(a) : r \in Present /\ pending[a][r].data # Absent
    BY AbsentAssumption DEF Touched, Written, TypeInv, RequestTypes, OfPresent
  <2> QED BY <1>1, <2>1 DEF Present
<1>3. ASSUME NEW r \in Rows, r \notin Touched(a) PROVE data'[r] = data[r] /\ counts'[r] = counts[r]
  BY <1>1, <1>3
<1> SUFFICES ASSUME NEW b \in Admins PROVE ClearOf(b)' /\ StampOf(b)'
  BY DEF SettleInv
<1>4. ClearOf(b) /\ StampOf(b) /\ ClearOf(a) /\ StampOf(a)
  BY DEF SettleInv
<1>5. CASE b = a
  <2>1. stage'[a] \in {"idle", "batch"} /\ (stage'[a] = "batch" => stage[a] = "stamping")
        /\ blurred'[a] = blurred[a] /\ \A r \in Rows : pending'[a][r] = Absent
    BY <1>1 DEF Nothing, TypeInv, DataTypes, RequestTypes
  <2>2. ASSUME stage[a] = "stamping", NEW r \in Present \ blurred[a], r <= last[a] PROVE StampRow(a, r)'
    <3>1. StampRow(a, r) /\ Left(a, r) = {} /\ r \in Rows
      BY <1>1, <1>4, <2>2 DEF StampOf, Left, Present
    <3>2. CASE r \in Touched(a)
      <4>1. Agrees(pending[a][r].data.is, pending[a][r].counts)
        BY <1>4, <2>2, <3>2 DEF StampOf, Touched
      <4> QED BY <1>1, <3>1, <3>2, <4>1 DEF StampRow
    <3>3. CASE r \notin Touched(a)
      BY <1>3, <3>1, <3>3 DEF StampRow, Touched
    <3> QED BY <3>2, <3>3
  <2>3. ClearOf(a)'
    BY <2>1 DEF ClearOf, Clears
  <2>4. StampOf(a)'
    BY <1>1, <1>2, <2>1, <2>2 DEF StampOf
  <2> QED BY <1>5, <2>3, <2>4
<1>6. CASE b # a
  <2>1. UNCHANGED <<stage[b], fleet[b], aged[b], plan[b], pending[b], last[b]>> /\ (Clears(b)' <=> Clears(b))
        /\ blurred'[b] = IF Clears(a) \/ Clears(b) THEN blurred[b] \cup Touched(a) ELSE blurred[b]
    BY <1>1, <1>6 DEF TypeInv, RequestTypes, Clears
  <2>2. \A r : Left(b, r)' = Left(b, r) /\ Old(b, r)' = Old(b, r)
    BY <2>1 DEF Left, Old
  <2>3. ASSUME Clears(b), fleet[b], NEW r \in Present \ blurred'[b] PROVE ClearRow(b, r)'
    <3>1. r \in Rows /\ r \notin Touched(a) /\ r \notin blurred[b]
      BY <2>1, <2>3 DEF Present
    <3>2. ClearRow(b, r)
      BY <1>4, <2>3, <3>1 DEF ClearOf
    <3> QED BY <1>3, <2>1, <2>2, <3>1, <3>2 DEF ClearRow
  <2>4. ASSUME stage[b] \in {"batch", "stamping"}, NEW r \in Present \ blurred'[b], r <= last[b]
        PROVE  StampRow(b, r)'
    <3>1. r \in Rows /\ r \notin blurred[b] /\ StampRow(b, r)
      BY <1>4, <2>1, <2>4 DEF Present, StampOf
    <3>2. CASE r \in Touched(a)
      <4>1. stage[a] = "stamping"
        BY <1>1, <2>1, <2>4, <3>2 DEF Clears
      <4>2. Agrees(pending[a][r].data.is, pending[a][r].counts)
        BY <1>4, <3>2, <4>1 DEF StampOf, Touched
      <4> QED BY <1>1, <3>1, <3>2, <4>2 DEF StampRow
    <3>3. CASE r \notin Touched(a)
      BY <1>3, <2>1, <2>2, <3>1, <3>3 DEF StampRow
    <3> QED BY <3>2, <3>3
  <2>5. ClearOf(b)'
    BY <1>2, <2>1, <2>3 DEF ClearOf
  <2>6. StampOf(b)'
    BY <1>2, <1>4, <2>1, <2>4 DEF StampOf
  <2> QED BY <2>5, <2>6
<1> QED BY <1>5, <1>6

LEMMA SettleStep == TypeInv /\ SettleInv /\ [Next]_vars => SettleInv'
<1> SUFFICES ASSUME TypeInv, SettleInv, [Next]_vars PROVE SettleInv'
  OBVIOUS
<1>1. ASSUME UNCHANGED <<data, counts, request, blurred>> PROVE SettleInv'
  <2> SUFFICES ASSUME NEW b \in Admins PROVE ClearOf(b)' /\ StampOf(b)'
    BY DEF SettleInv
  <2>1. UNCHANGED <<data, counts, stage[b], fleet[b], aged[b], plan[b], pending[b], last[b], blurred[b]>>
    BY <1>1 DEF request
  <2> QED BY <2>1, SettleAlone DEF SettleInv
<1>2. CASE UNCHANGED vars
  BY <1>1, <1>2 DEF vars, table, history
<1>3. ASSUME NEW r \in Rows, FallSilent(r) PROVE SettleInv'
  BY <1>1, <1>3 DEF FallSilent, history
<1>4. ASSUME NEW r \in Rows, NEW report \in Reports, Store(r, report) PROVE SettleInv'
  BY <1>4, SettleStore
<1>5. ASSUME NEW a \in Admins, NEW all \in BOOLEAN, NEW byAge \in BOOLEAN, BeginClear(a, all, byAge)
      PROVE  SettleInv'
  BY <1>5, SettleQueries
<1>6. ASSUME NEW a \in Admins, ListItems(a) \/ BeginReclassify(a) \/ ReadBatch(a) \/ EndReclassify(a)
      PROVE  SettleInv'
  BY <1>6, SettleQueries
<1>7. ASSUME NEW a \in Admins, NEW w \in aged[a] \cup plan[a], Update(a, w) PROVE SettleInv'
  BY <1>7, SettleUpdate
<1>8. ASSUME NEW a \in Admins, Commit(a) PROVE SettleInv'
  BY <1>8, SettleCommit
<1>9. ASSUME NEW a \in Admins, Fail(a) PROVE SettleInv'
  <2>1. /\ stage' = [stage EXCEPT ![a] = "idle"] /\ aged' = [aged EXCEPT ![a] = {}]
        /\ plan' = [plan EXCEPT ![a] = {}] /\ pending' = [pending EXCEPT ![a] = Nothing]
        /\ UNCHANGED <<data, counts, fleet, last, blurred>>
    BY <1>9 DEF Fail, table, history
  <2>2. stage'[a] = "idle" /\ \A b \in Admins \ {a} :
          UNCHANGED <<stage[b], fleet[b], aged[b], plan[b], pending[b], last[b], blurred[b]>>
    BY <2>1 DEF TypeInv, RequestTypes
  <2>3. ClearOf(a)' /\ StampOf(a)'
    BY <2>2 DEF ClearOf, StampOf, Clears
  <2> QED BY <2>1, <2>2, <2>3, SettleOfOne
<1> QED BY <1>2, <1>3, <1>4, <1>5, <1>6, <1>7, <1>8, <1>9 DEF Next

(***************************************************************************)
(* A cleanup of the whole fleet that commits has cleared every row nobody  *)
(* else changed under it: another would find nothing to do.                *)
(***************************************************************************)
THEOREM ClearingSettles == Spec => ClearSettles
<1>1. ASSUME TypeInv, SettleInv, NEW a \in Admins, Commit(a), Clears(a), fleet[a], NEW r \in Present \ blurred[a]
      PROVE  Cleared(data'[r].is) = data'[r].is /\ counts'[r] = Counts(data'[r].is)
  <2>1. /\ data' = [q \in Rows |-> IF q \in Touched(a) THEN pending[a][q].data ELSE data[q]]
        /\ counts' = [q \in Rows |-> IF q \in Touched(a) THEN pending[a][q].counts ELSE counts[q]]
        /\ plan[a] = {}
    BY <1>1 DEF Commit
  <2>2. r \in Rows /\ data[r].is \in Payload
    BY <1>1 DEF Present, Stored, TypeInv, DataTypes
  <2>3. ClearRow(a, r) /\ Left(a, r) = {}
    BY <1>1, <2>1 DEF SettleInv, ClearOf, Left
  <2>4. CASE r \in Touched(a)
    <3>1. data'[r].is = Cleared(data[r].is) /\ counts'[r] = Counts(Cleared(data[r].is))
      BY <2>1, <2>2, <2>3, <2>4 DEF ClearRow, Touched
    <3> QED BY <2>2, <3>1, ClearedIs
  <2>5. CASE r \notin Touched(a)
    BY <2>1, <2>2, <2>3, <2>5 DEF ClearRow, Touched
  <2> QED BY <2>4, <2>5
<1> DEFINE Settled == \A a \in Admins : Commit(a) /\ Clears(a) /\ fleet[a] =>
       \A r \in Present \ blurred[a] :
         Cleared(data'[r].is) = data'[r].is /\ counts'[r] = Counts(data'[r].is)
<1>2. TypeInv /\ SettleInv => [Settled]_vars
  BY <1>1
<1> QED BY <1>2, TypeInit, TypeStep, SettleInit, SettleStep, PTL DEF Spec, ClearSettles

(***************************************************************************)
(* When reclassify ends, every row has the stamps and the counters that    *)
(* the classifier gives its payload, but for rows a cleanup wrote under it.*)
(***************************************************************************)
THEOREM ReclassifyingSettles == Spec => ReclassifySettles
<1>1. ASSUME TypeInv, SettleInv, NEW a \in Admins, EndReclassify(a), NEW r \in Present \ blurred[a]
      PROVE  Stamped(data[r].is) = data[r].is /\ counts[r] = Counts(data[r].is)
  <2>1. stage[a] = "batch" /\ NextRows(a) = {}
    BY <1>1 DEF EndReclassify
  <2>2. r <= last[a]
    <3> DEFINE left == {q \in Present : q > last[a]}
    <3>1. Rows \subseteq Nat
      BY RowsAssumption, Zenon
    <3>2. r \in Nat /\ last[a] \in Nat /\ left \in SUBSET Nat
      <4>1. last[a] \in Rows \cup {0} /\ 0 \in Nat
        BY <1>1 DEF TypeInv, RequestTypes
      <4>2. r \in Rows /\ left \subseteq Rows
        BY <1>1, PresentRows
      <4> HIDE DEF left
      <4> QED BY <3>1, <4>1, <4>2
    <3>3. left = {}
      <4> SUFFICES ASSUME left # {} PROVE FALSE
        OBVIOUS
      <4> HIDE DEF left
      <4>1. PICK x \in left : \A y \in left : x <= y
        BY <3>2, Least
      <4>2. {q \in left : q <= x} = {x}
        <5>1. \A q \in left : q \in Nat
          BY <3>2
        <5>2. \A q \in left : q <= x => q = x
          BY <4>1, <5>1
        <5> QED BY <4>1, <5>1, <5>2
      <4>3. Cardinality({q \in left : q <= x}) <= Batch
        <5>1. Cardinality({x}) = 1
          BY FS_Singleton
        <5> QED BY <4>2, <5>1, BoundsAssumption
      <4>4. x \in NextRows(a)
        BY <4>1, <4>3 DEF NextRows, left
      <4> QED BY <2>1, <4>4
    <3> QED BY <1>1, <3>2, <3>3
  <2>3. StampRow(a, r) /\ r \in Rows
    BY <1>1, <2>1, <2>2 DEF SettleInv, StampOf, Present
  <2>4. plan[a] = {} /\ pending[a][r] = Absent
    BY <1>1, <2>1, <2>3 DEF TypeInv, Empty, Nothing
  <2> QED BY <2>3, <2>4 DEF StampRow, Left, Agrees
<1> DEFINE Settled == \A a \in Admins : EndReclassify(a) =>
       \A r \in Present \ blurred[a] :
         Stamped(data[r].is) = data[r].is /\ counts[r] = Counts(data[r].is)
<1>2. TypeInv /\ SettleInv => [Settled]_vars
  BY <1>1
<1> QED BY <1>2, TypeInit, TypeStep, SettleInit, SettleStep, PTL DEF Spec, ReclassifySettles
=============================================================================
