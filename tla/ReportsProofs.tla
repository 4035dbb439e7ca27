---------------------------- MODULE ReportsProofs ----------------------------
(***************************************************************************)
(* What a replacing inventory write leaves, what time alone proves of a    *)
(* device, what a card counts while the fleet changes, that its link opens *)
(* the devices it counts, and that pickers, summaries and drill-downs show *)
(* what they count, for every number of devices, writes, questions,        *)
(* documents, rows and days.                                               *)
(***************************************************************************)
EXTENDS Reports, FiniteSetTheorems, WellFoundedInduction, TLAPS

-----------------------------------------------------------------------------
(***************************************************************************)
(* Folds.  A sum over a finite set is what any function of its subsets     *)
(* says that grows with each element by that element's weight: no such     *)
(* statement can fail for a smallest subset.                               *)
(***************************************************************************)
(* A set of numbers has a least one. *)
LEMMA LeastNatural ==
  ASSUME NEW T, T \subseteq Nat, T # {}
  PROVE  \E x \in T : \A y \in T : x <= y
  <1>1. PICK x \in T : \A y \in T : <<y, x>> \notin OpToRel(<, Nat)
    BY WFMin, NatLessThanWellFounded
  <1>2. \A y \in T : ~ (y < x)
    BY <1>1 DEF OpToRel
  <1>. QED BY <1>2

OneOf(s) == CHOOSE x \in s : TRUE
Adds(it, w, D) == it = [s \in D |-> IF s = {} THEN 0 ELSE w[OneOf(s)] + it[s \ {OneOf(s)}]]

LEMMA SumRecurses ==
  ASSUME NEW S, IsFiniteSet(S), NEW w
  PROVE  \E it : Adds(it, w, SUBSET S)
  <1>. DEFINE D(n) == {s \in SUBSET S : Cardinality(s) <= n}
              T == {n \in Nat : ~ \E it : Adds(it, w, D(n))}
  <1>1. \A s \in SUBSET S : IsFiniteSet(s) /\ Cardinality(s) \in Nat
    BY FS_Subset, FS_CardinalityType
  <1>2. \A s \in SUBSET S : s # {} => /\ OneOf(s) \in s
                                     /\ Cardinality(s \ {OneOf(s)}) = Cardinality(s) - 1
    BY <1>1, FS_RemoveElement DEF OneOf
  <1>3. T = {}
    <2>. SUFFICES ASSUME T # {} PROVE FALSE
      OBVIOUS
    <2>1. PICK m \in T : \A y \in T : m <= y
      BY LeastNatural
    <2>2. m # 0
      <3>1. \A s \in D(0) : s = {}
        BY <1>1, FS_EmptySet
      <3>2. Adds([s \in D(0) |-> 0], w, D(0))
        BY <3>1 DEF Adds
      <3>. QED BY <3>2
    <2>3. m - 1 \in Nat /\ m - 1 \notin T
      <3>1. T \subseteq Nat
        OBVIOUS
      <3>. HIDE DEF T
      <3>. QED BY <2>1, <2>2, <3>1
    <2>4. PICK it : Adds(it, w, D(m - 1))
      BY <2>3
    <2>. DEFINE more == [s \in D(m) |-> IF s = {} THEN 0 ELSE w[OneOf(s)] + it[s \ {OneOf(s)}]]
    <2>5. \A s \in D(m) : s # {} => s \ {OneOf(s)} \in D(m - 1)
      BY <1>1, <1>2, <2>3
    <2>6. \A s \in D(m - 1) : s \in D(m) /\ it[s] = IF s = {} THEN 0 ELSE w[OneOf(s)] + it[s \ {OneOf(s)}]
      <3>1. \A s \in D(m - 1) : it[s] = IF s = {} THEN 0 ELSE w[OneOf(s)] + it[s \ {OneOf(s)}]
        <4>. HIDE DEF D
        <4>. QED BY <2>4 DEF Adds
      <3>2. m \in Nat
        OBVIOUS
      <3>3. \A s \in D(m - 1) : s \in D(m)
        BY <1>1, <2>3, <3>2
      <3>. QED BY <3>1, <3>3
    <2>7. \A s \in D(m - 1) : more[s] = it[s]
      BY <2>6
    <2>. HIDE DEF D
    <2>8. \A s \in D(m) : more[s] = IF s = {} THEN 0 ELSE w[OneOf(s)] + more[s \ {OneOf(s)}]
      BY <2>5, <2>7
    <2>9. Adds(more, w, D(m))
      BY <2>8 DEF Adds
    <2>. QED BY <2>9
  <1>4. Cardinality(S) \notin T /\ Cardinality(S) \in Nat
    BY <1>3, <1>1
  <1>5. D(Cardinality(S)) = SUBSET S
    BY FS_Subset, <1>4
  <1>. QED BY <1>4, <1>5

(* F grows with each element of a subset of S by that element's weight. *)
Grows(F, w, S) == F[{}] = 0 /\ \A s \in SUBSET S : \A x \in s : F[s] = w[x] + F[s \ {x}]

LEMMA SumIs ==
  ASSUME NEW S, IsFiniteSet(S), NEW w, NEW F, Grows(F, w, S)
  PROVE  SumFunctionOnSet(w, S) = F[S]
  <1>. DEFINE it == CHOOSE f : Adds(f, w, SUBSET S)
  <1>1. Adds(it, w, SUBSET S)
    BY SumRecurses
  <1>2. SumFunctionOnSet(w, S) = it[S]
    BY DEF SumFunctionOnSet, FoldFunctionOnSet, MapThenFoldSet, Adds, OneOf
  <1>. HIDE DEF it
  <1>3. \A s \in SUBSET S : it[s] = IF s = {} THEN 0 ELSE w[OneOf(s)] + it[s \ {OneOf(s)}]
    BY <1>1 DEF Adds
  <1>4. \A s \in SUBSET S : IsFiniteSet(s) /\ Cardinality(s) \in Nat
    BY FS_Subset, FS_CardinalityType
  <1>. DEFINE T == {n \in Nat : \E s \in SUBSET S : Cardinality(s) = n /\ it[s] # F[s]}
  <1>5. T = {}
    <2>. SUFFICES ASSUME T # {} PROVE FALSE
      OBVIOUS
    <2>1. PICK m \in T : \A y \in T : m <= y
      BY LeastNatural
    <2>2. PICK s \in SUBSET S : Cardinality(s) = m /\ it[s] # F[s]
      BY <2>1
    <2>3. s # {}
      BY <1>3, <2>2 DEF Grows
    <2>4. OneOf(s) \in s /\ Cardinality(s \ {OneOf(s)}) = m - 1
      BY <1>4, <2>2, <2>3, FS_RemoveElement DEF OneOf
    <2>5. m - 1 \in Nat /\ m - 1 \notin T
      BY <1>4, <2>1, <2>4
    <2>6. it[s \ {OneOf(s)}] = F[s \ {OneOf(s)}]
      BY <2>4, <2>5
    <2>. QED BY <1>3, <2>2, <2>3, <2>4, <2>6 DEF Grows
  <1>. QED BY <1>2, <1>4, <1>5

(* One weight, and nothing besides. *)
LEMMA SumOfOne ==
  ASSUME NEW S, IsFiniteSet(S), NEW one \in S, NEW w, w[one] \in Int, \A x \in S \ {one} : w[x] = 0
  PROVE  SumFunctionOnSet(w, S) = w[one]
  <1>. DEFINE F == [s \in SUBSET S |-> IF one \in s THEN w[one] ELSE 0]
  <1>1. F[{}] = 0 /\ F[S] = w[one]
    OBVIOUS
  <1>2. Grows(F, w, S)
    BY DEF Grows
  <1>. HIDE DEF F
  <1>. QED BY <1>1, <1>2, SumIs

LEMMA SumOfNone ==
  ASSUME NEW S, IsFiniteSet(S), NEW w, \A x \in S : w[x] = 0
  PROVE  SumFunctionOnSet(w, S) = 0
  <1>. DEFINE F == [s \in SUBSET S |-> 0]
  <1>1. F[{}] = 0 /\ F[S] = 0
    OBVIOUS
  <1>2. Grows(F, w, S)
    BY DEF Grows
  <1>. HIDE DEF F
  <1>. QED BY <1>1, <1>2, SumIs

LEMMA FiniteImage == ASSUME NEW S, IsFiniteSet(S), NEW f PROVE IsFiniteSet({f[x] : x \in S})
  <1>. DEFINE g == [x \in S |-> f[x]]
              T == {f[x] : x \in S}
  <1>1. g \in Surjection(S, T)
    BY DEF Surjection
  <1>. HIDE DEF g, T
  <1>. QED BY <1>1, FS_Surjection DEF T

LEMMA FiniteUnion ==
  ASSUME NEW S, IsFiniteSet(S), NEW f, \A x \in S : IsFiniteSet(f[x])
  PROVE  IsFiniteSet(UNION {f[x] : x \in S})
  <1>. DEFINE T == {f[x] : x \in S}
  <1>1. IsFiniteSet(T)
    BY FiniteImage
  <1>2. \A t \in T : IsFiniteSet(t)
    OBVIOUS
  <1>. HIDE DEF T
  <1>3. IsFiniteSet(UNION T)
    BY <1>1, <1>2, FS_UNION
  <1>. QED BY <1>3 DEF T

(* The sizes of sets that have nothing in common add up to the size of their union. *)
LEMMA SumOfSizes ==
  ASSUME NEW S, IsFiniteSet(S), NEW B, \A x \in S : IsFiniteSet(B[x]),
         \A x, y \in S : x # y => B[x] \cap B[y] = {},
         NEW w, \A x \in S : w[x] = Cardinality(B[x])
  PROVE  SumFunctionOnSet(w, S) = Cardinality(UNION {B[x] : x \in S})
  <1>. DEFINE All(s) == UNION {B[x] : x \in s}
              F == [s \in SUBSET S |-> Cardinality(All(s))]
  <1>1. \A s \in SUBSET S : IsFiniteSet(All(s))
    <2>. SUFFICES ASSUME NEW s \in SUBSET S PROVE IsFiniteSet(UNION {B[x] : x \in s})
      OBVIOUS
    <2>1. IsFiniteSet(s)
      BY FS_Subset
    <2>2. \A x \in s : IsFiniteSet(B[x])
      OBVIOUS
    <2>. QED BY <2>1, <2>2, FiniteUnion
  <1>2. F[{}] = 0
    <2>1. All({}) = {} /\ F[{}] = Cardinality(All({}))
      OBVIOUS
    <2>. HIDE DEF F, All
    <2>. QED BY <2>1, FS_EmptySet
  <1>3. \A s \in SUBSET S : \A x \in s : F[s] = w[x] + F[s \ {x}]
    <2>. SUFFICES ASSUME NEW s \in SUBSET S, NEW x \in s PROVE F[s] = w[x] + F[s \ {x}]
      OBVIOUS
    <2>1. All(s) = B[x] \cup All(s \ {x}) /\ B[x] \cap All(s \ {x}) = {}
      OBVIOUS
    <2>2. IsFiniteSet(B[x]) /\ IsFiniteSet(All(s \ {x})) /\ w[x] = Cardinality(B[x])
      BY <1>1
    <2>5. F[s] = Cardinality(All(s)) /\ F[s \ {x}] = Cardinality(All(s \ {x}))
      OBVIOUS
    <2>. HIDE DEF All, F
    <2>3. Cardinality(All(s)) = Cardinality(B[x]) + Cardinality(All(s \ {x})) - Cardinality(B[x] \cap All(s \ {x}))
      BY <2>1, <2>2, FS_Union
    <2>4. Cardinality(B[x]) \in Nat /\ Cardinality(All(s \ {x})) \in Nat
      BY <2>2, FS_CardinalityType
    <2>6. Cardinality(B[x] \cap All(s \ {x})) = 0
      BY <2>1, FS_EmptySet
    <2>. QED BY <2>2, <2>3, <2>4, <2>5, <2>6
  <1>4. F[S] = Cardinality(All(S))
    OBVIOUS
  <1>5. SumFunctionOnSet(w, S) = F[S]
    <2>. HIDE DEF F, All
    <2>1. Grows(F, w, S)
      BY <1>2, <1>3, Zenon DEF Grows
    <2>. QED BY <2>1, SumIs
  <1>. QED BY <1>4, <1>5

(* What orders a finite set leaves of it those that fewer than limit others come before: *)
(* with each of them all that come before it, and everything when there is room.         *)
Led(S, limit, before, F) == /\ F \subseteq S /\ IsFiniteSet(F)
                            /\ \A x \in F : before[x] \subseteq F
                            /\ Cardinality(F) < limit => F = S
                            /\ Cardinality(S) <= limit => F = S

LEMMA LeadingIs ==
  ASSUME NEW S, IsFiniteSet(S), NEW limit \in Nat, NEW before,
         \A x \in S : before[x] \subseteq S /\ x \notin before[x],
         \A x \in S : \A y \in before[x] : before[y] \subseteq before[x],
         NEW F, F = {x \in S : Cardinality(before[x]) < limit}
  PROVE  Led(S, limit, before, F)
  <1>1. \A x \in S : IsFiniteSet(before[x]) /\ Cardinality(before[x]) \in Nat
    BY FS_Subset, FS_CardinalityType
  <1>2. ASSUME NEW x \in S, NEW y \in before[x] PROVE Cardinality(before[y]) < Cardinality(before[x])
    <2>1. before[y] \subseteq before[x] /\ before[y] # before[x] /\ y \in S
      OBVIOUS
    <2>2. Cardinality(before[y]) <= Cardinality(before[x]) /\ Cardinality(before[y]) # Cardinality(before[x])
      BY <1>1, <2>1, FS_Subset
    <2>. QED BY <1>1, <2>1, <2>2
  <1>3. F \subseteq S /\ IsFiniteSet(F)
    BY FS_Subset
  <1>4. ASSUME NEW x \in F PROVE before[x] \subseteq F
    <2>1. \A y \in before[x] : y \in S /\ Cardinality(before[y]) < Cardinality(before[x])
      BY <1>2
    <2>. QED BY <1>1, <2>1
  <1>5. ASSUME Cardinality(F) < limit, F # S PROVE FALSE
    <2>. DEFINE size == [x \in S \ F |-> Cardinality(before[x])]
                sizes == {size[x] : x \in S \ F}
    <2>1. sizes \subseteq Nat /\ sizes # {}
      BY <1>1, <1>3, <1>5
    <2>2. \E n \in sizes : \A m \in sizes : n <= m
      <3>. HIDE DEF sizes
      <3>. QED BY <2>1, LeastNatural
    <2>3. PICK x \in S \ F : \A y \in S \ F : size[x] <= size[y]
      BY <2>2
    <2>4. \A y \in before[x] : y \in S /\ Cardinality(before[y]) < Cardinality(before[x])
      BY <1>2
    <2>5. before[x] \subseteq F
      BY <1>1, <2>3, <2>4
    <2>6. Cardinality(before[x]) <= Cardinality(F)
      BY <1>3, <2>5, FS_Subset
    <2>. QED BY <1>1, <1>3, <1>5, <2>6, FS_CardinalityType
  <1>6. ASSUME Cardinality(S) <= limit PROVE F = S
    <2>1. ASSUME NEW x \in S PROVE Cardinality(before[x]) < limit
      <3>1. Cardinality(before[x]) <= Cardinality(S) /\ Cardinality(before[x]) # Cardinality(S)
        BY FS_Subset
      <3>. QED BY <1>1, <1>6, <3>1, FS_CardinalityType
    <2>. QED BY <2>1
  <1>. QED BY <1>3, <1>4, <1>5, <1>6 DEF Led

(* A finite set of numbers has a greatest one. *)
LEMMA GreatestIs ==
  ASSUME NEW D, IsFiniteSet(D), D \subseteq Int, D # {}
  PROVE  Max(D) \in D /\ \A x \in D : x <= Max(D)
  <1>. DEFINE Topped(s) == \E x \in s : \A y \in s : y <= x
              T == {n \in Nat : \E s \in SUBSET D : s # {} /\ Cardinality(s) = n /\ ~Topped(s)}
  <1>1. T = {}
    <2>. SUFFICES ASSUME T # {} PROVE FALSE
      OBVIOUS
    <2>1. PICK m \in T : \A y \in T : m <= y
      BY LeastNatural
    <2>2. PICK s \in SUBSET D : s # {} /\ Cardinality(s) = m /\ ~Topped(s)
      BY <2>1
    <2>3. PICK x \in s : TRUE
      BY <2>2
    <2>4. IsFiniteSet(s)
      BY FS_Subset
    <2>5. Cardinality(s \ {x}) = m - 1 /\ m - 1 \in Nat
      <3>1. Cardinality(s \ {x}) = Cardinality(s) - 1 /\ IsFiniteSet(s \ {x})
        BY <2>3, <2>4, FS_RemoveElement
      <3>2. Cardinality(s \ {x}) \in Nat
        BY <3>1, FS_CardinalityType
      <3>. QED BY <2>2, <3>1, <3>2
    <2>6. s \ {x} # {}
      BY <2>2
    <2>7. m - 1 \notin T
      BY <2>1, <2>5
    <2>8. Topped(s \ {x})
      BY <2>5, <2>6, <2>7
    <2>9. PICK z \in s \ {x} : \A y \in s \ {x} : y <= z
      BY <2>8
    <2>10. z \in Int /\ x \in Int /\ s \subseteq Int
      OBVIOUS
    <2>11. Topped(s)
      <3>1. CASE x <= z
        BY <2>9, <2>10, <3>1
      <3>2. CASE z <= x
        BY <2>9, <2>10, <3>2
      <3>. QED BY <2>10, <3>1, <3>2
    <2>. QED BY <2>2, <2>11
  <1>2. Cardinality(D) \in Nat
    BY FS_CardinalityType
  <1>3. \E x \in D : \A y \in D : y <= x
    BY <1>1, <1>2
  <1>. QED BY <1>3 DEF Max

-----------------------------------------------------------------------------
(***************************************************************************)
(* The inductive invariant of the inventory's writes.  A write has         *)
(* upserted rows of its body only; from the moment its DELETE has looked,  *)
(* every row there is is in its body, was committed beside it, or is one   *)
(* it is about to delete.  A row is held by one write at a time.           *)
(***************************************************************************)
Shape ==
  /\ phase \in [Writers -> Phases]
  /\ DOMAIN asked = Writers /\ DOMAIN written = Writers
  /\ DOMAIN doomed = Writers /\ DOMAIN beside = Writers
Fresh == \A w \in Writers : phase[w] = "idle" => DOMAIN written[w] = {}
OwnRows == \A w \in Writers : DOMAIN written[w] \subseteq DOMAIN asked[w].rows
Accounted ==
  \A w \in Writers : phase[w] \in {"clear", "commit"} /\ asked[w].replace =>
    DOMAIN states \subseteq DOMAIN asked[w].rows \cup beside[w] \cup doomed[w]
OneHolder == \A v, w \in Writers : v # w => \A s \in Devices : ~(Holds(v, s) /\ Holds(w, s))

WritesInv == Shape /\ Fresh /\ OwnRows /\ Accounted /\ OneHolder

-----------------------------------------------------------------------------
LEMMA WritesInit == InventoryInit => WritesInv
  BY DEF InventoryInit, WritesInv, Shape, Fresh, OwnRows, Accounted, OneHolder, Holds, Phases, NoEntries, Nothing

LEMMA WritesUnchanged == WritesInv /\ UNCHANGED inventory => WritesInv'
  BY DEF inventory, WritesInv, Shape, Fresh, OwnRows, Accounted, OneHolder, Holds

LEMMA BeginStep ==
  ASSUME WritesInv, NEW w \in Writers, NEW entries, NEW replace, BeginWrite(w, entries, replace)
  PROVE  WritesInv'
  BY DEF BeginWrite, WritesInv, Shape, Fresh, OwnRows, Accounted, OneHolder, Holds, Phases

LEMMA UpsertStep ==
  ASSUME WritesInv, NEW w \in Writers, NEW s, UpsertState(w, s)
  PROVE  WritesInv'
  <1>1. /\ DOMAIN written' = Writers
        /\ DOMAIN written'[w] = DOMAIN written[w] \cup {s}
        /\ \A v \in Writers \ {w} : written'[v] = written[v]
    BY DEF UpsertState, WritesInv, Shape
  <1>2. Shape' /\ Fresh' /\ Accounted'
    BY <1>1 DEF UpsertState, WritesInv, Shape, Fresh, Accounted
  <1>3. OwnRows'
    BY <1>1 DEF UpsertState, WritesInv, OwnRows
  <1>4. OneHolder'
    <2>1. \A t : Holds(w, t)' => Holds(w, t) \/ t = s
      BY <1>1 DEF UpsertState, Holds
    <2>2. \A v \in Writers \ {w} : \A t : Holds(v, t)' => Holds(v, t)
      BY <1>1 DEF UpsertState, Holds
    <2>3. \A v \in Writers \ {w} : ~Holds(v, s)
      BY DEF UpsertState, FreeFor
    <2>4. QED
      BY <2>1, <2>2, <2>3 DEF WritesInv, OneHolder
  <1>5. QED
    BY <1>2, <1>3, <1>4 DEF WritesInv

LEMMA LookStep ==
  ASSUME WritesInv, NEW w \in Writers, LookForOthers(w)
  PROVE  WritesInv'
  <1>1. Shape' /\ Fresh' /\ OwnRows' /\ Accounted'
    BY DEF LookForOthers, WritesInv, Shape, Fresh, OwnRows, Accounted, Phases
  <1>2. \A v \in Writers : \A t : Holds(v, t)' => Holds(v, t)
    BY DEF LookForOthers, WritesInv, Shape, Holds
  <1>3. OneHolder'
    BY <1>2 DEF WritesInv, OneHolder
  <1>4. QED
    BY <1>1, <1>3 DEF WritesInv

(* The DELETE waits for the rows that others hold. *)
LEMMA ClearStep ==
  ASSUME WritesInv, NEW w \in Writers, ClearOthers(w)
  PROVE  WritesInv'
  <1>1. Shape' /\ Fresh' /\ OwnRows' /\ Accounted'
    BY DEF ClearOthers, WritesInv, Shape, Fresh, OwnRows, Accounted, Phases
  <1>2. \A v \in Writers \ {w} : \A t : Holds(v, t)' => Holds(v, t)
    BY DEF ClearOthers, WritesInv, Shape, Holds
  <1>3. \A t : Holds(w, t)' => Holds(w, t) \/ t \in doomed[w]
    BY DEF ClearOthers, Holds
  <1>4. \A v \in Writers \ {w}, t \in doomed[w] : ~Holds(v, t)
    BY DEF ClearOthers, FreeFor
  <1>5. OneHolder'
    BY <1>2, <1>3, <1>4 DEF WritesInv, OneHolder
  <1>6. QED
    BY <1>1, <1>5 DEF WritesInv

(* A write that ends, either way, holds nothing. *)
LEMMA ResetFacts ==
  ASSUME Shape, NEW w \in Writers, Reset(w)
  PROVE  /\ phase' \in [Writers -> Phases] /\ phase'[w] = "idle"
         /\ DOMAIN asked' = Writers /\ DOMAIN written' = Writers
         /\ DOMAIN written'[w] = {}
         /\ \A v \in Writers \ {w} : /\ phase'[v] = phase[v] /\ asked'[v] = asked[v]
                                     /\ written'[v] = written[v]
  BY DEF Shape, Reset, Phases, NoEntries

LEMMA CommitStep ==
  ASSUME WritesInv, NEW w \in Writers, CommitStates(w)
  PROVE  WritesInv'
  <1>1. Reset(w) /\ Shape
    BY DEF CommitStates, WritesInv
  <1>2. /\ DOMAIN states' = (DOMAIN states \ doomed[w]) \cup DOMAIN written[w]
        /\ DOMAIN beside' = Writers /\ DOMAIN doomed' = Writers
        /\ \A v \in Writers \ {w} :
             /\ beside'[v] = beside[v] \cup DOMAIN written[w]
             /\ doomed'[v] = IF phase[v] = "clear" THEN doomed[v] \ doomed[w] ELSE doomed[v]
    BY DEF CommitStates
  <1>3. Shape' /\ Fresh' /\ OwnRows'
    BY <1>1, <1>2, ResetFacts DEF WritesInv, Shape, Fresh, OwnRows
  <1>4. Accounted'
    <2> SUFFICES ASSUME NEW v \in Writers, phase'[v] \in {"clear", "commit"}, asked'[v].replace
                 PROVE  DOMAIN states' \subseteq DOMAIN asked'[v].rows \cup beside'[v] \cup doomed'[v]
      BY DEF Accounted
    <2>1. v # w /\ phase'[v] = phase[v] /\ asked'[v] = asked[v]
      BY <1>1, ResetFacts
    <2>2. DOMAIN states \subseteq DOMAIN asked[v].rows \cup beside[v] \cup doomed[v]
      BY <2>1 DEF WritesInv, Accounted
    <2>3. QED
      BY <1>2, <2>1, <2>2
  <1>5. OneHolder'
    <2>1. \A t : ~Holds(w, t)'
      BY <1>1, ResetFacts DEF Holds
    <2>2. \A v \in Writers \ {w} : \A t : Holds(v, t)' => Holds(v, t)
      BY <1>1, <1>2, ResetFacts DEF Holds
    <2>3. QED
      BY <2>1, <2>2 DEF WritesInv, OneHolder
  <1>6. QED
    BY <1>3, <1>4, <1>5 DEF WritesInv

LEMMA FailStep ==
  ASSUME WritesInv, NEW w \in Writers, WriteFails(w)
  PROVE  WritesInv'
  <1>1. Reset(w) /\ Shape
    BY DEF WriteFails, WritesInv
  <1>2. /\ states' = states
        /\ DOMAIN beside' = Writers /\ DOMAIN doomed' = Writers
        /\ \A v \in Writers \ {w} : beside'[v] = beside[v] /\ doomed'[v] = doomed[v]
    BY DEF WriteFails, WritesInv, Shape
  <1>3. Shape' /\ Fresh' /\ OwnRows' /\ Accounted'
    BY <1>1, <1>2, ResetFacts DEF WritesInv, Shape, Fresh, OwnRows, Accounted
  <1>4. OneHolder'
    <2>1. \A t : ~Holds(w, t)'
      BY <1>1, ResetFacts DEF Holds
    <2>2. \A v \in Writers \ {w} : \A t : Holds(v, t)' => Holds(v, t)
      BY <1>1, <1>2, ResetFacts DEF Holds
    <2>3. QED
      BY <2>1, <2>2 DEF WritesInv, OneHolder
  <1>5. QED
    BY <1>3, <1>4 DEF WritesInv

-----------------------------------------------------------------------------
(* Only writes change the inventory: check-ins, archivings, deletions,     *)
(* days and cards leave it alone.                                          *)
LEMMA OthersLeaveInventory ==
  ASSUME [Next]_vars, ~WriteStep
  PROVE  UNCHANGED inventory
  <1>1. CASE FleetNext
    BY <1>1 DEF FleetNext, CheckInWithout, CheckIn, Archive, Unarchive, Delete, Midnight
  <1>2. CASE CardStep
    BY <1>2 DEF CardStep
  <1>3. CASE UNCHANGED vars
    BY <1>3 DEF vars
  <1>4. QED
    BY <1>1, <1>2, <1>3 DEF Next

LEMMA WritesStep == WritesInv /\ [Next]_vars => WritesInv'
  <1> SUFFICES ASSUME WritesInv, [Next]_vars PROVE WritesInv'
    OBVIOUS
  <1>1. CASE WriteStep
    <2>1. PICK w \in Writers :
            \/ \E entries \in Bodies(topic), replace \in BOOLEAN : BeginWrite(w, entries, replace)
            \/ \E s \in Devices : UpsertState(w, s)
            \/ LookForOthers(w) \/ ClearOthers(w) \/ CommitStates(w) \/ WriteFails(w)
      BY <1>1 DEF WriteStep
    <2>2. QED
      BY <2>1, BeginStep, UpsertStep, LookStep, ClearStep, CommitStep, FailStep
  <1>2. CASE ~WriteStep
    BY <1>2, OthersLeaveInventory, WritesUnchanged
  <1>3. QED
    BY <1>1, <1>2

LEMMA WritesKept == Spec => []WritesInv
  <1>1. Init => WritesInv
    BY WritesInit DEF Init, FleetInit
  <1>2. QED
    BY <1>1, WritesStep, PTL DEF Spec

(* No two open writes hold the same row: neither to write nor to delete it. *)
THEOREM RowsAreHeldByOne == Spec => []OneHolder
  BY WritesKept, PTL DEF WritesInv

(* A write that replaces leaves its own rows, and those that other writes  *)
(* committed while it ran.                                                 *)
THEOREM ReplacingClears == Spec => ReplaceClears
  <1> DEFINE Remains(w) ==
        phase[w] = "commit" /\ states' # states /\ phase'[w] = "idle" /\ asked[w].replace =>
          DOMAIN states' \subseteq DOMAIN asked[w].rows \cup beside[w]
  <1>1. ASSUME WritesInv, [Next]_vars, NEW w \in Writers,
               phase[w] = "commit", states' # states, phase'[w] = "idle", asked[w].replace
        PROVE  DOMAIN states' \subseteq DOMAIN asked[w].rows \cup beside[w]
    <2>1. PICK v \in Writers : CommitStates(v)
      <3>1. WriteStep
        BY <1>1, OthersLeaveInventory DEF inventory
      <3>2. QED
        BY <1>1, <3>1 DEF WriteStep, BeginWrite, UpsertState, LookForOthers, ClearOthers, WriteFails
    <2>2. v = w
      BY <1>1, <2>1, ResetFacts DEF CommitStates, WritesInv
    <2>3. DOMAIN states' = (DOMAIN states \ doomed[w]) \cup DOMAIN written[w]
      BY <2>1, <2>2 DEF CommitStates
    <2>4. QED
      BY <1>1, <2>3 DEF WritesInv, OwnRows, Accounted
  <1>2. WritesInv /\ [Next]_vars => \A w \in Writers : Remains(w)
    BY <1>1
  <1>3. WritesInv /\ [Next]_vars => [\A w \in Writers : Remains(w)]_vars
    BY <1>2
  <1>4. QED
    BY <1>3, WritesKept, PTL DEF Spec, ReplaceClears

-----------------------------------------------------------------------------
(* The rows are documents that devices sent; certificates are stamped, and usage is added up. *)
Documents ==
  /\ DOMAIN row = Devices /\ today \in Nat /\ seen \in [Devices -> Nat]
  /\ topic \notin {"usage", "certificates"} =>
       \A d \in Devices : row[d] \in {NoRow} \cup Payloads(topic, d) \cup Older(topic, d)
  /\ topic = "certificates" =>
       \A d \in Devices : \/ row[d] \in {NoRow} \cup Older(topic, d)
                         \/ \E views \in Payloads(topic, d), p \in Platforms(topic, d) : row[d] = Stamped(views, p)

LEMMA DocumentsStep == Documents /\ [Next]_vars => Documents'
  <1> SUFFICES ASSUME Documents, [Next]_vars PROVE Documents'
    OBVIOUS
  <1>1. ASSUME NEW d \in Devices, NEW p \in Platforms(topic, d), NEW payload \in Payloads(topic, d), CheckIn(d, p, payload)
        PROVE  Documents'
    <2>1. /\ topic \notin {"usage", "certificates"} => Upserted(row[d], p, payload) = payload
          /\ topic = "certificates" => Upserted(row[d], p, payload) = Stamped(payload, p)
      BY DEF Upserted
    <2>2. QED
      BY <1>1, <2>1 DEF CheckIn, Register, Documents
  <1>2. ASSUME NEW d \in Devices, NEW p, CheckInWithout(d, p) PROVE Documents'
    BY <1>2 DEF CheckInWithout, Register, Documents
  <1>3. ASSUME NEW d \in Devices, Archive(d) \/ Unarchive(d) PROVE Documents'
    BY <1>3 DEF Archive, Unarchive, Documents
  <1>4. ASSUME NEW d \in Devices, Delete(d) PROVE Documents'
    BY <1>4 DEF Delete, Documents
  <1>5. CASE Midnight
    BY <1>5 DEF Midnight, Documents
  <1>6. CASE WriteStep \/ CardStep \/ UNCHANGED vars
    BY <1>6 DEF WriteStep, CardStep, vars, fleet, Documents
  <1>7. QED
    BY <1>1, <1>2, <1>3, <1>4, <1>5, <1>6 DEF Next, FleetNext

LEMMA DocumentsKept == Spec => []Documents
  <1>1. Init => Documents
    BY DEF Init, FleetInit, Documents
  <1>2. QED
    BY <1>1, DocumentsStep, PTL DEF Spec

LEMMA OnlyMidnightTurnsTheDay ==
  ASSUME [Next]_vars, today' # today
  PROVE  Midnight
  BY DEF Next, FleetNext, CheckIn, CheckInWithout, Archive, Unarchive, Delete, WriteStep, CardStep, vars, fleet

(* How long an agent has not run is measured against the device's own last check-in. *)
LEMMA AgentsKeepTheirAge == ASSUME Midnight PROVE NoneTurnsStale
  <1>1. UNCHANGED <<row, seen, archived, states>>
    BY DEF Midnight, inventory
  <1>2. \A d : DeviceStaleDays(d)' = DeviceStaleDays(d)
    BY <1>1 DEF DeviceStaleDays, StaleDays
  <1>3. \A d : AgentOf(d)' = AgentOf(d)
    BY <1>1 DEF AgentOf
  <1>4. \A a \in BOOLEAN : InstallsListed(a)' = InstallsListed(a)
    BY <1>1 DEF InstallsListed, Registered
  <1>5. QED
    BY <1>1, <1>2, <1>3, <1>4 DEF NoneTurnsStale, StaleAgents

(* A document that is fresh tomorrow is fresh today, unless it is dated ahead. *)
LEMMA FreshBefore ==
  ASSUME NEW day \in Int, NEW now \in Int, NEW maxAge \in Nat, day <= now,
         Freshness(day, now + 1, maxAge) = "fresh"
  PROVE  Freshness(day, now, maxAge) = "fresh"
  BY DEF Freshness, NoDay

LEMMA ClaimsAge ==
  ASSUME Documents, Midnight, topic = "updates", NEW d \in Registered, NEW q \in UpdateQuestions,
         ~DatedAhead(d), q.minAge = 0
  PROVE  {r \in RowsOn(d, q)' : r.state # "unknown"} \subseteq RowsOn(d, q)
  <1>1. UNCHANGED <<row, platform>> /\ today' = today + 1
    BY DEF Midnight
  <1>2. row[d].collected \in Int /\ row[d].search.checked \in Int /\ today \in Int /\ q.maxAge \in Nat
    BY DatesAssumption DEF Documents, Registered
  <1>3. row[d].collected <= today /\ row[d].search.checked <= today
    BY <1>2 DEF DatedAhead
  <1>4. /\ Readable(d)' = Readable(d) /\ PendingOn(d)' = PendingOn(d) /\ InstalledOn(d)' = InstalledOn(d)
        /\ UpdatePlatform(d)' = UpdatePlatform(d)
    <2>1. UpdatePlatform(d)' = UpdatePlatform(d)
      BY <1>1 DEF UpdatePlatform, NamedPlatform
    <2>2. PendingList(d)' = PendingList(d)
      BY <1>1, <2>1 DEF PendingList
    <2>3. Readable(d)' = Readable(d)
      BY <1>1, <2>1, <2>2 DEF Readable
    <2>4. \A list : FirstOfEach(d, list)' = FirstOfEach(d, list)
      BY <2>1 DEF FirstOfEach
    <2>5. QED
      BY <1>1, <2>1, <2>2, <2>3, <2>4 DEF PendingOn, InstalledOn
  <1>5. \A u : Picks(q, d, u)' = Picks(q, d, u) /\ Passes(q, u)' = Passes(q, u)
    BY <1>4 DEF Picks, Passes
  <1> DEFINE Trusted == Readable(d) /\ Freshness(row[d].collected, today, q.maxAge) = "fresh"
             Proven == Trusted /\ row[d].search.status = "succeeded"
                       /\ Freshness(row[d].search.checked, today, q.maxAge) = "fresh"
  <1>6. Trusted' => Trusted
    BY <1>1, <1>2, <1>3, <1>4, FreshBefore
  <1>7. Proven' => Proven
    BY <1>1, <1>2, <1>3, <1>6, FreshBefore
  <1>8. QED
    BY <1>1, <1>4, <1>5, <1>6, <1>7 DEF RowsOn, EmptyState, NotReported

(* No device turns fresh, and no detection enters a window of days. *)
LEMMA ThreatsAge ==
  ASSUME Documents, Midnight
  PROVE  ThreatsOnlyAge
  <1>1. UNCHANGED <<topic, row, archived, states>> /\ today' = today + 1 /\ today \in Int
    BY DEF Midnight, inventory, Documents
  <1> SUFFICES ASSUME topic = "vulnerabilities" PROVE ThreatsOnlyAge
    BY DEF ThreatsOnlyAge
  <1>2. \A p, a : SecurityRows(p, a)' = SecurityRows(p, a)
    BY <1>1 DEF SecurityRows, Registered
  <1>3. \A d, q : InScope(d, q)' = InScope(d, q)
    BY <1>1 DEF InScope
  <1>4. \A p, a : SecurityRows(p, a) \subseteq Registered
    BY DEF SecurityRows
  <1>5. \A d \in Registered :
          /\ row[d].collected \in Int
          /\ \A i \in DOMAIN Detections(d) : Detections(d)[i].seen \in Int
    BY DatesAssumption DEF Documents, Registered, Detections
  <1>6. ASSUME NEW q \in CveQuestions, q.freshness = "fresh"
        PROVE  {d \in CveScope(q)' : row[d].collected <= today} \subseteq CveScope(q)
    <2> SUFFICES ASSUME NEW d \in CveScope(q)', row[d].collected <= today PROVE d \in CveScope(q)
      OBVIOUS
    <2>1. /\ d \in SecurityRows(q.platform, q.includeArchived) /\ InScope(d, q)
          /\ Freshness(row[d].collected, today + 1, q.maxAge) = "fresh"
      BY <1>1, <1>2, <1>3, <1>6 DEF CveScope
    <2>2. Freshness(row[d].collected, today, q.maxAge) = "fresh"
      BY <1>1, <1>4, <1>5, <2>1, FreshBefore, DatesAssumption
    <2>3. QED
      BY <1>6, <2>1, <2>2 DEF CveScope
  <1>7. ASSUME NEW q \in ThreatQuestions PROVE DetectionRows(q)' \subseteq DetectionRows(q)
    <2>1. \A d : Detections(d)' = Detections(d)
      BY <1>1 DEF Detections
    <2>2. ASSUME NEW d \in Registered, NEW i \in DOMAIN Detections(d), WithinWindow(Detections(d)[i], q.days)'
          PROVE  WithinWindow(Detections(d)[i], q.days)
      BY <1>1, <1>5, <2>1, <2>2, DatesAssumption DEF WithinWindow
    <2>3. QED
      BY <1>2, <1>3, <1>4, <2>1, <2>2 DEF DetectionRows
  <1>8. QED
    BY <1>6, <1>7 DEF ThreatsOnlyAge

(* Time alone proves nothing about a device: neither that its agent does   *)
(* not run, nor that it is patched, waits for an update or met a threat.   *)
THEOREM TimeProvesNothing == Spec => SilenceProvesNothing
  <1>1. ASSUME Documents, [Next]_vars, today' # today PROVE NoneTurnsStale /\ ClaimsOnlyAge /\ ThreatsOnlyAge
    <2>1. Midnight
      BY <1>1, OnlyMidnightTurnsTheDay
    <2>2. \A d \in Registered, q \in UpdateQuestions : topic = "updates" /\ ~DatedAhead(d) /\ q.minAge = 0 =>
            {r \in RowsOn(d, q)' : r.state # "unknown"} \subseteq RowsOn(d, q)
      BY <1>1, <2>1, ClaimsAge
    <2>3. QED
      BY <1>1, <2>1, <2>2, AgentsKeepTheirAge, ThreatsAge DEF ClaimsOnlyAge
  <1>2. Documents /\ [Next]_vars => [today' # today => NoneTurnsStale /\ ClaimsOnlyAge /\ ThreatsOnlyAge]_vars
    BY <1>1
  <1>3. QED
    BY <1>2, DocumentsKept, PTL DEF Spec, SilenceProvesNothing

-----------------------------------------------------------------------------
(***************************************************************************)
(* Queries.  Each row of what a query answers is made of what each device  *)
(* adds to it, and of nothing else; so the parts of a fleet add up.        *)
(***************************************************************************)
(* The devices, or certificates, behind a row; none when there is no such row. *)
RowOf(table, k) == IF k \in DOMAIN table THEN table[k] ELSE {}

(* A row of a query's answer is made of what each device adds to it. *)
LEMMA TableAdds ==
  ASSUME NEW q, q.name \in QueryNames, NEW D, NEW k, NEW x
  PROVE  x \in RowOf(Table(q, D), k) <=> \E d \in D : x \in RowOf(Table(q, {d}), k)
  <1>1. CASE q.name = "install_counts"
    <2>1. \A E : Table(q, E) = InstallCounts(E)
      BY <1>1 DEF Table
    <2>. DEFINE columns == {"munki_devices", "cimian_devices", "munki_with_errors", "cimian_with_errors"}
                Failed(a) == InError(row[x][a])
    <2>2. \A E : DOMAIN InstallCounts(E) = columns
      BY DEF InstallCounts
    <2>3. \A E : /\ x \in InstallCounts(E)["munki_devices"] <=> x \in E /\ platform[x] = "macOS"
                 /\ x \in InstallCounts(E)["cimian_devices"] <=> x \in E /\ platform[x] = "Windows"
                 /\ x \in InstallCounts(E)["munki_with_errors"] <=> x \in E /\ platform[x] = "macOS" /\ Failed("munki")
                 /\ x \in InstallCounts(E)["cimian_with_errors"] <=> x \in E /\ platform[x] = "Windows" /\ Failed("cimian")
      BY DEF InstallCounts
    <2>. HIDE DEF Failed
    <2>4. \A E : x \in RowOf(InstallCounts(E), k) <=> x \in E /\ x \in RowOf(InstallCounts({x}), k)
      BY <2>2, <2>3 DEF RowOf
    <2>. QED BY <2>1, <2>4, ZenonT(40)
  <1>2. CASE q.name = "install_items_failing"
    <2>1. \A E : Table(q, E) = FailingItems(E)
      BY <1>2 DEF Table
    <2>2. \A d, n : FailingOn(d, n) => n \in {i.name : i \in ToSet(ItemsShown(d))}
      BY DEF FailingOn
    <2>3. \A E : x \in RowOf(FailingItems(E), k) <=> x \in E /\ FailingOn(x, k) /\ k # Untold
      BY <2>2 DEF RowOf, FailingItems
    <2>. QED BY <2>1, <2>3
  <1>3. CASE q.name = "install_items_pending"
    <2>1. \A E : Table(q, E) = PendingItems(E)
      BY <1>3 DEF Table
    <2>2. \A E : x \in RowOf(PendingItems(E), k) <=>
              k \in {"munki", "cimian"} /\ x \in E /\ k = (IF ItemsOf(row[x].cimian) # <<>> THEN "cimian" ELSE "munki")
              /\ \E i \in ToSet(ItemsShown(x)) : i.stamp = "pending"
      BY DEF RowOf, PendingItems
    <2>. QED BY <2>1, <2>2, ZenonT(40)
  <1>4. CASE q.name = "install_agent_runs"
    <2>1. \A E : Table(q, E) = SilentAgents(E)
      BY <1>4 DEF Table
    <2>2. \A E : x \in RowOf(SilentAgents(E), k) <=>
              k \in {"munki", "cimian"} /\ x \in E /\ AgentOf(x) = k
              /\ StaleDays(row[x][k], x) # NoDay /\ StaleDays(row[x][k], x) > SilentAfter
      BY DEF RowOf, SilentAgents
    <2>. QED BY <2>1, <2>2
  <1>6. CASE q.name = "os_versions"
    <2>1. \A E : Table(q, E) = OsVersions(E)
      BY <1>6 DEF Table
    <2>2. \A E : x \in RowOf(OsVersions(E), k) <=>
              x \in E /\ VersionOf(row[x]) = k
      BY DEF RowOf, OsVersions
    <2>. QED BY <2>1, <2>2
  <1>5. CASE q.name = "reboot_debt"
    <2>1. \A E : Table(q, E) = RebootDebt(E)
      BY <1>5 DEF Table
    <2>. DEFINE buckets == {"lt1d", "1-3d", "3-7d", "1-2w", "2-4w", "30d+"}
    <2>2. \A E : DOMAIN RebootDebt(E) = {"devices", "pending", "deferred"} \cup buckets
      BY DEF RebootDebt
    <2>3. \A E : /\ x \in RebootDebt(E)["devices"] <=> x \in E
                 /\ x \in RebootDebt(E)["pending"] <=> x \in E /\ PendingCounted(row[x]) > 0
                 /\ x \in RebootDebt(E)["deferred"] <=> x \in E /\ row[x] # Empty /\ DeferredIn(row[x].apple) > 0
                 /\ \A b \in buckets : x \in RebootDebt(E)[b] <=>
                      x \in E /\ row[x] # Empty /\ row[x].uptime > 0 /\ UptimeBucket(row[x].uptime) = b
      BY DEF RebootDebt
    <2>4. \A E : x \in RowOf(RebootDebt(E), k) <=> x \in E /\ x \in RowOf(RebootDebt({x}), k)
      BY <2>2, <2>3 DEF RowOf
    <2>. QED BY <2>1, <2>4, ZenonT(40)
  <1>7. CASE q.name = "certificates"
    <2>1. \A E : Table(q, E) = CertificatesCard(E, q.day)
      BY <1>7 DEF Table
    <2>2. \A E : DOMAIN CertificatesCard(E, q.day) = {"certificates", "expiring", "expired"}
      BY DEF CertificatesCard
    <2>3. \A E : /\ x \in CertificatesCard(E, q.day).expiring <=> x \in E /\ \E v \in ActionableOn(x) : CardExpiring(v, q.day)
                 /\ x \in CertificatesCard(E, q.day).expired <=> x \in E /\ \E v \in ActionableOn(x) : Expired(v, q.day)
                 /\ x \in CertificatesCard(E, q.day).certificates <=>
                      \E d \in E : \E v \in ActionableOn(d) : CardExpiring(v, q.day) /\ x = <<d, v.id>>
      BY DEF CertificatesCard
    <2>. DEFINE card(E) == CertificatesCard(E, q.day)
    <2>4. \A E : x \in card(E)["expiring"] <=> x \in E /\ x \in card({x})["expiring"]
      BY <2>3
    <2>5. \A E : x \in card(E)["expired"] <=> x \in E /\ x \in card({x})["expired"]
      BY <2>3
    <2>6. \A E : x \in card(E)["certificates"] <=> \E d \in E : x \in card({d})["certificates"]
      <3>. DEFINE Held(d) == \E v \in ActionableOn(d) : CardExpiring(v, q.day) /\ x = <<d, v.id>>
      <3>1. \A E : x \in card(E)["certificates"] <=> \E d \in E : Held(d)
        BY <2>3
      <3>. HIDE DEF Held, card
      <3>. QED BY <3>1
    <2>. HIDE DEF card
    <2>8. \A E : x \in RowOf(card(E), k) <=> k \in {"certificates", "expiring", "expired"} /\ x \in card(E)[k]
      BY <2>2 DEF RowOf, card
    <2>9. x \in RowOf(card(D), k) <=> \E d \in D : x \in RowOf(card({d}), k)
      <3>1. CASE k = "certificates"
        BY <2>6, <2>8, <3>1
      <3>2. CASE k = "expiring"
        <4>1. \A d : x \in RowOf(card({d}), k) <=> x = d /\ x \in card({x})["expiring"]
          BY <2>4, <2>8, <3>2
        <4>2. x \in RowOf(card(D), k) <=> x \in D /\ x \in card({x})["expiring"]
          BY <2>4, <2>8, <3>2
        <4>. QED BY <4>1, <4>2
      <3>3. CASE k = "expired"
        <4>1. \A d : x \in RowOf(card({d}), k) <=> x = d /\ x \in card({x})["expired"]
          BY <2>5, <2>8, <3>3
        <4>2. x \in RowOf(card(D), k) <=> x \in D /\ x \in card({x})["expired"]
          BY <2>5, <2>8, <3>3
        <4>. QED BY <4>1, <4>2
      <3>. QED BY <2>8, <3>1, <3>2, <3>3
    <2>. QED BY <2>1, <2>9 DEF card
  <1>. QED BY <1>1, <1>2, <1>3, <1>4, <1>5, <1>6, <1>7 DEF QueryNames

(* A device is the only one, and its certificates the only ones, that it adds. *)
LEMMA TableOwns ==
  ASSUME NEW q, q.name \in QueryNames, NEW d, NEW k, NEW x, x \in RowOf(Table(q, {d}), k)
  PROVE  IF q.name = "certificates" /\ k = "certificates" THEN x[1] = d ELSE x = d
  <1>1. CASE q.name = "install_counts"
    BY <1>1 DEF RowOf, Table, InstallCounts
  <1>2. CASE q.name = "install_items_failing"
    BY <1>2 DEF RowOf, Table, FailingItems
  <1>3. CASE q.name = "install_items_pending"
    BY <1>3 DEF RowOf, Table, PendingItems
  <1>4. CASE q.name = "install_agent_runs"
    BY <1>4 DEF RowOf, Table, SilentAgents
  <1>5. CASE q.name = "reboot_debt"
    BY <1>5 DEF RowOf, Table, RebootDebt
  <1>6. CASE q.name = "os_versions"
    BY <1>6 DEF RowOf, Table, OsVersions
  <1>7. CASE q.name = "certificates"
    <2>1. x \in RowOf(CertificatesCard({d}, q.day), k)
      BY <1>7 DEF Table
    <2>2. CASE k = "certificates"
      <3>1. x \in CertificatesCard({d}, q.day).certificates
        BY <2>1, <2>2 DEF RowOf
      <3>2. \E v \in ActionableOn(d) : x = <<d, v.id>>
        BY <3>1 DEF CertificatesCard
      <3>. QED BY <1>7, <2>2, <3>2
    <2>3. CASE k # "certificates"
      <3>1. x \in CertificatesCard({d}, q.day).expiring \/ x \in CertificatesCard({d}, q.day).expired
        BY <2>1, <2>3 DEF RowOf, CertificatesCard
      <3>2. x = d
        BY <3>1 DEF CertificatesCard
      <3>. QED BY <2>3, <3>2
    <2>. QED BY <2>2, <2>3
  <1>. QED BY <1>1, <1>2, <1>3, <1>4, <1>5, <1>6, <1>7 DEF QueryNames

(* The rows there are over several sets of devices are those there are over each. *)
LEMMA TableKeys ==
  ASSUME NEW q, q.name \in QueryNames, NEW Ds, Ds # {}
  PROVE  \A k : k \in DOMAIN Table(q, UNION Ds) <=> \E E \in Ds : k \in DOMAIN Table(q, E)
  <1>1. CASE q.name = "install_counts"
    <2>1. \A E : Table(q, E) = InstallCounts(E)
      BY <1>1 DEF Table
    <2>2. \A E : DOMAIN InstallCounts(E) = DOMAIN InstallCounts({})
      BY DEF InstallCounts
    <2>. QED BY <2>1, <2>2
  <1>2. CASE q.name = "install_items_failing"
    <2>1. \A E : Table(q, E) = FailingItems(E)
      BY <1>2 DEF Table
    <2>2. \A e, n : FailingOn(e, n) => n \in {i.name : i \in ToSet(ItemsShown(e))}
      BY DEF FailingOn
    <2>3. \A E, n : n \in DOMAIN FailingItems(E) <=> \E e \in E : FailingOn(e, n) /\ n # Untold
      BY <2>2 DEF FailingItems
    <2>4. \A n : n \in DOMAIN FailingItems(UNION Ds) <=> \E E \in Ds : n \in DOMAIN FailingItems(E)
      <3>. DEFINE In(n, e) == FailingOn(e, n) /\ n # Untold
                  keys(E) == DOMAIN FailingItems(E)
      <3>1. \A E, n : n \in keys(E) <=> \E e \in E : In(n, e)
        BY <2>3
      <3>. HIDE DEF In, keys
      <3>2. \A n : n \in keys(UNION Ds) <=> \E E \in Ds : n \in keys(E)
        BY <3>1
      <3>. QED BY <3>2 DEF keys
    <2>. QED BY <2>1, <2>4
  <1>3. CASE q.name = "install_items_pending"
    <2>1. \A E : Table(q, E) = PendingItems(E)
      BY <1>3 DEF Table
    <2>2. \A E : DOMAIN PendingItems(E) = DOMAIN PendingItems({})
      BY DEF PendingItems
    <2>. QED BY <2>1, <2>2
  <1>4. CASE q.name = "install_agent_runs"
    <2>1. \A E : Table(q, E) = SilentAgents(E)
      BY <1>4 DEF Table
    <2>2. \A E : DOMAIN SilentAgents(E) = DOMAIN SilentAgents({})
      BY DEF SilentAgents
    <2>. QED BY <2>1, <2>2
  <1>5. CASE q.name = "reboot_debt"
    <2>1. \A E : Table(q, E) = RebootDebt(E)
      BY <1>5 DEF Table
    <2>2. \A E : DOMAIN RebootDebt(E) = DOMAIN RebootDebt({})
      BY DEF RebootDebt
    <2>. QED BY <2>1, <2>2
  <1>6. CASE q.name = "os_versions"
    <2>1. \A E : Table(q, E) = OsVersions(E)
      BY <1>6 DEF Table
    <2>2. \A E : DOMAIN OsVersions(E) = {VersionOf(row[e]) : e \in E}
      BY DEF OsVersions
    <2>3. \A n : n \in DOMAIN OsVersions(UNION Ds) <=> \E E \in Ds : n \in DOMAIN OsVersions(E)
      <3>. DEFINE In(n, e) == n = VersionOf(row[e])
                  keys(E) == DOMAIN OsVersions(E)
      <3>1. \A E, n : n \in keys(E) <=> \E e \in E : In(n, e)
        BY <2>2, ZenonT(40)
      <3>. HIDE DEF In, keys
      <3>2. \A n : n \in keys(UNION Ds) <=> \E E \in Ds : n \in keys(E)
        BY <3>1
      <3>. QED BY <3>2 DEF keys
    <2>. QED BY <2>1, <2>3
  <1>7. CASE q.name = "certificates"
    <2>1. \A E : Table(q, E) = CertificatesCard(E, q.day)
      BY <1>7 DEF Table
    <2>2. \A E : DOMAIN CertificatesCard(E, q.day) = DOMAIN CertificatesCard({}, q.day)
      BY DEF CertificatesCard
    <2>. QED BY <2>1, <2>2
  <1>. QED BY <1>1, <1>2, <1>3, <1>4, <1>5, <1>6, <1>7 DEF QueryNames

-----------------------------------------------------------------------------
(***************************************************************************)
(* Cards.  Between its statements a card has counted every device that did *)
(* not change as that device is now.                                       *)
(***************************************************************************)
KnownPlatforms == {"macOS", "Windows", "Unknown"}

(* The platform a statement is for, what its answer is cut to, and how many there are. *)
OnPlatform(i) == IF query.platform = "all" THEN FleetPlatforms[i] ELSE query.platform
CutTo == IF query.platform = "all" THEN PartLimit(TopN) ELSE TopN
Statements == IF query.platform = "all" THEN 3 ELSE 1

(* What device d adds to row k of the part for platform p. *)
Adding(p, k, d) == IF d \in CardFleet(query, p) THEN RowOf(Table(query, {d}), k) ELSE {}

CardAsked == /\ query = NoQuery => parts = <<>> /\ touched = {}
             /\ query # NoQuery => query.name \in Queries(topic)
Numbered == (\E S : parts \in Seq(S)) /\ (query # NoQuery => Len(parts) <= Statements)
UntouchedCounted ==
  query # NoQuery /\ query.name \notin Limited =>
    \A i \in DOMAIN parts : \A k : \A d \in Devices \ touched : Behind(parts[i], k, d) = Adding(OnPlatform(i), k, d)
StillCurrent ==
  query # NoQuery /\ touched = {} => \A i \in DOMAIN parts : parts[i] = Execute(query, OnPlatform(i), CutTo)

CardsInv ==
  /\ topic \in Topics /\ platform \in [Devices -> KnownPlatforms]
  /\ CardAsked /\ Numbered /\ UntouchedCounted /\ StillCurrent

-----------------------------------------------------------------------------
LEMMA QueryIsKnown == ASSUME CardsInv, query # NoQuery PROVE query.name \in QueryNames
  BY QueriesAssumption DEF CardsInv, CardAsked

(* The devices of the fleet are those of its platforms, each on one. *)
LEMMA FleetIsSplit ==
  ASSUME platform \in [Devices -> KnownPlatforms], NEW q
  PROVE  \A d \in Devices : \A p \in KnownPlatforms :
           d \in CardFleet(q, p) <=> d \in CardFleet(q, "all") /\ platform[d] = p
  BY DEF CardFleet, KnownPlatforms

(* What a part counts of a device is what the device adds. *)
LEMMA BehindTable ==
  ASSUME query.name \in QueryNames, NEW D, NEW k, NEW d
  PROVE  Behind(Table(query, D), k, d) = IF d \in D THEN RowOf(Table(query, {d}), k) ELSE {}
  <1>. DEFINE table == Table(query, D)
              own(e) == RowOf(Table(query, {e}), k)
  <1>1. \A x : x \in RowOf(table, k) <=> \E e \in D : x \in own(e)
    BY TableAdds
  <1>2. \A e : \A x \in own(e) : IF query.name = "certificates" /\ k = "certificates" THEN x[1] = e ELSE x = e
    BY TableOwns
  <1>3. Behind(table, k, d) = IF query.name = "certificates" /\ k = "certificates"
                                THEN {c \in RowOf(table, k) : c[1] = d} ELSE RowOf(table, k) \cap {d}
    BY DEF Behind, RowOf
  <1>. HIDE DEF table, own
  <1>4. CASE query.name = "certificates" /\ k = "certificates"
    <2>1. \A x : x \in Behind(table, k, d) <=> d \in D /\ x \in own(d)
      BY <1>1, <1>2, <1>3, <1>4
    <2>. QED BY <2>1 DEF table, own
  <1>5. CASE ~(query.name = "certificates" /\ k = "certificates")
    <2>1. \A x : x \in Behind(table, k, d) <=> d \in D /\ x \in own(d)
      BY <1>1, <1>2, <1>3, <1>5
    <2>. QED BY <2>1 DEF table, own
  <1>. QED BY <1>4, <1>5

-----------------------------------------------------------------------------
(* What a device adds is in its row, its platform and when it was seen. *)
LEMMA TableStays ==
  ASSUME NEW q, q.name \in QueryNames, NEW D,
         \A d \in D : row'[d] = row[d] /\ platform'[d] = platform[d] /\ seen'[d] = seen[d]
  PROVE  Table(q, D)' = Table(q, D)
  <1>0. \A d \in D : /\ ItemsShown(d)' = ItemsShown(d) /\ AgentOf(d)' = AgentOf(d) /\ ActionableOn(d)' = ActionableOn(d)
                     /\ \A agent : StaleDays(agent, d)' = StaleDays(agent, d)
    BY DEF ItemsShown, AgentOf, ActionableOn, StaleDays
  <1>1. \A d \in D : \A n : FailingOn(d, n)' = FailingOn(d, n)
    BY <1>0 DEF FailingOn
  <1>2. InstallCounts(D)' = InstallCounts(D)
    BY DEF InstallCounts
  <1>3. FailingItems(D)' = FailingItems(D)
    BY <1>0, <1>1 DEF FailingItems
  <1>4. PendingItems(D)' = PendingItems(D)
    BY <1>0 DEF PendingItems
  <1>5. SilentAgents(D)' = SilentAgents(D)
    BY <1>0 DEF SilentAgents
  <1>6. RebootDebt(D)' = RebootDebt(D)
    BY DEF RebootDebt
  <1>7. OsVersions(D)' = OsVersions(D)
    BY DEF OsVersions
  <1>8. CertificatesCard(D, q.day)' = CertificatesCard(D, q.day)
    <2>. DEFINE Listing(d) == {<<d, v.id>> : v \in {x \in ActionableOn(d) : CardExpiring(x, q.day)}}
                Soon(d) == \E v \in ActionableOn(d) : CardExpiring(v, q.day)
                Late(d) == \E v \in ActionableOn(d) : Expired(v, q.day)
    <2>1. CertificatesCard(D, q.day) = [certificates |-> UNION {Listing(d) : d \in D},
                                        expiring |-> {d \in D : Soon(d)}, expired |-> {d \in D : Late(d)}]
      BY DEF CertificatesCard
    <2>2. \A d \in D : Listing(d)' = Listing(d) /\ Soon(d)' = Soon(d) /\ Late(d)' = Late(d)
      BY <1>0
    <2>3. CertificatesCard(D, q.day)' = [certificates |-> UNION {Listing(d)' : d \in D},
                                         expiring |-> {d \in D : Soon(d)'}, expired |-> {d \in D : Late(d)'}]
      BY DEF CertificatesCard
    <2>. HIDE DEF Listing, Soon, Late
    <2>. QED BY <2>1, <2>2, <2>3
  <1>. QED BY <1>2, <1>3, <1>4, <1>5, <1>6, <1>7, <1>8 DEF Table

(* A device that did not change is in the same parts, and adds the same to them. *)
LEMMA UnchangedAdds ==
  ASSUME query.name \in QueryNames, query' = query, NEW d \in Devices, Facet(d) = Facet(d)'
  PROVE  \A p, k : /\ d \in CardFleet(query, p)' <=> d \in CardFleet(query, p)
                   /\ Adding(p, k, d)' = Adding(p, k, d)
  <1>1. /\ row'[d] = row[d] /\ platform'[d] = platform[d] /\ seen'[d] = seen[d]
        /\ d \in archived' <=> d \in archived
        /\ IsStored(states, d)' <=> IsStored(states, d)
    BY DEF Facet
  <1>2. \A p : d \in CardFleet(query, p)' <=> d \in CardFleet(query, p)
    BY <1>1 DEF CardFleet, Registered, StoredExcluded
  <1>3. Table(query, {d})' = Table(query, {d})
    BY <1>1, TableStays
  <1>. QED BY <1>2, <1>3 DEF Adding, RowOf

(* When no device changes, no statement answers anything else. *)
LEMMA NothingChanged ==
  ASSUME query.name \in QueryNames, query' = query, \A d \in Devices : Facet(d) = Facet(d)'
  PROVE  \A p, limit : Execute(query, p, limit)' = Execute(query, p, limit)
  <1>1. \A d \in Devices : row'[d] = row[d] /\ platform'[d] = platform[d] /\ seen'[d] = seen[d]
    BY DEF Facet
  <1>2. \A p : CardFleet(query, p)' = CardFleet(query, p)
    <2>1. \A p : \A d \in Devices : d \in CardFleet(query, p)' <=> d \in CardFleet(query, p)
      BY UnchangedAdds
    <2>2. \A p : CardFleet(query, p) \subseteq Devices /\ CardFleet(query, p)' \subseteq Devices
      BY DEF CardFleet, Registered
    <2>. QED BY <2>1, <2>2
  <1>3. \A D \in SUBSET Devices : Table(query, D)' = Table(query, D)
    BY <1>1, TableStays
  <1>4. \A p : CardFleet(query, p) \in SUBSET Devices
    BY DEF CardFleet, Registered
  <1>5. \A p : Groups(query, p)' = Groups(query, p)
    BY <1>2, <1>3, <1>4 DEF Groups
  <1>. QED BY <1>5 DEF Execute

-----------------------------------------------------------------------------
LEMMA AppendIs ==
  ASSUME NEW S, NEW s \in Seq(S), NEW x
  PROVE  /\ Append(s, x) \in Seq(S \cup {x}) /\ Len(Append(s, x)) = Len(s) + 1
         /\ DOMAIN Append(s, x) = DOMAIN s \cup {Len(s) + 1}
         /\ Append(s, x)[Len(s) + 1] = x /\ \A i \in DOMAIN s : Append(s, x)[i] = s[i]
  <1>1. s \in Seq(S \cup {x})
    OBVIOUS
  <1>. QED BY <1>1

LEMMA FleetKeepsPlatforms ==
  ASSUME CardsInv, FleetNext
  PROVE  topic' = topic /\ platform' \in [Devices -> KnownPlatforms]
  <1>1. ASSUME NEW d \in Devices, NEW p \in Platforms(topic, d), Register(d, p)
        PROVE  platform' \in [Devices -> KnownPlatforms]
    BY <1>1, PlatformsAssumption DEF Register, CardsInv, KnownPlatforms
  <1>2. ASSUME NEW d \in Devices, Delete(d) PROVE topic' = topic /\ platform' \in [Devices -> KnownPlatforms]
    BY <1>2 DEF Delete, CardsInv, KnownPlatforms
  <1>3. ASSUME NEW d \in Devices, Archive(d) \/ Unarchive(d) PROVE UNCHANGED <<topic, platform>>
    BY <1>3 DEF Archive, Unarchive
  <1>4. CASE Midnight \/ WriteStep
    BY <1>4 DEF Midnight, WriteStep, fleet, CardsInv
  <1>. QED BY <1>1, <1>2, <1>3, <1>4 DEF FleetNext, CheckIn, CheckInWithout, CardsInv

LEMMA BesideStep == ASSUME CardsInv, FleetNext, Beside PROVE CardsInv'
  <1>1. query' = query /\ parts' = parts
    BY DEF Beside
  <1>2. topic' = topic /\ platform' \in [Devices -> KnownPlatforms]
    BY FleetKeepsPlatforms
  <1>3. CardAsked' /\ Numbered'
    BY <1>1, <1>2 DEF Beside, CardsInv, CardAsked, Numbered, Statements
  <1>4. query # NoQuery => \A d \in Devices \ touched' : d \notin touched /\ Facet(d) = Facet(d)'
    BY DEF Beside
  <1>5. UntouchedCounted'
    <2>. SUFFICES ASSUME query # NoQuery, query.name \notin Limited, NEW i \in DOMAIN parts, NEW k, NEW d \in Devices \ touched'
                  PROVE  Behind(parts[i], k, d)' = Adding(OnPlatform(i), k, d)'
      BY <1>1 DEF UntouchedCounted
    <2>1. Behind(parts[i], k, d) = Adding(OnPlatform(i), k, d)
      BY <1>4 DEF CardsInv, UntouchedCounted
    <2>2. \A p : Adding(p, k, d)' = Adding(p, k, d)
      BY <1>1, <1>4, QueryIsKnown, UnchangedAdds
    <2>. QED BY <1>1, <2>1, <2>2 DEF Behind, OnPlatform
  <1>6. StillCurrent'
    <2>. SUFFICES ASSUME query # NoQuery, touched' = {}, NEW i \in DOMAIN parts
                  PROVE  parts[i]' = Execute(query, OnPlatform(i), CutTo)'
      BY <1>1 DEF StillCurrent
    <2>1. touched = {} /\ \A d \in Devices : Facet(d) = Facet(d)'
      BY <1>4 DEF Beside
    <2>2. parts[i] = Execute(query, OnPlatform(i), CutTo)
      BY <2>1 DEF CardsInv, StillCurrent
    <2>3. \A p, limit : Execute(query, p, limit)' = Execute(query, p, limit)
      BY <1>1, <2>1, QueryIsKnown, NothingChanged
    <2>. QED BY <1>1, <2>2, <2>3 DEF OnPlatform, CutTo
  <1>. QED BY <1>2, <1>3, <1>5, <1>6 DEF CardsInv

LEMMA RunPartStep == ASSUME CardsInv, RunPart, UNCHANGED <<inventory, fleet>> PROVE CardsInv'
  <1>. DEFINE next == Len(parts) + 1
              part == Execute(query, OnPlatform(next), CutTo)
  <1>1. query' = query /\ touched' = touched /\ query # NoQuery /\ parts' = Append(parts, part)
    BY DEF RunPart, OnPlatform, CutTo
  <1>2. PICK S : parts \in Seq(S)
    BY DEF CardsInv, Numbered
  <1>3. /\ parts' \in Seq(S \cup {part}) /\ Len(parts') = next /\ DOMAIN parts' = DOMAIN parts \cup {next}
        /\ parts'[next] = part /\ \A i \in DOMAIN parts : parts'[i] = parts[i]
    <2>. HIDE DEF part
    <2>. QED BY <1>1, <1>2, AppendIs
  <1>4. topic' = topic /\ platform' = platform /\ row' = row /\ seen' = seen /\ archived' = archived /\ states' = states
    BY DEF fleet, inventory
  <1>5. next <= Statements
    <2>1. Len(FleetPlatforms) = 3
      BY DEF FleetPlatforms
    <2>2. Len(parts) # Statements
      BY <1>1, <2>1 DEF RunPart, Complete, Statements
    <2>3. Len(parts) <= Statements /\ Len(parts) \in Nat /\ Statements \in Nat
      BY <1>1, <1>2 DEF Statements, CardsInv, Numbered
    <2>. QED BY <2>2, <2>3
  <1>6. CardAsked' /\ Numbered'
    BY <1>1, <1>3, <1>4, <1>5 DEF CardsInv, CardAsked, Numbered, Statements
  <1>7. \A d : Facet(d) = Facet(d)'
    BY <1>4 DEF Facet
  <1>8. UntouchedCounted'
    <2>. SUFFICES ASSUME query.name \notin Limited, NEW i \in DOMAIN parts', NEW k, NEW d \in Devices \ touched
                  PROVE  Behind(parts[i], k, d)' = Adding(OnPlatform(i), k, d)'
      BY <1>1 DEF UntouchedCounted
    <2>1. \A p : Adding(p, k, d)' = Adding(p, k, d)
      BY <1>1, <1>7, QueryIsKnown, UnchangedAdds
    <2>2. Behind(parts'[i], k, d) = Adding(OnPlatform(i), k, d)
      <3>1. CASE i \in DOMAIN parts
        BY <1>1, <1>3, <3>1 DEF CardsInv, UntouchedCounted
      <3>2. CASE i = next
        <4>1. parts'[i] = Table(query, CardFleet(query, OnPlatform(i)))
          BY <1>3, <3>2 DEF Execute, Groups
        <4>. QED BY <1>1, <4>1, QueryIsKnown, BehindTable DEF Adding
      <3>. QED BY <1>3, <3>1, <3>2
    <2>3. OnPlatform(i)' = OnPlatform(i) /\ Behind(parts[i], k, d)' = Behind(parts'[i], k, d)
      BY <1>1 DEF OnPlatform, Behind
    <2>. QED BY <1>1, <2>1, <2>2, <2>3
  <1>9. StillCurrent'
    <2>. SUFFICES ASSUME touched = {}, NEW i \in DOMAIN parts' PROVE parts'[i] = Execute(query, OnPlatform(i), CutTo)'
      BY <1>1 DEF StillCurrent
    <2>1. \A p, limit : Execute(query, p, limit)' = Execute(query, p, limit)
      BY <1>1, <1>7, QueryIsKnown, NothingChanged
    <2>2. parts'[i] = Execute(query, OnPlatform(i), CutTo)
      BY <1>1, <1>3 DEF CardsInv, StillCurrent
    <2>. QED BY <1>1, <2>1, <2>2 DEF OnPlatform, CutTo
  <1>. QED BY <1>4, <1>6, <1>8, <1>9 DEF CardsInv

LEMMA CardsStep == CardsInv /\ [Next]_vars => CardsInv'
  <1>. SUFFICES ASSUME CardsInv, [Next]_vars PROVE CardsInv'
    OBVIOUS
  <1>1. CASE FleetNext /\ Beside
    BY <1>1, BesideStep
  <1>2. CASE RunPart /\ UNCHANGED <<inventory, fleet>>
    BY <1>2, RunPartStep
  <1>3. ASSUME NEW name \in Queries(topic), NEW scope, AskCard(name, scope), UNCHANGED <<inventory, fleet>> PROVE CardsInv'
    <2>1. query'.name = name /\ parts = <<>> /\ parts' = <<>> /\ touched' = {} /\ topic' = topic /\ platform' = platform
      <3>1. query'.name = name /\ parts = <<>> /\ parts' = <<>> /\ touched' = {}
        BY <1>3 DEF AskCard, CardsInv, CardAsked
      <3>2. topic' = topic /\ platform' = platform
        BY <1>3 DEF fleet
      <3>. QED BY <3>1, <3>2
    <2>2. CardAsked' /\ Numbered'
      BY <2>1 DEF CardsInv, CardAsked, Numbered, Statements
    <2>3. UntouchedCounted' /\ StillCurrent'
      BY <2>1 DEF UntouchedCounted, StillCurrent
    <2>. QED BY <2>1, <2>2, <2>3 DEF CardsInv
  <1>4. CASE EndCard /\ UNCHANGED <<inventory, fleet>>
    BY <1>4 DEF EndCard, fleet, CardsInv, CardAsked, Numbered, UntouchedCounted, StillCurrent
  <1>5. CASE UNCHANGED vars
    <2>1. UNCHANGED <<topic, platform, row, seen, archived, states, query, parts, touched>>
      BY <1>5 DEF vars, fleet, inventory, cards
    <2>2. \A d : Facet(d) = Facet(d)'
      BY <2>1 DEF Facet
    <2>3. CardAsked' /\ Numbered'
      BY <2>1 DEF CardsInv, CardAsked, Numbered, Statements
    <2>4. query # NoQuery => \A p, k : \A d \in Devices : Adding(p, k, d)' = Adding(p, k, d)
      BY <2>1, <2>2, QueryIsKnown, UnchangedAdds
    <2>5. query # NoQuery => \A p, limit : Execute(query, p, limit)' = Execute(query, p, limit)
      BY <2>1, <2>2, QueryIsKnown, NothingChanged
    <2>6. \A i : OnPlatform(i)' = OnPlatform(i)
      BY <2>1 DEF OnPlatform
    <2>7. \A part, k, d : Behind(part, k, d)' = Behind(part, k, d)
      BY <2>1 DEF Behind
    <2>8. UntouchedCounted'
      BY <2>1, <2>4, <2>6, <2>7 DEF CardsInv, UntouchedCounted
    <2>9. StillCurrent'
      BY <2>1, <2>5, <2>6 DEF CardsInv, StillCurrent, CutTo
    <2>. QED BY <2>1, <2>3, <2>8, <2>9 DEF CardsInv
  <1>. QED BY <1>1, <1>2, <1>3, <1>4, <1>5 DEF Next, CardStep

LEMMA CardsKept == Spec => []CardsInv
  <1>1. Init => CardsInv
    BY DEF Init, FleetInit, CardsInit, CardsInv, CardAsked, Numbered, UntouchedCounted, StillCurrent, KnownPlatforms, Statements
  <1>. QED BY <1>1, CardsStep, PTL DEF Spec

-----------------------------------------------------------------------------
(* A device has finitely many certificates, also once they are stamped. *)
LEMMA FewCertificates ==
  ASSUME Documents, topic = "certificates", NEW d \in Registered
  PROVE  IsFiniteSet(row[d])
  <1>1. CASE row[d] \in Older(topic, d)
    BY <1>1, FinitelyMany DEF Registered
  <1>2. ASSUME NEW views \in Payloads(topic, d), NEW p, row[d] = Stamped(views, p) PROVE IsFiniteSet(row[d])
    <2>. DEFINE f == [v \in views |-> [v EXCEPT !.class = Classify(v, p), !.live = v.notAfter # NoDate]]
    <2>1. row[d] = {f[v] : v \in views}
      BY <1>2 DEF Stamped
    <2>2. IsFiniteSet(views)
      BY FinitelyMany DEF Registered
    <2>. HIDE DEF f
    <2>. QED BY <2>1, <2>2, FiniteImage
  <1>. QED BY <1>1, <1>2 DEF Documents, Registered

LEMMA FewActionable ==
  ASSUME NEW d, IsFiniteSet(row[d])
  PROVE  IsFiniteSet(ActionableOn(d))
  <1>. DEFINE views == {v \in row[d] : ClassOf(v) = "actionable"}
              id == [v \in views |-> v.id]
              ids == {id[v] : v \in views}
              one == [c \in ids |-> CHOOSE v \in views : v.id = c /\ \A w \in views : w.id = c => Rank(v) <= Rank(w)]
  <1>1. IsFiniteSet(views)
    BY FS_Subset
  <1>2. IsFiniteSet(ids)
    <2>. HIDE DEF views, id
    <2>. QED BY <1>1, FiniteImage
  <1>3. ids = {v.id : v \in views}
    OBVIOUS
  <1>4. ActionableOn(d) = {one[c] : c \in ids}
    BY <1>3 DEF ActionableOn, OnePerCert
  <1>. HIDE DEF one, ids
  <1>. QED BY <1>2, <1>4, FiniteImage

(* What a device adds to a row is finite. *)
LEMMA AddsFew ==
  ASSUME Documents, CardsInv, query # NoQuery, NEW d \in Registered, NEW k
  PROVE  IsFiniteSet(RowOf(Table(query, {d}), k))
  <1>. DEFINE own == RowOf(Table(query, {d}), k)
  <1>1. CASE query.name = "certificates" /\ k = "certificates"
    <2>1. topic = "certificates"
      BY <1>1, QueriesAssumption DEF CardsInv, CardAsked
    <2>2. IsFiniteSet(ActionableOn(d))
      BY <2>1, FewCertificates, FewActionable
    <2>. DEFINE pair == [v \in ActionableOn(d) |-> <<d, v.id>>]
                all == {pair[v] : v \in ActionableOn(d)}
    <2>3. IsFiniteSet(all)
      <3>. HIDE DEF pair
      <3>. QED BY <2>2, FiniteImage
    <2>4. own = CertificatesCard({d}, query.day).certificates
      BY <1>1 DEF Table, RowOf, CertificatesCard
    <2>5. own \subseteq all
      BY <2>4 DEF CertificatesCard
    <2>. HIDE DEF own, all
    <2>. QED BY <2>3, <2>5, FS_Subset DEF own
  <1>2. CASE ~(query.name = "certificates" /\ k = "certificates")
    <2>1. \A x \in own : x = d
      BY <1>2, TableOwns, QueryIsKnown
    <2>2. own \subseteq {d}
      BY <2>1
    <2>. HIDE DEF own
    <2>. QED BY <2>2, FS_Subset, FS_Singleton DEF own
  <1>. QED BY <1>1, <1>2

LEMMA CardFleetIs == \A q, p : CardFleet(q, p) \subseteq Registered /\ Registered \subseteq Devices
  BY DEF CardFleet, Registered

(* A complete card has an answer of every statement. *)
LEMMA CompleteHas ==
  ASSUME CardsInv, Complete
  PROVE  DOMAIN parts = 1..Statements /\ Len(parts) = Statements /\ IsFiniteSet(DOMAIN parts) /\ query # NoQuery
  <1>1. Len(FleetPlatforms) = 3
    BY DEF FleetPlatforms
  <1>2. Len(parts) = Statements /\ query # NoQuery
    BY <1>1 DEF Complete, Statements
  <1>3. DOMAIN parts = 1..Len(parts)
    BY DEF CardsInv, Numbered
  <1>4. IsFiniteSet(1..Statements)
    BY FS_Interval DEF Statements
  <1>. QED BY <1>2, <1>3, <1>4

(* A device that did not change is counted in one part, or in none. *)
LEMMA UntouchedOnce ==
  ASSUME Documents, CardsInv, Complete, query.name \notin Limited, NEW d \in Devices \ touched, NEW k
  PROVE  SumFunction([i \in DOMAIN parts |-> Cardinality(Behind(parts[i], k, d))])
           = Cardinality(Behind(Groups(query, query.platform), k, d))
  <1>. DEFINE w == [i \in DOMAIN parts |-> Cardinality(Behind(parts[i], k, d))]
              own == RowOf(Table(query, {d}), k)
  <1>0. query # NoQuery /\ query.name \in QueryNames
    BY CompleteHas, QueryIsKnown
  <1>1. Behind(Groups(query, query.platform), k, d) = IF d \in CardFleet(query, query.platform) THEN own ELSE {}
    BY <1>0, BehindTable DEF Groups
  <1>2. \A i \in DOMAIN parts : w[i] = Cardinality(IF d \in CardFleet(query, OnPlatform(i)) THEN own ELSE {})
    BY <1>0 DEF CardsInv, UntouchedCounted, Adding
  <1>3. SumFunction(w) = SumFunctionOnSet(w, DOMAIN parts)
    BY DEF SumFunction
  <1>4. d \in Registered => Cardinality(own) \in Int
    <2>1. d \in Registered => IsFiniteSet(own)
      BY <1>0, AddsFew
    <2>. HIDE DEF own
    <2>. QED BY <2>1, FS_CardinalityType
  <1>5. Cardinality({}) = 0
    BY FS_EmptySet
  <1>. HIDE DEF w, own
  <1>6. CASE d \notin CardFleet(query, query.platform)
    <2>1. \A i \in DOMAIN parts : d \notin CardFleet(query, OnPlatform(i))
      BY <1>6, CompleteHas DEF OnPlatform, CardFleet
    <2>2. \A i \in DOMAIN parts : w[i] = 0
      BY <1>2, <1>5, <2>1
    <2>. QED BY <1>1, <1>3, <1>5, <1>6, <2>2, CompleteHas, SumOfNone DEF w
  <1>7. CASE d \in CardFleet(query, query.platform)
    <2>0. d \in Registered
      BY <1>7, CardFleetIs
    <2>1. PICK one \in DOMAIN parts : /\ d \in CardFleet(query, OnPlatform(one))
                                      /\ \A i \in DOMAIN parts \ {one} : d \notin CardFleet(query, OnPlatform(i))
      <3>1. CASE query.platform = "all"
        <4>1. DOMAIN parts = 1..3 /\ \A i \in 1..3 : OnPlatform(i) = FleetPlatforms[i]
          BY <3>1, CompleteHas DEF Statements, OnPlatform
        <4>2. \A i \in 1..3 : FleetPlatforms[i] \in KnownPlatforms
          BY DEF FleetPlatforms, KnownPlatforms
        <4>3. \A i \in 1..3 : d \in CardFleet(query, OnPlatform(i)) <=> platform[d] = FleetPlatforms[i]
          BY <1>7, <3>1, <4>1, <4>2, FleetIsSplit DEF CardsInv
        <4>4. platform[d] \in KnownPlatforms
          BY DEF CardsInv
        <4>5. \E one \in 1..3 : platform[d] = FleetPlatforms[one] /\ \A i \in 1..3 \ {one} : platform[d] # FleetPlatforms[i]
          <5>1. FleetPlatforms[1] = "macOS" /\ FleetPlatforms[2] = "Windows" /\ FleetPlatforms[3] = "Unknown"
            BY DEF FleetPlatforms
          <5>. QED BY <4>4, <5>1 DEF KnownPlatforms
        <4>. QED BY <4>1, <4>3, <4>5
      <3>2. CASE query.platform # "all"
        <4>1. DOMAIN parts = {1} /\ OnPlatform(1) = query.platform
          BY <3>2, CompleteHas DEF Statements, OnPlatform
        <4>. QED BY <1>7, <4>1
      <3>. QED BY <3>1, <3>2
    <2>2. w[one] = Cardinality(own) /\ \A i \in DOMAIN parts \ {one} : w[i] = 0
      BY <1>2, <1>5, <2>1
    <2>3. SumFunctionOnSet(w, DOMAIN parts) = w[one]
      BY <1>4, <2>0, <2>2, CompleteHas, SumOfOne, ZenonT(40)
    <2>. QED BY <1>1, <1>3, <1>7, <2>2, <2>3 DEF w
  <1>. QED BY <1>6, <1>7

-----------------------------------------------------------------------------
(* The rows of a merged answer, before the limit holds for it. *)
Merged(ps) ==
  [k \in UNION {DOMAIN ps[i] : i \in DOMAIN ps} |-> SumFunction([i \in DOMAIN ps |-> CountIn(ps[i], k)])]

LEMMA MergeIs ==
  ASSUME NEW q, NEW ps
  PROVE  MergeRows(q, ps) = IF q.name \in Limited THEN Restrict(Merged(ps), TopOf(Merged(ps), TopN)) ELSE Merged(ps)
  BY DEF MergeRows, Merged

LEMMA CountIs == ASSUME NEW part, NEW k PROVE CountIn(part, k) = Cardinality(RowOf(part, k))
  BY FS_EmptySet DEF CountIn, RowOf

(* An answer of one part has that part's rows. *)
LEMMA OnePart ==
  ASSUME NEW part, \A k \in DOMAIN part : IsFiniteSet(part[k])
  PROVE  Merged(<<part>>) = [k \in DOMAIN part |-> Cardinality(part[k])]
  <1>1. ASSUME NEW k \in DOMAIN part
        PROVE  SumFunction([i \in DOMAIN <<part>> |-> CountIn(<<part>>[i], k)]) = Cardinality(part[k])
    <2>. DEFINE w == [i \in {1} |-> CountIn(<<part>>[i], k)]
    <2>1. DOMAIN <<part>> = {1} /\ IsFiniteSet({1})
      BY FS_Singleton
    <2>2. w[1] = Cardinality(part[k]) /\ Cardinality(part[k]) \in Int
      BY FS_CardinalityType DEF CountIn
    <2>3. DOMAIN w = {1}
      OBVIOUS
    <2>. HIDE DEF w
    <2>4. SumFunctionOnSet(w, {1}) = w[1]
      BY <2>1, <2>2, SumOfOne
    <2>. QED BY <2>1, <2>2, <2>3, <2>4 DEF SumFunction, w
  <1>2. UNION {DOMAIN <<part>>[i] : i \in DOMAIN <<part>>} = DOMAIN part
    OBVIOUS
  <1>. QED BY <1>1, <1>2 DEF Merged

(* The first rows of the first rows are the first rows. *)
LEMMA TopTwice ==
  ASSUME NEW counts, IsFiniteSet(DOMAIN counts), NEW first, first = Restrict(counts, TopOf(counts, TopN))
  PROVE  TopOf(first, TopN) = DOMAIN first /\ Restrict(first, TopOf(first, TopN)) = first
  <1>. DEFINE Before(c, k) == {j \in DOMAIN c : c[j] > c[k] \/ (c[j] = c[k] /\ j < k)}
  <1>1. DOMAIN first = TopOf(counts, TopN) /\ DOMAIN first \subseteq DOMAIN counts /\ \A k \in DOMAIN first : first[k] = counts[k]
    BY DEF Restrict, TopOf
  <1>2. ASSUME NEW k \in DOMAIN first PROVE Cardinality(Before(first, k)) < TopN
    <2>1. Before(first, k) \subseteq Before(counts, k)
      BY <1>1
    <2>2. Cardinality(Before(counts, k)) < TopN
      BY <1>1 DEF TopOf
    <2>3. IsFiniteSet(Before(counts, k))
      BY FS_Subset
    <2>. HIDE DEF Before
    <2>4. /\ Cardinality(Before(first, k)) <= Cardinality(Before(counts, k))
          /\ Cardinality(Before(first, k)) \in Nat /\ Cardinality(Before(counts, k)) \in Nat
      BY <2>1, <2>3, FS_Subset, FS_CardinalityType
    <2>. QED BY <2>2, <2>4, SplitAssumption
  <1>3. TopOf(first, TopN) = DOMAIN first
    BY <1>2 DEF TopOf
  <1>. QED BY <1>1, <1>3 DEF Restrict

(* There are finitely many names, and finitely many devices or certificates behind each. *)
LEMMA FewFailing ==
  ASSUME Documents, CardsInv, query # NoQuery, query.name = "install_items_failing", NEW D \in SUBSET Registered
  PROVE  IsFiniteSet(DOMAIN Table(query, D))
  <1>1. topic \in {"installs", "items"}
    BY QueriesAssumption DEF CardsInv, CardAsked
  <1>2. ASSUME NEW d \in D PROVE IsFiniteSet({i.name : i \in ToSet(ItemsShown(d))})
    <2>1. IsFiniteSet(DOMAIN ItemsShown(d))
      <3>1. row[d] \in Payloads(topic, d) \cup Older(topic, d) /\ d \in Devices
        BY <1>1 DEF Documents, Registered
      <3>2. IsFiniteSet(DOMAIN ItemsOf(row[d].cimian)) /\ IsFiniteSet(DOMAIN ItemsOf(row[d].munki))
        BY <1>1, <3>1, FinitelyMany
      <3>. QED BY <3>2 DEF ItemsShown, ItemsOf
    <2>. DEFINE items == ItemsShown(d)
                f == [i \in DOMAIN items |-> items[i].name]
    <2>2. {i.name : i \in ToSet(items)} = {f[i] : i \in DOMAIN items}
      BY DEF ToSet
    <2>. HIDE DEF f
    <2>3. IsFiniteSet({f[i] : i \in DOMAIN items})
      BY <2>1, FiniteImage
    <2>. QED BY <2>2, <2>3
  <1>. DEFINE f == [d \in D |-> {i.name : i \in ToSet(ItemsShown(d))}]
              names == UNION {f[d] : d \in D}
  <1>3. IsFiniteSet(D)
    BY FinitelyMany, FS_Subset, CardFleetIs
  <1>4. IsFiniteSet(names)
    <2>1. \A d \in D : IsFiniteSet(f[d])
      BY <1>2
    <2>. HIDE DEF f
    <2>. QED BY <1>3, <2>1, FiniteUnion
  <1>5. DOMAIN Table(query, D) \subseteq names
    BY DEF Table, FailingItems
  <1>. HIDE DEF names
  <1>. QED BY <1>4, <1>5, FS_Subset

LEMMA RowsAreFew ==
  ASSUME Documents, CardsInv, query # NoQuery, NEW D \in SUBSET Registered, NEW k
  PROVE  IsFiniteSet(RowOf(Table(query, D), k))
  <1>. DEFINE f == [d \in D |-> RowOf(Table(query, {d}), k)]
  <1>1. IsFiniteSet(D)
    BY FinitelyMany, FS_Subset, CardFleetIs
  <1>2. \A d \in D : IsFiniteSet(f[d])
    BY AddsFew
  <1>3. \A x : x \in RowOf(Table(query, D), k) <=> \E d \in D : x \in RowOf(Table(query, {d}), k)
    BY TableAdds, QueryIsKnown
  <1>4. \A d \in D : f[d] = RowOf(Table(query, {d}), k)
    OBVIOUS
  <1>. HIDE DEF f
  <1>5. RowOf(Table(query, D), k) = UNION {f[d] : d \in D}
    <2>. DEFINE rows == RowOf(Table(query, D), k)
    <2>1. \A x : x \in rows <=> \E d \in D : x \in f[d]
      BY <1>3, <1>4, ZenonT(40)
    <2>. HIDE DEF rows
    <2>2. rows = UNION {f[d] : d \in D}
      BY <2>1
    <2>. QED BY <2>2 DEF rows
  <1>. QED BY <1>1, <1>2, <1>5, FiniteUnion

(* The parts of a card nobody disturbed, none of them cut, add up to one statement's answer. *)
LEMMA PartsAddUp ==
  ASSUME Documents, CardsInv, Complete, query.platform = "all",
         \A i \in DOMAIN parts : parts[i] = Table(query, CardFleet(query, OnPlatform(i)))
  PROVE  Merged(parts) = Merged(<<Groups(query, "all")>>)
  <1>. DEFINE On(i) == CardFleet(query, OnPlatform(i))
              all == CardFleet(query, "all")
              whole == Table(query, all)
  <1>0. query # NoQuery /\ query.name \in QueryNames
    BY CompleteHas, QueryIsKnown
  <1>1. DOMAIN parts = 1..3 /\ \A i \in 1..3 : OnPlatform(i) = FleetPlatforms[i]
    BY CompleteHas DEF Statements, OnPlatform
  <1>2. FleetPlatforms[1] = "macOS" /\ FleetPlatforms[2] = "Windows" /\ FleetPlatforms[3] = "Unknown"
    BY DEF FleetPlatforms
  <1>3. \A i \in 1..3 : \A d : d \in On(i) <=> d \in all /\ platform[d] = FleetPlatforms[i]
    BY <1>1, <1>2, FleetIsSplit, CardFleetIs DEF CardsInv, KnownPlatforms
  <1>4. \A d \in all : platform[d] \in KnownPlatforms /\ d \in Registered
    BY CardFleetIs DEF CardsInv
  <1>5. all = UNION {On(i) : i \in 1..3}
    <2>. HIDE DEF On, all
    <2>1. \A d \in all : d \in On(1) \/ d \in On(2) \/ d \in On(3)
      BY <1>2, <1>3, <1>4 DEF KnownPlatforms
    <2>. QED BY <1>3, <2>1
  <1>6. \A k : k \in DOMAIN whole <=> \E i \in 1..3 : k \in DOMAIN parts[i]
    <2>. DEFINE Ds == {On(i) : i \in 1..3}
    <2>1. Ds # {} /\ UNION Ds = all
      BY <1>5
    <2>2. \A k : k \in DOMAIN Table(query, UNION Ds) <=> \E E \in Ds : k \in DOMAIN Table(query, E)
      <3>. HIDE DEF Ds
      <3>. QED BY <1>0, <2>1, TableKeys
    <2>3. \A k : k \in DOMAIN whole <=> \E i \in 1..3 : k \in DOMAIN Table(query, On(i))
      BY <2>1, <2>2
    <2>. QED BY <1>1, <2>3
  <1>7. ASSUME NEW k PROVE SumFunction([i \in DOMAIN parts |-> CountIn(parts[i], k)]) = Cardinality(RowOf(whole, k))
    <2>. DEFINE B == [i \in 1..3 |-> RowOf(parts[i], k)]
                w == [i \in 1..3 |-> CountIn(parts[i], k)]
                own(d) == RowOf(Table(query, {d}), k)
    <2>1. \A i \in 1..3 : \A x : x \in B[i] <=> \E d \in On(i) : x \in own(d)
      BY <1>0, <1>1, TableAdds
    <2>2. \A x : x \in RowOf(whole, k) <=> \E d \in all : x \in own(d)
      BY <1>0, TableAdds
    <2>3. \A d, e : d # e => own(d) \cap own(e) = {}
      <3>1. \A d : \A x \in own(d) : IF query.name = "certificates" /\ k = "certificates" THEN x[1] = d ELSE x = d
        BY <1>0, TableOwns
      <3>. HIDE DEF own
      <3>. QED BY <3>1
    <2>4. \A i \in 1..3 : IsFiniteSet(B[i])
      BY <1>0, <1>1, RowsAreFew, CardFleetIs
    <2>5. \A i \in 1..3 : w[i] = Cardinality(B[i])
      BY CountIs
    <2>. HIDE DEF B, w, own
    <2>6. \A i, j \in 1..3 : i # j => FleetPlatforms[i] # FleetPlatforms[j]
      BY <1>2
    <2>7. \A i, j \in 1..3 : i # j => B[i] \cap B[j] = {}
      <3>. SUFFICES ASSUME NEW i \in 1..3, NEW j \in 1..3, i # j, NEW x \in B[i], x \in B[j] PROVE FALSE
        OBVIOUS
      <3>. HIDE DEF On, all
      <3>1. PICK d \in On(i) : x \in own(d)
        BY <2>1
      <3>2. PICK e \in On(j) : x \in own(e)
        BY <2>1
      <3>3. d = e
        BY <2>3, <3>1, <3>2
      <3>. QED BY <1>3, <2>6, <3>1, <3>2, <3>3
    <2>8. IsFiniteSet(1..3)
      BY <1>1, CompleteHas
    <2>9. SumFunctionOnSet(w, 1..3) = Cardinality(UNION {B[i] : i \in 1..3})
      BY <2>4, <2>5, <2>7, <2>8, SumOfSizes
    <2>10. UNION {B[i] : i \in 1..3} = RowOf(whole, k)
      <3>. HIDE DEF On, all, whole
      <3>1. \A x : (\E i \in 1..3 : x \in B[i]) <=> \E d \in all : x \in own(d)
        BY <1>5, <2>1
      <3>. QED BY <2>2, <3>1
    <2>. QED BY <1>1, <2>9, <2>10 DEF SumFunction, w
  <1>8. \A k \in DOMAIN whole : IsFiniteSet(whole[k])
    <2>1. \A k : IsFiniteSet(RowOf(whole, k))
      BY <1>0, RowsAreFew, CardFleetIs
    <2>. QED BY <2>1 DEF RowOf
  <1>9. Merged(<<whole>>) = [k \in DOMAIN whole |-> Cardinality(whole[k])]
    <2>. HIDE DEF whole
    <2>. QED BY <1>8, OnePart
  <1>10. UNION {DOMAIN parts[i] : i \in DOMAIN parts} = DOMAIN whole
    <2>. HIDE DEF whole
    <2>. QED BY <1>1, <1>6
  <1>11. \A k \in DOMAIN whole : RowOf(whole, k) = whole[k]
    BY DEF RowOf
  <1>12. Merged(parts) = [k \in DOMAIN whole |-> Cardinality(whole[k])]
    <2>. HIDE DEF whole
    <2>. QED BY <1>7, <1>10, <1>11 DEF Merged
  <1>. QED BY <1>9, <1>12 DEF Groups

LEMMA UndisturbedAnswer ==
  ASSUME Documents, CardsInv, Complete, touched = {}, Uncut
  PROVE  Answer = MergeRows(query, <<Groups(query, query.platform)>>)
  <1>. DEFINE fleetOf == CardFleet(query, query.platform)
              whole == Table(query, fleetOf)
  <1>0. query # NoQuery /\ DOMAIN parts = 1..Statements
    BY CompleteHas
  <1>1. \A i \in DOMAIN parts : parts[i] = Execute(query, OnPlatform(i), CutTo)
    BY <1>0 DEF CardsInv, StillCurrent
  <1>2. CASE query.platform = "all"
    <2>1. \A i \in DOMAIN parts : OnPlatform(i) \in ToSet(FleetPlatforms)
      <3>1. \A i \in 1..3 : FleetPlatforms[i] \in ToSet(FleetPlatforms)
        BY DEF ToSet, FleetPlatforms
      <3>. QED BY <1>0, <1>2, <3>1 DEF Statements, OnPlatform
    <2>2. \A i \in DOMAIN parts : parts[i] = Table(query, CardFleet(query, OnPlatform(i)))
      <3>1. CASE query.name \in Limited
        BY <1>1, <1>2, <2>1, <3>1 DEF Uncut, CutTo, Groups
      <3>2. CASE query.name \notin Limited
        BY <1>1, <3>2 DEF Execute, Groups
      <3>. QED BY <3>1, <3>2
    <2>3. Merged(parts) = Merged(<<Groups(query, query.platform)>>)
      BY <1>2, <2>2, PartsAddUp
    <2>. QED BY <2>3, MergeIs DEF Answer
  <1>3. CASE query.platform # "all"
    <2>1. parts = <<Execute(query, query.platform, TopN)>>
      <3>1. PICK S : parts \in Seq(S)
        BY DEF CardsInv, Numbered
      <3>2. Len(parts) = 1 /\ DOMAIN parts = {1}
        BY <1>3, CompleteHas DEF Statements
      <3>3. parts[1] = Execute(query, query.platform, TopN)
        BY <1>1, <1>3, <3>2 DEF OnPlatform, CutTo
      <3>. QED BY <3>1, <3>2, <3>3
    <2>2. CASE query.name \notin Limited
      BY <2>1, <2>2 DEF Answer, Execute
    <2>3. CASE query.name \in Limited
      <3>. DEFINE counts == [k \in DOMAIN whole |-> Cardinality(whole[k])]
                  first == Restrict(counts, TopOf(counts, TopN))
                  part == Restrict(whole, TopOf(counts, TopN))
      <3>1. IsFiniteSet(DOMAIN counts) /\ \A k \in DOMAIN whole : IsFiniteSet(whole[k])
        <4>1. IsFiniteSet(DOMAIN whole)
          BY <1>0, <2>3, FewFailing, CardFleetIs DEF Limited
        <4>2. \A k : IsFiniteSet(RowOf(whole, k))
          BY <1>0, RowsAreFew, CardFleetIs
        <4>. QED BY <4>1, <4>2 DEF RowOf
      <3>2. Execute(query, query.platform, TopN) = part
        BY <2>3 DEF Execute, Groups
      <3>3. Merged(<<whole>>) = counts
        <4>. HIDE DEF whole
        <4>. QED BY <3>1, OnePart
      <3>4. DOMAIN part \subseteq DOMAIN whole /\ \A k \in DOMAIN part : part[k] = whole[k]
        BY DEF Restrict, TopOf
      <3>5. Merged(<<part>>) = [k \in DOMAIN part |-> Cardinality(part[k])]
        <4>1. \A k \in DOMAIN part : IsFiniteSet(part[k])
          BY <3>1, <3>4
        <4>. HIDE DEF part
        <4>. QED BY <4>1, OnePart
      <3>6. Merged(<<part>>) = first
        <4>1. DOMAIN part = TopOf(counts, TopN) /\ first = [k \in TopOf(counts, TopN) |-> counts[k]]
          BY DEF Restrict
        <4>2. \A k \in DOMAIN part : counts[k] = Cardinality(part[k])
          BY <3>4
        <4>. HIDE DEF part, counts, first
        <4>. QED BY <3>5, <4>1, <4>2
      <3>7. Restrict(first, TopOf(first, TopN)) = first
        <4>. HIDE DEF counts
        <4>. QED BY <3>1, TopTwice
      <3>. HIDE DEF first, part, counts, whole
      <3>8. MergeRows(query, <<part>>) = first
        BY <2>3, <3>6, <3>7, MergeIs
      <3>9. MergeRows(query, <<whole>>) = first
        BY <2>3, <3>3, MergeIs DEF first
      <3>. QED BY <2>1, <3>2, <3>8, <3>9 DEF Answer, Groups, whole
    <2>. QED BY <2>2, <2>3
  <1>. QED BY <1>2, <1>3

(* A card for the whole fleet counts every device that did not change      *)
(* while it was computed once, whatever the others did between its parts;  *)
(* when nothing changed, it is what one statement over the fleet answers,  *)
(* or would be had no part been cut.                                       *)
THEOREM CardsCountOnce == Spec => []CardCountsOnce
  <1>1. Documents /\ CardsInv => CardCountsOnce
    BY UntouchedOnce, UndisturbedAnswer DEF CardCountsOnce
  <1>. QED BY <1>1, DocumentsKept, CardsKept, PTL

-----------------------------------------------------------------------------
(***************************************************************************)
(* Cards and the reports their links open.                                 *)
(***************************************************************************)
(* A document's runs have dates, so that how long ago the last was is a number of days. *)
LEMMA RunsHaveDates ==
  ASSUME Documents, topic = "installs", NEW d \in Registered, NEW a \in {"munki", "cimian"}
  PROVE  StaleDays(row[d][a], d) \in Int
  <1>. DEFINE agent == row[d][a]
              run == [i \in DOMAIN agent.sessions |-> RunTime(agent.sessions[i])]
              days == {run[i] : i \in DOMAIN agent.sessions} \ {NoDay}
  <1>1. d \in Devices /\ row[d] \in Payloads("installs", d) \cup Older("installs", d)
    BY DEF Documents, Registered
  <1>2. AgentLastRun(agent) \in Int
    <2>1. CASE agent = NoAgent
      BY <2>1 DEF AgentLastRun, NoDay
    <2>2. CASE agent # NoAgent
      <3>1. /\ RunTime(agent.run) \in Int /\ IsFiniteSet(DOMAIN agent.sessions)
            /\ \A i \in DOMAIN agent.sessions : RunTime(agent.sessions[i]) \in Int
        BY <1>1, <2>2, RunsAssumption DEF RunTime
      <3>2. days \subseteq Int
        BY <3>1
      <3>3. IsFiniteSet(days)
        <4>1. IsFiniteSet({run[i] : i \in DOMAIN agent.sessions})
          <5>. HIDE DEF run
          <5>. QED BY <3>1, FiniteImage
        <4>. QED BY <4>1, FS_Subset
      <3>4. days # {} => Max(days) \in Int
        <4>. HIDE DEF days
        <4>. QED BY <3>2, <3>3, GreatestIs
      <3>5. days = {RunTime(agent.sessions[i]) : i \in DOMAIN agent.sessions} \ {NoDay}
        OBVIOUS
      <3>. QED BY <2>2, <3>1, <3>4, <3>5 DEF AgentLastRun
    <2>. QED BY <2>1, <2>2
  <1>3. seen[d] \in Nat
    BY <1>1 DEF Documents
  <1>. QED BY <1>2, <1>3 DEF StaleDays, NoDay

LEMMA SilentOnesAreStale == Documents => SilentAreStale
  <1>. SUFFICES ASSUME Documents, topic = "installs", NEW a \in BOOLEAN, NEW agent \in {"munki", "cimian"},
                       NEW d \in SilentAgents(CardFleet([name |-> "install_agent_runs", includeArchived |-> a, hasStates |-> TRUE], "all"))[agent]
                PROVE  \E s \in StaleAgents(states, a) : s.device = d /\ s.agent = agent
    BY DEF SilentAreStale
  <1>. DEFINE whole == CardFleet([name |-> "install_agent_runs", includeArchived |-> a, hasStates |-> TRUE], "all")
  <1>1. d \in whole /\ AgentOf(d) = agent /\ StaleDays(row[d][agent], d) # NoDay /\ StaleDays(row[d][agent], d) > SilentAfter
    BY DEF SilentAgents
  <1>2. d \in InstallsListed(a) /\ ~IsStored(states, d) /\ d \in Registered
    BY <1>1 DEF CardFleet, StoredExcluded, InstallsListed
  <1>3. DeviceStaleDays(d) = StaleDays(row[d][agent], d)
    BY <1>1 DEF AgentOf, DeviceStaleDays
  <1>4. StaleDays(row[d][agent], d) \in Int
    BY <1>2, RunsHaveDates
  <1>5. DeviceStaleDays(d) # NoDay /\ DeviceStaleDays(d) >= StaleAfter
    BY <1>1, <1>3, <1>4, SilentAssumption
  <1>6. [device |-> d, agent |-> agent, days |-> DeviceStaleDays(d)] \in StaleAgents(states, a)
    BY <1>1, <1>2, <1>5 DEF StaleAgents
  <1>. QED BY <1>6

LEMMA FailingOnesAreListed == FailingAreListed
  <1>. SUFFICES ASSUME NEW a \in BOOLEAN, NEW n \in DOMAIN FailingItems(SystemScope(a)),
                       NEW d \in FailingItems(SystemScope(a))[n]
                PROVE  \E y \in InstallsList(a) : y.name = n /\ y.device = d
    BY DEF FailingAreListed
  <1>1. d \in SystemScope(a) /\ FailingOn(d, n) /\ n # Untold
    BY DEF FailingItems
  <1>2. d \in InstallsListed(a)
    BY <1>1 DEF SystemScope, InstallsListed
  <1>3. PICK agent \in {"cimian", "munki"} : ItemsShown(d) = ItemsOf(row[d][agent])
    BY DEF ItemsShown, ItemsOf
  <1>4. PICK i \in DOMAIN ItemsOf(row[d][agent]) : ItemsOf(row[d][agent])[i].name = n
    BY <1>1, <1>3 DEF FailingOn, ToSet
  <1>5. ItemsOf(row[d][agent]) = row[d][agent].items
    BY <1>4 DEF ItemsOf
  <1>. DEFINE item == row[d][agent].items[i]
              listed == [device |-> d, source |-> agent, nth |-> i, name |-> ListedName(agent, item),
                         padded |-> item.padded, text |-> item.text]
  <1>6. listed \in InstallsList(a)
    BY <1>2, <1>3 DEF InstallsList
  <1>7. ListedName(agent, item) = n
    BY <1>1, <1>4, <1>5 DEF ListedName, Called
  <1>. QED BY <1>6, <1>7



(* The row of the system report that a document with fields has. *)
FullRow(d) ==
  [device |-> d, platform |-> OsPlatform(row[d].version.os),
   uptime |-> IF row[d].uptime = 0 THEN Unset ELSE row[d].uptime,
   pending |-> PendingShown(row[d]), deferred |-> DeferredIn(row[d].apple)]

(* Such a document's row carries its own number of deferred updates. *)
LEMMA FullRows ==
  ASSUME NEW a
  PROVE  /\ \A r \in SystemList(a) : row[r.device] # Empty => r.device \in SystemScope(a) /\ r = FullRow(r.device)
         /\ \A d \in SystemScope(a) : row[d] # Empty => FullRow(d) \in SystemList(a)
  <1>. DEFINE places == {i \in DOMAIN SerialOrder : SerialOrder[i] \in SystemScope(a)}
              Doc(i) == row[SerialOrder[i]]
              Filled(i) == {j \in places : j <= i /\ Doc(j) # Empty}
              deferred == [i \in {j \in places : Filled(j) # {}} |-> DeferredIn(Doc(Max(Filled(i))).apple)]
              Row(i) == IF Doc(i) = Empty
                          THEN [device |-> SerialOrder[i], platform |-> "Unknown", uptime |-> Unset, pending |-> 0, deferred |-> deferred[i]]
                          ELSE [device |-> SerialOrder[i], platform |-> OsPlatform(Doc(i).version.os),
                                uptime |-> IF Doc(i).uptime = 0 THEN Unset ELSE Doc(i).uptime,
                                pending |-> PendingShown(Doc(i)), deferred |-> deferred[i]]
  <1>1. SystemList(a) = {Row(i) : i \in DOMAIN deferred}
    BY DEF SystemList
  <1>2. places \subseteq 1..Len(SerialOrder) /\ Len(SerialOrder) \in Nat
    BY SystemAssumption
  <1>3. ASSUME NEW i \in places, Doc(i) # Empty
        PROVE  i \in DOMAIN deferred /\ Row(i) = FullRow(SerialOrder[i])
    <2>1. i \in Filled(i) /\ Filled(i) \subseteq 1..Len(SerialOrder)
      BY <1>2, <1>3
    <2>2. IsFiniteSet(1..Len(SerialOrder))
      BY <1>2, FS_Interval
    <2>3. \A j \in Filled(i) : j <= i
      OBVIOUS
    <2>4. i \in DOMAIN deferred /\ deferred[i] = DeferredIn(Doc(Max(Filled(i))).apple)
      BY <2>1
    <2>5. Max(Filled(i)) = i
      <3>. HIDE DEF Filled
      <3>1. IsFiniteSet(Filled(i)) /\ Filled(i) # {} /\ Filled(i) \subseteq Int
        BY <2>1, <2>2, FS_Subset
      <3>2. Max(Filled(i)) \in Filled(i) /\ \A x \in Filled(i) : x <= Max(Filled(i))
        BY <3>1, GreatestIs
      <3>3. Max(Filled(i)) <= i /\ i <= Max(Filled(i)) /\ i \in Int /\ Max(Filled(i)) \in Int
        BY <2>1, <2>3, <3>1, <3>2
      <3>. QED BY <3>3
    <2>. HIDE DEF deferred, Filled
    <2>. QED BY <1>3, <2>4, <2>5 DEF FullRow
  <1>4. ASSUME NEW d \in SystemScope(a), row[d] # Empty PROVE FullRow(d) \in SystemList(a)
    <2>1. d \in Devices
      BY DEF SystemScope, Registered
    <2>2. PICK i \in DOMAIN SerialOrder : SerialOrder[i] = d
      BY <2>1, SystemAssumption DEF ToSet
    <2>3. i \in places /\ Doc(i) # Empty
      BY <1>4, <2>2
    <2>. HIDE DEF Row, deferred
    <2>. QED BY <1>1, <1>3, <2>2, <2>3
  <1>5. ASSUME NEW r \in SystemList(a), row[r.device] # Empty
        PROVE  r.device \in SystemScope(a) /\ r = FullRow(r.device)
    <2>1. PICK i \in DOMAIN deferred : r = Row(i)
      BY <1>1
    <2>2. i \in places /\ r.device = SerialOrder[i]
      BY <2>1
    <2>. HIDE DEF Row, deferred
    <2>. QED BY <1>3, <1>5, <2>1, <2>2
  <1>. QED BY <1>4, <1>5

(* Two readings of one document. *)
LEMMA SameReading ==
  ASSUME Documents, topic = "system", NEW d \in Registered
  PROVE  /\ PendingCounted(row[d]) = IF row[d] = Empty THEN 0 ELSE PendingShown(row[d])
         /\ row[d] # Empty => row[d].uptime \in Nat
  <1>1. d \in Devices /\ row[d] \in Payloads("system", d) \cup Older("system", d)
    BY DEF Documents, Registered
  <1>2. row[d] # Empty => row[d].apple \in Seq(BOOLEAN) /\ row[d].uptime \in Nat
    BY <1>1, SystemAssumption
  <1>3. row[d] # Empty => Len(row[d].apple) \in Nat
    BY <1>2
  <1>4. PendingCounted(row[d]) = IF row[d] = Empty THEN 0 ELSE PendingShown(row[d])
    <2>1. CASE row[d] = Empty
      BY <2>1 DEF PendingCounted
    <2>2. CASE row[d] # Empty
      BY <1>3, <2>2 DEF PendingCounted, PendingShown
    <2>. QED BY <2>1, <2>2
  <1>. QED BY <1>2, <1>4

LEMMA DisjointUnion ==
  ASSUME NEW S, NEW T, IsFiniteSet(S), IsFiniteSet(T), S \cap T = {}
  PROVE  IsFiniteSet(S \cup T) /\ Cardinality(S \cup T) = Cardinality(S) + Cardinality(T)
  <1>1. IsFiniteSet(S \cup T) /\ Cardinality(S \cup T) = Cardinality(S) + Cardinality(T) - Cardinality(S \cap T)
    BY FS_Union
  <1>2. Cardinality(S \cap T) = 0 /\ Cardinality(S) \in Nat /\ Cardinality(T) \in Nat
    BY FS_EmptySet, FS_CardinalityType
  <1>. QED BY <1>1, <1>2

(* A sum over two sets of weights that are sizes is the two sums. *)
LEMMA SumSplits ==
  ASSUME NEW S, IsFiniteSet(S), NEW B, \A x \in S : IsFiniteSet(B[x]),
         \A x, y \in S : x # y => B[x] \cap B[y] = {},
         NEW w, \A x \in S : w[x] = Cardinality(B[x]),
         NEW P \in SUBSET S, NEW Q \in SUBSET S, P \cap Q = {}
  PROVE  SumFunctionOnSet(w, P \cup Q) = SumFunctionOnSet(w, P) + SumFunctionOnSet(w, Q)
  <1>. DEFINE All(s) == UNION {B[x] : x \in s}
  <1>1. ASSUME NEW s \in SUBSET S
        PROVE  IsFiniteSet(All(s)) /\ SumFunctionOnSet(w, s) = Cardinality(All(s))
    <2>1. IsFiniteSet(s)
      BY FS_Subset
    <2>2. \A x \in s : IsFiniteSet(B[x])
      OBVIOUS
    <2>3. \A x, y \in s : x # y => B[x] \cap B[y] = {}
      OBVIOUS
    <2>4. \A x \in s : w[x] = Cardinality(B[x])
      OBVIOUS
    <2>. QED BY <2>1, <2>2, <2>3, <2>4, SumOfSizes, FiniteUnion
  <1>2. All(P \cup Q) = All(P) \cup All(Q) /\ All(P) \cap All(Q) = {}
    OBVIOUS
  <1>3. P \cup Q \in SUBSET S
    OBVIOUS
  <1>. HIDE DEF All
  <1>4. Cardinality(All(P) \cup All(Q)) = Cardinality(All(P)) + Cardinality(All(Q))
    BY <1>1, <1>2, DisjointUnion
  <1>. QED BY <1>1, <1>2, <1>3, <1>4

(* What is behind on each platform adds up to what is behind. *)
LEMMA LaggingAddsUp ==
  ASSUME NEW D, IsFiniteSet(D)
  PROVE  UpdateDebt(D, "all").currency.behind =
           UpdateDebt(D, "macOS").currency.behind + UpdateDebt(D, "Windows").currency.behind + UpdateDebt(D, "Unknown").currency.behind
  <1>. DEFINE versions == OsVersions(D)
              rows == [v \in DOMAIN versions |-> Cardinality(versions[v])]
              behind(p) == {v \in DOMAIN rows : p \in {"all", OsPlatform(v.os)} /\ Rated(v) /\ v.level < LatestLevel(rows, v)}
  <1>1. \A p : UpdateDebt(D, p).currency.behind = SumFunctionOnSet(rows, behind(p))
    <2>1. \A p : UpdateDebt(D, p).currency.behind = OsCurrency(rows, p).behind
      BY DEF UpdateDebt
    <2>. HIDE DEF rows
    <2>2. \A p : {v \in {x \in {y \in DOMAIN rows : p \in {"all", OsPlatform(y.os)}} : Rated(x)} : v.level < LatestLevel(rows, v)} = behind(p)
      OBVIOUS
    <2>. HIDE DEF behind
    <2>3. \A p : OsCurrency(rows, p).behind = SumFunctionOnSet(rows, behind(p))
      BY <2>2 DEF OsCurrency, Total
    <2>. QED BY <2>1, <2>3
  <1>2. DOMAIN rows = DOMAIN versions /\ \A v \in DOMAIN rows : versions[v] \subseteq D /\ rows[v] = Cardinality(versions[v])
    BY DEF OsVersions
  <1>3. \A v, x \in DOMAIN versions : v # x => versions[v] \cap versions[x] = {}
    BY DEF OsVersions
  <1>4. IsFiniteSet(DOMAIN versions)
    <2>. DEFINE f == [d \in D |-> VersionOf(row[d])]
    <2>1. DOMAIN versions = {f[d] : d \in D}
      BY DEF OsVersions
    <2>. HIDE DEF f, versions
    <2>. QED BY <2>1, FiniteImage
  <1>. HIDE DEF versions, rows
  <1>5. \A v \in DOMAIN versions : IsFiniteSet(versions[v])
    BY <1>2, FS_Subset
  <1>6. \A v : OsPlatform(v.os) \in {"macOS", "Windows", "Unknown"}
    BY DEF OsPlatform
  <1>7. behind("all") = behind("macOS") \cup behind("Windows") \cup behind("Unknown")
    BY <1>6
  <1>8. /\ behind("macOS") \cap behind("Windows") = {} /\ behind("macOS") \cap behind("Unknown") = {}
        /\ behind("Windows") \cap behind("Unknown") = {}
    OBVIOUS
  <1>9. \A p : behind(p) \subseteq DOMAIN versions
    BY <1>2
  <1>. HIDE DEF behind
  <1>. DEFINE Sum(V) == SumFunctionOnSet(rows, V)
  <1>10. \A P, Q \in SUBSET DOMAIN versions : P \cap Q = {} => Sum(P \cup Q) = Sum(P) + Sum(Q)
    BY <1>2, <1>3, <1>4, <1>5, SumSplits
  <1>11. Sum(behind("macOS") \cup behind("Windows")) = Sum(behind("macOS")) + Sum(behind("Windows"))
    BY <1>8, <1>9, <1>10
  <1>12. Sum(behind("all")) = Sum(behind("macOS") \cup behind("Windows")) + Sum(behind("Unknown"))
    <2>1. behind("macOS") \cup behind("Windows") \subseteq DOMAIN versions
          /\ (behind("macOS") \cup behind("Windows")) \cap behind("Unknown") = {}
      BY <1>8, <1>9
    <2>. QED BY <1>7, <1>9, <1>10, <2>1
  <1>. QED BY <1>1, <1>11, <1>12

LEMMA DebtsAreListed == Documents => DebtIsListed
  <1>. SUFFICES ASSUME Documents, topic = "system", NEW a \in BOOLEAN
                PROVE  LET whole == SystemScope(a)
                           Lagging(p) == UpdateDebt(whole, p).currency.behind
                           full == {r \in SystemList(a) : row[r.device] # Empty}
                       IN /\ {r.device : r \in {x \in full : x.pending > 0}} = RebootDebt(whole)["pending"]
                          /\ {r.device : r \in {x \in full : x.deferred > 0}} = RebootDebt(whole)["deferred"]
                          /\ \A r \in full : r.uptime # Unset =>
                               Cardinality({b \in {"lt1d", "1-3d", "3-7d", "1-2w", "2-4w", "30d+"} : r.device \in RebootDebt(whole)[b]}) = 1
                          /\ Lagging("all") = Lagging("macOS") + Lagging("Windows") + Lagging("Unknown")
    BY DEF DebtIsListed
  <1>. DEFINE whole == SystemScope(a)
              full == {r \in SystemList(a) : row[r.device] # Empty}
              buckets == {"lt1d", "1-3d", "3-7d", "1-2w", "2-4w", "30d+"}
  <1>1. \A r \in full : /\ r.device \in whole /\ row[r.device] # Empty /\ r = FullRow(r.device)
    BY FullRows
  <1>2. \A d \in whole : row[d] # Empty => FullRow(d) \in full /\ FullRow(d).device = d
    BY FullRows DEF FullRow
  <1>3. whole \subseteq Registered
    BY DEF SystemScope
  <1>4. \A d \in whole : PendingCounted(row[d]) > 0 <=> row[d] # Empty /\ PendingShown(row[d]) > 0
    BY <1>3, SameReading
  <1>5. RebootDebt(whole)["pending"] = {d \in whole : PendingCounted(row[d]) > 0}
    BY DEF RebootDebt
  <1>6. RebootDebt(whole)["deferred"] = {d \in whole : row[d] # Empty /\ DeferredIn(row[d].apple) > 0}
    BY DEF RebootDebt
  <1>7. \A b \in buckets : RebootDebt(whole)[b] = {d \in whole : row[d] # Empty /\ row[d].uptime > 0 /\ UptimeBucket(row[d].uptime) = b}
    BY DEF RebootDebt
  <1>8. \A d : /\ FullRow(d).pending = PendingShown(row[d]) /\ FullRow(d).deferred = DeferredIn(row[d].apple)
               /\ FullRow(d).uptime # Unset => row[d].uptime # 0
    BY DEF FullRow
  <1>9. IsFiniteSet(whole)
    BY <1>3, CardFleetIs, FinitelyMany, FS_Subset
  <1>. HIDE DEF whole, full
  <1>10. {r.device : r \in {x \in full : x.pending > 0}} = RebootDebt(whole)["pending"]
    BY <1>1, <1>2, <1>4, <1>5, <1>8
  <1>11. {r.device : r \in {x \in full : x.deferred > 0}} = RebootDebt(whole)["deferred"]
    BY <1>1, <1>2, <1>6, <1>8
  <1>12. ASSUME NEW r \in full, r.uptime # Unset
         PROVE  Cardinality({b \in buckets : r.device \in RebootDebt(whole)[b]}) = 1
    <2>. DEFINE hours == row[r.device].uptime
    <2>1. hours \in Nat /\ hours > 0 /\ r.device \in whole /\ row[r.device] # Empty
      BY <1>1, <1>3, <1>8, <1>12, SameReading
    <2>2. UptimeBucket(hours) \in buckets
      BY DEF UptimeBucket
    <2>3. \A b \in buckets : r.device \in RebootDebt(whole)[b] <=> UptimeBucket(hours) = b
      BY <1>7, <2>1
    <2>4. {b \in buckets : r.device \in RebootDebt(whole)[b]} = {UptimeBucket(hours)}
      <3>. HIDE DEF buckets, hours
      <3>. QED BY <2>2, <2>3
    <2>. QED BY <2>4, FS_Singleton
  <1>13. UpdateDebt(whole, "all").currency.behind =
           UpdateDebt(whole, "macOS").currency.behind + UpdateDebt(whole, "Windows").currency.behind + UpdateDebt(whole, "Unknown").currency.behind
    BY <1>9, LaggingAddsUp
  <1>. QED BY <1>10, <1>11, <1>12, <1>13 DEF whole, full


(* The views of a certificate are classified, and agree on when it expires. *)
LEMMA ViewsAgree ==
  ASSUME Documents, topic = "certificates", NEW d \in Registered
  PROVE  /\ \A v \in row[d] : v.notAfter \in Int /\ v.left \in Int /\ v.id \in Int /\ v.name \in Int /\ ClassOf(v) \in Classes
         /\ \A v, w \in row[d] : v.id = w.id => v.notAfter = w.notAfter /\ v.left = w.left /\ v.live = w.live /\ v.flag = w.flag
  <1>1. d \in Devices
    BY DEF Registered
  <1>2. CASE row[d] \in Older("certificates", d)
    BY <1>1, <1>2, CertificatesAssumption
  <1>3. ASSUME NEW views \in Payloads("certificates", d), NEW p, row[d] = Stamped(views, p)
        PROVE  /\ \A v \in row[d] : v.notAfter \in Int /\ v.left \in Int /\ v.id \in Int /\ v.name \in Int /\ ClassOf(v) \in Classes
               /\ \A v, w \in row[d] : v.id = w.id => v.notAfter = w.notAfter /\ v.left = w.left /\ v.live = w.live /\ v.flag = w.flag
    <2>. DEFINE stamped(u) == [u EXCEPT !.class = Classify(u, p), !.live = u.notAfter # NoDate]
    <2>1. \A u \in views : /\ stamped(u).id = u.id /\ stamped(u).notAfter = u.notAfter /\ stamped(u).flag = u.flag
                           /\ stamped(u).left = u.left /\ stamped(u).name = u.name
                           /\ stamped(u).class = Classify(u, p) /\ stamped(u).live = (u.notAfter # NoDate)
      BY <1>1, CertificatesAssumption
    <2>2. \A u : Classify(u, p) \in Classes
      BY DEF Classify, ClassifyWindows, ClassifyMac, Classes
    <2>3. \A u \in views : ClassOf(stamped(u)) \in Classes
      BY <2>1, <2>2 DEF ClassOf, Classes
    <2>4. row[d] = {stamped(u) : u \in views}
      BY <1>3 DEF Stamped
    <2>. HIDE DEF stamped
    <2>5. \A u \in views : u.notAfter \in Int /\ u.left \in Int /\ u.id \in Int /\ u.name \in Int
      BY <1>1, CertificatesAssumption
    <2>6. \A u, v \in views : u.id = v.id => u.notAfter = v.notAfter /\ u.left = v.left /\ u.flag = v.flag
      BY <1>1, CertificatesAssumption
    <2>. QED BY <2>1, <2>3, <2>4, <2>5, <2>6
  <1>. QED BY <1>2, <1>3 DEF Documents, Registered

LEMMA ExpiryAgrees ==
  ASSUME Documents, topic = "certificates", NEW d \in Registered, NEW v \in row[d], NEW w \in row[d], v.id = w.id
  PROVE  /\ Expired(v, today) <=> Expired(w, today)
         /\ Expiring(v, today) <=> Expiring(w, today)
         /\ CardExpiring(v, today) <=> CardExpiring(w, today)
  BY ViewsAgree DEF Expired, Expiring, CardExpiring, TimeLeft, Left

(* Folding keeps a view of each certificate, of the class that asks most. *)
LEMMA OneOfEach ==
  ASSUME NEW views
  PROVE  /\ OnePerCert(views) \subseteq views
         /\ \A v \in views : \E w \in OnePerCert(views) : w.id = v.id /\ Rank(w) <= Rank(v)
  <1>. DEFINE Best(v, c) == v \in views /\ v.id = c /\ \A w \in views : w.id = c => Rank(v) <= Rank(w)
              one(c) == CHOOSE v \in views : v.id = c /\ \A w \in views : w.id = c => Rank(v) <= Rank(w)
  <1>1. OnePerCert(views) = {one(c) : c \in {x.id : x \in views}}
    BY DEF OnePerCert
  <1>2. ASSUME NEW x \in views PROVE \E v \in views : Best(v, x.id)
    <2>. DEFINE ranks == {Rank(w) : w \in {u \in views : u.id = x.id}}
    <2>1. ranks \subseteq Nat /\ Rank(x) \in ranks
      BY DEF Rank
    <2>2. \E r \in ranks : \A s \in ranks : r <= s
      <3>. HIDE DEF ranks
      <3>. QED BY <2>1, LeastNatural
    <2>. QED BY <2>2
  <1>3. \A c \in {x.id : x \in views} : Best(one(c), c)
    BY <1>2
  <1>. HIDE DEF one
  <1>. QED BY <1>1, <1>3

(* Whether a device has a certificate somebody has to act on that expires, or has expired. *)
Soon(d) == \E v \in row[d] : ClassOf(v) = "actionable" /\ Expiring(v, today)
Due(d) == \E v \in row[d] : ClassOf(v) = "actionable" /\ CardExpiring(v, today)
Late(d) == \E v \in row[d] : ClassOf(v) = "actionable" /\ Expired(v, today)

(* The card folds the views that are somebody's to act on, the report folds them all: *)
(* both find one that expires when there is one.                                      *)
LEMMA FoldedAlike ==
  ASSUME Documents, topic = "certificates", NEW d \in Registered
  PROVE  /\ \A v \in ActionableOn(d) : v \in row[d] /\ ClassOf(v) = "actionable"
         /\ \A v \in row[d] : ClassOf(v) = "actionable" => \E w \in ActionableOn(d) : w.id = v.id
         /\ (\E v \in ActionableOn(d) : CardExpiring(v, today)) <=> Due(d)
         /\ (\E v \in ActionableOn(d) : Expired(v, today)) <=> Late(d)
         /\ CertCounts(d).expiring > 0 <=> Soon(d)
         /\ CertCounts(d).expired > 0 <=> Late(d)
  <1>. DEFINE mine == {v \in row[d] : ClassOf(v) = "actionable"}
              certs == OnePerCert(row[d])
              soon == {v \in certs : ClassOf(v) = "actionable" /\ Expiring(v, today)}
              late == {v \in certs : ClassOf(v) = "actionable" /\ Expired(v, today)}
  <1>1. ActionableOn(d) = OnePerCert(mine)
    BY DEF ActionableOn
  <1>2. /\ OnePerCert(mine) \subseteq mine /\ certs \subseteq row[d]
        /\ \A v \in mine : \E w \in OnePerCert(mine) : w.id = v.id
        /\ \A v \in row[d] : \E w \in certs : w.id = v.id /\ Rank(w) <= Rank(v)
    <2>. HIDE DEF mine
    <2>. QED BY OneOfEach
  <1>3. \A v, w : ClassOf(v) = "actionable" /\ Rank(w) <= Rank(v) => ClassOf(w) = "actionable"
    BY DEF Rank
  <1>4. (\E v \in ActionableOn(d) : CardExpiring(v, today)) <=> Due(d)
    <2>. DEFINE Near(v) == CardExpiring(v, today)
    <2>1. ASSUME NEW v \in row[d], NEW w \in row[d], v.id = w.id
          PROVE  Near(v) <=> Near(w)
      BY <2>1, ExpiryAgrees
    <2>2. Due(d) <=> \E v \in mine : Near(v)
      BY DEF Due
    <2>. HIDE DEF Near
    <2>3. (\E v \in ActionableOn(d) : Near(v)) <=> \E v \in mine : Near(v)
      BY <1>1, <1>2, <2>1
    <2>. QED BY <2>2, <2>3 DEF Near
  <1>5. (\E v \in ActionableOn(d) : Expired(v, today)) <=> Late(d)
    <2>. DEFINE Gone(v) == Expired(v, today)
    <2>1. ASSUME NEW v \in row[d], NEW w \in row[d], v.id = w.id
          PROVE  Gone(v) <=> Gone(w)
      BY <2>1, ExpiryAgrees
    <2>2. Late(d) <=> \E v \in mine : Gone(v)
      BY DEF Late
    <2>. HIDE DEF Gone
    <2>3. (\E v \in ActionableOn(d) : Gone(v)) <=> \E v \in mine : Gone(v)
      BY <1>1, <1>2, <2>1
    <2>. QED BY <2>2, <2>3 DEF Gone
  <1>6. IsFiniteSet(certs)
    BY <1>2, FewCertificates, FS_Subset
  <1>7. soon # {} <=> Soon(d)
    <2>. DEFINE Near(v) == Expiring(v, today)
    <2>1. ASSUME NEW v \in row[d], NEW w \in row[d], v.id = w.id
          PROVE  Near(v) <=> Near(w)
      BY <2>1, ExpiryAgrees
    <2>2. /\ Soon(d) <=> \E v \in row[d] : ClassOf(v) = "actionable" /\ Near(v)
          /\ soon = {v \in certs : ClassOf(v) = "actionable" /\ Near(v)}
      BY DEF Soon
    <2>. HIDE DEF Near, soon, certs
    <2>. QED BY <1>2, <1>3, <2>1, <2>2
  <1>8. late # {} <=> Late(d)
    <2>. DEFINE Gone(v) == Expired(v, today)
    <2>1. ASSUME NEW v \in row[d], NEW w \in row[d], v.id = w.id
          PROVE  Gone(v) <=> Gone(w)
      BY <2>1, ExpiryAgrees
    <2>2. /\ Late(d) <=> \E v \in row[d] : ClassOf(v) = "actionable" /\ Gone(v)
          /\ late = {v \in certs : ClassOf(v) = "actionable" /\ Gone(v)}
      BY DEF Late
    <2>. HIDE DEF Gone, late, certs
    <2>. QED BY <1>2, <1>3, <2>1, <2>2
  <1>9. CertCounts(d).expiring = Cardinality(soon) /\ CertCounts(d).expired = Cardinality(late)
    <2>1. /\ {v \in {u \in certs : ClassOf(u) = "actionable"} : Expiring(v, today)} = soon
          /\ {v \in {u \in certs : ClassOf(u) = "actionable"} : Expired(v, today)} = late
      OBVIOUS
    <2>. QED BY <2>1 DEF CertCounts
  <1>10. IsFiniteSet(soon) /\ IsFiniteSet(late)
    BY <1>6, FS_Subset
  <1>. HIDE DEF soon, late
  <1>11. (Cardinality(soon) > 0 <=> soon # {}) /\ (Cardinality(late) > 0 <=> late # {})
    BY <1>10, FS_EmptySet, FS_CardinalityType
  <1>. QED BY <1>1, <1>2, <1>4, <1>5, <1>7, <1>8, <1>9, <1>11

(* The certificates a search finds are those with a view of the class and status. *)
LEMMA SearchFinds ==
  ASSUME NEW class, NEW status, NEW a
  PROVE  /\ \A x \in CertFinds(class, status, a) :
              /\ x.device \in SecurityScope(a) /\ x.view \in row[x.device]
              /\ InClass(x.view, class) /\ HasStatus(x.view, status, today)
         /\ \A d \in SecurityScope(a) : \A v \in row[d] : InClass(v, class) /\ HasStatus(v, status, today) =>
              \E x \in CertFinds(class, status, a) : x.device = d /\ x.view.id = v.id
  <1>. DEFINE Counted(d) == {x \in row[d] : InClass(x, class) /\ HasStatus(x, status, today)}
  <1>1. CertFinds(class, status, a) = UNION {{[device |-> d, view |-> v] : v \in OnePerCert(Counted(d))} : d \in SecurityScope(a)}
    BY DEF CertFinds
  <1>2. \A d : /\ OnePerCert(Counted(d)) \subseteq Counted(d)
               /\ \A v \in Counted(d) : \E w \in OnePerCert(Counted(d)) : w.id = v.id
    <2>. HIDE DEF Counted
    <2>. QED BY OneOfEach
  <1>3. \A x : x \in CertFinds(class, status, a) <=>
                 \E d \in SecurityScope(a) : \E v \in OnePerCert(Counted(d)) : x = [device |-> d, view |-> v]
    <2>. HIDE DEF Counted
    <2>. QED BY <1>1
  <1>4. ASSUME NEW x \in CertFinds(class, status, a)
        PROVE  /\ x.device \in SecurityScope(a) /\ x.view \in Counted(x.device)
    <2>. HIDE DEF Counted
    <2>. QED BY <1>2, <1>3
  <1>5. ASSUME NEW d \in SecurityScope(a), NEW v \in Counted(d)
        PROVE  \E x \in CertFinds(class, status, a) : x.device = d /\ x.view.id = v.id
    <2>. HIDE DEF Counted
    <2>1. PICK w \in OnePerCert(Counted(d)) : w.id = v.id
      BY <1>2
    <2>2. [device |-> d, view |-> w] \in CertFinds(class, status, a)
      BY <1>3
    <2>. QED BY <2>1, <2>2
  <1>. QED BY <1>4, <1>5


(* What the card counts, and what the report says of the same devices. *)
LEMMA CardCounts ==
  ASSUME Documents, topic = "certificates", NEW a \in BOOLEAN
  PROVE  LET card == CertificatesCard(SecurityScope(a), today)
             list == SecurityList(a)
         IN /\ card.expiring = {d \in SecurityScope(a) : Due(d)}
            /\ card.expired = {d \in SecurityScope(a) : Late(d)}
            /\ {d \in DOMAIN list : list[d].expiring > 0} = {d \in SecurityScope(a) : Soon(d)}
            /\ {d \in DOMAIN list : list[d].expired > 0} = {d \in SecurityScope(a) : Late(d)}
  <1>. DEFINE card == CertificatesCard(SecurityScope(a), today)
              list == SecurityList(a)
              Dueish(d) == \E v \in ActionableOn(d) : CardExpiring(v, today)
              Lateish(d) == \E v \in ActionableOn(d) : Expired(v, today)
  <1>1. /\ DOMAIN list = SecurityScope(a)
        /\ \A d \in SecurityScope(a) : list[d] = CertCounts(d)
    BY DEF SecurityList
  <1>2. \A d \in SecurityScope(a) : /\ Dueish(d) <=> Due(d)
                                    /\ Lateish(d) <=> Late(d)
                                    /\ CertCounts(d).expiring > 0 <=> Soon(d)
                                    /\ CertCounts(d).expired > 0 <=> Late(d)
    BY FoldedAlike DEF SecurityScope
  <1>3. /\ card.expiring = {d \in SecurityScope(a) : Dueish(d)}
        /\ card.expired = {d \in SecurityScope(a) : Lateish(d)}
    BY DEF CertificatesCard
  <1>. HIDE DEF card, list, Dueish, Lateish
  <1>4. card.expiring = {d \in SecurityScope(a) : Due(d)}
    BY <1>2, <1>3
  <1>5. card.expired = {d \in SecurityScope(a) : Late(d)}
    BY <1>2, <1>3
  <1>6. {d \in DOMAIN list : list[d].expiring > 0} = {d \in SecurityScope(a) : Soon(d)}
    BY <1>1, <1>2
  <1>7. {d \in DOMAIN list : list[d].expired > 0} = {d \in SecurityScope(a) : Late(d)}
    BY <1>1, <1>2
  <1>. QED BY <1>4, <1>5, <1>6, <1>7 DEF card, list

LEMMA CardReported ==
  ASSUME Documents, topic = "certificates", NEW a \in BOOLEAN
  PROVE  CardIsReported(a)
  <1>. DEFINE card == CertificatesCard(SecurityScope(a), today)
              list == SecurityList(a)
              expiring == {d \in DOMAIN list : list[d].expiring > 0}
  <1>1. /\ card.expiring = {d \in SecurityScope(a) : Due(d)}
        /\ expiring = {d \in SecurityScope(a) : Soon(d)}
        /\ card.expired = {d \in DOMAIN list : list[d].expired > 0}
    BY CardCounts
  <1>2. \A d : Due(d) => Soon(d)
    BY DEF Due, Soon, CardExpiring
  <1>3. ASSUME NEW d, ~Due(d), NEW v \in row[d], ClassOf(v) = "actionable", Expiring(v, today)
        PROVE  ~v.live /\ v.left \notin 0..(2 * CertWindow)
    <2>1. TimeLeft(v, today) \notin 0..(2 * CertWindow)
      BY <1>3 DEF Due, CardExpiring
    <2>2. v.live => Left(v, today) \in 0..(2 * CertWindow)
      BY <1>3 DEF Expiring
    <2>. QED BY <2>1, <2>2 DEF TimeLeft
  <1>. HIDE DEF card, expiring
  <1>4. card.expiring \subseteq expiring
    BY <1>1, <1>2
  <1>5. \A d \in expiring \ card.expiring : \A v \in row[d] :
          ClassOf(v) = "actionable" /\ Expiring(v, today) => ~v.live /\ v.left \notin 0..(2 * CertWindow)
    BY <1>1, <1>3
  <1>. QED BY <1>1, <1>4, <1>5 DEF CardIsReported, card, expiring

(* What a search for what has expired finds, and what one for what expires soon. *)
LEMMA ExpiredAreFound ==
  ASSUME NEW a
  PROVE  {x.device : x \in CertFinds("actionable", "expired", a)} = {d \in SecurityScope(a) : Late(d)}
  <1>1. \A v : InClass(v, "actionable") <=> ClassOf(v) = "actionable"
    BY DEF InClass
  <1>2. \A v : HasStatus(v, "expired", today) <=> Expired(v, today)
    BY DEF HasStatus
  <1>3. ASSUME NEW x \in CertFinds("actionable", "expired", a)
        PROVE  x.device \in SecurityScope(a) /\ Late(x.device)
    <2>1. /\ x.device \in SecurityScope(a) /\ x.view \in row[x.device]
          /\ InClass(x.view, "actionable") /\ HasStatus(x.view, "expired", today)
      BY SearchFinds
    <2>. QED BY <1>1, <1>2, <2>1 DEF Late
  <1>4. ASSUME NEW d \in SecurityScope(a), Late(d)
        PROVE  \E x \in CertFinds("actionable", "expired", a) : x.device = d
    <2>1. PICK v \in row[d] : ClassOf(v) = "actionable" /\ Expired(v, today)
      BY <1>4 DEF Late
    <2>2. InClass(v, "actionable") /\ HasStatus(v, "expired", today)
      BY <1>1, <1>2, <2>1
    <2>. QED BY <2>2, SearchFinds
  <1>. QED BY <1>3, <1>4

LEMMA ExpiringAreFound ==
  ASSUME Documents, topic = "certificates", NEW a \in BOOLEAN
  PROVE  LET found == CertFinds("actionable", "expiring", a)
         IN /\ {<<x.device, x.view.id>> : x \in {y \in found : CardExpiring(y.view, today)}} =
                 CertificatesCard(SecurityScope(a), today).certificates
            /\ \A x \in found : ~Expiring(x.view, today) => Left(x.view, today) = 2 * CertWindow + 1
  <1>. DEFINE found == CertFinds("actionable", "expiring", a)
              counted == CertificatesCard(SecurityScope(a), today).certificates
  <1>1. \A v : InClass(v, "actionable") <=> ClassOf(v) = "actionable"
    BY DEF InClass
  <1>2. \A v : HasStatus(v, "expiring", today) <=> SearchExpiring(v, today)
    BY DEF HasStatus
  <1>3. today \in Nat /\ CertWindow \in Nat
    BY CertWindowAssumption DEF Documents
  <1>4. ASSUME NEW v, v.notAfter \in Int
        PROVE  /\ Expiring(v, today) => SearchExpiring(v, today)
               /\ SearchExpiring(v, today) /\ ~Expiring(v, today) => Left(v, today) = 2 * CertWindow + 1
    BY <1>3, <1>4 DEF Expiring, SearchExpiring, Left
  <1>5. \A d \in SecurityScope(a) : d \in Registered
    BY DEF SecurityScope
  <1>6. \A x \in found : /\ x.device \in SecurityScope(a) /\ x.view \in row[x.device]
                         /\ ClassOf(x.view) = "actionable" /\ SearchExpiring(x.view, today)
    BY <1>1, <1>2, SearchFinds
  <1>7. \A d \in SecurityScope(a) : \A v \in row[d] : ClassOf(v) = "actionable" /\ SearchExpiring(v, today) =>
          \E x \in found : x.device = d /\ x.view.id = v.id
    BY <1>1, <1>2, SearchFinds
  <1>8. \A k : k \in counted <=> \E d \in SecurityScope(a) : \E v \in ActionableOn(d) : CardExpiring(v, today) /\ k = <<d, v.id>>
    BY DEF CertificatesCard
  <1>9. ASSUME NEW x \in found, CardExpiring(x.view, today)
        PROVE  <<x.device, x.view.id>> \in counted
    <2>1. x.device \in Registered /\ x.view \in row[x.device] /\ ClassOf(x.view) = "actionable"
      BY <1>5, <1>6
    <2>2. PICK w \in ActionableOn(x.device) : w.id = x.view.id /\ w \in row[x.device]
      BY <2>1, FoldedAlike
    <2>3. CardExpiring(w, today)
      BY <1>9, <2>1, <2>2, ExpiryAgrees
    <2>. QED BY <1>6, <1>8, <2>2, <2>3
  <1>10. ASSUME NEW k \in counted
         PROVE  \E x \in found : CardExpiring(x.view, today) /\ k = <<x.device, x.view.id>>
    <2>1. PICK d \in SecurityScope(a) : \E v \in ActionableOn(d) : CardExpiring(v, today) /\ k = <<d, v.id>>
      BY <1>8
    <2>2. PICK v \in ActionableOn(d) : CardExpiring(v, today) /\ k = <<d, v.id>>
      BY <2>1
    <2>3. d \in Registered /\ v \in row[d] /\ ClassOf(v) = "actionable"
      BY <1>5, FoldedAlike
    <2>4. v.notAfter \in Int
      BY <2>3, ViewsAgree
    <2>5. PICK x \in found : x.device = d /\ x.view.id = v.id
      BY <1>4, <1>7, <2>2, <2>3, <2>4 DEF CardExpiring
    <2>6. x.view \in row[d]
      BY <1>6, <2>5
    <2>7. CardExpiring(x.view, today)
      BY <2>2, <2>3, <2>5, <2>6, ExpiryAgrees
    <2>. QED BY <2>2, <2>5, <2>7
  <1>11. ASSUME NEW x \in found, ~Expiring(x.view, today)
         PROVE  Left(x.view, today) = 2 * CertWindow + 1
    <2>1. x.view.notAfter \in Int /\ SearchExpiring(x.view, today)
      BY <1>5, <1>6, ViewsAgree
    <2>. QED BY <1>4, <1>11, <2>1
  <1>12. {<<x.device, x.view.id>> : x \in {y \in found : CardExpiring(y.view, today)}} = counted
    <2>. HIDE DEF found, counted
    <2>. QED BY <1>9, <1>10
  <1>. QED BY <1>11, <1>12

(* The answer of a search: the first of what it finds, and all of it when it is not cut. *)
LEMMA FindsAreFew ==
  ASSUME Documents, topic = "certificates", NEW a, NEW class, NEW status
  PROVE  IsFiniteSet(CertFinds(class, status, a))
  <1>. DEFINE Counted(d) == {x \in row[d] : InClass(x, class) /\ HasStatus(x, status, today)}
              line == [d \in SecurityScope(a) |-> [v \in row[d] |-> [device |-> d, view |-> v]]]
              found == [d \in SecurityScope(a) |-> {line[d][v] : v \in row[d]}]
  <1>1. IsFiniteSet(SecurityScope(a))
    BY FinitelyMany, FS_Subset DEF SecurityScope, Registered
  <1>2. ASSUME NEW d \in SecurityScope(a) PROVE IsFiniteSet(found[d])
    <2>1. IsFiniteSet(row[d])
      BY FewCertificates DEF SecurityScope
    <2>2. found[d] = {line[d][v] : v \in row[d]}
      OBVIOUS
    <2>. HIDE DEF line, found
    <2>. QED BY <2>1, <2>2, FiniteImage
  <1>3. \A d \in SecurityScope(a) : found[d] = {[device |-> d, view |-> v] : v \in row[d]}
    OBVIOUS
  <1>. DEFINE all == UNION {found[d] : d \in SecurityScope(a)}
  <1>4. IsFiniteSet(all)
    <2>. HIDE DEF found
    <2>. QED BY <1>1, <1>2, FiniteUnion
  <1>5. \A d \in SecurityScope(a) : \A v \in row[d] : [device |-> d, view |-> v] \in all
    OBVIOUS
  <1>6. ASSUME NEW x \in CertFinds(class, status, a) PROVE x \in all
    <2>1. CertFinds(class, status, a) = UNION {{[device |-> d, view |-> v] : v \in OnePerCert(Counted(d))} : d \in SecurityScope(a)}
      BY DEF CertFinds
    <2>. HIDE DEF Counted, all
    <2>2. PICK d \in SecurityScope(a) : x \in {[device |-> d, view |-> v] : v \in OnePerCert(Counted(d))}
      BY <2>1
    <2>3. PICK v \in OnePerCert(Counted(d)) : x = [device |-> d, view |-> v]
      BY <2>2
    <2>4. v \in row[d]
      BY <2>3, OneOfEach DEF Counted
    <2>. QED BY <1>5, <2>3, <2>4
  <1>. HIDE DEF all
  <1>. QED BY <1>4, <1>6, FS_Subset

LEMMA SearchLeads ==
  ASSUME Documents, topic = "certificates", NEW a, NEW class, NEW status, NEW limit \in CertLimits
  PROVE  /\ CertSearch(class, status, a, limit) \subseteq CertFinds(class, status, a)
         /\ Cardinality(CertSearch(class, status, a, limit)) < limit =>
              CertSearch(class, status, a, limit) = CertFinds(class, status, a)
  <1>. DEFINE S == CertFinds(class, status, a)
              before == [x \in S |-> {y \in S : Precedes(y, x)}]
              F == {x \in S : Cardinality(before[x]) < limit}
  <1>1. IsFiniteSet(S) /\ limit \in Nat
    BY FindsAreFew, SearchAssumption
  <1>2. CertSearch(class, status, a, limit) = F
    BY DEF CertSearch, Leading
  <1>3. \A x \in S : x.device \in Devices /\ x.view.id \in Int
    <2>1. \A x \in S : x.device \in SecurityScope(a) /\ x.view \in row[x.device]
      BY SearchFinds
    <2>. HIDE DEF S
    <2>. QED BY <2>1, ViewsAgree DEF SecurityScope, Registered
  <1>4. \A d \in Devices : Place(d) \in Nat
    <2>. TAKE d \in Devices
    <2>1. \E i \in DOMAIN SerialOrder : SerialOrder[i] = d
      BY SystemAssumption DEF ToSet
    <2>2. DOMAIN SerialOrder \subseteq Nat
      BY SystemAssumption
    <2>. QED BY <2>1, <2>2 DEF Place
  <1>5. \A x, y, z \in S : ~Precedes(x, x) /\ (Precedes(x, y) /\ Precedes(y, z) => Precedes(x, z))
    <2>. DEFINE at == [d \in Devices |-> Place(d)]
    <2>1. \A d \in Devices : at[d] = Place(d) /\ at[d] \in Nat
      BY <1>4
    <2>. HIDE DEF S, at
    <2>2. \A x, y \in S : Precedes(x, y) <=> \/ at[x.device] < at[y.device]
                                             \/ x.device = y.device /\ x.view.id < y.view.id
      BY <1>3, <2>1 DEF Precedes
    <2>. QED BY <1>3, <2>1, <2>2
  <1>6. /\ \A x \in S : before[x] \subseteq S /\ x \notin before[x]
        /\ \A x \in S : \A y \in before[x] : before[y] \subseteq before[x]
    <2>. HIDE DEF S
    <2>. QED BY <1>5
  <1>. HIDE DEF S, before
  <1>7. F \subseteq S /\ (Cardinality(F) < limit => F = S)
    <2>. DEFINE G == F
    <2>1. G = {x \in S : Cardinality(before[x]) < limit}
      OBVIOUS
    <2>. HIDE DEF G
    <2>2. Led(S, limit, before, G)
      BY <1>1, <1>6, <2>1, LeadingIs
    <2>. QED BY <2>2 DEF Led, G
  <1>. QED BY <1>2, <1>7 DEF S

LEMMA CardFound ==
  ASSUME Documents, topic = "certificates", NEW a \in BOOLEAN, NEW limit \in CertLimits
  PROVE  CardIsFound(a, limit)
  <1>. DEFINE card == CertificatesCard(SecurityScope(a), today)
              late == CertFinds("actionable", "expired", a)
              near == CertFinds("actionable", "expiring", a)
              expired == CertSearch("actionable", "expired", a, limit)
              expiring == CertSearch("actionable", "expiring", a, limit)
              Keys(found) == {<<x.device, x.view.id>> : x \in {y \in found : CardExpiring(y.view, today)}}
  <1>1. card.expired = {x.device : x \in late}
    BY CardCounts, ExpiredAreFound
  <1>2. Keys(near) = card.certificates /\ \A x \in near : ~Expiring(x.view, today) => Left(x.view, today) = 2 * CertWindow + 1
    BY ExpiringAreFound
  <1>3. expired \subseteq late /\ (Cardinality(expired) < limit => expired = late)
    BY SearchLeads
  <1>4. expiring \subseteq near /\ (Cardinality(expiring) < limit => expiring = near)
    BY SearchLeads
  <1>5. Keys(expiring) \subseteq Keys(near)
    <2>. HIDE DEF near, expiring
    <2>. QED BY <1>4
  <1>6. {x.device : x \in expired} \subseteq {x.device : x \in late}
    <2>. HIDE DEF late, expired
    <2>. QED BY <1>3
  <1>7. Cardinality(expired) < limit => card.expired \subseteq {x.device : x \in expired}
    <2>. HIDE DEF late, expired, card
    <2>. QED BY <1>1, <1>3
  <1>8. Cardinality(expiring) < limit => card.certificates \subseteq Keys(expiring)
    <2>. HIDE DEF near, expiring, card
    <2>. QED BY <1>2, <1>4
  <1>9. {x.device : x \in expired} \subseteq card.expired /\ Keys(expiring) \subseteq card.certificates
    <2>. HIDE DEF late, near, expired, expiring, card
    <2>. QED BY <1>1, <1>2, <1>5, <1>6
  <1>10. \A x \in expiring : ~Expiring(x.view, today) => Left(x.view, today) = 2 * CertWindow + 1
    <2>. HIDE DEF near, expiring
    <2>. QED BY <1>2, <1>4
  <1>. QED BY <1>7, <1>8, <1>9, <1>10 DEF CardIsFound

(* What a search finds, by device and certificate. *)
Searched(class, status, a) == {<<x.device, x.view.id>> : x \in CertFinds(class, status, a)}
Hits(v, class, status) == InClass(v, class) /\ HasStatus(v, status, today)

LEMMA SearchKeys ==
  ASSUME NEW a, NEW class, NEW status, NEW k
  PROVE  k \in Searched(class, status, a) <=>
           \E d \in SecurityScope(a) : \E v \in row[d] : Hits(v, class, status) /\ k = <<d, v.id>>
  <1>1. ASSUME k \in Searched(class, status, a)
        PROVE  \E d \in SecurityScope(a) : \E v \in row[d] : Hits(v, class, status) /\ k = <<d, v.id>>
    <2>1. PICK x \in CertFinds(class, status, a) : k = <<x.device, x.view.id>>
      BY <1>1 DEF Searched
    <2>2. /\ x.device \in SecurityScope(a) /\ x.view \in row[x.device]
          /\ InClass(x.view, class) /\ HasStatus(x.view, status, today)
      BY SearchFinds
    <2>. QED BY <2>1, <2>2 DEF Hits
  <1>2. ASSUME NEW d \in SecurityScope(a), NEW v \in row[d], Hits(v, class, status), k = <<d, v.id>>
        PROVE  k \in Searched(class, status, a)
    <2>1. PICK x \in CertFinds(class, status, a) : x.device = d /\ x.view.id = v.id
      BY <1>2, SearchFinds DEF Hits
    <2>. QED BY <1>2, <2>1 DEF Searched
  <1>. QED BY <1>1, <1>2

(* Every class and every status finds its certificates, and together they find all. *)
LEMMA SearchesAddUp ==
  ASSUME Documents, topic = "certificates", NEW a \in BOOLEAN
  PROVE  /\ Searched("all", "all", a) = UNION {Searched(class, "all", a) : class \in Classes}
         /\ Searched("hidden", "all", a) = UNION {Searched(class, "all", a) : class \in Classes \ {"actionable"}}
         /\ Searched("all", "all", a) = UNION {Searched("all", status, a) : status \in {"expired", "expiring", "valid"}}
  <1>1. \A d \in SecurityScope(a) : \A v \in row[d] : ClassOf(v) \in Classes
    BY ViewsAgree DEF SecurityScope
  <1>2. \A v : /\ Hits(v, "all", "all")
               /\ Hits(v, "hidden", "all") <=> ClassOf(v) # "actionable"
    BY DEF Hits, InClass, HasStatus
  <1>3. \A v : \A class \in Classes : Hits(v, class, "all") <=> ClassOf(v) = class
    BY DEF Hits, InClass, HasStatus, Classes
  <1>4. \A v : \/ Hits(v, "all", "expired") \/ Hits(v, "all", "expiring") \/ Hits(v, "all", "valid")
    BY DEF Hits, InClass, HasStatus
  <1>5. \A c, s, k : k \in Searched(c, s, a) <=> \E d \in SecurityScope(a) : \E v \in row[d] : Hits(v, c, s) /\ k = <<d, v.id>>
    BY SearchKeys
  <1>6. ASSUME NEW k
        PROVE  k \in Searched("all", "all", a) <=> \E class \in Classes : k \in Searched(class, "all", a)
    BY <1>1, <1>2, <1>3, <1>5
  <1>7. ASSUME NEW k
        PROVE  k \in Searched("hidden", "all", a) <=> \E class \in Classes \ {"actionable"} : k \in Searched(class, "all", a)
    BY <1>1, <1>2, <1>3, <1>5
  <1>8. ASSUME NEW k
        PROVE  k \in Searched("all", "all", a) <=> \E status \in {"expired", "expiring", "valid"} : k \in Searched("all", status, a)
    BY <1>2, <1>4, <1>5
  <1>9. Searched("all", "all", a) = UNION {Searched(class, "all", a) : class \in Classes}
    BY <1>6
  <1>10. Searched("hidden", "all", a) = UNION {Searched(class, "all", a) : class \in Classes \ {"actionable"}}
    BY <1>7
  <1>11. Searched("all", "all", a) = UNION {Searched("all", status, a) : status \in {"expired", "expiring", "valid"}}
    BY <1>8
  <1>. QED BY <1>9, <1>10, <1>11

LEMMA NoneLeftOut ==
  ASSUME Documents, topic = "certificates", NEW a \in BOOLEAN, NEW limit \in CertLimits
  PROVE  NoneIsLeftOut(a, limit)
  <1>. DEFINE Found(class, status) == CertSearch(class, status, a, limit)
              Certs(class, status) == {<<x.device, x.view.id>> : x \in Found(class, status)}
              statuses == {"expired", "expiring", "valid"}
              asked1 == Classes \cup {"all", "hidden"}
  <1>. SUFFICES ASSUME \A class \in asked1, status \in statuses \cup {"all"} : Cardinality(Found(class, status)) < limit
                PROVE  /\ Certs("all", "all") = UNION {Certs(class, "all") : class \in Classes}
                       /\ Certs("hidden", "all") = UNION {Certs(class, "all") : class \in Classes \ {"actionable"}}
                       /\ Certs("all", "all") = UNION {Certs("all", status) : status \in statuses}
    BY DEF NoneIsLeftOut
  <1>1. ASSUME NEW class \in asked1, NEW status \in statuses \cup {"all"}
        PROVE  Certs(class, status) = Searched(class, status, a)
    <2>1. Found(class, status) = CertFinds(class, status, a)
      BY SearchLeads
    <2>. QED BY <2>1 DEF Searched
  <1>2. /\ Searched("all", "all", a) = UNION {Searched(class, "all", a) : class \in Classes}
        /\ Searched("hidden", "all", a) = UNION {Searched(class, "all", a) : class \in Classes \ {"actionable"}}
        /\ Searched("all", "all", a) = UNION {Searched("all", status, a) : status \in statuses}
    BY SearchesAddUp
  <1>. HIDE DEF Certs, Found
  <1>3. UNION {Certs(class, "all") : class \in Classes} = UNION {Searched(class, "all", a) : class \in Classes}
    BY <1>1
  <1>4. UNION {Certs(class, "all") : class \in Classes \ {"actionable"}} = UNION {Searched(class, "all", a) : class \in Classes \ {"actionable"}}
    BY <1>1
  <1>5. UNION {Certs("all", status) : status \in statuses} = UNION {Searched("all", status, a) : status \in statuses}
    BY <1>1
  <1>. QED BY <1>1, <1>2, <1>3, <1>4, <1>5

(* The names on the card are the devices' that have one that expires, first those due first. *)
LEMMA ListableAre ==
  ASSUME Documents, topic = "certificates", NEW E, E \subseteq Registered
  PROVE  /\ IsFiniteSet(Listable(E, today))
         /\ \A e \in Listable(E, today) : /\ e.device \in E /\ e.view \in row[e.device] /\ InList(e.view, today)
                                         /\ e.view.name \in Int /\ TimeLeft(e.view, today) \in Nat
         /\ \A d \in E : \A v \in row[d] : InList(v, today) => [device |-> d, view |-> v] \in Listable(E, today)
  <1>. DEFINE line == [d \in E |-> [v \in row[d] |-> [device |-> d, view |-> v]]]
              mine == [d \in E |-> {line[d][v] : v \in {x \in row[d] : InList(x, today)}}]
              all == UNION {mine[d] : d \in E}
  <1>1. IsFiniteSet(E)
    BY FinitelyMany, FS_Subset DEF Registered
  <1>2. ASSUME NEW d \in E PROVE IsFiniteSet(mine[d])
    <2>. DEFINE kept == {x \in row[d] : InList(x, today)}
    <2>1. IsFiniteSet(row[d])
      BY FewCertificates
    <2>2. IsFiniteSet(kept)
      BY <2>1, FS_Subset
    <2>3. mine[d] = {line[d][v] : v \in kept}
      OBVIOUS
    <2>. HIDE DEF kept, line, mine
    <2>. QED BY <2>2, <2>3, FiniteImage
  <1>3. IsFiniteSet(all)
    <2>. HIDE DEF mine
    <2>. QED BY <1>1, <1>2, FiniteUnion
  <1>4. Listable(E, today) = UNION {{[device |-> d, view |-> v] : v \in {x \in row[d] : InList(x, today)}} : d \in E}
    BY DEF Listable
  <1>5. ASSUME NEW x
        PROVE  x \in Listable(E, today) <=> \E d \in E : \E v \in row[d] : InList(v, today) /\ x = [device |-> d, view |-> v]
    BY <1>4
  <1>6. Listable(E, today) \subseteq all
    <2>1. \A d \in E : \A v \in row[d] : InList(v, today) => [device |-> d, view |-> v] \in all
      OBVIOUS
    <2>. HIDE DEF all
    <2>. QED BY <1>5, <2>1
  <1>7. \A v : InList(v, today) => TimeLeft(v, today) \in 0..(2 * CertWindow)
    BY DEF InList, CardExpiring
  <1>8. \A n \in 0..(2 * CertWindow) : n \in Nat
    BY CertWindowAssumption
  <1>9. \A d \in E : \A v \in row[d] : v.name \in Int
    BY ViewsAgree
  <1>10. IsFiniteSet(Listable(E, today))
    <2>. HIDE DEF all
    <2>. QED BY <1>3, <1>6, FS_Subset
  <1>. QED BY <1>5, <1>7, <1>8, <1>9, <1>10

ListedUnder(E, n) == {e \in Listable(E, today) : e.view.name = n}
LeastLeft(E, n) == Min({TimeLeft(e.view, today) : e \in ListedUnder(E, n)})
NamesIn(E) == {e.view.name : e \in Listable(E, today)}
LineFor(E, n) == [name |-> n, days |-> LeastLeft(E, n), devices |-> {e.device : e \in ListedUnder(E, n)}]

(* The least time left behind a name. *)
LEMMA LeastTimeLeft ==
  ASSUME Documents, topic = "certificates", NEW E, E \subseteq Registered, NEW e \in Listable(E, today)
  PROVE  LeastLeft(E, e.view.name) \in Nat /\ LeastLeft(E, e.view.name) <= TimeLeft(e.view, today)
  <1>. DEFINE left == {TimeLeft(x.view, today) : x \in ListedUnder(E, e.view.name)}
  <1>1. left \subseteq Nat /\ TimeLeft(e.view, today) \in left
    <2>1. \A x \in ListedUnder(E, e.view.name) : TimeLeft(x.view, today) \in Nat
      BY ListableAre DEF ListedUnder
    <2>2. e \in ListedUnder(E, e.view.name)
      BY DEF ListedUnder
    <2>. QED BY <2>1, <2>2
  <1>. HIDE DEF left
  <1>2. \E x \in left : \A y \in left : x <= y
    BY <1>1, LeastNatural
  <1>3. Min(left) \in left /\ \A y \in left : Min(left) <= y
    BY <1>2 DEF Min
  <1>. QED BY <1>1, <1>3 DEF LeastLeft, left

LEMMA SoonestLead ==
  ASSUME Documents, topic = "certificates", NEW E, E \subseteq Registered
  PROVE  \E F : /\ F \subseteq NamesIn(E) /\ IsFiniteSet(F)
                /\ Soonest(E, today, TopN) = {LineFor(E, n) : n \in F}
                /\ \A n \in F : \A m \in NamesIn(E) \ F : LeastLeft(E, n) <= LeastLeft(E, m)
                /\ Cardinality(F) < TopN => F = NamesIn(E)
  <1>. DEFINE S == NamesIn(E)
              due == [n \in S |-> LeastLeft(E, n)]
              Sooner(m, n) == LeastLeft(E, m) < LeastLeft(E, n) \/ (LeastLeft(E, m) = LeastLeft(E, n) /\ m < n)
              before == [n \in S |-> {m \in S : Sooner(m, n)}]
              F == {n \in S : Cardinality(before[n]) < TopN}
  <1>1. \A n \in S : n \in Int /\ due[n] = LeastLeft(E, n) /\ due[n] \in Nat
    BY ListableAre, LeastTimeLeft DEF NamesIn
  <1>2. IsFiniteSet(S)
    <2>. DEFINE name == [e \in Listable(E, today) |-> e.view.name]
    <2>1. S = {name[e] : e \in Listable(E, today)}
      BY DEF NamesIn
    <2>2. IsFiniteSet(Listable(E, today))
      BY ListableAre
    <2>. HIDE DEF S, name
    <2>. QED BY <2>1, <2>2, FiniteImage
  <1>3. Soonest(E, today, TopN) = {LineFor(E, n) : n \in F}
    BY DEF Soonest, Leading, LineFor, LeastLeft, ListedUnder, NamesIn
  <1>4. \A m, n \in S : Sooner(m, n) <=> due[m] < due[n] \/ (due[m] = due[n] /\ m < n)
    BY <1>1
  <1>. HIDE DEF S, due, Sooner
  <1>5. \A x, y, z \in S : ~Sooner(x, x) /\ (Sooner(x, y) /\ Sooner(y, z) => Sooner(x, z))
    BY <1>1, <1>4
  <1>6. /\ \A x \in S : before[x] \subseteq S /\ x \notin before[x]
        /\ \A x \in S : \A y \in before[x] : before[y] \subseteq before[x]
    BY <1>5
  <1>7. TopN \in Nat
    BY SplitAssumption
  <1>8. F \subseteq S /\ IsFiniteSet(F) /\ (\A n \in F : before[n] \subseteq F) /\ (Cardinality(F) < TopN => F = S)
    <2>. DEFINE G == F
    <2>1. G = {n \in S : Cardinality(before[n]) < TopN}
      OBVIOUS
    <2>. HIDE DEF G, before
    <2>2. Led(S, TopN, before, G)
      BY <1>2, <1>6, <1>7, <2>1, LeadingIs
    <2>. QED BY <2>2 DEF Led, G
  <1>9. ASSUME NEW n \in F, NEW m \in S \ F PROVE due[n] <= due[m]
    <2>1. ~Sooner(m, n)
      BY <1>8, <1>9
    <2>. QED BY <1>1, <1>4, <2>1
  <1>10. \A n \in F : \A m \in S \ F : LeastLeft(E, n) <= LeastLeft(E, m)
    <2>. HIDE DEF F
    <2>. QED BY <1>1, <1>8, <1>9
  <1>. HIDE DEF F
  <1>. QED BY <1>3, <1>8, <1>10 DEF S

LEMMA SoonestDue ==
  ASSUME Documents, topic = "certificates", NEW a \in BOOLEAN
  PROVE  SoonestAreDue(a)
  <1>. DEFINE E == SecurityScope(a)
              card == CertificatesCard(E, today)
              soonest == Soonest(E, today, TopN)
              shown == UNION {n.devices : n \in soonest}
  <1>1. E \subseteq Registered
    BY DEF SecurityScope
  <1>2. card.expiring = {d \in E : Due(d)}
    BY CardCounts
  <1>. HIDE DEF E, card
  <1>3. PICK F : /\ F \subseteq NamesIn(E) /\ IsFiniteSet(F)
                 /\ soonest = {LineFor(E, n) : n \in F}
                 /\ \A n \in F : \A m \in NamesIn(E) \ F : LeastLeft(E, n) <= LeastLeft(E, m)
                 /\ Cardinality(F) < TopN => F = NamesIn(E)
    BY <1>1, SoonestLead
  <1>. HIDE DEF soonest
  <1>4. /\ \A n : LineFor(E, n).name = n /\ LineFor(E, n).days = LeastLeft(E, n)
        /\ \A n, d : d \in LineFor(E, n).devices <=> \E e \in Listable(E, today) : e.view.name = n /\ e.device = d
    BY DEF LineFor, ListedUnder
  <1>5. \A e \in Listable(E, today) : e.view.name \in NamesIn(E) /\ e.device \in E /\ Due(e.device)
    BY <1>1, ListableAre DEF NamesIn, InList, Due
  <1>6. shown \subseteq card.expiring
    <2>1. \A d \in shown : \E n \in F : d \in LineFor(E, n).devices
      BY <1>3
    <2>. HIDE DEF shown
    <2>. QED BY <1>2, <1>4, <1>5, <2>1
  <1>7. {m.name : m \in soonest} = F
    BY <1>3, <1>4
  <1>8. ASSUME NEW e \in Listable(E, today), NEW n \in soonest, e.view.name \notin {m.name : m \in soonest}
        PROVE  n.days <= TimeLeft(e.view, today)
    <2>1. PICK x \in F : n = LineFor(E, x)
      BY <1>3
    <2>2. LeastLeft(E, x) <= LeastLeft(E, e.view.name)
      BY <1>3, <1>5, <1>7, <1>8
    <2>3. \E f \in Listable(E, today) : f.view.name = x
      BY <1>3 DEF NamesIn
    <2>4. LeastLeft(E, x) \in Nat
      BY <1>1, <2>3, LeastTimeLeft
    <2>5. LeastLeft(E, e.view.name) \in Nat /\ LeastLeft(E, e.view.name) <= TimeLeft(e.view, today) /\ TimeLeft(e.view, today) \in Nat
      BY <1>1, LeastTimeLeft, ListableAre
    <2>. QED BY <1>4, <2>1, <2>2, <2>4, <2>5
  <1>9. Cardinality(soonest) = Cardinality(F)
    <2>. DEFINE f == [n \in F |-> LineFor(E, n)]
    <2>1. f \in Bijection(F, soonest)
      <3>1. \A n, m \in F : f[n] = f[m] => n = m
        BY <1>4
      <3>. QED BY <1>3, <3>1 DEF Bijection, Injection, Surjection, IsInjective
    <2>2. ExistsBijection(F, soonest)
      BY <2>1 DEF ExistsBijection
    <2>. QED BY <1>3, <2>2, FS_Bijection
  <1>10. ASSUME Cardinality(soonest) < TopN, NEW d \in card.expiring \ shown, NEW v \in row[d],
                ClassOf(v) = "actionable", CardExpiring(v, today), v.name # Unnamed
         PROVE  FALSE
    <2>1. F = NamesIn(E)
      BY <1>3, <1>9, <1>10
    <2>. DEFINE e == [device |-> d, view |-> v]
    <2>2. e \in Listable(E, today)
      <3>1. InList(v, today) /\ d \in E
        BY <1>2, <1>10 DEF InList
      <3>. QED BY <1>1, <3>1, ListableAre
    <2>3. v.name \in F
      BY <1>5, <2>1, <2>2
    <2>4. d \in LineFor(E, v.name).devices
      BY <1>4, <2>2
    <2>5. LineFor(E, v.name) \in soonest
      BY <1>3, <2>3
    <2>. QED BY <1>10, <2>4, <2>5
  <1>. QED BY <1>6, <1>8, <1>10 DEF SoonestAreDue, E, card, soonest

LEMMA CertificatesListed == Documents => CertificatesAreListed
  BY CardReported, SoonestDue, CardFound, NoneLeftOut DEF CertificatesAreListed

(* A card counts the devices its link opens: an agent the Installs cards call silent is    *)
(* in the list of stale agents, a failing item in the list of installs, the updates owed   *)
(* and the certificates that expire on the devices the reports and the search name.        *)
THEOREM CardsAreListed == Spec => []CardsCountTheirReports
  <1>1. Documents => CardsCountTheirReports
    BY SilentOnesAreStale, FailingOnesAreListed, DebtsAreListed, CertificatesListed DEF CardsCountTheirReports
  <1>. QED BY <1>1, DocumentsKept, PTL

-----------------------------------------------------------------------------
(***************************************************************************)
(* What the pickers offer and what picking it shows.                       *)
(***************************************************************************)
Trusted(d, q) == Readable(d) /\ Freshness(row[d].collected, today, q.maxAge) = "fresh"
KeyOn(d, u) == UpdateKey(UpdatePlatform(d), u)
Wished(q, d, u) == Selects(q) => Picks(q, d, u)
LineOf(d, u, reported, state) == [device |-> d, update |-> u, reported |-> reported, state |-> state]
PendingRow(r, d, q) ==
  \E u \in PendingOn(d) : Wished(q, d, u) /\ Passes(q, u) /\ r = LineOf(d, u, "pending", IF Trusted(d, q) THEN "pending" ELSE "unknown")
Returned(d, q, u) ==
  /\ Selects(q) /\ Picks(q, d, u)
  /\ \A v \in PendingOn(d) : Wished(q, d, v) => KeyOn(d, v) # KeyOn(d, u)
InstalledRow(r, d, q) ==
  \E u \in InstalledOn(d) : Returned(d, q, u) /\ Passes(q, u) /\ r = LineOf(d, u, "installed", "installed")
Silence(d, q) == IF Selects(q) THEN NotReported(d, Trusted(d, q), q.maxAge) ELSE EmptyState(d, Trusted(d, q), q.maxAge, "none")
Quiet(d, q) == (\A u \in PendingOn(d) : ~Wished(q, d, u)) /\ (\A u \in InstalledOn(d) : ~Returned(d, q, u))
QuietRow(r, d, q) == Quiet(d, q) /\ ~Filters(q) /\ r = LineOf(d, NoName, Silence(d, q).reported, Silence(d, q).state)

(* A row of a device is of what is pending, of what is installed and picked, or of nothing. *)
LEMMA RowsAre ==
  ASSUME NEW d, NEW q, NEW r
  PROVE  r \in RowsOn(d, q) <=> PendingRow(r, d, q) \/ InstalledRow(r, d, q) \/ QuietRow(r, d, q)
  <1>. DEFINE pending == {u \in PendingOn(d) : Selects(q) => Picks(q, d, u)}
              keys == {UpdateKey(UpdatePlatform(d), u) : u \in pending}
              installed == {u \in InstalledOn(d) : Selects(q) /\ Picks(q, d, u) /\ UpdateKey(UpdatePlatform(d), u) \notin keys}
              Waiting(u) == LineOf(d, u, "pending", IF Trusted(d, q) THEN "pending" ELSE "unknown")
              Had(u) == LineOf(d, u, "installed", "installed")
              none == LineOf(d, NoName, Silence(d, q).reported, Silence(d, q).state)
  <1>1. RowsOn(d, q) = {Waiting(u) : u \in {v \in pending : Passes(q, v)}}
                       \cup {Had(u) : u \in {v \in installed : Passes(q, v)}}
                       \cup IF pending = {} /\ installed = {} /\ ~Filters(q) THEN {none} ELSE {}
    BY DEF RowsOn, LineOf, Trusted, Silence
  <1>2. \A u : u \in pending <=> u \in PendingOn(d) /\ Wished(q, d, u)
    BY DEF Wished
  <1>3. \A u : u \in installed <=> u \in InstalledOn(d) /\ Returned(d, q, u)
    BY <1>2 DEF Returned, KeyOn
  <1>. HIDE DEF pending, installed
  <1>4. pending = {} /\ installed = {} <=> Quiet(d, q)
    BY <1>2, <1>3 DEF Quiet
  <1>5. (\E u \in {v \in pending : Passes(q, v)} : r = Waiting(u)) <=> PendingRow(r, d, q)
    BY <1>2 DEF PendingRow
  <1>6. (\E u \in {v \in installed : Passes(q, v)} : r = Had(u)) <=> InstalledRow(r, d, q)
    BY <1>3 DEF InstalledRow
  <1>7. r \in (IF pending = {} /\ installed = {} /\ ~Filters(q) THEN {none} ELSE {}) <=> QuietRow(r, d, q)
    BY <1>4 DEF QuietRow
  <1>. HIDE DEF Waiting, Had, none
  <1>. QED BY <1>1, <1>5, <1>6, <1>7

(* Every row names its device and what was reported of it. *)
LEMMA RowsNameTheDevice ==
  ASSUME NEW d, NEW q, NEW r \in RowsOn(d, q)
  PROVE  /\ r.device = d
         /\ PendingRow(r, d, q) => r.reported = "pending" /\ r.update \in PendingOn(d)
         /\ InstalledRow(r, d, q) => r.reported = "installed" /\ r.state = "installed" /\ r.update \in InstalledOn(d)
         /\ QuietRow(r, d, q) => r.reported \notin {"pending", "installed"} /\ r.update = NoName
  <1>1. Silence(d, q).reported \notin {"pending", "installed"}
    BY DEF Silence, NotReported, EmptyState
  <1>. QED BY <1>1, RowsAre DEF PendingRow, InstalledRow, QuietRow, LineOf

LEMMA RowsInScope ==
  ASSUME NEW q, NEW r
  PROVE  r \in UpdateRows(q) <=> r.device \in UpdateScope(q) /\ r \in RowsOn(r.device, q)
  BY RowsNameTheDevice DEF UpdateRows

(* Nothing is filtered: every device in scope has a row. *)
LEMMA EveryDeviceHasARow ==
  ASSUME NEW q, ~Filters(q)
  PROVE  {r.device : r \in UpdateRows(q)} = UpdateScope(q)
  <1>1. \A u : Passes(q, u)
    BY DEF Filters, Passes
  <1>2. ASSUME NEW d \in UpdateScope(q) PROVE \E r \in UpdateRows(q) : r.device = d
    <2>1. \E r : PendingRow(r, d, q) \/ InstalledRow(r, d, q) \/ QuietRow(r, d, q)
      BY <1>1 DEF PendingRow, InstalledRow, QuietRow, Quiet
    <2>. QED BY <2>1, RowsAre, RowsNameTheDevice DEF UpdateRows
  <1>. QED BY <1>2, RowsInScope

LEMMA UpdateDocuments ==
  ASSUME Documents, topic = "updates", NEW d \in Registered
  PROVE  /\ \A list \in {row[d].windows, row[d].apple, row[d].installed} \ {NoList} :
              list \in Seq(ToSet(list)) /\ NoName \notin ToSet(list)
         /\ row[d].apple # NoList => \A i \in DOMAIN row[d].apple : row[d].apple[i].kb = NoName /\ row[d].apple[i].cves = {}
         /\ row[d].installed # NoList
         /\ row[d].collected \in Int /\ row[d].search.checked \in Int /\ today \in Nat
  <1>1. d \in Devices /\ row[d] \in Payloads("updates", d) \cup Older("updates", d)
    BY DEF Documents, Registered
  <1>. QED BY <1>1, UpdatesAssumption, DatesAssumption DEF Documents

(* What is pending or installed is an update, and one of Apple's has no KB and no CVEs. *)
LEMMA EntriesAreUpdates ==
  ASSUME Documents, topic = "updates", NEW d \in Registered
  PROVE  /\ \A u \in PendingOn(d) : u # NoName /\ (UpdatePlatform(d) # "Windows" => u.kb = NoName /\ u.cves = {})
         /\ \A u \in InstalledOn(d) : u # NoName /\ UpdatePlatform(d) = "Windows"
  <1>1. \A list \in {row[d].windows, row[d].apple, row[d].installed} \ {NoList} :
          \A i \in DOMAIN list : list[i] # NoName
    BY UpdateDocuments DEF ToSet
  <1>2. \A list : \A u \in FirstOfEach(d, list) : \E i \in DOMAIN list : u = list[i]
    BY DEF FirstOfEach
  <1>3. row[d].apple # NoList => \A i \in DOMAIN row[d].apple : row[d].apple[i].kb = NoName /\ row[d].apple[i].cves = {}
    BY UpdateDocuments
  <1>4. ASSUME NEW u \in PendingOn(d)
        PROVE  u # NoName /\ (UpdatePlatform(d) # "Windows" => u.kb = NoName /\ u.cves = {})
    <2>1. PendingList(d) # NoList /\ u \in FirstOfEach(d, PendingList(d))
      BY <1>4 DEF PendingOn, Readable
    <2>2. PICK i \in DOMAIN PendingList(d) : u = PendingList(d)[i]
      BY <1>2, <2>1
    <2>3. CASE UpdatePlatform(d) = "Windows"
      BY <1>1, <2>1, <2>2, <2>3 DEF PendingList
    <2>4. CASE UpdatePlatform(d) # "Windows"
      BY <1>1, <1>3, <2>1, <2>2, <2>4 DEF PendingList
    <2>. QED BY <2>3, <2>4
  <1>5. ASSUME NEW u \in InstalledOn(d)
        PROVE  u # NoName /\ UpdatePlatform(d) = "Windows"
    <2>1. UpdatePlatform(d) = "Windows" /\ u \in FirstOfEach(d, row[d].installed)
      BY <1>5 DEF InstalledOn
    <2>2. PICK i \in DOMAIN row[d].installed : u = row[d].installed[i]
      BY <1>2, <2>1
    <2>. QED BY <1>1, <2>1, <2>2, UpdateDocuments
  <1>. QED BY <1>4, <1>5

(* A question with one key, or one CVE, in place of none. *)
LEMMA PickingAKey ==
  ASSUME NEW q \in UpdateQuestions, ~Narrowed(q), NEW k
  PROVE  LET p == [q EXCEPT !.keys = {k}]
         IN /\ Selects(p) /\ ~Filters(p)
            /\ \A d, u : Picks(p, d, u) <=> KeyOn(d, u) = k
            /\ UpdateScope(p) = {d \in UpdateScope(q) : UpdatePlatform(d) = k[1]}
  <1>. DEFINE p == [q EXCEPT !.keys = {k}]
  <1>1. q = [f \in UpdateFields |-> q[f]]
    BY QuestionsAssumption
  <1>2. /\ p.keys = {k} /\ p.cves = q.cves /\ p.freshness = q.freshness /\ p.maxAge = q.maxAge
        /\ p.platform = q.platform /\ p.usages = q.usages /\ p.inventory = q.inventory
        /\ p.securityOnly = q.securityOnly /\ p.deferred = q.deferred /\ p.reboot = q.reboot
        /\ p.minAge = q.minAge /\ p.includeArchived = q.includeArchived
    BY <1>1 DEF UpdateFields
  <1>3. q.keys = {} /\ q.cves = {} /\ q.freshness = "all" /\ q.usages = {} /\ q.inventory = {} /\ ~Filters(q)
    BY DEF Narrowed, Selects
  <1>. HIDE DEF p
  <1>4. Selects(p) /\ ~Filters(p)
    BY <1>2, <1>3 DEF Selects, Filters
  <1>5. \A d, u : Picks(p, d, u) <=> KeyOn(d, u) = k
    BY <1>2, <1>3 DEF Picks, KeyOn
  <1>6. SelectedPlatforms(p) = {k[1]}
    BY <1>2, <1>3 DEF SelectedPlatforms
  <1>7. ~Selects(q)
    BY <1>3 DEF Selects
  <1>8. \A d : d \in UpdateScope(p) <=> d \in UpdateScope(q) /\ UpdatePlatform(d) = k[1]
    BY <1>2, <1>3, <1>4, <1>6, <1>7 DEF UpdateScope
  <1>9. UpdateScope(p) = {d \in UpdateScope(q) : UpdatePlatform(d) = k[1]}
    BY <1>8
  <1>. QED BY <1>4, <1>5, <1>9 DEF p

LEMMA PickingACve ==
  ASSUME NEW q \in UpdateQuestions, ~Narrowed(q), NEW c
  PROVE  LET p == [q EXCEPT !.cves = {c}]
         IN /\ Selects(p) /\ ~Filters(p)
            /\ \A d, u : Picks(p, d, u) <=> c \in u.cves
            /\ UpdateScope(p) = {d \in UpdateScope(q) : UpdatePlatform(d) = "Windows"}
  <1>. DEFINE p == [q EXCEPT !.cves = {c}]
  <1>1. q = [f \in UpdateFields |-> q[f]]
    BY QuestionsAssumption
  <1>2. /\ p.cves = {c} /\ p.keys = q.keys /\ p.freshness = q.freshness /\ p.maxAge = q.maxAge
        /\ p.platform = q.platform /\ p.usages = q.usages /\ p.inventory = q.inventory
        /\ p.securityOnly = q.securityOnly /\ p.deferred = q.deferred /\ p.reboot = q.reboot
        /\ p.minAge = q.minAge /\ p.includeArchived = q.includeArchived
    BY <1>1 DEF UpdateFields
  <1>3. q.keys = {} /\ q.cves = {} /\ q.freshness = "all" /\ q.usages = {} /\ q.inventory = {} /\ ~Filters(q)
    BY DEF Narrowed, Selects
  <1>. HIDE DEF p
  <1>4. Selects(p) /\ ~Filters(p)
    BY <1>2, <1>3 DEF Selects, Filters
  <1>5. \A d, u : Picks(p, d, u) <=> c \in u.cves
    BY <1>2, <1>3 DEF Picks
  <1>6. SelectedPlatforms(p) = {"Windows"}
    BY <1>2, <1>3 DEF SelectedPlatforms
  <1>7. ~Selects(q)
    BY <1>3 DEF Selects
  <1>8. \A d : d \in UpdateScope(p) <=> d \in UpdateScope(q) /\ UpdatePlatform(d) = "Windows"
    BY <1>2, <1>3, <1>4, <1>6, <1>7 DEF UpdateScope
  <1>9. UpdateScope(p) = {d \in UpdateScope(q) : UpdatePlatform(d) = "Windows"}
    BY <1>8
  <1>. QED BY <1>4, <1>5, <1>9 DEF p

(* An update the picker can name. *)
Pickable(u) == u.kb # NoName \/ u.title # NoName

LEMMA OneKeyOneName ==
  ASSUME Documents, topic = "updates", NEW d \in Registered, NEW e \in Registered,
         NEW u \in PendingOn(d) \cup InstalledOn(d), NEW v \in PendingOn(e) \cup InstalledOn(e),
         KeyOn(d, u) = KeyOn(e, v)
  PROVE  /\ Pickable(v) => Pickable(u)
         /\ UpdatePlatform(d) = KeyOn(e, v)[1]
  <1>1. \A x \in Registered : \A w \in PendingOn(x) \cup InstalledOn(x) : UpdatePlatform(x) # "Windows" => w.kb = NoName
    BY EntriesAreUpdates
  <1>. QED BY <1>1 DEF KeyOn, UpdateKey, Pickable

LEMMA OptionsAre ==
  ASSUME NEW q, ~Narrowed(q)
  PROVE  LET options == UpdateOptions(q.platform, q.includeArchived)
         IN /\ \A k \in DOMAIN options.updates :
                 /\ \E d \in UpdateScope(q) : \E u \in PendingOn(d) \cup InstalledOn(d) : Pickable(u) /\ KeyOn(d, u) = k
                 /\ options.updates[k].pending = {d \in UpdateScope(q) : \E u \in PendingOn(d) : Pickable(u) /\ KeyOn(d, u) = k}
                 /\ options.updates[k].installed = {d \in UpdateScope(q) : \E u \in InstalledOn(d) : Pickable(u) /\ KeyOn(d, u) = k}
            /\ \A c \in DOMAIN options.cves :
                 options.cves[c] = {d \in UpdateScope(q) : \E u \in PendingOn(d) : Pickable(u) /\ c \in u.cves}
  <1>. DEFINE options == UpdateOptions(q.platform, q.includeArchived)
              devices == {d \in Registered \ Placeholders :
                            (q.includeArchived \/ d \notin archived) /\ q.platform \in {"all", NamedPlatform(d)}}
              Named(updates) == {u \in updates : Pickable(u)}
              KeysOf(updates, d) == {UpdateKey(UpdatePlatform(d), u) : u \in Named(updates)}
              With(cve) == {d \in devices : \E u \in Named(PendingOn(d)) : cve \in u.cves}
              keys == UNION {KeysOf(PendingOn(d) \cup InstalledOn(d), d) : d \in devices}
              cves == UNION {UNION {u.cves : u \in Named(PendingOn(d))} : d \in devices}
  <1>1. options = [updates |-> [k \in keys |-> [pending |-> {d \in devices : k \in KeysOf(PendingOn(d), d)},
                                                installed |-> {d \in devices : k \in KeysOf(InstalledOn(d), d)}]],
                   cves |-> [c \in cves |-> With(c)]]
    BY DEF UpdateOptions, Pickable
  <1>2. devices = UpdateScope(q)
    <2>1. q.usages = {} /\ q.inventory = {} /\ q.freshness = "all" /\ ~Selects(q)
      BY DEF Narrowed
    <2>. QED BY <2>1 DEF UpdateScope
  <1>3. \A updates, d, k : k \in KeysOf(updates, d) <=> \E u \in updates : Pickable(u) /\ KeyOn(d, u) = k
    BY DEF KeyOn
  <1>. HIDE DEF devices, KeysOf
  <1>4. ASSUME NEW k \in keys
        PROVE  \E d \in devices : \E u \in PendingOn(d) \cup InstalledOn(d) : Pickable(u) /\ KeyOn(d, u) = k
    <2>1. PICK d \in devices : k \in KeysOf(PendingOn(d) \cup InstalledOn(d), d)
      OBVIOUS
    <2>2. \E u \in PendingOn(d) \cup InstalledOn(d) : Pickable(u) /\ KeyOn(d, u) = k
      BY <1>3, <2>1
    <2>. QED BY <2>2
  <1>. HIDE DEF keys, cves, options
  <1>5. /\ DOMAIN options.updates = keys /\ DOMAIN options.cves = cves
        /\ \A k \in keys : /\ options.updates[k].pending = {d \in devices : k \in KeysOf(PendingOn(d), d)}
                           /\ options.updates[k].installed = {d \in devices : k \in KeysOf(InstalledOn(d), d)}
        /\ \A c \in cves : options.cves[c] = With(c)
    BY <1>1
  <1>6. \A k \in keys : /\ options.updates[k].pending = {d \in devices : \E u \in PendingOn(d) : Pickable(u) /\ KeyOn(d, u) = k}
                        /\ options.updates[k].installed = {d \in devices : \E u \in InstalledOn(d) : Pickable(u) /\ KeyOn(d, u) = k}
    BY <1>3, <1>5
  <1>7. \A c \in cves : options.cves[c] = {d \in devices : \E u \in PendingOn(d) : Pickable(u) /\ c \in u.cves}
    BY <1>5
  <1>. QED BY <1>2, <1>4, <1>5, <1>6, <1>7 DEF options

(* What the picker counts behind an update or a CVE is what picking it shows. *)
LEMMA PickedIsCounted ==
  ASSUME Documents, topic = "updates", NEW q \in UpdateQuestions, ~Narrowed(q)
  PROVE  LET options == UpdateOptions(q.platform, q.includeArchived)
             Picking(k) == UpdateRows([q EXCEPT !.keys = {k}])
             Told(rows, what) == {r.device : r \in {x \in rows : x.reported = what}}
         IN \A k \in DOMAIN options.updates :
              /\ Told(Picking(k), "pending") = options.updates[k].pending
              /\ Told(Picking(k), "installed") = options.updates[k].installed \ options.updates[k].pending
              /\ {r.device : r \in Picking(k)} = {d \in UpdateScope(q) : UpdatePlatform(d) = k[1]}
  <1>. DEFINE options == UpdateOptions(q.platform, q.includeArchived)
  <1>1. SUFFICES ASSUME NEW k \in DOMAIN options.updates
        PROVE  LET rows == UpdateRows([q EXCEPT !.keys = {k}])
               IN /\ {r.device : r \in {x \in rows : x.reported = "pending"}} = options.updates[k].pending
                  /\ {r.device : r \in {x \in rows : x.reported = "installed"}} =
                       options.updates[k].installed \ options.updates[k].pending
                  /\ {r.device : r \in rows} = {d \in UpdateScope(q) : UpdatePlatform(d) = k[1]}
    OBVIOUS
  <1>. DEFINE p == [q EXCEPT !.keys = {k}]
              rows == UpdateRows(p)
              Waits(d) == \E u \in PendingOn(d) : KeyOn(d, u) = k
              Has(d) == \E u \in InstalledOn(d) : KeyOn(d, u) = k
  <1>2. /\ Selects(p) /\ ~Filters(p) /\ UpdateScope(p) = {d \in UpdateScope(q) : UpdatePlatform(d) = k[1]}
        /\ \A d, u : Picks(p, d, u) <=> KeyOn(d, u) = k
    BY PickingAKey
  <1>3. \A u : Passes(p, u)
    BY <1>2 DEF Filters, Passes
  <1>4. UpdateScope(q) \subseteq Registered
    BY DEF UpdateScope
  <1>5. \E e \in UpdateScope(q) : \E v \in PendingOn(e) \cup InstalledOn(e) : Pickable(v) /\ KeyOn(e, v) = k
    BY OptionsAre
  <1>6. \A d \in UpdateScope(q) : \A u \in PendingOn(d) \cup InstalledOn(d) : KeyOn(d, u) = k =>
          Pickable(u) /\ UpdatePlatform(d) = k[1]
    BY <1>4, <1>5, OneKeyOneName
  <1>7. /\ options.updates[k].pending = {d \in UpdateScope(q) : Waits(d)}
        /\ options.updates[k].installed = {d \in UpdateScope(q) : Has(d)}
    <2>1. options.updates[k].pending = {d \in UpdateScope(q) : \E u \in PendingOn(d) : Pickable(u) /\ KeyOn(d, u) = k}
      BY OptionsAre
    <2>2. options.updates[k].installed = {d \in UpdateScope(q) : \E u \in InstalledOn(d) : Pickable(u) /\ KeyOn(d, u) = k}
      BY OptionsAre
    <2>. QED BY <1>6, <2>1, <2>2
  <1>. HIDE DEF p, options
  <1>8. \A r, d : PendingRow(r, d, p) <=>
          \E u \in PendingOn(d) : KeyOn(d, u) = k /\ r = LineOf(d, u, "pending", IF Trusted(d, p) THEN "pending" ELSE "unknown")
    BY <1>2, <1>3 DEF PendingRow, Wished
  <1>9. \A r, d : InstalledRow(r, d, p) <=>
          ~Waits(d) /\ \E u \in InstalledOn(d) : KeyOn(d, u) = k /\ r = LineOf(d, u, "installed", "installed")
    BY <1>2, <1>3 DEF InstalledRow, Returned, Wished
  <1>10. \A d \in UpdateScope(p) : (\E r \in rows : r.device = d /\ r.reported = "pending") <=> Waits(d)
    <2>1. ASSUME NEW d \in UpdateScope(p), NEW u \in PendingOn(d), KeyOn(d, u) = k
          PROVE  \E r \in rows : r.device = d /\ r.reported = "pending"
      <3>1. PICK r : PendingRow(r, d, p)
        BY <1>8, <2>1
      <3>. QED BY <3>1, RowsAre, RowsNameTheDevice, RowsInScope
    <2>2. ASSUME NEW r \in rows, r.reported = "pending"
          PROVE  Waits(r.device)
      <3>1. r \in RowsOn(r.device, p)
        BY RowsInScope
      <3>2. PendingRow(r, r.device, p)
        BY <2>2, <3>1, RowsAre, RowsNameTheDevice
      <3>. QED BY <1>8, <3>2
    <2>. QED BY <2>1, <2>2
  <1>11. \A d \in UpdateScope(p) : (\E r \in rows : r.device = d /\ r.reported = "installed") <=> Has(d) /\ ~Waits(d)
    <2>1. ASSUME NEW d \in UpdateScope(p), NEW u \in InstalledOn(d), KeyOn(d, u) = k, ~Waits(d)
          PROVE  \E r \in rows : r.device = d /\ r.reported = "installed"
      <3>1. PICK r : InstalledRow(r, d, p)
        BY <1>9, <2>1
      <3>. QED BY <3>1, RowsAre, RowsNameTheDevice, RowsInScope
    <2>2. ASSUME NEW r \in rows, r.reported = "installed"
          PROVE  Has(r.device) /\ ~Waits(r.device)
      <3>1. r \in RowsOn(r.device, p)
        BY RowsInScope
      <3>2. InstalledRow(r, r.device, p)
        BY <2>2, <3>1, RowsAre, RowsNameTheDevice
      <3>. QED BY <1>9, <3>2
    <2>. QED BY <2>1, <2>2
  <1>12. \A r \in rows : r.device \in UpdateScope(p)
    BY RowsInScope
  <1>13. \A d \in UpdateScope(q) : Waits(d) \/ Has(d) => d \in UpdateScope(p)
    BY <1>2, <1>6
  <1>14. UpdateScope(p) \subseteq UpdateScope(q)
    BY <1>2
  <1>15. {r.device : r \in rows} = UpdateScope(p)
    BY <1>2, EveryDeviceHasARow
  <1>. HIDE DEF rows, Waits, Has
  <1>16. {r.device : r \in {x \in rows : x.reported = "pending"}} = options.updates[k].pending
    BY <1>7, <1>10, <1>12, <1>13, <1>14
  <1>17. {r.device : r \in {x \in rows : x.reported = "installed"}} = options.updates[k].installed \ options.updates[k].pending
    BY <1>7, <1>11, <1>12, <1>13, <1>14
  <1>. QED BY <1>2, <1>15, <1>16, <1>17 DEF rows, p, options

LEMMA CvesAreCounted ==
  ASSUME Documents, topic = "updates", NEW q \in UpdateQuestions, ~Narrowed(q)
  PROVE  LET options == UpdateOptions(q.platform, q.includeArchived)
             Naming(c) == UpdateRows([q EXCEPT !.cves = {c}])
             Told(rows, what) == {r.device : r \in {x \in rows : x.reported = what}}
             Known(rows) == {r \in rows : r.update # NoName /\ (r.update.kb # NoName \/ r.update.title # NoName)}
         IN \A c \in DOMAIN options.cves : Told(Known(Naming(c)), "pending") = options.cves[c]
  <1>. DEFINE options == UpdateOptions(q.platform, q.includeArchived)
  <1>1. SUFFICES ASSUME NEW c \in DOMAIN options.cves
        PROVE  LET rows == UpdateRows([q EXCEPT !.cves = {c}])
               IN {r.device : r \in {x \in rows : x.reported = "pending" /\ x.update # NoName /\ Pickable(x.update)}} = options.cves[c]
    BY DEF Pickable
  <1>. DEFINE p == [q EXCEPT !.cves = {c}]
              rows == UpdateRows(p)
              Waits(d) == \E u \in PendingOn(d) : Pickable(u) /\ c \in u.cves
  <1>2. /\ Selects(p) /\ ~Filters(p) /\ UpdateScope(p) = {d \in UpdateScope(q) : UpdatePlatform(d) = "Windows"}
        /\ \A d, u : Picks(p, d, u) <=> c \in u.cves
    BY PickingACve
  <1>3. \A u : Passes(p, u)
    BY <1>2 DEF Filters, Passes
  <1>4. UpdateScope(q) \subseteq Registered
    BY DEF UpdateScope
  <1>5. options.cves[c] = {d \in UpdateScope(q) : Waits(d)}
    BY OptionsAre
  <1>. HIDE DEF p, options
  <1>6. \A r, d : PendingRow(r, d, p) <=>
          \E u \in PendingOn(d) : c \in u.cves /\ r = LineOf(d, u, "pending", IF Trusted(d, p) THEN "pending" ELSE "unknown")
    BY <1>2, <1>3 DEF PendingRow, Wished
  <1>7. \A d \in UpdateScope(q) : \A u \in PendingOn(d) : u # NoName /\ (c \in u.cves => UpdatePlatform(d) = "Windows")
    BY <1>4, EntriesAreUpdates
  <1>8. ASSUME NEW d \in UpdateScope(q), NEW u \in PendingOn(d), Pickable(u), c \in u.cves
        PROVE  \E r \in rows : r.reported = "pending" /\ r.update # NoName /\ Pickable(r.update) /\ r.device = d
    <2>1. d \in UpdateScope(p)
      BY <1>2, <1>7, <1>8
    <2>. DEFINE r == LineOf(d, u, "pending", IF Trusted(d, p) THEN "pending" ELSE "unknown")
    <2>2. PendingRow(r, d, p)
      BY <1>6, <1>8
    <2>3. r.device = d /\ r.update = u /\ r.reported = "pending"
      BY DEF LineOf
    <2>. HIDE DEF r
    <2>4. r \in rows
      BY <2>1, <2>2, <2>3, RowsAre, RowsInScope
    <2>. QED BY <1>7, <1>8, <2>3, <2>4
  <1>9. ASSUME NEW r \in rows, r.reported = "pending", Pickable(r.update)
        PROVE  r.device \in UpdateScope(q) /\ Waits(r.device)
    <2>1. r.device \in UpdateScope(p) /\ r \in RowsOn(r.device, p)
      BY RowsInScope
    <2>2. PendingRow(r, r.device, p)
      BY <1>9, <2>1, RowsAre, RowsNameTheDevice
    <2>3. PICK u \in PendingOn(r.device) :
            c \in u.cves /\ r = LineOf(r.device, u, "pending", IF Trusted(r.device, p) THEN "pending" ELSE "unknown")
      BY <1>6, <2>2
    <2>4. r.update = u
      BY <2>3 DEF LineOf
    <2>. QED BY <1>2, <1>9, <2>1, <2>3, <2>4
  <1>. HIDE DEF rows, Waits
  <1>10. {r.device : r \in {x \in rows : x.reported = "pending" /\ x.update # NoName /\ Pickable(x.update)}} = options.cves[c]
    <2>1. \A d : d \in options.cves[c] => \E r \in rows : r.reported = "pending" /\ r.update # NoName /\ Pickable(r.update) /\ r.device = d
      BY <1>5, <1>8 DEF Waits
    <2>2. \A r \in rows : r.reported = "pending" /\ Pickable(r.update) => r.device \in options.cves[c]
      BY <1>5, <1>9
    <2>. QED BY <2>1, <2>2
  <1>. QED BY <1>10 DEF rows, p, options

(* A device that is said to have nothing has no other row, and an empty list. *)
LEMMA NothingStandsAlone ==
  ASSUME Documents, topic = "updates", NEW q, NEW r \in UpdateRows(q), r.update = NoName
  PROVE  {x \in UpdateRows(q) : x.device = r.device} = {r}
  <1>1. r.device \in Registered /\ r \in RowsOn(r.device, q)
    BY RowsInScope DEF UpdateScope
  <1>2. QuietRow(r, r.device, q)
    BY <1>1, RowsAre, RowsNameTheDevice, EntriesAreUpdates
  <1>3. ASSUME NEW x \in UpdateRows(q), x.device = r.device
        PROVE  x = r
    <2>1. x \in RowsOn(r.device, q)
      BY <1>3, RowsInScope
    <2>2. ~PendingRow(x, r.device, q) /\ ~InstalledRow(x, r.device, q)
      BY <1>2 DEF QuietRow, Quiet, PendingRow, InstalledRow
    <2>3. QuietRow(x, r.device, q)
      BY <2>1, <2>2, RowsAre
    <2>. QED BY <1>2, <2>3 DEF QuietRow
  <1>. QED BY <1>3

LEMMA NoneMeansNone ==
  ASSUME Documents, topic = "updates", NEW q, NEW r \in UpdateRows(q), r.reported = "none"
  PROVE  PendingList(r.device) = <<>> /\ (UpdatePlatform(r.device) = "Windows" => row[r.device].count \in {NoCount, 0})
  <1>. DEFINE d == r.device
              list == PendingList(d)
  <1>1. d \in Registered /\ r \in RowsOn(d, q)
    BY RowsInScope DEF UpdateScope
  <1>2. QuietRow(r, d, q)
    BY <1>1, RowsAre, RowsNameTheDevice
  <1>3. Silence(d, q).reported = "none"
    BY <1>2 DEF QuietRow, LineOf
  <1>4. ~Selects(q) /\ Readable(d)
    BY <1>3 DEF Silence, NotReported, EmptyState
  <1>5. PendingOn(d) = {}
    BY <1>2, <1>4 DEF QuietRow, Quiet, Wished
  <1>6. list \in Seq(ToSet(list))
    <2>1. list # NoList /\ list \in {row[d].windows, row[d].apple}
      BY <1>4 DEF Readable, PendingList
    <2>. QED BY <1>1, <2>1, UpdateDocuments
  <1>7. ASSUME list # <<>> PROVE FALSE
    <2>1. Len(list) \in Nat /\ DOMAIN list = 1..Len(list)
      BY <1>6
    <2>2. 1 \in DOMAIN list
      BY <1>6, <1>7, <2>1
    <2>3. list[1] \in FirstOfEach(d, list)
      BY <2>2 DEF FirstOfEach
    <2>. QED BY <1>4, <1>5, <2>3 DEF PendingOn
  <1>8. UpdatePlatform(d) = "Windows" => row[d].count \in {NoCount, Len(list)}
    BY <1>4 DEF Readable
  <1>. QED BY <1>7, <1>8

LEMMA SummaryIsTheReport ==
  ASSUME NEW q \in UpdateQuestions, NEW s \in DOMAIN UpdateSummary(q)
  PROVE  Cardinality(UpdateReport([q EXCEPT !.states = {s}])) = UpdateSummary(q)[s]
  <1>. DEFINE p == [q EXCEPT !.states = {s}]
  <1>1. q = [f \in UpdateFields |-> q[f]]
    BY QuestionsAssumption
  <1>2. /\ p.states = {s} /\ p.keys = q.keys /\ p.cves = q.cves /\ p.freshness = q.freshness /\ p.maxAge = q.maxAge
        /\ p.platform = q.platform /\ p.usages = q.usages /\ p.inventory = q.inventory
        /\ p.securityOnly = q.securityOnly /\ p.deferred = q.deferred /\ p.reboot = q.reboot
        /\ p.minAge = q.minAge /\ p.includeArchived = q.includeArchived
    BY <1>1 DEF UpdateFields
  <1>. HIDE DEF p
  <1>3. /\ Selects(p) = Selects(q) /\ Filters(p) = Filters(q) /\ SelectedPlatforms(p) = SelectedPlatforms(q)
        /\ \A d, u : Picks(p, d, u) = Picks(q, d, u)
        /\ \A u : Passes(p, u) = Passes(q, u)
        /\ \A d : Trusted(d, p) = Trusted(d, q)
    BY <1>2 DEF Selects, Filters, SelectedPlatforms, Picks, Passes, Trusted
  <1>4. UpdateScope(p) = UpdateScope(q)
    BY <1>2, <1>3 DEF UpdateScope
  <1>5. \A d, r : /\ PendingRow(r, d, p) <=> PendingRow(r, d, q)
                  /\ InstalledRow(r, d, p) <=> InstalledRow(r, d, q)
                  /\ QuietRow(r, d, p) <=> QuietRow(r, d, q)
    <2>1. \A d, u : /\ Wished(p, d, u) <=> Wished(q, d, u)
                    /\ Returned(d, p, u) <=> Returned(d, q, u)
      BY <1>3 DEF Wished, Returned
    <2>2. \A d : Silence(d, p) = Silence(d, q)
      BY <1>2, <1>3 DEF Silence
    <2>3. \A d : Quiet(d, p) <=> Quiet(d, q)
      BY <2>1 DEF Quiet
    <2>. QED BY <1>3, <2>1, <2>2, <2>3 DEF PendingRow, InstalledRow, QuietRow
  <1>6. \A r : r \in UpdateRows(p) <=> r \in UpdateRows(q)
    BY <1>4, <1>5, RowsAre, RowsInScope
  <1>7. UpdateRows(p) = UpdateRows(q)
    BY <1>6
  <1>8. UpdateReport(p) = {r \in UpdateRows(q) : r.state = s}
    BY <1>2, <1>7 DEF UpdateReport
  <1>. QED BY <1>8 DEF UpdateSummary, p

(* What is fresh enough stays fresh enough when older evidence will do. *)
LEMMA OlderIsEnough ==
  ASSUME Documents, topic = "updates", NEW q \in UpdateQuestions, q.freshness # "stale",
         NEW r \in UpdateRows(q), r.state # "unknown"
  PROVE  r \in UpdateRows([q EXCEPT !.maxAge = q.maxAge + 1])
  <1>. DEFINE p == [q EXCEPT !.maxAge = q.maxAge + 1]
              d == r.device
  <1>1. q = [f \in UpdateFields |-> q[f]]
    BY QuestionsAssumption
  <1>2. /\ p.maxAge = q.maxAge + 1 /\ p.keys = q.keys /\ p.cves = q.cves /\ p.freshness = q.freshness
        /\ p.platform = q.platform /\ p.usages = q.usages /\ p.inventory = q.inventory
        /\ p.securityOnly = q.securityOnly /\ p.deferred = q.deferred /\ p.reboot = q.reboot
        /\ p.minAge = q.minAge /\ p.includeArchived = q.includeArchived
    BY <1>1 DEF UpdateFields
  <1>. HIDE DEF p
  <1>3. /\ Selects(p) = Selects(q) /\ Filters(p) = Filters(q) /\ SelectedPlatforms(p) = SelectedPlatforms(q)
        /\ \A u : Picks(p, d, u) = Picks(q, d, u)
        /\ \A u : Passes(p, u) = Passes(q, u)
    BY <1>2 DEF Selects, Filters, SelectedPlatforms, Picks, Passes
  <1>4. d \in UpdateScope(q) /\ r \in RowsOn(d, q) /\ d \in Registered
    BY RowsInScope DEF UpdateScope
  <1>5. row[d].collected \in Int /\ row[d].search.checked \in Int /\ today \in Nat /\ q.maxAge \in Nat
    BY <1>4, UpdateDocuments, DatesAssumption
  <1>6. \A day \in Int : /\ Freshness(day, today, q.maxAge) = "fresh" => Freshness(day, today, p.maxAge) = "fresh"
                         /\ Freshness(day, today, q.maxAge) = "unknown" => Freshness(day, today, p.maxAge) = "unknown"
    BY <1>2, <1>5 DEF Freshness
  <1>7. Trusted(d, q) => Trusted(d, p)
    BY <1>5, <1>6 DEF Trusted
  <1>8. d \in UpdateScope(p)
    <2>1. q.freshness # "all" /\ Freshness(row[d].collected, today, q.maxAge) = q.freshness
            => Freshness(row[d].collected, today, p.maxAge) = q.freshness
      BY <1>5, <1>6 DEF Freshness
    <2>. QED BY <1>2, <1>3, <1>4, <2>1 DEF UpdateScope
  <1>9. /\ \A u : Wished(p, d, u) <=> Wished(q, d, u)
        /\ \A u : Returned(d, p, u) <=> Returned(d, q, u)
    BY <1>3 DEF Wished, Returned
  <1>10. PendingRow(r, d, q) => PendingRow(r, d, p)
    <2>1. ASSUME NEW u \in PendingOn(d), Wished(q, d, u), Passes(q, u),
                 r = LineOf(d, u, "pending", IF Trusted(d, q) THEN "pending" ELSE "unknown")
          PROVE  PendingRow(r, d, p)
      <3>1. Trusted(d, q)
        BY <2>1 DEF LineOf
      <3>. QED BY <1>3, <1>7, <1>9, <2>1, <3>1 DEF PendingRow
    <2>. QED BY <2>1 DEF PendingRow
  <1>11. InstalledRow(r, d, q) => InstalledRow(r, d, p)
    BY <1>3, <1>9 DEF InstalledRow
  <1>12. QuietRow(r, d, q) => QuietRow(r, d, p)
    <2>1. SUFFICES ASSUME QuietRow(r, d, q) PROVE QuietRow(r, d, p)
      OBVIOUS
    <2>2. r = LineOf(d, NoName, Silence(d, q).reported, Silence(d, q).state) /\ Quiet(d, p) /\ ~Filters(p)
      BY <1>3, <1>9, <2>1 DEF QuietRow, Quiet
    <2>3. Silence(d, q).state # "unknown"
      BY <2>2 DEF LineOf
    <2>4. Silence(d, p).reported = Silence(d, q).reported /\ Silence(d, p).state = Silence(d, q).state
      <3>1. \A nothing : EmptyState(d, Trusted(d, q), q.maxAge, nothing).state # "unknown" =>
              EmptyState(d, Trusted(d, p), p.maxAge, nothing) = EmptyState(d, Trusted(d, q), q.maxAge, nothing)
        BY <1>5, <1>6, <1>7 DEF EmptyState
      <3>2. CASE Selects(q)
        <4>1. NotReported(d, Trusted(d, q), q.maxAge).state # "unknown" =>
                NotReported(d, Trusted(d, p), p.maxAge) = NotReported(d, Trusted(d, q), q.maxAge)
          BY <1>5, <1>6, <1>7 DEF NotReported, EmptyState
        <4>. QED BY <1>3, <2>3, <3>2, <4>1 DEF Silence
      <3>3. CASE ~Selects(q)
        BY <1>3, <2>3, <3>1, <3>3 DEF Silence
      <3>. QED BY <3>2, <3>3
    <2>. QED BY <2>2, <2>4 DEF QuietRow
  <1>. QED BY <1>4, <1>8, <1>10, <1>11, <1>12, RowsAre, RowsInScope DEF p

(* The picker and the report of updates agree: what is counted behind an update or a CVE is what *)
(* picking it shows, every device in scope has a row, one that is said to have nothing has no    *)
(* other row and an empty list, and a question that takes older evidence shows no less.           *)
THEOREM UpdatesAreListed == Spec => []UpdatesAddUp
  <1>1. ASSUME Documents, topic = "updates", NEW q \in UpdateQuestions
        PROVE  /\ ~Narrowed(q) => PickedAsCounted(q)
               /\ NoneStandsAlone(q)
               /\ OlderShowsNoLess(q)
    <2>1. ASSUME ~Narrowed(q) PROVE PickedAsCounted(q)
      BY <1>1, <2>1, PickedIsCounted, CvesAreCounted DEF PickedAsCounted
    <2>2. NoneStandsAlone(q)
      BY <1>1, NothingStandsAlone, NoneMeansNone DEF NoneStandsAlone
    <2>3. OlderShowsNoLess(q)
      BY <1>1, OlderIsEnough DEF OlderShowsNoLess
    <2>. QED BY <2>1, <2>2, <2>3
  <1>2. Documents => UpdatesAddUp
    BY <1>1, EveryDeviceHasARow, SummaryIsTheReport DEF UpdatesAddUp
  <1>. QED BY <1>2, DocumentsKept, PTL

(* What an entry's row is. *)
LEMMA CveRowsAre ==
  ASSUME NEW q, NEW r
  PROVE  r \in CveRows(q) <=>
           \E d \in CveScope(q) : \E i \in DOMAIN CveEntries(d) :
             MatchesCve(CveEntries(d)[i], q) /\ r = [device |-> d, nth |-> i, entry |-> CveEntries(d)[i]]
  <1>. DEFINE Matching(d) == {j \in DOMAIN CveEntries(d) : MatchesCve(CveEntries(d)[j], q)}
              Of(d) == {[device |-> d, nth |-> i, entry |-> CveEntries(d)[i]] : i \in Matching(d)}
  <1>1. CveRows(q) = UNION {Of(d) : d \in CveScope(q)}
    BY DEF CveRows
  <1>2. \A d : r \in Of(d) <=> \E i \in DOMAIN CveEntries(d) : MatchesCve(CveEntries(d)[i], q)
                                                             /\ r = [device |-> d, nth |-> i, entry |-> CveEntries(d)[i]]
    OBVIOUS
  <1>. HIDE DEF Of
  <1>. QED BY <1>1, <1>2

(* Which rows of a wider question are those of a narrower one. *)
LEMMA NarrowedRows ==
  ASSUME NEW q, NEW p, CveScope(p) = CveScope(q),
         \A e : MatchesCve(e, p) => MatchesCve(e, q)
  PROVE  \A r : r \in CveRows(p) <=> r \in CveRows(q) /\ MatchesCve(r.entry, p)
  <1>1. ASSUME NEW r \in CveRows(p)
        PROVE  r \in CveRows(q) /\ MatchesCve(r.entry, p)
    <2>1. PICK d \in CveScope(q) : \E i \in DOMAIN CveEntries(d) :
             MatchesCve(CveEntries(d)[i], p) /\ r = [device |-> d, nth |-> i, entry |-> CveEntries(d)[i]]
      BY CveRowsAre
    <2>2. PICK i \in DOMAIN CveEntries(d) :
             MatchesCve(CveEntries(d)[i], p) /\ r = [device |-> d, nth |-> i, entry |-> CveEntries(d)[i]]
      BY <2>1
    <2>. QED BY <2>2, CveRowsAre
  <1>2. ASSUME NEW r \in CveRows(q), MatchesCve(r.entry, p)
        PROVE  r \in CveRows(p)
    <2>1. PICK d \in CveScope(p) : \E i \in DOMAIN CveEntries(d) :
             r = [device |-> d, nth |-> i, entry |-> CveEntries(d)[i]]
      BY CveRowsAre
    <2>2. PICK i \in DOMAIN CveEntries(d) : r = [device |-> d, nth |-> i, entry |-> CveEntries(d)[i]]
      BY <2>1
    <2>3. MatchesCve(CveEntries(d)[i], p)
      BY <1>2, <2>2
    <2>. QED BY <2>2, <2>3, CveRowsAre
  <1>. QED BY <1>1, <1>2

LEMMA SummariesAre ==
  ASSUME NEW rows
  PROVE  /\ DOMAIN SummarizeCves(rows) = {r.entry.identifier : r \in rows}
         /\ \A k \in {r.entry.identifier : r \in rows} :
              /\ \A d : d \in SummarizeCves(rows)[k].devices <=> \E x \in rows : x.entry.identifier = k /\ x.device = d
              /\ \A d : d \in SummarizeCves(rows)[k].unpatched <=>
                        \E x \in rows : x.entry.identifier = k /\ x.entry.status = "unpatched" /\ x.device = d
              /\ SummarizeCves(rows)[k].exploited = "yes" <=> \E x \in rows : x.entry.identifier = k /\ x.entry.exploited = "yes"
  <1>. DEFINE names == {r.entry.identifier : r \in rows}
              Group(k) == {r \in rows : r.entry.identifier = k}
              With(k, status) == {r.device : r \in {x \in Group(k) : x.entry.status = status}}
              flags(k) == {r.entry.exploited : r \in Group(k)}
              told(k) == [devices |-> {r.device : r \in Group(k)}, unpatched |-> With(k, "unpatched"), patched |-> With(k, "patched"),
                          exploited |-> IF "yes" \in flags(k) THEN "yes" ELSE IF NotSaid \in flags(k) THEN NotSaid ELSE "no"]
  <1>1. SummarizeCves(rows) = [k \in names |-> told(k)]
    BY DEF SummarizeCves
  <1>2. \A k : "yes" \in flags(k) <=> \E x \in rows : x.entry.identifier = k /\ x.entry.exploited = "yes"
    OBVIOUS
  <1>3. \A k, d : d \in With(k, "unpatched") <=>
                    \E x \in rows : x.entry.identifier = k /\ x.entry.status = "unpatched" /\ x.device = d
    OBVIOUS
  <1>6. \A k, d : d \in {r.device : r \in Group(k)} <=> \E x \in rows : x.entry.identifier = k /\ x.device = d
    OBVIOUS
  <1>4. ASSUME NEW k
        PROVE  /\ told(k).devices = {r.device : r \in Group(k)}
               /\ told(k).unpatched = With(k, "unpatched")
               /\ told(k).exploited = "yes" <=> "yes" \in flags(k)
    <2>. HIDE DEF flags, With, Group
    <2>. QED BY QuestionsAssumption
  <1>. HIDE DEF told, names, With, flags, Group
  <1>5. /\ DOMAIN SummarizeCves(rows) = names
        /\ \A k \in names : SummarizeCves(rows)[k] = told(k)
    BY <1>1
  <1>7. \A d : \A k \in names : /\ d \in SummarizeCves(rows)[k].devices <=> d \in {r.device : r \in Group(k)}
                                /\ d \in SummarizeCves(rows)[k].unpatched <=> d \in With(k, "unpatched")
                                /\ SummarizeCves(rows)[k].exploited = "yes" <=> "yes" \in flags(k)
    BY <1>4, <1>5
  <1>8. ASSUME NEW k \in names
        PROVE  /\ \A d : d \in SummarizeCves(rows)[k].devices <=> \E x \in rows : x.entry.identifier = k /\ x.device = d
               /\ \A d : d \in SummarizeCves(rows)[k].unpatched <=>
                         \E x \in rows : x.entry.identifier = k /\ x.entry.status = "unpatched" /\ x.device = d
               /\ SummarizeCves(rows)[k].exploited = "yes" <=> \E x \in rows : x.entry.identifier = k /\ x.entry.exploited = "yes"
    <2>1. \A d : d \in SummarizeCves(rows)[k].devices <=> \E x \in rows : x.entry.identifier = k /\ x.device = d
      BY <1>6, <1>7
    <2>2. \A d : d \in SummarizeCves(rows)[k].unpatched <=>
                 \E x \in rows : x.entry.identifier = k /\ x.entry.status = "unpatched" /\ x.device = d
      BY <1>3, <1>7
    <2>3. SummarizeCves(rows)[k].exploited = "yes" <=> \E x \in rows : x.entry.identifier = k /\ x.entry.exploited = "yes"
      BY <1>2, <1>7
    <2>. QED BY <2>1, <2>2, <2>3
  <1>. QED BY <1>5, <1>8 DEF names

LEMMA SummaryOf ==
  ASSUME NEW rows, NEW k, k \in {r.entry.identifier : r \in rows}
  PROVE  /\ \A d : d \in SummarizeCves(rows)[k].devices <=> \E x \in rows : x.entry.identifier = k /\ x.device = d
         /\ \A d : d \in SummarizeCves(rows)[k].unpatched <=>
                   \E x \in rows : x.entry.identifier = k /\ x.entry.status = "unpatched" /\ x.device = d
         /\ SummarizeCves(rows)[k].exploited = "yes" <=> \E x \in rows : x.entry.identifier = k /\ x.entry.exploited = "yes"
  <1>. DEFINE names == {r.entry.identifier : r \in rows}
  <1>1. \A n \in names :
          /\ \A d : d \in SummarizeCves(rows)[n].devices <=> \E x \in rows : x.entry.identifier = n /\ x.device = d
          /\ \A d : d \in SummarizeCves(rows)[n].unpatched <=>
                    \E x \in rows : x.entry.identifier = n /\ x.entry.status = "unpatched" /\ x.device = d
          /\ SummarizeCves(rows)[n].exploited = "yes" <=> \E x \in rows : x.entry.identifier = n /\ x.entry.exploited = "yes"
    BY Zenon, SummariesAre
  <1>2. k \in names
    OBVIOUS
  <1>. HIDE DEF names
  <1>. QED BY Zenon, <1>1, <1>2

(* What is asked for: nothing by no name, and a name without a comma by itself. *)
LEMMA AskingFor ==
  /\ AskedFor({}) = {}
  /\ \A n : AskedFor({n}) = Asked(n)
  /\ \A n : ~HasComma(n) => AskedFor({n}) = {Plain(n)}
  BY DEF AskedFor, Asked

(* Picking a CVE shows the devices that are counted for it, in any case of its name. *)
LEMMA PickedCvesAreCounted ==
  ASSUME NEW q \in CveQuestions, q = EveryCve(q.platform, q.includeArchived)
  PROVE  CvesAsPicked(q)
  <1>. DEFINE options == CveOptions(q.platform, q.includeArchived)
              all == CveRows(q)
              Alike(k) == {j \in DOMAIN options.cves : Plain(j) = Plain(k)}
              Picking(k) == [q EXCEPT !.identifiers = {k}]
              Exploiting(k) == [q EXCEPT !.identifiers = {k}, !.exploited = "yes"]
              Ranking(s) == [q EXCEPT !.severities = {s}]
  <1>1. q = [f \in CveFields |-> q[f]]
    BY QuestionsAssumption
  <1>2. /\ q.identifiers = {} /\ q.statuses = {} /\ q.severities = {} /\ q.exploited = "all"
    BY DEF EveryCve
  <1>3. \A k : /\ Picking(k).identifiers = {k} /\ Picking(k).statuses = {} /\ Picking(k).severities = {}
               /\ Picking(k).exploited = "all" /\ Picking(k).platform = q.platform
               /\ Picking(k).includeArchived = q.includeArchived /\ Picking(k).freshness = q.freshness
               /\ Picking(k).maxAge = q.maxAge /\ Picking(k).usages = q.usages /\ Picking(k).inventory = q.inventory
    BY <1>1, <1>2 DEF CveFields
  <1>4. \A k : /\ Exploiting(k).identifiers = {k} /\ Exploiting(k).statuses = {} /\ Exploiting(k).severities = {}
               /\ Exploiting(k).exploited = "yes" /\ Exploiting(k).platform = q.platform
               /\ Exploiting(k).includeArchived = q.includeArchived /\ Exploiting(k).freshness = q.freshness
               /\ Exploiting(k).maxAge = q.maxAge /\ Exploiting(k).usages = q.usages /\ Exploiting(k).inventory = q.inventory
    BY <1>1, <1>2 DEF CveFields
  <1>5. \A s : /\ Ranking(s).identifiers = {} /\ Ranking(s).statuses = {} /\ Ranking(s).severities = {s}
               /\ Ranking(s).exploited = "all" /\ Ranking(s).platform = q.platform
               /\ Ranking(s).includeArchived = q.includeArchived /\ Ranking(s).freshness = q.freshness
               /\ Ranking(s).maxAge = q.maxAge /\ Ranking(s).usages = q.usages /\ Ranking(s).inventory = q.inventory
    BY <1>1, <1>2 DEF CveFields
  <1>. HIDE DEF Picking, Exploiting, Ranking
  <1>6. \A k : /\ CveScope(Picking(k)) = CveScope(q)
               /\ CveScope(Exploiting(k)) = CveScope(q)
               /\ CveScope(Ranking(k)) = CveScope(q)
    BY <1>3, <1>4, <1>5 DEF CveScope, InScope
  <1>7. /\ \A e : MatchesCve(e, q)
        /\ \A k, e : MatchesCve(e, Picking(k)) <=> Plain(e.identifier) = Plain(k)
        /\ \A k, e : MatchesCve(e, Exploiting(k)) <=> Plain(e.identifier) = Plain(k) /\ e.exploited = "yes"
        /\ \A s, e : ~HasComma(s) => (MatchesCve(e, Ranking(s)) <=> Plain(e.severity) = Plain(s))
    <2>1. \A e : MatchesCve(e, q)
      BY <1>2, AskingFor DEF MatchesCve, Wants
    <2>2. ASSUME NEW k, NEW e PROVE MatchesCve(e, Picking(k)) <=> Plain(e.identifier) = Plain(k)
      <3>1. {Plain(n) : n \in Picking(k).identifiers} = {Plain(k)}
        BY <1>3
      <3>. QED BY <1>3, <3>1, AskingFor DEF MatchesCve, Wants
    <2>3. \A k, e : MatchesCve(e, Exploiting(k)) <=> Plain(e.identifier) = Plain(k) /\ e.exploited = "yes"
      BY <1>4, AskingFor DEF MatchesCve, Wants
    <2>4. ASSUME NEW s, NEW e, ~HasComma(s) PROVE MatchesCve(e, Ranking(s)) <=> Plain(e.severity) = Plain(s)
      <3>1. AskedFor(Ranking(s).severities) = {Plain(s)}
        BY <1>5, <2>4, AskingFor
      <3>. QED BY <1>5, <3>1 DEF MatchesCve, Wants
    <2>. QED BY <2>1, <2>2, <2>3, <2>4
  <1>8. /\ \A k, r : r \in CveRows(Picking(k)) <=> r \in all /\ Plain(r.entry.identifier) = Plain(k)
        /\ \A k, r : r \in CveRows(Exploiting(k)) <=> r \in all /\ Plain(r.entry.identifier) = Plain(k) /\ r.entry.exploited = "yes"
        /\ \A s, r : ~HasComma(s) => (r \in CveRows(Ranking(s)) <=> r \in all /\ Plain(r.entry.severity) = Plain(s))
    BY <1>6, <1>7, NarrowedRows
  <1>9. /\ options.cves = SummarizeCves(all)
        /\ options.severities = [s \in {r.entry.severity : r \in all} |-> {r \in all : r.entry.severity = s}]
    BY DEF CveOptions
  <1>. HIDE DEF all, options
  <1>10. /\ DOMAIN options.cves = {r.entry.identifier : r \in all}
         /\ \A k \in DOMAIN options.cves :
              /\ \A d : d \in options.cves[k].devices <=> \E x \in all : x.entry.identifier = k /\ x.device = d
              /\ \A d : d \in options.cves[k].unpatched <=>
                   \E x \in all : x.entry.identifier = k /\ x.entry.status = "unpatched" /\ x.device = d
              /\ options.cves[k].exploited = "yes" <=> \E x \in all : x.entry.identifier = k /\ x.entry.exploited = "yes"
    <2>1. DOMAIN options.cves = {r.entry.identifier : r \in all}
      BY <1>9, SummariesAre
    <2>2. ASSUME NEW k \in DOMAIN options.cves
          PROVE  /\ \A d : d \in options.cves[k].devices <=> \E x \in all : x.entry.identifier = k /\ x.device = d
                 /\ \A d : d \in options.cves[k].unpatched <=>
                      \E x \in all : x.entry.identifier = k /\ x.entry.status = "unpatched" /\ x.device = d
                 /\ options.cves[k].exploited = "yes" <=> \E x \in all : x.entry.identifier = k /\ x.entry.exploited = "yes"
      <3>. DEFINE cves == SummarizeCves(all)
      <3>1. options.cves[k] = cves[k] /\ k \in {r.entry.identifier : r \in all}
        BY <1>9, <2>1
      <3>2. \A d : d \in cves[k].devices <=> \E x \in all : x.entry.identifier = k /\ x.device = d
        BY <3>1, SummaryOf
      <3>3. \A d : d \in cves[k].unpatched <=>
              \E x \in all : x.entry.identifier = k /\ x.entry.status = "unpatched" /\ x.device = d
        BY <3>1, SummaryOf
      <3>4. cves[k].exploited = "yes" <=> \E x \in all : x.entry.identifier = k /\ x.entry.exploited = "yes"
        BY <3>1, SummaryOf
      <3>. HIDE DEF cves
      <3>. QED BY <3>1, <3>2, <3>3, <3>4
    <2>. QED BY <2>1, <2>2
  <1>11. ASSUME NEW k \in DOMAIN options.cves
         PROVE  {r.device : r \in CveRows(Picking(k))} = UNION {options.cves[j].devices : j \in Alike(k)}
    <2>1. \A r \in CveRows(Picking(k)) : r.entry.identifier \in Alike(k) /\ r.device \in options.cves[r.entry.identifier].devices
      BY <1>8, <1>10
    <2>2. \A j \in Alike(k) : \A d \in options.cves[j].devices : \E r \in CveRows(Picking(k)) : r.device = d
      BY <1>8, <1>10
    <2>. HIDE DEF Alike
    <2>. QED BY <2>1, <2>2
  <1>12. ASSUME NEW k \in DOMAIN options.cves
         PROVE  {r.device : r \in {x \in CveRows(Picking(k)) : x.entry.status = "unpatched"}} =
                  UNION {options.cves[j].unpatched : j \in Alike(k)}
    <2>1. \A r \in CveRows(Picking(k)) : r.entry.status = "unpatched" =>
            r.entry.identifier \in Alike(k) /\ r.device \in options.cves[r.entry.identifier].unpatched
      BY <1>8, <1>10
    <2>2. \A j \in Alike(k) : \A d \in options.cves[j].unpatched :
            \E r \in CveRows(Picking(k)) : r.entry.status = "unpatched" /\ r.device = d
      BY <1>8, <1>10
    <2>. HIDE DEF Alike
    <2>. QED BY <2>1, <2>2
  <1>13. ASSUME NEW k \in DOMAIN options.cves
         PROVE  (\E j \in Alike(k) : options.cves[j].exploited = "yes") <=> CveRows(Exploiting(k)) # {}
    <2>1. \A r \in CveRows(Exploiting(k)) : r.entry.identifier \in Alike(k) /\ options.cves[r.entry.identifier].exploited = "yes"
      BY <1>8, <1>10
    <2>2. \A j \in Alike(k) : options.cves[j].exploited = "yes" => \E r \in all : r \in CveRows(Exploiting(k))
      BY <1>8, <1>10
    <2>. QED BY <2>1, <2>2
  <1>14. ASSUME NEW s \in DOMAIN options.severities, ~HasComma(s)
         PROVE  CveRows(Ranking(s)) =
                  UNION {options.severities[t] : t \in {u \in DOMAIN options.severities : Plain(u) = Plain(s)}}
    <2>. DEFINE spellings == {u \in DOMAIN options.severities : Plain(u) = Plain(s)}
    <2>1. \A r : r \in CveRows(Ranking(s)) <=> r \in all /\ Plain(r.entry.severity) = Plain(s)
      BY <1>8, <1>14
    <2>2. /\ \A t \in spellings : Plain(t) = Plain(s) /\ options.severities[t] = {r \in all : r.entry.severity = t}
          /\ \A r \in all : Plain(r.entry.severity) = Plain(s) => r.entry.severity \in spellings
      BY <1>9
    <2>. HIDE DEF spellings
    <2>3. \A r : r \in CveRows(Ranking(s)) <=> \E t \in spellings : r \in options.severities[t]
      BY <2>1, <2>2
    <2>4. CveRows(Ranking(s)) = UNION {options.severities[t] : t \in spellings}
      BY <2>3
    <2>. QED BY <2>4 DEF spellings
  <1>15. \A s \in DOMAIN options.severities : ~HasComma(s) =>
           CveRows(Ranking(s)) = UNION {options.severities[t] : t \in {u \in DOMAIN options.severities : Plain(u) = Plain(s)}}
    BY <1>14
  <1>. QED BY <1>11, <1>12, <1>13, <1>15, Zenon DEF CvesAsPicked, options, Picking, Exploiting, Ranking

LEMMA CveScopeIsSplit ==
  ASSUME NEW q \in CveQuestions
  PROVE  CveScopeSplits(q)
  <1>. DEFINE Aged(age) == CveScope([q EXCEPT !.freshness = age])
              Ages == {"fresh", "stale", "unknown"}
              age(d) == Freshness(row[d].collected, today, q.maxAge)
              scope == {d \in SecurityRows(q.platform, q.includeArchived) : InScope(d, q)}
  <1>1. ASSUME NEW a
        PROVE  Aged(a) = {d \in scope : a \in {"all", age(d)}}
    <2>. DEFINE p == [q EXCEPT !.freshness = a]
    <2>1. q = [f \in CveFields |-> q[f]]
      BY QuestionsAssumption
    <2>2. /\ p.freshness = a /\ p.maxAge = q.maxAge /\ p.platform = q.platform /\ p.includeArchived = q.includeArchived
          /\ p.usages = q.usages /\ p.inventory = q.inventory
      BY <2>1 DEF CveFields
    <2>. HIDE DEF p
    <2>3. \A d : InScope(d, p) <=> InScope(d, q)
      BY <2>2 DEF InScope
    <2>4. \A d : d \in CveScope(p) <=> d \in scope /\ a \in {"all", age(d)}
      BY <2>2, <2>3 DEF CveScope
    <2>. QED BY <2>4 DEF p
  <1>2. \A d : age(d) \in Ages
    BY DEF Freshness
  <1>. HIDE DEF Aged, age, scope
  <1>3. Aged("all") = scope
    BY <1>1
  <1>4. \A d : d \in scope <=> \E a \in Ages : d \in Aged(a)
    BY <1>1, <1>2
  <1>5. Aged("all") = UNION {Aged(a) : a \in Ages}
    BY <1>3, <1>4
  <1>6. \A a, b \in Ages : a # b => Aged(a) \cap Aged(b) = {}
    BY <1>1
  <1>7. ASSUME NEW r \in CveRows(q), r.device \in CveCoverage(q).notReporting
        PROVE  FALSE
    <2>1. PICK d \in CveScope(q) : r.device = d /\ \E i : i \in DOMAIN CveEntries(d)
      BY CveRowsAre
    <2>2. Reporting(d) = "not_reported"
      BY <1>7, <2>1 DEF CveCoverage
    <2>3. row[d].msrc = NoList /\ row[d].mac = NoList
      BY <2>2 DEF Reporting
    <2>4. ListOf(d, "msrc") = <<>> /\ ListOf(d, "mac") = <<>>
      <3>1. ASSUME NEW list \in {"msrc", "mac"} PROVE ListOf(d, list) = <<>>
        <4>1. row[d][list] = NoList
          BY <2>3
        <4>2. ListOf(d, list) = [i \in DOMAIN << >> |-> Normalized(<< >>[i], list)]
          BY <4>1 DEF ListOf
        <4>3. DOMAIN << >> = 1..0
          OBVIOUS
        <4>4. [i \in 1..0 |-> Normalized(<< >>[i], list)] = << >>
          OBVIOUS
        <4>. QED BY <4>2, <4>3, <4>4
      <3>. QED BY <3>1
    <2>5. CveEntries(d) = <<>>
      BY <2>4 DEF CveEntries
    <2>. QED BY <2>1, <2>5
  <1>. QED BY <1>5, <1>6, <1>7 DEF CveScopeSplits, Aged

(* What a detection's row is. *)
Caught(q, e) ==
  WithinWindow(e, q.days) /\ Wants(AskedFor(q.vendors), Plain(e.vendor)) /\ Wants(AskedFor(q.severities), Plain(e.severity))
ThreatScope(q) == {d \in SecurityRows(q.platform, q.includeArchived) : InScope(d, q)}

LEMMA DetectionRowsAre ==
  ASSUME NEW q, NEW r
  PROVE  r \in DetectionRows(q) <=>
           \E d \in ThreatScope(q) : \E i \in DOMAIN Detections(d) :
             Caught(q, Detections(d)[i]) /\ r = [device |-> d, nth |-> i, entry |-> Detections(d)[i]]
  <1>. DEFINE Matching(d) == {j \in DOMAIN Detections(d) : /\ WithinWindow(Detections(d)[j], q.days)
                                                           /\ Wants(AskedFor(q.vendors), Plain(Detections(d)[j].vendor))
                                                           /\ Wants(AskedFor(q.severities), Plain(Detections(d)[j].severity))}
              Of(d) == {[device |-> d, nth |-> i, entry |-> Detections(d)[i]] : i \in Matching(d)}
  <1>1. DetectionRows(q) = UNION {Of(d) : d \in ThreatScope(q)}
    BY DEF DetectionRows, ThreatScope
  <1>2. \A d : r \in Of(d) <=> \E i \in DOMAIN Detections(d) : Caught(q, Detections(d)[i])
                                                             /\ r = [device |-> d, nth |-> i, entry |-> Detections(d)[i]]
    BY DEF Caught
  <1>. HIDE DEF Of
  <1>. QED BY <1>1, <1>2

LEMMA DetectionsArePicked ==
  ASSUME Documents, topic = "vulnerabilities", NEW q \in ThreatQuestions
  PROVE  DetectionsAsPicked(q)
  <1>1. q = [f \in ThreatFields |-> q[f]] /\ q.days \in Nat
    BY QuestionsAssumption, DatesAssumption
  <1>2. ASSUME NEW r \in DetectionRows(q)
        PROVE  r \in DetectionRows([q EXCEPT !.days = IF @ = 0 THEN 0 ELSE @ + 1])
    <2>. DEFINE p == [q EXCEPT !.days = IF @ = 0 THEN 0 ELSE @ + 1]
    <2>1. /\ p.days = IF q.days = 0 THEN 0 ELSE q.days + 1
          /\ p.vendors = q.vendors /\ p.severities = q.severities /\ p.platform = q.platform
          /\ p.usages = q.usages /\ p.inventory = q.inventory /\ p.includeArchived = q.includeArchived
      BY <1>1 DEF ThreatFields
    <2>. HIDE DEF p
    <2>2. \A d : InScope(d, p) <=> InScope(d, q)
      BY <2>1 DEF InScope
    <2>3. ThreatScope(p) = ThreatScope(q)
      BY <2>1, <2>2 DEF ThreatScope
    <2>4. PICK d \in ThreatScope(q) : \E i \in DOMAIN Detections(d) :
             Caught(q, Detections(d)[i]) /\ r = [device |-> d, nth |-> i, entry |-> Detections(d)[i]]
      BY DetectionRowsAre
    <2>5. PICK i \in DOMAIN Detections(d) :
             Caught(q, Detections(d)[i]) /\ r = [device |-> d, nth |-> i, entry |-> Detections(d)[i]]
      BY <2>4
    <2>6. Detections(d)[i].seen \in Int /\ today \in Nat
      <3>1. d \in Registered
        BY DEF ThreatScope, SecurityRows
      <3>2. row[d] \in Payloads("vulnerabilities", d) \cup Older("vulnerabilities", d) /\ d \in Devices
        BY <3>1 DEF Documents, Registered
      <3>3. row[d].detections # NoList
        BY <2>5 DEF Detections
      <3>. QED BY <2>5, <3>2, <3>3, DatesAssumption DEF Detections, Documents
    <2>7. WithinWindow(Detections(d)[i], q.days) => WithinWindow(Detections(d)[i], p.days)
      BY <1>1, <2>1, <2>6 DEF WithinWindow
    <2>8. Caught(p, Detections(d)[i])
      BY <2>1, <2>5, <2>7 DEF Caught
    <2>9. r \in DetectionRows(p)
      BY <2>3, <2>5, <2>8, DetectionRowsAre
    <2>. QED BY <2>9 DEF p
  <1>3. ASSUME q.days = 0, q.severities = {}, q.usages = {}, q.inventory = {},
               NEW v \in DOMAIN DetectionOptions(q.platform, q.includeArchived).vendors, ~HasComma(v)
        PROVE  LET offered == DetectionOptions(q.platform, q.includeArchived)
               IN {r.device : r \in DetectionRows([q EXCEPT !.vendors = {v}])} =
                    UNION {offered.vendors[w] : w \in {u \in DOMAIN offered.vendors : Plain(u) = Plain(v)}}
    <2>. DEFINE p == [q EXCEPT !.vendors = {v}]
                devices == SecurityRows(q.platform, q.includeArchived)
                vendors == DetectionOptions(q.platform, q.includeArchived).vendors
                alike == {u \in DOMAIN vendors : Plain(u) = Plain(v)}
                Of(d, w) == \E i \in DOMAIN Detections(d) : Detections(d)[i].vendor = w
    <2>1. /\ p.vendors = {v} /\ p.days = 0 /\ p.severities = {} /\ p.platform = q.platform
          /\ p.usages = {} /\ p.inventory = {} /\ p.includeArchived = q.includeArchived
      BY <1>1, <1>3 DEF ThreatFields
    <2>. HIDE DEF p
    <2>2. ThreatScope(p) = devices
      BY <2>1 DEF ThreatScope, InScope
    <2>3. \A e : Caught(p, e) <=> Plain(e.vendor) = Plain(v)
      BY <1>3, <2>1, AskingFor DEF Caught, Wants, WithinWindow
    <2>4. /\ DOMAIN vendors = UNION {{Detections(d)[i]["vendor"] : i \in DOMAIN Detections(d)} : d \in devices}
          /\ \A w \in DOMAIN vendors : vendors[w] = {d \in devices : \E i \in DOMAIN Detections(d) : Detections(d)[i]["vendor"] = w}
      BY DEF DetectionOptions
    <2>5. /\ \A d \in devices : \A w : Of(d, w) => w \in DOMAIN vendors
          /\ \A w \in DOMAIN vendors : vendors[w] = {d \in devices : Of(d, w)}
      BY <2>4
    <2>6. \A r \in DetectionRows(p) : r.device \in devices /\ \E w : Plain(w) = Plain(v) /\ Of(r.device, w)
      <3>1. SUFFICES ASSUME NEW r \in DetectionRows(p)
                     PROVE  r.device \in devices /\ \E w : Plain(w) = Plain(v) /\ Of(r.device, w)
        OBVIOUS
      <3>2. PICK d \in devices : \E i \in DOMAIN Detections(d) :
               Caught(p, Detections(d)[i]) /\ r = [device |-> d, nth |-> i, entry |-> Detections(d)[i]]
        BY <2>2, DetectionRowsAre
      <3>. QED BY <2>3, <3>2
    <2>7. ASSUME NEW d \in devices, NEW w, Plain(w) = Plain(v), Of(d, w)
          PROVE  \E r \in DetectionRows(p) : r.device = d
      <3>1. PICK i \in DOMAIN Detections(d) : Detections(d)[i].vendor = w
        BY <2>7
      <3>. DEFINE r == [device |-> d, nth |-> i, entry |-> Detections(d)[i]]
      <3>2. r \in DetectionRows(p)
        BY <2>2, <2>3, <2>7, <3>1, DetectionRowsAre
      <3>. QED BY <3>2
    <2>. HIDE DEF devices, Of, vendors
    <2>8. \A d : (\E w \in alike : d \in vendors[w]) <=> d \in devices /\ \E w : Plain(w) = Plain(v) /\ Of(d, w)
      BY <2>5
    <2>9. \A d : (\E r \in DetectionRows(p) : r.device = d) <=> \E w \in alike : d \in vendors[w]
      BY <2>6, <2>7, <2>8
    <2>. HIDE DEF alike
    <2>10. {r.device : r \in DetectionRows(p)} = UNION {vendors[w] : w \in alike}
      BY <2>9
    <2>. QED BY <2>10 DEF p, alike, vendors
  <1>4. DetectionRows(q) \subseteq DetectionRows([q EXCEPT !.days = IF @ = 0 THEN 0 ELSE @ + 1])
    BY <1>2
  <1>. QED BY <1>3, <1>4 DEF DetectionsAsPicked

(* The pickers and the reports of CVEs and of detections agree: what is counted for a CVE, a severity *)
(* or a vendor is what picking it shows, freshness splits the scope, and a longer window shows no less. *)
THEOREM VulnerabilitiesAreListed == Spec => []VulnerabilitiesAddUp
  <1>1. Documents => VulnerabilitiesAddUp
    BY PickedCvesAreCounted, CveScopeIsSplit, DetectionsArePicked DEF VulnerabilitiesAddUp
  <1>. QED BY <1>1, DocumentsKept, PTL

(* A row of the list of installs. *)
InstallRow(d, a, i) ==
  [device |-> d, source |-> a, nth |-> i, name |-> ListedName(a, row[d][a].items[i]),
   padded |-> row[d][a].items[i].padded, text |-> row[d][a].items[i].text]

LEMMA InstallRowsAre ==
  ASSUME NEW b, NEW r
  PROVE  r \in InstallsList(b) <=>
           \E d \in InstallsListed(b) : \E a \in {"cimian", "munki"} : \E i \in DOMAIN ItemsOf(row[d][a]) : r = InstallRow(d, a, i)
  <1>. DEFINE Of(d, a) == {InstallRow(d, a, i) : i \in DOMAIN ItemsOf(row[d][a])}
              All(d) == UNION {Of(d, a) : a \in {"cimian", "munki"}}
  <1>1. InstallsList(b) = UNION {All(d) : d \in InstallsListed(b)}
    BY DEF InstallsList, InstallRow
  <1>2. \A d, a : r \in Of(d, a) <=> \E i \in DOMAIN ItemsOf(row[d][a]) : r = InstallRow(d, a, i)
    OBVIOUS
  <1>. HIDE DEF Of
  <1>3. \A d : r \in All(d) <=> \E a \in {"cimian", "munki"} : r \in Of(d, a)
    OBVIOUS
  <1>. HIDE DEF All
  <1>. QED BY <1>1, <1>2, <1>3

(* The names the filters offer: the list's, but Cimian's own, and those of items it has without a name. *)
OwnRow(x) == x.source = "cimian" /\ x.name \in Bookkeeping /\ ~x.padded
OfferedRows(b) == {[agent |-> x.source, name |-> x.name] : x \in {y \in InstallsList(b) : y.name # Untold /\ ~OwnRow(y)}}

Offering(d, a, i, n) == OffersName(a, ItemsOf(row[d][a])[i]) /\ n = [agent |-> a, name |-> Called(ItemsOf(row[d][a])[i])]

LEMMA OfferedNames ==
  ASSUME NEW b, NEW n
  PROVE  n \in ManagedNames(b) <=>
           \E d \in InstallsListed(b) : \E a \in {"cimian", "munki"} : \E i \in DOMAIN ItemsOf(row[d][a]) :
             Offering(d, a, i, n)
  <1>. DEFINE Told(d, a) == {[agent |-> a, name |-> Called(item)] : item \in {x \in ToSet(ItemsOf(row[d][a])) : OffersName(a, x)}}
              By(a) == UNION {Told(d, a) : d \in InstallsListed(b)}
  <1>1. ManagedNames(b) = UNION {By(a) : a \in {"cimian", "munki"}}
    BY DEF ManagedNames
  <1>2. \A d, a : n \in Told(d, a) <=> \E i \in DOMAIN ItemsOf(row[d][a]) :
                                         Offering(d, a, i, n)
    BY DEF ToSet, Offering
  <1>. HIDE DEF Told
  <1>3. \A a : n \in By(a) <=> \E d \in InstallsListed(b) : n \in Told(d, a)
    OBVIOUS
  <1>. HIDE DEF By
  <1>4. n \in ManagedNames(b) <=> \E a \in {"cimian", "munki"} : n \in By(a)
    BY <1>1
  <1>. QED BY <1>2, <1>3, <1>4

LEMMA NamesAreListed ==
  ASSUME NEW b
  PROVE  /\ OfferedRows(b) \subseteq ManagedNames(b)
         /\ \A n \in ManagedNames(b) \ OfferedRows(b) :
              n.agent = "cimian" /\ \E x \in InstallsList(b) : x.source = "cimian" /\ x.name = Untold
  <1>1. ASSUME NEW d, NEW a \in {"cimian", "munki"}, NEW i \in DOMAIN ItemsOf(row[d][a])
        PROVE  /\ ItemsOf(row[d][a])[i] = row[d][a].items[i]
               /\ InstallRow(d, a, i).source = a /\ InstallRow(d, a, i).name = ListedName(a, row[d][a].items[i])
               /\ InstallRow(d, a, i).padded = row[d][a].items[i].padded
    BY DEF InstallRow, ItemsOf
  <1>2. ASSUME NEW x \in InstallsList(b), x.name # Untold, ~OwnRow(x)
        PROVE  [agent |-> x.source, name |-> x.name] \in ManagedNames(b)
    <2>1. PICK d \in InstallsListed(b) : \E a \in {"cimian", "munki"} : \E i \in DOMAIN ItemsOf(row[d][a]) : x = InstallRow(d, a, i)
      BY InstallRowsAre
    <2>2. PICK a \in {"cimian", "munki"} : \E i \in DOMAIN ItemsOf(row[d][a]) : x = InstallRow(d, a, i)
      BY <2>1
    <2>3. PICK i \in DOMAIN ItemsOf(row[d][a]) : x = InstallRow(d, a, i)
      BY <2>2
    <2>. DEFINE item == row[d][a].items[i]
    <2>4. x.source = a /\ x.name = ListedName(a, item) /\ x.padded = item.padded /\ ItemsOf(row[d][a])[i] = item
      BY <1>1, <2>3
    <2>. HIDE DEF item
    <2>5. Called(item) = x.name /\ OffersName(a, item)
      BY <1>2, <2>4 DEF ListedName, Called, OffersName, OwnRow
    <2>6. Offering(d, a, i, [agent |-> x.source, name |-> x.name])
      BY <2>4, <2>5 DEF Offering
    <2>. QED BY <2>6, OfferedNames
  <1>3. ASSUME NEW n \in ManagedNames(b), n \notin OfferedRows(b)
        PROVE  n.agent = "cimian" /\ \E x \in InstallsList(b) : x.source = "cimian" /\ x.name = Untold
    <2>1. PICK d \in InstallsListed(b) : \E a \in {"cimian", "munki"} : \E i \in DOMAIN ItemsOf(row[d][a]) :
             Offering(d, a, i, n)
      BY OfferedNames, Zenon
    <2>2. PICK a \in {"cimian", "munki"} : \E i \in DOMAIN ItemsOf(row[d][a]) :
             Offering(d, a, i, n)
      BY <2>1
    <2>3. PICK i \in DOMAIN ItemsOf(row[d][a]) :
             Offering(d, a, i, n)
      BY <2>2
    <2>. DEFINE item == row[d][a].items[i]
                x == InstallRow(d, a, i)
    <2>4. /\ x.source = a /\ x.name = ListedName(a, item) /\ x.padded = item.padded
          /\ OffersName(a, item) /\ n = [agent |-> a, name |-> Called(item)]
      BY <1>1, <2>3 DEF Offering
    <2>5. x \in InstallsList(b)
      BY InstallRowsAre
    <2>. HIDE DEF item, x
    <2>6. ASSUME x.name = Called(item) PROVE FALSE
      <3>1. x.name # Untold /\ ~OwnRow(x)
        BY <2>4, <2>6 DEF OffersName, OwnRow
      <3>. QED BY <1>3, <2>4, <2>5, <2>6, <3>1 DEF OfferedRows
    <2>7. a = "cimian" /\ x.name = Untold
      BY <2>4, <2>6 DEF ListedName, Called
    <2>. QED BY <2>4, <2>5, <2>7
  <1>4. OfferedRows(b) \subseteq ManagedNames(b)
    BY <1>2 DEF OfferedRows
  <1>. QED BY <1>3, <1>4

(* As many rows as there are pending items: each has a place of its own. *)
LEMMA PendingIsListed ==
  ASSUME Documents, topic \in {"installs", "items"}, NEW b \in BOOLEAN, NEW d \in InstallsListed(b),
         ItemsOf(row[d].cimian) = <<>> \/ ItemsOf(row[d].munki) = <<>>
  PROVE  ItemCounts(d).pending = Cardinality({x \in InstallsList(b) : x.device = d /\ x.text = "pending"})
  <1>. DEFINE items == ItemsShown(d)
              a == IF ItemsOf(row[d].cimian) # <<>> THEN "cimian" ELSE "munki"
              waiting == {i \in DOMAIN items : items[i].text = "pending"}
              rows == {x \in InstallsList(b) : x.device = d /\ x.text = "pending"}
              place == [i \in waiting |-> InstallRow(d, a, i)]
  <1>1. d \in Devices /\ row[d] \in Payloads(topic, d) \cup Older(topic, d)
    BY DEF Documents, InstallsListed, Registered
  <1>2. items = ItemsOf(row[d][a])
    BY DEF ItemsShown, ItemsOf
  <1>3. \A other \in {"cimian", "munki"} \ {a} : DOMAIN ItemsOf(row[d][other]) = {}
    <2>1. \A other \in {"cimian", "munki"} \ {a} : ItemsOf(row[d][other]) = <<>>
      OBVIOUS
    <2>. QED BY <2>1
  <1>4. DOMAIN items # {} => row[d][a] # NoAgent
    BY <1>2 DEF ItemsOf
  <1>5. \A i \in DOMAIN items : row[d][a].items = items
    BY <1>2, <1>4 DEF ItemsOf
  <1>6. ItemCounts(d).pending = Cardinality(waiting)
    <2>1. \A text : Category(text) \in {"pending"} <=> text = "pending"
      BY DEF Category
    <2>2. {i \in DOMAIN items : Category(items[i].text) \in {"pending"}} = waiting
      BY <2>1
    <2>. QED BY <2>2 DEF ItemCounts, CountOf
  <1>7. IsFiniteSet(waiting)
    <2>1. IsFiniteSet(DOMAIN ItemsOf(row[d][a]))
      BY <1>1, FinitelyMany
    <2>. QED BY <1>2, <2>1, FS_Subset
  <1>8. a \in {"cimian", "munki"}
    OBVIOUS
  <1>. HIDE DEF a, items
  <1>9. \A i \in DOMAIN items : /\ InstallRow(d, a, i).device = d /\ InstallRow(d, a, i).nth = i
                                /\ InstallRow(d, a, i).text = items[i].text
    BY <1>5 DEF InstallRow
  <1>10. \A x \in rows : x.nth \in waiting /\ x = InstallRow(d, a, x.nth)
    <2>1. SUFFICES ASSUME NEW x \in rows PROVE x.nth \in waiting /\ x = InstallRow(d, a, x.nth)
      OBVIOUS
    <2>2. PICK e \in InstallsListed(b), c \in {"cimian", "munki"} : \E i \in DOMAIN ItemsOf(row[e][c]) : x = InstallRow(e, c, i)
      BY InstallRowsAre
    <2>3. PICK i \in DOMAIN ItemsOf(row[e][c]) : x = InstallRow(e, c, i)
      BY <2>2
    <2>4. x.device = e /\ x.nth = i
      BY <2>3 DEF InstallRow
    <2>5. e = d
      BY <2>4
    <2>6. c = a
      BY <1>3, <2>3, <2>5
    <2>. QED BY <1>2, <1>9, <2>3, <2>4, <2>5, <2>6
  <1>11. \A i \in waiting : InstallRow(d, a, i) \in rows
    BY <1>2, <1>8, <1>9, InstallRowsAre
  <1>12. place \in Bijection(waiting, rows)
    <2>1. place \in [waiting -> rows]
      BY <1>11
    <2>2. \A i, j \in waiting : place[i] = place[j] => i = j
      BY <1>9
    <2>3. \A x \in rows : \E i \in waiting : place[i] = x
      BY <1>10
    <2>. HIDE DEF waiting, rows, place
    <2>. QED BY <2>1, <2>2, <2>3 DEF Bijection, Injection, Surjection, IsInjective
  <1>13. Cardinality(waiting) = Cardinality(rows)
    <2>. HIDE DEF waiting, rows
    <2>. QED BY <1>7, <1>12, FS_Bijection DEF ExistsBijection
  <1>. QED BY <1>6, <1>13

(* A stale agent's device is not a stored one: together they are among the devices listed. *)
LEMMA StoredAreApart ==
  ASSUME NEW known, NEW b \in BOOLEAN
  PROVE  Cardinality({s.device : s \in StaleAgents(known, b)}) + StoredCount(known, b) <= Cardinality(InstallsFull(b))
  <1>. DEFINE listed == InstallsListed(b)
              stale == {s.device : s \in StaleAgents(known, b)}
              stored == {d \in listed : IsStored(known, d)}
              full(d) == [device |-> d, cimian |-> row[d].cimian, munki |-> row[d].munki]
              line == [d \in listed |-> full(d)]
  <1>1. IsFiniteSet(listed)
    <2>1. listed \subseteq Devices
      BY DEF InstallsListed, Registered
    <2>. QED BY <2>1, FinitelyMany, FS_Subset
  <1>2. stale \subseteq listed /\ stale \cap stored = {}
    BY DEF StaleAgents
  <1>3. StoredCount(known, b) = Cardinality(stored)
    BY DEF StoredCount
  <1>4. InstallsFull(b) = {full(d) : d \in listed}
    BY DEF InstallsFull
  <1>5. \A d : full(d).device = d
    OBVIOUS
  <1>. HIDE DEF listed, stale, full
  <1>6. line \in Bijection(listed, InstallsFull(b))
    <2>1. line \in [listed -> InstallsFull(b)]
      BY <1>4
    <2>2. \A d, e \in listed : line[d] = line[e] => d = e
      BY <1>5
    <2>3. \A x \in InstallsFull(b) : \E d \in listed : line[d] = x
      BY <1>4
    <2>. HIDE DEF line
    <2>. QED BY <2>1, <2>2, <2>3 DEF Bijection, Injection, Surjection, IsInjective
  <1>7. Cardinality(InstallsFull(b)) = Cardinality(listed)
    BY <1>1, <1>6, FS_Bijection DEF ExistsBijection
  <1>8. IsFiniteSet(stale) /\ IsFiniteSet(stored)
    BY <1>1, <1>2, FS_Subset
  <1>. HIDE DEF stored
  <1>9. /\ IsFiniteSet(stale \cup stored)
        /\ Cardinality(stale \cup stored) = Cardinality(stale) + Cardinality(stored)
    <2>1. Cardinality(stale \cap stored) = 0
      BY <1>2, FS_EmptySet
    <2>2. Cardinality(stale) \in Nat /\ Cardinality(stored) \in Nat
      BY <1>8, FS_CardinalityType
    <2>3. /\ IsFiniteSet(stale \cup stored)
          /\ Cardinality(stale \cup stored) = Cardinality(stale) + Cardinality(stored) - Cardinality(stale \cap stored)
      BY <1>8, FS_Union
    <2>. QED BY <2>1, <2>2, <2>3
  <1>10. Cardinality(stale \cup stored) <= Cardinality(listed)
    <2>1. stale \cup stored \subseteq listed
      BY <1>2 DEF stored
    <2>. QED BY <1>1, <2>1, FS_Subset
  <1>. QED BY <1>3, <1>7, <1>9, <1>10 DEF stale

(* The filters of the installs report offer the names its list shows, a device has as many pending *)
(* items as its list shows, and the stale and the stored are apart.                                *)
THEOREM InstallsAreListed == Spec => []InstallsAddUp
  <1>1. Documents => InstallsAddUp
    BY NamesAreListed, PendingIsListed, StoredAreApart DEF InstallsAddUp, OfferedRows, OwnRow
  <1>. QED BY <1>1, DocumentsKept, PTL

LEMMA ConcatHas ==
  ASSUME NEW X, NEW s \in Seq(X), NEW t \in Seq(X)
  PROVE  \A x : x \in ToSet(s \o t) <=> x \in ToSet(s) \/ x \in ToSet(t)
  <1>1. \A i \in DOMAIN s : i \in DOMAIN (s \o t) /\ (s \o t)[i] = s[i]
    OBVIOUS
  <1>2. \A i \in DOMAIN t : i + Len(s) \in DOMAIN (s \o t) /\ (s \o t)[i + Len(s)] = t[i]
    OBVIOUS
  <1>3. \A i \in DOMAIN (s \o t) : \/ (i \in DOMAIN s /\ (s \o t)[i] = s[i])
                                  \/ (i - Len(s) \in DOMAIN t /\ (s \o t)[i] = t[i - Len(s)])
    <2>. TAKE i \in DOMAIN (s \o t)
    <2>1. i \in 1..(Len(s) + Len(t)) /\ DOMAIN s = 1..Len(s) /\ DOMAIN t = 1..Len(t) /\ Len(s) \in Nat /\ Len(t) \in Nat
      OBVIOUS
    <2>2. CASE i <= Len(s)
      BY <2>1, <2>2
    <2>3. CASE i > Len(s)
      <3>1. i - Len(s) \in DOMAIN t
        BY <2>1, <2>3
      <3>. QED BY <2>1, <2>3, <3>1
    <2>. QED BY <2>1, <2>2, <2>3
  <1>4. ASSUME NEW x, x \in ToSet(s) \/ x \in ToSet(t) PROVE x \in ToSet(s \o t)
    BY <1>1, <1>2, <1>4, Zenon DEF ToSet
  <1>5. ASSUME NEW x, x \in ToSet(s \o t) PROVE x \in ToSet(s) \/ x \in ToSet(t)
    BY <1>3, <1>5, Zenon DEF ToSet
  <1>. QED BY <1>4, <1>5

-----------------------------------------------------------------------------
(***************************************************************************)
(* Sequences put together from sequences.                                  *)
(***************************************************************************)
Joins(f, ss, n) == f = [i \in 1..n |-> IF i = 1 THEN ss[i] ELSE f[i - 1] \o ss[i]]

LEMMA JoinRecurses == ASSUME NEW ss, NEW n \in Nat PROVE \E f : Joins(f, ss, n)
  <1>. DEFINE T == {k \in Nat : ~ \E f : Joins(f, ss, k)}
  <1>1. T = {}
    <2>. SUFFICES ASSUME T # {} PROVE FALSE
      OBVIOUS
    <2>1. PICK m \in T : \A y \in T : m <= y
      BY LeastNatural
    <2>2. m # 0
      <3>1. Joins([i \in 1..0 |-> ss], ss, 0)
        BY DEF Joins
      <3>. QED BY <3>1
    <2>3. m - 1 \in Nat /\ m - 1 \notin T
      <3>1. T \subseteq Nat
        OBVIOUS
      <3>. HIDE DEF T
      <3>. QED BY <2>1, <2>2, <3>1
    <2>4. PICK f : Joins(f, ss, m - 1)
      BY <2>3
    <2>. DEFINE more == [i \in 1..m |-> IF i = 1 THEN ss[i] ELSE f[i - 1] \o ss[i]]
    <2>5. \A i \in 1..(m - 1) : f[i] = IF i = 1 THEN ss[i] ELSE f[i - 1] \o ss[i]
      BY <2>4, Zenon DEF Joins
    <2>6. \A i \in 1..(m - 1) : more[i] = f[i]
      <3>1. \A i \in 1..(m - 1) : i \in 1..m
        BY <2>3
      <3>. QED BY <2>5, <3>1
    <2>7. \A i \in 1..m : i # 1 => i - 1 \in 1..(m - 1)
      BY <2>3
    <2>8. \A i \in 1..m : more[i] = IF i = 1 THEN ss[i] ELSE more[i - 1] \o ss[i]
      BY <2>6, <2>7
    <2>9. more = [i \in 1..m |-> more[i]]
      OBVIOUS
    <2>10. Joins(more, ss, m)
      <3>. HIDE DEF more
      <3>. QED BY <2>8, <2>9 DEF Joins
    <2>. QED BY <2>10
  <1>. QED BY <1>1

LEMMA FlattenIs ==
  ASSUME NEW X, NEW ss \in Seq(Seq(X)), ss # <<>>
  PROVE  \E f : Joins(f, ss, Len(ss)) /\ FlattenSeq(ss) = f[Len(ss)]
  <1>. DEFINE f == CHOOSE f : Joins(f, ss, Len(ss))
  <1>1. Len(ss) \in Nat /\ Len(ss) # 0
    OBVIOUS
  <1>2. Joins(f, ss, Len(ss))
    BY <1>1, JoinRecurses
  <1>3. FlattenSeq(ss) = f[Len(ss)]
    BY <1>1 DEF FlattenSeq, Joins
  <1>. HIDE DEF f
  <1>. QED BY <1>2, <1>3

(* What is joined, so far. *)
JoinedWell(f, ss, X, n) ==
  /\ f[n] \in Seq(X)
  /\ \A x : x \in ToSet(f[n]) <=> \E j \in 1..n : x \in ToSet(ss[j])
  /\ Len(ss[1]) <= Len(f[n]) /\ \A k \in 1..Len(ss[1]) : f[n][k] = ss[1][k]

LEMMA JoinedSoFar ==
  ASSUME NEW X, NEW ss \in Seq(Seq(X)), NEW f, Joins(f, ss, Len(ss)), NEW n \in 1..Len(ss)
  PROVE  JoinedWell(f, ss, X, n)
  <1>. DEFINE Good(i) == /\ f[i] \in Seq(X)
                         /\ \A x : x \in ToSet(f[i]) <=> \E j \in 1..i : x \in ToSet(ss[j])
                         /\ Len(ss[1]) <= Len(f[i]) /\ \A k \in 1..Len(ss[1]) : f[i][k] = ss[1][k]
              T == {i \in 1..Len(ss) : ~Good(i)}
  <1>1. \A i \in 1..Len(ss) : f[i] = IF i = 1 THEN ss[i] ELSE f[i - 1] \o ss[i]
    BY DEF Joins
  <1>2. T = {}
    <2>. SUFFICES ASSUME T # {} PROVE FALSE
      OBVIOUS
    <2>1. T \subseteq Nat /\ T \subseteq 1..Len(ss) /\ \A i \in 1..Len(ss) : i \notin T => Good(i)
      <3>. HIDE DEF Good
      <3>1. T \subseteq 1..Len(ss) /\ \A i \in 1..Len(ss) : i \notin T => Good(i)
        OBVIOUS
      <3>. QED BY <3>1
    <2>2. PICK m \in T : \A y \in T : m <= y
      <3>. HIDE DEF T
      <3>. QED BY <2>1, LeastNatural
    <2>3. m # 1
      <3>1. ss[1] \in Seq(X)
        BY <2>1, <2>2
      <3>2. CASE m = 1
        <4>1. f[1] = ss[1]
          BY <1>1, <2>1, <2>2, <3>2
        <4>2. Good(1)
          BY <3>1, <4>1
        <4>. QED BY <2>1, <2>2, <3>2, <4>2
      <3>. QED BY <3>2
    <2>4. m \in 1..Len(ss) /\ m - 1 \in 1..Len(ss) /\ m - 1 \notin T
      <3>. HIDE DEF T
      <3>. QED BY <2>1, <2>2, <2>3
    <2>5. Good(m - 1)
      BY <2>1, <2>4
    <2>6. ss[m] \in Seq(X) /\ ss[1] \in Seq(X)
      BY <2>4
    <2>7. f[m] = f[m - 1] \o ss[m]
      BY <1>1, <2>3, <2>4
    <2>8. \A x : x \in ToSet(f[m]) <=> x \in ToSet(f[m - 1]) \/ x \in ToSet(ss[m])
      <3>1. f[m - 1] \in Seq(X)
        BY <2>5
      <3>2. \A x : x \in ToSet(f[m - 1] \o ss[m]) <=> x \in ToSet(f[m - 1]) \/ x \in ToSet(ss[m])
        BY <2>6, <3>1, ConcatHas
      <3>. QED BY <2>7, <3>2, Zenon
    <2>9. \A x : x \in ToSet(f[m]) <=> \E j \in 1..m : x \in ToSet(ss[j])
      <3>1. \A j : j \in 1..m <=> j \in 1..(m - 1) \/ j = m
        <4>1. m \in Int /\ 1 <= m
          BY <2>4
        <4>. QED BY <4>1
      <3>2. \A x : x \in ToSet(f[m - 1]) <=> \E j \in 1..(m - 1) : x \in ToSet(ss[j])
        BY <2>5
      <3>. QED BY <2>8, <3>1, <3>2, Zenon
    <2>10. f[m] \in Seq(X) /\ Len(ss[1]) <= Len(f[m]) /\ \A k \in 1..Len(ss[1]) : f[m][k] = ss[1][k]
      <3>. DEFINE a == f[m - 1]
                  b == ss[m]
                  c == ss[1]
      <3>1. a \in Seq(X) /\ b \in Seq(X) /\ c \in Seq(X) /\ Len(c) <= Len(a) /\ \A k \in 1..Len(c) : a[k] = c[k]
        <4>1. f[m - 1] \in Seq(X) /\ Len(ss[1]) <= Len(f[m - 1]) /\ \A k \in 1..Len(ss[1]) : f[m - 1][k] = ss[1][k]
          BY <2>5
        <4>. QED BY <2>6, <4>1
      <3>2. f[m] = a \o b
        BY <2>7
      <3>. HIDE DEF a, b, c
      <3>3. a \o b \in Seq(X) /\ Len(c) <= Len(a \o b) /\ \A k \in 1..Len(c) : (a \o b)[k] = c[k]
        BY <3>1
      <3>. QED BY <3>2, <3>3 DEF c
    <2>11. Good(m)
      BY <2>9, <2>10
    <2>12. m \in T => ~Good(m)
      OBVIOUS
    <2>. HIDE DEF T, Good
    <2>. QED BY <2>2, <2>11, <2>12
  <1>3. Good(n)
    BY <1>2
  <1>. QED BY <1>3 DEF JoinedWell

LEMMA ConcatOnce ==
  ASSUME NEW X, NEW s \in Seq(X), NEW t \in Seq(X), IsInjective(s), IsInjective(t), ToSet(s) \cap ToSet(t) = {}
  PROVE  IsInjective(s \o t)
  <1>1. \A i \in DOMAIN (s \o t) : \/ (i \in DOMAIN s /\ (s \o t)[i] = s[i])
                                  \/ (i - Len(s) \in DOMAIN t /\ (s \o t)[i] = t[i - Len(s)])
    <2>. TAKE i \in DOMAIN (s \o t)
    <2>1. i \in 1..(Len(s) + Len(t)) /\ DOMAIN s = 1..Len(s) /\ DOMAIN t = 1..Len(t) /\ Len(s) \in Nat /\ Len(t) \in Nat
      OBVIOUS
    <2>2. CASE i <= Len(s)
      BY <2>1, <2>2
    <2>3. CASE i > Len(s)
      <3>1. i - Len(s) \in DOMAIN t
        BY <2>1, <2>3
      <3>. QED BY <2>1, <2>3, <3>1
    <2>. QED BY <2>1, <2>2, <2>3
  <1>2. \A i \in DOMAIN s, j \in DOMAIN t : s[i] # t[j]
    BY DEF ToSet
  <1>3. \A i, j \in DOMAIN s : s[i] = s[j] => i = j
    BY DEF IsInjective
  <1>4. \A i, j \in DOMAIN t : t[i] = t[j] => i = j
    BY DEF IsInjective
  <1>5. DOMAIN (s \o t) \subseteq Int /\ Len(s) \in Int
    OBVIOUS
  <1>6. \A i, j \in DOMAIN (s \o t) : (s \o t)[i] = (s \o t)[j] => i = j
    <2>. DEFINE u == s \o t
                ds == DOMAIN s
                dt == DOMAIN t
                l == Len(s)
    <2>1. \A i \in DOMAIN u : \/ (i \in ds /\ u[i] = s[i])
                             \/ (i - l \in dt /\ u[i] = t[i - l])
      BY <1>1
    <2>2. /\ \A i \in ds, j \in dt : s[i] # t[j]
          /\ \A i, j \in ds : s[i] = s[j] => i = j
          /\ \A i, j \in dt : t[i] = t[j] => i = j
          /\ DOMAIN u \subseteq Int /\ l \in Int
      BY <1>2, <1>3, <1>4, <1>5
    <2>. HIDE DEF u, ds, dt, l
    <2>3. \A i, j \in DOMAIN u : u[i] = u[j] => i = j
      <3>. SUFFICES ASSUME NEW i \in DOMAIN u, NEW j \in DOMAIN u, u[i] = u[j] PROVE i = j
        OBVIOUS
      <3>1. CASE i \in ds /\ u[i] = s[i] /\ j \in ds /\ u[j] = s[j]
        BY <2>2, <3>1
      <3>2. CASE i - l \in dt /\ u[i] = t[i - l] /\ j - l \in dt /\ u[j] = t[j - l]
        <4>1. i - l = j - l
          BY <2>2, <3>2
        <4>. QED BY <2>2, <4>1
      <3>. QED BY <2>1, <2>2, <3>1, <3>2
    <2>. QED BY <2>3 DEF u
  <1>. QED BY <1>6 DEF IsInjective

LEMMA Flattened ==
  ASSUME NEW X, NEW ss \in Seq(Seq(X))
  PROVE  /\ FlattenSeq(ss) \in Seq(X)
         /\ \A x : x \in ToSet(FlattenSeq(ss)) <=> \E j \in DOMAIN ss : x \in ToSet(ss[j])
  <1>1. CASE ss = <<>>
    <2>1. FlattenSeq(ss) = <<>> /\ DOMAIN ss = {}
      BY <1>1 DEF FlattenSeq
    <2>2. ToSet(<<>>) = {}
      BY DEF ToSet
    <2>. QED BY <2>1, <2>2
  <1>2. CASE ss # <<>>
    <2>1. PICK f : Joins(f, ss, Len(ss)) /\ FlattenSeq(ss) = f[Len(ss)]
      BY <1>2, FlattenIs
    <2>2. Len(ss) \in 1..Len(ss) /\ DOMAIN ss = 1..Len(ss)
      BY <1>2
    <2>3. /\ f[Len(ss)] \in Seq(X)
          /\ \A x : x \in ToSet(f[Len(ss)]) <=> \E j \in 1..Len(ss) : x \in ToSet(ss[j])
      <3>1. JoinedWell(f, ss, X, Len(ss))
        BY <2>1, <2>2, JoinedSoFar
      <3>. QED BY <3>1 DEF JoinedWell
    <2>. QED BY <2>1, <2>2, <2>3
  <1>. QED BY <1>1, <1>2

(* It begins with the first of them. *)
LEMMA FlattenBegins ==
  ASSUME NEW X, NEW ss \in Seq(Seq(X)), ss # <<>>
  PROVE  Len(ss[1]) <= Len(FlattenSeq(ss)) /\ \A k \in 1..Len(ss[1]) : FlattenSeq(ss)[k] = ss[1][k]
  <1>1. PICK f : Joins(f, ss, Len(ss)) /\ FlattenSeq(ss) = f[Len(ss)]
    BY FlattenIs
  <1>2. Len(ss) \in 1..Len(ss)
    OBVIOUS
  <1>3. Len(ss[1]) <= Len(f[Len(ss)]) /\ \A k \in 1..Len(ss[1]) : f[Len(ss)][k] = ss[1][k]
    <2>1. JoinedWell(f, ss, X, Len(ss))
      BY <1>1, <1>2, JoinedSoFar
    <2>. QED BY <2>1 DEF JoinedWell
  <1>. QED BY <1>1, <1>3

(* Nothing is there twice that is not twice in one of them, or in two. *)
LEMMA FlattenOnce ==
  ASSUME NEW X, NEW ss \in Seq(Seq(X)), \A i \in DOMAIN ss : IsInjective(ss[i]),
         \A i, j \in DOMAIN ss : i # j => ToSet(ss[i]) \cap ToSet(ss[j]) = {}
  PROVE  IsInjective(FlattenSeq(ss))
  <1>1. CASE ss = <<>>
    <2>1. FlattenSeq(ss) = <<>> /\ DOMAIN <<>> = {}
      BY <1>1 DEF FlattenSeq
    <2>. QED BY <2>1 DEF IsInjective
  <1>2. CASE ss # <<>>
    <2>1. PICK f : Joins(f, ss, Len(ss)) /\ FlattenSeq(ss) = f[Len(ss)]
      BY <1>2, FlattenIs
    <2>2. Len(ss) \in 1..Len(ss) /\ DOMAIN ss = 1..Len(ss)
      BY <1>2
    <2>3. \A i \in 1..Len(ss) : f[i] = IF i = 1 THEN ss[i] ELSE f[i - 1] \o ss[i]
      BY <2>1 DEF Joins
    <2>4. \A i \in 1..Len(ss) : f[i] \in Seq(X) /\ \A x : x \in ToSet(f[i]) <=> \E j \in 1..i : x \in ToSet(ss[j])
      <3>1. \A i \in 1..Len(ss) : JoinedWell(f, ss, X, i)
        BY <2>1, JoinedSoFar
      <3>. QED BY <3>1, Zenon DEF JoinedWell
    <2>. DEFINE T == {i \in 1..Len(ss) : ~IsInjective(f[i])}
    <2>5. T = {}
      <3>. SUFFICES ASSUME T # {} PROVE FALSE
        OBVIOUS
      <3>1. T \subseteq Nat
        BY <2>2
      <3>2. PICK m \in T : \A y \in T : m <= y
        <4>. HIDE DEF T
        <4>. QED BY <3>1, LeastNatural
      <3>3. m \in 1..Len(ss) /\ ~IsInjective(f[m])
        OBVIOUS
      <3>4. m # 1
        BY <2>2, <2>3, <3>3
      <3>5. m - 1 \in 1..Len(ss) /\ m - 1 \notin T
        <4>1. m - 1 \in 1..Len(ss)
          BY <3>3, <3>4
        <4>2. m \in Int
          BY <3>3
        <4>. HIDE DEF T
        <4>. QED BY <3>1, <3>2, <4>1, <4>2
      <3>6. IsInjective(f[m - 1])
        BY <3>5
      <3>7. f[m - 1] \in Seq(X) /\ ss[m] \in Seq(X) /\ IsInjective(ss[m])
        <4>1. f[m - 1] \in Seq(X)
          BY <2>4, <3>5, Zenon
        <4>2. m \in DOMAIN ss
          BY <2>2, <3>3
        <4>3. ss[m] \in Seq(X)
          BY <4>2
        <4>4. IsInjective(ss[m])
          BY <4>2, Zenon
        <4>. QED BY <4>1, <4>3, <4>4
      <3>8. ToSet(f[m - 1]) \cap ToSet(ss[m]) = {}
        <4>. SUFFICES ASSUME NEW x, x \in ToSet(f[m - 1]), x \in ToSet(ss[m]) PROVE FALSE
          OBVIOUS
        <4>1. PICK j \in 1..(m - 1) : x \in ToSet(ss[j])
          BY <2>4, <3>5
        <4>2. j \in 1..Len(ss) /\ j # m
          BY <3>3, <4>1
        <4>. QED BY <2>2, <3>3, <4>1, <4>2
      <3>9. f[m] = f[m - 1] \o ss[m]
        BY <2>3, <3>3, <3>4
      <3>. QED BY <3>3, <3>6, <3>7, <3>8, <3>9, ConcatOnce
    <2>. QED BY <2>1, <2>2, <2>5
  <1>. QED BY <1>1, <1>2

LEMMA LengthCounts ==
  ASSUME NEW X, NEW s \in Seq(X), IsInjective(s)
  PROVE  IsFiniteSet(ToSet(s)) /\ Cardinality(ToSet(s)) = Len(s)
  <1>1. Len(s) \in Nat /\ DOMAIN s = 1..Len(s)
    OBVIOUS
  <1>2. s \in Bijection(1..Len(s), ToSet(s))
    BY <1>1 DEF Bijection, Injection, Surjection, IsInjective, ToSet
  <1>3. IsFiniteSet(1..Len(s)) /\ Cardinality(1..Len(s)) = Len(s)
    BY <1>1, FS_Interval
  <1>. QED BY <1>2, <1>3, FS_Bijection DEF ExistsBijection

(* What is kept. *)
LEMMA KeptIs ==
  ASSUME NEW X, NEW s \in Seq(X), NEW wanted
  PROVE  /\ Kept(s, wanted) \in Seq(X)
         /\ ToSet(Kept(s, wanted)) = ToSet(s) \cap wanted
         /\ IsInjective(s) => IsInjective(Kept(s, wanted))
  <1>. DEFINE ss == [i \in DOMAIN s |-> IF s[i] \in wanted THEN <<s[i]>> ELSE <<>>]
  <1>1. ss \in Seq(Seq(X)) /\ DOMAIN ss = DOMAIN s
    <2>1. \A i \in DOMAIN s : <<s[i]>> \in Seq(X) /\ <<>> \in Seq(X)
      OBVIOUS
    <2>2. Len(s) \in Nat /\ DOMAIN s = 1..Len(s)
      OBVIOUS
    <2>3. ss \in [1..Len(s) -> Seq(X)]
      BY <2>1, <2>2
    <2>. QED BY <2>2, <2>3
  <1>2. \A i \in DOMAIN s : ToSet(ss[i]) = {s[i]} \cap wanted
    BY DEF ToSet
  <1>3. Kept(s, wanted) = FlattenSeq(ss)
    BY DEF Kept
  <1>4. \A i \in DOMAIN s : IsInjective(ss[i])
    BY DEF IsInjective
  <1>. HIDE DEF ss
  <1>5. /\ FlattenSeq(ss) \in Seq(X)
        /\ \A x : x \in ToSet(FlattenSeq(ss)) <=> \E j \in DOMAIN ss : x \in ToSet(ss[j])
    BY <1>1, Flattened
  <1>6. ToSet(FlattenSeq(ss)) = ToSet(s) \cap wanted
    <2>1. \A x : x \in ToSet(s) <=> \E i \in DOMAIN s : x = s[i]
      BY DEF ToSet
    <2>. QED BY <1>1, <1>2, <1>5, <2>1
  <1>7. ASSUME IsInjective(s) PROVE IsInjective(FlattenSeq(ss))
    <2>1. \A i, j \in DOMAIN s : s[i] = s[j] => i = j
      BY <1>7 DEF IsInjective
    <2>2. \A i, j \in DOMAIN ss : i # j => ToSet(ss[i]) \cap ToSet(ss[j]) = {}
      BY <1>1, <1>2, <2>1
    <2>. QED BY <1>1, <1>4, <2>2, FlattenOnce
  <1>. QED BY <1>3, <1>5, <1>6, <1>7

(***************************************************************************)
(* The list of applications.  It is what the devices' own lists have, and  *)
(* its first round has one row of each device that has any.                *)
(***************************************************************************)
AppRow(d, i) == [device |-> d, nth |-> i, name |-> Shown(AppsOf(d)[i].name), version |-> AppsOf(d)[i].version]
ListedOn(d, q) == {AppRow(d, i) : i \in {j \in DOMAIN AppsOf(d) : Matches(Shown(AppsOf(d)[j].name), q.names)}}

LEMMA AppDocuments ==
  ASSUME Documents, topic = "applications", NEW d \in Registered
  PROVE  AppsOf(d) \in Seq(ToSet(AppsOf(d)))
  <1>1. d \in Devices /\ row[d] \in Payloads("applications", d) \cup Older("applications", d)
    BY DEF Documents, Registered
  <1>. QED BY <1>1, AppsAssumption DEF AppsOf

LEMMA DeviceRowsAre ==
  ASSUME Documents, topic = "applications", NEW d \in Registered, NEW q
  PROVE  /\ DeviceRows(d, q) \in Seq(ListedOn(d, q))
         /\ ToSet(DeviceRows(d, q)) = ListedOn(d, q)
         /\ IsInjective(DeviceRows(d, q))
  <1>. DEFINE all == [i \in DOMAIN AppsOf(d) |-> AppRow(d, i)]
              wanted == {r \in ToSet(all) : Matches(r.name, q.names)}
  <1>1. Len(AppsOf(d)) \in Nat /\ DOMAIN AppsOf(d) = 1..Len(AppsOf(d))
    BY AppDocuments
  <1>2. all \in Seq(ToSet(all)) /\ DOMAIN all = DOMAIN AppsOf(d)
    <2>1. all \in [1..Len(AppsOf(d)) -> ToSet(all)]
      BY <1>1 DEF ToSet
    <2>. QED BY <1>1, <2>1
  <1>3. IsInjective(all)
    BY DEF IsInjective, AppRow
  <1>4. DeviceRows(d, q) = Kept(all, wanted)
    BY DEF DeviceRows, AppRow
  <1>5. ToSet(all) \cap wanted = ListedOn(d, q)
    <2>1. \A x : x \in ToSet(all) <=> \E i \in DOMAIN AppsOf(d) : x = AppRow(d, i)
      BY DEF ToSet
    <2>2. \A i : AppRow(d, i).name = Shown(AppsOf(d)[i].name)
      BY DEF AppRow
    <2>3. \A x : x \in ListedOn(d, q) <=> \E i \in DOMAIN AppsOf(d) : Matches(Shown(AppsOf(d)[i].name), q.names) /\ x = AppRow(d, i)
      BY DEF ListedOn
    <2>4. \A x : x \in wanted <=> x \in ToSet(all) /\ Matches(x.name, q.names)
      OBVIOUS
    <2>. HIDE DEF all, wanted
    <2>. QED BY <2>1, <2>2, <2>3, <2>4
  <1>. HIDE DEF all, wanted
  <1>6. /\ Kept(all, wanted) \in Seq(ToSet(all)) /\ ToSet(Kept(all, wanted)) = ToSet(all) \cap wanted
        /\ IsInjective(Kept(all, wanted))
    BY <1>2, <1>3, KeptIs
  <1>7. \A X, s : s \in Seq(X) => s \in Seq(ToSet(s))
    <2>. SUFFICES ASSUME NEW X, NEW s \in Seq(X) PROVE s \in Seq(ToSet(s))
      OBVIOUS
    <2>1. s \in [1..Len(s) -> ToSet(s)] /\ Len(s) \in Nat
      BY DEF ToSet
    <2>. QED BY <2>1
  <1>. QED BY <1>4, <1>5, <1>6, <1>7

(* With no more devices than it looks at, every device is looked at, in the order of their serial numbers. *)
Scanned(q) == Kept(SerialOrder, ListScope(q))
LEMMA ScannedAre ==
  ASSUME NEW q, q.deviceLimit \in Nat, q.deviceLimit >= Cardinality(Devices)
  PROVE  /\ Scanned(q) \in Seq(Devices) /\ ToSet(Scanned(q)) = ListScope(q) /\ IsInjective(Scanned(q))
         /\ SubSeq(Scanned(q), 1, IF q.deviceLimit < Len(Scanned(q)) THEN q.deviceLimit ELSE Len(Scanned(q))) = Scanned(q)
  <1>1. SerialOrder \in Seq(Devices) /\ ToSet(SerialOrder) = Devices /\ IsInjective(SerialOrder)
    BY SystemAssumption
  <1>2. ListScope(q) \subseteq Devices
    BY DEF ListScope, Registered
  <1>3. /\ Scanned(q) \in Seq(Devices) /\ ToSet(Scanned(q)) = Devices \cap ListScope(q) /\ IsInjective(Scanned(q))
    BY <1>1, KeptIs DEF Scanned
  <1>4. Devices \cap ListScope(q) = ListScope(q)
    BY <1>2
  <1>5. Len(Scanned(q)) = Cardinality(ListScope(q)) /\ IsFiniteSet(ListScope(q))
    BY <1>3, <1>4, LengthCounts
  <1>6. Cardinality(ListScope(q)) <= Cardinality(Devices) /\ Cardinality(Devices) \in Nat
    BY <1>2, FinitelyMany, FS_Subset, FS_CardinalityType
  <1>7. Len(Scanned(q)) \in Nat /\ ~(q.deviceLimit < Len(Scanned(q)))
    <2>1. Len(Scanned(q)) \in Nat
      BY <1>3
    <2>. QED BY <1>5, <1>6, <2>1
  <1>8. SubSeq(Scanned(q), 1, Len(Scanned(q))) = Scanned(q)
    BY <1>3
  <1>. QED BY <1>3, <1>4, <1>7, <1>8

(* Rows in rounds: every sequence's first row, then every one's second, and so on. *)
Round(rows, n) == FlattenSeq([i \in DOMAIN rows |-> IF n \in DOMAIN rows[i] THEN <<rows[i][n]>> ELSE <<>>])
Longest(rows) == Max({0} \cup {Len(rows[i]) : i \in DOMAIN rows})
InRounds(rows) == FlattenSeq([n \in 1..Longest(rows) |-> Round(rows, n)])

LEMMA RoundIs ==
  ASSUME NEW X, NEW rows \in Seq(Seq(X)), NEW n
  PROVE  /\ Round(rows, n) \in Seq(X)
         /\ \A x : x \in ToSet(Round(rows, n)) <=> \E i \in DOMAIN rows : n \in DOMAIN rows[i] /\ x = rows[i][n]
         /\ (\A i, j \in DOMAIN rows : i # j => ToSet(rows[i]) \cap ToSet(rows[j]) = {}) => IsInjective(Round(rows, n))
  <1>. DEFINE ss == [i \in DOMAIN rows |-> IF n \in DOMAIN rows[i] THEN <<rows[i][n]>> ELSE <<>>]
  <1>1. ss \in Seq(Seq(X)) /\ DOMAIN ss = DOMAIN rows
    <2>1. \A i \in DOMAIN rows : rows[i] \in Seq(X)
      OBVIOUS
    <2>2. \A i \in DOMAIN rows : ss[i] \in Seq(X)
      BY <2>1
    <2>3. Len(rows) \in Nat /\ DOMAIN rows = 1..Len(rows)
      OBVIOUS
    <2>4. ss \in [1..Len(rows) -> Seq(X)]
      BY <2>2, <2>3
    <2>. QED BY <2>3, <2>4
  <1>2. \A i \in DOMAIN rows : \A x : x \in ToSet(ss[i]) <=> n \in DOMAIN rows[i] /\ x = rows[i][n]
    BY DEF ToSet
  <1>3. \A i \in DOMAIN rows : IsInjective(ss[i])
    BY DEF IsInjective
  <1>4. Round(rows, n) = FlattenSeq(ss)
    BY DEF Round
  <1>. HIDE DEF ss
  <1>5. /\ FlattenSeq(ss) \in Seq(X)
        /\ \A x : x \in ToSet(FlattenSeq(ss)) <=> \E i \in DOMAIN ss : x \in ToSet(ss[i])
    BY <1>1, Flattened
  <1>6. \A x : x \in ToSet(FlattenSeq(ss)) <=> \E i \in DOMAIN rows : n \in DOMAIN rows[i] /\ x = rows[i][n]
    BY <1>1, <1>2, <1>5
  <1>7. ASSUME \A i, j \in DOMAIN rows : i # j => ToSet(rows[i]) \cap ToSet(rows[j]) = {} PROVE IsInjective(FlattenSeq(ss))
    <2>1. \A i \in DOMAIN rows : ToSet(ss[i]) \subseteq ToSet(rows[i])
      BY <1>2 DEF ToSet
    <2>2. \A i, j \in DOMAIN ss : i # j => ToSet(ss[i]) \cap ToSet(ss[j]) = {}
      BY <1>1, <1>7, <2>1
    <2>. QED BY <1>1, <1>3, <2>2, FlattenOnce
  <1>. QED BY <1>4, <1>5, <1>6, <1>7

LEMMA LongestIs ==
  ASSUME NEW X, NEW rows \in Seq(Seq(X))
  PROVE  Longest(rows) \in Nat /\ \A i \in DOMAIN rows : Len(rows[i]) <= Longest(rows)
  <1>. DEFINE lens == {0} \cup {Len(rows[i]) : i \in DOMAIN rows}
  <1>1. \A i \in DOMAIN rows : rows[i] \in Seq(X)
    OBVIOUS
  <1>2. \A i \in DOMAIN rows : Len(rows[i]) \in Nat
    BY <1>1
  <1>3. lens \subseteq Nat /\ lens # {}
    BY <1>2
  <1>4. IsFiniteSet(lens)
    <2>1. Len(rows) \in Nat /\ DOMAIN rows = 1..Len(rows)
      OBVIOUS
    <2>2. IsFiniteSet(DOMAIN rows)
      BY <2>1, FS_Interval
    <2>. DEFINE f == [i \in DOMAIN rows |-> Len(rows[i])]
    <2>3. IsFiniteSet({f[i] : i \in DOMAIN rows})
      BY <2>2, FiniteImage
    <2>4. lens = {0} \cup {f[i] : i \in DOMAIN rows}
      OBVIOUS
    <2>. HIDE DEF f, lens
    <2>5. IsFiniteSet({0})
      BY FS_Singleton
    <2>. QED BY <2>3, <2>4, <2>5, FS_Union
  <1>5. Max(lens) \in lens /\ \A x \in lens : x <= Max(lens)
    <2>. HIDE DEF lens
    <2>1. lens \subseteq Int
      BY <1>3
    <2>. QED BY <1>3, <1>4, <2>1, GreatestIs
  <1>6. Longest(rows) = Max(lens)
    BY DEF Longest
  <1>7. \A i \in DOMAIN rows : Len(rows[i]) \in lens
    OBVIOUS
  <1>. HIDE DEF lens
  <1>. QED BY <1>3, <1>5, <1>6, <1>7

LEMMA RoundsAreAll ==
  ASSUME NEW X, NEW rows \in Seq(Seq(X))
  PROVE  /\ InRounds(rows) \in Seq(X)
         /\ \A x : x \in ToSet(InRounds(rows)) <=> \E i \in DOMAIN rows : x \in ToSet(rows[i])
         /\ Len(Round(rows, 1)) <= Len(InRounds(rows))
         /\ \A k \in 1..Len(Round(rows, 1)) : InRounds(rows)[k] = Round(rows, 1)[k]
  <1>. DEFINE ss == [n \in 1..Longest(rows) |-> Round(rows, n)]
  <1>1. \A i \in DOMAIN rows : rows[i] \in Seq(X)
    OBVIOUS
  <1>2. Longest(rows) \in Nat /\ \A i \in DOMAIN rows : Len(rows[i]) <= Longest(rows)
    BY LongestIs
  <1>3. \A n : /\ Round(rows, n) \in Seq(X)
               /\ \A x : x \in ToSet(Round(rows, n)) <=> \E i \in DOMAIN rows : n \in DOMAIN rows[i] /\ x = rows[i][n]
    BY RoundIs
  <1>4. ss \in Seq(Seq(X)) /\ DOMAIN ss = 1..Longest(rows) /\ \A n \in DOMAIN ss : ss[n] = Round(rows, n)
    <2>1. ss \in [1..Longest(rows) -> Seq(X)]
      BY <1>3
    <2>2. DOMAIN ss = 1..Longest(rows) /\ \A n \in DOMAIN ss : ss[n] = Round(rows, n)
      OBVIOUS
    <2>3. \A n \in Nat : \A s \in [1..n -> Seq(X)] : s \in Seq(Seq(X))
      OBVIOUS
    <2>. HIDE DEF ss
    <2>. QED BY <1>2, <2>1, <2>2, <2>3
  <1>5. InRounds(rows) = FlattenSeq(ss)
    BY DEF InRounds
  <1>. HIDE DEF ss
  <1>6. /\ FlattenSeq(ss) \in Seq(X)
        /\ \A x : x \in ToSet(FlattenSeq(ss)) <=> \E n \in DOMAIN ss : x \in ToSet(ss[n])
    BY <1>4, Flattened
  <1>7. \A i \in DOMAIN rows : DOMAIN rows[i] \subseteq 1..Longest(rows)
    BY <1>1, <1>2
  <1>8. \A x : x \in ToSet(FlattenSeq(ss)) <=> \E i \in DOMAIN rows : x \in ToSet(rows[i])
    <2>1. \A i, x : x \in ToSet(rows[i]) <=> \E n \in DOMAIN rows[i] : x = rows[i][n]
      BY DEF ToSet
    <2>2. ASSUME NEW x, NEW i \in DOMAIN rows, x \in ToSet(rows[i]) PROVE x \in ToSet(FlattenSeq(ss))
      <3>1. PICK n \in DOMAIN rows[i] : x = rows[i][n]
        BY <2>1, <2>2
      <3>2. n \in DOMAIN ss /\ x \in ToSet(ss[n])
        BY <1>3, <1>4, <1>7, <3>1
      <3>. QED BY <1>6, <3>2
    <2>3. ASSUME NEW x, x \in ToSet(FlattenSeq(ss)) PROVE \E i \in DOMAIN rows : x \in ToSet(rows[i])
      <3>1. PICK n \in DOMAIN ss : x \in ToSet(ss[n])
        BY <1>6, <2>3
      <3>2. PICK i \in DOMAIN rows : n \in DOMAIN rows[i] /\ x = rows[i][n]
        BY <1>3, <1>4, <3>1
      <3>. QED BY <2>1, <3>2
    <2>. QED BY <2>2, <2>3
  <1>9. /\ Len(Round(rows, 1)) <= Len(FlattenSeq(ss))
        /\ \A k \in 1..Len(Round(rows, 1)) : FlattenSeq(ss)[k] = Round(rows, 1)[k]
    <2>1. CASE Longest(rows) = 0
      <3>1. \A x : x \notin ToSet(Round(rows, 1))
        BY <1>3, <1>7, <2>1
      <3>2. Round(rows, 1) \in Seq(X) /\ FlattenSeq(ss) \in Seq(X)
        BY <1>3, <1>6
      <3>3. \A s : s \in Seq(X) /\ (\A x : x \notin ToSet(s)) => Len(s) = 0
        <4>. SUFFICES ASSUME NEW s \in Seq(X), Len(s) # 0 PROVE s[1] \in ToSet(s)
          OBVIOUS
        <4>1. 1 \in DOMAIN s
          OBVIOUS
        <4>. QED BY <4>1 DEF ToSet
      <3>4. Len(Round(rows, 1)) = 0
        BY <3>1, <3>2, <3>3
      <3>. QED BY <3>2, <3>4
    <2>2. CASE Longest(rows) # 0
      <3>1. 1 \in 1..Longest(rows)
        BY <1>2, <2>2
      <3>2. ss # <<>> /\ ss[1] = Round(rows, 1)
        <4>1. DOMAIN <<>> = {}
          OBVIOUS
        <4>. QED BY <1>4, <3>1, <4>1
      <3>3. Len(ss[1]) <= Len(FlattenSeq(ss)) /\ \A k \in 1..Len(ss[1]) : FlattenSeq(ss)[k] = ss[1][k]
        BY <1>4, <3>2, FlattenBegins
      <3>. QED BY <3>2, <3>3
    <2>. QED BY <2>1, <2>2
  <1>. QED BY <1>5, <1>6, <1>8, <1>9

AppRows(q) == [i \in DOMAIN Scanned(q) |-> DeviceRows(Scanned(q)[i], q)]

LEMMA AppListInRounds ==
  ASSUME NEW q, q.deviceLimit \in Nat, q.deviceLimit >= Cardinality(Devices)
  PROVE  AppList(q) = InRounds(AppRows(q))
  <1>. DEFINE devices == SubSeq(Scanned(q), 1, IF q.deviceLimit < Len(Scanned(q)) THEN q.deviceLimit ELSE Len(Scanned(q)))
              rows == [i \in DOMAIN devices |-> DeviceRows(devices[i], q)]
  <1>1. devices = Scanned(q)
    BY ScannedAre
  <1>2. AppList(q) = InRounds(rows)
    BY Zenon DEF AppList, InRounds, Round, Longest, Scanned
  <1>. HIDE DEF devices
  <1>3. rows = AppRows(q)
    BY <1>1 DEF AppRows
  <1>. HIDE DEF rows
  <1>. QED BY <1>2, <1>3

LEMMA AppRowsAre ==
  ASSUME Documents, topic = "applications", NEW q, q.deviceLimit \in Nat, q.deviceLimit >= Cardinality(Devices)
  PROVE  /\ AppRows(q) \in Seq(Seq(UNION {ListedOn(d, q) : d \in Registered}))
         /\ DOMAIN AppRows(q) = DOMAIN Scanned(q)
         /\ \A i \in DOMAIN Scanned(q) : /\ Scanned(q)[i] \in ListScope(q)
                                         /\ ToSet(AppRows(q)[i]) = ListedOn(Scanned(q)[i], q)
         /\ \A d \in ListScope(q) : \E i \in DOMAIN Scanned(q) : d = Scanned(q)[i]
         /\ \A i, j \in DOMAIN AppRows(q) : i # j => ToSet(AppRows(q)[i]) \cap ToSet(AppRows(q)[j]) = {}
  <1>. DEFINE X == UNION {ListedOn(d, q) : d \in Registered}
  <1>1. Scanned(q) \in Seq(Devices) /\ ToSet(Scanned(q)) = ListScope(q) /\ IsInjective(Scanned(q))
    BY ScannedAre
  <1>2. /\ \A i \in DOMAIN Scanned(q) : Scanned(q)[i] \in ListScope(q)
        /\ \A d \in ListScope(q) : \E i \in DOMAIN Scanned(q) : d = Scanned(q)[i]
    BY <1>1 DEF ToSet
  <1>3. ListScope(q) \subseteq Registered
    BY DEF ListScope
  <1>4. Len(Scanned(q)) \in Nat /\ DOMAIN Scanned(q) = 1..Len(Scanned(q))
    BY <1>1
  <1>5. DOMAIN AppRows(q) = DOMAIN Scanned(q) /\ \A i \in DOMAIN Scanned(q) : AppRows(q)[i] = DeviceRows(Scanned(q)[i], q)
    BY DEF AppRows
  <1>6. \A i \in DOMAIN Scanned(q) : DeviceRows(Scanned(q)[i], q) \in Seq(X)
    <2>1. ASSUME NEW d \in Registered PROVE DeviceRows(d, q) \in Seq(X)
      <3>1. DeviceRows(d, q) \in Seq(ListedOn(d, q))
        BY DeviceRowsAre
      <3>2. ListedOn(d, q) \subseteq X
        OBVIOUS
      <3>. HIDE DEF X
      <3>. QED BY <3>1, <3>2
    <2>. QED BY <1>2, <1>3, <2>1
  <1>7. AppRows(q) \in Seq(Seq(X))
    <2>. HIDE DEF X
    <2>1. AppRows(q) \in [1..Len(Scanned(q)) -> Seq(X)]
      BY <1>4, <1>6 DEF AppRows
    <2>. QED BY <1>4, <2>1
  <1>8. \A i \in DOMAIN Scanned(q) : ToSet(AppRows(q)[i]) = ListedOn(Scanned(q)[i], q)
    BY <1>2, <1>3, <1>5, DeviceRowsAre
  <1>9. \A d, e : d # e => ListedOn(d, q) \cap ListedOn(e, q) = {}
    BY DEF ListedOn, AppRow
  <1>10. \A i, j \in DOMAIN AppRows(q) : i # j => ToSet(AppRows(q)[i]) \cap ToSet(AppRows(q)[j]) = {}
    <2>1. \A i, j \in DOMAIN Scanned(q) : i # j => Scanned(q)[i] # Scanned(q)[j]
      BY <1>1 DEF IsInjective
    <2>. QED BY <1>5, <1>8, <1>9, <2>1
  <1>. QED BY <1>2, <1>5, <1>7, <1>8, <1>10

LEMMA AppListIs ==
  ASSUME Documents, topic = "applications", NEW q, q.deviceLimit \in Nat, q.deviceLimit >= Cardinality(Devices)
  PROVE  \A x : x \in ToSet(AppList(q)) <=> \E d \in ListScope(q) : x \in ListedOn(d, q)
  <1>. DEFINE X == UNION {ListedOn(d, q) : d \in Registered}
  <1>1. /\ AppRows(q) \in Seq(Seq(X)) /\ DOMAIN AppRows(q) = DOMAIN Scanned(q)
        /\ \A i \in DOMAIN Scanned(q) : /\ Scanned(q)[i] \in ListScope(q)
                                        /\ ToSet(AppRows(q)[i]) = ListedOn(Scanned(q)[i], q)
        /\ \A d \in ListScope(q) : \E i \in DOMAIN Scanned(q) : d = Scanned(q)[i]
    BY AppRowsAre
  <1>. HIDE DEF X
  <1>2. \A x : x \in ToSet(InRounds(AppRows(q))) <=> \E i \in DOMAIN AppRows(q) : x \in ToSet(AppRows(q)[i])
    BY <1>1, RoundsAreAll
  <1>3. AppList(q) = InRounds(AppRows(q))
    BY AppListInRounds
  <1>. QED BY <1>1, <1>2, <1>3

(* As many rows as there are devices show them all. *)
LEMMA FirstRowsShowAll ==
  ASSUME Documents, topic = "applications", NEW q, q.deviceLimit \in Nat, q.deviceLimit >= Cardinality(Devices)
  PROVE  LET On(rows) == {r.device : r \in ToSet(rows)}
         IN On(Page(AppList(q), Cardinality(On(AppList(q))), 0)) = On(AppList(q))
  <1>. DEFINE X == UNION {ListedOn(d, q) : d \in Registered}
              list == AppList(q)
              first == Round(AppRows(q), 1)
              On(rows) == {r.device : r \in ToSet(rows)}
  <1>1. /\ AppRows(q) \in Seq(Seq(X)) /\ DOMAIN AppRows(q) = DOMAIN Scanned(q)
        /\ \A i \in DOMAIN Scanned(q) : ToSet(AppRows(q)[i]) = ListedOn(Scanned(q)[i], q)
        /\ \A i, j \in DOMAIN AppRows(q) : i # j => ToSet(AppRows(q)[i]) \cap ToSet(AppRows(q)[j]) = {}
    BY AppRowsAre
  <1>2. \A d, r : r \in ListedOn(d, q) => r.device = d
    BY DEF ListedOn, AppRow
  <1>. HIDE DEF X
  <1>3. list = InRounds(AppRows(q))
    BY AppListInRounds
  <1>4. /\ list \in Seq(X)
        /\ \A x : x \in ToSet(list) <=> \E i \in DOMAIN AppRows(q) : x \in ToSet(AppRows(q)[i])
        /\ Len(first) <= Len(list) /\ \A k \in 1..Len(first) : list[k] = first[k]
    BY <1>1, <1>3, RoundsAreAll
  <1>5. /\ first \in Seq(X) /\ IsInjective(first)
        /\ \A x : x \in ToSet(first) <=> \E i \in DOMAIN AppRows(q) : 1 \in DOMAIN AppRows(q)[i] /\ x = AppRows(q)[i][1]
    BY <1>1, RoundIs
  <1>6. \A i \in DOMAIN AppRows(q) : \A n \in DOMAIN AppRows(q)[i] : AppRows(q)[i][n].device = Scanned(q)[i]
    <2>1. \A i \in DOMAIN AppRows(q) : \A n \in DOMAIN AppRows(q)[i] : AppRows(q)[i][n] \in ToSet(AppRows(q)[i])
      BY DEF ToSet
    <2>. QED BY <1>1, <1>2, <2>1
  <1>7. On(first) = On(list)
    <2>1. \A x : x \in ToSet(first) => x \in ToSet(list)
      BY <1>4, <1>5 DEF ToSet
    <2>2. ASSUME NEW x \in ToSet(list) PROVE \E y \in ToSet(first) : y.device = x.device
      <3>1. PICK i \in DOMAIN AppRows(q) : x \in ToSet(AppRows(q)[i])
        BY <1>4
      <3>2. AppRows(q)[i] \in Seq(X)
        BY <1>1
      <3>3. PICK n \in DOMAIN AppRows(q)[i] : x = AppRows(q)[i][n]
        BY <3>1 DEF ToSet
      <3>4. 1 \in DOMAIN AppRows(q)[i]
        BY <3>2, <3>3
      <3>. QED BY <1>5, <1>6, <3>3, <3>4
    <2>. HIDE DEF first, list
    <2>. QED BY <2>1, <2>2
  <1>8. \A x, y \in ToSet(first) : x.device = y.device => x = y
    <2>1. \A i, j \in DOMAIN Scanned(q) : Scanned(q)[i] = Scanned(q)[j] => i = j
      BY ScannedAre DEF IsInjective
    <2>. HIDE DEF first
    <2>. QED BY <1>1, <1>5, <1>6, <2>1
  <1>. HIDE DEF first, list
  <1>9. Len(first) = Cardinality(On(list))
    <2>1. IsFiniteSet(ToSet(first)) /\ Cardinality(ToSet(first)) = Len(first)
      BY <1>5, LengthCounts
    <2>2. [r \in ToSet(first) |-> r.device] \in Bijection(ToSet(first), On(first))
      BY <1>8 DEF Bijection, Injection, Surjection, IsInjective
    <2>3. Cardinality(On(first)) = Cardinality(ToSet(first))
      BY <2>1, <2>2, FS_Bijection DEF ExistsBijection
    <2>. QED BY <1>7, <2>1, <2>3
  <1>. DEFINE page == Page(list, Len(first), 0)
  <1>10. page = SubSeq(list, 1, Len(first))
    BY <1>4, <1>5 DEF Page
  <1>11. Len(first) \in Nat /\ Len(list) \in Nat /\ Len(first) <= Len(list) /\ DOMAIN first = 1..Len(first) /\ DOMAIN list = 1..Len(list)
    BY <1>4, <1>5
  <1>12. DOMAIN page = 1..Len(first) /\ \A k \in 1..Len(first) : k \in DOMAIN list /\ page[k] = list[k]
    BY <1>4, <1>10, <1>11
  <1>. HIDE DEF page
  <1>13. \A x : x \in ToSet(page) <=> x \in ToSet(first)
    <2>1. \A k \in 1..Len(first) : page[k] = first[k]
      BY <1>4, <1>12
    <2>. QED BY <1>11, <1>12, <2>1 DEF ToSet
  <1>14. On(page) = On(first)
    BY <1>13
  <1>15. On(page) = On(list)
    BY <1>7, <1>14
  <1>. QED BY <1>9, <1>15 DEF page, list

LEMMA SpreadIsListed ==
  ASSUME Documents, topic = "applications", NEW q \in AppQuestions, NEW n, q.deviceLimit >= Cardinality(Devices)
  PROVE  SpreadAsListed(q, n)
  <1>. DEFINE narrow == [q EXCEPT !.names = <<n>>]
              scope == DistributionScope(q)
              list == AppList(narrow)
              spread == Distribution(n, q)
              On(rows) == {r.device : r \in ToSet(rows)}
              Told(d, i) == Trimmed(AppsOf(d)[i].version)
              matched == UNION {{<<d, Told(d, i)>> : i \in FindsIn(d, n)} : d \in scope}
              Having(d, i) == d \in scope /\ i \in DOMAIN AppsOf(d) /\ AppsOf(d)[i].name # NoText /\ FoundIn(AppsOf(d)[i].name, n)
              Showing(d, i) == d \in scope /\ i \in DOMAIN AppsOf(d) /\ FoundIn(Shown(AppsOf(d)[i].name), n)
  <1>1. /\ q.deviceLimit \in Nat /\ narrow.names = <<n>> /\ narrow.deviceLimit = q.deviceLimit
        /\ narrow.usages = q.usages /\ narrow.catalogs = q.catalogs /\ narrow.platforms = q.platforms
        /\ narrow.includeArchived = q.includeArchived
    <2>1. q = [f \in AppFields |-> q[f]] /\ q.deviceLimit \in Nat
      BY QuestionsAssumption
    <2>2. DOMAIN q = AppFields
      BY <2>1
    <2>. QED BY <2>1, <2>2 DEF AppFields
  <1>2. ListScope(narrow) = scope
    BY <1>1 DEF ListScope, DistributionScope, Open
  <1>3. \A d, x : x \in ListedOn(d, narrow) <=> \E i \in DOMAIN AppsOf(d) : FoundIn(Shown(AppsOf(d)[i].name), n) /\ x = AppRow(d, i)
    <2>1. \A name : Matches(name, <<n>>) <=> FoundIn(name, n)
      BY DEF Matches
    <2>. HIDE DEF narrow
    <2>. QED BY <1>1, <2>1 DEF ListedOn
  <1>4. \A x : x \in ToSet(list) <=> \E d, i : Showing(d, i) /\ x = AppRow(d, i)
    <2>1. \A x : x \in ToSet(list) <=> \E d \in ListScope(narrow) : x \in ListedOn(d, narrow)
      <3>. HIDE DEF narrow
      <3>. QED BY <1>1, AppListIs
    <2>. HIDE DEF narrow, list, scope
    <2>. QED BY <1>2, <1>3, <2>1
  <1>5. \A m : m \in matched <=> \E d, i : Having(d, i) /\ m = <<d, Told(d, i)>>
    <2>1. \A d, i : i \in FindsIn(d, n) <=> i \in DOMAIN AppsOf(d) /\ AppsOf(d)[i].name # NoText /\ FoundIn(AppsOf(d)[i].name, n)
      BY DEF FindsIn
    <2>. HIDE DEF scope, Told
    <2>. QED BY <2>1
  <1>6. spread = [total |-> Cardinality({m[1] : m \in matched}),
                  versions |-> [v \in {m[2] : m \in matched} |-> Cardinality({m \in matched : m[2] = v})]]
    BY DEF Distribution
  <1>7. \A d, i : /\ AppRow(d, i).device = d /\ Trimmed(AppRow(d, i).version) = Told(d, i)
                  /\ <<d, Told(d, i)>>[1] = d /\ <<d, Told(d, i)>>[2] = Told(d, i)
    BY DEF AppRow
  <1>8. /\ \A d, i : Having(d, i) => Showing(d, i)
        /\ ~FoundIn(UnknownApplication, n) => \A d, i : Having(d, i) <=> Showing(d, i)
    BY DEF Shown
  <1>17. IsFiniteSet(On(list))
    <2>1. \A d, i : Showing(d, i) => d \in Devices
      BY DEF DistributionScope, Registered
    <2>2. On(list) \subseteq Devices
      <3>. HIDE DEF Showing, list, Told
      <3>. QED BY <1>4, <1>7, <2>1
    <2>. QED BY <2>1, <2>2, FinitelyMany, FS_Subset
  <1>. HIDE DEF narrow, list, spread, matched, Having, Showing, Told
  <1>9. /\ \A m \in matched : \E i : Having(m[1], i) /\ m[2] = Told(m[1], i)
        /\ \A d, i : Having(d, i) => \E m \in matched : m[1] = d /\ m[2] = Told(d, i)
    <2>1. ASSUME NEW m \in matched PROVE \E i : Having(m[1], i) /\ m[2] = Told(m[1], i)
      <3>1. PICK d, i : Having(d, i) /\ m = <<d, Told(d, i)>>
        BY <1>5
      <3>2. m[1] = d /\ m[2] = Told(d, i)
        BY <3>1
      <3>. QED BY <3>1, <3>2
    <2>2. ASSUME NEW d, NEW i, Having(d, i) PROVE \E m \in matched : m[1] = d /\ m[2] = Told(d, i)
      <3>1. <<d, Told(d, i)>> \in matched
        BY <1>5, <2>2
      <3>. QED BY <3>1
    <2>. QED BY <2>1, <2>2
  <1>10. /\ \A d : d \in {m[1] : m \in matched} <=> \E i : Having(d, i)
         /\ \A d : d \in On(list) <=> \E i : Showing(d, i)
    BY <1>4, <1>7, <1>9
  <1>11. spread.total <= Cardinality(On(list))
    <2>. DEFINE some == {m[1] : m \in matched}
    <2>1. some \subseteq On(list)
      <3>. HIDE DEF On, some
      <3>. QED BY <1>8, <1>10 DEF some
    <2>. HIDE DEF some
    <2>2. Cardinality(some) <= Cardinality(On(list))
      BY <1>17, <2>1, FS_Subset
    <2>. QED BY <1>6, <2>2 DEF some
  <1>12. On(Page(list, Cardinality(On(list)), 0)) = On(list)
    BY <1>1, FirstRowsShowAll DEF list
  <1>. DEFINE With(v) == {x \in ToSet(list) : Trimmed(x.version) = v}
  <1>13. ASSUME ~FoundIn(UnknownApplication, n)
         PROVE  /\ spread.total = Cardinality(On(list))
                /\ DOMAIN spread.versions = {Trimmed(r.version) : r \in ToSet(list)}
                /\ \A v \in DOMAIN spread.versions : spread.versions[v] = Cardinality({r.device : r \in With(v)})
    <2>1. \A d, i : Having(d, i) <=> Showing(d, i)
      BY <1>8, <1>13
    <2>2. {m[1] : m \in matched} = On(list)
      <3>. HIDE DEF On
      <3>. QED BY <1>10, <2>1
    <2>3. {m[2] : m \in matched} = {Trimmed(r.version) : r \in ToSet(list)}
      <3>1. \A v : v \in {m[2] : m \in matched} <=> \E d, i : Having(d, i) /\ v = Told(d, i)
        BY <1>9
      <3>2. \A v : v \in {Trimmed(r.version) : r \in ToSet(list)} <=> \E d, i : Having(d, i) /\ v = Told(d, i)
        BY <1>4, <1>7, <2>1
      <3>. QED BY <3>1, <3>2
    <2>4. ASSUME NEW v
          PROVE  Cardinality({m \in matched : m[2] = v}) = Cardinality({r.device : r \in With(v)})
      <3>. DEFINE A == {r.device : r \in With(v)}
                  B == {m \in matched : m[2] = v}
      <3>1. \A d : d \in A <=> \E i : Having(d, i) /\ Told(d, i) = v
        BY <1>4, <1>7, <2>1
      <3>2. \A m : m \in B <=> \E d, i : Having(d, i) /\ Told(d, i) = v /\ m = <<d, v>>
        BY <1>5, <1>7
      <3>3. A \subseteq On(list)
        OBVIOUS
      <3>. HIDE DEF A, B
      <3>4. IsFiniteSet(A)
        BY <1>17, <3>3, FS_Subset
      <3>5. \A m : m \in B <=> \E d \in A : m = <<d, v>>
        BY <3>1, <3>2
      <3>6. [d \in A |-> <<d, v>>] \in Bijection(A, B)
        BY <3>5 DEF Bijection, Injection, Surjection, IsInjective
      <3>7. Cardinality(B) = Cardinality(A)
        BY <3>4, <3>6, FS_Bijection DEF ExistsBijection
      <3>. QED BY <3>7 DEF A, B
    <2>. HIDE DEF With
    <2>5. spread.total = Cardinality(On(list))
      BY <1>6, <2>2
    <2>6. DOMAIN spread.versions = {Trimmed(r.version) : r \in ToSet(list)}
      BY <1>6, <2>3
    <2>7. \A v \in DOMAIN spread.versions : spread.versions[v] = Cardinality({m \in matched : m[2] = v})
      BY <1>6
    <2>. QED BY <2>4, <2>5, <2>6, <2>7
  <1>. QED BY <1>11, <1>12, <1>13, Zenon DEF SpreadAsListed, list, spread, narrow

LEMMA ListedNamesAreOffered ==
  ASSUME Documents, topic = "applications", NEW q \in AppQuestions, q.deviceLimit >= Cardinality(Devices)
  PROVE  {Stripped(r.name) : r \in ToSet(AppList(q))} \ {UnknownApplication} \subseteq FilterOptions(q).names
  <1>1. \A x : x \in ToSet(AppList(q)) <=> \E d \in ListScope(q) : x \in ListedOn(d, q)
    BY AppListIs, QuestionsAssumption
  <1>2. ASSUME NEW x \in ToSet(AppList(q)), Stripped(x.name) # UnknownApplication PROVE Stripped(x.name) \in FilterOptions(q).names
    <2>0. PICK d \in ListScope(q) : \E i \in DOMAIN AppsOf(d) : x = AppRow(d, i)
      BY <1>1 DEF ListedOn
    <2>1. PICK i \in DOMAIN AppsOf(d) : x = AppRow(d, i)
      BY <2>0
    <2>. DEFINE own == AppsOf(d)[i].name
    <2>2. x.name = Shown(own)
      BY <2>1 DEF AppRow
    <2>3. own # NoText /\ x.name = own
      <3>1. Stripped(UnknownApplication) = UnknownApplication
        <4>1. \A a, b, c, v : LET u == [base |-> a, tail |-> b, caps |-> c, padded |-> v] IN [u EXCEPT !.padded = v] = u
          OBVIOUS
        <4>. QED BY <4>1, Zenon DEF Stripped, UnknownApplication
      <3>. QED BY <1>2, <2>2, <3>1 DEF Shown
    <2>. DEFINE listed == {e \in Registered \ Placeholders : q.includeArchived \/ e \notin archived}
                names == UNION {{[name |-> Stripped(AppsOf(e)[j].name), system |-> Facts[e].system] :
                                   j \in {k \in DOMAIN AppsOf(e) : AppsOf(e)[k].name # NoText}} : e \in listed}
    <2>4. d \in listed
      BY <2>0 DEF ListScope, Open
    <2>. HIDE DEF listed
    <2>5. [name |-> Stripped(own), system |-> Facts[d].system] \in names
      BY <2>1, <2>3, <2>4
    <2>6. FilterOptions(q).names = {m.name : m \in names}
      BY DEF FilterOptions, listed
    <2>. HIDE DEF names, own
    <2>. QED BY <2>3, <2>5, <2>6
  <1>. QED BY <1>2

LEMMA InstalledAreListed ==
  ASSUME Documents, topic = "applications", NEW q \in AppQuestions, NEW n, q.deviceLimit >= Cardinality(Devices),
         q.platforms = {}, q.names = <<>>, q.picks = <<>>, ~FoldsInto(UnknownApplication, n)
  PROVE  Installed(Canonical(n), q) = {r.device : r \in {x \in ToSet(AppList(q)) : FoldsInto(x.name, n)}}
  <1>1. \A x : x \in ToSet(AppList(q)) <=> \E d \in ListScope(q) : x \in ListedOn(d, q)
    BY AppListIs, QuestionsAssumption
  <1>2. \A d, x : x \in ListedOn(d, q) <=> \E i \in DOMAIN AppsOf(d) : x = AppRow(d, i)
    BY DEF ListedOn, Matches
  <1>3. UsageScope(q) = ListScope(q)
    BY DEF UsageScope, ListScope, Wanted
  <1>4. \A d, i : AppRow(d, i).device = d /\ AppRow(d, i).name = Shown(AppsOf(d)[i].name)
    BY DEF AppRow
  <1>5. \A d : d \in Installed(Canonical(n), q) <=>
                 d \in ListScope(q) /\ \E i \in DOMAIN AppsOf(d) : AppsOf(d)[i].name # NoText /\ FoldsInto(AppsOf(d)[i].name, n)
    BY <1>3 DEF Installed, FoldsInto
  <1>6. \A d, i : FoldsInto(Shown(AppsOf(d)[i].name), n) <=> AppsOf(d)[i].name # NoText /\ FoldsInto(AppsOf(d)[i].name, n)
    BY DEF Shown
  <1>. DEFINE There == {r.device : r \in {x \in ToSet(AppList(q)) : FoldsInto(x.name, n)}}
  <1>7. \A d : d \in There <=>
                 d \in ListScope(q) /\ \E i \in DOMAIN AppsOf(d) : FoldsInto(Shown(AppsOf(d)[i].name), n)
    BY <1>1, <1>2, <1>4
  <1>8. Installed(Canonical(n), q) = There
    <2>. HIDE DEF There
    <2>. QED BY <1>5, <1>6, <1>7
  <1>. QED BY <1>8

(* What the filters offer and the distribution counts is what the list of  *)
(* applications shows.                                                     *)
THEOREM AppsAreListed == Spec => []AppsAddUp
  <1>1. Documents => AppsAddUp
    <2>. SUFFICES ASSUME Documents, topic = "applications", NEW q \in AppQuestions, NEW n \in Names,
                         q.deviceLimit >= Cardinality(Devices)
                  PROVE  /\ SpreadAsListed(q, n)
                         /\ {Stripped(r.name) : r \in ToSet(AppList(q))} \ {UnknownApplication} \subseteq FilterOptions(q).names
                         /\ q.platforms = {} /\ q.names = <<>> /\ q.picks = <<>> /\ ~FoldsInto(UnknownApplication, n) =>
                              Installed(Canonical(n), q) = {r.device : r \in {x \in ToSet(AppList(q)) : FoldsInto(x.name, n)}}
      BY Zenon DEF AppsAddUp
    <2>1. SpreadAsListed(q, n)
      BY SpreadIsListed
    <2>2. {Stripped(r.name) : r \in ToSet(AppList(q))} \ {UnknownApplication} \subseteq FilterOptions(q).names
      BY ListedNamesAreOffered
    <2>3. q.platforms = {} /\ q.names = <<>> /\ q.picks = <<>> /\ ~FoldsInto(UnknownApplication, n) =>
            Installed(Canonical(n), q) = {r.device : r \in {x \in ToSet(AppList(q)) : FoldsInto(x.name, n)}}
      BY InstalledAreListed
    <2>. QED BY <2>1, <2>2, <2>3
  <1>. QED BY <1>1, DocumentsKept, PTL

(* Every picker, filter and summary of the reports offers what the lists   *)
(* they are made for then show.                                            *)
THEOREM ListsAreTrue == Spec => []ListsAddUp
  <1>1. Spec => [](AppsAddUp /\ InstallsAddUp /\ UpdatesAddUp /\ VulnerabilitiesAddUp)
    BY AppsAreListed, InstallsAreListed, UpdatesAreListed, VulnerabilitiesAreListed, PTL
  <1>. QED BY <1>1 DEF ListsAddUp

-----------------------------------------------------------------------------
(***************************************************************************)
(* What the usage reports count.                                           *)
(***************************************************************************)
(* The history of a device is finite, its days are days, and its names are spelled out. *)
UsageDocuments ==
  topic = "usage" => \A d \in Registered : IsFiniteSet(row[d]) /\ \A e \in row[d] : e.day \in Int /\ e.user \in Int /\ Spelled(e.app)

LEMMA UsageDocumentsStep == Documents /\ UsageDocuments /\ [Next]_vars => UsageDocuments'
  <1>. DEFINE Fine(h) == IsFiniteSet(h) /\ \A e \in h : e.day \in Int /\ e.user \in Int /\ Spelled(e.app)
  <1>. SUFFICES ASSUME Documents, UsageDocuments, [Next]_vars PROVE UsageDocuments'
    OBVIOUS
  <1>1. topic = "usage" => \A d \in Devices : row[d] # NoRow => Fine(row[d])
    BY DEF UsageDocuments, Registered
  <1>2. topic' = topic /\ \A d \in Devices : topic = "usage" /\ row'[d] # NoRow => Fine(row'[d])
    <2>1. ASSUME NEW d \in Devices, NEW p \in Platforms(topic, d), NEW payload \in Payloads(topic, d), CheckIn(d, p, payload),
                 topic = "usage"
          PROVE  \A e \in Devices : row'[e] # NoRow => Fine(row'[e])
      <3>. DEFINE old == IF row[d] = NoRow THEN {} ELSE row[d]
                  new == {[entry EXCEPT !.day = today] : entry \in payload}
      <3>1. row' = [row EXCEPT ![d] = old \cup new]
        BY <2>1 DEF CheckIn, Upserted
      <3>2. IsFiniteSet(old) /\ \A e \in old : e.day \in Int /\ e.user \in Int /\ Spelled(e.app)
        BY <1>1, <2>1, FS_EmptySet
      <3>3. IsFiniteSet(payload) /\ \A e \in payload : {"app", "day", "user"} \subseteq DOMAIN e /\ e.user \in Int /\ Spelled(e.app)
        BY <2>1, UsageAssumption
      <3>4. IsFiniteSet(new)
        <4>. DEFINE f == [entry \in payload |-> [entry EXCEPT !.day = today]]
        <4>1. new = {f[entry] : entry \in payload}
          OBVIOUS
        <4>. HIDE DEF f, new
        <4>. QED BY <3>3, <4>1, FiniteImage
      <3>5. \A e \in new : e.day \in Int /\ e.user \in Int /\ Spelled(e.app)
        <4>1. today \in Int
          BY DEF Documents
        <4>2. ASSUME NEW entry \in payload
              PROVE  /\ [entry EXCEPT !.day = today].day \in Int /\ [entry EXCEPT !.day = today].user \in Int
                     /\ Spelled([entry EXCEPT !.day = today].app)
          <5>1. /\ [entry EXCEPT !.day = today].day = today /\ [entry EXCEPT !.day = today].user = entry.user
                /\ [entry EXCEPT !.day = today].app = entry.app
            BY <3>3
          <5>. QED BY <3>3, <4>1, <5>1
        <4>. QED BY <4>2
      <3>. HIDE DEF old, new
      <3>6. Fine(old \cup new)
        BY <3>2, <3>4, <3>5, FS_Union
      <3>. HIDE DEF Fine
      <3>. QED BY <1>1, <2>1, <3>1, <3>6 DEF Documents
    <2>2. ASSUME NEW d \in Devices, NEW p \in Platforms(topic, d), NEW payload \in Payloads(topic, d), CheckIn(d, p, payload)
          PROVE  topic' = topic
      BY <2>2 DEF CheckIn
    <2>3. CASE \E d \in Devices : \E p : CheckInWithout(d, p)
      BY <1>1, <2>3 DEF CheckInWithout
    <2>4. CASE \E d \in Devices : Archive(d) \/ Unarchive(d)
      BY <1>1, <2>4 DEF Archive, Unarchive
    <2>5. ASSUME NEW d \in Devices, Delete(d)
          PROVE  topic' = topic /\ \A e \in Devices : topic = "usage" /\ row'[e] # NoRow => Fine(row'[e])
      <3>. HIDE DEF Fine
      <3>. QED BY <1>1, <2>5 DEF Delete, Documents
    <2>6. CASE Midnight
      BY <1>1, <2>6 DEF Midnight
    <2>7. CASE WriteStep \/ CardStep \/ UNCHANGED vars
      BY <1>1, <2>7 DEF WriteStep, CardStep, vars, fleet
    <2>. HIDE DEF Fine
    <2>. QED BY <2>1, <2>2, <2>3, <2>4, <2>5, <2>6, <2>7 DEF Next, FleetNext
  <1>. QED BY <1>2 DEF UsageDocuments, Registered

LEMMA UsageDocumentsKept == Spec => []UsageDocuments
  <1>1. Init => UsageDocuments
    <2>. SUFFICES ASSUME Init, topic = "usage", NEW d \in Registered
                  PROVE  IsFiniteSet(row[d]) /\ \A e \in row[d] : e.day \in Int /\ e.user \in Int /\ Spelled(e.app)
      BY DEF UsageDocuments
    <2>1. d \in Devices /\ row[d] \in Older("usage", d)
      BY DEF Init, FleetInit, Registered
    <2>. QED BY <2>1, UsageAssumption
  <1>. QED BY <1>1, UsageDocumentsStep, DocumentsKept, PTL DEF Spec

(* Names that differ by case fold alike. *)
LEMMA FoldAlike ==
  ASSUME NEW a, NEW b, Spelled(a), Spelled(b)
  PROVE  /\ Lower(a) = Lower(b) => Lower(Canonical(a)) = Lower(Canonical(b))
         /\ Lower(Lower(a)) = Lower(a)
         /\ Spelled(Canonical(a)) /\ Spelled(Lower(a))
  <1>1. \A n : Spelled(n) => Lower(n) = [base |-> n.base, tail |-> n.tail, caps |-> FALSE, padded |-> n.padded]
    <2>1. \A n, x : Spelled(n) => [n EXCEPT !.caps = x] = [base |-> n.base, tail |-> n.tail, caps |-> x, padded |-> n.padded]
      BY DEF Spelled
    <2>. QED BY <2>1, Zenon DEF Lower
  <1>2. \A w, x, y, z : Spelled([base |-> w, tail |-> x, caps |-> y, padded |-> z])
    BY DEF Spelled
  <1>3. /\ \A n : Spelled(Canonical(n)) /\ Canonical(n).padded = FALSE
        /\ \A m, n : m.base = n.base /\ m.tail = n.tail => /\ Canonical(m).base = Canonical(n).base
                                                         /\ Canonical(m).tail = Canonical(n).tail
    BY <1>2 DEF Canonical
  <1>4. Lower(a) = Lower(b) => a.base = b.base /\ a.tail = b.tail
    BY <1>1
  <1>5. Spelled(Canonical(a)) /\ Spelled(Canonical(b)) /\ Spelled(Lower(a))
    BY <1>1, <1>2, <1>3
  <1>6. ASSUME Lower(a) = Lower(b) PROVE Lower(Canonical(a)) = Lower(Canonical(b))
    <2>1. /\ Canonical(a).base = Canonical(b).base /\ Canonical(a).tail = Canonical(b).tail
          /\ Canonical(a).padded = Canonical(b).padded
      BY <1>3, <1>4, <1>6
    <2>2. /\ Lower(Canonical(a)) = [base |-> Canonical(a).base, tail |-> Canonical(a).tail, caps |-> FALSE, padded |-> Canonical(a).padded]
          /\ Lower(Canonical(b)) = [base |-> Canonical(b).base, tail |-> Canonical(b).tail, caps |-> FALSE, padded |-> Canonical(b).padded]
      BY <1>1, <1>5, Zenon
    <2>. QED BY <2>1, <2>2
  <1>7. Lower(Lower(a)) = Lower(a)
    BY <1>1, <1>5
  <1>. QED BY <1>5, <1>6, <1>7

LEMMA HistoryIs ==
  ASSUME NEW D, NEW q, NEW r
  PROVE  r \in History(D, q) <=> \E d \in D : \E e \in row[d] : Recent(e, q) /\ r = [device |-> d, entry |-> e]
  <1>. DEFINE Of(d) == {[device |-> d, entry |-> e] : e \in {x \in row[d] : Recent(x, q)}}
  <1>1. History(D, q) = UNION {Of(d) : d \in D}
    BY DEF History
  <1>2. \A d : r \in Of(d) <=> \E e \in row[d] : Recent(e, q) /\ r = [device |-> d, entry |-> e]
    OBVIOUS
  <1>. HIDE DEF Of
  <1>. QED BY <1>1, <1>2

LEMMA HistoryIsFinite ==
  ASSUME UsageDocuments, topic = "usage", NEW D \in SUBSET Registered, NEW q
  PROVE  /\ IsFiniteSet(History(D, q))
         /\ \A r \in History(D, q) : r.device \in D /\ Spelled(r.entry.app)
  <1>. DEFINE Of == [d \in D |-> {[device |-> d, entry |-> e] : e \in {x \in row[d] : Recent(x, q)}}]
  <1>1. IsFiniteSet(D)
    <2>1. D \subseteq Devices
      BY DEF Registered
    <2>. QED BY <2>1, FinitelyMany, FS_Subset
  <1>2. \A d \in D : IsFiniteSet(Of[d])
    <2>. SUFFICES ASSUME NEW d \in D PROVE IsFiniteSet(Of[d])
      OBVIOUS
    <2>. DEFINE S == {x \in row[d] : Recent(x, q)}
                f == [e \in S |-> [device |-> d, entry |-> e]]
    <2>1. S \subseteq row[d]
      OBVIOUS
    <2>2. IsFiniteSet(S)
      <3>. HIDE DEF S
      <3>. QED BY <2>1, FS_Subset DEF UsageDocuments
    <2>3. Of[d] = {f[e] : e \in S}
      OBVIOUS
    <2>. HIDE DEF Of, S, f
    <2>. QED BY <2>2, <2>3, FiniteImage
  <1>3. History(D, q) = UNION {Of[d] : d \in D}
    BY DEF History
  <1>4. IsFiniteSet(History(D, q))
    <2>. HIDE DEF Of
    <2>. QED BY <1>1, <1>2, <1>3, FiniteUnion
  <1>5. ASSUME NEW r \in History(D, q) PROVE r.device \in D /\ Spelled(r.entry.app)
    <2>1. PICK d \in D : \E e \in row[d] : Recent(e, q) /\ r = [device |-> d, entry |-> e]
      BY HistoryIs
    <2>2. PICK e \in row[d] : r = [device |-> d, entry |-> e]
      BY <2>1
    <2>3. Spelled(e.app)
      BY DEF UsageDocuments
    <2>. QED BY <2>2, <2>3
  <1>. QED BY <1>4, <1>5

LEMMA SumOfReport ==
  ASSUME NEW A, IsFiniteSet(A), NEW B, \A r \in A : IsFiniteSet(B[r]) /\ r.launches = Cardinality(B[r]),
         \A r, s \in A : r # s => B[r] \cap B[s] = {}
  PROVE  SumOf(A) = Cardinality(UNION {B[r] : r \in A})
  <1>. DEFINE w == [r \in A |-> r.launches]
  <1>1. SumOf(A) = SumFunctionOnSet(w, A)
    BY DEF SumOf, SumFunction
  <1>2. \A r \in A : w[r] = Cardinality(B[r])
    OBVIOUS
  <1>. HIDE DEF w
  <1>. QED BY <1>1, <1>2, SumOfSizes

(* The rows of the history that fold into a name. *)
Folding(n, q) == {x \in UsageRows(q) : Lower(Canonical(x.entry.app)) = Lower(n)}

LEMMA UsersAreNumbers ==
  ASSUME UsageDocuments, topic = "usage", NEW q
  PROVE  \A x \in UsageRows(q) : x.entry.user \in Int
  <1>1. UsageScope(q) \subseteq Registered
    BY DEF UsageScope
  <1>. SUFFICES ASSUME NEW x \in UsageRows(q) PROVE x.entry.user \in Int
    OBVIOUS
  <1>2. x \in History(UsageScope(q), q)
    BY DEF UsageRows
  <1>3. PICK d \in UsageScope(q) : \E e \in row[d] : Recent(e, q) /\ x = [device |-> d, entry |-> e]
    BY <1>2, HistoryIs
  <1>. QED BY <1>1, <1>3 DEF UsageDocuments

LEMMA UsageRowsAre ==
  ASSUME UsageDocuments, topic = "usage", NEW q
  PROVE  /\ IsFiniteSet(UsageRows(q))
         /\ \A x \in UsageRows(q) : x.device \in UsageScope(q) /\ Spelled(x.entry.app) /\ BucketOf(x.entry.app, q) \in Buckets(q)
         /\ q.picks = <<>> => /\ UsageRows(q) = History(UsageScope(q), q)
                              /\ Buckets(q) = {Canonical(x.entry.app) : x \in UsageRows(q)}
                              /\ \A b : RowsBehind(b, q) = {x \in UsageRows(q) : Canonical(x.entry.app) = b}
  <1>1. UsageScope(q) \in SUBSET Registered
    BY DEF UsageScope
  <1>2. /\ IsFiniteSet(History(UsageScope(q), q))
        /\ \A r \in History(UsageScope(q), q) : r.device \in UsageScope(q) /\ Spelled(r.entry.app)
    BY <1>1, HistoryIsFinite
  <1>3. UsageRows(q) \subseteq History(UsageScope(q), q)
    BY DEF UsageRows
  <1>4. IsFiniteSet(UsageRows(q))
    BY <1>2, <1>3, FS_Subset
  <1>5. \A x \in UsageRows(q) : BucketOf(x.entry.app, q) \in Buckets(q)
    BY DEF Buckets
  <1>6. ASSUME q.picks = <<>>
        PROVE  /\ UsageRows(q) = History(UsageScope(q), q)
               /\ Buckets(q) = {Canonical(x.entry.app) : x \in UsageRows(q)}
               /\ \A b : RowsBehind(b, q) = {x \in UsageRows(q) : Canonical(x.entry.app) = b}
    <2>1. \A app : BucketOf(app, q) = Canonical(app)
      BY <1>6 DEF BucketOf
    <2>2. DOMAIN q.picks = {}
      BY <1>6
    <2>3. UsageRows(q) = History(UsageScope(q), q)
      BY <1>6 DEF UsageRows
    <2>4. Buckets(q) = {Canonical(x.entry.app) : x \in UsageRows(q)}
      BY <2>1, <2>2 DEF Buckets
    <2>5. \A b : RowsBehind(b, q) = {x \in UsageRows(q) : Canonical(x.entry.app) = b}
      BY <2>1 DEF RowsBehind
    <2>. QED BY <2>3, <2>4, <2>5
  <1>. QED BY <1>2, <1>3, <1>4, <1>5, <1>6

LEMMA ReportIs ==
  ASSUME UsageDocuments, topic = "usage", NEW q, q.minLaunches = 0 \/ q.picks # <<>>
  PROVE  \A r : r \in UsageReport(q) <=> \E b \in Buckets(q) : r = ReportRow(b, q)
  <1>1. \A b : RowsBehind(b, q) \subseteq UsageRows(q)
    BY DEF RowsBehind
  <1>2. \A b : Cardinality(RowsBehind(b, q)) \in Nat
    BY <1>1, UsageRowsAre, FS_Subset, FS_CardinalityType
  <1>3. \A b : ReportRow(b, q).launches = Cardinality(RowsBehind(b, q))
    BY DEF ReportRow
  <1>. QED BY <1>2, <1>3 DEF UsageReport

(* The rows reported under the spellings of a name count what folds into it. *)
LEMMA ReportedAlike ==
  ASSUME UsageDocuments, topic = "usage", NEW q, q.minLaunches = 0, q.picks = <<>>, NEW n
  PROVE  /\ SumOf(ReportedAs(n, q)) = Cardinality(Folding(n, q))
         /\ UNION {r.devices : r \in ReportedAs(n, q)} = DevicesOf(Folding(n, q))
  <1>. DEFINE A == ReportedAs(n, q)
              B == [r \in A |-> RowsBehind(r.name, q)]
  <1>1. \A b : ReportRow(b, q).name = b /\ ReportRow(b, q).launches = Cardinality(RowsBehind(b, q))
               /\ ReportRow(b, q).devices = DevicesOf(RowsBehind(b, q))
    BY DEF ReportRow
  <1>2. \A r : r \in A <=> \E b \in Buckets(q) : Lower(b) = Lower(n) /\ r = ReportRow(b, q)
    BY <1>1, ReportIs DEF ReportedAs
  <1>3. /\ IsFiniteSet(UsageRows(q)) /\ Buckets(q) = {Canonical(x.entry.app) : x \in UsageRows(q)}
        /\ \A b : RowsBehind(b, q) = {x \in UsageRows(q) : Canonical(x.entry.app) = b}
    BY UsageRowsAre
  <1>4. IsFiniteSet(A)
    <2>. DEFINE f == [x \in UsageRows(q) |-> ReportRow(Canonical(x.entry.app), q)]
    <2>1. \A r \in A : \E x \in UsageRows(q) : r = f[x]
      BY <1>2, <1>3
    <2>. HIDE DEF A, f
    <2>2. IsFiniteSet({f[x] : x \in UsageRows(q)})
      BY <1>3, FiniteImage
    <2>3. A \subseteq {f[x] : x \in UsageRows(q)}
      BY <2>1
    <2>. QED BY <2>2, <2>3, FS_Subset
  <1>. HIDE DEF A
  <1>5. \A r \in A : IsFiniteSet(B[r]) /\ r.launches = Cardinality(B[r]) /\ r.devices = DevicesOf(B[r])
    <2>1. \A b : IsFiniteSet(RowsBehind(b, q))
      <3>1. \A b : RowsBehind(b, q) \subseteq UsageRows(q)
        BY <1>3
      <3>. QED BY <1>3, <3>1, FS_Subset
    <2>2. \A r \in A : B[r] = RowsBehind(r.name, q)
      OBVIOUS
    <2>. HIDE DEF B
    <2>. QED BY <1>1, <1>2, <2>1, <2>2
  <1>6. \A r, s \in A : r # s => B[r] \cap B[s] = {}
    <2>1. \A r, s \in A : r # s => r.name # s.name
      BY <1>1, <1>2
    <2>2. \A b, c : b # c => RowsBehind(b, q) \cap RowsBehind(c, q) = {}
      BY <1>3
    <2>3. \A r \in A : B[r] = RowsBehind(r.name, q)
      OBVIOUS
    <2>. HIDE DEF B
    <2>. QED BY <2>1, <2>2, <2>3
  <1>7. \A x : x \in Folding(n, q) <=> \E r \in A : x \in B[r]
    <2>1. \A x, b : x \in RowsBehind(b, q) <=> x \in UsageRows(q) /\ Canonical(x.entry.app) = b
      BY <1>3
    <2>2. \A r \in A : B[r] = RowsBehind(r.name, q)
      OBVIOUS
    <2>3. \A b : b \in Buckets(q) <=> \E x \in UsageRows(q) : b = Canonical(x.entry.app)
      BY <1>3
    <2>4. \A x : x \in Folding(n, q) <=> x \in UsageRows(q) /\ Lower(Canonical(x.entry.app)) = Lower(n)
      BY DEF Folding
    <2>. HIDE DEF B
    <2>5. ASSUME NEW x, x \in Folding(n, q) PROVE \E r \in A : x \in B[r]
      <3>1. Canonical(x.entry.app) \in Buckets(q) /\ Lower(Canonical(x.entry.app)) = Lower(n) /\ x \in UsageRows(q)
        BY <2>3, <2>4, <2>5
      <3>2. ReportRow(Canonical(x.entry.app), q) \in A
        BY <1>2, <3>1
      <3>. QED BY <1>1, <2>1, <2>2, <3>1, <3>2
    <2>6. ASSUME NEW x, NEW r \in A, x \in B[r] PROVE x \in Folding(n, q)
      <3>1. PICK b \in Buckets(q) : Lower(b) = Lower(n) /\ r = ReportRow(b, q)
        BY <1>2
      <3>2. r.name = b
        BY <1>1, <3>1
      <3>3. x \in RowsBehind(b, q)
        BY <2>2, <2>6, <3>2
      <3>. QED BY <2>1, <2>4, <3>1, <3>3
    <2>. QED BY <2>5, <2>6
  <1>8. Folding(n, q) = UNION {B[r] : r \in A}
    <2>. HIDE DEF B
    <2>. QED BY <1>7
  <1>9. SumOf(A) = Cardinality(Folding(n, q))
    <2>. HIDE DEF B
    <2>. QED BY <1>4, <1>5, <1>6, <1>8, SumOfReport
  <1>10. UNION {r.devices : r \in A} = DevicesOf(Folding(n, q))
    <2>1. \A d : d \in UNION {r.devices : r \in A} <=> \E r \in A : d \in r.devices
      OBVIOUS
    <2>2. \A d, rows : d \in DevicesOf(rows) <=> \E x \in rows : d = x.device
      BY DEF DevicesOf
    <2>. HIDE DEF B
    <2>3. \A d : d \in UNION {r.devices : r \in A} <=> d \in DevicesOf(Folding(n, q))
      BY <1>5, <1>7, <2>1, <2>2
    <2>. QED BY <2>3
  <1>. QED BY <1>9, <1>10 DEF A

(* The names behind a name that folds into itself are those that fold into it. *)
LEMMA DrilledAlike ==
  ASSUME UsageDocuments, topic = "usage", NEW q, q.minLaunches = 0, q.picks = <<>>, q.platforms = {},
         NEW n \in {r.name : r \in UsageReport(q)}, Settled(n)
  PROVE  /\ SumOf(DrillDown(n, q)) = Cardinality(Folding(n, q))
         /\ {x.device : x \in DrillDown(n, q)} = DevicesOf(Folding(n, q))
  <1>. DEFINE open == {d \in Registered : Open(d, q)}
              known == {r.entry.app : r \in History(Registered, q)}
              members == {Lower(m) : m \in {k \in known : \/ Lower(k) = Lower(n)
                                                         \/ Lower(Canonical(k)) = Lower(Canonical(n))}}
              R == {r \in History(open, q) : Lower(r.entry.app) \in MemberNames(n, q)}
              On(d) == {r \in R : r.device = d}
              Line(d) == [device |-> d, launches |-> Cardinality(On(d)), users |-> Humans(On(d)),
                          variants |-> {Canonical(r.entry.app) : r \in On(d)}]
  <1>1. UsageScope(q) = open
    BY DEF UsageScope, Wanted
  <1>2. /\ IsFiniteSet(UsageRows(q)) /\ UsageRows(q) = History(open, q)
        /\ Buckets(q) = {Canonical(x.entry.app) : x \in UsageRows(q)}
        /\ \A x \in UsageRows(q) : Spelled(x.entry.app)
    <2>. HIDE DEF open
    <2>. QED BY <1>1, UsageRowsAre
  <1>3. \A k \in known : Spelled(k)
    <2>1. \A r \in History(Registered, q) : Spelled(r.entry.app)
      BY HistoryIsFinite
    <2>. QED BY <2>1
  <1>4. \A x \in UsageRows(q) : x.entry.app \in known
    <2>1. open \subseteq Registered
      OBVIOUS
    <2>. HIDE DEF open
    <2>2. History(open, q) \subseteq History(Registered, q)
      BY <2>1, HistoryIs
    <2>. QED BY <1>2, <2>2
  <1>5. n \in Buckets(q)
    <2>1. \A b : ReportRow(b, q).name = b
      BY DEF ReportRow
    <2>. QED BY <2>1, ReportIs
  <1>6. PICK x0 \in UsageRows(q) : n = Canonical(x0.entry.app)
    BY <1>2, <1>5
  <1>7. Spelled(n) /\ Lower(Canonical(n)) = Lower(n)
    BY <1>2, <1>6, FoldAlike DEF Settled
  <1>. HIDE DEF known
  <1>8. \A k \in known : Lower(k) = Lower(n) => Lower(Canonical(k)) = Lower(n)
    BY <1>3, <1>7, FoldAlike
  <1>9. \A l : l \in members <=> \E k \in known : l = Lower(k) /\ Lower(Canonical(k)) = Lower(n)
    BY <1>7, <1>8
  <1>10. MemberNames(n, q) = members
    <2>1. Lower(x0.entry.app) \in members
      BY <1>4, <1>6, <1>9
    <2>2. MemberNames(n, q) = IF members = {} THEN {Lower(n)} ELSE members
      BY DEF MemberNames, known
    <2>. HIDE DEF members
    <2>. QED BY <2>1, <2>2
  <1>. HIDE DEF members
  <1>11. \A x \in UsageRows(q) : Lower(x.entry.app) \in members <=> Lower(Canonical(x.entry.app)) = Lower(n)
    <2>1. ASSUME NEW x \in UsageRows(q), Lower(x.entry.app) \in members PROVE Lower(Canonical(x.entry.app)) = Lower(n)
      <3>1. PICK k \in known : Lower(x.entry.app) = Lower(k) /\ Lower(Canonical(k)) = Lower(n)
        BY <1>9, <2>1
      <3>2. Spelled(k) /\ Spelled(x.entry.app)
        BY <1>2, <1>3
      <3>. QED BY <3>1, <3>2, FoldAlike
    <2>2. ASSUME NEW x \in UsageRows(q), Lower(Canonical(x.entry.app)) = Lower(n) PROVE Lower(x.entry.app) \in members
      BY <1>4, <1>9, <2>2
    <2>. QED BY <2>1, <2>2
  <1>12. R = Folding(n, q)
    <2>1. \A x : x \in R <=> x \in UsageRows(q) /\ Lower(x.entry.app) \in members
      <3>. HIDE DEF open
      <3>. QED BY <1>2, <1>10
    <2>. HIDE DEF R
    <2>. QED BY <1>11, <2>1 DEF Folding
  <1>13. DrillDown(n, q) = {Line(d) : d \in DevicesOf(R)}
    BY Zenon DEF DrillDown
  <1>14. IsFiniteSet(R)
    <2>1. R \subseteq UsageRows(q)
      BY <1>12 DEF Folding
    <2>. HIDE DEF R
    <2>. QED BY <1>2, <2>1, FS_Subset
  <1>. HIDE DEF R, open
  <1>15. \A d : d \in DevicesOf(R) <=> \E x \in R : d = x.device
    BY DEF DevicesOf
  <1>16. \A d : Line(d).device = d /\ Line(d).launches = Cardinality(On(d)) /\ IsFiniteSet(On(d))
    <2>1. \A d : On(d) \subseteq R
      OBVIOUS
    <2>. HIDE DEF On
    <2>2. \A d : IsFiniteSet(On(d))
      BY <1>14, <2>1, FS_Subset
    <2>. QED BY <2>2
  <1>. DEFINE A == {Line(d) : d \in DevicesOf(R)}
              B == [r \in A |-> On(r.device)]
  <1>17. IsFiniteSet(A)
    <2>. DEFINE f == [x \in R |-> Line(x.device)]
    <2>1. A = {f[x] : x \in R}
      <3>. HIDE DEF Line
      <3>. QED BY <1>15
    <2>. HIDE DEF A, f
    <2>2. IsFiniteSet({f[x] : x \in R})
      BY <1>14, FiniteImage
    <2>. QED BY <2>1, <2>2
  <1>. HIDE DEF Line
  <1>18. \A r \in A : r.device \in DevicesOf(R) /\ r.launches = Cardinality(On(r.device)) /\ IsFiniteSet(On(r.device))
    <2>. HIDE DEF On
    <2>. QED BY <1>16
  <1>19. \A r, s \in A : r # s => r.device # s.device
    <2>. HIDE DEF On
    <2>. QED BY <1>16
  <1>20. \A d, e : d # e => On(d) \cap On(e) = {}
    OBVIOUS
  <1>21. \A x : x \in R <=> \E r \in A : x \in On(r.device)
    <2>1. \A x \in R : x \in On(x.device) /\ Line(x.device) \in A
      BY <1>15
    <2>2. \A x, d : x \in On(d) => x \in R
      OBVIOUS
    <2>. HIDE DEF On, A
    <2>. QED BY <1>16, <2>1, <2>2
  <1>22. {r.device : r \in A} = DevicesOf(R)
    <2>. HIDE DEF On
    <2>1. \A d : d \in {r.device : r \in A} <=> d \in DevicesOf(R)
      BY <1>16
    <2>. QED BY <2>1
  <1>. HIDE DEF On, A
  <1>23. \A r \in A : B[r] = On(r.device)
    OBVIOUS
  <1>. HIDE DEF B
  <1>24. SumOf(A) = Cardinality(UNION {B[r] : r \in A})
    <2>1. \A r \in A : IsFiniteSet(B[r]) /\ r.launches = Cardinality(B[r])
      BY <1>18, <1>23
    <2>2. \A r, s \in A : r # s => B[r] \cap B[s] = {}
      BY <1>19, <1>20, <1>23
    <2>. QED BY <1>17, <2>1, <2>2, SumOfReport
  <1>25. UNION {B[r] : r \in A} = R
    BY <1>21, <1>23
  <1>26. DrillDown(n, q) = A
    BY <1>13 DEF A
  <1>. QED BY <1>12, <1>22, <1>24, <1>25, <1>26

(* The card folds first and counts then: so does the report. *)
LEMMA CardCountsAlike ==
  ASSUME UsageDocuments, topic = "usage", NEW q, q.picks = <<>>, NEW c \in AppUsageCard(q)
  PROVE  c.launches = Cardinality(Folding(c.key, q)) /\ c.devices = DevicesOf(Folding(c.key, q))
  <1>. DEFINE Folded(k) == {r \in UsageRows(q) : Lower(Canonical(r.entry.app)) = k}
  <1>1. UsageRows(q) = History(UsageScope(q), q) /\ \A x \in UsageRows(q) : Spelled(x.entry.app)
    BY UsageRowsAre
  <1>2. PICK x \in UsageRows(q) :
          LET k == Lower(Canonical(x.entry.app))
          IN c = [key |-> k, launches |-> Cardinality(Folded(k)), devices |-> DevicesOf(Folded(k))]
    BY <1>1 DEF AppUsageCard
  <1>3. c.key = Lower(Canonical(x.entry.app)) /\ c.launches = Cardinality(Folded(c.key)) /\ c.devices = DevicesOf(Folded(c.key))
    BY <1>2
  <1>4. Lower(c.key) = c.key
    <2>1. Spelled(Canonical(x.entry.app))
      BY <1>1, FoldAlike
    <2>. QED BY <1>3, <2>1, FoldAlike
  <1>5. Folded(c.key) = Folding(c.key, q)
    BY <1>4 DEF Folding
  <1>. HIDE DEF Folded
  <1>. QED BY <1>3, <1>5

(* Those who lead by what is counted for them: nobody left out counts for more. *)
MostOf(S, limit, count, F) == /\ F \subseteq S
                              /\ \A x \in F : \A y \in S \ F : count[y] <= count[x]
                              /\ Cardinality(F) < limit => F = S
                              /\ Cardinality(S) <= limit => F = S

LEMMA MostLead ==
  ASSUME NEW S, IsFiniteSet(S), S \subseteq Int, NEW limit \in Nat, NEW count, \A x \in S : count[x] \in Int, NEW F,
         F = {x \in S : Cardinality({y \in S : count[y] > count[x] \/ (count[y] = count[x] /\ y < x)}) < limit}
  PROVE  MostOf(S, limit, count, F)
  <1>. DEFINE Before(y, x) == count[y] > count[x] \/ (count[y] = count[x] /\ y < x)
              before == [x \in S |-> {y \in S : Before(y, x)}]
  <1>1. \A x, y, z \in S : ~Before(x, x) /\ (Before(x, y) /\ Before(y, z) => Before(x, z))
    OBVIOUS
  <1>2. \A x \in S : \A y \in S : ~Before(y, x) => count[y] <= count[x]
    OBVIOUS
  <1>3. F = {x \in S : Cardinality(before[x]) < limit}
    OBVIOUS
  <1>. HIDE DEF Before
  <1>4. /\ \A x \in S : before[x] \subseteq S /\ x \notin before[x]
        /\ \A x \in S : \A y \in before[x] : before[y] \subseteq before[x]
    BY <1>1
  <1>5. \A x \in S : \A y \in S : y \notin before[x] => ~Before(y, x)
    OBVIOUS
  <1>. HIDE DEF before
  <1>6. Led(S, limit, before, F)
    BY <1>3, <1>4, LeadingIs
  <1>7. F \subseteq S /\ \A x \in F : before[x] \subseteq F
    BY <1>6 DEF Led
  <1>8. (Cardinality(F) < limit => F = S) /\ (Cardinality(S) <= limit => F = S)
    BY <1>6 DEF Led
  <1>9. \A x \in F : \A y \in S \ F : count[y] <= count[x]
    BY <1>2, <1>5, <1>7
  <1>. QED BY <1>7, <1>8, <1>9 DEF MostOf

(* The users shown are people with usage, those who used most, and all of them when there is room. *)
LEMMA TopUsersAre ==
  ASSUME UsageDocuments, topic = "usage", NEW q
  PROVE  \E F : /\ F = {t.user : t \in TopUsers(q)}
                /\ F \subseteq Humans(UsageRows(q))
                /\ \A t \in TopUsers(q) : t.user \in F /\ t.launches = LaunchesBy(t.user, q)
                /\ \A u \in Humans(UsageRows(q)) \ F : \A t \in F : LaunchesBy(u, q) <= LaunchesBy(t, q)
                /\ Cardinality(F) < UserLimit /\ Cardinality(Candidates(q)) <= UserRows => F = Humans(UsageRows(q))
  <1>. DEFINE C == Candidates(q)
              count == [u \in C |-> LaunchesBy(u, q)]
              Most(S, limit) ==
                {x \in S : Cardinality({y \in S : LaunchesBy(y, q) > LaunchesBy(x, q) \/ (LaunchesBy(y, q) = LaunchesBy(x, q) /\ y < x)}) < limit}
              led == Most(C, UserRows)
              P == led \ Machines
              top == Most(P, UserLimit)
  <1>1. IsFiniteSet(UsageRows(q)) /\ \A x \in UsageRows(q) : x.entry.user \in Int
    BY UsageRowsAre, UsersAreNumbers
  <1>2. IsFiniteSet(C) /\ C \subseteq Int
    <2>. DEFINE user == [x \in UsageRows(q) |-> x.entry.user]
    <2>1. C \subseteq {user[x] : x \in UsageRows(q)} /\ C \subseteq Int
      BY <1>1 DEF Candidates
    <2>. HIDE DEF user, C
    <2>2. IsFiniteSet({user[x] : x \in UsageRows(q)})
      BY <1>1, FiniteImage
    <2>. QED BY <2>1, <2>2, FS_Subset
  <1>3. \A u \in C : count[u] = LaunchesBy(u, q) /\ count[u] \in Int
    <2>1. \A u : LaunchesBy(u, q) \in Nat
      BY <1>1, FS_Subset, FS_CardinalityType DEF LaunchesBy
    <2>. QED BY <2>1
  <1>4. TopUsers(q) = {[user |-> u, launches |-> LaunchesBy(u, q)] : u \in top}
    BY DEF TopUsers, Leading
  <1>5. \A S \in SUBSET C : \A limit :
           Most(S, limit) = {x \in S : Cardinality({y \in S : count[y] > count[x] \/ (count[y] = count[x] /\ y < x)}) < limit}
    <2>. SUFFICES ASSUME NEW S \in SUBSET C, NEW limit
                  PROVE  Most(S, limit) = {x \in S : Cardinality({y \in S : count[y] > count[x] \/ (count[y] = count[x] /\ y < x)}) < limit}
      OBVIOUS
    <2>1. \A x \in S : {y \in S : LaunchesBy(y, q) > LaunchesBy(x, q) \/ (LaunchesBy(y, q) = LaunchesBy(x, q) /\ y < x)}
                         = {y \in S : count[y] > count[x] \/ (count[y] = count[x] /\ y < x)}
      BY <1>3
    <2>. QED BY <2>1
  <1>6. \A S, limit : Most(S, limit) \subseteq S
    OBVIOUS
  <1>. HIDE DEF Most
  <1>7. led \subseteq C /\ P \subseteq C
    BY <1>6
  <1>8. Humans(UsageRows(q)) = C \ Machines
    BY UsersAssumption DEF Humans, Candidates
  <1>9. top = {x \in P : Cardinality({y \in P : count[y] > count[x] \/ (count[y] = count[x] /\ y < x)}) < UserLimit}
    <2>. HIDE DEF P, C, count
    <2>. QED BY <1>5, <1>7
  <1>10. led = {x \in C : Cardinality({y \in C : count[y] > count[x] \/ (count[y] = count[x] /\ y < x)}) < UserRows}
    <2>. HIDE DEF C, count
    <2>. QED BY <1>5
  <1>11. P = led \ Machines
    OBVIOUS
  <1>12. UserRows \in Nat /\ UserLimit \in Nat
    BY UsersAssumption
  <1>13. \A u \in C : count[u] = LaunchesBy(u, q)
    OBVIOUS
  <1>. HIDE DEF C, count, led, top, P
  <1>14. /\ led \subseteq C
         /\ \A x \in led : \A y \in C \ led : count[y] <= count[x]
         /\ Cardinality(C) <= UserRows => led = C
    <2>1. MostOf(C, UserRows, count, led)
      BY <1>2, <1>3, <1>10, <1>12, MostLead
    <2>. QED BY <2>1 DEF MostOf
  <1>15. IsFiniteSet(P) /\ P \subseteq Int /\ \A x \in P : count[x] \in Int
    BY <1>2, <1>3, <1>11, <1>14, FS_Subset
  <1>16. /\ top \subseteq P
         /\ \A x \in top : \A y \in P \ top : count[y] <= count[x]
         /\ Cardinality(top) < UserLimit => top = P
    <2>1. MostOf(P, UserLimit, count, top)
      BY <1>9, <1>12, <1>15, MostLead
    <2>. QED BY <2>1 DEF MostOf
  <1>17. \A u \in (C \ Machines) \ top : \A t \in top : count[u] <= count[t]
    BY <1>11, <1>14, <1>16
  <1>18. top = {t.user : t \in TopUsers(q)} /\ \A t \in TopUsers(q) : t.user \in top /\ t.launches = LaunchesBy(t.user, q)
    <2>1. \A t : t \in TopUsers(q) <=> \E u \in top : t = [user |-> u, launches |-> LaunchesBy(u, q)]
      BY <1>4
    <2>2. \A t \in TopUsers(q) : t.user \in top /\ t.launches = LaunchesBy(t.user, q)
      BY <2>1
    <2>3. ASSUME NEW u \in top PROVE \E t \in TopUsers(q) : t.user = u
      <3>1. [user |-> u, launches |-> LaunchesBy(u, q)] \in TopUsers(q)
        BY <2>1
      <3>. QED BY <3>1
    <2>. QED BY <2>2, <2>3
  <1>19. \A u \in (C \ Machines) \ top : \A t \in top : LaunchesBy(u, q) <= LaunchesBy(t, q)
    BY <1>3, <1>11, <1>14, <1>16, <1>17
  <1>20. Cardinality(top) < UserLimit /\ Cardinality(C) <= UserRows => top = C \ Machines
    BY <1>11, <1>14, <1>16
  <1>. QED BY <1>8, <1>11, <1>14, <1>16, <1>18, <1>19, <1>20 DEF C

(* Devices and users with usage are in a row, and those of a row have usage. *)
LEMMA NobodyIsLeftOut ==
  ASSUME UsageDocuments, topic = "usage", NEW q \in UsageQuestions
  PROVE  /\ DevicesAggregate(q) = UNION {r.devices : r \in UsageReport(q)}
         /\ q.minLaunches = 0 => Humans(UsageRows(q)) = UNION {r.users : r \in UsageReport(q)}
  <1>1. \A b : /\ ReportRow(b, q).devices = DevicesOf(RowsBehind(b, q)) /\ ReportRow(b, q).users = Humans(RowsBehind(b, q))
    BY DEF ReportRow
  <1>2. \A x, b : x \in RowsBehind(b, q) <=> x \in UsageRows(q) /\ BucketOf(x.entry.app, q) = b
    BY DEF RowsBehind
  <1>3. \A x \in UsageRows(q) : BucketOf(x.entry.app, q) \in Buckets(q)
    BY UsageRowsAre
  <1>4. \A d, rows : d \in DevicesOf(rows) <=> \E x \in rows : d = x.device
    BY DEF DevicesOf
  <1>5. \A u, rows : u \in Humans(rows) <=> u \notin Machines /\ \E x \in rows : u = x.entry.user
    BY DEF Humans
  <1>6. \A r \in UsageReport(q) : \E b \in Buckets(q) : r = ReportRow(b, q)
    BY DEF UsageReport
  <1>7. \A d : d \in UNION {r.devices : r \in UsageReport(q)} => d \in DevicesOf(UsageRows(q))
    <2>. SUFFICES ASSUME NEW r \in UsageReport(q), NEW d \in r.devices PROVE d \in DevicesOf(UsageRows(q))
      OBVIOUS
    <2>1. PICK b \in Buckets(q) : r = ReportRow(b, q)
      BY <1>6
    <2>2. d \in DevicesOf(RowsBehind(b, q))
      BY <1>1, <2>1
    <2>. QED BY <1>2, <1>4, <2>2
  <1>8. ASSUME q.minLaunches = 0 \/ q.picks # <<>>, NEW x \in UsageRows(q)
        PROVE  \E r \in UsageReport(q) : x.device \in r.devices /\ (x.entry.user \notin Machines => x.entry.user \in r.users)
    <2>. DEFINE b == BucketOf(x.entry.app, q)
    <2>1. b \in Buckets(q) /\ x \in RowsBehind(b, q)
      BY <1>2, <1>3
    <2>2. ReportRow(b, q) \in UsageReport(q)
      BY <1>8, <2>1, ReportIs
    <2>3. x.device \in ReportRow(b, q).devices /\ (x.entry.user \notin Machines => x.entry.user \in ReportRow(b, q).users)
      BY <1>1, <1>4, <1>5, <2>1
    <2>. QED BY <2>2, <2>3
  <1>9. DevicesAggregate(q) = UNION {r.devices : r \in UsageReport(q)}
    <2>. DEFINE U == UNION {r.devices : r \in UsageReport(q)}
    <2>1. \A d : d \in DevicesAggregate(q) <=>
                   d \in DevicesOf(UsageRows(q)) /\ (q.picks # <<>> \/ q.minLaunches > 0 => d \in U)
      BY DEF DevicesAggregate
    <2>2. \A d : d \in U => d \in DevicesOf(UsageRows(q))
      BY <1>7
    <2>3. ~(q.picks # <<>> \/ q.minLaunches > 0) => \A d \in DevicesOf(UsageRows(q)) : d \in U
      <3>1. q.minLaunches \in Nat
        BY UsageAssumption
      <3>2. ~(q.minLaunches > 0) => q.minLaunches = 0
        BY <3>1
      <3>. QED BY <1>4, <1>8, <3>2
    <2>. HIDE DEF U
    <2>4. DevicesAggregate(q) = U
      BY <2>1, <2>2, <2>3
    <2>. QED BY <2>4 DEF U
  <1>10. ASSUME q.minLaunches = 0 PROVE Humans(UsageRows(q)) = UNION {r.users : r \in UsageReport(q)}
    <2>1. ASSUME NEW u \in Humans(UsageRows(q)) PROVE \E r \in UsageReport(q) : u \in r.users
      BY <1>5, <1>8, <1>10
    <2>2. ASSUME NEW r \in UsageReport(q), NEW u \in r.users PROVE u \in Humans(UsageRows(q))
      <3>1. PICK b \in Buckets(q) : r = ReportRow(b, q)
        BY <1>6
      <3>2. u \in Humans(RowsBehind(b, q))
        BY <1>1, <3>1
      <3>. QED BY <1>2, <1>5, <3>2
    <2>. QED BY <2>1, <2>2
  <1>. QED BY <1>9, <1>10

(* A device is healthy when its last day of usage is recent: when it has any recent usage. *)
LEMMA HealthyHaveUsage ==
  ASSUME UsageDocuments, Documents, topic = "usage", NEW q \in UsageQuestions, q.picks = <<>>, q.minLaunches = 0,
         q.platforms = {}, q.usages = {}, q.catalogs = {}
  PROVE  LET health == CollectionHealth(q.days, q.days + 1, states, q.includeArchived)
         IN health.healthy = DevicesAggregate(q) \ health.storage
  <1>. DEFINE listed == {d \in Registered \ Placeholders : q.includeArchived \/ d \notin archived}
              Kind(d) == Collection(d, q.days, q.days + 1, states)
              health == CollectionHealth(q.days, q.days + 1, states, q.includeArchived)
  <1>1. health.healthy = {d \in listed : Kind(d) = "healthy"} /\ health.storage = {d \in listed : Kind(d) = "storage"}
    BY DEF CollectionHealth
  <1>2. UsageScope(q) = listed
    BY DEF UsageScope, Open, Wanted
  <1>3. \A d : d \in DevicesAggregate(q) <=> d \in listed /\ \E e \in row[d] : Recent(e, q)
    <2>1. DevicesAggregate(q) = DevicesOf(UsageRows(q))
      BY DEF DevicesAggregate
    <2>2. UsageRows(q) = History(UsageScope(q), q)
      BY UsageRowsAre
    <2>3. \A d : d \in DevicesOf(UsageRows(q)) <=> \E x \in UsageRows(q) : d = x.device
      BY DEF DevicesOf
    <2>4. \A r : r \in UsageRows(q) <=> \E d \in listed : \E e \in row[d] : Recent(e, q) /\ r = [device |-> d, entry |-> e]
      <3>. HIDE DEF listed
      <3>. QED BY <1>2, <2>2, HistoryIs
    <2>. HIDE DEF listed
    <2>5. ASSUME NEW d \in listed, NEW e \in row[d], Recent(e, q) PROVE d \in DevicesOf(UsageRows(q))
      <3>1. [device |-> d, entry |-> e] \in UsageRows(q)
        BY <2>4, <2>5
      <3>. QED BY <2>3, <3>1
    <2>6. ASSUME NEW d \in DevicesOf(UsageRows(q)) PROVE d \in listed /\ \E e \in row[d] : Recent(e, q)
      BY <2>3, <2>4
    <2>. QED BY <2>1, <2>5, <2>6
  <1>4. ASSUME NEW d \in listed PROVE Kind(d) = "healthy" <=> Kind(d) # "storage" /\ \E e \in row[d] : Recent(e, q)
    <2>. DEFINE days == {e.day : e \in row[d]}
                last == CHOOSE n \in days : \A e \in row[d] : e.day <= n
    <2>1. d \in Registered /\ IsFiniteSet(row[d]) /\ \A e \in row[d] : e.day \in Int
      BY DEF UsageDocuments
    <2>2. today \in Int /\ q.days \in Int
      BY UsageAssumption DEF Documents
    <2>3. Kind(d) = IF IsStored(states, d) THEN "storage" ELSE IF row[d] = {} THEN "never"
                    ELSE IF last >= today - q.days THEN "healthy"
                    ELSE IF last >= today - (q.days + 1) THEN "stale" ELSE "dark"
      BY DEF Collection
    <2>4. CASE row[d] = {}
      <3>. HIDE DEF last, Kind
      <3>. QED BY <2>3, <2>4
    <2>5. CASE row[d] # {}
      <3>1. IsFiniteSet(days)
        <4>. DEFINE f == [e \in row[d] |-> e.day]
        <4>1. days = {f[e] : e \in row[d]}
          OBVIOUS
        <4>. HIDE DEF f, days
        <4>2. IsFiniteSet({f[e] : e \in row[d]})
          BY <2>1, FiniteImage
        <4>. QED BY <4>1, <4>2
      <3>2. days \subseteq Int /\ days # {} /\ \A e \in row[d] : e.day \in days
        BY <2>1, <2>5
      <3>3. Max(days) \in days /\ \A n \in days : n <= Max(days)
        <4>. HIDE DEF days
        <4>. QED BY <3>1, <3>2, GreatestIs
      <3>4. last \in days /\ \A e \in row[d] : e.day <= last
        <4>1. \E n \in days : \A e \in row[d] : e.day <= n
          BY <3>2, <3>3
        <4>. HIDE DEF days
        <4>. QED BY <4>1
      <3>5. PICK e0 \in row[d] : last = e0.day
        BY <3>4
      <3>6. last \in Int
        BY <3>2, <3>4
      <3>. HIDE DEF last, Kind, days
      <3>7. last >= today - q.days <=> \E e \in row[d] : e.day >= today - q.days
        BY <2>1, <2>2, <3>4, <3>5, <3>6
      <3>8. \A e : Recent(e, q) <=> e.day >= today - q.days
        BY DEF Recent
      <3>. QED BY <2>3, <2>5, <3>7, <3>8
    <2>. QED BY <2>4, <2>5
  <1>. HIDE DEF listed, Kind
  <1>5. health.healthy = DevicesAggregate(q) \ health.storage
    BY <1>1, <1>3, <1>4
  <1>. QED BY <1>5

(* Whoever opens a row of the usage report finds what it counted: so do    *)
(* the card, the summary, the users and the health of the collection.      *)
THEOREM UsageIsListed == Spec => []UsageAddsUp
  <1>1. ASSUME UsageDocuments, Documents, topic = "usage", NEW q \in UsageQuestions
        PROVE  UsageAgrees(q)
    <2>1. ASSUME q.picks = <<>>, q.minLaunches = 0, q.platforms = {}, NEW n \in {r.name : r \in UsageReport(q)}, Settled(n)
          PROVE  /\ {x.device : x \in DrillDown(n, q)} = UNION {r.devices : r \in ReportedAs(n, q)}
                 /\ SumOf(DrillDown(n, q)) = SumOf(ReportedAs(n, q))
      BY <1>1, <2>1, DrilledAlike, ReportedAlike
    <2>2. ASSUME q.picks = <<>>, q.minLaunches = 0, NEW c \in AppUsageCard(q)
          PROVE  c.launches = SumOf(ReportedAs(c.key, q)) /\ c.devices = UNION {r.devices : r \in ReportedAs(c.key, q)}
      BY <1>1, <2>2, CardCountsAlike, ReportedAlike
    <2>3. DevicesAggregate(q) = UNION {r.devices : r \in UsageReport(q)}
      BY <1>1, NobodyIsLeftOut
    <2>6. ASSUME q.minLaunches = 0
          PROVE  LET people == UNION {r.users : r \in UsageReport(q)}
                     shown == {t.user : t \in TopUsers(q)}
                 IN /\ shown \subseteq people
                    /\ \A u \in people \ shown, t \in TopUsers(q) : LaunchesBy(u, q) <= t.launches
                    /\ Cardinality(shown) < UserLimit /\ Cardinality(Candidates(q)) <= UserRows => shown = people
      <3>1. Humans(UsageRows(q)) = UNION {r.users : r \in UsageReport(q)}
        BY <1>1, <2>6, NobodyIsLeftOut
      <3>2. PICK F : /\ F = {t.user : t \in TopUsers(q)}
                     /\ F \subseteq Humans(UsageRows(q))
                     /\ \A t \in TopUsers(q) : t.user \in F /\ t.launches = LaunchesBy(t.user, q)
                     /\ \A u \in Humans(UsageRows(q)) \ F : \A t \in F : LaunchesBy(u, q) <= LaunchesBy(t, q)
                     /\ Cardinality(F) < UserLimit /\ Cardinality(Candidates(q)) <= UserRows => F = Humans(UsageRows(q))
        BY <1>1, TopUsersAre
      <3>3. \A u \in Humans(UsageRows(q)) \ F, t \in TopUsers(q) : LaunchesBy(u, q) <= t.launches
        BY <3>2
      <3>. QED BY <3>1, <3>2, <3>3
    <2>4. UsageSummary(q).devices = Cardinality(DevicesAggregate(q))
      BY <2>3 DEF UsageSummary
    <2>5. ASSUME q.picks = <<>>, q.minLaunches = 0, q.platforms = {}, q.usages = {}, q.catalogs = {}
          PROVE  LET health == CollectionHealth(q.days, q.days + 1, states, q.includeArchived)
                 IN health.healthy = DevicesAggregate(q) \ health.storage
      BY <1>1, <2>5, HealthyHaveUsage
    <2>. QED BY <2>1, <2>2, <2>3, <2>4, <2>5, <2>6, Zenon DEF UsageAgrees
  <1>2. UsageDocuments /\ Documents => UsageAddsUp
    BY <1>1 DEF UsageAddsUp
  <1>. QED BY <1>2, UsageDocumentsKept, DocumentsKept, PTL

-----------------------------------------------------------------------------
(***************************************************************************)
(* Types.  What an inventory write asks for, has upserted and commits are  *)
(* states of devices; whatever a check-in stores, its device has a row.    *)
(***************************************************************************)
StatesTyped == DOMAIN states \subseteq Devices /\ states \in [DOMAIN states -> States]
AskedTyped == \A w \in Writers : \A s \in DOMAIN asked[w].rows : asked[w].rows[s] \in States
WrittenTyped ==
  \A w \in Writers : DOMAIN written[w] \subseteq Devices /\ \A s \in DOMAIN written[w] : written[w][s] \in States
BesideTyped == \A w \in Writers : doomed[w] \subseteq Devices /\ beside[w] \subseteq Devices
InventoryTyped == StatesTyped /\ AskedTyped /\ WrittenTyped /\ BesideTyped

LEMMA ResetIsTyped ==
  ASSUME Shape, AskedTyped, WrittenTyped, NEW w \in Writers, Reset(w)
  PROVE  AskedTyped' /\ WrittenTyped'
  <1>1. asked' = [asked EXCEPT ![w] = Nothing] /\ written' = [written EXCEPT ![w] = NoEntries]
    BY DEF Reset
  <1>2. DOMAIN NoEntries = {} /\ DOMAIN Nothing.rows = {}
    BY DEF NoEntries, Nothing
  <1>3. asked'[w] = Nothing /\ written'[w] = NoEntries /\ \A v \in Writers \ {w} : asked'[v] = asked[v] /\ written'[v] = written[v]
    BY <1>1 DEF Shape
  <1>. QED BY <1>2, <1>3 DEF AskedTyped, WrittenTyped

LEMMA WriteIsTyped ==
  ASSUME Shape, InventoryTyped, topic \in Topics, WriteStep
  PROVE  InventoryTyped'
  <1>1. PICK w \in Writers :
          \/ \E entries \in Bodies(topic), replace \in BOOLEAN : BeginWrite(w, entries, replace)
          \/ \E s \in Devices : UpsertState(w, s)
          \/ LookForOthers(w) \/ ClearOthers(w) \/ CommitStates(w) \/ WriteFails(w)
    BY DEF WriteStep
  <1>2. ASSUME NEW entries \in Bodies(topic), NEW replace \in BOOLEAN, BeginWrite(w, entries, replace)
        PROVE  InventoryTyped'
    <2>1. \A s \in DOMAIN RowsOf(entries) : RowsOf(entries)[s] \in States
      <3>1. \A s \in DOMAIN entries : entries[s] \in States
        BY FleetAssumption
      <3>. QED BY <3>1 DEF RowsOf, Restrict
    <2>. DEFINE body == [rows |-> RowsOf(entries), replace |-> replace]
    <2>2. body.rows = RowsOf(entries)
      OBVIOUS
    <2>3. asked' = [asked EXCEPT ![w] = body] /\ beside' = [beside EXCEPT ![w] = {}] /\ UNCHANGED <<states, written, doomed>>
      BY <1>2 DEF BeginWrite
    <2>. HIDE DEF body
    <2>4. AskedTyped'
      BY <2>1, <2>2, <2>3 DEF Shape, InventoryTyped, AskedTyped
    <2>5. BesideTyped' /\ StatesTyped' /\ WrittenTyped'
      BY <2>3 DEF Shape, InventoryTyped, BesideTyped, StatesTyped, WrittenTyped
    <2>. QED BY <2>4, <2>5 DEF InventoryTyped
  <1>3. ASSUME NEW s \in Devices, UpsertState(w, s)
        PROVE  InventoryTyped'
    <2>. DEFINE more == [t \in DOMAIN written[w] \cup {s} |-> IF t = s THEN asked[w].rows[s] ELSE written[w][t]]
    <2>1. written' = [written EXCEPT ![w] = more] /\ s \in DOMAIN asked[w].rows /\ UNCHANGED <<states, asked, doomed, beside>>
      BY <1>3 DEF UpsertState
    <2>2. DOMAIN more \subseteq Devices /\ \A t \in DOMAIN more : more[t] \in States
      BY <2>1 DEF InventoryTyped, AskedTyped, WrittenTyped
    <2>. HIDE DEF more
    <2>3. WrittenTyped'
      BY <2>1, <2>2 DEF Shape, InventoryTyped, WrittenTyped
    <2>. QED BY <2>1, <2>3 DEF InventoryTyped, AskedTyped, BesideTyped, StatesTyped
  <1>4. ASSUME LookForOthers(w)
        PROVE  InventoryTyped'
    <2>1. doomed' = [doomed EXCEPT ![w] = IF asked[w].replace THEN DOMAIN states \ DOMAIN asked[w].rows ELSE {}]
          /\ UNCHANGED <<states, asked, written, beside>>
      BY <1>4 DEF LookForOthers
    <2>2. BesideTyped'
      BY <2>1 DEF Shape, InventoryTyped, BesideTyped, StatesTyped
    <2>. QED BY <2>1, <2>2 DEF InventoryTyped, AskedTyped, WrittenTyped, StatesTyped
  <1>5. ASSUME ClearOthers(w)
        PROVE  InventoryTyped'
    BY <1>5 DEF ClearOthers, InventoryTyped, AskedTyped, WrittenTyped, StatesTyped, BesideTyped
  <1>6. ASSUME CommitStates(w)
        PROVE  InventoryTyped'
    <2>1. AskedTyped' /\ WrittenTyped'
      BY <1>6, ResetIsTyped DEF CommitStates, InventoryTyped
    <2>2. StatesTyped'
      <3>1. states' = [s \in (DOMAIN states \ doomed[w]) \cup DOMAIN written[w] |->
                         IF s \in DOMAIN written[w] THEN written[w][s] ELSE states[s]]
        BY <1>6 DEF CommitStates
      <3>2. \A s \in DOMAIN states : states[s] \in States
        BY DEF InventoryTyped, StatesTyped
      <3>3. DOMAIN written[w] \subseteq Devices /\ \A s \in DOMAIN written[w] : written[w][s] \in States
        BY DEF InventoryTyped, WrittenTyped
      <3>4. DOMAIN states \subseteq Devices
        BY DEF InventoryTyped, StatesTyped
      <3>. QED BY <3>1, <3>2, <3>3, <3>4 DEF StatesTyped
    <2>3. BesideTyped'
      BY <1>6 DEF CommitStates, InventoryTyped, WrittenTyped, BesideTyped
    <2>. QED BY <2>1, <2>2, <2>3 DEF InventoryTyped
  <1>7. ASSUME WriteFails(w)
        PROVE  InventoryTyped'
    <2>1. AskedTyped' /\ WrittenTyped'
      BY <1>7, ResetIsTyped DEF WriteFails, InventoryTyped
    <2>2. StatesTyped' /\ BesideTyped'
      BY <1>7 DEF WriteFails, Shape, InventoryTyped, StatesTyped, BesideTyped
    <2>. QED BY <2>1, <2>2 DEF InventoryTyped
  <1>. QED BY <1>1, <1>2, <1>3, <1>4, <1>5, <1>6, <1>7

(* A history holds what its device has sent, with the days it was sent on. *)
Kinds ==
  /\ topic \in Topics /\ today <= MaxDay(topic)
  /\ topic = "usage" => \A d \in Registered : row[d] \subseteq HistoryEntries
  /\ archived \subseteq Registered

LEMMA KindsStep == Documents /\ Kinds /\ [Next]_vars => Kinds'
  <1>. SUFFICES ASSUME Documents, Kinds, [Next]_vars PROVE Kinds'
    OBVIOUS
  <1>1. ASSUME NEW d \in Devices, NEW p \in Platforms(topic, d), NEW payload \in Payloads(topic, d), CheckIn(d, p, payload)
        PROVE  Kinds'
    <2>. DEFINE stored == Upserted(row[d], p, payload)
    <2>1. row' = [row EXCEPT ![d] = stored] /\ UNCHANGED <<topic, archived, today>>
      BY <1>1 DEF CheckIn
    <2>2. ASSUME topic = "usage" PROVE stored \subseteq HistoryEntries
      <3>. DEFINE old == IF row[d] = NoRow THEN {} ELSE row[d]
                  new == {[entry EXCEPT !.day = today] : entry \in payload}
      <3>1. stored = old \cup new
        BY <2>2 DEF Upserted
      <3>2. old \subseteq HistoryEntries
        BY <2>2 DEF Kinds, Registered
      <3>3. new \subseteq HistoryEntries
        <4>1. today \in 0..MaxDay("usage")
          BY <2>2, FleetAssumption DEF Documents, Kinds
        <4>2. \A entry \in payload : entry \in SentEntries
          BY <2>2 DEF SentEntries
        <4>3. EntriesOf(today) \subseteq HistoryEntries
          <5>1. EntriesOf(today) \in {EntriesOf(k) : k \in 0..MaxDay("usage")}
            BY <4>1
          <5>2. \A T : EntriesOf(today) \in T => EntriesOf(today) \subseteq UNION T
            OBVIOUS
          <5>3. UNION {EntriesOf(k) : k \in 0..MaxDay("usage")} \subseteq HistoryEntries
            BY Zenon DEF HistoryEntries
          <5>4. EntriesOf(today) \subseteq UNION {EntriesOf(k) : k \in 0..MaxDay("usage")}
            BY <5>1, <5>2, Zenon
          <5>. QED BY <5>3, <5>4, Zenon
        <4>4. \A entry \in payload : [entry EXCEPT !.day = today] \in EntriesOf(today)
          BY <4>2 DEF EntriesOf
        <4>. QED BY <4>3, <4>4
      <3>. HIDE DEF old, new
      <3>. QED BY <3>1, <3>2, <3>3
    <2>3. stored # NoRow
      <3>1. CASE topic = "usage"
        <4>1. "usage" \in Topics
          BY <3>1 DEF Kinds
        <4>. HIDE DEF stored
        <4>. QED BY <2>2, <3>1, <4>1, StoredAssumption
      <3>2. CASE topic = "certificates"
        <4>1. stored = Stamped(payload, p)
          BY <3>2 DEF Upserted
        <4>. QED BY <3>2, <4>1, StoredAssumption DEF Kinds
      <3>3. CASE topic \notin {"usage", "certificates"}
        <4>1. stored = payload
          BY <3>3 DEF Upserted
        <4>. QED BY <4>1, FleetAssumption DEF Kinds
      <3>. QED BY <3>1, <3>2, <3>3
    <2>. HIDE DEF stored
    <2>. QED BY <2>1, <2>2, <2>3 DEF Kinds, Documents, Registered
  <1>2. ASSUME NEW d \in Devices, NEW p, CheckInWithout(d, p) PROVE Kinds'
    BY <1>2 DEF CheckInWithout, Kinds, Registered
  <1>3. ASSUME NEW d \in Devices, Archive(d) \/ Unarchive(d) PROVE Kinds'
    BY <1>3 DEF Archive, Unarchive, Kinds, Registered
  <1>4. ASSUME NEW d \in Devices, Delete(d) PROVE Kinds'
    BY <1>4 DEF Delete, Kinds, Registered, Documents
  <1>5. CASE Midnight
    BY <1>5, FleetAssumption DEF Midnight, Kinds, Registered, Documents
  <1>6. CASE WriteStep \/ CardStep \/ UNCHANGED vars
    BY <1>6 DEF WriteStep, CardStep, vars, fleet, Kinds, Registered
  <1>. QED BY <1>1, <1>2, <1>3, <1>4, <1>5, <1>6 DEF Next, FleetNext

LEMMA KindsInit == Init => Kinds
  <1>. SUFFICES ASSUME Init PROVE Kinds
    OBVIOUS
  <1>1. topic \in Topics /\ today = 0 /\ archived = {}
    BY DEF Init, FleetInit
  <1>2. today <= MaxDay(topic)
    BY <1>1, FleetAssumption
  <1>3. ASSUME topic = "usage", NEW d \in Registered PROVE row[d] \subseteq HistoryEntries
    <2>1. d \in Devices /\ row[d] \in Older("usage", d)
      BY <1>3 DEF Init, FleetInit, Registered
    <2>2. UNION UNION {Older("usage", e) : e \in Devices} \subseteq HistoryEntries
      BY DEF HistoryEntries
    <2>. QED BY <2>1, <2>2
  <1>. QED BY <1>1, <1>2, <1>3 DEF Kinds

(***************************************************************************)
(* Every reachable state of the fleet and the inventory is well typed:     *)
(* whatever writes overlap, a state is one of the three and belongs to a   *)
(* serial, and only a device with a row is archived.                       *)
(***************************************************************************)
THEOREM TypeCorrect == Spec => []FleetTypeOK
  <1>1. Init => InventoryTyped
    BY DEF Init, FleetInit, InventoryInit, NoEntries, Nothing, InventoryTyped, StatesTyped, AskedTyped, WrittenTyped,
           BesideTyped
  <1>2. WritesInv /\ Kinds /\ InventoryTyped /\ [Next]_vars => InventoryTyped'
    <2>. SUFFICES ASSUME WritesInv, Kinds, InventoryTyped, [Next]_vars PROVE InventoryTyped'
      OBVIOUS
    <2>1. CASE WriteStep
      BY <2>1, WriteIsTyped DEF WritesInv, Kinds
    <2>2. CASE ~WriteStep
      BY <2>2, OthersLeaveInventory DEF inventory, InventoryTyped, StatesTyped, AskedTyped, WrittenTyped, BesideTyped
    <2>. QED BY <2>1, <2>2
  <1>3. WritesInv /\ Documents /\ Kinds /\ InventoryTyped => FleetTypeOK
    BY DEF WritesInv, Shape, Documents, Kinds, InventoryTyped, StatesTyped, WrittenTyped, BesideTyped, FleetTypeOK,
           InventoryTypeOK
  <1>. QED BY <1>1, <1>2, <1>3, KindsInit, KindsStep, WritesKept, DocumentsKept, PTL DEF Spec
=============================================================================
