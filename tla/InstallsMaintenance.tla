------------------------- MODULE InstallsMaintenance -------------------------
(***************************************************************************)
(* The two maintenance requests on stored installs rows, clear-errors and  *)
(* reclassify, next to check-ins.  Both read payloads, work on them in     *)
(* memory and write them back; neither locks what it has read.             *)
(*                                                                         *)
(* A row is a payload and counters that are meant to follow it.            *)
(***************************************************************************)
EXTENDS InstallStatus

CONSTANTS
  Rows,         \* installs rows by id: 1, 2, ...
  Reports,      \* payloads that devices send
  Legacy,       \* payloads with counters, as an earlier release left them
  Admins,       \* maintenance requests being handled
  Absent,       \* no row yet; no value
  Batch,        \* rows that reclassify reads at a time
  MaxReports,   \* bound: check-ins
  MaxRequests   \* bound: maintenance requests

Counters == [errors: Nat, warnings: Nat]

ASSUME NamesAssumption == IsFiniteSet(Names)
ASSUME RowsAssumption == Rows \subseteq Nat \ {0} /\ 1 \in Rows /\ IsFiniteSet(Rows)
ASSUME PayloadsAssumption ==
  /\ Reports \subseteq Payload /\ Legacy \subseteq [is: Payload, counts: Counters]
ASSUME BoundsAssumption == Batch \in Nat \ {0} /\ MaxReports \in Nat /\ MaxRequests \in Nat

VARIABLES
  data,     \* data[r]: the payload in row r, and the check-in that brought it
  counts,   \* counts[r]: its counter columns
  recent,   \* rows of devices that have checked in within the cutoff
  \* the requests
  stage, fleet,  \* where request a is, and whether it is to clear every device
  aged,     \* aged[a]: writes left from its query of old items
  plan,     \* plan[a]: writes left from its other query
  pending,  \* pending[a][r]: what its open transaction has written to row r
  last,     \* the last row that reclassify has read
  \* what is remembered for the properties
  overtaken, \* rows stored while a request was about to write an older payload back, or that a
             \* cleanup of the whole fleet wrote since they were stored
  blurred,   \* blurred[a]: rows that others changed under request a
  doubtful,  \* rows whose counters come from an earlier release or from another payload
  reports, requests

table == <<data, counts, recent>>
request == <<stage, fleet, aged, plan, pending, last>>
history == <<overtaken, blurred, doubtful>>
vars == <<table, request, history, reports, requests>>

Stored == [by: Nat, is: Payload]
Written == [data: Stored, counts: Counters, sure: BOOLEAN]
ASSUME AbsentAssumption == Absent \notin Stored /\ Absent \notin Written

Nothing == [r \in Rows |-> Absent]
Present == {r \in Rows : data[r] # Absent}

TypeOK ==
  /\ \A r \in Rows : data[r] = Absent \/ data[r] \in Stored
  /\ counts \in [Rows -> Counters]
  /\ recent \in SUBSET Rows
  /\ stage \in [Admins -> {"idle", "listed", "clearing", "batch", "stamping"}]
  /\ fleet \in [Admins -> BOOLEAN]
  /\ \A a \in Admins : \* writes have a row, and rows have one writer
       /\ \A w \in aged[a] \cup plan[a] : w.row \in Present /\ w.is \in Payload
       /\ stage[a] \in {"idle", "batch"} => aged[a] = {} /\ plan[a] = {} /\ pending[a] = Nothing
       /\ \A r \in Rows : pending[a][r] # Absent => r \in Present
       /\ \A b \in Admins, r \in Rows : a # b => pending[a][r] = Absent \/ pending[b][r] = Absent
  /\ last \in [Admins -> Rows \cup {0}]
  /\ overtaken \in SUBSET Rows /\ doubtful \in SUBSET Rows
  /\ blurred \in [Admins -> SUBSET Rows]
  /\ reports \in 0..MaxReports /\ requests \in 0..MaxRequests

(* The first row is of an earlier release; the others come with check-ins. *)
Init ==
  /\ \E l \in Legacy :
       /\ data = [r \in Rows |-> IF r = 1 THEN [by |-> 0, is |-> l.is] ELSE Absent]
       /\ counts = [r \in Rows |-> IF r = 1 THEN l.counts ELSE [errors |-> 0, warnings |-> 0]]
  /\ recent = {}
  /\ stage = [a \in Admins |-> "idle"]
  /\ fleet = [a \in Admins |-> FALSE]
  /\ aged = [a \in Admins |-> {}]
  /\ plan = [a \in Admins |-> {}]
  /\ pending = [a \in Admins |-> Nothing]
  /\ last = [a \in Admins |-> 0]
  /\ overtaken = {} /\ doubtful = {1}
  /\ blurred = [a \in Admins |-> {}]
  /\ reports = 0 /\ requests = 0

Locked(r) == \E a \in Admins : pending[a][r] # Absent
Clears(a) == stage[a] \in {"listed", "clearing"}

-----------------------------------------------------------------------------
(* Mutation: the counters follow only a payload that is inserted. *)
CountersOf_Insert(r, p) == IF data[r] # Absent THEN counts[r] ELSE Counts(p)

(* A payload that has not changed leaves the row's counters alone. *)
CountersOf(r, p) == IF data[r] # Absent /\ data[r].is = p THEN counts[r] ELSE Counts(p)

(* A check-in stores its installs module: stamped, and its counters with it. *)
Store(r, report) ==
  LET p == Stamped(report) IN
  /\ reports < MaxReports
  /\ \A q \in Rows : q < r => q \in Present
  /\ ~Locked(r)
  /\ data' = [data EXCEPT ![r] = [by |-> reports + 1, is |-> p]]
  /\ counts' = [counts EXCEPT ![r] = CountersOf(r, p)]
  /\ recent' = recent \cup {r}
  /\ reports' = reports + 1
  /\ overtaken' = IF \E a \in Admins : \E w \in aged[a] \cup plan[a] : w.row = r /\ w.both
                  THEN overtaken \cup {r} ELSE overtaken \ {r}
  /\ blurred' = [a \in Admins |-> IF Clears(a) THEN blurred[a] \cup {r} ELSE blurred[a]]
  /\ doubtful' = IF data[r] # Absent /\ data[r].is = p THEN doubtful ELSE doubtful \ {r}
  /\ UNCHANGED <<request, requests>>

(* A device does not check in for as long as the cutoff asks. *)
FallSilent(r) ==
  /\ r \in recent
  /\ recent' = recent \ {r}
  /\ UNCHANGED <<data, counts, request, history, reports, requests>>

-----------------------------------------------------------------------------
(* Requests *)

Begin(a, at, all) ==
  /\ stage[a] = "idle" /\ requests < MaxRequests
  /\ stage' = [stage EXCEPT ![a] = at]
  /\ fleet' = [fleet EXCEPT ![a] = all]
  /\ requests' = requests + 1
  /\ blurred' = [blurred EXCEPT ![a] = {}]
  /\ UNCHANGED <<table, overtaken, doubtful, reports>>

AWrite(r, p, both) ==
  [row |-> r, by |-> data[r].by, is |-> p, both |-> both, counts |-> Counts(p)]

(* Mutation: a row whose payload does not change is left as it is. *)
Writes_PayloadOnly(r, p, whole) == IF p = data[r].is THEN {} ELSE {AWrite(r, p, TRUE)}

(* What to write to row r for its payload to become p: nothing, both, or unless they go *)
(* as a whole, its counters alone.                                                       *)
Writes(r, p, whole) ==
  IF p = data[r].is /\ Counts(p) = counts[r] THEN {}
  ELSE {AWrite(r, p, whole \/ p # data[r].is)}

(* Mutation: every device is taken for a silent one. *)
Silent_All(all) == Present

(* Rows of devices that have not checked in, or with days=0 all there are. *)
Silent(all) == IF all THEN Present ELSE Present \ recent

(* DELETE /admin/installs/clear-errors: the first query. *)
BeginClear(a, all, byAge) ==
  /\ Begin(a, IF byAge THEN "listed" ELSE "clearing", all)
  /\ plan' = [plan EXCEPT ![a] = UNION {Writes(r, Cleared(data[r].is), FALSE) : r \in Silent(all)}]
  /\ UNCHANGED <<aged, pending, last>>

(* The second query, of all rows, for items whose last attempt is old. *)
ListItems(a) ==
  /\ stage[a] = "listed"
  /\ stage' = [stage EXCEPT ![a] = "clearing"]
  /\ aged' = [aged EXCEPT ![a] =
       UNION {Writes(r, ClearedByAge(data[r].is), TRUE) :
                r \in {q \in Present : ClearedByAge(data[q].is) # data[q].is}}]
  /\ UNCHANGED <<table, fleet, plan, pending, last, history, reports, requests>>

(* POST /admin/installs/reclassify, of the whole table: a rehearsal, which *)
(* a limit ends after so many rows, is left out.                           *)
BeginReclassify(a) ==
  /\ Begin(a, "batch", FALSE)
  /\ last' = [last EXCEPT ![a] = 0]
  /\ UNCHANGED <<aged, plan, pending>>

(* Mutation: off by one, the batch begins past the next row. *)
NextRows_OffByOne(a) ==
  LET left == {r \in Present : r > last[a] + 1}
  IN {r \in left : Cardinality({q \in left : q <= r}) <= Batch}

NextRows(a) ==
  LET left == {r \in Present : r > last[a]}
  IN {r \in left : Cardinality({q \in left : q <= r}) <= Batch}

(* A batch is read; its rows are stamped anew, and payload and counters written together. *)
ReadBatch(a) ==
  LET rows == NextRows(a) IN
  /\ stage[a] = "batch"
  /\ rows # {}
  /\ stage' = [stage EXCEPT ![a] = "stamping"]
  /\ last' = [last EXCEPT ![a] = CHOOSE r \in rows : \A q \in rows : q <= r]
  /\ plan' = [plan EXCEPT ![a] = UNION {Writes(r, Stamped(data[r].is), TRUE) : r \in rows}]
  /\ UNCHANGED <<table, fleet, aged, pending, history, reports, requests>>

EndReclassify(a) ==
  /\ stage[a] = "batch"
  /\ NextRows(a) = {}
  /\ stage' = [stage EXCEPT ![a] = "idle"]
  /\ UNCHANGED <<table, fleet, aged, plan, pending, last, history, reports, requests>>

(***************************************************************************)
(* One UPDATE, once no other transaction holds the row.  It writes what    *)
(* was computed from what was read, whatever is there by now.  Old items   *)
(* come first; reclassify keeps to the order of the rows.                  *)
(***************************************************************************)
Update(a, w) ==
  LET r == w.row
      now == IF pending[a][r] # Absent THEN pending[a][r] ELSE [data |-> data[r], counts |-> counts[r]]
  IN
  /\ stage[a] \in {"clearing", "stamping"}
  /\ w \in aged[a] \cup plan[a]
  /\ aged[a] # {} => w \in aged[a]
  /\ stage[a] = "stamping" => \A v \in plan[a] : r <= v.row
  /\ \A b \in Admins \ {a} : pending[b][r] = Absent
  /\ pending' = [pending EXCEPT ![a][r] =
       [data |-> IF w.both THEN [by |-> w.by, is |-> w.is] ELSE now.data, counts |-> w.counts,
        sure |-> w.both \/ now.data.is = w.is]]
  /\ aged' = [aged EXCEPT ![a] = @ \ {w}]
  /\ plan' = [plan EXCEPT ![a] = IF w \in aged[a] THEN @ ELSE @ \ {w}]
  /\ UNCHANGED <<table, stage, fleet, last, history, reports, requests>>

Touched(a) == {r \in Rows : pending[a][r] # Absent}

(* A clear-errors is over with its commit, a batch of reclassify is followed by another. *)
Commit(a) ==
  /\ stage[a] \in {"clearing", "stamping"}
  /\ aged[a] = {} /\ plan[a] = {}
  /\ data' = [r \in Rows |-> IF r \in Touched(a) THEN pending[a][r].data ELSE data[r]]
  /\ counts' = [r \in Rows |-> IF r \in Touched(a) THEN pending[a][r].counts ELSE counts[r]]
  /\ pending' = [pending EXCEPT ![a] = Nothing]
  /\ stage' = [stage EXCEPT ![a] = IF @ = "clearing" THEN "idle" ELSE "batch"]
  /\ blurred' = [b \in Admins |-> IF b # a /\ (Clears(a) \/ Clears(b))
                                  THEN blurred[b] \cup Touched(a) ELSE blurred[b]]
  /\ overtaken' = IF fleet[a] THEN overtaken \cup Touched(a) ELSE overtaken
  /\ doubtful' = (doubtful \ Touched(a)) \cup {r \in Touched(a) : ~pending[a][r].sure}
  /\ UNCHANGED <<recent, fleet, aged, plan, last, reports, requests>>

(* A statement fails, or the process dies: the open transaction is rolled back. *)
Fail(a) ==
  /\ stage[a] # "idle"
  /\ stage' = [stage EXCEPT ![a] = "idle"]
  /\ aged' = [aged EXCEPT ![a] = {}]
  /\ plan' = [plan EXCEPT ![a] = {}]
  /\ pending' = [pending EXCEPT ![a] = Nothing]
  /\ UNCHANGED <<table, fleet, last, history, reports, requests>>

Next ==
  \/ \E r \in Rows : FallSilent(r) \/ \E report \in Reports : Store(r, report)
  \/ \E a \in Admins :
       \/ \E all, byAge \in BOOLEAN : BeginClear(a, all, byAge)
       \/ ListItems(a) \/ BeginReclassify(a) \/ ReadBatch(a) \/ EndReclassify(a)
       \/ \E w \in aged[a] \cup plan[a] : Update(a, w)
       \/ Commit(a) \/ Fail(a)

Spec == Init /\ [][Next]_vars
-----------------------------------------------------------------------------
(***************************************************************************)
(* The counters, a cache of the payload, agree with it: whatever overlaps, *)
(* what makes them wrong is an earlier release, or a clear-errors that     *)
(* rewrites the counters alone, of a row whose payload is no longer the    *)
(* one it counted.                                                         *)
(***************************************************************************)
CountersFollow ==
  \A r \in Present \ doubtful : counts[r] = Counts(data[r].is)

(***************************************************************************)
(* Live failures survive a cleanup of silent devices and old items: what   *)
(* a device that is checking in has reported of a recent attempt stays,    *)
(* unless its report was overtaken: by a request that had read an older    *)
(* payload, or by a cleanup of the whole fleet.                            *)
(***************************************************************************)
LiveFailuresStay ==
  [][\A a \in Admins, r \in recent \ overtaken : Commit(a) /\ ~fleet[a] =>
       \A n \in Names : data[r].is.items[n].age = "recent" => data'[r].is.items[n] = data[r].is.items[n]]_vars

(***************************************************************************)
(* A cleanup of the whole fleet leaves nothing to do: in rows nobody else  *)
(* changed under it, another would find nothing to clear, and the counters *)
(* are those of the cleared payload.                                       *)
(***************************************************************************)
ClearSettles ==
  [][\A a \in Admins : Commit(a) /\ Clears(a) /\ fleet[a] =>
       \A r \in Present \ blurred[a] :
         Cleared(data'[r].is) = data'[r].is /\ counts'[r] = Counts(data'[r].is)]_vars

(***************************************************************************)
(* When reclassify ends, the fleet agrees with the classifier: every row,  *)
(* whatever check-ins did under it, has the stamps and counters that the   *)
(* classifier gives its payload, but for rows a cleanup wrote meanwhile.   *)
(***************************************************************************)
ReclassifySettles ==
  [][\A a \in Admins : EndReclassify(a) =>
       \A r \in Present \ blurred[a] :
         Stamped(data[r].is) = data[r].is /\ counts[r] = Counts(data[r].is)]_vars
=============================================================================
