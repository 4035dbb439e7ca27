------------------------------- MODULE Ingest -------------------------------
(***************************************************************************)
(* POST /events: how a device check-in becomes rows.                       *)
(*                                                                         *)
(* One request is a chain of Postgres transactions, not one: the device    *)
(* row commits together with the Idempotency-Key, every module commits on  *)
(* its own, the usage deltas commit on their own, and the events commit    *)
(* last, with the ingest watermark.  Anything may happen in between: the   *)
(* process dies, a statement fails, another replica handles the same or a  *)
(* later submission of the same device.                                    *)
(*                                                                         *)
(* A worker is one API process.  The handler is a coroutine that never     *)
(* suspends once the body is read, so a process handles one submission at  *)
(* a time, and concurrency is between processes.  An action is one         *)
(* statement group that the database serialises; what a transaction has    *)
(* written and not committed lives in the worker (swept, added, and the    *)
(* key it holds), and is lost when the worker stops.                       *)
(***************************************************************************)
EXTENDS Integers, Sequences, FiniteSets

CONSTANTS
  Devices,      \* serial numbers
  Submissions,  \* distinct check-ins; a retry is the same submission again
  Workers,      \* API processes
  Payload,      \* Payload[s]: what submission s carries
  NoRow,        \* no such row
  MaxTries,     \* bound: MaxTries[s] deliveries of submission s
  MaxFaults,    \* bound: statement failures and stopped handlers
  MaxPurges     \* bound: retention purges

Modules == {"system", "installs", "applications"}
Outcome == {"success", "warning", "error"}
Kinds == Outcome \cup {"info", "system", "other"}
EventModules == {"none", "installs", "os_update", "other"}

(***************************************************************************)
(* kind: the eventType; module: its moduleId; reports: its details carry a *)
(* module_status; moot: only transient network failures stood behind it;   *)
(* sound: FALSE when storing it raises (a null eventType, say).            *)
(***************************************************************************)
EventType == [kind: Kinds, module: EventModules, reports: BOOLEAN,
              moot: BOOLEAN, sound: BOOLEAN]

(***************************************************************************)
(* keyed: sent with an Idempotency-Key of its own; at: collectedAt;        *)
(* modules: the non-empty modules; usage: dailyUsageHistory has rows from  *)
(* a client new enough to be trusted; named: where a device name is found. *)
(***************************************************************************)
PayloadType == [device: Devices, keyed: BOOLEAN, at: Nat, modules: SUBSET Modules,
                usage: BOOLEAN, named: {"nowhere", "module", "metadata"},
                events: Seq(EventType)]

DeviceRow == [seen: Submissions, os: Submissions \cup {NoRow}, name: Submissions \cup {NoRow}]

ASSUME PayloadAssumption == Payload \in [Submissions -> PayloadType]
ASSUME NoRowAssumption == NoRow \notin Submissions
ASSUME NotARowAssumption == NoRow \notin DeviceRow
\* There are processes, and finitely many.
ASSUME WorkersAssumption == IsFiniteSet(Workers) /\ Workers # {}
ASSUME BoundsAssumption == MaxFaults \in Nat /\ MaxPurges \in Nat
ASSUME TriesAssumption == MaxTries \in [Submissions -> Nat]

VARIABLES
  \* the database, as committed
  devices,     \* devices[d]: the device row, or NoRow
  modules,     \* modules[d][m]: the submission whose payload the module row holds
  booked,      \* booked[s]: how often s's deltas were added to usage_history
  events,      \* rows of the events table
  keys,        \* idempotency_keys, by the submission that owns the key
  watermark,   \* device_ingest_state.last_accepted_at, 0 when there is no row
  \* the workers
  pc,          \* pc[w]: where the handler is
  job,         \* job[w]: the submission it handles
  known,       \* known[w]: what it found when it looked for the row it is to write
  next,        \* next[w]: index of the next payload event
  stored,      \* stored[w]: events_stored
  began,       \* began[w]: NOW() of the open transaction
  swept,       \* swept[w]: event rows its open transaction deleted
  added,       \* added[w]: event rows its open transaction inserted
  \* the environment, and what is remembered for the properties
  clock,       \* database time, one tick for each final transaction begun
  tries,       \* tries[s]: deliveries so far
  faults,
  purges,
  claims,      \* claims[s]: how often the key of s was committed
  landed,      \* submissions whose final transaction committed
  duplicates,  \* submissions answered "duplicate"
  outrun,      \* submissions whose first applications row another check-in had inserted
  seen         \* seen[w]: the event rows there when the request arrived

database == <<devices, modules, booked, events, keys, watermark>>
handler == <<job, known, next, stored, began, swept, added, seen>>
ledgers == <<tries, purges, claims, landed, duplicates, outrun>>
vars == <<database, handler, pc, ledgers, clock, faults>>

Stages == {"idle", "claim", "lookup", "device", "system", "osinfo", "installs",
           "applications", "usage", "name", "sweep", "events"}

Keyed == {s \in Submissions : Payload[s].keyed}
DeviceOf(s) == Payload[s].device
At(s) == Payload[s].at
HasInstalls(s) == "installs" \in Payload[s].modules
Device(w) == DeviceOf(job[w])

(***************************************************************************)
(* An events row: the n-th event of sub, or its fallback event when n = 0, *)
(* created by the transaction that began at time created.                  *)
(***************************************************************************)
Rows == [sub: Submissions, n: Nat, created: Nat]

TypeOK ==
  /\ devices \in [Devices -> DeviceRow \cup {NoRow}]
  /\ modules \in [Devices -> [Modules -> Submissions \cup {NoRow}]]
  /\ booked \in [Submissions -> Nat]
  /\ events \in SUBSET Rows
  /\ keys \in SUBSET Submissions
  /\ watermark \in [Devices -> Nat]
  /\ pc \in [Workers -> Stages]
  /\ job \in [Workers -> Submissions \cup {NoRow}]
  /\ \A w \in Workers : pc[w] # "idle" => job[w] \in Submissions
  /\ known \in [Workers -> {"unread", "row", "none"}]
  /\ next \in [Workers -> Nat]
  /\ stored \in [Workers -> Nat]
  /\ began \in [Workers -> Nat]
  /\ swept \in [Workers -> SUBSET Rows]
  /\ added \in [Workers -> SUBSET Rows]
  /\ clock \in Nat
  /\ tries \in [Submissions -> Nat]
  /\ faults \in Nat
  /\ purges \in Nat
  /\ claims \in [Submissions -> Nat]
  /\ landed \in SUBSET Submissions
  /\ duplicates \in SUBSET Submissions
  /\ outrun \in SUBSET Submissions
  /\ seen \in [Workers -> SUBSET Rows]

-----------------------------------------------------------------------------
(* Event rows *)

(***************************************************************************)
(* The module an event is stored under.  An unnamed outcome event next to  *)
(* the installs module belongs to the run.                                 *)
(***************************************************************************)
StoredModule(s, e) ==
  IF e.module = "none" /\ HasInstalls(s) /\ e.kind \in Outcome
  THEN "installs" ELSE e.module

(***************************************************************************)
(* The type an event is stored with.  Next to the installs module, or when *)
(* its details report a module status, an unheard-of type is a warning.    *)
(***************************************************************************)
StoredKind(s, e) ==
  IF (HasInstalls(s) \/ e.reports) /\ e.kind = "other" THEN "warning" ELSE e.kind

(***************************************************************************)
(* The run's own warning or error is dropped when ingest suppressed every  *)
(* problem it announces.                                                   *)
(***************************************************************************)
Dropped(s, e) ==
  /\ StoredModule(s, e) = "installs" /\ HasInstalls(s)
  /\ e.kind \in {"error", "warning"} /\ e.moot

RowModule(r) ==
  IF r.n = 0 THEN "none" ELSE StoredModule(r.sub, Payload[r.sub].events[r.n])
RowKind(r) ==
  IF r.n = 0 THEN "info" ELSE StoredKind(r.sub, Payload[r.sub].events[r.n])

(* Rows that report the outcome of a managed-software run. *)
RunRow(r) ==
  \/ RowModule(r) = "installs"
  \/ RowModule(r) = "none" /\ RowKind(r) \in Outcome

(* Rows a run of submission s supersedes. *)
Superseded(s, r) ==
  /\ DeviceOf(r.sub) = DeviceOf(s)
  /\ At(r.sub) <= At(s)
  /\ RunRow(r)

(* Rows an os_update event of submission s supersedes. *)
OldOsUpdate(s, r) ==
  /\ DeviceOf(r.sub) = DeviceOf(s)
  /\ At(r.sub) <= At(s)
  /\ RowModule(r) = "os_update"

-----------------------------------------------------------------------------
(* The handler's way through the modules, in the order of module_tables. *)

AfterInstalls(s) == IF "applications" \in Payload[s].modules THEN "applications" ELSE "name"
(* Mutation: the installs module is passed over. *)
AfterSystem_SkipsInstalls(s) == AfterInstalls(s)
AfterSystem(s) == IF HasInstalls(s) THEN "installs" ELSE AfterInstalls(s)
AfterDevice(s) == IF "system" \in Payload[s].modules THEN "system" ELSE AfterSystem(s)

(* Where the loop continues after module m, when it is stored and when it failed. *)
AfterModule(m, s, ok) ==
  IF m = "system" THEN IF ok THEN "osinfo" ELSE AfterSystem(s)
  ELSE IF m = "installs" THEN AfterInstalls(s)
  ELSE IF ok /\ Payload[s].usage THEN "usage" ELSE "name"

Goto(w, stage) == pc' = [pc EXCEPT ![w] = stage]
Fault == faults < MaxFaults /\ faults' = faults + 1

(* The key insert of w is not committed: another insert of it has to wait. *)
HoldsKey(w) == pc[w] \in {"lookup", "device"} /\ job[w] \in Keyed

Init ==
  /\ devices = [d \in Devices |-> NoRow]
  /\ modules = [d \in Devices |-> [m \in Modules |-> NoRow]]
  /\ booked = [s \in Submissions |-> 0]
  /\ events = {}
  /\ keys = {}
  /\ watermark = [d \in Devices |-> 0]
  /\ pc = [w \in Workers |-> "idle"]
  /\ job = [w \in Workers |-> NoRow]
  /\ known = [w \in Workers |-> "unread"]
  /\ next = [w \in Workers |-> 1]
  /\ stored = [w \in Workers |-> 0]
  /\ began = [w \in Workers |-> 0]
  /\ swept = [w \in Workers |-> {}]
  /\ added = [w \in Workers |-> {}]
  /\ clock = 0
  /\ tries = [s \in Submissions |-> 0]
  /\ faults = 0
  /\ purges = 0
  /\ claims = [s \in Submissions |-> 0]
  /\ landed = {}
  /\ duplicates = {}
  /\ outrun = {}
  /\ seen = [w \in Workers |-> {}]

(* A look finds the row, or that there is none; the write it was for ends it. *)
Look(w, row) == known' = [known EXCEPT ![w] = IF row = NoRow THEN "none" ELSE "row"]
Forget(w) == known' = [known EXCEPT ![w] = "unread"]

(***************************************************************************)
(* The worker is done with its submission, answered or not: whatever its   *)
(* transaction did not commit is rolled back.                              *)
(***************************************************************************)
Idle(w) ==
  /\ Goto(w, "idle")
  /\ job' = [job EXCEPT ![w] = NoRow]
  /\ Forget(w)
  /\ next' = [next EXCEPT ![w] = 1]
  /\ stored' = [stored EXCEPT ![w] = 0]
  /\ began' = [began EXCEPT ![w] = 0]
  /\ swept' = [swept EXCEPT ![w] = {}]
  /\ added' = [added EXCEPT ![w] = {}]
  /\ seen' = [seen EXCEPT ![w] = {}]

(***************************************************************************)
(* A client, or a proxy in between, delivers a submission it may have      *)
(* delivered before: after a timeout, a lost answer, or out of order.      *)
(***************************************************************************)
Deliver(w, s) ==
  /\ pc[w] = "idle"
  /\ tries[s] < MaxTries[s]
  /\ tries' = [tries EXCEPT ![s] = @ + 1]
  /\ job' = [job EXCEPT ![w] = s]
  /\ seen' = [seen EXCEPT ![w] = events]
  /\ Goto(w, IF Payload[s].keyed THEN "claim" ELSE "lookup")
  /\ UNCHANGED <<database, known, next, stored, began, swept, added, purges, claims,
                 landed, duplicates, outrun, clock, faults>>

(* Mutation: a key another replica has committed does not conflict. *)
KeyIsFree_OpenOnly(w) == \A v \in Workers \ {w} : ~(HoldsKey(v) /\ job[v] = job[w])

(***************************************************************************)
(* INSERT INTO idempotency_keys ... ON CONFLICT DO NOTHING: wins when the  *)
(* key is not there, waits while another open transaction holds it.        *)
(***************************************************************************)
KeyIsFree(w) ==
  /\ job[w] \notin keys
  /\ \A v \in Workers \ {w} : ~(HoldsKey(v) /\ job[v] = job[w])

ClaimKey(w) ==
  /\ pc[w] = "claim"
  /\ KeyIsFree(w)
  /\ Goto(w, "lookup")
  /\ UNCHANGED <<database, handler, ledgers, clock, faults>>

(* Mutation: a replay is answered once the delivery that has the key is done. *)
AnswerDuplicate_WhenDone(w) ==
  /\ pc[w] = "claim"
  /\ job[w] \in keys \cap landed
  /\ duplicates' = duplicates \cup {job[w]}
  /\ Idle(w)
  /\ UNCHANGED <<database, tries, purges, claims, landed, outrun, clock, faults>>

(* The insert lost the conflict: acknowledged without reprocessing. *)
AnswerDuplicate(w) ==
  /\ pc[w] = "claim"
  /\ job[w] \in keys
  /\ duplicates' = duplicates \cup {job[w]}
  /\ Idle(w)
  /\ UNCHANGED <<database, tries, purges, claims, landed, outrun, clock, faults>>

(* Mutation: the lookup never finds the device. *)
LookupDevice_Blind(w) ==
  /\ pc[w] = "lookup"
  /\ known' = [known EXCEPT ![w] = "none"]
  /\ Goto(w, "device")
  /\ UNCHANGED <<database, job, next, stored, began, swept, added, seen, ledgers, clock, faults>>

LookupDevice(w) ==
  /\ pc[w] = "lookup"
  /\ Look(w, devices[Device(w)])
  /\ Goto(w, "device")
  /\ UNCHANGED <<database, job, next, stored, began, swept, added, seen, ledgers, clock, faults>>

(* Mutation: the key is not written. *)
CommitKey_Unwritten(w) ==
  /\ keys' = keys
  /\ claims' = [claims EXCEPT ![job[w]] = @ + IF Payload[job[w]].keyed THEN 1 ELSE 0]

(* The commit of the device row commits the key with it. *)
CommitKey(w) ==
  /\ keys' = keys \cup ({job[w]} \cap Keyed)
  /\ claims' = [claims EXCEPT ![job[w]] = @ + IF Payload[job[w]].keyed THEN 1 ELSE 0]

UpdateDevice(w) ==
  /\ pc[w] = "device"
  /\ known[w] = "row"
  /\ devices' = IF devices[Device(w)] = NoRow THEN devices
                ELSE [devices EXCEPT ![Device(w)].seen = job[w]]
  /\ CommitKey(w)
  /\ Forget(w)
  /\ Goto(w, AfterDevice(job[w]))
  /\ UNCHANGED <<modules, booked, events, watermark, job, next, stored, began, swept, added,
                 seen, tries, purges, landed, duplicates, outrun, clock, faults>>

InsertDevice(w) ==
  /\ pc[w] = "device"
  /\ known[w] = "none"
  /\ devices[Device(w)] = NoRow
  /\ devices' = [devices EXCEPT ![Device(w)] =
                   [seen |-> job[w], os |-> NoRow,
                    name |-> IF Payload[job[w]].named = "metadata" THEN job[w] ELSE NoRow]]
  /\ CommitKey(w)
  /\ Forget(w)
  /\ Goto(w, AfterDevice(job[w]))
  /\ UNCHANGED <<modules, booked, events, watermark, job, next, stored, began, swept, added,
                 seen, tries, purges, landed, duplicates, outrun, clock, faults>>

(* Another worker registered the device first: the insert fails, and with it the request. *)
InsertConflict(w) ==
  /\ pc[w] = "device"
  /\ known[w] = "none"
  /\ devices[Device(w)] # NoRow
  /\ Idle(w)
  /\ UNCHANGED <<database, ledgers, clock, faults>>

(***************************************************************************)
(* One module.  The handler looks for its row, then updates or inserts it, *)
(* the installs counters with it, and commits.  A row that already holds   *)
(* the same payload keeps it.                                              *)
(***************************************************************************)
LookModule(w, m) ==
  /\ pc[w] = m
  /\ known[w] = "unread"
  /\ Look(w, modules[Device(w)][m])
  /\ UNCHANGED <<database, pc, job, next, stored, began, swept, added, seen, ledgers, clock, faults>>

(* A row of the module was there before this check-in's own insert. *)
Outrun(w, m) == known[w] = "none" /\ modules[Device(w)][m] # NoRow

LeaveModule(w, m, ok) ==
  /\ Forget(w)
  /\ Goto(w, AfterModule(m, job[w], ok))
  /\ UNCHANGED <<job, next, stored, began, swept, added, seen>>

StoreModule(w, m) ==
  /\ pc[w] = m
  /\ known[w] # "unread" /\ ~Outrun(w, m)
  /\ modules' = [modules EXCEPT ![Device(w)][m] = job[w]]
  /\ LeaveModule(w, m, TRUE)
  /\ UNCHANGED <<devices, booked, events, keys, watermark, ledgers, clock, faults>>

(***************************************************************************)
(* A device has one row of a module: where two check-ins both found none,  *)
(* the second INSERT raises, and is rolled back like any failure.  What    *)
(* came with the module is left out as well, and the loop goes on.         *)
(***************************************************************************)
InsertOutrun(w, m) ==
  /\ pc[w] = m
  /\ Outrun(w, m)
  /\ outrun' = IF m = "applications" THEN outrun \cup {job[w]} ELSE outrun
  /\ LeaveModule(w, m, FALSE)
  /\ UNCHANGED <<database, tries, purges, claims, landed, duplicates, clock, faults>>

(* Logged, rolled back, and the loop goes on with the next module. *)
ModuleFails(w, m) ==
  /\ pc[w] = m
  /\ Fault
  /\ LeaveModule(w, m, FALSE)
  /\ UNCHANGED <<database, ledgers, clock>>

(* The usage rows of the applications module, added to the day's totals in one commit. *)
BookUsage(w) ==
  /\ pc[w] = "usage"
  /\ booked' = [booked EXCEPT ![job[w]] = @ + 1]
  /\ Goto(w, "name")
  /\ UNCHANGED <<devices, modules, events, keys, watermark, handler, ledgers, clock, faults>>

(* Rolled back and reported; the check-in goes on without them. *)
UsageFails(w) ==
  /\ pc[w] = "usage"
  /\ Fault
  /\ Goto(w, "name")
  /\ UNCHANGED <<database, handler, ledgers, clock>>

StoreOsInfo(w) ==
  /\ pc[w] = "osinfo"
  /\ devices' = IF devices[Device(w)] = NoRow THEN devices
                ELSE [devices EXCEPT ![Device(w)].os = job[w]]
  /\ Goto(w, AfterSystem(job[w]))
  /\ UNCHANGED <<modules, booked, events, keys, watermark, handler, ledgers, clock, faults>>

OsInfoFails(w) ==
  /\ pc[w] = "osinfo"
  /\ Fault
  /\ Goto(w, AfterSystem(job[w]))
  /\ UNCHANGED <<database, handler, ledgers, clock>>

(* A device is named once: while its name is missing, Unknown or its serial number. *)
StoreName(w) ==
  /\ pc[w] = "name"
  /\ devices' =
       IF /\ devices[Device(w)] # NoRow
          /\ Payload[job[w]].named # "nowhere"
          /\ devices[Device(w)].name = NoRow
       THEN [devices EXCEPT ![Device(w)].name = job[w]] ELSE devices
  /\ Goto(w, "sweep")
  /\ UNCHANGED <<modules, booked, events, keys, watermark, handler, ledgers, clock, faults>>

NameFails(w) ==
  /\ pc[w] = "name"
  /\ Fault
  /\ Goto(w, "sweep")
  /\ UNCHANGED <<database, handler, ledgers, clock>>

(***************************************************************************)
(* The final transaction begins; a payload with the installs module first  *)
(* deletes the run events it supersedes.                                   *)
(***************************************************************************)
BeginTransaction(w) ==
  /\ clock' = clock + 1
  /\ began' = [began EXCEPT ![w] = clock + 1]

(* Mutation: the sweep is committed before the events that replace what it took. *)
Sweep_CommitsFirst(w) ==
  /\ pc[w] = "sweep"
  /\ BeginTransaction(w)
  /\ events' = IF HasInstalls(job[w]) THEN {r \in events : ~Superseded(job[w], r)} ELSE events
  /\ Goto(w, "events")
  /\ UNCHANGED <<devices, modules, booked, keys, watermark, job, known, next, stored, swept,
                 added, seen, ledgers, faults>>

(* Mutation: only a run that has an event to store clears the one before it. *)
Sweep_OnEvents(w) ==
  /\ pc[w] = "sweep"
  /\ BeginTransaction(w)
  /\ swept' = [swept EXCEPT ![w] =
                 IF \E i \in DOMAIN Payload[job[w]].events :
                      LET e == Payload[job[w]].events[i]
                      IN StoredModule(job[w], e) = "installs" /\ ~Dropped(job[w], e)
                 THEN {r \in events : Superseded(job[w], r)} ELSE {}]
  /\ Goto(w, "events")
  /\ UNCHANGED <<database, job, known, next, stored, added, seen, ledgers, faults>>

Sweep(w) ==
  /\ pc[w] = "sweep"
  /\ BeginTransaction(w)
  /\ swept' = [swept EXCEPT ![w] =
                 IF HasInstalls(job[w]) THEN {r \in events : Superseded(job[w], r)} ELSE {}]
  /\ Goto(w, "events")
  /\ UNCHANGED <<database, job, known, next, stored, added, seen, ledgers, faults>>

Event(w) == Payload[job[w]].events[next[w]]
HasEvent(w) == pc[w] = "events" /\ next[w] <= Len(Payload[job[w]].events)

SkipEvent(w) ==
  /\ HasEvent(w)
  /\ Event(w).sound
  /\ Dropped(job[w], Event(w))
  /\ next' = [next EXCEPT ![w] = @ + 1]
  /\ UNCHANGED <<database, pc, job, known, stored, began, swept, added, seen, ledgers, clock, faults>>

(* An os_update event replaces the ones before it, those of its own payload included. *)
StoreEvent(w) ==
  LET old == IF StoredModule(job[w], Event(w)) = "os_update"
             THEN {r \in events \cup added[w] : OldOsUpdate(job[w], r)} ELSE {}
      row == [sub |-> job[w], n |-> next[w], created |-> began[w]]
  IN
  /\ HasEvent(w)
  /\ Event(w).sound
  /\ ~Dropped(job[w], Event(w))
  /\ swept' = [swept EXCEPT ![w] = @ \cup (old \cap events)]
  /\ added' = [added EXCEPT ![w] = (@ \ old) \cup {row}]
  /\ stored' = [stored EXCEPT ![w] = @ + 1]
  /\ next' = [next EXCEPT ![w] = @ + 1]
  /\ UNCHANGED <<database, pc, job, known, began, seen, ledgers, clock, faults>>

(***************************************************************************)
(* Storing an event raised: conn.rollback() takes back the sweep and every *)
(* event inserted so far, and the loop goes on in a new transaction.       *)
(***************************************************************************)
Rollback(w) ==
  /\ swept' = [swept EXCEPT ![w] = {}]
  /\ added' = [added EXCEPT ![w] = {}]

EventFails(w) ==
  /\ HasEvent(w)
  /\ IF Event(w).sound THEN Fault ELSE UNCHANGED faults
  /\ Rollback(w)
  /\ BeginTransaction(w)
  /\ next' = [next EXCEPT ![w] = @ + 1]
  /\ UNCHANGED <<database, pc, job, known, stored, seen, ledgers>>

EventsDone(w) == pc[w] = "events" /\ next[w] > Len(Payload[job[w]].events)
WantsFallback(w) == stored[w] = 0 /\ ~HasInstalls(job[w])

(* The fallback row, when the payload's events left none stored. *)
FallbackRow(w) ==
  IF WantsFallback(w) THEN {[sub |-> job[w], n |-> 0, created |-> began[w]]} ELSE {}

(* Mutation: the last writer wins. *)
Later_LastWriter(a, b) == b

(* GREATEST(last_accepted_at, NOW()): the later of the two. *)
Later(a, b) == IF a < b THEN b ELSE a

Accept(w, rows) ==
  /\ events' = (events \ swept[w]) \cup added[w] \cup rows
  /\ watermark' = [watermark EXCEPT ![Device(w)] = Later(@, began[w])]
  /\ landed' = landed \cup {job[w]}
  /\ Idle(w)
  /\ UNCHANGED <<devices, modules, booked, keys, tries, purges, claims, duplicates, outrun>>

(* The last commit: the sweep, the events and the watermark become visible together. *)
Finish(w) ==
  /\ EventsDone(w)
  /\ Accept(w, FallbackRow(w))
  /\ UNCHANGED <<clock, faults>>

(* The fallback insert failed and was rolled back; the check-in is accepted without it. *)
FallbackFails(w) ==
  /\ EventsDone(w)
  /\ WantsFallback(w)
  /\ Fault
  /\ clock' = clock + 1
  /\ events' = events
  /\ watermark' = [watermark EXCEPT ![Device(w)] = Later(@, clock + 1)]
  /\ landed' = landed \cup {job[w]}
  /\ Idle(w)
  /\ UNCHANGED <<devices, modules, booked, keys, tries, purges, claims, duplicates, outrun>>

(***************************************************************************)
(* The process dies, or an exception no block catches answers 500: between *)
(* any two statements, with nothing committed that was not already.        *)
(***************************************************************************)
Stop(w) ==
  /\ pc[w] # "idle"
  /\ Fault
  /\ Idle(w)
  /\ UNCHANGED <<database, ledgers, clock>>

(***************************************************************************)
(* The retention purge drops old keys and events.  A key is kept for seven *)
(* days, far longer than a request runs, so none in use is dropped; events *)
(* go when their timestamp is older than the limit t.                      *)
(***************************************************************************)
Purge(S, t) ==
  /\ purges < MaxPurges
  /\ landed # {}
  /\ \A w \in Workers : pc[w] # "idle" => job[w] \notin S
  /\ keys' = keys \ S
  /\ events' = {r \in events : At(r.sub) >= t}
  /\ purges' = purges + 1
  /\ UNCHANGED <<devices, modules, booked, watermark, handler, pc, tries, claims, landed,
                 duplicates, outrun, clock, faults>>

-----------------------------------------------------------------------------
Progress(w) ==
  \/ ClaimKey(w) \/ AnswerDuplicate(w)
  \/ LookupDevice(w) \/ UpdateDevice(w) \/ InsertDevice(w) \/ InsertConflict(w)
  \/ \E m \in Modules : LookModule(w, m) \/ StoreModule(w, m) \/ InsertOutrun(w, m)
  \/ BookUsage(w) \/ StoreOsInfo(w) \/ StoreName(w)
  \/ Sweep(w) \/ SkipEvent(w) \/ StoreEvent(w) \/ EventFails(w) \/ Finish(w)

Failure(w) ==
  \/ \E m \in Modules : ModuleFails(w, m)
  \/ UsageFails(w) \/ OsInfoFails(w) \/ NameFails(w) \/ FallbackFails(w) \/ Stop(w)

(* Bound: every submission was delivered as often as it may be and is dealt with. *)
Drained ==
  /\ \A w \in Workers : pc[w] = "idle"
  /\ \A s \in Submissions : tries[s] = MaxTries[s]
  /\ UNCHANGED vars

Next ==
  \/ Drained
  \/ \E w \in Workers :
       \/ \E s \in Submissions : Deliver(w, s)
       \/ Progress(w)
       \/ Failure(w)
  \/ \E S \in SUBSET keys, t \in {At(s) : s \in landed} \cup {0} : Purge(S, t)

Spec == Init /\ [][Next]_vars

(* A running process runs its handler to the end: nothing in it waits on a client. *)
FairSpec == Spec /\ \A w \in Workers : WF_vars(Progress(w))

(* A client sends a submission again until it has landed. *)
Retry(s) == s \notin landed /\ \E w \in Workers : Deliver(w, s)
RetrySpec == FairSpec /\ \A s \in Submissions : WF_vars(Retry(s))
-----------------------------------------------------------------------------
(***************************************************************************)
(* Usage deltas accumulate, so booking a check-in twice inflates a day for *)
(* good.  However often a keyed submission is delivered, to whatever       *)
(* processes, its deltas are in usage_history at most once for each time   *)
(* its key was claimed, and the key is claimed again only after a purge.   *)
(***************************************************************************)
UsageAtMostOnce ==
  \A s \in Keyed : booked[s] <= claims[s] /\ claims[s] <= purges + 1

(***************************************************************************)
(* A check-in accepted with nothing going wrong is there: its device row,  *)
(* a row for each of its modules, its usage deltas.  (The row may hold     *)
(* another submission's payload by then.)  Only its deltas may be missing, *)
(* and only while a device has its first row of applications written: then *)
(* fewer check-ins of the device lose theirs than there are processes.     *)
(***************************************************************************)
AcceptedIsStored ==
  /\ faults = 0 =>
       \A s \in landed :
         /\ devices[DeviceOf(s)] # NoRow
         /\ \A m \in Payload[s].modules : modules[DeviceOf(s)][m] # NoRow
         /\ "applications" \in Payload[s].modules /\ Payload[s].usage => booked[s] > 0 \/ s \in outrun
  /\ \A d \in Devices : Cardinality({s \in outrun : DeviceOf(s) = d}) < Cardinality(Workers)

(***************************************************************************)
(* The failures view calls a rejected check-in "retried" when the device's *)
(* watermark is later than the rejection, so the watermark of a device     *)
(* never moves back, although the transaction that began first may commit  *)
(* last.                                                                   *)
(***************************************************************************)
WatermarkMonotone ==
  [][\A d \in Devices : watermark[d] <= watermark'[d]]_watermark

(***************************************************************************)
(* A reported result is only ever taken away together with its             *)
(* replacement: an event row disappears by retention, or in the one commit *)
(* that accepts a check-in of the same device collected no earlier and     *)
(* moves its watermark.  A run still in flight, or one that dies, takes    *)
(* nothing away.                                                           *)
(***************************************************************************)
RemovedByAcceptance ==
  [][\A r \in events \ events' :
       \/ purges' > purges
       \/ \E w \in Workers :
            /\ pc[w] = "events" /\ pc'[w] = "idle"
            /\ DeviceOf(job[w]) = DeviceOf(r.sub) /\ At(r.sub) <= At(job[w])
            /\ job[w] \in landed'
            /\ began[w] <= watermark'[DeviceOf(r.sub)]]_events

(***************************************************************************)
(* Once a check-in with the installs module is accepted and nothing failed *)
(* on the way, none of the run events that were there when it arrived and  *)
(* are no newer than it is left: a quiet run clears the error of the run   *)
(* before it.                                                              *)
(***************************************************************************)
RunSuperseded ==
  [][\A w \in Workers :
       /\ pc[w] = "events" /\ pc'[w] = "idle" /\ job[w] \in landed'
       /\ HasInstalls(job[w]) /\ faults' = 0
       => {r \in seen[w] : Superseded(job[w], r)} \cap events' = {}]_vars

(***************************************************************************)
(* A submission answered "already processed" was processed: it landed, or  *)
(* is still being worked on.                                               *)
(***************************************************************************)
DuplicateMeansProcessed ==
  \A s \in duplicates : s \in landed \/ \E w \in Workers : job[w] = s

(***************************************************************************)
(* Every request the API has taken in comes to an end: waiting for another *)
(* submission's uncommitted key, a dropped event, a process that died with *)
(* the key uncommitted never hold it up for good.                          *)
(***************************************************************************)
RequestEnds == \A w \in Workers : pc[w] # "idle" ~> pc[w] = "idle"

(***************************************************************************)
(* A check-in sent without an Idempotency-Key is accepted in the end, as   *)
(* long as its client retries more often than something goes wrong.        *)
(***************************************************************************)
UnkeyedRetryLands == \A s \in Submissions \ Keyed : <>(s \in landed)

(***************************************************************************)
(* The ledger of keyed submissions implements the abstract one.            *)
(***************************************************************************)
Ledger == INSTANCE UsageLedger WITH
            Submissions <- Keyed, held <- keys,
            claims <- [s \in Keyed |-> claims[s]],
            books <- [s \in Keyed |-> booked[s]]

ImplementsLedger == Ledger!Spec
=============================================================================
