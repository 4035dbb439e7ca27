---------------------------- MODULE DeviceAdmin ----------------------------
(***************************************************************************)
(* Archiving and deleting one device, and cleaning up its orphaned rows,   *)
(* while the device goes on checking in.                                   *)
(*                                                                         *)
(* A deletion is one transaction over many statements; a check-in is many  *)
(* transactions.  Postgres runs both at READ COMMITTED: every statement    *)
(* sees what is committed when it starts, nothing holds a lock on a device *)
(* row across statements, and no table has a foreign key to devices.       *)
(*                                                                         *)
(* The device's rows are kept by store: one for each module table, one for *)
(* its events and one for its usage history.                               *)
(***************************************************************************)
EXTENDS Integers, Sequences, FiniteSets

CONSTANTS
  CheckIns,     \* requests of the device being handled
  Admins,       \* admin requests being handled
  Order,        \* _MODULE_TABLES
  Missing,      \* the ones this deployment does not have
  NoTable,      \* no table
  MaxCheckIns,  \* bound: check-ins
  MaxRequests,  \* bound: admin requests
  MaxFaults     \* bound: statements that fail

Tables == {Order[n] : n \in DOMAIN Order}
Stores == Tables \cup {"events", "usage"}

ASSUME TablesAssumption ==
  /\ Len(Order) \in Nat /\ DOMAIN Order = 1..Len(Order)
  /\ Missing \subseteq Tables /\ NoTable \notin Tables /\ {"events", "usage"} \cap Tables = {}
ASSUME BoundsAssumption == MaxCheckIns \in Nat /\ MaxRequests \in Nat /\ MaxFaults \in Nat

VARIABLES
  device,   \* the devices row: "none", "active" or "archived"
  data,     \* the stores that hold rows of the device
  \* check-ins
  stage, known, todo, found,  \* known[i]: the device row was there; todo[i]: tables to write;
                              \* found[i]: the table being written had a row
  table,    \* table[i]: the table being written
  \* admin requests
  doing, nth,                 \* doing[a]: where the request is; nth[a]: its place in Order
  gone,     \* gone[a]: stores whose rows its open transaction has deleted
  \* what is remembered for the properties
  checkins, requests, faults,
  mixed,    \* mixed[a]: a check-in ran while the request did
  hurt,     \* hurt[a]: a statement of the request failed and was rolled back
  raced     \* a request that deletes ran next to a check-in, or met a failing statement

checkin == <<stage, known, todo, found, table>>
admin == <<doing, nth, gone, mixed, hurt>>
counts == <<checkins, requests, faults>>
vars == <<device, data, checkin, admin, counts, raced>>

CheckInStages == {"idle", "device", "modules", "write", "usage", "events"}
AdminStages == {"idle", "archive", "unarchive", "count", "usage", "delete", "commit",
                "orphans", "cleaned"}
(* The stages a request is in while it means to delete. *)
Deleting == AdminStages \ {"idle", "archive", "unarchive"}

TypeOK ==
  /\ device \in {"none", "active", "archived"}
  /\ data \in SUBSET (Stores \ Missing)
  /\ stage \in [CheckIns -> CheckInStages]
  /\ known \in [CheckIns -> BOOLEAN]
  /\ todo \in [CheckIns -> SUBSET Tables]
  /\ found \in [CheckIns -> BOOLEAN]
  /\ table \in [CheckIns -> Tables \cup {NoTable}]
  /\ doing \in [Admins -> AdminStages]
  /\ nth \in [Admins -> 1..(Len(Order) + 1)]
  /\ gone \in [Admins -> SUBSET Stores]
  /\ mixed \in [Admins -> BOOLEAN] /\ hurt \in [Admins -> BOOLEAN]
  /\ checkins \in Nat /\ requests \in Nat /\ faults \in Nat
  /\ raced \in BOOLEAN

Init ==
  /\ device = "none" /\ data = {}
  /\ stage = [i \in CheckIns |-> "idle"]
  /\ known = [i \in CheckIns |-> FALSE]
  /\ todo = [i \in CheckIns |-> {}]
  /\ found = [i \in CheckIns |-> FALSE]
  /\ table = [i \in CheckIns |-> NoTable]
  /\ doing = [a \in Admins |-> "idle"]
  /\ nth = [a \in Admins |-> 1]
  /\ gone = [a \in Admins |-> {}]
  /\ mixed = [a \in Admins |-> FALSE] /\ hurt = [a \in Admins |-> FALSE]
  /\ checkins = 0 /\ requests = 0 /\ faults = 0
  /\ raced = FALSE

Step(i, to) == stage' = [stage EXCEPT ![i] = to]
Turn(a, to) == doing' = [doing EXCEPT ![a] = to]
Fault == faults < MaxFaults /\ faults' = faults + 1

-----------------------------------------------------------------------------
(* A check-in (see Ingest), reduced to what it leaves in which store *)

(* The device row is looked for; nothing asks whether it is archived. *)
Arrive(i, modules) ==
  /\ stage[i] = "idle"
  /\ checkins < MaxCheckIns
  /\ checkins' = checkins + 1
  /\ known' = [known EXCEPT ![i] = device # "none"]
  /\ todo' = [todo EXCEPT ![i] = modules]
  /\ Step(i, "device")
  /\ mixed' = [a \in Admins |-> mixed[a] \/ doing[a] # "idle"]
  /\ raced' = (raced \/ \E a \in Admins : doing[a] \in Deleting)
  /\ UNCHANGED <<device, data, found, table, doing, nth, gone, hurt, requests, faults>>

Quit(i) ==
  /\ Step(i, "idle")
  /\ known' = [known EXCEPT ![i] = FALSE]
  /\ todo' = [todo EXCEPT ![i] = {}]
  /\ found' = [found EXCEPT ![i] = FALSE]
  /\ table' = [table EXCEPT ![i] = NoTable]

(* An UPDATE of a row deleted meanwhile matches nothing, and nobody looks. *)
WriteDevice(i) ==
  /\ stage[i] = "device"
  /\ known[i] \/ device = "none"
  /\ device' = IF known[i] THEN device ELSE "active"
  /\ Step(i, "modules")
  /\ UNCHANGED <<data, known, todo, found, table, admin, counts, raced>>

(* Two first check-ins of the device: the second INSERT violates its key. *)
InsertConflict(i) ==
  /\ stage[i] = "device"
  /\ ~known[i] /\ device # "none"
  /\ Quit(i)
  /\ UNCHANGED <<device, data, admin, counts, raced>>

LookModule(i, t) ==
  /\ stage[i] = "modules"
  /\ t \in todo[i]
  /\ todo' = [todo EXCEPT ![i] = @ \ {t}]
  /\ IF t \in Missing
     THEN UNCHANGED <<found, table, stage>>
     ELSE /\ found' = [found EXCEPT ![i] = t \in data]
          /\ table' = [table EXCEPT ![i] = t]
          /\ Step(i, "write")
  /\ UNCHANGED <<device, data, known, admin, counts, raced>>

(* Rows an open deletion has deleted: whoever writes them waits for its end. *)
Locked(s) == \E a \in Admins : s \in gone[a]

(* An UPDATE of a row deleted meanwhile stores nothing; an INSERT asks no device row. *)
WriteModule(i) ==
  /\ stage[i] = "write"
  /\ found[i] => ~Locked(table[i])
  /\ data' = IF found[i] THEN data ELSE data \cup {table[i]}
  /\ table' = [table EXCEPT ![i] = NoTable]
  /\ Step(i, "modules")
  /\ UNCHANGED <<device, known, todo, found, admin, counts, raced>>

ModulesDone(i) ==
  /\ stage[i] = "modules"
  /\ todo[i] = {}
  /\ Step(i, "usage")
  /\ UNCHANGED <<device, data, known, todo, found, table, admin, counts, raced>>

(* The usage deltas are added, if the check-in has any. *)
BookUsage(i, some) ==
  /\ stage[i] = "usage"
  /\ some => ~Locked("usage")
  /\ data' = IF some THEN data \cup {"usage"} ELSE data
  /\ Step(i, "events")
  /\ UNCHANGED <<device, known, todo, found, table, admin, counts, raced>>

(* The events are committed, or none is left of them. *)
Finish(i, some) ==
  /\ stage[i] = "events"
  /\ data' = IF some THEN data \cup {"events"} ELSE data
  /\ Quit(i)
  /\ UNCHANGED <<device, admin, counts, raced>>

-----------------------------------------------------------------------------
(* Admin requests *)

CheckInRuns == \E i \in CheckIns : stage[i] # "idle"

Close(a) ==
  /\ Turn(a, "idle")
  /\ nth' = [nth EXCEPT ![a] = 1]
  /\ gone' = [gone EXCEPT ![a] = {}]
  /\ mixed' = [mixed EXCEPT ![a] = FALSE]
  /\ hurt' = [hurt EXCEPT ![a] = FALSE]

Begin(a, to) ==
  /\ doing[a] = "idle"
  /\ requests < MaxRequests
  /\ requests' = requests + 1
  /\ Turn(a, to)
  /\ mixed' = [mixed EXCEPT ![a] = CheckInRuns]
  /\ UNCHANGED <<device, data, checkin, nth, gone, hurt, checkins, faults>>

(* The device is there and not archived yet: 404 and "already archived" change nothing. *)
BeginArchive(a) == device = "active" /\ Begin(a, "archive") /\ UNCHANGED raced
BeginUnarchive(a) == device = "archived" /\ Begin(a, "unarchive") /\ UNCHANGED raced

(* The UPDATE matches whatever row there is by now, or none. *)
Flag(a, from, to) ==
  /\ doing[a] = from
  /\ device' = IF device = "none" THEN "none" ELSE to
  /\ Close(a)
  /\ UNCHANGED <<data, checkin, counts, raced>>

Archive(a) == Flag(a, "archive", "archived")
Unarchive(a) == Flag(a, "unarchive", "active")

(* Only a device that exists is deleted. *)
BeginDelete(a) ==
  /\ device # "none"
  /\ Begin(a, "count")
  /\ raced' = (raced \/ CheckInRuns)

(***************************************************************************)
(* Rows are counted for the log, in a transaction that a missing table or  *)
(* a failing statement aborts.  The loop swallows the exception and rolls  *)
(* nothing back; the count of the events, which no block guards, then      *)
(* answers 500.                                                            *)
(***************************************************************************)
CountRows(a) ==
  /\ doing[a] = "count"
  /\ Missing = {}
  /\ Turn(a, "usage")
  /\ UNCHANGED <<device, data, checkin, nth, gone, mixed, hurt, counts, raced>>

CountFails(a) ==
  /\ doing[a] = "count"
  /\ IF Missing # {} THEN UNCHANGED faults ELSE Fault
  /\ Close(a)
  /\ UNCHANGED <<device, data, checkin, checkins, requests, raced>>

(***************************************************************************)
(* A DELETE takes the rows committed when it runs, waits for rows another  *)
(* open transaction has deleted, and holds what it took to the end.        *)
(***************************************************************************)
DeleteFrom(a, store) ==
  /\ \A b \in Admins \ {a} : store \notin gone[b]
  /\ gone' = [gone EXCEPT ![a] = @ \cup ({store} \cap data)]

(* Mutation: the usage history is left to a cascade nobody declared. *)
DeleteUsage_Cascades(a) ==
  /\ doing[a] = "usage"
  /\ Turn(a, "delete")
  /\ UNCHANGED <<device, data, checkin, nth, gone, mixed, hurt, counts, raced>>

DeleteUsage(a) ==
  /\ doing[a] = "usage"
  /\ DeleteFrom(a, "usage")
  /\ Turn(a, "delete")
  /\ UNCHANGED <<device, data, checkin, nth, mixed, hurt, counts, raced>>

HasTable(a) == doing[a] \in {"delete", "orphans"} /\ nth[a] <= Len(Order)
NextTable(a) == nth' = [nth EXCEPT ![a] = @ + 1]

(* Mutation: the loop begins with the second table. *)
DeleteTable_NotTheFirst(a) ==
  /\ HasTable(a)
  /\ IF nth[a] = 1 THEN UNCHANGED gone ELSE DeleteFrom(a, Order[nth[a]])
  /\ NextTable(a)
  /\ UNCHANGED <<device, data, checkin, doing, mixed, hurt, counts, raced>>

DeleteTable(a) ==
  /\ HasTable(a)
  /\ Order[nth[a]] \notin Missing
  /\ DeleteFrom(a, Order[nth[a]])
  /\ NextTable(a)
  /\ UNCHANGED <<device, data, checkin, doing, mixed, hurt, counts, raced>>

(***************************************************************************)
(* The table is not there, or the statement ran into its timeout: rolled   *)
(* back, with every delete before it, and the loop goes on.                *)
(***************************************************************************)
DeleteTableFails(a) ==
  /\ HasTable(a)
  /\ IF Order[nth[a]] \in Missing THEN UNCHANGED faults ELSE Fault
  /\ gone' = [gone EXCEPT ![a] = {}]
  /\ hurt' = [hurt EXCEPT ![a] = TRUE]
  /\ raced' = TRUE
  /\ NextTable(a)
  /\ UNCHANGED <<device, data, checkin, doing, mixed, checkins, requests>>

EventsNext(a) == doing[a] \in {"delete", "orphans"} /\ nth[a] > Len(Order)

DeleteEvents(a) ==
  /\ EventsNext(a)
  /\ DeleteFrom(a, "events")
  /\ Turn(a, IF doing[a] = "delete" THEN "commit" ELSE "cleaned")
  /\ UNCHANGED <<device, data, checkin, nth, mixed, hurt, counts, raced>>

(* The orphan cleanup goes on, and commits, without what the failing statement rolled back. *)
OrphanEventsFail(a) ==
  /\ EventsNext(a) /\ doing[a] = "orphans"
  /\ Fault
  /\ gone' = [gone EXCEPT ![a] = {}]
  /\ hurt' = [hurt EXCEPT ![a] = TRUE]
  /\ raced' = TRUE
  /\ Turn(a, "cleaned")
  /\ UNCHANGED <<device, data, checkin, nth, mixed, checkins, requests>>

(***************************************************************************)
(* No block guards the usage history, the events or the device row of a    *)
(* deletion, an archive flag, or a commit: where one of them fails the     *)
(* request is answered 500 and its transaction is rolled back.             *)
(***************************************************************************)
Unguarded(a) ==
  \/ doing[a] \in {"archive", "unarchive", "usage", "commit", "cleaned"}
  \/ EventsNext(a) /\ doing[a] = "delete"

(* Mutation: what was deleted so far is committed on the way out. *)
RequestFails_Commits(a) ==
  /\ Unguarded(a)
  /\ Fault
  /\ data' = data \ gone[a]
  /\ Close(a)
  /\ UNCHANGED <<device, checkin, checkins, requests, raced>>

RequestFails(a) ==
  /\ Unguarded(a)
  /\ Fault
  /\ Close(a)
  /\ UNCHANGED <<device, data, checkin, checkins, requests, raced>>

(* The device row goes last, and everything becomes visible at once. *)
CommitDelete(a) ==
  /\ doing[a] = "commit"
  /\ device' = "none"
  /\ data' = data \ gone[a]
  /\ Close(a)
  /\ UNCHANGED <<checkin, counts, raced>>

(* DELETE /admin/orphans: an id with a device row is refused. *)
BeginOrphans(a) ==
  /\ device = "none"
  /\ Begin(a, "orphans")
  /\ raced' = (raced \/ CheckInRuns)

CommitOrphans(a) ==
  /\ doing[a] = "cleaned"
  /\ data' = data \ gone[a]
  /\ Close(a)
  /\ UNCHANGED <<device, checkin, counts, raced>>

-----------------------------------------------------------------------------
CheckIn(i) ==
  \/ \E modules \in SUBSET Tables : Arrive(i, modules)
  \/ WriteDevice(i) \/ InsertConflict(i)
  \/ \E t \in Tables : LookModule(i, t)
  \/ WriteModule(i) \/ ModulesDone(i)
  \/ \E some \in BOOLEAN : BookUsage(i, some) \/ Finish(i, some)

Request(a) ==
  \/ BeginArchive(a) \/ Archive(a) \/ BeginUnarchive(a) \/ Unarchive(a)
  \/ BeginDelete(a) \/ CountRows(a) \/ CountFails(a) \/ DeleteUsage(a)
  \/ DeleteTable(a) \/ DeleteTableFails(a) \/ DeleteEvents(a) \/ CommitDelete(a)
  \/ BeginOrphans(a) \/ OrphanEventsFail(a) \/ CommitOrphans(a) \/ RequestFails(a)

(* Bound: the check-ins and the requests are used up. *)
Over ==
  /\ checkins = MaxCheckIns /\ \A i \in CheckIns : stage[i] = "idle"
  /\ \A a \in Admins : doing[a] = "idle"
  /\ UNCHANGED vars

Next ==
  \/ Over
  \/ \E i \in CheckIns : CheckIn(i)
  \/ \E a \in Admins : Request(a)

Spec == Init /\ [][Next]_vars
-----------------------------------------------------------------------------
(***************************************************************************)
(* A deletion that no check-in ran next to, and none of whose statements   *)
(* failed, leaves nothing of the device behind, in any store, whatever     *)
(* other requests did meanwhile; an orphan cleanup leaves at most the      *)
(* usage history, which it does not touch.                                 *)
(***************************************************************************)
DeletionIsComplete ==
  [][\A a \in Admins :
       doing[a] \in {"commit", "cleaned"} /\ doing'[a] = "idle" /\ faults' = faults /\ ~mixed[a] /\ ~hurt[a]
       => data' \subseteq (IF doing[a] = "cleaned" THEN {"usage"} ELSE {})]_vars

(***************************************************************************)
(* Rows without a device row, which no report shows and no request but the *)
(* orphan cleanup reaches, come only from a deletion that met a check-in   *)
(* or a failing statement.  That those two leave them is not denied: with  *)
(* neither, no order of other requests does, nor two deletions at once.    *)
(***************************************************************************)
OrphansOnlyByRace ==
  data # {} /\ device = "none" => raced

(***************************************************************************)
(* A device loses rows only in the commit that ends a deletion, with which *)
(* its device row is gone, or in the one of an orphan cleanup: a deletion  *)
(* under way shows nothing of its work, and neither does one that fails    *)
(* after some of its deletes.                                              *)
(***************************************************************************)
RowsGoWithTheDevice ==
  [][\/ data \subseteq data'
     \/ \E a \in Admins :
          /\ doing[a] \in {"commit", "cleaned"} /\ doing'[a] = "idle"
          /\ doing[a] = "commit" => device' = "none"]_<<device, data, doing>>
=============================================================================
