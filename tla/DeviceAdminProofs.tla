------------------------- MODULE DeviceAdminProofs -------------------------
(***************************************************************************)
(* Where orphaned rows come from, for every number of tables, check-ins    *)
(* and admin requests.                                                     *)
(***************************************************************************)
EXTENDS DeviceAdmin, TLAPS

(***************************************************************************)
(* The inductive invariant: until something has raced, no check-in runs    *)
(* next to a request that deletes, such a request holds every row of the   *)
(* stores it has been through, and a device that is gone has no rows and   *)
(* nobody about to write some.                                             *)
(***************************************************************************)
Places ==
  /\ device \in {"none", "active", "archived"}
  /\ data \in SUBSET Stores
  /\ stage \in [CheckIns -> CheckInStages]
  /\ known \in [CheckIns -> BOOLEAN]
  /\ doing \in [Admins -> AdminStages]
  /\ nth \in [Admins -> 1..(Len(Order) + 1)]
  /\ gone \in [Admins -> SUBSET Stores]
  /\ raced \in BOOLEAN
WritesATable ==
  /\ table \in [CheckIns -> Tables \cup {NoTable}]
  /\ \A i \in CheckIns : stage[i] = "write" => table[i] \in Tables
AtTheFirst ==
  \A a \in Admins : doing[a] \notin {"delete", "orphans", "commit", "cleaned"} => nth[a] = 1
Alone ==
  \A a \in Admins, i \in CheckIns : doing[a] \in Deleting => stage[i] = "idle"
Taken ==
  \A a \in Admins :
    /\ doing[a] \in {"delete", "orphans"} =>
         \A n \in 1..Len(Order) : n < nth[a] /\ Order[n] \in data => Order[n] \in gone[a]
    /\ doing[a] = "delete" /\ "usage" \in data => "usage" \in gone[a]
    /\ doing[a] = "commit" => data \subseteq gone[a]
Vacant ==
  device = "none" =>
    /\ data = {}
    /\ \A i \in CheckIns : stage[i] = "idle" \/ (stage[i] = "device" /\ ~known[i])

RaceInv ==
  /\ Places /\ WritesATable /\ AtTheFirst
  /\ ~raced => Alone /\ Taken /\ Vacant

-----------------------------------------------------------------------------
(* No check-in is about to write when a request deletes, and the other way round. *)
LEMMA ArriveStep ==
  ASSUME RaceInv, NEW i \in CheckIns, NEW modules \in SUBSET Tables, Arrive(i, modules)
  PROVE  RaceInv'
  <1>1. Places' /\ WritesATable' /\ AtTheFirst'
    BY DEF RaceInv, Places, WritesATable, AtTheFirst, Arrive, Step, CheckInStages
  <1>2. ASSUME ~raced' PROVE Alone' /\ Taken' /\ Vacant'
    <2>1. ~raced /\ \A a \in Admins : doing[a] \notin Deleting
      BY <1>2 DEF Arrive
    <2>2. UNCHANGED <<device, data, doing, nth, gone>>
      BY DEF Arrive
    <2>3. Alone'
      BY <2>1, <2>2 DEF Alone
    <2>4. Taken'
      BY <2>1, <2>2 DEF Taken, RaceInv
    <2>5. Vacant'
      BY <2>1, <2>2 DEF Vacant, RaceInv, Places, Arrive, Step
    <2>. QED BY <2>3, <2>4, <2>5
  <1>. QED BY <1>1, <1>2 DEF RaceInv

(* A check-in that runs writes next to no deletion and into a device that is there. *)
LEMMA CheckInStep ==
  ASSUME RaceInv, NEW i \in CheckIns,
         \/ WriteDevice(i) \/ InsertConflict(i)
         \/ \E t \in Tables : LookModule(i, t)
         \/ WriteModule(i) \/ ModulesDone(i)
         \/ \E some \in BOOLEAN : BookUsage(i, some) \/ Finish(i, some)
  PROVE  RaceInv'
  <1>1. UNCHANGED <<doing, nth, gone, raced>> /\ stage[i] # "idle"
    BY DEF WriteDevice, InsertConflict, LookModule, WriteModule, ModulesDone, BookUsage, Finish,
           admin
  <1>2. AtTheFirst'
    BY <1>1 DEF RaceInv, AtTheFirst
  <1>3. Places' /\ WritesATable'
    <2>1. CASE WriteDevice(i)
      BY <2>1, <1>1 DEF RaceInv, Places, WritesATable, WriteDevice, Step, CheckInStages
    <2>2. CASE InsertConflict(i)
      BY <2>2, <1>1 DEF RaceInv, Places, WritesATable, InsertConflict, Quit, Step, CheckInStages
    <2>3. CASE \E t \in Tables : LookModule(i, t)
      BY <2>3, <1>1, ZenonT(40) DEF RaceInv, Places, WritesATable, LookModule, Step, CheckInStages
    <2>4. CASE WriteModule(i)
      BY <2>4, <1>1 DEF RaceInv, Places, WritesATable, WriteModule, Step, CheckInStages, Stores
    <2>5. CASE ModulesDone(i)
      BY <2>5, <1>1 DEF RaceInv, Places, WritesATable, ModulesDone, Step, CheckInStages
    <2>6. CASE \E some \in BOOLEAN : BookUsage(i, some)
      BY <2>6, <1>1 DEF RaceInv, Places, WritesATable, BookUsage, Step, CheckInStages, Stores
    <2>7. CASE \E some \in BOOLEAN : Finish(i, some)
      BY <2>7, <1>1 DEF RaceInv, Places, WritesATable, Finish, Quit, Step, CheckInStages, Stores
    <2>. QED BY <2>1, <2>2, <2>3, <2>4, <2>5, <2>6, <2>7
  <1>4. ASSUME ~raced' PROVE Alone' /\ Taken' /\ Vacant'
    <2>1. ~raced /\ Alone /\ Vacant
      BY <1>1, <1>4 DEF RaceInv
    <2>2. \A a \in Admins : doing[a] \notin Deleting
      BY <1>1, <2>1 DEF Alone
    <2>3. Alone' /\ Taken'
      BY <1>1, <2>2 DEF Alone, Taken, Deleting, AdminStages, RaceInv, Places
    <2>4. CASE WriteDevice(i)
      <3>1. known[i] => device # "none"
        BY <2>1, <2>4 DEF Vacant, WriteDevice
      <3>2. device' # "none"
        BY <2>4, <3>1 DEF WriteDevice
      <3>. QED BY <2>3, <3>2 DEF Vacant
    <2>5. CASE ~WriteDevice(i)
      <3>1. stage[i] # "device" \/ device # "none"
        BY <2>5, <1>1 DEF InsertConflict, LookModule, WriteModule, ModulesDone, BookUsage, Finish
      <3>2. device # "none"
        BY <2>1, <1>1, <3>1 DEF Vacant
      <3>3. device' = device
        BY <2>5 DEF InsertConflict, LookModule, WriteModule, ModulesDone, BookUsage, Finish
      <3>. QED BY <2>3, <3>2, <3>3 DEF Vacant
    <2>. QED BY <2>3, <2>4, <2>5
  <1>. QED BY <1>1, <1>2, <1>3, <1>4 DEF RaceInv

(* A request that begins to delete has no check-in next to it, or has raced. *)
LEMMA BeginStep ==
  ASSUME RaceInv, NEW a \in Admins,
         BeginArchive(a) \/ BeginUnarchive(a) \/ BeginDelete(a) \/ BeginOrphans(a)
  PROVE  RaceInv'
  <1>1. UNCHANGED <<device, data, stage, known, table, nth, gone>>
    BY DEF BeginArchive, BeginUnarchive, BeginDelete, BeginOrphans, Begin, checkin
  <1>2. /\ doing[a] = "idle"
        /\ \E to \in {"archive", "unarchive", "count", "orphans"} :
             doing' = [doing EXCEPT ![a] = to]
    BY DEF BeginArchive, BeginUnarchive, BeginDelete, BeginOrphans, Begin, Turn
  <1>3. raced' \in BOOLEAN
    BY DEF RaceInv, Places, BeginArchive, BeginUnarchive, BeginDelete, BeginOrphans
  <1>4. Places' /\ WritesATable'
    BY <1>1, <1>2, <1>3 DEF RaceInv, Places, WritesATable, AdminStages
  <1>5. AtTheFirst'
    BY <1>1, <1>2 DEF RaceInv, Places, AtTheFirst
  <1>6. ASSUME ~raced' PROVE Alone' /\ Taken' /\ Vacant'
    <2>1. ~raced
      BY <1>6 DEF BeginArchive, BeginUnarchive, BeginDelete, BeginOrphans
    <2>2. Vacant'
      BY <1>1, <2>1 DEF RaceInv, Vacant
    <2>3. nth[a] = 1
      BY <1>2 DEF RaceInv, AtTheFirst
    <2>4. Taken'
      BY <1>1, <1>2, <2>1, <2>3 DEF RaceInv, Places, Taken
    <2>5. Alone'
      <3>1. CASE BeginArchive(a) \/ BeginUnarchive(a)
        BY <3>1, <1>1, <2>1 DEF BeginArchive, BeginUnarchive, Begin, Turn, RaceInv, Places, Alone,
                                Deleting, AdminStages
      <3>2. CASE BeginDelete(a) \/ BeginOrphans(a)
        <4>1. \A i \in CheckIns : stage[i] = "idle"
          BY <3>2, <1>6 DEF BeginDelete, BeginOrphans, CheckInRuns
        <4>. QED BY <4>1, <1>1 DEF Alone
      <3>. QED BY <3>1, <3>2
    <2>. QED BY <2>2, <2>4, <2>5
  <1>. QED BY <1>4, <1>5, <1>6 DEF RaceInv

(* A request that ends holds nothing, and its place is the first again. *)
LEMMA CloseStep ==
  ASSUME RaceInv, NEW a \in Admins, Close(a), UNCHANGED <<checkin, raced>>,
         device' \in {"none", "active", "archived"}, data' \subseteq data,
         ~raced => Vacant'
  PROVE  RaceInv'
  <1>1. /\ doing' = [doing EXCEPT ![a] = "idle"]
        /\ nth' = [nth EXCEPT ![a] = 1] /\ gone' = [gone EXCEPT ![a] = {}]
        /\ UNCHANGED <<stage, known, table, raced>>
    BY DEF Close, Turn, checkin
  <1>2. Places' /\ WritesATable' /\ AtTheFirst'
    BY <1>1, 1 \in 1..(Len(Order) + 1), TablesAssumption
       DEF RaceInv, Places, WritesATable, AtTheFirst, AdminStages
  <1>3. ~raced => Alone'
    BY <1>1 DEF RaceInv, Places, Alone, Deleting, AdminStages
  <1>4. ~raced => Taken'
    BY <1>1 DEF RaceInv, Places, Taken
  <1>. QED BY <1>1, <1>2, <1>3, <1>4 DEF RaceInv

(* Every way a request ends. *)
LEMMA EndStep ==
  ASSUME RaceInv, NEW a \in Admins,
         Archive(a) \/ Unarchive(a) \/ CountFails(a) \/ CommitDelete(a) \/ CommitOrphans(a) \/ RequestFails(a)
  PROVE  RaceInv'
  <1>1. Close(a) /\ UNCHANGED <<checkin, raced>>
    BY DEF Archive, Unarchive, Flag, CountFails, CommitDelete, CommitOrphans, RequestFails
  <1>2. device' \in {"none", "active", "archived"} /\ data' \subseteq data
    BY DEF RaceInv, Places, Archive, Unarchive, Flag, CountFails, CommitDelete, CommitOrphans, RequestFails
  <1>3. ~raced => Vacant'
    <2>1. CASE CommitDelete(a)
      BY <2>1, <1>1 DEF CommitDelete, RaceInv, Alone, Taken, Vacant, Deleting, AdminStages, checkin
    <2>2. CASE ~CommitDelete(a)
      BY <2>2, <1>1, <1>2 DEF Archive, Unarchive, Flag, CountFails, CommitOrphans, RequestFails, RaceInv, Vacant,
                              checkin
    <2>. QED BY <2>1, <2>2
  <1>. QED BY <1>1, <1>2, <1>3, CloseStep

(* A statement of a deletion holds the rows of one more store. *)
LEMMA DeleteStep ==
  ASSUME RaceInv, NEW a \in Admins,
         CountRows(a) \/ DeleteUsage(a) \/ DeleteTable(a) \/ DeleteTableFails(a) \/ DeleteEvents(a) \/ OrphanEventsFail(a)
  PROVE  RaceInv'
  <1>1. UNCHANGED <<device, data, stage, known, table>>
    BY DEF CountRows, DeleteUsage, DeleteTable, DeleteTableFails, DeleteEvents, OrphanEventsFail, EventsNext, checkin
  <1>2. WritesATable'
    BY <1>1 DEF RaceInv, WritesATable
  <1>3. doing[a] \in Deleting /\ \A b \in Admins : doing'[b] \in Deleting => doing[b] \in Deleting
    BY DEF CountRows, DeleteUsage, DeleteTable, DeleteTableFails, DeleteEvents, OrphanEventsFail, EventsNext, HasTable, Turn,
           Deleting, AdminStages, RaceInv, Places
  <1>4. Len(Order) \in Nat /\ DOMAIN Order = 1..Len(Order)
    BY TablesAssumption
  <1>5. Places' /\ AtTheFirst'
    <2>1. CASE CountRows(a)
      BY <2>1, <1>1 DEF CountRows, Turn, RaceInv, Places, AtTheFirst, AdminStages
    <2>2. CASE DeleteUsage(a)
      BY <2>2, <1>1 DEF DeleteUsage, DeleteFrom, Turn, RaceInv, Places, AtTheFirst, AdminStages,
                        Stores
    <2>3. CASE DeleteTable(a)
      BY <2>3, <1>1, <1>4 DEF DeleteTable, HasTable, NextTable, DeleteFrom, RaceInv, Places,
                              AtTheFirst
    <2>4. CASE DeleteTableFails(a)
      BY <2>4, <1>1, <1>4 DEF DeleteTableFails, HasTable, NextTable, RaceInv, Places, AtTheFirst
    <2>5. CASE DeleteEvents(a)
      BY <2>5, <1>1 DEF DeleteEvents, EventsNext, DeleteFrom, Turn, RaceInv, Places, AtTheFirst, AdminStages
    <2>6. CASE OrphanEventsFail(a)
      BY <2>6, <1>1 DEF OrphanEventsFail, EventsNext, Turn, RaceInv, Places, AtTheFirst, AdminStages
    <2>. QED BY <2>1, <2>2, <2>3, <2>4, <2>5, <2>6
  <1>6. ASSUME ~raced' PROVE Alone' /\ Taken' /\ Vacant'
    <2>1. ~raced /\ ~DeleteTableFails(a) /\ ~OrphanEventsFail(a)
      BY <1>6 DEF CountRows, DeleteUsage, DeleteTable, DeleteTableFails, DeleteEvents, OrphanEventsFail, EventsNext
    <2>2. Alone' /\ Vacant'
      BY <1>1, <1>3, <2>1 DEF RaceInv, Alone, Vacant
    <2>3. Taken'
      <3>1. CASE CountRows(a)
        BY <3>1, <2>1 DEF CountRows, Turn, RaceInv, Places, Taken
      <3>2. CASE DeleteUsage(a)
        <4>1. nth[a] = 1
          BY <3>2 DEF DeleteUsage, RaceInv, AtTheFirst
        <4>. QED BY <3>2, <2>1, <4>1 DEF DeleteUsage, DeleteFrom, Turn, RaceInv, Places, Taken
      <3>3. CASE DeleteTable(a)
        <4>1. /\ nth[a] \in 1..Len(Order)
              /\ nth' = [nth EXCEPT ![a] = nth[a] + 1]
              /\ gone' = [gone EXCEPT ![a] = gone[a] \cup ({Order[nth[a]]} \cap data)]
              /\ UNCHANGED <<data, doing>> /\ doing[a] \in {"delete", "orphans"}
          BY <3>3, <1>4 DEF DeleteTable, HasTable, NextTable, DeleteFrom, RaceInv, Places
        <4>2. \A n \in 1..Len(Order) : n < nth'[a] => n < nth[a] \/ n = nth[a]
          BY <4>1, <1>4 DEF RaceInv, Places
        <4>. QED BY <2>1, <4>1, <4>2 DEF RaceInv, Places, Taken
      <3>4. CASE DeleteEvents(a)
        <4>1. /\ nth[a] = Len(Order) + 1
              /\ gone' = [gone EXCEPT ![a] = gone[a] \cup ({"events"} \cap data)]
              /\ doing' = [doing EXCEPT ![a] = IF doing[a] = "delete" THEN "commit" ELSE "cleaned"]
              /\ UNCHANGED <<data, nth>>
          BY <3>4, <1>4 DEF DeleteEvents, EventsNext, DeleteFrom, Turn, RaceInv, Places
        <4>2. doing[a] = "delete" => data \subseteq gone'[a]
          BY <2>1, <4>1, <1>4 DEF RaceInv, Places, Taken, Stores, Tables
        <4>. QED BY <2>1, <4>1, <4>2 DEF RaceInv, Places, Taken
      <3>. QED BY <2>1, <3>1, <3>2, <3>3, <3>4
    <2>. QED BY <2>2, <2>3
  <1>. QED BY <1>2, <1>5, <1>6 DEF RaceInv

(* Before anything happened nothing is orphaned. *)
LEMMA RaceInit == Init => RaceInv
  <1>1. 1 \in 1..(Len(Order) + 1)
    BY TablesAssumption
  <1>. QED BY <1>1, ZenonT(40) DEF Init, RaceInv, Places, WritesATable, AtTheFirst, Alone, Taken, Vacant,
     CheckInStages, AdminStages, Deleting

(* Every step keeps the invariant. *)
LEMMA RaceStep == RaceInv /\ [Next]_vars => RaceInv'
  <1>. SUFFICES ASSUME RaceInv, [Next]_vars PROVE RaceInv'
    OBVIOUS
  <1>1. CASE UNCHANGED vars
    BY <1>1 DEF vars, checkin, admin, RaceInv, Places, WritesATable, AtTheFirst, Alone, Taken, Vacant
  <1>2. CASE \E i \in CheckIns : CheckIn(i)
    BY <1>2, ArriveStep, CheckInStep DEF CheckIn
  <1>3. CASE \E a \in Admins : Request(a)
    BY <1>3, BeginStep, EndStep, DeleteStep DEF Request
  <1>. QED BY <1>1, <1>2, <1>3 DEF Next, Over

(***************************************************************************)
(* Rows without a device row come only from a request that deletes while a *)
(* check-in runs, or one of whose statements failed.                       *)
(***************************************************************************)
THEOREM OrphansNeedARace == Spec => []OrphansOnlyByRace
  <1>1. RaceInv => OrphansOnlyByRace
    BY DEF RaceInv, Vacant, OrphansOnlyByRace
  <1>. QED BY <1>1, RaceInit, RaceStep, PTL DEF Spec

-----------------------------------------------------------------------------
(***************************************************************************)
(* Types.  A table that is not there is passed over when the check-in      *)
(* looks for its row, so none is ever written.                             *)
(***************************************************************************)
TypeInv ==
  /\ TypeOK
  /\ \A i \in CheckIns : stage[i] = "write" => table[i] \in Tables \ Missing

LEMMA TypeInit == Init => TypeInv
<1>1. 1 \in 1..(Len(Order) + 1)
  BY TablesAssumption
<1>2. ASSUME Init PROVE TypeOK
  <2>1. /\ known \in [CheckIns -> BOOLEAN] /\ found \in [CheckIns -> BOOLEAN]
        /\ mixed \in [Admins -> BOOLEAN] /\ hurt \in [Admins -> BOOLEAN]
    BY <1>2 DEF Init
  <2>2. todo \in [CheckIns -> SUBSET Tables] /\ table \in [CheckIns -> Tables \cup {NoTable}]
    BY <1>2 DEF Init
  <2>3. stage \in [CheckIns -> CheckInStages] /\ doing \in [Admins -> AdminStages]
    BY <1>2 DEF Init, CheckInStages, AdminStages
  <2>4. nth \in [Admins -> 1..(Len(Order) + 1)] /\ gone \in [Admins -> SUBSET Stores]
    BY <1>1, <1>2 DEF Init
  <2> QED BY <1>2, <2>1, <2>2, <2>3, <2>4 DEF Init, TypeOK
<1> QED BY <1>2 DEF Init, TypeInv

LEMMA TypeOfCheckIns ==
  ASSUME TypeInv, NEW i \in CheckIns, CheckIn(i)
  PROVE  TypeInv'
<1>1. UNCHANGED <<doing, nth, gone, hurt, requests, faults>>
  BY DEF CheckIn, Arrive, WriteDevice, InsertConflict, LookModule, WriteModule, ModulesDone, BookUsage, Finish,
         admin, counts
<1>2. ASSUME NEW modules \in SUBSET Tables, Arrive(i, modules) PROVE TypeInv'
  BY <1>1, <1>2 DEF Arrive, Step, TypeInv, TypeOK, CheckInStages
<1>3. CASE WriteDevice(i)
  BY <1>1, <1>3 DEF WriteDevice, Step, TypeInv, TypeOK, CheckInStages, admin, counts
<1>4. CASE InsertConflict(i)
  BY <1>1, <1>4 DEF InsertConflict, Quit, Step, TypeInv, TypeOK, CheckInStages, admin, counts
<1>5. ASSUME NEW t \in Tables, LookModule(i, t) PROVE TypeInv'
  <2>1. CASE t \in Missing
    BY <1>1, <1>5, <2>1 DEF LookModule, TypeInv, TypeOK, admin, counts
  <2>2. CASE t \notin Missing
    <3>1. /\ stage' = [stage EXCEPT ![i] = "write"] /\ table' = [table EXCEPT ![i] = t]
          /\ todo' = [todo EXCEPT ![i] = @ \ {t}] /\ found' = [found EXCEPT ![i] = t \in data]
          /\ UNCHANGED <<device, data, known, mixed, checkins, raced>>
      BY <1>5, <2>2 DEF LookModule, Step, admin, counts
    <3>2. table' \in [CheckIns -> Tables \cup {NoTable}] /\ stage' \in [CheckIns -> CheckInStages]
      BY <3>1 DEF TypeInv, TypeOK, CheckInStages
    <3>3. todo' \in [CheckIns -> SUBSET Tables] /\ found' \in [CheckIns -> BOOLEAN]
      BY <3>1 DEF TypeInv, TypeOK
    <3>4. \A j \in CheckIns : stage'[j] = "write" => table'[j] \in Tables \ Missing
      BY <2>2, <3>1 DEF TypeInv, TypeOK
    <3> QED BY <1>1, <3>1, <3>2, <3>3, <3>4 DEF TypeInv, TypeOK
  <2> QED BY <2>1, <2>2
<1>6. CASE WriteModule(i)
  BY <1>1, <1>6 DEF WriteModule, Step, TypeInv, TypeOK, CheckInStages, Stores, admin, counts
<1>7. CASE ModulesDone(i)
  BY <1>1, <1>7 DEF ModulesDone, Step, TypeInv, TypeOK, CheckInStages, admin, counts
<1>8. ASSUME NEW some \in BOOLEAN, BookUsage(i, some) \/ Finish(i, some) PROVE TypeInv'
  <2>1. data' \in SUBSET (Stores \ Missing)
    BY <1>8, TablesAssumption DEF BookUsage, Finish, Stores, TypeInv, TypeOK
  <2> QED BY <1>1, <1>8, <2>1, ZenonT(40) DEF BookUsage, Finish, Quit, Step, TypeInv, TypeOK, CheckInStages, admin, counts
<1> QED BY <1>2, <1>3, <1>4, <1>5, <1>6, <1>7, <1>8 DEF CheckIn

LEMMA TypeOfRequests ==
  ASSUME TypeInv, NEW a \in Admins, Request(a)
  PROVE  TypeInv'
<1> USE TablesAssumption DEF checkin, counts
<1>1. UNCHANGED <<stage, known, todo, found, table, checkins>>
  BY DEF Request, BeginArchive, BeginUnarchive, BeginDelete, BeginOrphans, Begin, Archive, Unarchive, Flag,
         CountRows, CountFails, DeleteUsage, DeleteTable, DeleteTableFails, DeleteEvents, OrphanEventsFail, EventsNext, CommitDelete, CommitOrphans, RequestFails
<1>2. ASSUME NEW to \in AdminStages, Begin(a, to), raced' \in BOOLEAN PROVE TypeInv'
  BY <1>1, <1>2 DEF Begin, Turn, TypeInv, TypeOK, CheckInRuns
<1>3. CASE BeginArchive(a) \/ BeginUnarchive(a) \/ BeginDelete(a) \/ BeginOrphans(a)
  BY <1>2, <1>3 DEF BeginArchive, BeginUnarchive, BeginDelete, BeginOrphans, AdminStages, TypeInv, TypeOK
<1>4. ASSUME Close(a), device' \in {"none", "active", "archived"}, data' \subseteq data, raced' = raced,
             requests' = requests, faults' \in Nat
      PROVE  TypeInv'
  BY <1>1, <1>4 DEF Close, Turn, TypeInv, TypeOK, AdminStages
<1>5. CASE Archive(a) \/ Unarchive(a) \/ CountFails(a) \/ CommitDelete(a) \/ CommitOrphans(a) \/ RequestFails(a)
  BY <1>4, <1>5 DEF Archive, Unarchive, Flag, CountFails, CommitDelete, CommitOrphans, RequestFails, Fault, TypeInv, TypeOK
<1>6. CASE CountRows(a)
  BY <1>1, <1>6 DEF CountRows, Turn, TypeInv, TypeOK, AdminStages
<1>7. CASE DeleteUsage(a)
  BY <1>1, <1>7 DEF DeleteUsage, DeleteFrom, Turn, TypeInv, TypeOK, AdminStages, Stores
<1>8. CASE DeleteTable(a)
  BY <1>1, <1>8 DEF DeleteTable, HasTable, NextTable, DeleteFrom, TypeInv, TypeOK, Stores
<1>9. CASE DeleteTableFails(a)
  BY <1>1, <1>9 DEF DeleteTableFails, HasTable, NextTable, Fault, TypeInv, TypeOK
<1>10. CASE DeleteEvents(a)
  BY <1>1, <1>10 DEF DeleteEvents, EventsNext, DeleteFrom, Turn, TypeInv, TypeOK, AdminStages, Stores
<1>11. CASE OrphanEventsFail(a)
  BY <1>1, <1>11 DEF OrphanEventsFail, Fault, Turn, TypeInv, TypeOK, AdminStages
<1> QED BY <1>3, <1>5, <1>6, <1>7, <1>8, <1>9, <1>10, <1>11 DEF Request

LEMMA TypeStep == TypeInv /\ [Next]_vars => TypeInv'
BY TypeOfCheckIns, TypeOfRequests DEF Next, Over, vars, checkin, admin, counts, TypeInv, TypeOK

(* Type correctness, and that a table this deployment does not have holds no rows. *)
THEOREM TypeCorrect == Spec => []TypeOK
<1>1. TypeInv => TypeOK
  BY DEF TypeInv
<1> QED BY <1>1, TypeInit, TypeStep, PTL DEF Spec

-----------------------------------------------------------------------------
(***************************************************************************)
(* Only the commit that ends a deletion takes rows, with the device row,   *)
(* or a cleanup's: not one that fails, however far it has come.            *)
(***************************************************************************)
THEOREM NoHalfDeletion == Spec => RowsGoWithTheDevice
<1>1. ASSUME TypeInv, [Next]_vars
      PROVE  [\/ data \subseteq data'
              \/ \E a \in Admins :
                   /\ doing[a] \in {"commit", "cleaned"} /\ doing'[a] = "idle"
                   /\ doing[a] = "commit" => device' = "none"]_<<device, data, doing>>
  <2>1. ASSUME NEW i \in CheckIns, CheckIn(i) PROVE data \subseteq data'
    BY <2>1 DEF CheckIn, Arrive, WriteDevice, InsertConflict, LookModule, WriteModule, ModulesDone, BookUsage,
                Finish
  <2>2. ASSUME NEW a \in Admins, CommitOrphans(a) \/ CommitDelete(a)
        PROVE  /\ doing[a] \in {"commit", "cleaned"} /\ doing'[a] = "idle"
               /\ doing[a] = "commit" => device' = "none"
    BY <1>1, <2>2 DEF CommitOrphans, CommitDelete, Close, Turn, TypeInv, TypeOK
  <2>3. ASSUME NEW a \in Admins, Request(a), ~CommitOrphans(a), ~CommitDelete(a) PROVE data' = data
    BY <2>3 DEF Request, BeginArchive, BeginUnarchive, BeginDelete, BeginOrphans, Begin, Archive, Unarchive, Flag,
       CountRows, CountFails, DeleteUsage, DeleteTable, DeleteTableFails, DeleteEvents, OrphanEventsFail, RequestFails
  <2> QED BY <1>1, <2>1, <2>2, <2>3 DEF Next, Over, vars
<1> QED BY <1>1, TypeInit, TypeStep, PTL DEF Spec, RowsGoWithTheDevice

-----------------------------------------------------------------------------
(***************************************************************************)
(* What a deletion holds.  No check-in runs next to a request that is not  *)
(* mixed, so nothing comes back into a store it has been through; and one  *)
(* of whose statements none failed holds the rows of all those stores.     *)
(***************************************************************************)
Apart ==
  \A a \in Admins, i \in CheckIns : doing[a] # "idle" /\ ~mixed[a] => stage[i] = "idle"
Gathered ==
  \A a \in Admins :
    ~mixed[a] /\ ~hurt[a] =>
      /\ doing[a] \in {"delete", "orphans"} =>
           \A n \in 1..Len(Order) : n < nth[a] /\ Order[n] \in data => Order[n] \in gone[a]
      /\ doing[a] = "delete" /\ "usage" \in data => "usage" \in gone[a]
      /\ doing[a] = "commit" => data \subseteq gone[a]
      /\ doing[a] = "cleaned" => data \subseteq gone[a] \cup {"usage"}

HoldInv == Apart /\ Gathered

LEMMA HoldCheckIn ==
  ASSUME TypeInv, HoldInv, NEW i \in CheckIns, CheckIn(i)
  PROVE  HoldInv'
<1>1. UNCHANGED <<doing, nth, gone, hurt>>
  BY DEF CheckIn, Arrive, WriteDevice, InsertConflict, LookModule, WriteModule, ModulesDone, BookUsage, Finish,
         admin
<1>2. ASSUME NEW modules \in SUBSET Tables, Arrive(i, modules) PROVE HoldInv'
  <2>1. \A a \in Admins : mixed'[a] \/ doing'[a] = "idle"
    BY <1>1, <1>2 DEF Arrive, TypeInv, TypeOK
  <2> QED BY <2>1 DEF HoldInv, Apart, Gathered
<1>3. CASE \A modules \in SUBSET Tables : ~Arrive(i, modules)
  <2>1. stage[i] # "idle" /\ mixed' = mixed
    BY <1>3 DEF CheckIn, WriteDevice, InsertConflict, LookModule, WriteModule, ModulesDone, BookUsage, Finish,
                admin
  <2>2. \A a \in Admins : mixed'[a] \/ doing'[a] = "idle"
    BY <1>1, <2>1 DEF HoldInv, Apart
  <2> QED BY <2>2 DEF HoldInv, Apart, Gathered
<1> QED BY <1>2, <1>3

LEMMA HoldRequest ==
  ASSUME TypeInv, RaceInv, HoldInv, NEW a \in Admins, Request(a)
  PROVE  HoldInv'
<1> USE DEF checkin, counts
<1>1. UNCHANGED stage /\ data' \subseteq data /\ \A b \in Admins \ {a} :
        UNCHANGED <<doing[b], nth[b], gone[b], mixed[b], hurt[b]>>
  <2>1. UNCHANGED stage /\ data' \subseteq data
    BY DEF Request, BeginArchive, BeginUnarchive, BeginDelete, BeginOrphans, Begin, Archive, Unarchive, Flag,
           CountRows, CountFails, DeleteUsage, DeleteTable, DeleteTableFails, DeleteEvents, OrphanEventsFail, EventsNext, CommitDelete,
           CommitOrphans, RequestFails
  <2>2. ASSUME NEW b \in Admins \ {a} PROVE UNCHANGED <<doing[b], nth[b]>>
    BY DEF Request, BeginArchive, BeginUnarchive, BeginDelete, BeginOrphans, Begin, Archive, Unarchive, Flag,
           CountRows, CountFails, DeleteUsage, DeleteTable, DeleteTableFails, DeleteEvents, OrphanEventsFail, EventsNext, CommitDelete,
           CommitOrphans, RequestFails, Close, Turn, NextTable, TypeInv, TypeOK
  <2>3. ASSUME NEW b \in Admins \ {a} PROVE UNCHANGED <<gone[b], mixed[b], hurt[b]>>
    BY DEF Request, BeginArchive, BeginUnarchive, BeginDelete, BeginOrphans, Begin, Archive, Unarchive, Flag,
           CountRows, CountFails, DeleteUsage, DeleteTable, DeleteTableFails, DeleteEvents, OrphanEventsFail, EventsNext, CommitDelete,
           CommitOrphans, RequestFails, Close, DeleteFrom, TypeInv, TypeOK
  <2> QED BY <2>1, <2>2, <2>3
<1>2. ASSUME doing'[a] = "idle" PROVE HoldInv'
  BY <1>1, <1>2 DEF HoldInv, Apart, Gathered
<1>3. CASE Archive(a) \/ Unarchive(a) \/ CountFails(a) \/ CommitDelete(a) \/ CommitOrphans(a) \/ RequestFails(a)
  BY <1>2, <1>3 DEF Archive, Unarchive, Flag, CountFails, CommitDelete, CommitOrphans, RequestFails, Close, Turn, TypeInv,
                    TypeOK
<1>4. CASE BeginArchive(a) \/ BeginUnarchive(a) \/ BeginDelete(a) \/ BeginOrphans(a)
  <2>1. /\ nth'[a] = 1 /\ mixed'[a] = CheckInRuns
        /\ doing'[a] \in {"archive", "unarchive", "count", "orphans"}
    BY <1>4 DEF BeginArchive, BeginUnarchive, BeginDelete, BeginOrphans, Begin, Turn, TypeInv, TypeOK, RaceInv,
                AtTheFirst
  <2>2. Apart'
    BY <1>1, <2>1 DEF HoldInv, Apart, CheckInRuns
  <2>3. Gathered'
    BY <1>1, <2>1 DEF HoldInv, Gathered
  <2> QED BY <2>2, <2>3 DEF HoldInv
<1>5. ASSUME doing[a] # "idle", UNCHANGED mixed PROVE Apart'
  BY <1>1, <1>5 DEF HoldInv, Apart
<1>6. ASSUME CountRows(a) \/ DeleteUsage(a) \/ DeleteTable(a) \/ DeleteTableFails(a) \/ DeleteEvents(a) \/ OrphanEventsFail(a)
      PROVE  data' = data /\ Apart' /\ Len(Order) \in Nat /\ DOMAIN Order = 1..Len(Order)
  BY <1>5, <1>6, TablesAssumption DEF CountRows, DeleteUsage, DeleteTable, DeleteTableFails, DeleteEvents, OrphanEventsFail, EventsNext, HasTable
<1>7. CASE CountRows(a)
  <2>1. doing'[a] = "usage"
    BY <1>7 DEF CountRows, Turn, TypeInv, TypeOK
  <2>2. Gathered'
    BY <1>1, <2>1 DEF HoldInv, Gathered
  <2> QED BY <1>6, <1>7, <2>2 DEF HoldInv
<1>8. CASE DeleteUsage(a)
  <2>1. doing'[a] = "delete" /\ nth'[a] = 1 /\ gone'[a] = gone[a] \cup ({"usage"} \cap data)
    BY <1>8 DEF DeleteUsage, DeleteFrom, Turn, TypeInv, TypeOK, RaceInv, AtTheFirst
  <2>2. Gathered'
    BY <1>1, <1>6, <1>8, <2>1 DEF HoldInv, Gathered
  <2> QED BY <1>6, <1>8, <2>2 DEF HoldInv
<1>9. CASE DeleteTable(a)
  <2>1. /\ nth[a] \in 1..Len(Order) /\ nth'[a] = nth[a] + 1
        /\ gone'[a] = gone[a] \cup ({Order[nth[a]]} \cap data)
        /\ UNCHANGED <<doing, mixed, hurt>> /\ doing[a] \in {"delete", "orphans"}
    BY <1>6, <1>9 DEF DeleteTable, HasTable, NextTable, DeleteFrom, TypeInv, TypeOK
  <2>2. \A n \in 1..Len(Order) : n < nth'[a] => n < nth[a] \/ n = nth[a]
    BY <1>6, <1>9, <2>1
  <2>3. Gathered'
    BY <1>1, <1>6, <1>9, <2>1, <2>2 DEF HoldInv, Gathered
  <2> QED BY <1>6, <1>9, <2>3 DEF HoldInv
<1>10. CASE DeleteTableFails(a)
  <2>1. hurt'[a]
    BY <1>10 DEF DeleteTableFails, TypeInv, TypeOK
  <2>2. Gathered'
    BY <1>1, <2>1 DEF HoldInv, Gathered
  <2> QED BY <1>6, <1>10, <2>2 DEF HoldInv
<1>11. CASE DeleteEvents(a)
  <2>1. /\ nth[a] = Len(Order) + 1 /\ UNCHANGED <<mixed, hurt>>
        /\ doing[a] \in {"delete", "orphans"}
        /\ gone'[a] = gone[a] \cup ({"events"} \cap data)
        /\ doing'[a] = IF doing[a] = "delete" THEN "commit" ELSE "cleaned"
    BY <1>6, <1>11 DEF DeleteEvents, EventsNext, DeleteFrom, Turn, TypeInv, TypeOK
  <2>2. ASSUME ~mixed[a], ~hurt[a] PROVE data \cap Tables \subseteq gone'[a] /\ data \subseteq Stores
    BY <1>6, <1>11, <2>1, <2>2 DEF HoldInv, Gathered, Tables, TypeInv, TypeOK
  <2>3. ASSUME ~mixed[a], ~hurt[a] PROVE data \subseteq gone'[a] \cup {"usage"}
    BY <2>1, <2>2, <2>3 DEF Stores
  <2>4. ASSUME ~mixed[a], ~hurt[a], doing[a] = "delete" PROVE data \subseteq gone'[a]
    BY <2>1, <2>3, <2>4 DEF HoldInv, Gathered
  <2>5. Gathered'
    BY <1>1, <1>6, <1>11, <2>1, <2>3, <2>4 DEF HoldInv, Gathered
  <2> QED BY <1>6, <1>11, <2>5 DEF HoldInv
<1>12. CASE OrphanEventsFail(a)
  <2>1. hurt'[a]
    BY <1>12 DEF OrphanEventsFail, TypeInv, TypeOK
  <2>2. Gathered'
    BY <1>1, <2>1 DEF HoldInv, Gathered
  <2> QED BY <1>6, <1>12, <2>2 DEF HoldInv
<1> QED BY <1>3, <1>4, <1>7, <1>8, <1>9, <1>10, <1>11, <1>12 DEF Request

LEMMA HoldInit == Init => HoldInv
BY DEF Init, HoldInv, Apart, Gathered

LEMMA HoldStep == TypeInv /\ RaceInv /\ HoldInv /\ [Next]_vars => HoldInv'
<1>1. ASSUME HoldInv, UNCHANGED vars PROVE HoldInv'
  BY <1>1 DEF vars, checkin, admin, HoldInv, Apart, Gathered
<1> QED BY <1>1, HoldCheckIn, HoldRequest DEF Next, Over

(***************************************************************************)
(* A deletion that no check-in ran next to, and none of whose statements   *)
(* failed, leaves nothing behind, however many tables, check-ins and other *)
(* requests there are; an orphan cleanup leaves at most the usage history. *)
(***************************************************************************)
THEOREM NothingLeftBehind == Spec => DeletionIsComplete
<1>1. ASSUME TypeInv, HoldInv, [Next]_vars, NEW a \in Admins,
             doing[a] \in {"commit", "cleaned"}, doing'[a] = "idle", faults' = faults,
             ~mixed[a], ~hurt[a]
      PROVE  data' \subseteq (IF doing[a] = "cleaned" THEN {"usage"} ELSE {})
  <2>1. CommitDelete(a) \/ CommitOrphans(a)
    <3>1. ASSUME NEW i \in CheckIns, CheckIn(i) PROVE doing' = doing
      BY <3>1 DEF CheckIn, Arrive, WriteDevice, InsertConflict, LookModule, WriteModule, ModulesDone, BookUsage,
                  Finish, admin
    <3>2. ASSUME NEW b \in Admins, Request(b), b # a PROVE doing'[a] = doing[a]
      BY <1>1, <3>2 DEF Request, BeginArchive, BeginUnarchive, BeginDelete, BeginOrphans, Begin, Archive, Unarchive,
         Flag, CountRows, CountFails, DeleteUsage, DeleteTable, DeleteTableFails, DeleteEvents, OrphanEventsFail, EventsNext, CommitDelete,
         CommitOrphans, RequestFails, Close, Turn, TypeInv, TypeOK
    <3>3. ASSUME Request(a) PROVE CommitDelete(a) \/ CommitOrphans(a)
      BY <1>1, <3>3 DEF Request, BeginArchive, BeginUnarchive, BeginDelete, BeginOrphans, Begin, Archive, Unarchive,
         Flag, CountRows, CountFails, DeleteUsage, DeleteTable, DeleteTableFails, DeleteEvents, OrphanEventsFail, EventsNext, HasTable,
         RequestFails, Fault, TypeInv, TypeOK
    <3> QED BY <1>1, <3>1, <3>2, <3>3 DEF Next, Over, vars, admin
  <2>2. data' = data \ gone[a]
    BY <2>1 DEF CommitDelete, CommitOrphans
  <2> QED BY <1>1, <2>1, <2>2 DEF HoldInv, Gathered, CommitDelete, CommitOrphans
<1>2. TypeInv /\ HoldInv /\ [Next]_vars =>
        [\A a \in Admins :
           doing[a] \in {"commit", "cleaned"} /\ doing'[a] = "idle" /\ faults' = faults /\ ~mixed[a] /\ ~hurt[a]
           => data' \subseteq (IF doing[a] = "cleaned" THEN {"usage"} ELSE {})]_vars
  BY <1>1
<1> QED BY <1>2, TypeInit, TypeStep, RaceInit, RaceStep, HoldInit, HoldStep, PTL DEF Spec, DeletionIsComplete
=============================================================================
