---------------------------- MODULE IngestProofs ----------------------------
(***************************************************************************)
(* What holds of Ingest for every set of devices, submissions, payloads    *)
(* and processes, and any number of deliveries, faults and purges.         *)
(***************************************************************************)
EXTENDS Ingest, FiniteSetTheorems, TLAPS

USE PayloadAssumption, NoRowAssumption, BoundsAssumption

(* What the submission of a payload is made of. *)
LEMMA PayloadFields ==
  ASSUME NEW s \in Submissions
  PROVE  /\ Payload[s].device \in Devices
         /\ Payload[s].keyed \in BOOLEAN
         /\ Payload[s].at \in Nat
         /\ Payload[s].modules \subseteq Modules
         /\ Payload[s].usage \in BOOLEAN
BY DEF PayloadType

(* The stages after the device row is committed. *)
Past == Stages \ {"idle", "claim", "lookup", "device"}

(* The way through the modules stays on the stages after the device row. *)
LEMMA StagesClosed ==
  ASSUME NEW s \in Submissions
  PROVE  AfterDevice(s) \in Past /\ AfterSystem(s) \in Past /\ AfterInstalls(s) \in Past
BY DEF AfterDevice, AfterSystem, AfterInstalls, Stages, Past

LEMMA ModulesClosed ==
  ASSUME NEW s \in Submissions, NEW m, NEW ok \in BOOLEAN
  PROVE  AfterModule(m, s, ok) \in Past
BY StagesClosed DEF AfterModule, Stages, Past

LEMMA PastStages == Past \subseteq Stages
BY DEF Past

(* A field of a device row that is there gets another submission's value. *)
LEMMA RowTouched ==
  ASSUME TypeOK, NEW d \in Devices, devices[d] # NoRow, NEW s \in Submissions
  PROVE  /\ [devices EXCEPT ![d].seen = s] \in [Devices -> DeviceRow \cup {NoRow}]
         /\ [devices EXCEPT ![d].os = s] \in [Devices -> DeviceRow \cup {NoRow}]
         /\ [devices EXCEPT ![d].name = s] \in [Devices -> DeviceRow \cup {NoRow}]
<1>1. devices[d] \in DeviceRow /\ devices \in [Devices -> DeviceRow \cup {NoRow}]
  BY DEF TypeOK
<1>2. /\ [devices[d] EXCEPT !.seen = s] \in DeviceRow
      /\ [devices[d] EXCEPT !.os = s] \in DeviceRow
      /\ [devices[d] EXCEPT !.name = s] \in DeviceRow
  BY <1>1 DEF DeviceRow
<1>3. \A r \in DeviceRow : [devices EXCEPT ![d] = r] \in [Devices -> DeviceRow \cup {NoRow}]
  BY <1>1
<1> QED BY <1>2, <1>3

(* A worker that turns idle leaves every worker well typed. *)
LEMMA IdleTypes ==
  ASSUME TypeOK, NEW w \in Workers, Idle(w)
  PROVE  /\ pc' \in [Workers -> Stages]
         /\ job' \in [Workers -> Submissions \cup {NoRow}]
         /\ \A v \in Workers : pc'[v] # "idle" => job'[v] \in Submissions
         /\ known' \in [Workers -> {"unread", "row", "none"}]
         /\ next' \in [Workers -> Nat]
         /\ stored' \in [Workers -> Nat]
         /\ began' \in [Workers -> Nat]
         /\ swept' \in [Workers -> SUBSET Rows]
         /\ added' \in [Workers -> SUBSET Rows]
         /\ seen' \in [Workers -> SUBSET Rows]
BY DEF TypeOK, Idle, Forget, Goto, Stages

(* A step keeps every variable in its type. *)
LEMMA TypeStep ==
  ASSUME TypeOK, [Next]_vars
  PROVE  TypeOK'
<1> USE DEF database, handler, ledgers
<1>1. ASSUME NEW w \in Workers, NEW s \in Submissions, Deliver(w, s) PROVE TypeOK'
  BY <1>1 DEF Deliver, Goto, TypeOK, Stages
<1>2. ASSUME NEW w \in Workers, ClaimKey(w) PROVE TypeOK'
  BY <1>2 DEF ClaimKey, Goto, TypeOK, Stages
<1>3. ASSUME NEW w \in Workers, AnswerDuplicate(w) PROVE TypeOK'
  BY <1>3, IdleTypes DEF AnswerDuplicate, TypeOK
<1>4. ASSUME NEW w \in Workers, LookupDevice(w) PROVE TypeOK'
  BY <1>4 DEF LookupDevice, Look, Goto, TypeOK, Stages
<1>5. ASSUME NEW w \in Workers, UpdateDevice(w) PROVE TypeOK'
  <2>1. job[w] \in Submissions /\ Device(w) \in Devices
    BY <1>5, PayloadFields DEF UpdateDevice, TypeOK, Device, DeviceOf
  <2>2. devices' \in [Devices -> DeviceRow \cup {NoRow}]
    <3>1. CASE devices' = devices
      BY <3>1 DEF TypeOK
    <3>2. CASE devices[Device(w)] # NoRow
      BY <1>5, <2>1, <3>2, RowTouched DEF UpdateDevice
    <3> QED BY <1>5, <3>1, <3>2 DEF UpdateDevice
  <2>3. keys' \in SUBSET Submissions /\ claims' \in [Submissions -> Nat]
    BY <1>5, <2>1 DEF UpdateDevice, CommitKey, TypeOK, Keyed
  <2>a. AfterDevice(job[w]) \in Stages
    BY <2>1, StagesClosed, PastStages
  <2>4. pc' \in [Workers -> Stages] /\ \A v \in Workers : pc'[v] # "idle" => job'[v] \in Submissions
    BY <1>5, <2>1, <2>a DEF UpdateDevice, Goto, TypeOK
  <2> QED BY <1>5, <2>1, <2>2, <2>3, <2>4 DEF UpdateDevice, Forget, TypeOK
<1>6. ASSUME NEW w \in Workers, InsertDevice(w) PROVE TypeOK'
  <2>1. job[w] \in Submissions /\ Device(w) \in Devices
    BY <1>6, PayloadFields DEF InsertDevice, TypeOK, Device, DeviceOf
  <2>2. devices' \in [Devices -> DeviceRow \cup {NoRow}]
    BY <1>6, <2>1 DEF InsertDevice, TypeOK, DeviceRow
  <2>3. keys' \in SUBSET Submissions /\ claims' \in [Submissions -> Nat]
    BY <1>6, <2>1 DEF InsertDevice, CommitKey, TypeOK, Keyed
  <2>a. AfterDevice(job[w]) \in Stages
    BY <2>1, StagesClosed, PastStages
  <2>4. pc' \in [Workers -> Stages] /\ \A v \in Workers : pc'[v] # "idle" => job'[v] \in Submissions
    BY <1>6, <2>1, <2>a DEF InsertDevice, Goto, TypeOK
  <2> QED BY <1>6, <2>1, <2>2, <2>3, <2>4 DEF InsertDevice, Forget, TypeOK
<1>7. ASSUME NEW w \in Workers, InsertConflict(w) PROVE TypeOK'
  BY <1>7, IdleTypes DEF InsertConflict, TypeOK
<1>8. ASSUME NEW w \in Workers, NEW m \in Modules, StoreModule(w, m) PROVE TypeOK'
  <2>1. job[w] \in Submissions /\ Device(w) \in Devices
    BY <1>8, PayloadFields DEF StoreModule, TypeOK, Device, DeviceOf, Modules
  <2>2. AfterModule(m, job[w], TRUE) \in Stages
    BY <2>1, ModulesClosed, PastStages
  <2> QED BY <1>8, <2>1, <2>2 DEF StoreModule, LeaveModule, Forget, Goto, TypeOK
<1>22. ASSUME NEW w \in Workers, NEW m \in Modules, LookModule(w, m) PROVE TypeOK'
  BY <1>22 DEF LookModule, Look, TypeOK
<1>23. ASSUME NEW w \in Workers, NEW m \in Modules, InsertOutrun(w, m) PROVE TypeOK'
  <2>1. job[w] \in Submissions
    BY <1>23 DEF InsertOutrun, TypeOK, Modules
  <2>2. AfterModule(m, job[w], FALSE) \in Stages
    BY <2>1, ModulesClosed, PastStages
  <2> QED BY <1>23, <2>1, <2>2 DEF InsertOutrun, LeaveModule, Forget, Goto, TypeOK
<1>9. ASSUME NEW w \in Workers, NEW m \in Modules, ModuleFails(w, m) PROVE TypeOK'
  <2>1. job[w] \in Submissions
    BY <1>9 DEF ModuleFails, TypeOK, Modules
  <2>2. AfterModule(m, job[w], FALSE) \in Stages
    BY <2>1, ModulesClosed, PastStages
  <2>3. faults' \in Nat
    BY <1>9 DEF ModuleFails, Fault, TypeOK
  <2>4. pc' \in [Workers -> Stages] /\ \A v \in Workers : pc'[v] # "idle" => job[v] \in Submissions
    BY <1>9, <2>1, <2>2 DEF ModuleFails, LeaveModule, Goto, TypeOK
  <2> QED BY <1>9, <2>3, <2>4 DEF ModuleFails, LeaveModule, Forget, TypeOK
<1>10. ASSUME NEW w \in Workers, BookUsage(w) \/ UsageFails(w) PROVE TypeOK'
  <2>1. job[w] \in Submissions
    BY <1>10 DEF BookUsage, UsageFails, TypeOK
  <2>2. CASE BookUsage(w)
    BY <2>1, <2>2 DEF BookUsage, Goto, TypeOK, Stages
  <2>3. CASE UsageFails(w)
    BY <2>1, <2>3 DEF UsageFails, Fault, Goto, TypeOK, Stages
  <2> QED BY <1>10, <2>2, <2>3
<1>11. ASSUME NEW w \in Workers, StoreOsInfo(w) \/ OsInfoFails(w) PROVE TypeOK'
  <2>1. job[w] \in Submissions /\ Device(w) \in Devices
    BY <1>11, PayloadFields DEF StoreOsInfo, OsInfoFails, TypeOK, Device, DeviceOf
  <2>2. AfterSystem(job[w]) \in Stages
    BY <2>1, StagesClosed, PastStages
  <2>3. devices' \in [Devices -> DeviceRow \cup {NoRow}]
    <3>1. CASE devices' = devices
      BY <3>1 DEF TypeOK
    <3>2. CASE StoreOsInfo(w) /\ devices[Device(w)] # NoRow
      BY <2>1, <3>2, RowTouched DEF StoreOsInfo
    <3> QED BY <1>11, <3>1, <3>2 DEF StoreOsInfo, OsInfoFails, database
  <2> QED BY <1>11, <2>1, <2>2, <2>3, SMTT(30) DEF StoreOsInfo, OsInfoFails, Fault, Goto, TypeOK
<1>12. ASSUME NEW w \in Workers, StoreName(w) \/ NameFails(w) PROVE TypeOK'
  <2>1. job[w] \in Submissions /\ Device(w) \in Devices
    BY <1>12, PayloadFields DEF StoreName, NameFails, TypeOK, Device, DeviceOf
  <2>2. devices' \in [Devices -> DeviceRow \cup {NoRow}]
    <3>1. CASE devices' = devices
      BY <3>1 DEF TypeOK
    <3>2. CASE /\ devices[Device(w)] # NoRow
               /\ devices' = [devices EXCEPT ![Device(w)].name = job[w]]
      BY <2>1, <3>2, RowTouched
    <3> QED BY <1>12, <3>1, <3>2 DEF StoreName, NameFails
  <2> QED BY <1>12, <2>1, <2>2, SMTT(30) DEF StoreName, NameFails, Fault, Goto, TypeOK, Stages
<1>13. ASSUME NEW w \in Workers, Sweep(w) PROVE TypeOK'
  BY <1>13 DEF Sweep, BeginTransaction, Goto, TypeOK, Stages
<1>14. ASSUME NEW w \in Workers, SkipEvent(w) PROVE TypeOK'
  BY <1>14 DEF SkipEvent, TypeOK
<1>15. ASSUME NEW w \in Workers, StoreEvent(w) PROVE TypeOK'
  <2>1. job[w] \in Submissions
    BY <1>15 DEF StoreEvent, HasEvent, TypeOK
  <2>2. [sub |-> job[w], n |-> next[w], created |-> began[w]] \in Rows
    BY <2>1 DEF TypeOK, Rows
  <2> QED BY <1>15, <2>1, <2>2 DEF StoreEvent, TypeOK
<1>16. ASSUME NEW w \in Workers, EventFails(w) PROVE TypeOK'
  BY <1>16 DEF EventFails, Fault, Rollback, BeginTransaction, TypeOK
<1>17. ASSUME NEW w \in Workers, Finish(w) PROVE TypeOK'
  <2>1. job[w] \in Submissions /\ Device(w) \in Devices
    BY <1>17, PayloadFields DEF Finish, EventsDone, TypeOK, Device, DeviceOf
  <2>2. FallbackRow(w) \subseteq Rows
    BY <2>1 DEF FallbackRow, TypeOK, Rows
  <2>3. watermark' \in [Devices -> Nat]
    BY <1>17, <2>1 DEF Finish, Accept, Later, TypeOK
  <2>4. events' \in SUBSET Rows
    BY <1>17, <2>2 DEF Finish, Accept, TypeOK
  <2> QED BY <1>17, <2>1, <2>3, <2>4, IdleTypes DEF Finish, Accept, TypeOK
<1>18. ASSUME NEW w \in Workers, FallbackFails(w) PROVE TypeOK'
  <2>1. job[w] \in Submissions /\ Device(w) \in Devices
    BY <1>18, PayloadFields DEF FallbackFails, EventsDone, TypeOK, Device, DeviceOf
  <2>2. watermark' \in [Devices -> Nat]
    BY <1>18, <2>1 DEF FallbackFails, Later, TypeOK
  <2> QED BY <1>18, <2>1, <2>2, IdleTypes DEF FallbackFails, Fault, TypeOK
<1>19. ASSUME NEW w \in Workers, Stop(w) PROVE TypeOK'
  BY <1>19, IdleTypes DEF Stop, Fault, TypeOK
<1>20. ASSUME NEW S \in SUBSET keys, NEW t \in {At(s) : s \in landed} \cup {0}, Purge(S, t)
       PROVE TypeOK'
  BY <1>20 DEF Purge, TypeOK
<1>21. CASE Drained \/ UNCHANGED vars
  BY <1>21 DEF Drained, vars, TypeOK
<1> QED
  BY <1>1, <1>2, <1>3, <1>4, <1>5, <1>6, <1>7, <1>8, <1>9, <1>10, <1>11, <1>12, <1>13,
     <1>14, <1>15, <1>16, <1>17, <1>18, <1>19, <1>20, <1>21, <1>22, <1>23
  DEF Next, Progress, Failure

(* Every reachable state is well typed: rows of the tables Ingest writes, and handlers in a stage. *)
THEOREM TypeCorrect == Spec => []TypeOK
<1>1. Init => TypeOK
  BY DEF Init, TypeOK, Stages
<1>2. TypeOK /\ [Next]_vars => TypeOK'
  BY TypeStep
<1> QED BY <1>1, <1>2, PTL DEF Spec

-----------------------------------------------------------------------------
(***************************************************************************)
(* Why usage is booked at most once per claim.  A worker that may still    *)
(* book must not be the second one to do so, so the invariant says who     *)
(* works on a keyed submission: at most one worker is past the claim, it   *)
(* holds the key uncommitted before the device row and committed after it, *)
(* and until it has passed the usage rows a claim is left to book against. *)
(***************************************************************************)
Held(w) == job[w] \in Keyed /\ pc[w] \in {"lookup", "device"}
Claimed(w) == job[w] \in Keyed /\ pc[w] \in Past
MayBook(w) == job[w] \in Keyed /\ pc[w] \in {"system", "osinfo", "installs", "applications", "usage"}

HolderUncommitted == \A w \in Workers : Held(w) => job[w] \notin keys
ClaimCommitted == \A w \in Workers : Claimed(w) => job[w] \in keys
OneClaimant ==
  \A v, w \in Workers :
    (Held(v) \/ Claimed(v)) /\ (Held(w) \/ Claimed(w)) /\ job[v] = job[w] => v = w
ClaimsBounded ==
  \A s \in Keyed : /\ s \notin keys => claims[s] <= purges
                   /\ s \in keys => claims[s] <= purges + 1
BooksBounded == \A s \in Keyed : booked[s] <= claims[s]
ClaimLeft == \A w \in Workers : MayBook(w) => booked[job[w]] < claims[job[w]]

IInv ==
  /\ TypeOK
  /\ HolderUncommitted
  /\ ClaimCommitted
  /\ OneClaimant
  /\ ClaimsBounded
  /\ BooksBounded
  /\ ClaimLeft

(***************************************************************************)
(* A step of worker w that neither claims, books nor purges: w stays with  *)
(* its submission and gains no right it did not have, or lets it go.       *)
(***************************************************************************)
Quiet(w) ==
  /\ UNCHANGED <<keys, claims, booked, purges>>
  /\ \A v \in Workers \ {w} : pc'[v] = pc[v] /\ job'[v] = job[v]
  /\ Held(w)' => Held(w) /\ job'[w] = job[w]
  /\ Claimed(w)' => Claimed(w) /\ job'[w] = job[w]
  /\ MayBook(w)' => MayBook(w) /\ job'[w] = job[w]

LEMMA QuietStep ==
  ASSUME IInv, TypeOK', NEW w \in Workers, Quiet(w)
  PROVE  IInv'
<1>1. \A v \in Workers : /\ Held(v)' => Held(v) /\ job'[v] = job[v]
                         /\ Claimed(v)' => Claimed(v) /\ job'[v] = job[v]
                         /\ MayBook(v)' => MayBook(v) /\ job'[v] = job[v]
  BY DEF Quiet, Held, Claimed, MayBook
<1>2. HolderUncommitted' BY <1>1 DEF Quiet, IInv, HolderUncommitted
<1>3. ClaimCommitted' BY <1>1 DEF Quiet, IInv, ClaimCommitted
<1>4. OneClaimant' BY <1>1 DEF Quiet, IInv, OneClaimant
<1>5. ClaimsBounded' BY DEF Quiet, IInv, ClaimsBounded
<1>6. BooksBounded' BY DEF Quiet, IInv, BooksBounded
<1>7. ClaimLeft' BY <1>1 DEF Quiet, IInv, ClaimLeft
<1> QED BY <1>2, <1>3, <1>4, <1>5, <1>6, <1>7 DEF IInv

(* A worker that lets its submission go does nothing else to the ledger. *)
LEMMA IdleIsQuiet ==
  ASSUME TypeOK, NEW w \in Workers, Idle(w), UNCHANGED <<keys, claims, booked, purges>>
  PROVE  Quiet(w)
BY DEF TypeOK, Idle, Goto, Quiet, Held, Claimed, MayBook, Past

(* Moving on within the stages after the device row is quiet, unless it books. *)
LEMMA MoveIsQuiet ==
  ASSUME TypeOK, NEW w \in Workers, NEW stage \in Past, pc[w] \in Past, Goto(w, stage),
         UNCHANGED <<job, keys, claims, booked, purges>>,
         stage \in {"system", "osinfo", "installs", "applications", "usage"}
           => pc[w] \in {"system", "osinfo", "installs", "applications", "usage"}
  PROVE  Quiet(w)
BY DEF TypeOK, Goto, Quiet, Held, Claimed, MayBook, Past, Stages

(* The commit of the device row turns the held key into a claim. *)
LEMMA ClaimStep ==
  ASSUME IInv, TypeOK', NEW w \in Workers, pc[w] = "device", CommitKey(w),
         Goto(w, AfterDevice(job[w])), UNCHANGED <<job, booked, purges>>
  PROVE  IInv'
<1> DEFINE s == job[w]
<1>1. s \in Submissions /\ pc[w] = "device" /\ AfterDevice(s) \in Past
  BY StagesClosed DEF IInv, TypeOK
<1>2. /\ job' = job /\ booked' = booked /\ purges' = purges
      /\ pc' = [pc EXCEPT ![w] = AfterDevice(s)]
      /\ keys' = keys \cup ({s} \cap Keyed)
  BY DEF CommitKey, Goto
<1>3. \A r \in Submissions :
        claims'[r] = IF r = s /\ s \in Keyed THEN claims[r] + 1 ELSE claims[r]
  BY <1>1 DEF IInv, TypeOK, CommitKey, Keyed
<1>4. s \in Keyed => /\ s \notin keys
                      /\ \A v \in Workers \ {w} : (Held(v) \/ Claimed(v)) => job[v] # s
  <2>1. s \in Keyed => Held(w)
    BY <1>1 DEF Held
  <2> QED BY <2>1 DEF IInv, HolderUncommitted, OneClaimant, Held
<1>5. pc'[w] = AfterDevice(s) /\ \A v \in Workers \ {w} : pc'[v] = pc[v]
  BY <1>2 DEF IInv, TypeOK
<1>6. \A v \in Workers : Held(v)' => v # w /\ Held(v)
  BY <1>1, <1>2, <1>5 DEF Held, Past
<1>7. \A v \in Workers : Claimed(v)' => job[v] \in Keyed /\ (v = w \/ Claimed(v))
  BY <1>2, <1>5 DEF Claimed
<1>8. \A v \in Workers : MayBook(v)' => job[v] \in Keyed /\ (v = w \/ MayBook(v))
  BY <1>2, <1>5 DEF MayBook
<1>9. HolderUncommitted'
  <2> SUFFICES ASSUME NEW v \in Workers, Held(v)' PROVE job[v] \notin keys'
    BY <1>2 DEF HolderUncommitted
  <2>1. v # w /\ Held(v) /\ job[v] \notin keys
    BY <1>6 DEF IInv, HolderUncommitted
  <2> QED BY <1>2, <1>4, <2>1
<1>10. ClaimCommitted'
  <2> SUFFICES ASSUME NEW v \in Workers, Claimed(v)' PROVE job[v] \in keys'
    BY <1>2 DEF ClaimCommitted
  <2> QED BY <1>2, <1>7 DEF IInv, ClaimCommitted
<1>11. OneClaimant'
  <2> SUFFICES ASSUME NEW u \in Workers, NEW v \in Workers, u # v, job[u] = job[v],
                      Held(u)' \/ Claimed(u)', Held(v)' \/ Claimed(v)'
               PROVE  FALSE
    BY <1>2 DEF OneClaimant
  <2>1. job[u] \in Keyed /\ (u = w \/ Held(u) \/ Claimed(u))
    BY <1>6, <1>7 DEF Held
  <2>2. job[v] \in Keyed /\ (v = w \/ Held(v) \/ Claimed(v))
    BY <1>6, <1>7 DEF Held
  <2> QED BY <1>4, <2>1, <2>2 DEF IInv, OneClaimant
<1>12. ClaimsBounded'
  <2> SUFFICES ASSUME NEW r \in Keyed
               PROVE  /\ r \notin keys' => claims'[r] <= purges
                      /\ r \in keys' => claims'[r] <= purges + 1
    BY <1>2 DEF ClaimsBounded
  <2>1. /\ r \in Submissions /\ claims[r] \in Nat /\ purges \in Nat
        /\ r \notin keys => claims[r] <= purges
        /\ r \in keys => claims[r] <= purges + 1
    BY DEF IInv, TypeOK, ClaimsBounded, Keyed
  <2> QED BY <1>2, <1>3, <1>4, <2>1
<1>13. BooksBounded'
  <2> SUFFICES ASSUME NEW r \in Keyed PROVE booked[r] <= claims'[r]
    BY <1>2 DEF BooksBounded
  <2>1. r \in Submissions /\ claims[r] \in Nat /\ booked[r] \in Nat /\ booked[r] <= claims[r]
    BY DEF IInv, TypeOK, BooksBounded, Keyed
  <2> QED BY <1>3, <2>1
<1>14. ClaimLeft'
  <2> SUFFICES ASSUME NEW v \in Workers, MayBook(v)' PROVE booked[job[v]] < claims'[job[v]]
    BY <1>2 DEF ClaimLeft
  <2>1. /\ job[v] \in Submissions /\ job[v] \in Keyed
        /\ claims[job[v]] \in Nat /\ booked[job[v]] \in Nat
    BY <1>8 DEF IInv, TypeOK, Keyed
  <2>2. CASE v = w
    <3>1. booked[s] <= claims[s]
      BY <2>1, <2>2 DEF IInv, BooksBounded
    <3> QED BY <1>3, <2>1, <2>2, <3>1
  <2>3. CASE v # w
    <3>1. booked[job[v]] < claims[job[v]]
      BY <1>8, <2>3 DEF IInv, ClaimLeft
    <3> QED BY <1>3, <2>1, <3>1
  <2> QED BY <2>2, <2>3
<1> QED BY <1>9, <1>10, <1>11, <1>12, <1>13, <1>14 DEF IInv

(* Booking uses up the claim the worker had left. *)
LEMMA BookStep ==
  ASSUME IInv, TypeOK', NEW w \in Workers, BookUsage(w)
  PROVE  IInv'
<1> DEFINE s == job[w]
<1>1. /\ s \in Submissions
      /\ pc[w] = "usage" /\ pc' = [pc EXCEPT ![w] = "name"] /\ job' = job
      /\ keys' = keys /\ claims' = claims /\ purges' = purges
      /\ \A r \in Submissions : booked'[r] = IF r = s THEN booked[r] + 1 ELSE booked[r]
  BY DEF IInv, TypeOK, BookUsage, Goto, handler, ledgers
<1>2. s \in Keyed => /\ MayBook(w) /\ Claimed(w) /\ booked[s] < claims[s]
                      /\ \A v \in Workers \ {w} : Claimed(v) => job[v] # s
  BY <1>1 DEF IInv, MayBook, Claimed, ClaimLeft, OneClaimant, Past, Stages
<1>3. \A v \in Workers : /\ job'[v] = job[v]
                         /\ Held(v)' <=> Held(v)
                         /\ Claimed(v)' <=> Claimed(v)
                         /\ MayBook(v)' => MayBook(v) /\ v # w
  BY <1>1 DEF IInv, TypeOK, Held, Claimed, MayBook, Past, Stages
<1>4. HolderUncommitted' /\ ClaimCommitted' /\ OneClaimant' /\ ClaimsBounded'
  BY <1>1, <1>3 DEF IInv, HolderUncommitted, ClaimCommitted, OneClaimant, ClaimsBounded
<1>5. BooksBounded'
  <2> SUFFICES ASSUME NEW r \in Keyed PROVE booked'[r] <= claims'[r]
    BY DEF BooksBounded
  <2>1. r \in Submissions /\ booked[r] \in Nat /\ claims[r] \in Nat /\ booked[r] <= claims[r]
    BY DEF IInv, TypeOK, BooksBounded, Keyed
  <2> QED BY <1>1, <1>2, <2>1
<1>6. ClaimLeft'
  <2> SUFFICES ASSUME NEW v \in Workers, MayBook(v)'
               PROVE  booked'[job[v]] < claims[job[v]]
    BY <1>1 DEF ClaimLeft
  <2>1. v # w /\ MayBook(v) /\ Claimed(v) /\ booked[job[v]] < claims[job[v]]
    BY <1>3 DEF IInv, ClaimLeft, MayBook, Claimed, Past, Stages
  <2>2. job[v] # s
    BY <1>2, <2>1 DEF Claimed
  <2> QED BY <1>1, <2>1, <2>2 DEF MayBook, Keyed
<1> QED BY <1>4, <1>5, <1>6 DEF IInv

(* The insert of a free key makes its worker the only one on the submission. *)
LEMMA ClaimKeyStep ==
  ASSUME IInv, TypeOK', NEW w \in Workers, ClaimKey(w)
  PROVE  IInv'
<1>1. /\ job' = job /\ keys' = keys /\ claims' = claims /\ booked' = booked /\ purges' = purges
      /\ pc[w] = "claim" /\ pc' = [pc EXCEPT ![w] = "lookup"]
  BY DEF ClaimKey, Goto, database, handler, ledgers
<1>2. pc'[w] = "lookup" /\ \A v \in Workers \ {w} : pc'[v] = pc[v]
  BY <1>1 DEF IInv, TypeOK
<1>3. job[w] \notin keys /\ \A v \in Workers \ {w} : Held(v) => job[v] # job[w]
  BY DEF ClaimKey, KeyIsFree, HoldsKey, Held
<1>4. \A v \in Workers \ {w} : Claimed(v) => job[v] # job[w]
  BY <1>3 DEF IInv, ClaimCommitted
<1>5. \A v \in Workers : /\ Held(v)' => v = w \/ Held(v)
                         /\ Claimed(v)' => v # w /\ Claimed(v)
                         /\ MayBook(v)' => v # w /\ MayBook(v)
  BY <1>1, <1>2 DEF Held, Claimed, MayBook, Past
<1>6. HolderUncommitted' BY <1>1, <1>3, <1>5 DEF IInv, HolderUncommitted
<1>7. ClaimCommitted' BY <1>1, <1>5 DEF IInv, ClaimCommitted
<1>8. OneClaimant'
  <2> SUFFICES ASSUME NEW u \in Workers, NEW v \in Workers, u # v, job[u] = job[v],
                      Held(u)' \/ Claimed(u)', Held(v)' \/ Claimed(v)'
               PROVE  FALSE
    BY <1>1 DEF OneClaimant
  <2>1. (u = w \/ Held(u) \/ Claimed(u)) /\ (v = w \/ Held(v) \/ Claimed(v))
    BY <1>5
  <2> QED BY <1>3, <1>4, <2>1 DEF IInv, OneClaimant
<1>9. ClaimsBounded' /\ BooksBounded' BY <1>1 DEF IInv, ClaimsBounded, BooksBounded
<1>10. ClaimLeft' BY <1>1, <1>5 DEF IInv, ClaimLeft
<1> QED BY <1>6, <1>7, <1>8, <1>9, <1>10 DEF IInv

(* A purge forgets claims, but none a request is working under. *)
LEMMA PurgeStep ==
  ASSUME IInv, TypeOK', NEW S \in SUBSET keys, NEW t, Purge(S, t)
  PROVE  IInv'
<1>1. /\ job' = job /\ pc' = pc /\ claims' = claims /\ booked' = booked
      /\ keys' = keys \ S /\ purges' = purges + 1
      /\ \A w \in Workers : pc[w] # "idle" => job[w] \notin S
  BY DEF Purge, handler
<1>2. \A v \in Workers : /\ Held(v)' <=> Held(v)
                         /\ Claimed(v)' <=> Claimed(v)
                         /\ MayBook(v)' <=> MayBook(v)
  BY <1>1 DEF Held, Claimed, MayBook
<1>3. HolderUncommitted' BY <1>1, <1>2 DEF IInv, HolderUncommitted
<1>4. ClaimCommitted'
  <2> SUFFICES ASSUME NEW v \in Workers, Claimed(v) PROVE job[v] \in keys'
    BY <1>1, <1>2 DEF ClaimCommitted
  <2>1. job[v] \in keys /\ pc[v] # "idle"
    BY DEF IInv, ClaimCommitted, Claimed, Past
  <2> QED BY <1>1, <2>1
<1>5. OneClaimant' BY <1>1, <1>2 DEF IInv, OneClaimant
<1>6. ClaimsBounded'
  <2> SUFFICES ASSUME NEW s \in Keyed
               PROVE  /\ s \notin keys' => claims[s] <= purges + 1
                      /\ s \in keys' => claims[s] <= purges + 1 + 1
    BY <1>1 DEF ClaimsBounded
  <2>1. claims[s] \in Nat /\ purges \in Nat /\ claims[s] <= purges + 1
    BY DEF IInv, TypeOK, ClaimsBounded, Keyed
  <2> QED BY <2>1
<1>7. BooksBounded' BY <1>1 DEF IInv, BooksBounded
<1>8. ClaimLeft' BY <1>1, <1>2 DEF IInv, ClaimLeft
<1> QED BY <1>3, <1>4, <1>5, <1>6, <1>7, <1>8 DEF IInv

(* Every step keeps the invariant. *)
LEMMA InvStep ==
  ASSUME IInv, [Next]_vars
  PROVE  IInv'
<1> USE DEF database, handler, ledgers
<1>a. TypeOK /\ TypeOK'
  BY TypeStep DEF IInv
<1>1. ASSUME NEW w \in Workers, NEW s \in Submissions, Deliver(w, s) PROVE IInv'
  <2>1. Quiet(w)
    BY <1>a, <1>1 DEF Deliver, Goto, TypeOK, Quiet, Held, Claimed, MayBook, Past, Keyed
  <2> QED BY <1>a, <2>1, QuietStep
<1>2. ASSUME NEW w \in Workers, ClaimKey(w) PROVE IInv'
  BY <1>a, <1>2, ClaimKeyStep
<1>3. ASSUME NEW w \in Workers,
             AnswerDuplicate(w) \/ InsertConflict(w) \/ Finish(w) \/ FallbackFails(w) \/ Stop(w)
      PROVE  IInv'
  <2>1. Idle(w) /\ UNCHANGED <<keys, claims, booked, purges>>
    BY <1>3 DEF AnswerDuplicate, InsertConflict, Finish, Accept, FallbackFails, Stop
  <2> QED BY <1>a, <2>1, IdleIsQuiet, QuietStep
<1>4. ASSUME NEW w \in Workers, LookupDevice(w) PROVE IInv'
  <2>1. Quiet(w)
    BY <1>a, <1>4 DEF LookupDevice, Goto, TypeOK, Quiet, Held, Claimed, MayBook, Past
  <2> QED BY <1>a, <2>1, QuietStep
<1>5. ASSUME NEW w \in Workers, UpdateDevice(w) \/ InsertDevice(w) PROVE IInv'
  BY <1>a, <1>5, ClaimStep DEF UpdateDevice, InsertDevice
<1>6. ASSUME NEW w \in Workers, NEW m \in Modules, StoreModule(w, m) \/ InsertOutrun(w, m) \/ ModuleFails(w, m)
      PROVE  IInv'
  <2>1. job[w] \in Submissions /\ pc[w] = m /\ m \in Past
    BY <1>a, <1>6 DEF StoreModule, InsertOutrun, ModuleFails, TypeOK, Modules, Past, Stages
  <2>2. PICK ok \in BOOLEAN : Goto(w, AfterModule(m, job[w], ok))
    BY <1>6 DEF StoreModule, InsertOutrun, ModuleFails, LeaveModule
  <2>3. m \in {"system", "installs", "applications"}
    BY DEF Modules
  <2>4. Quiet(w)
    BY <1>a, <1>6, <2>1, <2>2, <2>3, ModulesClosed, MoveIsQuiet
    DEF StoreModule, InsertOutrun, ModuleFails, LeaveModule
  <2> QED BY <1>a, <2>4, QuietStep
<1>7. ASSUME NEW w \in Workers, BookUsage(w) PROVE IInv'
  BY <1>a, <1>7, BookStep
<1>8. ASSUME NEW w \in Workers, UsageFails(w) PROVE IInv'
  <2>1. Quiet(w)
    BY <1>a, <1>8, MoveIsQuiet DEF UsageFails, Past, Stages
  <2> QED BY <1>a, <2>1, QuietStep
<1>9. ASSUME NEW w \in Workers, StoreOsInfo(w) \/ OsInfoFails(w) PROVE IInv'
  <2>1. /\ pc[w] = "osinfo" /\ pc[w] \in Past /\ AfterSystem(job[w]) \in Past
        /\ Goto(w, AfterSystem(job[w])) /\ UNCHANGED <<job, keys, claims, booked, purges>>
    BY <1>a, <1>9, StagesClosed DEF StoreOsInfo, OsInfoFails, TypeOK, Past, Stages
  <2>2. Quiet(w)
    BY <1>a, <2>1, MoveIsQuiet
  <2> QED BY <1>a, <2>2, QuietStep
<1>10. ASSUME NEW w \in Workers, StoreName(w) \/ NameFails(w) \/ Sweep(w) PROVE IInv'
  <2>1. PICK stage \in {"sweep", "events"} :
             /\ Goto(w, stage) /\ pc[w] \in {"name", "sweep"}
             /\ UNCHANGED <<job, keys, claims, booked, purges>>
    BY <1>10 DEF StoreName, NameFails, Sweep
  <2>2. Quiet(w)
    BY <1>a, <2>1, MoveIsQuiet DEF Past, Stages
  <2> QED BY <1>a, <2>2, QuietStep
<1>14. ASSUME NEW w \in Workers, NEW m \in Modules, LookModule(w, m) PROVE IInv'
  <2>1. UNCHANGED <<pc, job, keys, claims, booked, purges>>
    BY <1>14 DEF LookModule
  <2>2. Quiet(w)
    BY <2>1 DEF Quiet, Held, Claimed, MayBook
  <2> QED BY <1>a, <2>2, QuietStep
<1>11. ASSUME NEW w \in Workers, SkipEvent(w) \/ StoreEvent(w) \/ EventFails(w) PROVE IInv'
  <2>1. UNCHANGED <<pc, job, keys, claims, booked, purges>>
    BY <1>11 DEF SkipEvent, StoreEvent, EventFails
  <2>2. Quiet(w)
    BY <2>1 DEF Quiet, Held, Claimed, MayBook
  <2> QED BY <1>a, <2>2, QuietStep
<1>12. ASSUME NEW S \in SUBSET keys, NEW t \in {At(s) : s \in landed} \cup {0}, Purge(S, t)
       PROVE  IInv'
  BY <1>a, <1>12, PurgeStep
<1>13. CASE Drained \/ UNCHANGED vars
  <2>1. UNCHANGED vars
    BY <1>13 DEF Drained
  <2> QED BY <1>a, <2>1 DEF vars, IInv, HolderUncommitted, ClaimCommitted, OneClaimant, ClaimsBounded,
          BooksBounded, ClaimLeft, Held, Claimed, MayBook
<1> QED
  BY <1>1, <1>2, <1>3, <1>4, <1>5, <1>6, <1>7, <1>8, <1>9, <1>10, <1>11, <1>12, <1>13, <1>14
  DEF Next, Progress, Failure

LEMMA InvInit ==
  ASSUME Init
  PROVE  IInv
<1>1. TypeOK
  BY DEF Init, TypeOK, Stages
<1> QED BY <1>1 DEF Init, IInv, HolderUncommitted, ClaimCommitted, OneClaimant, ClaimsBounded,
        BooksBounded, ClaimLeft, Held, Claimed, MayBook, Past, Keyed

(* The inductive invariant holds in every reachable state. *)
LEMMA Invariance == Spec => []IInv
BY InvInit, InvStep, PTL DEF Spec

(***************************************************************************)
(* However many processes handle however many deliveries of a keyed        *)
(* submission, its deltas are booked at most once per claim, and it is     *)
(* claimed at most once more than there were purges.                       *)
(***************************************************************************)
THEOREM UsageOnce == Spec => []UsageAtMostOnce
<1>1. IInv => UsageAtMostOnce
  <2> SUFFICES ASSUME IInv, NEW s \in Keyed
               PROVE  booked[s] <= claims[s] /\ claims[s] <= purges + 1
    BY DEF UsageAtMostOnce
  <2>1. claims[s] \in Nat /\ purges \in Nat
    BY DEF IInv, TypeOK, Keyed
  <2> QED BY <2>1 DEF IInv, ClaimsBounded, BooksBounded
<1> QED BY <1>1, Invariance, PTL

-----------------------------------------------------------------------------
(* GREATEST never returns less than the row had. *)
LEMMA LaterGrows ==
  ASSUME NEW a \in Nat, NEW b \in Nat
  PROVE  a <= Later(a, b)
BY DEF Later

(* No step moves a device's watermark back, whichever transaction commits last. *)
THEOREM WatermarkNeverBack == Spec => WatermarkMonotone
<1> USE DEF database, handler, ledgers
<1>1. ASSUME TypeOK, [Next]_vars, NEW d \in Devices
      PROVE  watermark[d] <= watermark'[d]
  <2>1. watermark[d] \in Nat /\ clock \in Nat
    BY <1>1 DEF TypeOK
  <2>2. ASSUME NEW w \in Workers, Finish(w) \/ FallbackFails(w)
        PROVE  watermark[d] <= watermark'[d]
    <3>1. began[w] \in Nat /\ clock + 1 \in Nat
      BY <1>1 DEF TypeOK
    <3>2. watermark'[d] \in {watermark[d], Later(watermark[d], began[w]), Later(watermark[d], clock + 1)}
      BY <1>1, <2>2 DEF Finish, Accept, FallbackFails, TypeOK
    <3> QED BY <2>1, <3>1, <3>2, LaterGrows
  <2>3. CASE watermark' = watermark
    BY <2>1, <2>3
  <2> QED
    BY <1>1, <2>2, <2>3, ZenonT(120)
    DEF Next, Progress, Failure, vars, Drained, Deliver, ClaimKey, AnswerDuplicate, LookupDevice,
        UpdateDevice, InsertDevice, InsertConflict, LookModule, StoreModule, InsertOutrun, ModuleFails, BookUsage, UsageFails,
        StoreOsInfo, OsInfoFails, StoreName, NameFails, Sweep, SkipEvent, StoreEvent, EventFails,
        Stop, Purge
<1>2. TypeOK /\ [Next]_vars => [\A d \in Devices : watermark[d] <= watermark'[d]]_watermark
  BY <1>1
<1> QED BY <1>2, TypeCorrect, PTL DEF Spec, WatermarkMonotone
-----------------------------------------------------------------------------
(* The steps that leave the ledger as it is. *)
LEMMA LedgerStutter ==
  ASSUME UNCHANGED <<keys, claims, booked>>
  PROVE  UNCHANGED Ledger!vars
BY DEF Ledger!vars

(* The commit of a held key is the abstract claim. *)
LEMMA LedgerClaim ==
  ASSUME IInv, NEW w \in Workers, pc[w] = "device", CommitKey(w), booked' = booked
  PROVE  [Ledger!Next]_Ledger!vars
<1> DEFINE s == job[w]
<1>1. s \in Submissions
  BY DEF IInv, TypeOK
<1>2. CASE s \in Keyed
  <2>1. s \notin keys
    BY <1>2 DEF IInv, HolderUncommitted, Held
  <2>2. [r \in Keyed |-> claims'[r]] = [[r \in Keyed |-> claims[r]] EXCEPT ![s] = @ + 1]
    BY <1>1, <1>2 DEF CommitKey, IInv, TypeOK, Keyed
  <2>3. keys' = keys \cup {s}
    BY <1>2 DEF CommitKey
  <2>4. \E r \in Keyed : Ledger!Claim(r)
    BY <1>2, <2>1, <2>2, <2>3 DEF Ledger!Claim
  <2> QED BY <2>4 DEF Ledger!Next
<1>3. CASE s \notin Keyed
  <2>1. keys' = keys /\ \A r \in Keyed : claims'[r] = claims[r]
    BY <1>1, <1>3 DEF CommitKey, IInv, TypeOK, Keyed
  <2>2. UNCHANGED Ledger!vars
    BY <2>1 DEF Ledger!vars
  <2> QED BY <2>2
<1> QED BY <1>2, <1>3

(* Adding the usage rows is the abstract booking. *)
LEMMA LedgerBook ==
  ASSUME IInv, NEW w \in Workers, BookUsage(w)
  PROVE  [Ledger!Next]_Ledger!vars
<1> DEFINE s == job[w]
<1>1. s \in Submissions /\ pc[w] = "usage"
  BY DEF IInv, TypeOK, BookUsage
<1>2. keys' = keys /\ claims' = claims /\ booked' = [booked EXCEPT ![s] = @ + 1]
  BY DEF BookUsage, ledgers
<1>3. CASE s \in Keyed
  <2>1. booked[s] < claims[s]
    BY <1>1, <1>3 DEF IInv, ClaimLeft, MayBook
  <2>2. [r \in Keyed |-> booked'[r]] = [[r \in Keyed |-> booked[r]] EXCEPT ![s] = @ + 1]
    BY <1>1, <1>2, <1>3 DEF IInv, TypeOK, Keyed
  <2>3. \E r \in Keyed : Ledger!Book(r)
    BY <1>2, <1>3, <2>1, <2>2 DEF Ledger!Book
  <2> QED BY <2>3 DEF Ledger!Next
<1>4. CASE s \notin Keyed
  <2>1. \A r \in Keyed : booked'[r] = booked[r]
    BY <1>1, <1>2, <1>4 DEF IInv, TypeOK, Keyed
  <2>2. UNCHANGED Ledger!vars
    BY <1>2, <2>1 DEF Ledger!vars
  <2> QED BY <2>2
<1> QED BY <1>3, <1>4

(* Only committed keys of keyed submissions are ever remembered. *)
KeysKeyed == keys \subseteq Keyed

LEMMA LedgerForget ==
  ASSUME KeysKeyed, NEW S \in SUBSET keys, NEW t, Purge(S, t)
  PROVE  [Ledger!Next]_Ledger!vars
<1>1. S \in SUBSET Keyed
  BY DEF KeysKeyed
<1>2. Ledger!Forget(S)
  BY DEF Purge, Ledger!Forget
<1> QED BY <1>1, <1>2 DEF Ledger!Next

(***************************************************************************)
(* Ingest implements the usage ledger: seen through its keys, claims and   *)
(* bookings, every step is an abstract claim, booking or forgetting, or    *)
(* none of the ledger's business.                                          *)
(***************************************************************************)
THEOREM LedgerRefined == Spec => ImplementsLedger
<1> USE DEF database, handler, ledgers
<1>1. Init => Ledger!Init /\ KeysKeyed
  BY DEF Init, Ledger!Init, KeysKeyed, Keyed
<1>2. ASSUME KeysKeyed, [Next]_vars
      PROVE  KeysKeyed'
  <2>1. ASSUME NEW w \in Workers, CommitKey(w) PROVE KeysKeyed'
    BY <1>2, <2>1 DEF CommitKey, KeysKeyed
  <2>2. CASE keys' \subseteq keys
    BY <1>2, <2>2 DEF KeysKeyed
  <2> QED
    BY <1>2, <2>1, <2>2, ZenonT(100)
    DEF Next, Progress, Failure, vars, Drained, Deliver, ClaimKey, AnswerDuplicate, LookupDevice,
        UpdateDevice, InsertDevice, InsertConflict, LookModule, StoreModule, InsertOutrun, ModuleFails, BookUsage,
        UsageFails, StoreOsInfo, OsInfoFails, StoreName, NameFails, Sweep, SkipEvent, StoreEvent,
        EventFails, Finish, FallbackFails, Accept, Stop, Purge
<1>3. ASSUME IInv, KeysKeyed, [Next]_vars
      PROVE  [Ledger!Next]_Ledger!vars
  <2>1. ASSUME NEW w \in Workers, UpdateDevice(w) \/ InsertDevice(w)
        PROVE  [Ledger!Next]_Ledger!vars
    BY <1>3, <2>1, LedgerClaim DEF UpdateDevice, InsertDevice
  <2>2. ASSUME NEW w \in Workers, BookUsage(w)
        PROVE  [Ledger!Next]_Ledger!vars
    BY <1>3, <2>2, LedgerBook
  <2>3. ASSUME NEW S \in SUBSET keys, NEW t, Purge(S, t)
        PROVE  [Ledger!Next]_Ledger!vars
    BY <1>3, <2>3, LedgerForget
  <2>4. CASE UNCHANGED <<keys, claims, booked>>
    BY <2>4, LedgerStutter
  <2> QED
    BY <1>3, <2>1, <2>2, <2>3, <2>4, ZenonT(120)
    DEF Next, Progress, Failure, vars, Drained, Deliver, ClaimKey, AnswerDuplicate, LookupDevice,
        InsertConflict, LookModule, StoreModule, InsertOutrun, ModuleFails, UsageFails, StoreOsInfo, OsInfoFails, StoreName,
        NameFails, Sweep, SkipEvent, StoreEvent, EventFails, Finish, FallbackFails, Accept, Stop
<1> QED BY <1>1, <1>2, <1>3, Invariance, PTL DEF Spec, ImplementsLedger, Ledger!Spec
-----------------------------------------------------------------------------
(***************************************************************************)
(* What is there when a check-in is accepted.  Nothing having failed, the  *)
(* handler has stored, at each stage, what lies behind it; and no step     *)
(* takes a device row, a module row or a booking away again.               *)
(***************************************************************************)
Ended == {"name", "sweep", "events"}

(* The modules whose turn has come and gone before a stage. *)
Behind(stage) ==
  {m \in Modules :
     \/ stage \in Ended \cup {"usage"}
     \/ m = "system" /\ stage \in {"osinfo", "installs", "applications"}
     \/ m = "installs" /\ stage = "applications"}

(* What submission s has in the database when it has come to a stage. *)
StoredBy(s, stage) ==
  /\ stage \in Past => devices[DeviceOf(s)] # NoRow
  /\ \A m \in Payload[s].modules \cap Behind(stage) : modules[DeviceOf(s)][m] # NoRow
  /\ "applications" \in Payload[s].modules /\ Payload[s].usage /\ stage \in Ended => booked[s] > 0 \/ s \in outrun

KnownIsThere == \A w \in Workers : pc[w] = "device" /\ known[w] = "row" => devices[Device(w)] # NoRow
UnderWayStored == faults = 0 => \A w \in Workers : pc[w] # "idle" => StoredBy(job[w], pc[w])
LandedStored == faults = 0 => \A s \in landed : StoredBy(s, "events")

StoredInv == KnownIsThere /\ UnderWayStored /\ LandedStored

(* On its way a handler leaves no module of its payload behind that it did not come to. *)
LEMMA DeviceLeadsOn ==
  ASSUME NEW s \in Submissions
  PROVE  /\ AfterDevice(s) \in Past
         /\ Payload[s].modules \cap Behind(AfterDevice(s)) = {}
         /\ AfterDevice(s) \in Ended => "applications" \notin Payload[s].modules
<1>1. Payload[s].modules \subseteq {"system", "installs", "applications"}
  BY PayloadFields DEF Modules
<1> QED BY <1>1, StagesClosed DEF AfterDevice, AfterSystem, AfterInstalls, HasInstalls, Behind, Ended, Modules

LEMMA SystemLeadsOn ==
  ASSUME NEW s \in Submissions
  PROVE  /\ AfterSystem(s) \in Past
         /\ Payload[s].modules \cap Behind(AfterSystem(s)) \subseteq {"system"}
         /\ AfterSystem(s) \in Ended => "applications" \notin Payload[s].modules
<1>1. Payload[s].modules \subseteq {"system", "installs", "applications"}
  BY PayloadFields DEF Modules
<1> QED BY <1>1, StagesClosed DEF AfterSystem, AfterInstalls, HasInstalls, Behind, Ended, Modules

LEMMA ModuleLeadsOn ==
  ASSUME NEW s \in Submissions, NEW m \in Modules, NEW ok \in BOOLEAN
  PROVE  /\ AfterModule(m, s, ok) \in Past
         /\ Payload[s].modules \cap Behind(AfterModule(m, s, ok)) \subseteq Behind(m) \cup {m}
         /\ AfterModule(m, s, ok) \in Ended
              => \/ ~("applications" \in Payload[s].modules /\ Payload[s].usage)
                 \/ m = "applications" /\ ~ok
<1>1. Payload[s].modules \subseteq {"system", "installs", "applications"}
  BY PayloadFields DEF Modules
<1>2. m \in {"system", "installs", "applications"}
  BY DEF Modules
<1>3. AfterModule(m, s, ok) \in Past
  BY ModulesClosed
<1> QED BY <1>1, <1>2, <1>3 DEF AfterModule, AfterSystem, AfterInstalls, HasInstalls, Behind, Ended, Modules

(* Setting a field of a row takes no row away. *)
LEMMA FieldKeepsRow ==
  ASSUME TypeOK, NEW d \in Devices, NEW s \in Submissions,
         \/ devices' = devices
         \/ devices[d] # NoRow /\ devices' = [devices EXCEPT ![d].seen = s]
         \/ devices[d] # NoRow /\ devices' = [devices EXCEPT ![d].os = s]
         \/ devices[d] # NoRow /\ devices' = [devices EXCEPT ![d].name = s]
  PROVE  \A e \in Devices : devices[e] # NoRow => devices'[e] # NoRow
<1>1. devices \in [Devices -> DeviceRow \cup {NoRow}]
  BY DEF TypeOK
<1>2. CASE devices[d] = NoRow
  BY <1>2
<1>3. CASE devices[d] # NoRow
  <2>1. devices[d] \in DeviceRow
    BY <1>1, <1>3
  <2>2. /\ [devices[d] EXCEPT !.seen = s] \in DeviceRow
        /\ [devices[d] EXCEPT !.os = s] \in DeviceRow
        /\ [devices[d] EXCEPT !.name = s] \in DeviceRow
    BY <2>1 DEF DeviceRow
  <2>3. PICK row \in DeviceRow : devices' = devices \/ devices' = [devices EXCEPT ![d] = row]
    BY <1>3, <2>2
  <2> QED BY <1>1, <2>3, NotARowAssumption
<1> QED BY <1>2, <1>3

(* No row and no booking is taken away. *)
Grows ==
  /\ \A d \in Devices : devices[d] # NoRow => devices'[d] # NoRow
  /\ \A d \in Devices, m \in Modules : modules[d][m] # NoRow => modules'[d][m] # NoRow
  /\ \A s \in Submissions : booked[s] > 0 => booked'[s] > 0
  /\ outrun \subseteq outrun'

LEMMA StoredStays ==
  ASSUME Grows, NEW s \in Submissions, NEW stage, StoredBy(s, stage)
  PROVE  /\ stage \in Past => devices'[DeviceOf(s)] # NoRow
         /\ \A m \in Payload[s].modules \cap Behind(stage) : modules'[DeviceOf(s)][m] # NoRow
         /\ "applications" \in Payload[s].modules /\ Payload[s].usage /\ stage \in Ended
              => booked'[s] > 0 \/ s \in outrun'
BY PayloadFields DEF Grows, StoredBy, DeviceOf, Behind

(***************************************************************************)
(* A step of worker w: what it has stored by then it has to answer for,    *)
(* and it accepts nothing but its own submission, at its end.              *)
(***************************************************************************)
LEMMA StoredStep ==
  ASSUME TypeOK, TypeOK', StoredInv, NEW w \in Workers, Grows,
         \A v \in Workers \ {w} : pc'[v] = pc[v] /\ job'[v] = job[v] /\ known'[v] = known[v],
         faults' = 0 => faults = 0,
         faults' = 0 /\ pc'[w] # "idle" => StoredBy(job[w], pc[w])',
         pc'[w] = "device" /\ known'[w] = "row" => devices'[DeviceOf(job'[w])] # NoRow,
         landed' \subseteq landed \cup {job[w]},
         faults' = 0 /\ landed' # landed => pc[w] = "events"
  PROVE  StoredInv'
<1>1. KnownIsThere'
  <2> SUFFICES ASSUME NEW v \in Workers, pc'[v] = "device", known'[v] = "row"
               PROVE  devices'[DeviceOf(job'[v])] # NoRow
    BY DEF KnownIsThere, Device
  <2>1. CASE v = w
    BY <2>1
  <2>2. CASE v # w
    <3>1. job[v] \in Submissions /\ devices[DeviceOf(job[v])] # NoRow /\ job'[v] = job[v]
      BY <2>2 DEF StoredInv, KnownIsThere, Device, TypeOK
    <3> QED BY <3>1, PayloadFields DEF Grows, DeviceOf
  <2> QED BY <2>1, <2>2
<1>2. UnderWayStored'
  <2> SUFFICES ASSUME faults' = 0, NEW v \in Workers, pc'[v] # "idle"
               PROVE  StoredBy(job[v], pc[v])'
    BY DEF UnderWayStored
  <2>1. CASE v = w
    BY <2>1
  <2>2. CASE v # w
    <3>1. pc'[v] = pc[v] /\ job'[v] = job[v] /\ job[v] \in Submissions /\ StoredBy(job[v], pc[v])
      BY <2>2 DEF StoredInv, UnderWayStored, TypeOK
    <3>2. /\ pc[v] \in Past => devices'[DeviceOf(job[v])] # NoRow
          /\ \A m \in Payload[job[v]].modules \cap Behind(pc[v]) : modules'[DeviceOf(job[v])][m] # NoRow
          /\ "applications" \in Payload[job[v]].modules /\ Payload[job[v]].usage /\ pc[v] \in Ended
               => booked'[job[v]] > 0 \/ job[v] \in outrun'
      BY <3>1, StoredStays
    <3> QED BY <3>1, <3>2 DEF StoredBy, DeviceOf, Behind
  <2> QED BY <2>1, <2>2
<1>3. LandedStored'
  <2> SUFFICES ASSUME faults' = 0, NEW s \in landed'
               PROVE  StoredBy(s, "events")'
    BY DEF LandedStored
  <2>1. s \in Submissions
    BY DEF TypeOK
  <2>2. StoredBy(s, "events")
    <3>1. CASE s \in landed
      BY <3>1 DEF StoredInv, LandedStored
    <3>2. CASE s \notin landed
      <4>1. s = job[w] /\ pc[w] = "events"
        BY <3>2
      <4> QED BY <4>1 DEF StoredInv, UnderWayStored
    <3> QED BY <3>1, <3>2
  <2>3. /\ devices'[DeviceOf(s)] # NoRow
        /\ \A m \in Payload[s].modules \cap Behind("events") : modules'[DeviceOf(s)][m] # NoRow
        /\ "applications" \in Payload[s].modules /\ Payload[s].usage => booked'[s] > 0 \/ s \in outrun'
    BY <2>1, <2>2, StoredStays DEF Past, Stages, Ended
  <2> QED BY <2>3 DEF StoredBy, DeviceOf, Behind
<1> QED BY <1>1, <1>2, <1>3 DEF StoredInv

(* A step that stores no row for the worker, who ends or has not come to the device row. *)
LEMMA BeforeTheRow ==
  ASSUME TypeOK, TypeOK', StoredInv, NEW w \in Workers,
         UNCHANGED <<devices, modules, booked, outrun, faults, landed>>,
         \A v \in Workers \ {w} : pc'[v] = pc[v] /\ job'[v] = job[v] /\ known'[v] = known[v],
         pc'[w] \in {"idle", "claim", "lookup", "device"},
         pc'[w] = "device" /\ known'[w] = "row" => devices[DeviceOf(job'[w])] # NoRow
  PROVE  StoredInv'
<1>1. Grows
  BY DEF Grows
<1>2. StoredBy(job[w], pc[w])'
  BY DEF StoredBy, Behind, Past, Ended
<1> QED BY <1>1, <1>2, StoredStep

(* A step past the device row that stores nothing, and leads on past no module it has not come to. *)
LEMMA OnwardStep ==
  ASSUME TypeOK, TypeOK', StoredInv, NEW w \in Workers,
         UNCHANGED <<modules, booked, outrun, faults, landed, job>>,
         \A d \in Devices : devices[d] # NoRow => devices'[d] # NoRow,
         \A v \in Workers \ {w} : pc'[v] = pc[v] /\ known'[v] = known[v],
         pc[w] \in Past, pc'[w] \in Past,
         Payload[job[w]].modules \cap Behind(pc'[w]) \subseteq Behind(pc[w]),
         pc'[w] \in Ended => pc[w] \in Ended \/ "applications" \notin Payload[job[w]].modules
  PROVE  StoredInv'
<1>1. Grows
  BY DEF Grows
<1>2. job[w] \in Submissions /\ DeviceOf(job[w]) \in Devices /\ pc'[w] # "device" /\ pc[w] # "idle"
  BY PayloadFields DEF TypeOK, DeviceOf, Past
<1>3. faults = 0 => StoredBy(job[w], pc[w])'
  BY <1>2 DEF StoredInv, UnderWayStored, StoredBy, DeviceOf, Behind
<1> QED BY <1>1, <1>2, <1>3, StoredStep

(* A step in which something fails, or a handler ends. *)
LEMMA EndStep ==
  ASSUME TypeOK, TypeOK', StoredInv, NEW w \in Workers,
         UNCHANGED <<devices, modules, booked, outrun>>,
         \A v \in Workers \ {w} : pc'[v] = pc[v] /\ job'[v] = job[v] /\ known'[v] = known[v],
         pc'[w] # "device",
         \/ faults' = faults + 1
         \/ faults' = faults /\ pc[w] = "events" /\ pc'[w] = "idle",
         landed' \subseteq landed \cup {job[w]}
  PROVE  StoredInv'
<1>1. Grows
  BY DEF Grows
<1>2. faults \in Nat
  BY DEF TypeOK
<1> QED BY <1>1, <1>2, StoredStep

LEMMA StoredInit == Init => StoredInv
BY DEF Init, StoredInv, KnownIsThere, UnderWayStored, LandedStored

LEMMA StoredNext == TypeOK /\ StoredInv /\ [Next]_vars => StoredInv'
<1> SUFFICES ASSUME TypeOK, StoredInv, [Next]_vars
             PROVE  StoredInv'
  OBVIOUS
<1> USE DEF database, handler, ledgers
<1>a. TypeOK'
  BY TypeStep
<1>1. ASSUME NEW w \in Workers, NEW s \in Submissions, Deliver(w, s) PROVE StoredInv'
  <2>1. /\ UNCHANGED <<devices, modules, booked, outrun, faults, landed>>
        /\ \A v \in Workers \ {w} : pc'[v] = pc[v] /\ job'[v] = job[v] /\ known'[v] = known[v]
        /\ pc'[w] \in {"claim", "lookup"}
    BY <1>1 DEF Deliver, Goto, TypeOK
  <2> QED BY <1>a, <2>1, BeforeTheRow
<1>2. ASSUME NEW w \in Workers, ClaimKey(w) \/ AnswerDuplicate(w) \/ InsertConflict(w) PROVE StoredInv'
  <2>1. /\ UNCHANGED <<devices, modules, booked, outrun, faults, landed>>
        /\ \A v \in Workers \ {w} : pc'[v] = pc[v] /\ job'[v] = job[v] /\ known'[v] = known[v]
        /\ pc'[w] \in {"idle", "lookup"}
    BY <1>2 DEF ClaimKey, AnswerDuplicate, InsertConflict, Idle, Forget, Goto, TypeOK
  <2> QED BY <1>a, <2>1, BeforeTheRow
<1>3. ASSUME NEW w \in Workers, LookupDevice(w) PROVE StoredInv'
  <2>1. /\ UNCHANGED <<devices, modules, booked, outrun, faults, landed, job>>
        /\ \A v \in Workers \ {w} : pc'[v] = pc[v] /\ job'[v] = job[v] /\ known'[v] = known[v]
        /\ pc'[w] = "device" /\ (known'[w] = "row" => devices[DeviceOf(job[w])] # NoRow)
    BY <1>3 DEF LookupDevice, Look, Goto, TypeOK, Device
  <2> QED BY <1>a, <2>1, BeforeTheRow
<1>4. ASSUME NEW w \in Workers, UpdateDevice(w) \/ InsertDevice(w) PROVE StoredInv'
  <2>1. /\ UNCHANGED <<modules, booked, outrun, faults, landed, job>>
        /\ \A v \in Workers \ {w} : pc'[v] = pc[v] /\ known'[v] = known[v]
        /\ pc[w] = "device" /\ pc'[w] = AfterDevice(job[w])
    BY <1>4 DEF UpdateDevice, InsertDevice, Forget, Goto, TypeOK
  <2>2. job[w] \in Submissions /\ DeviceOf(job[w]) \in Devices /\ Device(w) = DeviceOf(job[w])
    BY <2>1, PayloadFields DEF TypeOK, DeviceOf, Device
  <2>3. /\ \A d \in Devices : devices[d] # NoRow => devices'[d] # NoRow
        /\ devices'[DeviceOf(job[w])] # NoRow
    <3>1. CASE UpdateDevice(w)
      <4>1. devices[Device(w)] # NoRow
        BY <3>1 DEF UpdateDevice, StoredInv, KnownIsThere
      <4>2. devices' = [devices EXCEPT ![Device(w)].seen = job[w]]
        BY <3>1, <4>1 DEF UpdateDevice
      <4> QED BY <2>2, <4>1, <4>2, FieldKeepsRow
    <3>2. CASE InsertDevice(w)
      <4> DEFINE row == [seen |-> job[w], os |-> NoRow,
                         name |-> IF Payload[job[w]].named = "metadata" THEN job[w] ELSE NoRow]
      <4>1. devices' = [devices EXCEPT ![Device(w)] = row] /\ row \in DeviceRow
        BY <2>2, <3>2 DEF InsertDevice, DeviceRow
      <4> HIDE DEF row
      <4> QED BY <2>2, <4>1, NotARowAssumption DEF TypeOK
    <3> QED BY <1>4, <3>1, <3>2
  <2>4. Grows
    BY <2>1, <2>3 DEF Grows
  <2>5. StoredBy(job[w], pc[w])'
    <3>1. Payload[job[w]].modules \cap Behind(pc'[w]) = {}
          /\ (pc'[w] \in Ended => "applications" \notin Payload[job[w]].modules)
      BY <2>1, <2>2, DeviceLeadsOn
    <3> QED BY <2>1, <2>3, <3>1 DEF StoredBy, DeviceOf, Behind
  <2>6. pc'[w] # "device"
    BY <2>1, <2>2, DeviceLeadsOn DEF Past
  <2> QED BY <1>a, <2>1, <2>4, <2>5, <2>6, StoredStep
<1>16. ASSUME NEW w \in Workers, NEW m \in Modules, LookModule(w, m) PROVE StoredInv'
  <2>1. /\ UNCHANGED <<devices, modules, booked, outrun, faults, landed, job, pc>>
        /\ \A v \in Workers \ {w} : known'[v] = known[v]
        /\ pc[w] \in Past
    BY <1>16 DEF LookModule, Look, TypeOK, Modules, Past, Stages
  <2> QED BY <1>a, <2>1, OnwardStep
<1>5. ASSUME NEW w \in Workers, NEW m \in Modules, StoreModule(w, m) \/ InsertOutrun(w, m) PROVE StoredInv'
  <2> DEFINE ok == IF StoreModule(w, m) THEN TRUE ELSE FALSE
             after == AfterModule(m, job[w], ok)
  <2>1. /\ UNCHANGED <<devices, booked, faults, landed, job>>
        /\ \A v \in Workers \ {w} : pc'[v] = pc[v] /\ known'[v] = known[v]
        /\ pc[w] = m /\ pc'[w] = after
        /\ ok \in BOOLEAN
    <3>1. CASE StoreModule(w, m)
      BY <3>1 DEF StoreModule, LeaveModule, Forget, Goto, TypeOK
    <3>2. CASE InsertOutrun(w, m) /\ ~StoreModule(w, m)
      BY <3>2 DEF InsertOutrun, LeaveModule, Forget, Goto, TypeOK
    <3> QED BY <1>5, <3>1, <3>2
  <2>2. job[w] \in Submissions /\ DeviceOf(job[w]) \in Devices /\ Device(w) = DeviceOf(job[w]) /\ m \in Past
    BY <2>1, PayloadFields DEF TypeOK, DeviceOf, Device, Modules, Past, Stages
  <2>3. /\ \A d \in Devices, n \in Modules : modules[d][n] # NoRow => modules'[d][n] # NoRow
        /\ modules'[DeviceOf(job[w])][m] # NoRow
        /\ outrun \subseteq outrun'
        /\ m = "applications" /\ ~ok => job[w] \in outrun'
    <3>1. CASE StoreModule(w, m)
      <4>1. \A d \in Devices, n \in Modules :
              modules'[d][n] = IF d = DeviceOf(job[w]) /\ n = m THEN job[w] ELSE modules[d][n]
        BY <2>2, <3>1 DEF StoreModule, TypeOK
      <4> QED BY <2>2, <3>1, <4>1, NoRowAssumption DEF StoreModule
    <3>2. CASE InsertOutrun(w, m) /\ ~StoreModule(w, m)
      BY <2>2, <3>2 DEF InsertOutrun, Outrun
    <3> QED BY <1>5, <3>1, <3>2
  <2>4. Grows
    BY <2>1, <2>3 DEF Grows
  <2>5. /\ pc'[w] \in Past
        /\ Payload[job[w]].modules \cap Behind(pc'[w]) \subseteq Behind(m) \cup {m}
        /\ pc'[w] \in Ended => \/ ~("applications" \in Payload[job[w]].modules /\ Payload[job[w]].usage)
                                \/ job[w] \in outrun'
    <3> HIDE DEF ok
    <3>1. /\ after \in Past
          /\ Payload[job[w]].modules \cap Behind(after) \subseteq Behind(m) \cup {m}
          /\ after \in Ended => \/ ~("applications" \in Payload[job[w]].modules /\ Payload[job[w]].usage)
                                \/ m = "applications" /\ ~ok
      BY <2>1, <2>2, ModuleLeadsOn
    <3>2. pc'[w] = after
      BY <2>1
    <3> HIDE DEF after
    <3> QED BY <2>3, <3>1, <3>2
  <2>6. faults = 0 => StoredBy(job[w], m)
    BY <2>1, <2>2 DEF StoredInv, UnderWayStored, Past
  <2> HIDE DEF ok, after
  <2>7. ASSUME faults = 0 PROVE StoredBy(job[w], pc[w])'
    <3>1. devices'[DeviceOf(job[w])] # NoRow
      BY <2>1, <2>2, <2>6, <2>7 DEF StoredBy
    <3>2. \A n \in Payload[job[w]].modules \cap Behind(pc'[w]) : modules'[DeviceOf(job[w])][n] # NoRow
      <4> SUFFICES ASSUME NEW n \in Payload[job[w]].modules \cap Behind(pc'[w])
                   PROVE  modules'[DeviceOf(job[w])][n] # NoRow
        OBVIOUS
      <4>1. n \in Modules /\ (n = m \/ n \in Payload[job[w]].modules \cap Behind(m))
        BY <2>5 DEF Behind
      <4> QED BY <2>2, <2>3, <2>6, <2>7, <4>1 DEF StoredBy
    <3> QED BY <2>1, <2>5, <3>1, <3>2 DEF StoredBy, DeviceOf, Behind
  <2>8. pc'[w] # "device"
    BY <2>5 DEF Past
  <2> QED BY <1>a, <2>1, <2>4, <2>7, <2>8, StoredStep
<1>6. ASSUME NEW w \in Workers, BookUsage(w) PROVE StoredInv'
  <2>1. /\ UNCHANGED <<devices, modules, outrun, faults, landed, job>>
        /\ \A v \in Workers \ {w} : pc'[v] = pc[v] /\ known'[v] = known[v]
        /\ pc[w] = "usage" /\ pc'[w] = "name" /\ job[w] \in Submissions
        /\ \A s \in Submissions : booked'[s] = IF s = job[w] THEN booked[s] + 1 ELSE booked[s]
    BY <1>6 DEF BookUsage, Goto, TypeOK
  <2>2. Grows /\ booked'[job[w]] > 0
    BY <2>1 DEF Grows, TypeOK
  <2>3. faults = 0 => StoredBy(job[w], "usage")
    BY <2>1 DEF StoredInv, UnderWayStored
  <2>4. ASSUME faults = 0 PROVE StoredBy(job[w], pc[w])'
    BY <2>1, <2>2, <2>3, <2>4 DEF StoredBy, DeviceOf, Behind, Past, Stages, Ended
  <2> QED BY <1>a, <2>1, <2>2, <2>4, StoredStep
<1>7. ASSUME NEW w \in Workers, StoreOsInfo(w) PROVE StoredInv'
  <2>1. /\ UNCHANGED <<modules, booked, outrun, faults, landed, job>>
        /\ \A v \in Workers \ {w} : pc'[v] = pc[v] /\ known'[v] = known[v]
        /\ pc[w] = "osinfo" /\ pc'[w] = AfterSystem(job[w]) /\ job[w] \in Submissions
    BY <1>7 DEF StoreOsInfo, Goto, TypeOK
  <2>2. \A d \in Devices : devices[d] # NoRow => devices'[d] # NoRow
    <3>1. Device(w) \in Devices
      BY <2>1, PayloadFields DEF Device, DeviceOf
    <3> QED BY <1>7, <2>1, <3>1, FieldKeepsRow DEF StoreOsInfo
  <2>3. /\ AfterSystem(job[w]) \in Past
        /\ Payload[job[w]].modules \cap Behind(AfterSystem(job[w])) \subseteq {"system"}
        /\ AfterSystem(job[w]) \in Ended => "applications" \notin Payload[job[w]].modules
    BY <2>1, SystemLeadsOn
  <2>4. {"system"} \subseteq Behind("osinfo") /\ "osinfo" \in Past
    BY DEF Behind, Past, Stages, Modules
  <2> QED BY <1>a, <2>1, <2>2, <2>3, <2>4, OnwardStep
<1>8. ASSUME NEW w \in Workers, StoreName(w) \/ Sweep(w) PROVE StoredInv'
  <2>1. /\ UNCHANGED <<modules, booked, outrun, faults, landed, job>>
        /\ \A v \in Workers \ {w} : pc'[v] = pc[v] /\ known'[v] = known[v]
        /\ pc[w] \in Ended /\ pc'[w] \in Ended /\ job[w] \in Submissions
    BY <1>8 DEF StoreName, Sweep, Goto, TypeOK, Ended
  <2>2. \A d \in Devices : devices[d] # NoRow => devices'[d] # NoRow
    <3>1. Device(w) \in Devices
      BY <2>1, PayloadFields DEF Device, DeviceOf
    <3> QED BY <1>8, <2>1, <3>1, FieldKeepsRow DEF StoreName, Sweep
  <2>3. pc[w] \in Past /\ pc'[w] \in Past /\ Behind(pc'[w]) \subseteq Behind(pc[w])
    BY <2>1 DEF Behind, Past, Stages, Ended
  <2> QED BY <1>a, <2>1, <2>2, <2>3, OnwardStep
<1>9. ASSUME NEW w \in Workers, SkipEvent(w) \/ StoreEvent(w) PROVE StoredInv'
  <2>1. UNCHANGED <<devices, modules, booked, outrun, faults, landed, job, known, pc>> /\ pc[w] = "events"
    BY <1>9 DEF SkipEvent, StoreEvent, HasEvent
  <2> QED BY <1>a, <2>1, OnwardStep DEF Past, Stages
<1>10. ASSUME NEW w \in Workers, EventFails(w) PROVE StoredInv'
  <2>1. UNCHANGED <<devices, modules, booked, outrun, landed, job, known, pc>> /\ pc[w] = "events"
        /\ faults' \in {faults, faults + 1}
    BY <1>10 DEF EventFails, HasEvent, Fault
  <2>2. CASE faults' = faults
    BY <1>a, <2>1, <2>2, OnwardStep DEF Past, Stages
  <2>3. CASE faults' = faults + 1
    BY <1>a, <2>1, <2>3, EndStep
  <2> QED BY <2>1, <2>2, <2>3
<1>11. ASSUME NEW w \in Workers, Finish(w) PROVE StoredInv'
  <2>1. /\ UNCHANGED <<devices, modules, booked, outrun, faults>>
        /\ \A v \in Workers \ {w} : pc'[v] = pc[v] /\ job'[v] = job[v] /\ known'[v] = known[v]
        /\ pc[w] = "events" /\ pc'[w] = "idle" /\ landed' = landed \cup {job[w]}
    BY <1>11 DEF Finish, EventsDone, Accept, Idle, Forget, Goto, TypeOK
  <2> QED BY <1>a, <2>1, EndStep
<1>12. ASSUME NEW w \in Workers, Failure(w) PROVE StoredInv'
  <2>1. /\ UNCHANGED <<devices, modules, booked, outrun>> /\ faults' = faults + 1
        /\ \A v \in Workers \ {w} : pc'[v] = pc[v] /\ job'[v] = job[v] /\ known'[v] = known[v]
        /\ landed' \subseteq landed \cup {job[w]}
    BY <1>12 DEF Failure, ModuleFails, UsageFails, OsInfoFails, NameFails, FallbackFails, Stop, Fault,
                 LeaveModule, Idle, Forget, Goto, TypeOK
  <2>2. pc'[w] # "device"
    <3>1. \A m \in Modules : ModuleFails(w, m) => AfterModule(m, job[w], FALSE) \in Past
      BY ModulesClosed DEF ModuleFails, TypeOK, Modules
    <3>2. OsInfoFails(w) => AfterSystem(job[w]) \in Past
      BY StagesClosed DEF OsInfoFails, TypeOK
    <3> QED BY <1>12, <3>1, <3>2, ZenonT(120) DEF Failure, ModuleFails, UsageFails, OsInfoFails, NameFails, FallbackFails,
                 Stop, LeaveModule, Idle, Goto, TypeOK, Past
  <2> QED BY <1>a, <2>1, <2>2, EndStep
<1>13. ASSUME UNCHANGED <<devices, modules, booked, outrun, faults, landed, job, known, pc>> PROVE StoredInv'
  BY <1>13 DEF StoredInv, KnownIsThere, UnderWayStored, LandedStored, StoredBy, Device, DeviceOf, Behind
<1>14. ASSUME NEW S \in SUBSET keys, NEW t \in {At(s) : s \in landed} \cup {0}, Purge(S, t) PROVE StoredInv'
  BY <1>13, <1>14 DEF Purge
<1>15. CASE Drained \/ UNCHANGED vars
  BY <1>13, <1>15 DEF Drained, vars
<1> QED
  BY <1>1, <1>2, <1>3, <1>4, <1>5, <1>6, <1>7, <1>8, <1>9, <1>10, <1>11, <1>12, <1>14, <1>15, <1>16
  DEF Next, Progress

(***************************************************************************)
(* How many check-ins lose their deltas.  None of a device is outrun while *)
(* it has no row of applications; once it has, the next ones can only be   *)
(* those that looked for it before, and the process that inserted it is    *)
(* not among these.                                                        *)
(***************************************************************************)
OutrunOf(d) == {s \in outrun : DeviceOf(s) = d}
Waits(w, d) == pc[w] = "applications" /\ known[w] = "none" /\ DeviceOf(job[w]) = d
Waiting(d) == {w \in Workers : Waits(w, d)}
HasRow(d) == modules[d]["applications"] # NoRow

FewOutrun(d) ==
  /\ IsFiniteSet(OutrunOf(d))
  /\ ~HasRow(d) => OutrunOf(d) = {}
  /\ HasRow(d) => Cardinality(OutrunOf(d)) + Cardinality(Waiting(d)) < Cardinality(Workers)

LooksEnd == \A w \in Workers : pc[w] \notin Modules \cup {"device"} => known[w] = "unread"

OutrunInv == LooksEnd /\ \A d \in Devices : FewOutrun(d)

(* Fewer wait, and no more are outrun. *)
LEMMA NoneWaitsMore ==
  ASSUME NEW d \in Devices, FewOutrun(d), OutrunOf(d)' = OutrunOf(d), HasRow(d)' <=> HasRow(d),
         HasRow(d) => \A v \in Workers : Waits(v, d)' => Waits(v, d)
  PROVE  FewOutrun(d)'
<1>1. CASE ~HasRow(d)
  BY <1>1 DEF FewOutrun
<1>2. CASE HasRow(d)
  <2>1. Waiting(d)' \subseteq Waiting(d) /\ Waiting(d) \subseteq Workers
    BY <1>2 DEF Waiting
  <2>2. IsFiniteSet(Waiting(d))
    BY <2>1, WorkersAssumption, FS_Subset
  <2>3. /\ Cardinality(Waiting(d)') <= Cardinality(Waiting(d))
        /\ Cardinality(Waiting(d)') \in Nat /\ Cardinality(Waiting(d)) \in Nat
    BY <2>1, <2>2, FS_Subset, FS_CardinalityType
  <2>4. Cardinality(OutrunOf(d)) \in Nat /\ Cardinality(Workers) \in Nat
    BY WorkersAssumption, FS_CardinalityType DEF FewOutrun
  <2> HIDE DEF Waiting, OutrunOf
  <2>5. Cardinality(OutrunOf(d)) + Cardinality(Waiting(d)') < Cardinality(Workers)
    BY <1>2, <2>3, <2>4 DEF FewOutrun
  <2> QED BY <1>2, <2>5 DEF FewOutrun
<1> QED BY <1>1, <1>2

(* A step that stores no row of applications, and at most goes on to look for one. *)
LEMMA OutrunQuiet ==
  ASSUME TypeOK, OutrunInv, NEW w \in Workers, UNCHANGED <<modules, outrun>>,
         \A v \in Workers \ {w} : pc'[v] = pc[v] /\ job'[v] = job[v] /\ known'[v] = known[v],
         pc'[w] = "applications" =>
           \/ known'[w] # "none"
           \/ ~HasRow(DeviceOf(job'[w]))
           \/ pc[w] = "applications" /\ known[w] = "none" /\ job'[w] = job[w],
         pc'[w] \notin Modules \cup {"device"} => known'[w] = "unread"
  PROVE  OutrunInv'
<1>1. LooksEnd'
  BY DEF OutrunInv, LooksEnd
<1>2. ASSUME NEW d \in Devices PROVE FewOutrun(d)'
  <2>1. OutrunOf(d)' = OutrunOf(d) /\ (HasRow(d)' <=> HasRow(d))
    BY DEF OutrunOf, HasRow, DeviceOf
  <2>2. HasRow(d) => \A v \in Workers : Waits(v, d)' => Waits(v, d)
    BY DEF Waits, DeviceOf
  <2> QED BY <2>1, <2>2, NoneWaitsMore DEF OutrunInv
<1> QED BY <1>1, <1>2 DEF OutrunInv

(* The first row of applications leaves its process out of those that wait. *)
LEMMA FirstRowStep ==
  ASSUME TypeOK, OutrunInv, NEW w \in Workers, NEW m \in Modules, StoreModule(w, m)
  PROVE  OutrunInv'
<1>1. /\ UNCHANGED <<outrun, job>> /\ pc[w] = m /\ known'[w] = "unread"
      /\ \A v \in Workers \ {w} : pc'[v] = pc[v] /\ known'[v] = known[v]
      /\ modules' = [modules EXCEPT ![Device(w)][m] = job[w]]
  BY DEF StoreModule, LeaveModule, Forget, Goto, TypeOK, ledgers
<1>2. job[w] \in Submissions /\ Device(w) \in Devices /\ Device(w) = DeviceOf(job[w])
  BY <1>1, PayloadFields DEF TypeOK, DeviceOf, Device, Modules
<1>3. LooksEnd'
  BY <1>1 DEF OutrunInv, LooksEnd
<1>4. ASSUME NEW d \in Devices PROVE FewOutrun(d)'
  <2>1. OutrunOf(d)' = OutrunOf(d)
    BY <1>1 DEF OutrunOf, DeviceOf
  <2>2. \A v \in Workers : Waits(v, d)' => Waits(v, d) /\ v # w
    BY <1>1 DEF Waits, DeviceOf
  <2>3. CASE HasRow(d)' <=> HasRow(d)
    BY <2>1, <2>2, <2>3, NoneWaitsMore DEF OutrunInv
  <2>4. CASE ~(HasRow(d)' <=> HasRow(d))
    <3>1. ~HasRow(d)
      BY <1>1, <1>2, <2>4, NoRowAssumption DEF HasRow, TypeOK
    <3>2. OutrunOf(d)' = {}
      BY <2>1, <3>1 DEF OutrunInv, FewOutrun
    <3>3. Waiting(d)' \subseteq Workers \ {w}
      BY <2>2 DEF Waiting
    <3>4. /\ IsFiniteSet(Workers \ {w}) /\ Cardinality(Workers) \in Nat
          /\ Cardinality(Workers \ {w}) = Cardinality(Workers) - 1
      BY WorkersAssumption, FS_RemoveElement, FS_CardinalityType
    <3>5. Cardinality(Waiting(d)') <= Cardinality(Workers \ {w}) /\ Cardinality(Waiting(d)') \in Nat
      BY <3>3, <3>4, FS_Subset, FS_CardinalityType
    <3>6. IsFiniteSet(OutrunOf(d)') /\ Cardinality(OutrunOf(d)') = 0
      BY <3>2, FS_EmptySet
    <3> HIDE DEF Waiting, OutrunOf
    <3>7. Cardinality(OutrunOf(d)') + Cardinality(Waiting(d)') < Cardinality(Workers)
      BY <3>4, <3>5, <3>6
    <3> QED BY <3>2, <3>6, <3>7 DEF FewOutrun
  <2> QED BY <2>3, <2>4
<1> QED BY <1>3, <1>4 DEF OutrunInv

(* A process that is outrun waits no longer. *)
LEMMA OutrunStep ==
  ASSUME TypeOK, OutrunInv, NEW w \in Workers, InsertOutrun(w, "applications")
  PROVE  OutrunInv'
<1> DEFINE d == DeviceOf(job[w])
<1>1. /\ UNCHANGED <<modules, job>> /\ pc[w] = "applications" /\ known[w] = "none" /\ known'[w] = "unread"
      /\ \A v \in Workers \ {w} : pc'[v] = pc[v] /\ known'[v] = known[v]
      /\ outrun' = outrun \cup {job[w]}
  BY DEF InsertOutrun, Outrun, LeaveModule, Forget, Goto, TypeOK, database
<1>2. job[w] \in Submissions /\ d \in Devices /\ HasRow(d)
  BY <1>1, PayloadFields DEF TypeOK, DeviceOf, Device, InsertOutrun, Outrun, HasRow
<1>3. LooksEnd'
  BY <1>1 DEF OutrunInv, LooksEnd
<1>4. ASSUME NEW e \in Devices, e # d PROVE FewOutrun(e)'
  <2>1. OutrunOf(e)' = OutrunOf(e) /\ (HasRow(e)' <=> HasRow(e))
    BY <1>1, <1>4 DEF OutrunOf, DeviceOf, HasRow
  <2>2. \A v \in Workers : Waits(v, e)' => Waits(v, e)
    BY <1>1 DEF Waits, DeviceOf
  <2> QED BY <2>1, <2>2, NoneWaitsMore DEF OutrunInv
<1>5. ASSUME NEW e \in Devices, e = d PROVE FewOutrun(e)'
  <2>1. OutrunOf(e)' = OutrunOf(e) \cup {job[w]}
    BY <1>1, <1>5 DEF OutrunOf, DeviceOf
  <2>2. Waiting(e)' = Waiting(e) \ {w} /\ w \in Waiting(e) /\ Waiting(e) \subseteq Workers
    BY <1>1, <1>5 DEF Waiting, Waits, DeviceOf
  <2>3. FewOutrun(e) /\ HasRow(e) /\ HasRow(e)'
    BY <1>1, <1>2, <1>5 DEF OutrunInv, HasRow
  <2> HIDE DEF d, Waiting, OutrunOf
  <2>4. /\ IsFiniteSet(OutrunOf(e)') /\ Cardinality(OutrunOf(e)) \in Nat
        /\ Cardinality(OutrunOf(e)') <= Cardinality(OutrunOf(e)) + 1
    <3>1. IsFiniteSet(OutrunOf(e)) /\ Cardinality(OutrunOf(e)) \in Nat
      BY <2>3, FS_CardinalityType DEF FewOutrun
    <3>2. /\ IsFiniteSet(OutrunOf(e) \cup {job[w]})
          /\ \/ Cardinality(OutrunOf(e) \cup {job[w]}) = Cardinality(OutrunOf(e))
             \/ Cardinality(OutrunOf(e) \cup {job[w]}) = Cardinality(OutrunOf(e)) + 1
      BY <3>1, FS_AddElement
    <3> QED BY <2>1, <3>1, <3>2
  <2>5. /\ Cardinality(Waiting(e)) \in Nat
        /\ Cardinality(Waiting(e)') = Cardinality(Waiting(e)) - 1
    <3>1. IsFiniteSet(Waiting(e))
      BY <2>2, WorkersAssumption, FS_Subset
    <3>2. Cardinality(Waiting(e) \ {w}) = Cardinality(Waiting(e)) - 1
      BY <2>2, <3>1, FS_RemoveElement
    <3> QED BY <2>2, <3>1, <3>2, FS_CardinalityType
  <2>6. Cardinality(Workers) \in Nat /\ Cardinality(OutrunOf(e)') \in Nat
    BY <2>4, WorkersAssumption, FS_CardinalityType
  <2>7. Cardinality(OutrunOf(e)) + Cardinality(Waiting(e)) < Cardinality(Workers)
    BY <2>3 DEF FewOutrun
  <2>8. Cardinality(OutrunOf(e)') + Cardinality(Waiting(e)') < Cardinality(Workers)
    BY <2>4, <2>5, <2>6, <2>7
  <2> QED BY <2>3, <2>4, <2>8 DEF FewOutrun
<1> QED BY <1>3, <1>4, <1>5 DEF OutrunInv

LEMMA OutrunInit == Init => OutrunInv
<1> SUFFICES ASSUME Init PROVE OutrunInv
  OBVIOUS
<1>1. \A d \in Devices : OutrunOf(d) = {} /\ ~HasRow(d)
  BY DEF Init, OutrunOf, HasRow, Modules
<1>2. \A d \in Devices : FewOutrun(d)
  BY <1>1, FS_EmptySet DEF FewOutrun
<1> QED BY <1>2 DEF Init, OutrunInv, LooksEnd

LEMMA OutrunNext == TypeOK /\ OutrunInv /\ [Next]_vars => OutrunInv'
<1> SUFFICES ASSUME TypeOK, OutrunInv, [Next]_vars
             PROVE  OutrunInv'
  OBVIOUS
<1> USE DEF database, handler, ledgers
<1>1. ASSUME NEW w \in Workers,
             \/ \E s \in Submissions : Deliver(w, s)
             \/ ClaimKey(w) \/ BookUsage(w) \/ UsageFails(w) \/ StoreName(w) \/ NameFails(w) \/ Sweep(w)
      PROVE  OutrunInv'
  <2>1. /\ UNCHANGED <<modules, outrun, known>>
        /\ pc[w] \in {"idle", "claim", "usage", "name", "sweep"}
        /\ pc'[w] \in {"claim", "lookup", "name", "sweep", "events"}
        /\ \A v \in Workers \ {w} : pc'[v] = pc[v] /\ job'[v] = job[v]
    BY <1>1 DEF Deliver, ClaimKey, BookUsage, UsageFails, StoreName, NameFails, Sweep, Goto, TypeOK
  <2>2. known[w] = "unread"
    BY <2>1 DEF OutrunInv, LooksEnd, Modules
  <2> QED BY <2>1, <2>2, OutrunQuiet
<1>2. ASSUME NEW w \in Workers,
             Idle(w) /\ UNCHANGED <<modules, outrun>>
      PROVE  OutrunInv'
  BY <1>2, OutrunQuiet DEF Idle, Forget, Goto, TypeOK
<1>3. ASSUME NEW w \in Workers, LookupDevice(w) PROVE OutrunInv'
  BY <1>3, OutrunQuiet DEF LookupDevice, Look, Goto, TypeOK
<1>4. ASSUME NEW w \in Workers, UNCHANGED <<modules, outrun, job>>, Forget(w), NEW stage \in Stages, Goto(w, stage)
      PROVE  OutrunInv'
  BY <1>4, OutrunQuiet DEF Forget, Goto, TypeOK
<1>5. ASSUME NEW w \in Workers, UpdateDevice(w) \/ InsertDevice(w) PROVE OutrunInv'
  <2>1. AfterDevice(job[w]) \in Stages
    BY DEF AfterDevice, AfterSystem, AfterInstalls, Stages
  <2> QED BY <1>4, <1>5, <2>1 DEF UpdateDevice, InsertDevice
<1>6. ASSUME NEW w \in Workers, NEW m \in Modules, LookModule(w, m) PROVE OutrunInv'
  <2>1. /\ UNCHANGED <<modules, outrun, job, pc>> /\ pc[w] = m
        /\ \A v \in Workers \ {w} : known'[v] = known[v]
        /\ known'[w] = "none" => modules[Device(w)][m] = NoRow
    BY <1>6 DEF LookModule, Look, TypeOK
  <2> QED BY <2>1, OutrunQuiet DEF HasRow, Device
<1>7. ASSUME NEW w \in Workers, NEW m \in Modules, InsertOutrun(w, m) PROVE OutrunInv'
  <2>1. AfterModule(m, job[w], FALSE) \in Stages
    BY DEF AfterModule, AfterSystem, AfterInstalls, Stages
  <2>2. CASE m = "applications"
    BY <1>7, <2>2, OutrunStep
  <2>3. CASE m # "applications"
    BY <1>4, <1>7, <2>1, <2>3 DEF InsertOutrun, LeaveModule
  <2> QED BY <2>2, <2>3
<1>8. ASSUME NEW w \in Workers, NEW m \in Modules, ModuleFails(w, m) PROVE OutrunInv'
  <2>1. AfterModule(m, job[w], FALSE) \in Stages
    BY DEF AfterModule, AfterSystem, AfterInstalls, Stages
  <2> QED BY <1>4, <1>8, <2>1 DEF ModuleFails, LeaveModule
<1>9. ASSUME NEW w \in Workers, StoreOsInfo(w) \/ OsInfoFails(w) PROVE OutrunInv'
  <2>1. /\ UNCHANGED <<modules, outrun, known, job>> /\ pc[w] = "osinfo"
        /\ \A v \in Workers \ {w} : pc'[v] = pc[v]
    BY <1>9 DEF StoreOsInfo, OsInfoFails, Goto, TypeOK
  <2>2. known[w] = "unread"
    BY <2>1 DEF OutrunInv, LooksEnd, Modules
  <2> QED BY <2>1, <2>2, OutrunQuiet
<1>10. ASSUME UNCHANGED <<modules, outrun, known, job, pc>> PROVE OutrunInv'
  <2>1. LooksEnd'
    BY <1>10 DEF OutrunInv, LooksEnd
  <2>2. ASSUME NEW d \in Devices PROVE FewOutrun(d)'
    <3>1. OutrunOf(d)' = OutrunOf(d) /\ (HasRow(d)' <=> HasRow(d)) /\ \A v \in Workers : Waits(v, d)' => Waits(v, d)
      BY <1>10 DEF OutrunOf, HasRow, Waits, DeviceOf
    <3> QED BY <3>1, NoneWaitsMore DEF OutrunInv
  <2> QED BY <2>1, <2>2 DEF OutrunInv
<1>11. ASSUME NEW w \in Workers, SkipEvent(w) \/ StoreEvent(w) \/ EventFails(w) PROVE OutrunInv'
  BY <1>10, <1>11 DEF SkipEvent, StoreEvent, EventFails
<1>12. ASSUME NEW w \in Workers,
              AnswerDuplicate(w) \/ InsertConflict(w) \/ Finish(w) \/ FallbackFails(w) \/ Stop(w)
       PROVE  OutrunInv'
  BY <1>2, <1>12 DEF AnswerDuplicate, InsertConflict, Finish, Accept, FallbackFails, Stop
<1>13. ASSUME NEW S \in SUBSET keys, NEW t \in {At(s) : s \in landed} \cup {0}, Purge(S, t) PROVE OutrunInv'
  BY <1>10, <1>13 DEF Purge
<1>14. CASE Drained \/ UNCHANGED vars
  BY <1>10, <1>14 DEF Drained, vars
<1> QED
  BY <1>1, <1>3, <1>5, <1>6, <1>7, <1>8, <1>9, <1>11, <1>12, <1>13, <1>14, FirstRowStep
  DEF Next, Progress, Failure

(***************************************************************************)
(* For any submissions, processes and interleaving of their commits: a     *)
(* check-in accepted with nothing going wrong has its device row, a row    *)
(* for each of its modules and its usage deltas, unless it lost the race   *)
(* for a first row of applications; and fewer check-ins of a device lose   *)
(* it than there are processes: process_device_submission.                 *)
(***************************************************************************)
THEOREM NothingAcceptedIsMissing == Spec => []AcceptedIsStored
<1>1. TypeOK /\ StoredInv /\ OutrunInv => AcceptedIsStored
  <2>1. ASSUME TypeOK, LandedStored, faults = 0, NEW s \in landed
        PROVE  /\ devices[DeviceOf(s)] # NoRow
               /\ \A m \in Payload[s].modules : modules[DeviceOf(s)][m] # NoRow
               /\ "applications" \in Payload[s].modules /\ Payload[s].usage => booked[s] > 0 \/ s \in outrun
    <3>1. s \in Submissions /\ StoredBy(s, "events") /\ Payload[s].modules \subseteq Modules
      BY <2>1, PayloadFields DEF TypeOK, LandedStored
    <3> QED BY <3>1 DEF StoredBy, Behind, Past, Stages, Ended
  <2>2. ASSUME OutrunInv, NEW d \in Devices
        PROVE  Cardinality(OutrunOf(d)) < Cardinality(Workers)
    <3>1. Cardinality(Workers) \in Nat /\ Cardinality(Workers) > 0
      BY WorkersAssumption, FS_CardinalityType, FS_EmptySet
    <3>2. FewOutrun(d)
      BY <2>2 DEF OutrunInv
    <3>3. CASE ~HasRow(d)
      <4>1. Cardinality(OutrunOf(d)) = 0
        BY <3>2, <3>3, FS_EmptySet DEF FewOutrun
      <4> QED BY <3>1, <4>1
    <3>4. CASE HasRow(d)
      <4>1. Waiting(d) \subseteq Workers
        BY DEF Waiting
      <4>2. Cardinality(Waiting(d)) \in Nat /\ Cardinality(OutrunOf(d)) \in Nat
        BY <3>2, <4>1, WorkersAssumption, FS_Subset, FS_CardinalityType DEF FewOutrun
      <4> QED BY <3>1, <3>2, <3>4, <4>2 DEF FewOutrun
    <3> QED BY <3>3, <3>4
  <2> QED BY <2>1, <2>2 DEF StoredInv, AcceptedIsStored, OutrunOf
<1> QED BY <1>1, TypeCorrect, TypeStep, StoredInit, StoredNext, OutrunInit, OutrunNext, PTL DEF Spec
-----------------------------------------------------------------------------
(***************************************************************************)
(* What becomes of event rows.  A final transaction has its own time, and  *)
(* the rows it adds bear it, so no row that is there or was seen by anyone *)
(* can come back with the commit of another; what it has swept belongs to  *)
(* its device and is no newer than its submission; and a run sweeps what   *)
(* it saw and it supersedes, as long as nothing fails and is rolled back.  *)
(***************************************************************************)
Open(w) == pc[w] = "events"

SweptByALaterOne ==
  \A w \in Workers :
    /\ ~Open(w) => swept[w] = {} /\ added[w] = {}
    /\ \A r \in swept[w] : DeviceOf(r.sub) = DeviceOf(job[w]) /\ At(r.sub) <= At(job[w])

(* Rows created by transactions that are over. *)
Earlier(R) == \A r \in R : r.created <= clock /\ \A v \in Workers : Open(v) => r.created # began[v]

Created ==
  /\ \A w \in Workers : Open(w) => began[w] <= clock
  /\ \A v, w \in Workers : Open(v) /\ Open(w) /\ began[v] = began[w] => v = w
  /\ \A w \in Workers : \A r \in added[w] : r.created = began[w]
  /\ Earlier(events)
  /\ \A w \in Workers : Earlier(seen[w])

RunsSwept ==
  faults = 0 =>
    \A w \in Workers : Open(w) /\ HasInstalls(job[w]) =>
      \A r \in seen[w] \cap events : Superseded(job[w], r) => r \in swept[w]

RowsInv == SweptByALaterOne /\ Created

(* A step that adds no row and opens no transaction. *)
LEMMA NoRowAdded ==
  ASSUME TypeOK, RowsInv, clock' = clock, events' \subseteq events, began' = began,
         \A v \in Workers :
           /\ Open(v)' => Open(v)
           /\ \/ Open(v)' /\ job'[v] = job[v] /\ swept'[v] = swept[v] /\ added'[v] = added[v]
              \/ swept'[v] = {} /\ added'[v] = {}
           /\ seen'[v] \subseteq seen[v] \cup events
  PROVE  RowsInv'
<1>1. SweptByALaterOne'
  BY DEF RowsInv, SweptByALaterOne
<1>2. Earlier(events)' /\ \A w \in Workers : Earlier(seen[w])'
  BY DEF RowsInv, Created, Earlier
<1>3. /\ \A w \in Workers : Open(w)' => began'[w] <= clock'
      /\ \A v, w \in Workers : Open(v)' /\ Open(w)' /\ began'[v] = began'[w] => v = w
  BY DEF RowsInv, Created
<1>4. \A w \in Workers : \A r \in added'[w] : r.created = began'[w]
  BY DEF RowsInv, Created
<1> QED BY <1>1, <1>2, <1>3, <1>4 DEF RowsInv, Created

(* A step of worker w that ends its submission and adds rows of its own transaction, if any. *)
LEMMA RowsLand ==
  ASSUME TypeOK, RowsInv, NEW w \in Workers, Idle(w), clock' \in {clock, clock + 1},
         \A r \in events' : r \in events \/ (Open(w) /\ r.created = began[w])
  PROVE  RowsInv'
<1>1. /\ \A v \in Workers \ {w} : /\ pc'[v] = pc[v] /\ job'[v] = job[v] /\ began'[v] = began[v]
                                   /\ swept'[v] = swept[v] /\ added'[v] = added[v] /\ seen'[v] = seen[v]
      /\ pc'[w] = "idle" /\ swept'[w] = {} /\ added'[w] = {} /\ seen'[w] = {}
  BY DEF Idle, Goto, TypeOK
<1>2. \A v \in Workers : Open(v)' <=> Open(v) /\ v # w
  BY <1>1 DEF Open
<1>3. clock \in Nat /\ (\A v \in Workers : began[v] \in Nat)
  BY DEF TypeOK
<1>4. \A R \in SUBSET Rows : \A r \in R : r.created \in Nat
  BY DEF Rows
<1>5. SweptByALaterOne'
  BY <1>1, <1>2 DEF RowsInv, SweptByALaterOne
<1>6. /\ \A v \in Workers : Open(v)' => began'[v] <= clock'
      /\ \A u, v \in Workers : Open(u)' /\ Open(v)' /\ began'[u] = began'[v] => u = v
      /\ \A v \in Workers : \A r \in added'[v] : r.created = began'[v]
  BY <1>1, <1>2, <1>3 DEF RowsInv, Created
<1>7. \A r \in events' : r.created <= clock' /\ \A v \in Workers : Open(v)' => r.created # began'[v]
  <2> SUFFICES ASSUME NEW r \in events'
               PROVE  r.created <= clock' /\ \A v \in Workers : Open(v)' => r.created # began'[v]
    OBVIOUS
  <2>1. CASE r \in events
    <3>1. r.created \in Nat /\ r.created <= clock /\ \A v \in Workers : Open(v) => r.created # began[v]
      BY <2>1, <1>4 DEF RowsInv, Created, Earlier, TypeOK
    <3> QED BY <1>1, <1>2, <1>3, <3>1
  <2>2. CASE Open(w) /\ r.created = began[w]
    <3>1. began[w] <= clock /\ \A v \in Workers : Open(v) /\ v # w => began[v] # began[w]
      BY <2>2 DEF RowsInv, Created
    <3> QED BY <1>1, <1>2, <1>3, <2>2, <3>1
  <2> QED BY <2>1, <2>2
<1>8. \A v \in Workers : \A r \in seen'[v] :
        r.created <= clock' /\ \A u \in Workers : Open(u)' => r.created # began'[u]
  <2> SUFFICES ASSUME NEW v \in Workers, NEW r \in seen'[v]
               PROVE  r.created <= clock' /\ \A u \in Workers : Open(u)' => r.created # began'[u]
    OBVIOUS
  <2>1. v # w /\ r \in seen[v]
    BY <1>1
  <2>2. r.created \in Nat /\ r.created <= clock /\ \A u \in Workers : Open(u) => r.created # began[u]
    BY <2>1, <1>4 DEF RowsInv, Created, Earlier, TypeOK
  <2> QED BY <1>1, <1>2, <1>3, <2>2
<1> QED BY <1>5, <1>6, <1>7, <1>8 DEF RowsInv, Created, Earlier

(* Worker w begins a transaction: what it sweeps is its device's and no newer. *)
LEMMA TransactionBegins ==
  ASSUME TypeOK, TypeOK', RowsInv, NEW w \in Workers, BeginTransaction(w), UNCHANGED <<events, job, seen>>,
         \A v \in Workers \ {w} : pc'[v] = pc[v] /\ swept'[v] = swept[v] /\ added'[v] = added[v],
         pc'[w] = "events", added'[w] = {},
         \A r \in swept'[w] : DeviceOf(r.sub) = DeviceOf(job[w]) /\ At(r.sub) <= At(job[w])
  PROVE  RowsInv'
<1>1. /\ clock \in Nat /\ clock' = clock + 1 /\ began'[w] = clock + 1
      /\ \A v \in Workers \ {w} : began'[v] = began[v] /\ began[v] \in Nat
  BY DEF BeginTransaction, TypeOK
<1>2. \A v \in Workers : Open(v)' <=> Open(v) \/ v = w
  BY DEF Open
<1>3. \A R \in SUBSET Rows : \A r \in R : r.created \in Nat
  BY DEF Rows
<1>4. SweptByALaterOne'
  BY <1>2 DEF RowsInv, SweptByALaterOne
<1>5. /\ \A v \in Workers : Open(v)' => began'[v] <= clock'
      /\ \A u, v \in Workers : Open(u)' /\ Open(v)' /\ began'[u] = began'[v] => u = v
  <2>1. \A v \in Workers \ {w} : Open(v) => began[v] <= clock /\ began[v] # clock + 1
    BY <1>1 DEF RowsInv, Created
  <2>2. \A u, v \in Workers \ {w} : Open(u) /\ Open(v) /\ began[u] = began[v] => u = v
    BY DEF RowsInv, Created
  <2> QED BY <1>1, <1>2, <2>1, <2>2
<1>6. \A v \in Workers : \A r \in added'[v] : r.created = began'[v]
  BY <1>1 DEF RowsInv, Created
<1>7. ASSUME NEW R \in SUBSET Rows, Earlier(R), NEW r \in R
      PROVE  r.created <= clock' /\ \A u \in Workers : Open(u)' => r.created # began'[u]
  <2>1. r.created \in Nat /\ r.created <= clock /\ \A u \in Workers : Open(u) => r.created # began[u]
    BY <1>3, <1>7 DEF Earlier
  <2> QED BY <1>1, <1>2, <2>1
<1>8. /\ events \in SUBSET Rows /\ Earlier(events)
      /\ \A v \in Workers : seen[v] \in SUBSET Rows /\ Earlier(seen[v])
  BY DEF RowsInv, Created, TypeOK
<1>9. Earlier(events)' /\ \A v \in Workers : Earlier(seen[v])'
  <2>1. \A r \in events : r.created <= clock' /\ \A u \in Workers : Open(u)' => r.created # began'[u]
    BY <1>7, <1>8
  <2>2. \A v \in Workers : \A r \in seen[v] :
          r.created <= clock' /\ \A u \in Workers : Open(u)' => r.created # began'[u]
    BY <1>7, <1>8
  <2> QED BY <2>1, <2>2 DEF Earlier
<1> QED BY <1>4, <1>5, <1>6, <1>9 DEF RowsInv, Created

(* Worker w stores an event: a row of its own transaction, for os_update in place of older ones. *)
LEMMA EventStored ==
  ASSUME TypeOK, RowsInv, NEW w \in Workers, StoreEvent(w)
  PROVE  RowsInv'
<1>1. /\ UNCHANGED <<events, pc, job, began, seen, clock>>
      /\ \A v \in Workers \ {w} : swept'[v] = swept[v] /\ added'[v] = added[v]
      /\ Open(w)
  BY DEF StoreEvent, HasEvent, Open, TypeOK, database
<1>2. /\ \A r \in swept'[w] : r \in swept[w] \/ OldOsUpdate(job[w], r)
      /\ \A r \in added'[w] : r \in added[w] \/ r.created = began[w]
  BY DEF StoreEvent, TypeOK
<1>3. SweptByALaterOne'
  BY <1>1, <1>2 DEF RowsInv, SweptByALaterOne, Open, OldOsUpdate, DeviceOf, At
<1>4. Created'
  BY <1>1, <1>2 DEF RowsInv, Created, Earlier, Open
<1> QED BY <1>3, <1>4 DEF RowsInv

LEMMA RowsInit == Init => RowsInv
BY DEF Init, RowsInv, SweptByALaterOne, Created, Earlier, Open

LEMMA RowsNext == TypeOK /\ RowsInv /\ [Next]_vars => RowsInv'
<1> SUFFICES ASSUME TypeOK, RowsInv, [Next]_vars
             PROVE  RowsInv'
  OBVIOUS
<1> USE DEF database, handler, ledgers
<1>a. TypeOK'
  BY TypeStep
<1>1. ASSUME UNCHANGED <<events, clock, began>>,
             \A v \in Workers : \/ UNCHANGED <<pc[v], job[v], swept[v], added[v], seen[v]>>
                                \/ /\ ~Open(v) /\ ~Open(v)' /\ swept'[v] = swept[v] /\ added'[v] = added[v]
                                   /\ seen'[v] \in {seen[v], events}
      PROVE  RowsInv'
  <2>1. ASSUME NEW v \in Workers
        PROVE  /\ Open(v)' => Open(v)
               /\ \/ Open(v)' /\ job'[v] = job[v] /\ swept'[v] = swept[v] /\ added'[v] = added[v]
                  \/ swept'[v] = {} /\ added'[v] = {}
               /\ seen'[v] \subseteq seen[v] \cup events
    BY <1>1 DEF RowsInv, SweptByALaterOne, Open
  <2> QED BY <1>1, <2>1, NoRowAdded
<1>2. ASSUME NEW w \in Workers, NEW s \in Submissions, Deliver(w, s) PROVE RowsInv'
  BY <1>1, <1>2 DEF Deliver, Goto, Open, TypeOK
<1>3. ASSUME NEW w \in Workers, NEW stage \in Stages,
             Goto(w, stage), stage # "events", pc[w] # "events",
             UNCHANGED <<events, clock, job, swept, added, seen, began>>
      PROVE  RowsInv'
  <2>1. ~Open(w) /\ ~Open(w)'
    BY <1>3 DEF Goto, Open, TypeOK
  <2>2. \A v \in Workers \ {w} : pc'[v] = pc[v]
    BY <1>3 DEF Goto, TypeOK
  <2> QED BY <1>1, <1>3, <2>1, <2>2
<1>4. ASSUME NEW w \in Workers, ClaimKey(w) \/ LookupDevice(w) PROVE RowsInv'
  BY <1>3, <1>4 DEF ClaimKey, LookupDevice, Stages
<1>5. ASSUME NEW w \in Workers, AnswerDuplicate(w) \/ InsertConflict(w) \/ Stop(w) PROVE RowsInv'
  BY <1>5, RowsLand DEF AnswerDuplicate, InsertConflict, Stop
<1>6. ASSUME NEW w \in Workers, UpdateDevice(w) \/ InsertDevice(w) PROVE RowsInv'
  <2>1. AfterDevice(job[w]) \in Stages \ {"events"}
    BY <1>6 DEF UpdateDevice, InsertDevice, TypeOK, AfterDevice, AfterSystem, AfterInstalls, Stages
  <2> QED BY <1>3, <1>6, <2>1 DEF UpdateDevice, InsertDevice
<1>7. ASSUME NEW w \in Workers, NEW m \in Modules,
             StoreModule(w, m) \/ InsertOutrun(w, m) \/ ModuleFails(w, m)
      PROVE  RowsInv'
  <2>1. \A ok \in BOOLEAN : AfterModule(m, job[w], ok) \in Stages \ {"events"}
    BY DEF AfterModule, AfterSystem, AfterInstalls, Stages
  <2>2. pc[w] # "events"
    BY <1>7 DEF StoreModule, InsertOutrun, ModuleFails, Modules
  <2> QED BY <1>3, <1>7, <2>1, <2>2 DEF StoreModule, InsertOutrun, ModuleFails, LeaveModule
<1>18. ASSUME NEW w \in Workers, NEW m \in Modules, LookModule(w, m) PROVE RowsInv'
  BY <1>1, <1>18 DEF LookModule
<1>8. ASSUME NEW w \in Workers, BookUsage(w) \/ UsageFails(w) PROVE RowsInv'
  BY <1>3, <1>8 DEF BookUsage, UsageFails, Stages
<1>9. ASSUME NEW w \in Workers, StoreOsInfo(w) \/ OsInfoFails(w) PROVE RowsInv'
  <2>1. AfterSystem(job[w]) \in Stages \ {"events"}
    BY DEF AfterSystem, AfterInstalls, Stages
  <2> QED BY <1>3, <1>9, <2>1 DEF StoreOsInfo, OsInfoFails
<1>10. ASSUME NEW w \in Workers, StoreName(w) \/ NameFails(w) PROVE RowsInv'
  BY <1>3, <1>10 DEF StoreName, NameFails, Stages
<1>11. ASSUME NEW w \in Workers, Sweep(w) PROVE RowsInv'
  <2>1. /\ BeginTransaction(w) /\ UNCHANGED <<events, job, seen>>
        /\ \A v \in Workers \ {w} : pc'[v] = pc[v] /\ swept'[v] = swept[v] /\ added'[v] = added[v]
        /\ pc[w] = "sweep" /\ pc'[w] = "events" /\ added'[w] = added[w]
    BY <1>11 DEF Sweep, Goto, TypeOK
  <2>2. added'[w] = {}
    BY <2>1 DEF RowsInv, SweptByALaterOne, Open
  <2>3. \A r \in swept'[w] : Superseded(job[w], r)
    BY <1>11 DEF Sweep, TypeOK
  <2>4. \A r \in swept'[w] : DeviceOf(r.sub) = DeviceOf(job[w]) /\ At(r.sub) <= At(job[w])
    BY <2>3 DEF Superseded
  <2> QED BY <1>a, <2>1, <2>2, <2>4, TransactionBegins
<1>12. ASSUME NEW w \in Workers, SkipEvent(w) PROVE RowsInv'
  BY <1>1, <1>12 DEF SkipEvent
<1>13. ASSUME NEW w \in Workers, StoreEvent(w) PROVE RowsInv'
  BY <1>13, EventStored
<1>14. ASSUME NEW w \in Workers, EventFails(w) PROVE RowsInv'
  <2>1. /\ BeginTransaction(w) /\ UNCHANGED <<events, job, seen>>
        /\ \A v \in Workers \ {w} : pc'[v] = pc[v] /\ swept'[v] = swept[v] /\ added'[v] = added[v]
        /\ pc'[w] = "events" /\ added'[w] = {} /\ swept'[w] = {}
    BY <1>14 DEF EventFails, HasEvent, Rollback, TypeOK
  <2> QED BY <1>a, <2>1, TransactionBegins
<1>15. ASSUME NEW w \in Workers, Finish(w) \/ FallbackFails(w) PROVE RowsInv'
  <2>1. Idle(w) /\ clock' \in {clock, clock + 1} /\ Open(w)
    BY <1>15 DEF Finish, FallbackFails, Accept, EventsDone, Open
  <2>2. \A r \in events' : r \in events \/ (Open(w) /\ r.created = began[w])
    <3>1. \A r \in FallbackRow(w) : r.created = began[w]
      BY DEF FallbackRow
    <3>2. \A r \in added[w] : r.created = began[w]
      BY DEF RowsInv, Created
    <3> QED BY <1>15, <2>1, <3>1, <3>2 DEF Finish, FallbackFails, Accept
  <2> QED BY <2>1, <2>2, RowsLand
<1>16. ASSUME NEW S \in SUBSET keys, NEW t \in {At(s) : s \in landed} \cup {0}, Purge(S, t) PROVE RowsInv'
  <2>1. events' \subseteq events /\ UNCHANGED <<clock, began, pc, job, swept, added, seen>>
    BY <1>16 DEF Purge
  <2>2. ASSUME NEW v \in Workers
        PROVE  /\ Open(v)' => Open(v)
               /\ \/ Open(v)' /\ job'[v] = job[v] /\ swept'[v] = swept[v] /\ added'[v] = added[v]
                  \/ swept'[v] = {} /\ added'[v] = {}
               /\ seen'[v] \subseteq seen[v] \cup events
    BY <2>1 DEF RowsInv, SweptByALaterOne, Open
  <2> QED BY <2>1, <2>2, NoRowAdded
<1>17. CASE Drained \/ UNCHANGED vars
  BY <1>1, <1>17 DEF Drained, vars
<1> QED
  BY <1>2, <1>4, <1>5, <1>6, <1>7, <1>8, <1>9, <1>10, <1>11, <1>12, <1>13, <1>14, <1>15, <1>16, <1>17, <1>18
  DEF Next, Progress, Failure

LEMMA RowsInvariance == Spec => [](TypeOK /\ RowsInv)
BY TypeCorrect, RowsInit, RowsNext, PTL DEF Spec

(***************************************************************************)
(* Whatever processes die or are overtaken: an event row goes by retention *)
(* or with the commit of a check-in of its device collected no earlier,    *)
(* which moves the watermark: the sweep and the inserts of one             *)
(* transaction.                                                            *)
(***************************************************************************)
THEOREM GoneOnlyWhenReplaced == Spec => RemovedByAcceptance
<1> USE DEF database, handler, ledgers
<1>1. ASSUME TypeOK, RowsInv, [Next]_vars, NEW r \in events \ events'
      PROVE  \/ purges' > purges
             \/ \E w \in Workers :
                  /\ pc[w] = "events" /\ pc'[w] = "idle"
                  /\ DeviceOf(job[w]) = DeviceOf(r.sub) /\ At(r.sub) <= At(job[w])
                  /\ job[w] \in landed'
                  /\ began[w] <= watermark'[DeviceOf(r.sub)]
  <2>1. ASSUME NEW w \in Workers, Finish(w)
        PROVE  /\ pc[w] = "events" /\ pc'[w] = "idle"
               /\ DeviceOf(job[w]) = DeviceOf(r.sub) /\ At(r.sub) <= At(job[w])
               /\ job[w] \in landed'
               /\ began[w] <= watermark'[DeviceOf(r.sub)]
    <3>1. /\ pc[w] = "events" /\ pc'[w] = "idle" /\ job[w] \in landed' /\ r \in swept[w]
          /\ watermark' = [watermark EXCEPT ![Device(w)] = Later(@, began[w])]
      BY <1>1, <2>1 DEF Finish, EventsDone, Accept, Idle, Goto, TypeOK
    <3>2. DeviceOf(r.sub) = DeviceOf(job[w]) /\ At(r.sub) <= At(job[w])
      BY <1>1, <3>1 DEF RowsInv, SweptByALaterOne
    <3>3. job[w] \in Submissions /\ Device(w) = DeviceOf(job[w]) /\ Device(w) \in Devices
      BY <1>1, <3>1, PayloadFields DEF TypeOK, Device, DeviceOf
    <3>4. watermark[Device(w)] \in Nat /\ began[w] \in Nat
      BY <1>1, <3>3 DEF TypeOK
    <3>5. watermark'[Device(w)] = Later(watermark[Device(w)], began[w])
      BY <1>1, <3>1, <3>3 DEF TypeOK
    <3>6. began[w] <= Later(watermark[Device(w)], began[w])
      BY <3>4 DEF Later
    <3> QED BY <3>1, <3>2, <3>3, <3>5, <3>6
  <2>2. ASSUME NEW S \in SUBSET keys, NEW t \in {At(s) : s \in landed} \cup {0}, Purge(S, t)
        PROVE  purges' > purges
    BY <1>1, <2>2 DEF Purge, TypeOK
  <2>3. events' # events
    BY <1>1
  <2> QED
    BY <1>1, <2>1, <2>2, <2>3, ZenonT(120)
    DEF Next, Progress, Failure, vars, Drained, Deliver, ClaimKey, AnswerDuplicate, LookupDevice,
        UpdateDevice, InsertDevice, InsertConflict, LookModule, StoreModule, InsertOutrun, ModuleFails, BookUsage, UsageFails,
        StoreOsInfo, OsInfoFails, StoreName, NameFails, Sweep, SkipEvent, StoreEvent, EventFails,
        FallbackFails, Stop
<1>2. TypeOK /\ RowsInv /\ [Next]_vars =>
        [\A r \in events \ events' :
           \/ purges' > purges
           \/ \E w \in Workers :
                /\ pc[w] = "events" /\ pc'[w] = "idle"
                /\ DeviceOf(job[w]) = DeviceOf(r.sub) /\ At(r.sub) <= At(job[w])
                /\ job[w] \in landed'
                /\ began[w] <= watermark'[DeviceOf(r.sub)]]_events
  BY <1>1
<1> QED BY <1>2, RowsInvariance, PTL DEF Spec, RemovedByAcceptance

-----------------------------------------------------------------------------
(***************************************************************************)
(* A run that is accepted clears the one before it.  An event that cannot  *)
(* be stored takes the sweep back with it, and no statement fails to show  *)
(* for it: this holds of payloads whose events can all be stored (the run  *)
(* Ingest_badevent shows what happens with the others).                    *)
(***************************************************************************)
EventsCanBeStored ==
  \A s \in Submissions : \A i \in DOMAIN Payload[s].events : Payload[s].events[i].sound

NextEvent == \A w \in Workers : next[w] >= 1

SweepInv == RowsInv /\ NextEvent /\ RunsSwept

(* A step that opens no transaction and takes no sweep back, unless something fails. *)
LEMMA SweepKept ==
  ASSUME TypeOK, SweepInv, faults' = 0 => faults = 0,
         \A v \in Workers : faults' = 0 /\ Open(v)' =>
            Open(v) /\ job'[v] = job[v] /\ seen'[v] = seen[v] /\ swept[v] \subseteq swept'[v],
         \A r \in events' : r \in events \/ \E v \in Workers : Open(v) /\ r.created = began[v]
  PROVE  RunsSwept'
<1> SUFFICES ASSUME faults' = 0, NEW v \in Workers, Open(v)', HasInstalls(job'[v]),
                    NEW r \in seen'[v] \cap events', Superseded(job'[v], r)
             PROVE  r \in swept'[v]
  BY DEF RunsSwept, Superseded
<1>1. faults = 0 /\ Open(v) /\ job'[v] = job[v] /\ seen'[v] = seen[v] /\ swept[v] \subseteq swept'[v]
  OBVIOUS
<1>2. r \in events
  BY <1>1 DEF SweepInv, RowsInv, Created, Earlier
<1> QED BY <1>1, <1>2 DEF SweepInv, RunsSwept

LEMMA SweepInit == Init => SweepInv
BY RowsInit DEF Init, SweepInv, NextEvent, RunsSwept, Open

LEMMA SweepNext ==
  ASSUME EventsCanBeStored, TypeOK, SweepInv, [Next]_vars
  PROVE  SweepInv'
<1> USE DEF database, handler, ledgers
<1>a. TypeOK' /\ RowsInv' /\ faults \in Nat
  BY TypeStep, RowsNext DEF SweepInv, TypeOK
<1>b. NextEvent'
  <2>1. ASSUME NEW w \in Workers, Idle(w) PROVE NextEvent'
    BY <2>1 DEF Idle, SweepInv, NextEvent, TypeOK
  <2>2. ASSUME NEW w \in Workers, SkipEvent(w) \/ StoreEvent(w) \/ EventFails(w) PROVE NextEvent'
    <3>1. next' = [next EXCEPT ![w] = @ + 1]
      BY <2>2 DEF SkipEvent, StoreEvent, EventFails
    <3> QED BY <3>1 DEF SweepInv, NextEvent, TypeOK
  <2>3. CASE next' = next
    BY <2>3 DEF SweepInv, NextEvent
  <2> QED
    BY <2>1, <2>2, <2>3, ZenonT(120)
    DEF Next, Progress, Failure, vars, Drained, Deliver, ClaimKey, AnswerDuplicate, LookupDevice,
        UpdateDevice, InsertDevice, InsertConflict, LookModule, StoreModule, InsertOutrun, ModuleFails, BookUsage, UsageFails,
        StoreOsInfo, OsInfoFails, StoreName, NameFails, Sweep, Finish, FallbackFails, Accept, Stop, Purge, LeaveModule
<1>1. ASSUME faults' = faults + 1, \A r \in events' : r \in events \/ \E v \in Workers : Open(v) /\ r.created = began[v]
      PROVE  RunsSwept'
  BY <1>a, <1>1 DEF RunsSwept
<1>2. ASSUME UNCHANGED <<events, faults>>,
             \A v \in Workers : \/ UNCHANGED <<pc[v], job[v], swept[v], seen[v]>>
                                \/ ~Open(v)'
      PROVE  RunsSwept'
  <2>1. \A v \in Workers : faults' = 0 /\ Open(v)' =>
            Open(v) /\ job'[v] = job[v] /\ seen'[v] = seen[v] /\ swept[v] \subseteq swept'[v]
    BY <1>2 DEF Open
  <2> QED BY <1>2, <2>1, SweepKept
<1>3. ASSUME NEW w \in Workers, NEW s \in Submissions, Deliver(w, s) PROVE RunsSwept'
  BY <1>2, <1>3 DEF Deliver, Goto, Open, TypeOK
<1>4. ASSUME NEW w \in Workers, NEW stage \in Stages, Goto(w, stage), stage # "events",
             UNCHANGED <<events, faults, job, swept, seen>>
      PROVE  RunsSwept'
  BY <1>2, <1>4 DEF Goto, Open, TypeOK
<1>5. ASSUME NEW w \in Workers, ClaimKey(w) \/ LookupDevice(w) PROVE RunsSwept'
  BY <1>4, <1>5 DEF ClaimKey, LookupDevice, Stages
<1>6. ASSUME NEW w \in Workers, Idle(w), events' = events, faults' \in {faults, faults + 1} PROVE RunsSwept'
  BY <1>1, <1>2, <1>6 DEF Idle, Goto, Open, TypeOK
<1>7. ASSUME NEW w \in Workers, UpdateDevice(w) \/ InsertDevice(w) PROVE RunsSwept'
  <2>1. AfterDevice(job[w]) \in Stages \ {"events"}
    BY DEF AfterDevice, AfterSystem, AfterInstalls, Stages
  <2> QED BY <1>4, <1>7, <2>1 DEF UpdateDevice, InsertDevice
<1>8. ASSUME NEW w \in Workers, NEW m \in Modules,
             LookModule(w, m) \/ StoreModule(w, m) \/ InsertOutrun(w, m)
      PROVE  RunsSwept'
  <2>1. \A ok \in BOOLEAN : AfterModule(m, job[w], ok) \in Stages \ {"events"}
    BY DEF AfterModule, AfterSystem, AfterInstalls, Stages
  <2>2. CASE StoreModule(w, m) \/ InsertOutrun(w, m)
    BY <1>4, <2>1, <2>2 DEF StoreModule, InsertOutrun, LeaveModule
  <2>3. CASE LookModule(w, m)
    BY <1>2, <2>3 DEF LookModule
  <2> QED BY <1>8, <2>2, <2>3
<1>9. ASSUME NEW w \in Workers, BookUsage(w) \/ StoreName(w) PROVE RunsSwept'
  BY <1>4, <1>9 DEF BookUsage, StoreName, Stages
<1>10. ASSUME NEW w \in Workers, StoreOsInfo(w) PROVE RunsSwept'
  <2>1. AfterSystem(job[w]) \in Stages \ {"events"}
    BY DEF AfterSystem, AfterInstalls, Stages
  <2> QED BY <1>4, <1>10, <2>1 DEF StoreOsInfo
<1>11. ASSUME NEW w \in Workers, Sweep(w) PROVE RunsSwept'
  <2>1. /\ UNCHANGED <<events, faults, job, seen>>
        /\ \A v \in Workers \ {w} : pc'[v] = pc[v] /\ swept'[v] = swept[v]
        /\ swept'[w] = IF HasInstalls(job[w]) THEN {r \in events : Superseded(job[w], r)} ELSE {}
    BY <1>11 DEF Sweep, Goto, TypeOK
  <2> SUFFICES ASSUME faults' = 0, NEW v \in Workers, Open(v)', HasInstalls(job[v]),
                      NEW r \in seen[v] \cap events, Superseded(job[v], r)
               PROVE  r \in swept'[v]
    BY <2>1 DEF RunsSwept, Superseded
  <2>2. CASE v = w
    BY <2>1, <2>2
  <2>3. CASE v # w
    BY <2>1, <2>3 DEF SweepInv, RunsSwept, Open
  <2> QED BY <2>2, <2>3
<1>12. ASSUME NEW w \in Workers, SkipEvent(w) PROVE RunsSwept'
  BY <1>2, <1>12 DEF SkipEvent
<1>13. ASSUME NEW w \in Workers, StoreEvent(w) PROVE RunsSwept'
  <2>1. /\ UNCHANGED <<events, faults, job, seen, pc>>
        /\ \A v \in Workers : swept[v] \subseteq swept'[v]
    BY <1>13 DEF StoreEvent, TypeOK
  <2> QED BY <2>1, SweepKept DEF Open
<1>14. ASSUME NEW w \in Workers, EventFails(w) PROVE RunsSwept'
  <2>1. job[w] \in Submissions /\ next[w] \in Nat /\ next[w] >= 1
        /\ next[w] <= Len(Payload[job[w]].events) /\ Payload[job[w]].events \in Seq(EventType)
    BY <1>14 DEF EventFails, HasEvent, TypeOK, SweepInv, NextEvent, PayloadType
  <2>2. next[w] \in DOMAIN Payload[job[w]].events
    BY <2>1
  <2>3. Event(w).sound
    BY <2>1, <2>2 DEF EventsCanBeStored, Event
  <2>4. faults' = faults + 1 /\ events' = events
    BY <1>14, <2>3 DEF EventFails, Fault
  <2> QED BY <1>1, <2>4
<1>15. ASSUME NEW w \in Workers, Finish(w) PROVE RunsSwept'
  <2>1. /\ Idle(w) /\ Open(w) /\ faults' = faults
        /\ events' = (events \ swept[w]) \cup added[w] \cup FallbackRow(w)
    BY <1>15 DEF Finish, Accept, EventsDone, Open
  <2>2. \A r \in events' : r \in events \/ \E v \in Workers : Open(v) /\ r.created = began[v]
    BY <2>1 DEF SweepInv, RowsInv, Created, FallbackRow
  <2>3. \A v \in Workers : faults' = 0 /\ Open(v)' =>
            Open(v) /\ job'[v] = job[v] /\ seen'[v] = seen[v] /\ swept[v] \subseteq swept'[v]
    BY <2>1 DEF Idle, Goto, Open, TypeOK
  <2> QED BY <2>1, <2>2, <2>3, SweepKept
<1>16. ASSUME NEW w \in Workers, Failure(w) PROVE RunsSwept'
  <2>1. faults' = faults + 1
    BY <1>16 DEF Failure, ModuleFails, UsageFails, OsInfoFails, NameFails, FallbackFails, Stop, Fault
  <2> QED BY <1>a, <2>1 DEF RunsSwept
<1>17. ASSUME NEW S \in SUBSET keys, NEW t \in {At(s) : s \in landed} \cup {0}, Purge(S, t) PROVE RunsSwept'
  BY <1>17, SweepKept DEF Purge, Open
<1>18. ASSUME Drained \/ UNCHANGED vars PROVE RunsSwept'
  <2>1. UNCHANGED <<events, faults>> /\ pc' = pc /\ job' = job /\ swept' = swept /\ seen' = seen
    BY <1>18 DEF Drained, vars, database, handler, ledgers
  <2>2. \A v \in Workers : UNCHANGED <<pc[v], job[v], swept[v], seen[v]>>
    BY <2>1
  <2> QED BY <1>2, <2>1, <2>2
<1>19. RunsSwept'
  <2>1. ASSUME NEW w \in Workers, AnswerDuplicate(w) \/ InsertConflict(w) PROVE RunsSwept'
    BY <1>6, <2>1 DEF AnswerDuplicate, InsertConflict
  <2>2. ASSUME NEW w \in Workers, Progress(w) PROVE RunsSwept'
    BY <1>5, <1>7, <1>8, <1>9, <1>10, <1>11, <1>12, <1>13, <1>14, <1>15, <2>1, <2>2 DEF Progress
  <2>3. CASE \E S \in SUBSET keys, t \in {At(s) : s \in landed} \cup {0} : Purge(S, t)
    BY <1>17, <2>3
  <2>4. CASE \E w \in Workers : (\E s \in Submissions : Deliver(w, s)) \/ Progress(w) \/ Failure(w)
    BY <1>3, <1>16, <2>2, <2>4
  <2> QED BY <1>18, <2>3, <2>4 DEF Next
<1> QED BY <1>a, <1>b, <1>19 DEF SweepInv

(***************************************************************************)
(* For any processes and interleaving of transactions: with nothing going  *)
(* wrong, an accepted run leaves none of the run events it saw when it     *)
(* arrived and supersedes, be it quiet or overtaken.                       *)
(***************************************************************************)
THEOREM AcceptedRunClears == EventsCanBeStored => (Spec => RunSuperseded)
<1> SUFFICES ASSUME EventsCanBeStored
             PROVE  Spec => RunSuperseded
  OBVIOUS
<1> USE DEF database, handler, ledgers
<1>1. ASSUME TypeOK, SweepInv, [Next]_vars, NEW w \in Workers,
             pc[w] = "events", pc'[w] = "idle", job[w] \in landed', HasInstalls(job[w]), faults' = 0
      PROVE  {r \in seen[w] : Superseded(job[w], r)} \cap events' = {}
  <2>1. Finish(w) /\ faults = 0
    <3>1. ASSUME NEW v \in Workers, Failure(v) PROVE FALSE
      <4>1. faults' = faults + 1 /\ faults \in Nat
        BY <1>1, <3>1 DEF Failure, ModuleFails, UsageFails, OsInfoFails, NameFails, FallbackFails, Stop,
                          Fault, TypeOK
      <4> QED BY <1>1, <4>1
    <3>2. ASSUME NEW v \in Workers, Progress(v) PROVE Finish(w) /\ faults = 0
      <4>1. CASE Finish(v)
        <5>1. pc' = [pc EXCEPT ![v] = "idle"] /\ faults' = faults
          BY <4>1 DEF Finish, Accept, Idle, Goto
        <5>2. v = w
          BY <1>1, <5>1 DEF TypeOK
        <5> QED BY <1>1, <4>1, <5>1, <5>2
      <4>2. CASE SkipEvent(v) \/ StoreEvent(v) \/ EventFails(v)
        BY <1>1, <4>2 DEF SkipEvent, StoreEvent, EventFails
      <4>3. CASE ~(Finish(v) \/ SkipEvent(v) \/ StoreEvent(v) \/ EventFails(v))
        <5>1. pc[v] # "events"
          BY <3>2, <4>3 DEF Progress, ClaimKey, AnswerDuplicate, LookupDevice, UpdateDevice, InsertDevice,
             InsertConflict, LookModule, StoreModule, InsertOutrun, BookUsage, StoreOsInfo, StoreName, Sweep, Modules
        <5>2. \A u \in Workers \ {v} : pc'[u] = pc[u]
          BY <1>1, <3>2, <4>3 DEF Progress, ClaimKey, AnswerDuplicate, LookupDevice, UpdateDevice, InsertDevice,
             InsertConflict, LookModule, StoreModule, InsertOutrun, LeaveModule, BookUsage, StoreOsInfo, StoreName, Sweep,
             Idle, Goto, TypeOK
        <5> QED BY <1>1, <5>1, <5>2 DEF TypeOK
      <4> QED BY <4>1, <4>2, <4>3
    <3>3. ASSUME NEW v \in Workers, NEW s \in Submissions, Deliver(v, s) PROVE FALSE
      BY <1>1, <3>3 DEF Deliver, Goto, TypeOK
    <3> QED BY <1>1, <3>1, <3>2, <3>3 DEF Next, Purge, Drained, vars
  <2>2. events' = (events \ swept[w]) \cup added[w] \cup FallbackRow(w) /\ Open(w)
    BY <1>1, <2>1 DEF Finish, Accept, Open
  <2>3. \A r \in added[w] \cup FallbackRow(w) : r.created = began[w]
    BY <1>1 DEF SweepInv, RowsInv, Created, FallbackRow
  <2>4. \A r \in seen[w] : r.created # began[w]
    BY <1>1, <2>2 DEF SweepInv, RowsInv, Created, Earlier
  <2> SUFFICES ASSUME NEW r \in seen[w], Superseded(job[w], r), r \in events'
               PROVE  FALSE
    OBVIOUS
  <2>5. r \in events /\ r \notin swept[w]
    BY <2>2, <2>3, <2>4
  <2> QED BY <1>1, <2>1, <2>2, <2>5 DEF SweepInv, RunsSwept
<1>2. TypeOK /\ SweepInv /\ [Next]_vars => SweepInv'
  BY SweepNext
<1>3. TypeOK /\ SweepInv /\ [Next]_vars =>
        [\A w \in Workers :
           /\ pc[w] = "events" /\ pc'[w] = "idle" /\ job[w] \in landed'
           /\ HasInstalls(job[w]) /\ faults' = 0
           => {r \in seen[w] : Superseded(job[w], r)} \cap events' = {}]_vars
  BY <1>1
<1> QED BY <1>2, <1>3, TypeCorrect, SweepInit, PTL DEF Spec, RunSuperseded
=============================================================================
