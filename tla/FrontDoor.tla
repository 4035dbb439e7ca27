----------------------------- MODULE FrontDoor -----------------------------
(***************************************************************************)
(* Check-ins at the door: the rate limit, authentication, the checks on    *)
(* the body, and the table of rejected check-ins they all write to, which  *)
(* the failures view reads next to the time a device was last accepted.    *)
(*                                                                         *)
(* A replica is one event loop.  A request gives it up only to wait for    *)
(* its body; recording a rejection and storing a check-in are synchronous, *)
(* so a replica has one such transaction at a time, its job, and only      *)
(* different replicas race.  The clock gives every transaction a time of   *)
(* its own, NOW() at its start, and moves on by itself as well.            *)
(***************************************************************************)
EXTENDS Access, CheckIn, Naturals, FiniteSets

CONSTANTS
  Devices,
  Replicas,
  Addresses,     \* client addresses; devices behind one router share one
  Address,       \* Address[d]
  Named,         \* the devices that mirror their identity in headers
  Presents,      \* Presents[d]: the credentials a device sends
  Config,        \* the settings the replicas run with
  Bodies,        \* the bodies that are sent
  DeviceLimit, AddressLimit,  \* requests a minute
  Minute,        \* length of a rate limit window
  DedupWindow,   \* INGEST_FAILURES_DEDUP_MINUTES
  Retention,     \* INGEST_FAILURES_RETENTION_DAYS
  MaxRows,       \* INGEST_FAILURES_MAX_ROWS
  Start,         \* the clock when the replicas start
  MaxSeen,       \* bound: check-ins from an address to a replica in a minute
  MaxWaiting,    \* bound: bodies awaited at a time
  MaxTime        \* bound: the clock

ASSUME DoorAssumption ==
  /\ Address \in [Devices -> Addresses]
  /\ Named \subseteq Devices /\ NoSerial \notin Devices
  /\ \A d \in Devices : Presents[d] \in Credentials
  /\ Config \in Settings /\ MayStart(Config, "prod", TRUE)
  /\ \A b \in Bodies : b.stream.encoding \in Encodings /\ b.serial \in Serials
  /\ DeviceLimit \in Nat /\ AddressLimit \in Nat /\ Minute \in Nat \ {0}
  /\ DedupWindow \in Nat /\ Retention \in Nat /\ MaxRows \in Nat
  /\ Start \in Nat \ {0} /\ MaxSeen \in Nat /\ MaxWaiting \in Nat /\ MaxTime \in Nat

VARIABLES
  now,       \* the clock
  bucket,    \* bucket[r]: the window a replica counts in, and its counts
  waiting,   \* requests whose body is awaited
  job,       \* job[r]: what a replica is recording or storing
  rows,      \* ingest_failures
  lastId,    \* its sequence
  accepted,  \* accepted[d]: last_accepted_at, 0 before the first
  seen       \* seen[r]: the requests that came in this minute

table == <<rows, lastId>>
vars == <<now, bucket, waiting, job, table, accepted, seen>>

Buckets == Devices \cup Addresses
NoCounts == [b \in Buckets |-> 0]
Window(t) == t \div Minute
Rejection(reason, status) == [reason |-> reason, status |-> status]
Idle == [dev |-> NoSerial, serial |-> NoSerial, todo |-> <<>>, store |-> FALSE,
         phase |-> "idle", at |-> 0, added |-> {}, doomed |-> {}]

(* What earlier replicas left in the table: nothing, or a device's dropped upload, time 0. *)
Left ==
  {{}} \cup {{[id |-> 1, reason |-> "upload_aborted", status |-> 400, serial |-> d,
               address |-> Address[d], at |-> 0, done |-> 1]} : d \in Named}

Init ==
  /\ now = Start
  /\ bucket = [r \in Replicas |-> [window |-> Window(Start), counts |-> NoCounts]]
  /\ waiting = {}
  /\ job = [r \in Replicas |-> Idle]
  /\ rows \in Left /\ lastId = Cardinality(rows)
  /\ accepted = [d \in Devices |-> 0]
  /\ seen = [r \in Replicas |-> NoCounts]

(* The clock moves on; a new minute is one in which nothing has come in yet. *)
Pass ==
  /\ now < MaxTime
  /\ now' = now + 1
  /\ seen' = IF Window(now + 1) = Window(now) THEN seen ELSE [r \in Replicas |-> NoCounts]

-----------------------------------------------------------------------------
(* The rate limit *)

(* The services of the deployment itself are not limited. *)
Exempt(d) == Config.secret /\ Presents[d].internal = "right"

(* The buckets a request counts in: its address, and its device if a header names it. *)
BucketsOf(d) == IF Exempt(d) THEN {} ELSE {Address[d]} \cup ({d} \cap Named)

LimitOf(b) == IF b \in Devices THEN DeviceLimit ELSE AddressLimit

Plus(counts, bs) == [b \in Buckets |-> counts[b] + (IF b \in bs THEN 1 ELSE 0)]

(* Mutation: a new minute starts anew the bucket of the device only. *)
Allow_HalfReset(r, d) ==
  LET old == bucket[r].counts
      base == IF bucket[r].window = Window(now) THEN old
              ELSE [b \in Buckets |-> IF b \in Devices THEN 0 ELSE old[b]]
  IN [window |-> Window(now), counts |-> Plus(base, BucketsOf(d))]

(* A new minute starts all counts anew; then every bucket counts the request. *)
Allow(r, d) ==
  LET base == IF bucket[r].window = Window(now) THEN bucket[r].counts ELSE NoCounts
  IN [window |-> Window(now), counts |-> Plus(base, BucketsOf(d))]

Over(counts, d) == \E b \in BucketsOf(d) : counts[b] > LimitOf(b)

-----------------------------------------------------------------------------
(* Jobs of a replica *)

Working(d, serial, todo, store) ==
  [Idle EXCEPT !.dev = d, !.serial = serial, !.todo = todo, !.store = store,
               !.phase = IF todo = <<>> /\ ~store THEN "idle" ELSE "next"]

HeaderSerial(d) == IF d \in Named THEN d ELSE NoSerial

(* What the body says, once it is read; a refusal reads it as it was sent, not inflated. *)
BodySerial(d, b, admitted) ==
  IF Passed(ReadingChecks(b)) /\ (admitted \/ b.stream.encoding \in {"none", "identity"})
  THEN d ELSE NoSerial

(***************************************************************************)
(* A check-in comes in: throttled, or authenticated.  An empty list of     *)
(* passphrases is answered 500, which the error handler records.           *)
(***************************************************************************)
Arrive(r, d) ==
  LET verdict == Authorize(Presents[d], Config, "POST", FALSE)
      over == Over(Allow(r, d).counts, d)
      atOnce == over \/ (verdict.status # 200 /\ ~AuthRecorded(verdict, TRUE))
      why == IF over THEN Rejection("rate_limited", 429) ELSE Rejection("internal_error", verdict.status)
      request == [dev |-> d, replica |-> r, verdict |-> Rejection(verdict.reason, verdict.status)]
  IN /\ job[r] = Idle /\ seen[r][Address[d]] < MaxSeen /\ Cardinality(waiting) < MaxWaiting
     /\ ~\E w \in waiting : w.dev = d /\ w.replica = r
     /\ bucket' = [bucket EXCEPT ![r] = Allow(r, d)]
     /\ seen' = [seen EXCEPT ![r] = Plus(@, BucketsOf(d))]
     /\ job' = IF atOnce THEN [job EXCEPT ![r] = Working(d, HeaderSerial(d), <<why>>, FALSE)] ELSE job
     /\ waiting' = IF atOnce THEN waiting ELSE waiting \cup {request}
     /\ UNCHANGED <<now, table, accepted>>

(* The body is there, or is not coming: the refusal is recorded, or the body judged. *)
BodyArrives(w, b) ==
  LET r == w.replica
      ok == w.verdict.status = 200
      serial == SerialOf(BodySerial(w.dev, b, ok), HeaderSerial(w.dev))
      todo == IF ok THEN RecordedOf(b) ELSE <<w.verdict>>
  IN /\ w \in waiting /\ job[r] = Idle
     /\ waiting' = waiting \ {w}
     /\ job' = [job EXCEPT ![r] = Working(w.dev, serial, todo, ok /\ Valid(b))]
     /\ UNCHANGED <<now, bucket, table, accepted, seen>>
-----------------------------------------------------------------------------
(* Recording a rejection: one transaction *)

Alike(row, serial, reason, d) ==
  row.reason = reason /\ row.serial = serial /\ row.address = Address[d]

(* Mutation: rows of any age count as the same failure. *)
Repeats_Ever(r) ==
  \E row \in rows : Alike(row, job[r].serial, Head(job[r].todo).reason, job[r].dev)

(* Mutation: an unknown serial number is equal to nothing, as with = in SQL. *)
Repeats_UnknownDiffers(r) ==
  \E row \in rows : /\ row.serial # NoSerial
                    /\ Alike(row, job[r].serial, Head(job[r].todo).reason, job[r].dev)
                    /\ row.at > now - DedupWindow

(* A committed row says the same, within the window. *)
Repeats(r) ==
  \E row \in rows : /\ Alike(row, job[r].serial, Head(job[r].todo).reason, job[r].dev)
                    /\ row.at > now - DedupWindow

(* INSERT ... WHERE NOT EXISTS, at the start of the transaction. *)
Insert(r) ==
  LET why == Head(job[r].todo)
      row == [id |-> lastId + 1, reason |-> why.reason, status |-> why.status,
              serial |-> job[r].serial, address |-> Address[job[r].dev], at |-> now, done |-> 0]
  IN /\ job[r].phase = "next" /\ job[r].todo # <<>>
     /\ Pass
     /\ lastId' = IF Repeats(r) THEN lastId ELSE lastId + 1
     /\ job' = [job EXCEPT ![r].phase = "inserted", ![r].at = now,
                           ![r].added = IF Repeats(r) THEN {} ELSE {row}]
     /\ UNCHANGED <<bucket, waiting, rows, accepted>>

Newer(set, row) == {x \in set : x.id > row.id}

(* Mutation: the row at the offset is kept back from the count. *)
Surplus_OffByOne(set) == {row \in set : Cardinality(Newer(set, row)) + 1 >= MaxRows}

(* The ids up to the one at OFFSET MaxRows, newest first. *)
Surplus(set) == {row \in set : Cardinality(Newer(set, row)) >= MaxRows}

Aged(set, t) == {row \in set : row.at < t - Retention}

(* One write in fifty also deletes what is past its age, and then what is over the cap. *)
Trim(r) ==
  LET there == rows \cup job[r].added
      old == Aged(there, job[r].at)
  IN /\ job[r].phase = "inserted"
     /\ job' = [job EXCEPT ![r].phase = "trimmed", ![r].doomed = old \cup Surplus(there \ old)]
     /\ UNCHANGED <<now, bucket, waiting, table, accepted, seen>>

(* The transaction is over, either way: the next record, the check-in itself, or nothing. *)
AfterRecord(r) == Working(job[r].dev, job[r].serial, Tail(job[r].todo), job[r].store)

Stamped(set) == {[row EXCEPT !.done = now] : row \in set}

Commit(r) ==
  /\ job[r].phase \in {"inserted", "trimmed"}
  /\ rows' = (rows \cup Stamped(job[r].added \ job[r].doomed)) \ job[r].doomed
  /\ job' = [job EXCEPT ![r] = AfterRecord(r)]
  /\ UNCHANGED <<now, bucket, waiting, lastId, accepted, seen>>

(* The database is away: the failure to record is logged, and the request goes on. *)
RecordFails(r) ==
  /\ job[r].phase \in {"next", "inserted", "trimmed"} /\ job[r].todo # <<>>
  /\ job' = [job EXCEPT ![r] = AfterRecord(r)]
  /\ UNCHANGED <<now, bucket, waiting, table, accepted, seen>>

-----------------------------------------------------------------------------
(* Storing the check-in: its last transaction, see Ingest for what comes before *)

BeginStore(r) ==
  /\ job[r].phase = "next" /\ job[r].todo = <<>>
  /\ Pass
  /\ job' = [job EXCEPT ![r].phase = "storing", ![r].at = now]
  /\ UNCHANGED <<bucket, waiting, table, accepted>>

(* Mutation: the watermark is overwritten with this transaction's time. *)
Latest_Overwrite(a, b) == b

Latest(a, b) == IF a > b THEN a ELSE b

Store(r) ==
  /\ job[r].phase = "storing"
  /\ accepted' = [accepted EXCEPT ![job[r].dev] = Latest(@, job[r].at)]
  /\ job' = [job EXCEPT ![r] = Idle]
  /\ UNCHANGED <<now, bucket, waiting, table, seen>>

(* It fails: rolled back, answered 500, and recorded as the server's fault. *)
StoreFails(r) ==
  /\ job[r].phase = "storing" \/ (job[r].phase = "next" /\ job[r].todo = <<>>)
  /\ job' = [job EXCEPT ![r] = Working(job[r].dev, HeaderSerial(job[r].dev),
                                        <<Rejection("internal_error", 500)>>, FALSE)]
  /\ UNCHANGED <<now, bucket, waiting, table, accepted, seen>>

-----------------------------------------------------------------------------
(* Around it *)

Tick ==
  /\ Pass
  /\ UNCHANGED <<bucket, waiting, job, table, accepted>>

(* A replica stops with what it was doing, and starts anew. *)
Restart(r) ==
  /\ bucket' = [bucket EXCEPT ![r] = [window |-> Window(now), counts |-> NoCounts]]
  /\ seen' = [seen EXCEPT ![r] = NoCounts]
  /\ waiting' = {w \in waiting : w.replica # r}
  /\ job' = [job EXCEPT ![r] = Idle]
  /\ UNCHANGED <<now, table, accepted>>

Next ==
  \/ \E r \in Replicas, d \in Devices : Arrive(r, d)
  \/ \E w \in waiting, b \in Bodies : BodyArrives(w, b)
  \/ \E r \in Replicas :
       Insert(r) \/ Trim(r) \/ Commit(r) \/ RecordFails(r) \/ BeginStore(r) \/ Store(r) \/ StoreFails(r)
       \/ Restart(r)
  \/ Tick

Spec == Init /\ [][Next]_vars

-----------------------------------------------------------------------------
(* The failures view *)

Retried(row) ==
  /\ row.status >= 400 /\ row.reason \in Transport
  /\ row.serial # NoSerial /\ accepted[row.serial] > row.at

Outcome(row) ==
  CASE row.status < 400 -> "accepted"
    [] Retried(row) -> "retried"
    [] OTHER -> "rejected"

-----------------------------------------------------------------------------
(* Properties *)

AuthReasons == {"invalid_passphrase", "invalid_internal_secret", "invalid_api_key",
                "invalid_bearer_token", "missing_credentials", "insufficient_scope"}
BodyReasons == {"upload_aborted", "body_unreadable", "empty_body", "malformed_json",
                "nul_in_payload", "invalid_payload", "empty_serial", "sentinel_serial",
                "short_serial", "hostname_serial", "serial_equals_hostname"}
Reasons == {Absent, "rate_limited", "internal_error"} \cup AuthReasons \cup BodyReasons
Rejections == [reason: Reasons, status: Nat]
Rows == [id: Nat, reason: Reasons, status: Nat, serial: Devices \cup {NoSerial},
         address: Addresses, at: Nat, done: Nat]
Jobs == [dev: Devices \cup {NoSerial}, serial: Devices \cup {NoSerial}, todo: Seq(Rejections),
         store: BOOLEAN, phase: {"idle", "next", "inserted", "trimmed", "storing"},
         at: Nat, added: SUBSET Rows, doomed: SUBSET Rows]

TypeOK ==
  /\ now \in Nat /\ lastId \in Nat
  /\ bucket \in [Replicas -> [window: Nat, counts: [Buckets -> Nat]]]
  /\ seen \in [Replicas -> [Buckets -> Nat]]
  /\ waiting \subseteq [dev: Devices, replica: Replicas, verdict: Rejections]
  /\ job \in [Replicas -> Jobs]
  /\ rows \subseteq Rows
  /\ accepted \in [Devices -> Nat]

(***************************************************************************)
(* The same failure is in the table twice within the dedup window only     *)
(* when the second transaction began before the first had committed: the   *)
(* guard is a query, not a constraint.                                     *)
(***************************************************************************)
OnlyRacersTwice ==
  \A a, b \in rows :
    /\ a.reason = b.reason /\ a.serial = b.serial /\ a.address = b.address
    /\ a.at < b.at /\ a.at > b.at - DedupWindow
    => b.at < a.done

(***************************************************************************)
(* However many transactions trim at a time, a row is deleted only when    *)
(* its age is over, or MaxRows newer rows stay.                            *)
(***************************************************************************)
NewestSurvive ==
  [][\A row \in rows \ rows' :
       row \in Aged(rows, now) \/ Cardinality(Newer(rows', row)) >= MaxRows]_vars

(* What a rejection at time t collapses into, and a row of its own. *)
Recent(row, t) == row.at >= t \/ row.at > t - DedupWindow

(***************************************************************************)
(* A rejection whose recording committed is in the table, itself or as the *)
(* same failure within the window, unless MaxRows rows as recent took its  *)
(* place, or the recording took so long that what it collapsed into is     *)
(* past its age.  Failures that name no device are told apart by address   *)
(* and reason only: of two such devices at one address, one row is left.   *)
(***************************************************************************)
RejectionLeavesARow ==
  [][\A r \in Replicas : Commit(r) =>
       \/ \E row \in rows' : /\ Alike(row, job[r].serial, Head(job[r].todo).reason, job[r].dev)
                             /\ Recent(row, job[r].at)
       \/ Cardinality({row \in rows' : Recent(row, job[r].at)}) >= MaxRows
       \/ now - Retention > job[r].at - DedupWindow]_vars

(***************************************************************************)
(* A dropped upload that is shown as retried is never shown as rejected    *)
(* again, in whatever order check-ins of the device begin and commit.      *)
(***************************************************************************)
NeverRejectedAgain ==
  [][\A row \in rows \cap rows' : Outcome(row) = "retried" => (Outcome(row) = "retried")']_vars

(***************************************************************************)
(* A check-in is throttled exactly when more requests than its limit came  *)
(* from its device or its address to that replica in this minute, counting *)
(* the throttled ones: the turn of the minute forgets nothing and keeps    *)
(* nothing.                                                                *)
(***************************************************************************)
FairLimit ==
  [][\A r \in Replicas, d \in Devices : Arrive(r, d) =>
       ((job'[r].todo = <<Rejection("rate_limited", 429)>>) <=> Over(seen'[r], d))]_vars
=============================================================================
