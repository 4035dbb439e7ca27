-------------------------- MODULE FrontDoorProofs --------------------------
(***************************************************************************)
(* What holds of FrontDoor for any devices, replicas, addresses, limits,   *)
(* windows and bounds, and for any bodies and credentials.                 *)
(***************************************************************************)
EXTENDS FrontDoor, FiniteSetTheorems, WellFoundedInduction, TLAPS

(* A replica counts in a minute that is here or over, and in this one what came in. *)
Counting ==
  \A r \in Replicas :
    /\ bucket[r].window <= Window(now)
    /\ IF bucket[r].window = Window(now) THEN bucket[r].counts = seen[r] ELSE seen[r] = NoCounts

(* What a transaction knows: who it is about, when it began, and its own row. *)
Recording ==
  \A r \in Replicas :
    /\ job[r].phase # "idle" => job[r].dev \in Devices
    /\ job[r].phase \notin {"inserted", "trimmed"} => job[r].added = {}
    /\ job[r].phase # "trimmed" => job[r].doomed = {}
    /\ job[r].phase \in {"inserted", "trimmed"} => job[r].todo # <<>> /\ job[r].at < now
    /\ \A x \in job[r].added :
         /\ x.at = job[r].at
         /\ Alike(x, job[r].serial, Head(job[r].todo).reason, job[r].dev)
         /\ job[r].added = {x}

(* The rows there are anywhere: committed, to be committed, or to be deleted. *)
Known == rows \cup UNION {job[r].added \cup job[r].doomed : r \in Replicas}

(* An id is one row's, and ids and times run the same way. *)
Ordered ==
  /\ \A x \in Known : x.id <= lastId /\ x.at < now
  /\ \A x, y \in Known : x.id = y.id => x = y
  /\ \A x, y \in Known : x.id < y.id => x.at < y.at

(* What is not committed nobody else has seen. *)
Private ==
  \A r \in Replicas : \A x \in job[r].added :
    x \notin rows /\ \A s \in Replicas : x \in job[s].added \cup job[s].doomed => s = r

(* What is committed is finite, and newer than the same failure was when that began. *)
Raced ==
  /\ IsFiniteSet(rows)
  /\ \A r \in Replicas : \A b \in job[r].added : \A a \in rows :
       /\ a.reason = b.reason /\ a.serial = b.serial /\ a.address = b.address
       /\ a.at < b.at /\ a.at > b.at - DedupWindow
       => b.at < a.done

Old(row) == row.at < now - Retention
Above(set, c) == {x \in set : x.id > c}

(* What a transaction is going to delete is old, or not among the newest of what it leaves. *)
Sound(r) ==
  \/ \A y \in job[r].doomed : Old(y)
  \/ \E c \in Nat :
       /\ \A y \in job[r].doomed : Old(y) \/ y.id <= c
       /\ Cardinality(Above((rows \cup job[r].added) \ job[r].doomed, c)) >= MaxRows

TrimsSoundly == \A r \in Replicas : Sound(r)

(* What a collapsed rejection leaves behind. *)
Answered(set, r) ==
  \/ \E row \in set : /\ Alike(row, job[r].serial, Head(job[r].todo).reason, job[r].dev)
                      /\ Recent(row, job[r].at)
  \/ Cardinality({row \in set : Recent(row, job[r].at)}) >= MaxRows
  \/ now - Retention > job[r].at - DedupWindow

Collapsed ==
  \A r \in Replicas :
    job[r].phase \in {"inserted", "trimmed"} /\ job[r].added = {} => Answered(rows, r)

IInv ==
  /\ TypeOK /\ Counting /\ Recording /\ Ordered /\ Private /\ Raced
  /\ OnlyRacersTwice /\ TrimsSoundly /\ Collapsed

USE DoorAssumption, CeilingAssumption

-----------------------------------------------------------------------------
(* Numbers. *)

LEMMA Least ==
  ASSUME NEW T \in SUBSET Nat, T # {}
  PROVE  \E x \in T : \A y \in T : x <= y
<1>1. PICK x \in T : \A y \in T : ~(<<y, x>> \in OpToRel(<, Nat))
  BY NatLessThanWellFounded, WFMin
<1>2. ASSUME NEW y \in T PROVE x <= y
  <2>1. <<y, x>> \in Nat \X Nat
    BY <1>1
  <2>2. y < x => <<y, x>> \in {ss \in Nat \X Nat : ss[1] < ss[2]}
    BY <2>1
  <2>3. y < x => <<y, x>> \in OpToRel(<, Nat)
    BY <2>2 DEF OpToRel
  <2>4. ~(y < x)
    BY <2>3, <1>1, Zenon
  <2> QED BY <2>4
<1> QED BY <1>1, <1>2

LEMMA WindowGrows ==
  ASSUME NEW t \in Nat
  PROVE  Window(t) \in Nat /\ Window(t + 1) \in Nat /\ Window(t) <= Window(t + 1)
  BY DEF Window

-----------------------------------------------------------------------------
(* Types: what is recorded, who is let in, and what a job becomes. *)

LEMMA FirstFailedType ==
  ASSUME NEW n \in Nat, NEW checks, DOMAIN checks = 1 .. n,
         \A i \in 1 .. n : checks[i].reason \in BodyReasons /\ checks[i].status \in Nat
  PROVE  FirstFailed(checks) \in Seq(Rejections)
<1> SUFFICES ASSUME ~Passed(checks) PROVE FirstFailed(checks) \in Seq(Rejections)
  BY DEF FirstFailed
<1> DEFINE failed == {i \in 1 .. n : ~checks[i].passes}
<1>1. PICK least \in failed : \A j \in failed : least <= j
  <2>1. \E i \in 1 .. n : ~checks[i].passes
    BY DEF Passed
  <2>2. failed # {} /\ failed \in SUBSET Nat
    BY <2>1
  <2> HIDE DEF failed
  <2> QED BY <2>2, Least
<1>2. least \in DOMAIN checks /\ ~checks[least].passes /\ \A j \in 1 .. (least - 1) : checks[j].passes
  BY <1>1
<1> DEFINE first == CHOOSE i \in DOMAIN checks :
                      ~checks[i].passes /\ \A j \in 1 .. (i - 1) : checks[j].passes
<1>3. first \in 1 .. n
  BY <1>2
<1>4. FirstFailed(checks) = <<[reason |-> checks[first].reason, status |-> checks[first].status]>>
  BY DEF FirstFailed
<1> HIDE DEF first
<1>5. [reason |-> checks[first].reason, status |-> checks[first].status] \in Rejections
  BY <1>3 DEF Rejections, Reasons
<1> QED BY <1>4, <1>5

LEMMA RecordedType ==
  ASSUME NEW b \in Bodies
  PROVE  RecordedOf(b) \in Seq(Rejections)
<1>1. FirstFailed(ReadingChecks(b)) \in Seq(Rejections)
  <2> DEFINE checks == ReadingChecks(b)
  <2>1. DOMAIN checks = 1 .. 5
    BY DEF ReadingChecks
  <2>2. \A i \in 1 .. 5 : checks[i].reason \in BodyReasons /\ checks[i].status \in Nat
    BY DEF ReadingChecks, Check, BodyReasons
  <2> HIDE DEF checks
  <2>3. FirstFailed(checks) \in Seq(Rejections)
    BY <2>1, <2>2, FirstFailedType, Zenon
  <2> QED BY <2>3 DEF checks
<1>2. FirstFailed(ContentChecks(b)) \in Seq(Rejections)
  <2> DEFINE checks == ContentChecks(b)
  <2>1. DOMAIN checks = 1 .. 6
    BY DEF ContentChecks
  <2>2. \A i \in 1 .. 6 : checks[i].reason \in BodyReasons /\ checks[i].status \in Nat
    BY DEF ContentChecks, Check, BodyReasons
  <2> HIDE DEF checks
  <2>3. FirstFailed(checks) \in Seq(Rejections)
    BY <2>1, <2>2, FirstFailedType, Zenon
  <2> QED BY <2>3 DEF checks
<1>3. [reason |-> "nul_in_payload", status |-> 200] \in Rejections
  BY DEF Rejections, Reasons, BodyReasons
<1> DEFINE nuls == IF b.nul THEN <<[reason |-> "nul_in_payload", status |-> 200]>> ELSE <<>>
<1>4. nuls \in Seq(Rejections)
  BY <1>3
<1>5. nuls \o FirstFailed(ContentChecks(b)) \in Seq(Rejections)
  <2> HIDE DEF nuls
  <2> QED BY <1>2, <1>4
<1> QED BY <1>1, <1>5 DEF RecordedOf

(* What a refusal, or an admission, says of itself. *)
Plain(verdict) == verdict.status \in Nat /\ verdict.reason \in {Absent} \cup AuthReasons

LEMMA PrincipalPlain == \A method, scopes : Plain(Principal(method, scopes))
  BY DEF Principal, Plain

LEMMA RefusedPlain ==
  ASSUME NEW status \in Nat, NEW reason \in {Absent} \cup AuthReasons
  PROVE  Plain(Refused(status, reason))
  BY DEF Refused, Plain

LEMMA AuthorizePlain ==
  ASSUME NEW d \in Devices
  PROVE  Plain(Authorize(Presents[d], Config, "POST", FALSE))
<1> DEFINE c == Presents[d]
<1> HIDE DEF c
<1>1. /\ Plain(Refused(500, Absent))
      /\ \A reason \in AuthReasons : Plain(Refused(401, reason)) /\ Plain(Refused(403, reason))
  BY RefusedPlain
<1>2. {"invalid_passphrase", "invalid_internal_secret", "invalid_api_key", "invalid_bearer_token",
       "missing_credentials", "insufficient_scope"} \subseteq AuthReasons
  BY DEF AuthReasons
<1>3. Plain(ByPassphrase(c, Config))
  BY <1>1, <1>2, PrincipalPlain DEF ByPassphrase
<1>4. ASSUME NEW standing, NEW method, NEW scopes, NEW reason \in AuthReasons
      PROVE  Plain(OrPassphrase(c, Config, standing, method, scopes, reason))
  BY <1>1, <1>3, PrincipalPlain, ZenonT(40) DEF OrPassphrase
<1>5. Plain(ByInternal(c, Config))
  BY <1>1, <1>2, PrincipalPlain, ZenonT(40) DEF ByInternal
<1>6. Plain(Identify(c, Config))
  BY <1>1, <1>2, <1>3, <1>4, <1>5, PrincipalPlain, ZenonT(40) DEF Identify
<1> QED BY <1>1, <1>2, <1>6, ZenonT(40) DEF Authorize, c

(* A job that has nothing of its own in the table. *)
Fresh(j) ==
  /\ j \in Jobs /\ j.added = {} /\ j.doomed = {} /\ j.phase \in {"idle", "next", "storing"}
  /\ j.phase # "idle" => j.dev \in Devices

LEMMA WorkingFresh ==
  ASSUME NEW d \in Devices, NEW serial \in Devices \cup {NoSerial},
         NEW todo \in Seq(Rejections), NEW store \in BOOLEAN
  PROVE  Fresh(Working(d, serial, todo, store)) /\ Working(d, serial, todo, store).todo = todo
  BY DEF Working, Idle, Jobs, Fresh

(* Steps that leave the table alone, with what they make of the job of a replica. *)
NewJob(r, j) == job' = [job EXCEPT ![r] = j] /\ Fresh(j)

LEMMA PassSteps ==
  ASSUME TypeOK, Counting, Pass
  PROVE  /\ now' \in Nat /\ now' = now + 1 /\ seen' \in [Replicas -> [Buckets -> Nat]]
         /\ bucket' = bucket => Counting'
<1>1. now' = now + 1 /\ now \in Nat /\ now' \in Nat
  BY DEF Pass, TypeOK
<1>2. Window(now) \in Nat /\ Window(now') \in Nat /\ Window(now) <= Window(now')
  BY <1>1, WindowGrows
<1>3. NoCounts \in [Buckets -> Nat]
  BY DEF NoCounts
<1>4. seen' = IF Window(now') = Window(now) THEN seen ELSE [r \in Replicas |-> NoCounts]
  BY <1>1 DEF Pass
<1>5. seen' \in [Replicas -> [Buckets -> Nat]]
  BY <1>3, <1>4 DEF TypeOK
<1>6. ASSUME bucket' = bucket, NEW r \in Replicas
      PROVE  /\ bucket'[r].window <= Window(now')
             /\ IF bucket'[r].window = Window(now') THEN bucket'[r].counts = seen'[r] ELSE seen'[r] = NoCounts
  <2>1. bucket[r].window \in Nat
    BY DEF TypeOK
  <2>2. CASE Window(now') = Window(now)
    BY <1>4, <1>6, <2>2 DEF Counting
  <2>3. CASE Window(now') # Window(now)
    <3>1. bucket'[r].window < Window(now')
      BY <1>2, <1>6, <2>1, <2>3 DEF Counting
    <3>2. seen'[r] = NoCounts
      BY <1>4, <2>3
    <3> QED BY <1>2, <1>6, <2>1, <3>1, <3>2
  <2> QED BY <2>2, <2>3
<1> QED BY <1>1, <1>5, <1>6 DEF Counting

LEMMA PlusType ==
  ASSUME NEW counts \in [Buckets -> Nat], NEW bs
  PROVE  Plus(counts, bs) \in [Buckets -> Nat]
  BY DEF Plus

LEMMA AllowIs ==
  ASSUME TypeOK, Counting, NEW r \in Replicas, NEW d
  PROVE  /\ Allow(r, d).window = Window(now) /\ Window(now) \in Nat
         /\ Allow(r, d).counts = Plus(seen[r], BucketsOf(d))
         /\ Allow(r, d) \in [window: Nat, counts: [Buckets -> Nat]]
<1>1. Window(now) \in Nat
  BY WindowGrows DEF TypeOK
<1>2. seen[r] \in [Buckets -> Nat]
  BY DEF TypeOK
<1>3. Allow(r, d) = [window |-> Window(now), counts |-> Plus(seen[r], BucketsOf(d))]
  BY DEF Allow, Counting
<1> QED BY <1>1, <1>2, <1>3, PlusType

LEMMA ArriveStep ==
  ASSUME TypeOK, Counting, NEW r \in Replicas, NEW d \in Devices, Arrive(r, d)
  PROVE  /\ TypeOK' /\ Counting' /\ UNCHANGED <<now, rows, lastId, accepted>>
         /\ job' = job \/ \E j : NewJob(r, j)
         /\ (job'[r].todo = <<Rejection("rate_limited", 429)>>) <=> Over(seen'[r], d)
<1> DEFINE verdict == Authorize(Presents[d], Config, "POST", FALSE)
           over == Over(Allow(r, d).counts, d)
           why == IF over THEN Rejection("rate_limited", 429) ELSE Rejection("internal_error", verdict.status)
           atOnce == over \/ (verdict.status # 200 /\ ~AuthRecorded(verdict, TRUE))
           request == [dev |-> d, replica |-> r, verdict |-> Rejection(verdict.reason, verdict.status)]
           j == Working(d, HeaderSerial(d), <<why>>, FALSE)
<1>1. /\ job[r] = Idle /\ UNCHANGED <<now, rows, lastId, accepted>>
      /\ bucket' = [bucket EXCEPT ![r] = Allow(r, d)]
      /\ seen' = [seen EXCEPT ![r] = Plus(@, BucketsOf(d))]
      /\ job' = IF atOnce THEN [job EXCEPT ![r] = j] ELSE job
      /\ waiting' = IF atOnce THEN waiting ELSE waiting \cup {request}
  BY DEF Arrive, table
<1>2. Plain(verdict)
  BY AuthorizePlain
<1>3. (over => atOnce) /\ (over <=> Over(Allow(r, d).counts, d))
  OBVIOUS
<1> HIDE DEF verdict, over, atOnce
<1>4. Rejection(verdict.reason, verdict.status) \in Rejections
  BY <1>2 DEF Plain, Rejection, Rejections, Reasons
<1>5. why \in Rejections /\ ((why = Rejection("rate_limited", 429)) <=> over)
  <2>1. Rejection("rate_limited", 429) \in Rejections
    BY DEF Rejection, Rejections, Reasons
  <2>2. Rejection("internal_error", verdict.status) \in Rejections
    BY <1>2 DEF Plain, Rejection, Rejections, Reasons
  <2>3. Rejection("internal_error", verdict.status) # Rejection("rate_limited", 429)
    BY DEF Rejection
  <2> QED BY <2>1, <2>2, <2>3
<1> HIDE DEF why
<1>6. Fresh(j) /\ j.todo = <<why>>
  <2>1. HeaderSerial(d) \in Devices \cup {NoSerial}
    BY DEF HeaderSerial
  <2>2. <<why>> \in Seq(Rejections)
    BY <1>5
  <2> QED BY <2>1, <2>2, WorkingFresh
<1> HIDE DEF j
<1>7. job' = job \/ NewJob(r, j)
  BY <1>1, <1>6 DEF NewJob
<1>8. job' \in [Replicas -> Jobs] /\ job'[r].todo = IF atOnce THEN <<why>> ELSE <<>>
  <2>1. job[r].todo = <<>>
    BY <1>1 DEF Idle
  <2> QED BY <1>1, <1>6, <2>1 DEF TypeOK, Fresh
<1>9. /\ Allow(r, d).window = Window(now) /\ Window(now) \in Nat
      /\ Allow(r, d).counts = Plus(seen[r], BucketsOf(d))
      /\ Allow(r, d) \in [window: Nat, counts: [Buckets -> Nat]]
  BY AllowIs
<1>10. seen'[r] = Allow(r, d).counts
  BY <1>1, <1>9 DEF TypeOK
<1>11. TypeOK'
  <2>1. bucket' \in [Replicas -> [window: Nat, counts: [Buckets -> Nat]]]
    BY <1>1, <1>9 DEF TypeOK
  <2>2. seen' \in [Replicas -> [Buckets -> Nat]]
    BY <1>1, PlusType DEF TypeOK
  <2>3. waiting' \subseteq [dev: Devices, replica: Replicas, verdict: Rejections]
    BY <1>1, <1>4 DEF TypeOK
  <2> QED BY <1>1, <1>8, <2>1, <2>2, <2>3 DEF TypeOK
<1>12. Counting'
  BY <1>1, <1>9, <1>10 DEF Counting, TypeOK
<1>13. (job'[r].todo = <<Rejection("rate_limited", 429)>>) <=> Over(seen'[r], d)
  BY <1>3, <1>5, <1>8, <1>10
<1> QED BY <1>1, <1>7, <1>11, <1>12, <1>13

LEMMA AfterRecordFresh ==
  ASSUME TypeOK, Recording, NEW r \in Replicas, job[r].phase # "idle", job[r].todo # <<>>
  PROVE  Fresh(AfterRecord(r))
<1>1. job[r] \in Jobs /\ job[r].dev \in Devices
  BY DEF TypeOK, Recording
<1>2. job[r].serial \in Devices \cup {NoSerial} /\ job[r].todo \in Seq(Rejections) /\ job[r].store \in BOOLEAN
  BY <1>1 DEF Jobs
<1>3. Tail(job[r].todo) \in Seq(Rejections)
  BY <1>2
<1> QED BY <1>1, <1>2, <1>3, WorkingFresh DEF AfterRecord

LEMMA BodyArrivesStep ==
  ASSUME TypeOK, NEW w \in waiting, NEW b \in Bodies, BodyArrives(w, b)
  PROVE  /\ TypeOK' /\ UNCHANGED <<now, bucket, rows, lastId, accepted, seen>>
         /\ \E r \in Replicas : \E j : NewJob(r, j)
<1> DEFINE ok == w.verdict.status = 200
           serial == SerialOf(BodySerial(w.dev, b, ok), HeaderSerial(w.dev))
           todo == IF ok THEN RecordedOf(b) ELSE <<w.verdict>>
           store == ok /\ Valid(b)
           j == Working(w.dev, serial, todo, store)
<1>1. w.dev \in Devices /\ w.replica \in Replicas /\ w.verdict \in Rejections
  BY DEF TypeOK
<1>2. serial \in Devices \cup {NoSerial}
  BY <1>1 DEF SerialOf, BodySerial, HeaderSerial
<1>3. todo \in Seq(Rejections)
  BY <1>1, RecordedType
<1>4. /\ waiting' = waiting \ {w}
      /\ job' = [job EXCEPT ![w.replica] = j]
      /\ UNCHANGED <<now, bucket, rows, lastId, accepted, seen>>
  BY DEF BodyArrives, table
<1> HIDE DEF serial, todo
<1>5. store \in BOOLEAN
  OBVIOUS
<1> HIDE DEF store
<1>6. Fresh(j)
  BY <1>1, <1>2, <1>3, <1>5, WorkingFresh
<1> HIDE DEF j
<1>7. TypeOK'
  BY <1>1, <1>4, <1>6 DEF TypeOK, Fresh
<1> QED BY <1>1, <1>4, <1>6, <1>7 DEF NewJob

LEMMA RecordFailsStep ==
  ASSUME TypeOK, Recording, NEW r \in Replicas, RecordFails(r)
  PROVE  /\ TypeOK' /\ UNCHANGED <<now, bucket, rows, lastId, accepted, seen>>
         /\ \E j : NewJob(r, j)
<1>1. Fresh(AfterRecord(r))
  BY AfterRecordFresh DEF RecordFails
<1>2. /\ job' = [job EXCEPT ![r] = AfterRecord(r)]
      /\ UNCHANGED <<now, bucket, waiting, rows, lastId, accepted, seen>>
  BY DEF RecordFails, table
<1> QED BY <1>1, <1>2 DEF TypeOK, Fresh, NewJob

LEMMA BeginStoreStep ==
  ASSUME TypeOK, Counting, Recording, NEW r \in Replicas, BeginStore(r)
  PROVE  /\ TypeOK' /\ Counting' /\ now' = now + 1 /\ UNCHANGED <<rows, lastId, accepted>>
         /\ \E j : NewJob(r, j)
<1> DEFINE j == [job[r] EXCEPT !.phase = "storing", !.at = now]
<1>1. /\ job[r].phase = "next"
      /\ job' = [job EXCEPT ![r] = j]
      /\ UNCHANGED <<bucket, waiting, rows, lastId, accepted>>
  BY DEF BeginStore, table
<1>2. now' \in Nat /\ now' = now + 1 /\ seen' \in [Replicas -> [Buckets -> Nat]] /\ Counting'
  BY <1>1, PassSteps DEF BeginStore
<1>3. /\ job[r] \in Jobs /\ now \in Nat /\ job[r].dev \in Devices
      /\ job[r].added = {} /\ job[r].doomed = {}
  BY <1>1 DEF TypeOK, Recording
<1>4. j \in Jobs /\ j.added = {} /\ j.doomed = {} /\ j.phase = "storing" /\ j.dev \in Devices
  BY <1>3 DEF Jobs
<1> HIDE DEF j
<1>5. Fresh(j)
  BY <1>4 DEF Fresh
<1> QED BY <1>1, <1>2, <1>5 DEF TypeOK, Fresh, NewJob

LEMMA StoreStep ==
  ASSUME TypeOK, Recording, NEW r \in Replicas, Store(r)
  PROVE  /\ TypeOK' /\ UNCHANGED <<now, bucket, rows, lastId, seen>>
         /\ \A d \in Devices : accepted[d] <= accepted'[d]
         /\ \E j : NewJob(r, j)
<1>1. /\ job[r].phase = "storing"
      /\ accepted' = [accepted EXCEPT ![job[r].dev] = Latest(@, job[r].at)]
      /\ job' = [job EXCEPT ![r] = Idle]
      /\ UNCHANGED <<now, bucket, waiting, rows, lastId, seen>>
  BY DEF Store, table
<1>2. Fresh(Idle)
  BY DEF Fresh, Idle, Jobs
<1>3. job[r].at \in Nat /\ accepted \in [Devices -> Nat] /\ job[r].dev \in Devices
  BY <1>1 DEF TypeOK, Jobs, Recording
<1>4. accepted' \in [Devices -> Nat] /\ \A d \in Devices : accepted[d] <= accepted'[d]
  BY <1>1, <1>3 DEF Latest
<1> QED BY <1>1, <1>2, <1>4 DEF TypeOK, Fresh, NewJob

LEMMA StoreFailsStep ==
  ASSUME TypeOK, Recording, NEW r \in Replicas, StoreFails(r)
  PROVE  /\ TypeOK' /\ UNCHANGED <<now, bucket, rows, lastId, accepted, seen>>
         /\ \E j : NewJob(r, j)
<1> DEFINE todo == <<Rejection("internal_error", 500)>>
           j == Working(job[r].dev, HeaderSerial(job[r].dev), todo, FALSE)
<1>1. /\ job' = [job EXCEPT ![r] = j]
      /\ UNCHANGED <<now, bucket, waiting, rows, lastId, accepted, seen>>
  BY DEF StoreFails, table
<1>2. job[r].dev \in Devices
  BY DEF StoreFails, Recording
<1>3. HeaderSerial(job[r].dev) \in Devices \cup {NoSerial}
  BY <1>2 DEF HeaderSerial
<1>4. todo \in Seq(Rejections)
  BY DEF Rejection, Rejections, Reasons
<1> HIDE DEF todo
<1>5. Fresh(j)
  BY <1>2, <1>3, <1>4, WorkingFresh
<1> HIDE DEF j
<1> QED BY <1>1, <1>5 DEF TypeOK, Fresh, NewJob

LEMMA RestartStep ==
  ASSUME TypeOK, Counting, NEW r \in Replicas, Restart(r)
  PROVE  /\ TypeOK' /\ Counting' /\ UNCHANGED <<now, rows, lastId, accepted>>
         /\ \E j : NewJob(r, j)
<1>1. /\ bucket' = [bucket EXCEPT ![r] = [window |-> Window(now), counts |-> NoCounts]]
      /\ seen' = [seen EXCEPT ![r] = NoCounts]
      /\ waiting' \subseteq waiting
      /\ job' = [job EXCEPT ![r] = Idle]
      /\ UNCHANGED <<now, rows, lastId, accepted>>
  BY DEF Restart, table
<1>2. Fresh(Idle)
  BY DEF Fresh, Idle, Jobs
<1>3. Window(now) \in Nat /\ NoCounts \in [Buckets -> Nat]
  BY WindowGrows DEF TypeOK, NoCounts
<1>4. [window |-> Window(now), counts |-> NoCounts] \in [window: Nat, counts: [Buckets -> Nat]]
  BY <1>3
<1>5. Counting'
  BY <1>1, <1>3 DEF Counting, TypeOK
<1> QED BY <1>1, <1>2, <1>3, <1>4, <1>5 DEF TypeOK, Fresh, NewJob

LEMMA InsertStep ==
  ASSUME TypeOK, Counting, Recording, NEW r \in Replicas, Insert(r)
  PROVE  TypeOK' /\ Counting' /\ Recording' /\ now' = now + 1
<1> DEFINE why == Head(job[r].todo)
           row == [id |-> lastId + 1, reason |-> why.reason, status |-> why.status,
                   serial |-> job[r].serial, address |-> Address[job[r].dev], at |-> now, done |-> 0]
           j == [job[r] EXCEPT !.phase = "inserted", !.at = now, !.added = IF Repeats(r) THEN {} ELSE {row}]
<1>1. /\ job[r].phase = "next" /\ job[r].todo # <<>>
      /\ lastId' \in {lastId, lastId + 1}
      /\ job' = [job EXCEPT ![r] = j]
      /\ UNCHANGED <<bucket, waiting, rows, accepted>>
  BY DEF Insert
<1>2. now' \in Nat /\ now' = now + 1 /\ seen' \in [Replicas -> [Buckets -> Nat]] /\ Counting'
  BY <1>1, PassSteps DEF Insert
<1>3. job[r] \in Jobs /\ job[r].dev \in Devices /\ job[r].doomed = {} /\ now \in Nat /\ lastId \in Nat
  BY <1>1 DEF TypeOK, Recording
<1>4. why \in Rejections
  BY <1>1, <1>3 DEF Jobs
<1> HIDE DEF why
<1>5. row \in Rows
  BY <1>3, <1>4 DEF Jobs, Rows, Rejections
<1>6. Alike(row, job[r].serial, why.reason, job[r].dev) /\ row.at = now
  BY DEF Alike
<1> HIDE DEF row
<1>7. /\ j \in Jobs /\ j.added = (IF Repeats(r) THEN {} ELSE {row}) /\ j.doomed = {}
      /\ j.phase = "inserted" /\ j.at = now /\ j.dev = job[r].dev /\ j.todo = job[r].todo /\ j.serial = job[r].serial
  BY <1>3, <1>5 DEF Jobs
<1> HIDE DEF j
<1>8. TypeOK'
  <2>1. job' \in [Replicas -> Jobs] /\ lastId' \in Nat
    BY <1>1, <1>3, <1>7 DEF TypeOK
  <2> QED BY <1>1, <1>2, <2>1 DEF TypeOK
<1>9. \A s \in Replicas : job'[s] = IF s = r THEN j ELSE job[s]
  BY <1>1 DEF TypeOK
<1>10. Recording'
  BY <1>1, <1>2, <1>3, <1>6, <1>7, <1>9 DEF Recording, Alike, why, TypeOK, Jobs
<1> QED BY <1>2, <1>8, <1>10

LEMMA TrimStepTyped ==
  ASSUME TypeOK, Counting, Recording, NEW r \in Replicas, Trim(r)
  PROVE  TypeOK' /\ Counting' /\ Recording'
<1> DEFINE there == rows \cup job[r].added
           old == Aged(there, job[r].at)
           doomed == old \cup Surplus(there \ old)
           j == [job[r] EXCEPT !.phase = "trimmed", !.doomed = doomed]
<1>1. /\ job[r].phase = "inserted"
      /\ job' = [job EXCEPT ![r] = j]
      /\ UNCHANGED <<now, bucket, waiting, rows, lastId, accepted, seen>>
  BY DEF Trim, table
<1>2. job[r] \in Jobs /\ rows \subseteq Rows
  BY DEF TypeOK
<1>3. doomed \subseteq there
  BY DEF Aged, Surplus
<1>4. there \subseteq Rows
  BY <1>2 DEF Jobs
<1> HIDE DEF doomed, there
<1>5. /\ j \in Jobs /\ j.phase = "trimmed" /\ j.dev = job[r].dev /\ j.serial = job[r].serial
      /\ j.todo = job[r].todo /\ j.at = job[r].at /\ j.added = job[r].added
  BY <1>2, <1>3, <1>4 DEF Jobs
<1> HIDE DEF j
<1>6. \A s \in Replicas : job'[s] = IF s = r THEN j ELSE job[s]
  BY <1>1 DEF TypeOK
<1>7. TypeOK'
  BY <1>1, <1>5 DEF TypeOK
<1>8. Counting'
  BY <1>1 DEF Counting
<1>9. Recording'
  BY <1>1, <1>5, <1>6 DEF Recording, Alike
<1> QED BY <1>7, <1>8, <1>9

LEMMA CommitStepTyped ==
  ASSUME TypeOK, Counting, Recording, NEW r \in Replicas, Commit(r)
  PROVE  /\ TypeOK' /\ Counting' /\ UNCHANGED <<now, lastId, accepted, seen>>
         /\ \E j : NewJob(r, j)
<1>1. /\ job[r].phase \in {"inserted", "trimmed"}
      /\ rows' = (rows \cup Stamped(job[r].added \ job[r].doomed)) \ job[r].doomed
      /\ job' = [job EXCEPT ![r] = AfterRecord(r)]
      /\ UNCHANGED <<now, bucket, waiting, lastId, accepted, seen>>
  BY DEF Commit
<1>2. Fresh(AfterRecord(r))
  BY <1>1, AfterRecordFresh DEF Recording
<1>3. rows' \subseteq Rows
  <2>1. \A x \in job[r].added : [x EXCEPT !.done = now] \in Rows
    <3>1. job[r].added \subseteq Rows /\ now \in Nat
      BY DEF TypeOK, Jobs
    <3> QED BY <3>1 DEF Rows
  <2> QED BY <1>1, <2>1 DEF TypeOK, Stamped
<1>4. TypeOK'
  BY <1>1, <1>2, <1>3 DEF TypeOK, Fresh
<1> QED BY <1>1, <1>2, <1>4 DEF NewJob, Counting

-----------------------------------------------------------------------------
(* The table: a step that leaves it alone, and lets no row in on it. *)

LEMMA QuietStep ==
  ASSUME IInv, TypeOK', now' \in {now, now + 1}, UNCHANGED <<rows, lastId>>,
         job' = job \/ \E r \in Replicas : \E j : NewJob(r, j)
  PROVE  /\ Recording' /\ Ordered' /\ Private' /\ Raced' /\ OnlyRacersTwice'
         /\ TrimsSoundly' /\ Collapsed'
<1>1. \A s \in Replicas : job'[s] = job[s] \/ Fresh(job'[s])
  BY DEF IInv, TypeOK, NewJob
<1>2. now \in Nat /\ now <= now' /\ now' \in Nat
  BY DEF IInv, TypeOK
<1>3. Known' \subseteq Known
  BY <1>1 DEF Known, Fresh
<1>4. \A x \in Known : x.at \in Nat /\ x.id \in Nat
  BY DEF Known, IInv, TypeOK, Jobs, Rows
<1>5. \A s \in Replicas : job[s].at \in Nat /\ job[s].doomed \subseteq Known
  BY DEF IInv, TypeOK, Jobs, Known
<1>6. Recording'
  BY <1>1, <1>2, <1>5 DEF IInv, Recording, Fresh, Alike
<1>7. Ordered'
  BY <1>2, <1>3, <1>4 DEF IInv, Ordered
<1>8. Private'
  BY <1>1 DEF IInv, Private, Fresh
<1>9. Raced' /\ OnlyRacersTwice'
  BY <1>1 DEF IInv, Raced, OnlyRacersTwice, Fresh
<1>10. TrimsSoundly'
  <2> SUFFICES ASSUME NEW s \in Replicas PROVE Sound(s)'
    BY DEF TrimsSoundly
  <2>1. CASE Fresh(job'[s])
    BY <2>1 DEF Sound, Fresh
  <2>2. CASE job'[s] = job[s]
    <3>1. Sound(s)
      BY DEF IInv, TrimsSoundly
    <3>2. \A y \in job[s].doomed : y.at < now - Retention => y.at < now' - Retention
      BY <1>2, <1>4, <1>5
    <3> QED BY <2>2, <3>1, <3>2 DEF Sound, Old
  <2> QED BY <1>1, <2>1, <2>2
<1>11. Collapsed'
  <2> SUFFICES ASSUME NEW s \in Replicas, job'[s].phase \in {"inserted", "trimmed"}, job'[s].added = {}
               PROVE  Answered(rows, s)'
    BY DEF Collapsed
  <2>1. job'[s] = job[s]
    BY <1>1 DEF Fresh
  <2>2. Answered(rows, s)
    BY <2>1 DEF IInv, Collapsed
  <2>3. now - Retention > job[s].at - DedupWindow => now' - Retention > job[s].at - DedupWindow
    BY <1>2, <1>5
  <2> QED BY <2>1, <2>2, <2>3 DEF Answered
<1> QED BY <1>6, <1>7, <1>8, <1>9, <1>10, <1>11

(***************************************************************************)
(* A committed transaction: its row is there under its id, stamped, unless *)
(* it was trimmed; and of what was to be deleted nothing is.               *)
(***************************************************************************)
Stored(r, x) == IF x \in job[r].added THEN [x EXCEPT !.done = now] ELSE x

LEMMA StoredIs ==
  ASSUME IInv, NEW r \in Replicas, NEW x \in rows \cup job[r].added
  PROVE  /\ Stored(r, x) \in Rows
         /\ Stored(r, x).id = x.id /\ Stored(r, x).at = x.at /\ Stored(r, x).reason = x.reason
         /\ Stored(r, x).serial = x.serial /\ Stored(r, x).address = x.address
         /\ x \in job[r].added => Stored(r, x).done = now
         /\ x \in rows => Stored(r, x) = x
<1>1. x \in Rows /\ now \in Nat
  BY DEF IInv, TypeOK, Jobs
<1>2. x \in job[r].added => x \notin rows
  BY DEF IInv, Private
<1> QED BY <1>1, <1>2 DEF Stored, Rows

LEMMA KnownHas ==
  ASSUME TypeOK, NEW r \in Replicas
  PROVE  /\ rows \cup job[r].added \cup job[r].doomed \subseteq Known
         /\ Known \subseteq Rows
  BY SMTT(30) DEF Known, TypeOK, Jobs

LEMMA CommitRows ==
  ASSUME IInv, NEW r \in Replicas, Commit(r)
  PROVE  /\ \A y : y \in rows' <=> \E x \in (rows \cup job[r].added) \ job[r].doomed : y = Stored(r, x)
         /\ \A x \in job[r].added : \A s \in Replicas :
              Stored(r, x) \in job[s].doomed => s = r /\ x \in job[r].doomed
         /\ IsFiniteSet(rows') /\ \A s \in Replicas : IsFiniteSet(job[s].added)
<1>1. rows' = (rows \cup Stamped(job[r].added \ job[r].doomed)) \ job[r].doomed
  BY DEF Commit
<1>2. ASSUME NEW x \in job[r].added, NEW s \in Replicas, Stored(r, x) \in job[s].doomed
      PROVE  s = r /\ x \in job[r].doomed
  <2>1. x \in Known /\ Stored(r, x) \in Known
    BY <1>2, KnownHas DEF IInv
  <2>2. Stored(r, x) = x
    BY <2>1, StoredIs DEF IInv, Ordered
  <2> QED BY <1>2, <2>2 DEF IInv, Private
<1>3. Stamped(job[r].added \ job[r].doomed) = {Stored(r, x) : x \in job[r].added \ job[r].doomed}
  BY DEF Stamped, Stored
<1>4. \A x \in rows : Stored(r, x) = x
  BY StoredIs
<1>5. ASSUME NEW y
      PROVE  y \in rows' <=> \E x \in (rows \cup job[r].added) \ job[r].doomed : y = Stored(r, x)
  <2>1. ASSUME y \in rows' PROVE \E x \in (rows \cup job[r].added) \ job[r].doomed : y = Stored(r, x)
    <3>1. y \notin job[r].doomed /\ (y \in rows \/ \E x \in job[r].added \ job[r].doomed : y = Stored(r, x))
      BY <1>1, <1>3, <2>1
    <3> QED BY <1>4, <3>1
  <2>2. ASSUME NEW x \in (rows \cup job[r].added) \ job[r].doomed, y = Stored(r, x) PROVE y \in rows'
    <3>1. CASE x \in rows
      BY <1>1, <1>4, <2>2, <3>1
    <3>2. CASE x \in job[r].added
      <4>1. y \notin job[r].doomed
        BY <1>2, <2>2, <3>2
      <4> QED BY <1>1, <1>3, <2>2, <3>2, <4>1
    <3> QED BY <3>1, <3>2
  <2> QED BY <2>1, <2>2
<1>6. ASSUME NEW s \in Replicas PROVE job[s].added = {} \/ \E x : job[s].added = {x}
  BY DEF IInv, Recording
<1>7. ASSUME NEW s \in Replicas PROVE IsFiniteSet(job[s].added)
  <2>1. CASE job[s].added = {}
    BY <2>1, FS_EmptySet
  <2>2. CASE \E x : job[s].added = {x}
    <3>1. PICK x : job[s].added = {x}
      BY <2>2
    <3>2. IsFiniteSet({x})
      BY FS_Singleton
    <3> QED BY <3>1, <3>2
  <2> QED BY <1>6, <2>1, <2>2
<1> DEFINE new == Stamped(job[r].added \ job[r].doomed)
<1>8. new = {} \/ \E x : new = {x}
  <2>1. CASE job[r].added \ job[r].doomed = {}
    BY <2>1 DEF Stamped
  <2>2. CASE job[r].added \ job[r].doomed # {}
    <3>1. PICK x : job[r].added \ job[r].doomed = {x}
      BY <1>6, <2>2
    <3>2. Stamped({x}) = {[x EXCEPT !.done = now]}
      BY DEF Stamped
    <3> QED BY <3>1, <3>2
  <2> QED BY <2>1, <2>2
<1>9. IsFiniteSet(new)
  <2> HIDE DEF new
  <2>1. CASE new = {}
    BY <2>1, FS_EmptySet
  <2>2. CASE \E x : new = {x}
    <3>1. PICK x : new = {x}
      BY <2>2
    <3>2. IsFiniteSet({x})
      BY FS_Singleton
    <3> QED BY <3>1, <3>2
  <2> QED BY <1>8, <2>1, <2>2
<1>10. IsFiniteSet(rows \cup Stamped(job[r].added \ job[r].doomed))
  BY <1>9, FS_Union DEF IInv, Raced
<1>11. IsFiniteSet(rows')
  BY <1>1, <1>10, FS_Subset
<1> QED BY <1>2, <1>5, <1>7, <1>11

(* As many rows as there were, when each of them is stored where they are counted. *)
LEMMA Embeds ==
  ASSUME IInv, NEW r \in Replicas, NEW S \in SUBSET (rows \cup job[r].added),
         NEW T, IsFiniteSet(T), \A x \in S : Stored(r, x) \in T, Cardinality(S) >= MaxRows
  PROVE  Cardinality(T) >= MaxRows
<1> DEFINE f == [x \in S |-> Stored(r, x)]
<1>1. ASSUME NEW x \in S, NEW y \in S, f[x] = f[y] PROVE x = y
  <2>1. x \in Known /\ y \in Known
    BY KnownHas DEF IInv
  <2>2. x.id = y.id
    BY <1>1, StoredIs
  <2> QED BY <2>1, <2>2 DEF IInv, Ordered
<1>2. f \in [S -> T]
  OBVIOUS
<1>3. f \in Injection(S, T)
  BY <1>1, <1>2 DEF Injection, IsInjective
<1>4. IsFiniteSet(S) /\ Cardinality(S) <= Cardinality(T)
  BY <1>3, FS_Injection
<1>5. Cardinality(S) \in Nat /\ Cardinality(T) \in Nat
  BY <1>4, FS_CardinalityType
<1> QED BY <1>4, <1>5

LEMMA OlderIsOld ==
  ASSUME IInv, NEW x \in Known, NEW y \in Known, y.id <= x.id, Old(x)
  PROVE  Old(y)
<1>1. x \in Rows /\ y \in Rows
  BY SMTT(30) DEF IInv, Known, TypeOK, Jobs
<1>2. y.id = x.id \/ y.id < x.id
  BY <1>1 DEF Rows
<1>3. x = y \/ y.at < x.at
  BY <1>2 DEF IInv, Ordered
<1> QED BY <1>1, <1>3 DEF Old, Rows, IInv, TypeOK

(* What a commit deletes is old, or MaxRows newer rows stay. *)
LEMMA CommitSpares ==
  ASSUME IInv, NEW r \in Replicas, Commit(r), NEW z \in rows \cup job[r].added, z \in job[r].doomed
  PROVE  Old(z) \/ Cardinality(Newer(rows', z)) >= MaxRows
<1>1. CASE \A y \in job[r].doomed : Old(y)
  BY <1>1
<1>2. CASE \E c \in Nat :
       /\ \A y \in job[r].doomed : Old(y) \/ y.id <= c
       /\ Cardinality(Above((rows \cup job[r].added) \ job[r].doomed, c)) >= MaxRows
  <2> PICK c \in Nat :
       /\ \A y \in job[r].doomed : Old(y) \/ y.id <= c
       /\ Cardinality(Above((rows \cup job[r].added) \ job[r].doomed, c)) >= MaxRows
    BY <1>2
  <2> SUFFICES ASSUME z.id <= c PROVE Cardinality(Newer(rows', z)) >= MaxRows
    OBVIOUS
  <2> DEFINE S == Above((rows \cup job[r].added) \ job[r].doomed, c)
  <2>1. S \in SUBSET (rows \cup job[r].added)
    BY DEF Above
  <2>2. IsFiniteSet(Newer(rows', z))
    BY CommitRows, FS_Subset DEF Newer
  <2>3. ASSUME NEW x \in S PROVE Stored(r, x) \in Newer(rows', z)
    <3>1. x \in (rows \cup job[r].added) \ job[r].doomed /\ x.id > c
      BY DEF Above
    <3>2. Stored(r, x) \in rows' /\ Stored(r, x).id = x.id
      BY <3>1, CommitRows, StoredIs
    <3>3. x.id \in Nat /\ z.id \in Nat
      BY <3>1 DEF IInv, TypeOK, Jobs, Rows
    <3> QED BY <3>1, <3>2, <3>3 DEF Newer
  <2> HIDE DEF S
  <2> QED BY <2>1, <2>2, <2>3, Embeds DEF S
<1> QED BY <1>1, <1>2 DEF IInv, TrimsSoundly, Sound

(* So what answered for a rejection still does. *)
LEMMA StaysAnswered ==
  ASSUME IInv, NEW r \in Replicas, Commit(r), NEW t \in Nat,
         NEW z \in rows \cup job[r].added, z \in job[r].doomed, Recent(z, t)
  PROVE  \/ Cardinality({row \in rows' : Recent(row, t)}) >= MaxRows
         \/ now - Retention > t - DedupWindow
<1>1. z \in Rows /\ now \in Nat
  BY DEF IInv, TypeOK, Jobs
<1>2. CASE Old(z)
  BY <1>1, <1>2 DEF Old, Recent, Rows
<1>3. CASE Cardinality(Newer(rows', z)) >= MaxRows
  <2> DEFINE T == {row \in rows' : Recent(row, t)}
  <2>1. IsFiniteSet(T)
    BY CommitRows, FS_Subset
  <2>2. ASSUME NEW y \in Newer(rows', z) PROVE y \in T
    <3>1. PICK x \in rows \cup job[r].added : y = Stored(r, x)
      BY CommitRows DEF Newer
    <3>2. y.id = x.id /\ y.at = x.at /\ y \in rows' /\ y.id > z.id
      BY <3>1, StoredIs DEF Newer
    <3>3. x \in Known /\ z \in Known /\ x \in Rows
      BY KnownHas DEF IInv
    <3>4. z.at < x.at
      BY <1>1, <3>2, <3>3 DEF IInv, Ordered, Rows
    <3> QED BY <1>1, <3>2, <3>3, <3>4 DEF Recent, Rows
  <2>3. Newer(rows', z) \in SUBSET T
    BY <2>2
  <2> HIDE DEF T
  <2>4. Cardinality(Newer(rows', z)) <= Cardinality(T) /\ IsFiniteSet(Newer(rows', z))
    BY <2>1, <2>3, FS_Subset
  <2>5. Cardinality(Newer(rows', z)) \in Nat /\ Cardinality(T) \in Nat
    BY <2>1, <2>4, FS_CardinalityType
  <2> QED BY <1>3, <2>4, <2>5 DEF T
<1> QED BY <1>2, <1>3, CommitSpares

LEMMA AnsweredStays ==
  ASSUME IInv, NEW r \in Replicas, Commit(r), NEW s \in Replicas, Answered(rows, s)
  PROVE  Answered(rows', s)
<1> DEFINE t == job[s].at
           S == {row \in rows : Recent(row, t)}
           T == {row \in rows' : Recent(row, t)}
<1>1. t \in Nat
  BY DEF IInv, TypeOK, Jobs
<1>2. CASE \E z \in rows : z \in job[r].doomed /\ Recent(z, t)
  BY <1>1, <1>2, StaysAnswered DEF Answered
<1>3. CASE \A z \in rows : Recent(z, t) => z \notin job[r].doomed
  <2>1. ASSUME NEW z \in rows, Recent(z, t) PROVE z \in rows'
    <3>1. Stored(r, z) = z
      BY StoredIs
    <3> QED BY <1>3, <2>1, <3>1, CommitRows
  <2>2. IsFiniteSet(T) /\ S \in SUBSET T
    BY <2>1, CommitRows, FS_Subset
  <2>3. Cardinality(S) >= MaxRows => Cardinality(T) >= MaxRows
    <3> HIDE DEF S, T
    <3>1. Cardinality(S) <= Cardinality(T) /\ IsFiniteSet(S)
      BY <2>2, FS_Subset
    <3>2. Cardinality(S) \in Nat /\ Cardinality(T) \in Nat
      BY <2>2, <3>1, FS_CardinalityType
    <3> QED BY <3>1, <3>2
  <2> QED BY <2>1, <2>3 DEF Answered
<1> QED BY <1>2, <1>3

LEMMA CommitAnswers ==
  ASSUME IInv, NEW r \in Replicas, Commit(r)
  PROVE  Answered(rows', r)
<1>1. job[r].phase \in {"inserted", "trimmed"} /\ job[r].at \in Nat
  BY DEF Commit, IInv, TypeOK, Jobs
<1>2. CASE job[r].added = {}
  BY <1>1, <1>2, AnsweredStays DEF IInv, Collapsed
<1>3. CASE job[r].added # {}
  <2>1. PICK x : x \in job[r].added
    BY <1>3
  <2>2. x.at = job[r].at /\ Alike(x, job[r].serial, Head(job[r].todo).reason, job[r].dev)
    BY <2>1 DEF IInv, Recording
  <2>3. Recent(x, job[r].at)
    BY <1>1, <2>2 DEF Recent
  <2>4. CASE x \in job[r].doomed
    BY <1>1, <2>1, <2>3, <2>4, StaysAnswered DEF Answered
  <2>5. CASE x \notin job[r].doomed
    <3>1. Stored(r, x) \in rows'
      BY <2>1, <2>5, CommitRows
    <3>2. /\ Alike(Stored(r, x), job[r].serial, Head(job[r].todo).reason, job[r].dev)
          /\ Recent(Stored(r, x), job[r].at)
      BY <2>1, <2>2, <2>3, StoredIs DEF Alike, Recent
    <3> QED BY <3>1, <3>2 DEF Answered
  <2> QED BY <2>4, <2>5
<1> QED BY <1>2, <1>3

(* What another transaction is going to delete stays sound: the newer bound of the two holds. *)
LEMMA CommitLeavesSound ==
  ASSUME IInv, NEW r \in Replicas, Commit(r), NEW s \in Replicas, s # r
  PROVE  \/ \A y \in job[s].doomed : Old(y)
         \/ \E c \in Nat :
              /\ \A y \in job[s].doomed : Old(y) \/ y.id <= c
              /\ Cardinality(Above((rows' \cup job[s].added) \ job[s].doomed, c)) >= MaxRows
<1> SUFFICES ASSUME ~\A y \in job[s].doomed : Old(y)
             PROVE  \E c \in Nat :
               /\ \A y \in job[s].doomed : Old(y) \/ y.id <= c
               /\ Cardinality(Above((rows' \cup job[s].added) \ job[s].doomed, c)) >= MaxRows
  OBVIOUS
<1>1. PICK c \in Nat :
        /\ \A y \in job[s].doomed : Old(y) \/ y.id <= c
        /\ Cardinality(Above((rows \cup job[s].added) \ job[s].doomed, c)) >= MaxRows
  BY DEF IInv, TrimsSoundly, Sound
<1> DEFINE S == Above((rows \cup job[s].added) \ job[s].doomed, c)
           T(k) == Above((rows' \cup job[s].added) \ job[s].doomed, k)
<1>2. rows \cup job[r].added \cup job[r].doomed \cup job[s].added \cup job[s].doomed \subseteq Known
  BY KnownHas DEF IInv
<1>3. Known \subseteq Rows
  BY KnownHas DEF IInv
<1>4. ASSUME NEW k PROVE IsFiniteSet(T(k))
  <2>1. IsFiniteSet(rows' \cup job[s].added)
    BY CommitRows, FS_Union
  <2>2. T(k) \subseteq rows' \cup job[s].added
    BY DEF Above
  <2> QED BY <2>1, <2>2, FS_Subset
<1>5. CASE S \cap job[r].doomed = {}
  <2>1. ASSUME NEW x \in S PROVE x \in T(c)
    <3>1. x \in rows => x \in rows'
      <4>1. x \in rows => Stored(r, x) = x
        BY StoredIs
      <4> QED BY <1>5, <4>1, CommitRows
    <3> QED BY <3>1 DEF Above
  <2>2. S \in SUBSET T(c)
    BY <2>1
  <2>3. Cardinality(S) <= Cardinality(T(c)) /\ IsFiniteSet(S)
    BY <1>4, <2>2, FS_Subset
  <2>4. Cardinality(S) \in Nat /\ Cardinality(T(c)) \in Nat
    BY <1>4, <2>3, FS_CardinalityType
  <2>5. Cardinality(T(c)) >= MaxRows
    BY <1>1, <2>3, <2>4
  <2> QED BY <1>1, <2>5
<1>6. CASE S \cap job[r].doomed # {}
  <2>1. PICK z : z \in S /\ z \in job[r].doomed
    BY <1>6
  <2>2. z \in Known /\ z.id > c /\ z.id \in Nat
    BY <1>2, <1>3, <2>1 DEF Above, Rows
  <2>3. ~Old(z)
    <3> SUFFICES ASSUME Old(z), NEW y \in job[s].doomed PROVE Old(y)
      OBVIOUS
    <3>1. y \in Known /\ y.id \in Nat
      BY <1>2, <1>3 DEF Rows
    <3>2. CASE y.id <= c
      BY <1>2, <2>2, <3>1, <3>2, OlderIsOld
    <3> QED BY <1>1, <3>2
  <2>4. ASSUME NEW y \in job[s].doomed PROVE y.id < z.id
    <3>1. y \in Known /\ y.id \in Nat
      BY <1>2, <1>3 DEF Rows
    <3>2. CASE Old(y)
      BY <2>2, <2>3, <3>1, <3>2, OlderIsOld
    <3> QED BY <1>1, <2>2, <3>1, <3>2
  <2>5. PICK k \in Nat :
          /\ \A y \in job[r].doomed : Old(y) \/ y.id <= k
          /\ Cardinality(Above((rows \cup job[r].added) \ job[r].doomed, k)) >= MaxRows
    BY <2>1, <2>3 DEF IInv, TrimsSoundly, Sound
  <2>6. z.id <= k
    BY <2>1, <2>3, <2>5
  <2>7. \A y \in job[s].doomed : y.id <= k
    BY <1>2, <1>3, <2>2, <2>4, <2>6 DEF Rows
  <2> DEFINE U == Above((rows \cup job[r].added) \ job[r].doomed, k)
  <2>8. U \in SUBSET (rows \cup job[r].added)
    BY DEF Above
  <2>9. ASSUME NEW x \in U PROVE Stored(r, x) \in T(k)
    <3>1. x \in (rows \cup job[r].added) \ job[r].doomed /\ x.id > k /\ x.id \in Nat
      BY <1>2, <1>3 DEF Above, Rows
    <3>2. Stored(r, x) \in rows' /\ Stored(r, x).id = x.id
      BY <3>1, CommitRows, StoredIs
    <3>3. Stored(r, x) \notin job[s].doomed
      BY <2>7, <3>1, <3>2
    <3> QED BY <3>1, <3>2, <3>3 DEF Above
  <2>10. Cardinality(T(k)) >= MaxRows
    <3> HIDE DEF U, T
    <3> QED BY <1>4, <2>5, <2>8, <2>9, Embeds DEF U
  <2> QED BY <2>7, <2>10
<1> QED BY <1>5, <1>6

LEMMA CommitOrigins ==
  ASSUME IInv, NEW r \in Replicas, Commit(r)
  PROVE  /\ \A y \in rows' : y \in rows \/ \E x \in job[r].added : y = Stored(r, x)
         /\ \A y \in Known' :
              \/ y \in Known /\ y \notin job[r].added
              \/ \E x \in job[r].added : y = Stored(r, x)
<1>1. ASSUME NEW y \in rows'
      PROVE  (y \in rows /\ y \notin job[r].added) \/ \E x \in job[r].added : y = Stored(r, x)
  <2>1. PICK x \in rows \cup job[r].added : y = Stored(r, x)
    BY CommitRows
  <2>2. x \in rows => y = x /\ x \notin job[r].added
    BY <2>1, StoredIs DEF IInv, Private
  <2> QED BY <2>1, <2>2
<1>2. \A s \in Replicas : job'[s] = job[s] \/ Fresh(job'[s])
  BY CommitStepTyped DEF IInv, TypeOK, NewJob
<1>3. job'[r] = AfterRecord(r) /\ Fresh(AfterRecord(r))
  BY AfterRecordFresh DEF Commit, IInv, TypeOK, Recording
<1>4. ASSUME NEW y \in Known', y \notin rows' PROVE y \in Known /\ y \notin job[r].added
  <2>1. PICK s \in Replicas : y \in job'[s].added \cup job'[s].doomed
    BY <1>4 DEF Known
  <2>2. s # r /\ job'[s] = job[s]
    BY <1>2, <1>3, <2>1 DEF Fresh
  <2> QED BY <2>1, <2>2 DEF Known, IInv, Private
<1>5. ASSUME NEW y \in Known'
      PROVE  (y \in Known /\ y \notin job[r].added) \/ \E x \in job[r].added : y = Stored(r, x)
  BY <1>1, <1>4 DEF Known
<1> QED BY <1>1, <1>5

LEMMA CommitStep ==
  ASSUME IInv, NEW r \in Replicas, Commit(r)
  PROVE  IInv'
<1>1. /\ TypeOK' /\ Counting' /\ UNCHANGED <<now, lastId, accepted, seen>>
      /\ \A s \in Replicas : (s # r /\ job'[s] = job[s]) \/ (s = r /\ Fresh(job'[s]))
  <2>1. job'[r] = AfterRecord(r) /\ Fresh(AfterRecord(r)) /\ \A s \in Replicas : s # r => job'[s] = job[s]
    BY AfterRecordFresh DEF Commit, IInv, TypeOK, Recording
  <2> QED BY <2>1, CommitStepTyped DEF IInv
<1>2. Known \subseteq Rows /\ rows \subseteq Known /\ \A s \in Replicas : job[s].added \subseteq Known
  BY KnownHas DEF IInv
<1>3. now \in Nat
  BY DEF IInv, TypeOK
<1>4. \A x \in job[r].added : job[r].added = {x}
  BY DEF IInv, Recording
<1>5. ASSUME NEW y \in Known' PROVE \E x \in Known : x.id = y.id /\ x.at = y.at
  BY <1>2, CommitOrigins, StoredIs
<1>6. Recording'
  BY <1>1 DEF IInv, Recording, Fresh, Alike
<1>7. Ordered'
  <2>1. ASSUME NEW x \in Known', NEW y \in Known', x.id = y.id PROVE x = y
    <3>1. CASE x \in Known /\ x \notin job[r].added /\ y \in Known /\ y \notin job[r].added
      BY <2>1, <3>1 DEF IInv, Ordered
    <3>2. ASSUME NEW v \in Known', NEW w \in job[r].added, v \in Known, v \notin job[r].added,
                 v.id = Stored(r, w).id
          PROVE  FALSE
      <4>1. w \in Known /\ v.id = w.id
        BY <1>2, <3>2, StoredIs
      <4> QED BY <3>2, <4>1 DEF IInv, Ordered
    <3> QED BY <1>4, <2>1, <3>1, <3>2, CommitOrigins
  <2>2. ASSUME NEW x \in Known' PROVE x.id <= lastId /\ x.at < now
    BY <1>5 DEF IInv, Ordered
  <2>3. ASSUME NEW x \in Known', NEW y \in Known', x.id < y.id PROVE x.at < y.at
    <3>1. PICK v \in Known : v.id = x.id /\ v.at = x.at
      BY <1>5
    <3>2. PICK w \in Known : w.id = y.id /\ w.at = y.at
      BY <1>5
    <3> QED BY <2>3, <3>1, <3>2 DEF IInv, Ordered
  <2> QED BY <1>1, <2>1, <2>2, <2>3 DEF Ordered
<1>8. Private'
  <2> SUFFICES ASSUME NEW s \in Replicas, NEW x \in job'[s].added
               PROVE  x \notin rows' /\ \A t \in Replicas : x \in job'[t].added \cup job'[t].doomed => t = s
    BY DEF Private
  <2>1. s # r /\ job'[s] = job[s] /\ x \in job[s].added
    BY <1>1 DEF Fresh
  <2>2. x \notin rows'
    <3> SUFFICES ASSUME x \in rows' PROVE FALSE
      OBVIOUS
    <3>1. PICK w \in job[r].added : x = Stored(r, w)
      BY <2>1, CommitOrigins DEF IInv, Private
    <3>2. x = w
      BY <1>2, <2>1, <3>1, StoredIs DEF IInv, Ordered
    <3> QED BY <2>1, <3>2 DEF IInv, Private
  <2>3. \A t \in Replicas : x \in job'[t].added \cup job'[t].doomed => t = s
    BY <1>1, <2>1 DEF Fresh, IInv, Private
  <2> QED BY <2>2, <2>3
<1>9. Raced'
  <2> SUFFICES ASSUME NEW s \in Replicas, NEW b \in job'[s].added, NEW a \in rows',
                      a.reason = b.reason, a.serial = b.serial, a.address = b.address,
                      a.at < b.at, a.at > b.at - DedupWindow
               PROVE  b.at < a.done
    BY CommitRows DEF Raced
  <2>1. b \in job[s].added /\ b \in Known
    BY <1>1, <1>2 DEF Fresh
  <2>2. CASE a \in rows
    BY <2>1, <2>2 DEF IInv, Raced
  <2>3. CASE \E x \in job[r].added : a = Stored(r, x)
    BY <2>1, <2>3, StoredIs DEF IInv, Ordered
  <2> QED BY <2>2, <2>3, CommitOrigins
<1>10. OnlyRacersTwice'
  <2> SUFFICES ASSUME NEW a \in rows', NEW b \in rows',
                      a.reason = b.reason, a.serial = b.serial, a.address = b.address,
                      a.at < b.at, a.at > b.at - DedupWindow
               PROVE  b.at < a.done
    BY DEF OnlyRacersTwice
  <2>1. CASE \E x \in job[r].added : a = Stored(r, x)
    <3>1. a.done = now
      BY <2>1, StoredIs
    <3>2. b \in Known'
      BY DEF Known
    <3> QED BY <1>1, <1>7, <3>1, <3>2 DEF Ordered
  <2>2. CASE a \in rows /\ b \in rows
    BY <2>2 DEF IInv, OnlyRacersTwice
  <2>3. CASE a \in rows /\ \E x \in job[r].added : b = Stored(r, x)
    <3>1. PICK x \in job[r].added : b = Stored(r, x)
      BY <2>3
    <3> QED BY <2>3, <3>1, StoredIs DEF IInv, Raced
  <2> QED BY <2>1, <2>2, <2>3, CommitOrigins
<1>11. TrimsSoundly'
  <2> SUFFICES ASSUME NEW s \in Replicas PROVE Sound(s)'
    BY DEF TrimsSoundly
  <2>1. CASE s = r
    BY <1>1, <2>1 DEF Sound, Fresh
  <2>2. CASE s # r
    <3>1. job'[s] = job[s] /\ now' = now
      BY <1>1, <2>2
    <3> QED BY <2>2, <3>1, CommitLeavesSound DEF Sound, Old
  <2> QED BY <2>1, <2>2
<1>12. Collapsed'
  <2> SUFFICES ASSUME NEW s \in Replicas, job'[s].phase \in {"inserted", "trimmed"}, job'[s].added = {}
               PROVE  Answered(rows, s)'
    BY DEF Collapsed
  <2>1. job'[s] = job[s] /\ now' = now
    BY <1>1 DEF Fresh
  <2>2. Answered(rows', s)
    BY <2>1, AnsweredStays DEF IInv, Collapsed
  <2> QED BY <2>1, <2>2 DEF Answered
<1> QED BY <1>1, <1>6, <1>7, <1>8, <1>9, <1>10, <1>11, <1>12 DEF IInv

(* What is trimmed is old, or under the newest id of which MaxRows rows have a newer one. *)
LEMMA NewestOf ==
  ASSUME NEW S \in SUBSET Known, IInv, S # {}
  PROVE  \E m \in S : \A x \in S : x.id <= m.id
<1>1. \A x \in S : lastId - x.id \in Nat /\ x.id \in Nat /\ lastId \in Nat
  <2>1. Known \subseteq Rows /\ lastId \in Nat
    BY SMTT(30) DEF Known, IInv, TypeOK, Jobs
  <2>2. \A x \in S : x \in Rows /\ x.id <= lastId
    BY <2>1 DEF IInv, Ordered
  <2> QED BY <2>1, <2>2 DEF Rows
<1>2. {lastId - x.id : x \in S} \in SUBSET Nat /\ {lastId - x.id : x \in S} # {}
  BY <1>1
<1>3. PICK k \in {lastId - x.id : x \in S} : \A n \in {lastId - x.id : x \in S} : k <= n
  BY <1>2, Least
<1>4. PICK m \in S : k = lastId - m.id
  BY <1>3
<1>5. ASSUME NEW x \in S PROVE x.id <= m.id
  <2>1. lastId - m.id <= lastId - x.id
    BY <1>3, <1>4
  <2> QED BY <1>1, <2>1
<1> QED BY <1>5

LEMMA TrimIsSound ==
  ASSUME IInv, NEW r \in Replicas, Trim(r)
  PROVE  LET there == rows \cup job[r].added
             old == Aged(there, job[r].at)
             doomed == old \cup Surplus(there \ old)
         IN  \/ \A y \in doomed : Old(y)
             \/ \E c \in Nat :
                  /\ \A y \in doomed : Old(y) \/ y.id <= c
                  /\ Cardinality(Above(there \ doomed, c)) >= MaxRows
<1> DEFINE there == rows \cup job[r].added
           old == Aged(there, job[r].at)
           kept == there \ old
           doomed == old \cup Surplus(kept)
<1>1. there \subseteq Known /\ Known \subseteq Rows
  BY KnownHas DEF IInv
<1>2. job[r].at \in Nat /\ now \in Nat /\ job[r].at < now
  BY DEF Trim, IInv, TypeOK, Jobs, Recording
<1>3. \A y \in old : Old(y)
  BY <1>1, <1>2 DEF Aged, Old, Rows
<1>4. IsFiniteSet(there)
  <2>1. \A x \in job[r].added : job[r].added = {x}
    BY DEF IInv, Recording
  <2>2. there = rows \/ \E x : there = rows \cup {x}
    BY <2>1
  <2> HIDE DEF there
  <2> QED BY <2>2, FS_AddElement DEF IInv, Raced
<1>5. Surplus(kept) \subseteq kept /\ kept \subseteq there
  BY DEF Surplus
<1>6. CASE Surplus(kept) = {}
  BY <1>3, <1>6
<1>7. CASE Surplus(kept) # {}
  <2>1. Surplus(kept) \in SUBSET Known
    BY <1>1, <1>5
  <2>2. PICK m \in Surplus(kept) : \A x \in Surplus(kept) : x.id <= m.id
    BY <1>7, <2>1, NewestOf
  <2>3. Cardinality(Newer(kept, m)) >= MaxRows
    BY <2>2 DEF Surplus
  <2>4. m.id \in Nat
    BY <1>1, <2>1 DEF Rows
  <2>5. Newer(kept, m) \in SUBSET Above(there \ doomed, m.id)
    <3> SUFFICES ASSUME NEW x \in Newer(kept, m) PROVE x \in Above(there \ doomed, m.id)
      OBVIOUS
    <3>1. x \in kept /\ x.id > m.id
      BY DEF Newer
    <3>2. x.id \in Nat
      BY <1>1, <3>1 DEF Rows
    <3>3. x \notin Surplus(kept)
      <4> HIDE DEF kept
      <4>1. x \in Surplus(kept) => x.id <= m.id
        BY <2>2
      <4> QED BY <2>4, <3>1, <3>2, <4>1
    <3> QED BY <3>1, <3>3 DEF Above
  <2>6. IsFiniteSet(Above(there \ doomed, m.id))
    <3>1. Above(there \ doomed, m.id) \in SUBSET there
      BY DEF Above
    <3> QED BY <1>4, <3>1, FS_Subset
  <2>7. Cardinality(Above(there \ doomed, m.id)) >= MaxRows
    <3> DEFINE T == Above(there \ doomed, m.id)
               N == Newer(kept, m)
    <3>1. IsFiniteSet(T) /\ N \in SUBSET T /\ Cardinality(N) >= MaxRows
      BY <2>3, <2>5, <2>6
    <3> HIDE DEF T, N
    <3>2. Cardinality(N) <= Cardinality(T) /\ IsFiniteSet(N)
      BY <3>1, FS_Subset
    <3>3. Cardinality(N) \in Nat /\ Cardinality(T) \in Nat
      BY <3>1, <3>2, FS_CardinalityType
    <3>4. Cardinality(T) >= MaxRows
      BY <3>1, <3>2, <3>3
    <3> QED BY <3>4 DEF T
  <2> QED BY <1>3, <2>2, <2>4, <2>7
<1> QED BY <1>6, <1>7

LEMMA TrimStep ==
  ASSUME IInv, NEW r \in Replicas, Trim(r)
  PROVE  IInv'
<1> DEFINE there == rows \cup job[r].added
           old == Aged(there, job[r].at)
           doomed == old \cup Surplus(there \ old)
<1>1. /\ job[r].phase = "inserted" /\ UNCHANGED <<now, rows, lastId>>
      /\ job' = [job EXCEPT ![r].phase = "trimmed", ![r].doomed = doomed]
  BY DEF Trim, table
<1>2. doomed \subseteq rows \cup job[r].added
  BY DEF Aged, Surplus
<1>3. \/ \A y \in doomed : Old(y)
      \/ \E c \in Nat :
           /\ \A y \in doomed : Old(y) \/ y.id <= c
           /\ Cardinality(Above((rows \cup job[r].added) \ doomed, c)) >= MaxRows
  BY TrimIsSound
<1> HIDE DEF doomed
<1>4. /\ \A s \in Replicas : s # r => job'[s] = job[s]
      /\ job'[r].phase = "trimmed" /\ job'[r].doomed = doomed /\ job'[r].added = job[r].added
      /\ job'[r].at = job[r].at /\ job'[r].todo = job[r].todo
      /\ job'[r].dev = job[r].dev /\ job'[r].serial = job[r].serial
  BY <1>1 DEF IInv, TypeOK, Jobs
<1>5. TypeOK' /\ Counting' /\ Recording'
  BY TrimStepTyped DEF IInv
<1>6. \A s \in Replicas : job'[s].added = job[s].added /\ (s # r => job'[s].doomed = job[s].doomed)
  BY <1>4
<1>7. Known' \subseteq Known
  <2>1. ASSUME NEW s \in Replicas PROVE job'[s].added \cup job'[s].doomed \subseteq Known
    <3>1. CASE s = r
      BY <1>2, <1>4, <3>1 DEF Known
    <3>2. CASE s # r
      BY <1>4, <3>2 DEF Known
    <3> QED BY <3>1, <3>2
  <2>2. rows' \subseteq Known
    BY <1>1 DEF Known
  <2> QED BY <2>1, <2>2 DEF Known
<1>8. Ordered'
  BY <1>1, <1>7 DEF IInv, Ordered
<1>9. Private'
  <2> SUFFICES ASSUME NEW s \in Replicas, NEW x \in job'[s].added
               PROVE  x \notin rows' /\ \A t \in Replicas : x \in job'[t].added \cup job'[t].doomed => t = s
    BY DEF Private
  <2>1. /\ x \in job[s].added /\ x \notin rows
        /\ \A t \in Replicas : x \in job[t].added \cup job[t].doomed => t = s
    BY <1>6 DEF IInv, Private
  <2>2. ASSUME NEW t \in Replicas, x \in job'[t].added \cup job'[t].doomed PROVE t = s
    <3>1. CASE t = r
      BY <1>2, <1>4, <2>1, <2>2, <3>1
    <3>2. CASE t # r
      BY <1>4, <2>1, <2>2, <3>2
    <3> QED BY <3>1, <3>2
  <2> QED BY <1>1, <2>1, <2>2
<1>10. Raced' /\ OnlyRacersTwice'
  BY <1>1, <1>6 DEF IInv, Raced, OnlyRacersTwice
<1>11. TrimsSoundly'
  BY <1>1, <1>3, <1>4 DEF IInv, TrimsSoundly, Sound, Old
<1>12. Collapsed'
  <2> SUFFICES ASSUME NEW s \in Replicas, job'[s].phase \in {"inserted", "trimmed"}, job'[s].added = {}
               PROVE  Answered(rows, s)'
    BY DEF Collapsed
  <2>1. Answered(rows, s)
    BY <1>1, <1>4 DEF IInv, Collapsed
  <2>2. /\ job'[s].at = job[s].at /\ job'[s].todo = job[s].todo
        /\ job'[s].dev = job[s].dev /\ job'[s].serial = job[s].serial
    BY <1>4
  <2> QED BY <1>1, <2>1, <2>2 DEF Answered
<1> QED BY <1>5, <1>8, <1>9, <1>10, <1>11, <1>12 DEF IInv

LEMMA InsertKeeps ==
  ASSUME IInv, NEW r \in Replicas, Insert(r)
  PROVE  IInv'
<1> DEFINE why == Head(job[r].todo)
           row == [id |-> lastId + 1, reason |-> why.reason, status |-> why.status,
                   serial |-> job[r].serial, address |-> Address[job[r].dev], at |-> now, done |-> 0]
           added == IF Repeats(r) THEN {} ELSE {row}
<1>1. /\ job[r].phase = "next" /\ rows' = rows
      /\ lastId' = IF Repeats(r) THEN lastId ELSE lastId + 1
      /\ job' = [job EXCEPT ![r].phase = "inserted", ![r].at = now, ![r].added = added]
  BY DEF Insert
<1>2. row.id = lastId + 1 /\ row.at = now
  OBVIOUS
<1>3. Alike(row, job[r].serial, why.reason, job[r].dev)
  BY DEF Alike
<1>4. TypeOK' /\ Counting' /\ Recording' /\ now' = now + 1
  BY InsertStep DEF IInv
<1>5. \/ Repeats(r) /\ added = {} /\ lastId' = lastId
      \/ ~Repeats(r) /\ added = {row} /\ lastId' = lastId + 1
  BY <1>1
<1> HIDE DEF row, added
<1>6. /\ \A s \in Replicas : s # r => job'[s] = job[s]
      /\ job'[r].phase = "inserted" /\ job'[r].at = now /\ job'[r].added = added
      /\ job'[r].doomed = {} /\ job'[r].todo = job[r].todo
      /\ job'[r].dev = job[r].dev /\ job'[r].serial = job[r].serial /\ job[r].added = {}
  <2>1. job \in [Replicas -> Jobs]
    BY DEF IInv, TypeOK
  <2>2. job[r].doomed = {} /\ job[r].added = {}
    BY <1>1 DEF IInv, Recording
  <2>3. job'[r] = [job[r] EXCEPT !.phase = "inserted", !.at = now, !.added = added]
        /\ \A s \in Replicas : s # r => job'[s] = job[s]
    BY <1>1, <2>1, Zenon
  <2>. HIDE DEF IInv
  <2>4. job[r] \in Jobs
    BY <2>1
  <2>. QED BY <2>2, <2>3, <2>4 DEF Jobs
<1>7. Known \subseteq Rows /\ rows \subseteq Known /\ now \in Nat /\ lastId \in Nat
  BY KnownHas DEF IInv, TypeOK
<1>8. Known' \subseteq Known \cup added
  <2>1. ASSUME NEW s \in Replicas PROVE job'[s].added \cup job'[s].doomed \subseteq Known \cup added
    <3>1. CASE s = r
      BY <1>6, <3>1
    <3>2. CASE s # r
      BY <1>6, <3>2 DEF Known
    <3> QED BY <3>1, <3>2
  <2> QED BY <1>1, <1>7, <2>1, ZenonT(40) DEF Known
<1>9. \A x \in Known : x.id \in Nat /\ x.at \in Nat /\ x.id <= lastId /\ x.at < now
  BY <1>7 DEF IInv, Ordered, Rows
<1>10. row \notin Known
  BY <1>2, <1>7, <1>9
<1>11. Ordered'
  <2>1. \A x \in Known' : x \in Known \/ (x = row /\ lastId' = lastId + 1)
    BY <1>5, <1>8
  <2>2. \A x \in Known' : x.id <= lastId' /\ x.at < now'
    BY <1>2, <1>4, <1>5, <1>7, <1>9, <2>1
  <2>3. \A x, y \in Known' : x.id = y.id => x = y
    BY <1>2, <1>7, <1>9, <2>1 DEF IInv, Ordered
  <2>4. \A x, y \in Known' : x.id < y.id => x.at < y.at
    BY <1>2, <1>7, <1>9, <2>1 DEF IInv, Ordered
  <2> QED BY <2>2, <2>3, <2>4 DEF Ordered
<1>12. Private'
  <2> SUFFICES ASSUME NEW s \in Replicas, NEW x \in job'[s].added
               PROVE  x \notin rows' /\ \A t \in Replicas : x \in job'[t].added \cup job'[t].doomed => t = s
    BY DEF Private
  <2>1. CASE s = r
    <3>1. x = row
      BY <1>5, <1>6, <2>1
    <3>2. \A t \in Replicas : t # r => x \notin job'[t].added \cup job'[t].doomed
      BY <1>6, <1>10, <3>1 DEF Known
    <3> QED BY <1>1, <1>7, <1>10, <2>1, <3>1, <3>2
  <2>2. CASE s # r
    <3>1. x \in job[s].added /\ x \in Known
      BY <1>6, <2>2 DEF Known
    <3>2. x \notin job'[r].added \cup job'[r].doomed
      BY <1>5, <1>6, <1>10, <3>1
    <3>3. \A t \in Replicas : t # r /\ x \in job'[t].added \cup job'[t].doomed => t = s
      BY <1>6, <3>1 DEF IInv, Private
    <3> QED BY <1>1, <3>1, <3>2, <3>3 DEF IInv, Private
  <2> QED BY <2>1, <2>2
<1>13. Raced'
  <2> SUFFICES ASSUME NEW s \in Replicas, NEW b \in job'[s].added, NEW a \in rows,
                      a.reason = b.reason, a.serial = b.serial, a.address = b.address,
                      a.at < b.at, a.at > b.at - DedupWindow
               PROVE  b.at < a.done
    BY <1>1 DEF Raced, IInv
  <2>1. CASE s = r
    <3>1. b = row /\ ~Repeats(r)
      BY <1>5, <1>6, <2>1
    <3>2. Alike(a, job[r].serial, why.reason, job[r].dev) /\ a.at > now - DedupWindow
      BY <1>2, <1>3, <3>1 DEF Alike
    <3> QED BY <3>1, <3>2 DEF Repeats
  <2>2. CASE s # r
    BY <1>6, <2>2 DEF IInv, Raced
  <2> QED BY <2>1, <2>2
<1>14. OnlyRacersTwice'
  BY <1>1 DEF IInv, OnlyRacersTwice
<1>15. TrimsSoundly'
  <2> SUFFICES ASSUME NEW s \in Replicas PROVE Sound(s)'
    BY DEF TrimsSoundly
  <2>1. CASE s = r
    BY <1>6, <2>1 DEF Sound
  <2>2. CASE s # r
    <3>1. Sound(s) /\ job'[s] = job[s] /\ rows' = rows
      BY <1>1, <1>6, <2>2 DEF IInv, TrimsSoundly
    <3>2. \A y \in job[s].doomed : y.at < now - Retention => y.at < now' - Retention
      BY <1>4, <1>9, <1>7 DEF Known
    <3> QED BY <3>1, <3>2 DEF Sound, Old
  <2> QED BY <2>1, <2>2
<1>16. Collapsed'
  <2> SUFFICES ASSUME NEW s \in Replicas, job'[s].phase \in {"inserted", "trimmed"}, job'[s].added = {}
               PROVE  Answered(rows, s)'
    BY DEF Collapsed
  <2>1. CASE s = r
    <3>1. Repeats(r)
      BY <1>5, <1>6, <2>1
    <3>2. PICK z \in rows : Alike(z, job[r].serial, why.reason, job[r].dev) /\ z.at > now - DedupWindow
      BY <3>1 DEF Repeats
    <3> QED BY <1>1, <1>6, <2>1, <3>2 DEF Answered, Recent
  <2>2. CASE s # r
    <3>1. Answered(rows, s) /\ job'[s] = job[s] /\ job[s].at \in Nat
      BY <1>6, <2>2 DEF IInv, Collapsed, TypeOK, Jobs
    <3>2. now - Retention > job[s].at - DedupWindow => now' - Retention > job[s].at - DedupWindow
      BY <1>4, <1>7, <3>1
    <3> QED BY <1>1, <3>1, <3>2 DEF Answered
  <2> QED BY <2>1, <2>2
<1> QED BY <1>4, <1>11, <1>12, <1>13, <1>14, <1>15, <1>16 DEF IInv

-----------------------------------------------------------------------------
(* The invariant. *)

LEMMA InitHolds == Init => IInv
<1> SUFFICES ASSUME Init PROVE IInv
  OBVIOUS
<1>1. PICK left \in Left : rows = left
  BY DEF Init
<1>2. rows \subseteq Rows /\ (rows = {} \/ \E x \in Rows : rows = {x} /\ x.id = 1 /\ x.at = 0)
  BY <1>1 DEF Left, Rows, Reasons, BodyReasons
<1>3. IsFiniteSet(rows) /\ Cardinality(rows) = IF rows = {} THEN 0 ELSE 1
  <2>1. CASE rows = {}
    BY <2>1, FS_EmptySet
  <2>2. CASE rows # {}
    <3>1. PICK x : rows = {x}
      BY <1>2, <2>2
    <3>2. IsFiniteSet({x}) /\ Cardinality({x}) = 1
      BY FS_Singleton
    <3> QED BY <2>2, <3>1, <3>2
  <2> QED BY <2>1, <2>2
<1>5. Fresh(Idle) /\ Idle.phase = "idle" /\ Idle.todo = <<>>
  BY DEF Fresh, Idle, Jobs
<1>6. \A r \in Replicas : job[r] = Idle
  BY DEF Init
<1>7. Known = rows
  BY <1>5, <1>6 DEF Known, Fresh
<1>8. lastId = Cardinality(rows) /\ now \in Nat /\ now > 0
  BY DEF Init
<1>9. TypeOK
  <2>1. NoCounts \in [Buckets -> Nat] /\ Window(Start) \in Nat
    BY WindowGrows DEF NoCounts
  <2>2. lastId \in Nat
    BY <1>3, <1>8
  <2> QED BY <1>2, <1>5, <2>1, <2>2 DEF Init, TypeOK, Fresh
<1>10. Counting
  <2>1. Window(Start) \in Nat
    BY WindowGrows
  <2> QED BY <2>1 DEF Init, Counting
<1>11. Recording
  BY <1>5, <1>6 DEF Recording, Fresh
<1>12. Ordered
  BY <1>2, <1>3, <1>7, <1>8 DEF Ordered
<1>13. Private /\ TrimsSoundly /\ Collapsed
  BY <1>5, <1>6 DEF Private, TrimsSoundly, Sound, Collapsed, Fresh
<1>14. Raced
  BY <1>3, <1>5, <1>6 DEF Raced, Fresh
<1>15. OnlyRacersTwice
  BY <1>2 DEF OnlyRacersTwice, Rows
<1> QED BY <1>9, <1>10, <1>11, <1>12, <1>13, <1>14, <1>15 DEF IInv

LEMMA NextHolds ==
  ASSUME IInv, [Next]_vars
  PROVE  IInv'
<1>2. CASE UNCHANGED vars
  <2>1. TypeOK' /\ Counting'
    BY <1>2 DEF vars, table, IInv, TypeOK, Counting
  <2> QED BY <1>2, <2>1, QuietStep DEF vars, table, IInv
<1>3. ASSUME NEW r \in Replicas, NEW d \in Devices, Arrive(r, d) PROVE IInv'
  <2>1. /\ TypeOK' /\ Counting' /\ UNCHANGED <<now, rows, lastId>>
        /\ job' = job \/ \E j : NewJob(r, j)
    BY <1>3, ArriveStep DEF IInv
  <2> QED BY <2>1, QuietStep DEF IInv
<1>4. ASSUME NEW w \in waiting, NEW b \in Bodies, BodyArrives(w, b) PROVE IInv'
  <2>1. /\ TypeOK' /\ UNCHANGED <<now, bucket, rows, lastId, seen>>
        /\ \E r \in Replicas : \E j : NewJob(r, j)
    BY <1>4, BodyArrivesStep DEF IInv
  <2>2. Counting'
    BY <2>1 DEF IInv, Counting
  <2> QED BY <2>1, <2>2, QuietStep DEF IInv
<1>5. ASSUME NEW r \in Replicas, Insert(r) PROVE IInv'
  BY <1>5, InsertKeeps
<1>6. ASSUME NEW r \in Replicas, Trim(r) PROVE IInv'
  BY <1>6, TrimStep
<1>7. ASSUME NEW r \in Replicas, Commit(r) PROVE IInv'
  BY <1>7, CommitStep
<1>8. ASSUME NEW r \in Replicas, RecordFails(r) \/ Store(r) \/ StoreFails(r) PROVE IInv'
  <2>1. /\ TypeOK' /\ UNCHANGED <<now, bucket, rows, lastId, seen>>
        /\ \E j : NewJob(r, j)
    BY <1>8, RecordFailsStep, StoreStep, StoreFailsStep DEF IInv
  <2>2. Counting'
    BY <2>1 DEF IInv, Counting
  <2> QED BY <2>1, <2>2, QuietStep DEF IInv
<1>9. ASSUME NEW r \in Replicas, BeginStore(r) PROVE IInv'
  <2>1. /\ TypeOK' /\ Counting' /\ now' = now + 1 /\ UNCHANGED <<rows, lastId>>
        /\ \E j : NewJob(r, j)
    BY <1>9, BeginStoreStep DEF IInv
  <2> QED BY <2>1, QuietStep DEF IInv
<1>10. ASSUME NEW r \in Replicas, Restart(r) PROVE IInv'
  <2>1. /\ TypeOK' /\ Counting' /\ UNCHANGED <<now, rows, lastId>>
        /\ \E j : NewJob(r, j)
    BY <1>10, RestartStep DEF IInv
  <2> QED BY <2>1, QuietStep DEF IInv
<1>11. CASE Tick
  <2>1. Pass /\ UNCHANGED <<bucket, waiting, job, rows, lastId, accepted>>
    BY <1>11 DEF Tick, table
  <2>2. now' \in Nat /\ now' = now + 1 /\ seen' \in [Replicas -> [Buckets -> Nat]] /\ Counting'
    BY <2>1, PassSteps DEF IInv
  <2>3. TypeOK'
    BY <2>1, <2>2 DEF IInv, TypeOK
  <2> QED BY <2>1, <2>2, <2>3, QuietStep DEF IInv
<1> QED BY <1>2, <1>3, <1>4, <1>5, <1>6, <1>7, <1>8, <1>9, <1>10, <1>11 DEF Next

LEMMA Invariance == Spec => []IInv
<1>1. Init => IInv
  BY InitHolds
<1>2. IInv /\ [Next]_vars => IInv'
  BY NextHolds
<1> QED BY <1>1, <1>2, PTL DEF Spec

LEMMA OnlyCommitDeletes ==
  ASSUME [Next]_vars
  PROVE  rows' = rows \/ \E r \in Replicas : Commit(r)
  BY ZenonT(40) DEF Next, vars, table, Arrive, BodyArrives, Insert, Trim, RecordFails, BeginStore, Store,
         StoreFails, Tick, Restart

LEMMA AcceptedGrows ==
  ASSUME IInv, [Next]_vars
  PROVE  \A d \in Devices : accepted[d] \in Nat /\ accepted'[d] \in Nat /\ accepted[d] <= accepted'[d]
<1>1. accepted \in [Devices -> Nat] /\ accepted' \in [Devices -> Nat]
  BY NextHolds DEF IInv, TypeOK
<1>2. CASE accepted' = accepted
  BY <1>1, <1>2
<1>3. CASE \E r \in Replicas : Store(r)
  BY <1>1, <1>3, StoreStep DEF IInv
<1>4. accepted' = accepted \/ \E r \in Replicas : Store(r)
  BY ZenonT(40) DEF Next, vars, Arrive, BodyArrives, Insert, Trim, Commit, RecordFails, BeginStore,
         StoreFails, Tick, Restart
<1> QED BY <1>2, <1>3, <1>4

(***************************************************************************)
(* Every variable keeps its type.                                          *)
(***************************************************************************)
THEOREM TypeCorrect == Spec => []TypeOK
<1>1. IInv => TypeOK
  BY DEF IInv
<1> QED BY <1>1, Invariance, PTL

(***************************************************************************)
(* Whatever the replicas race for, two rows of the same failure within the *)
(* window come of transactions that overlapped: _record_ingest_failure.    *)
(***************************************************************************)
THEOREM RepeatsCollapse == Spec => []OnlyRacersTwice
<1>1. IInv => OnlyRacersTwice
  BY DEF IInv
<1> QED BY <1>1, Invariance, PTL

(***************************************************************************)
(* However many transactions trim the table at a time, a row that goes is  *)
(* past its age, or MaxRows newer ones stay.                               *)
(***************************************************************************)
THEOREM TrimmedFromTheEnd == Spec => NewestSurvive
<1> DEFINE Spares == \A row \in rows \ rows' :
                       row \in Aged(rows, now) \/ Cardinality(Newer(rows', row)) >= MaxRows
<1>1. IInv /\ [Next]_vars => [Spares]_vars
  <2> SUFFICES ASSUME IInv, [Next]_vars, NEW row \in rows \ rows'
               PROVE  row \in Aged(rows, now) \/ Cardinality(Newer(rows', row)) >= MaxRows
    OBVIOUS
  <2>1. PICK r \in Replicas : Commit(r)
    BY OnlyCommitDeletes
  <2>2. row \in job[r].doomed
    BY <2>1, CommitRows, StoredIs
  <2> QED BY <2>1, <2>2, CommitSpares DEF Old, Aged
<1> QED BY <1>1, Invariance, PTL DEF Spec, NewestSurvive

(***************************************************************************)
(* A rejection whose recording committed left a row, its own or the one it *)
(* collapsed into, or MaxRows as recent, or it took longer than the slack  *)
(* between the retention and the window.                                   *)
(***************************************************************************)
THEOREM NoRejectionLost == Spec => RejectionLeavesARow
<1> DEFINE Leaves == \A r \in Replicas : Commit(r) => Answered(rows', r)
<1>1. IInv /\ [Next]_vars => [Leaves]_vars
  BY CommitAnswers
<1>2. [Leaves]_vars =>
      [\A r \in Replicas : Commit(r) =>
       \/ \E row \in rows' : /\ Alike(row, job[r].serial, Head(job[r].todo).reason, job[r].dev)
                             /\ Recent(row, job[r].at)
       \/ Cardinality({row \in rows' : Recent(row, job[r].at)}) >= MaxRows
       \/ now - Retention > job[r].at - DedupWindow]_vars
  BY DEF Answered
<1> QED BY <1>1, <1>2, Invariance, PTL DEF Spec, RejectionLeavesARow

(***************************************************************************)
(* last_accepted_at only grows, so that get_ingest_failures never takes    *)
(* back that a dropped upload was retried.                                 *)
(***************************************************************************)
THEOREM RetriedStays == Spec => NeverRejectedAgain
<1>1. IInv /\ [Next]_vars =>
        [\A row \in rows \cap rows' : Outcome(row) = "retried" => (Outcome(row) = "retried")']_vars
  <2> SUFFICES ASSUME IInv, [Next]_vars, NEW row \in rows \cap rows', Outcome(row) = "retried"
               PROVE  (Outcome(row) = "retried")'
    OBVIOUS
  <2>1. row \in Rows
    BY DEF IInv, TypeOK
  <2>2. Retried(row) /\ ~(row.status < 400)
    BY <2>1 DEF Outcome, Retried, Rows
  <2>3. Retried(row)'
    <3>1. row.serial \in Devices /\ row.at \in Nat
      BY <2>1, <2>2 DEF Retried, Rows
    <3>2. accepted[row.serial] > row.at
      BY <2>2 DEF Retried
    <3>3. accepted'[row.serial] > row.at
      BY <3>1, <3>2, AcceptedGrows
    <3> QED BY <2>2, <3>3 DEF Retried
  <2> QED BY <2>2, <2>3 DEF Outcome
<1> QED BY <1>1, Invariance, PTL DEF Spec, NeverRejectedAgain

(***************************************************************************)
(* The counts of a replica are those of this minute, to the request, so    *)
(* that it throttles exactly what is over a limit: _allow, dispatch.       *)
(***************************************************************************)
THEOREM LimitIsExact == Spec => FairLimit
<1>1. IInv /\ [Next]_vars =>
        [\A r \in Replicas, d \in Devices : Arrive(r, d) =>
          ((job'[r].todo = <<Rejection("rate_limited", 429)>>) <=> Over(seen'[r], d))]_vars
  BY ArriveStep DEF IInv
<1> QED BY <1>1, Invariance, PTL DEF Spec, FairLimit
=============================================================================
