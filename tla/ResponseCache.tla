--------------------------- MODULE ResponseCache ---------------------------
(***************************************************************************)
(* The response cache of one API process: an OrderedDict that threadpool   *)
(* handlers and the event loop share without a lock.                       *)
(*                                                                         *)
(* A single dict operation is atomic under the interpreter lock, and       *)
(* nothing more: cache_set is an insert, a move, a scan, a pop for each    *)
(* expired entry and an eviction loop, with any other thread in between.   *)
(* A scan of an OrderedDict raises when another thread changes the order   *)
(* of its entries under it.                                                *)
(*                                                                         *)
(* What the endpoints answer is abstracted to the version of the database  *)
(* they were computed from.  An admin write commits first and clears the   *)
(* cache second; ingest commits and clears nothing.                        *)
(***************************************************************************)
EXTENDS Integers, Sequences, FiniteSets

Seqs == INSTANCE SequencesExt

CONSTANTS
  Threads,     \* requests being handled, in the pool or on the event loop
  Keys,        \* cache keys: a namespace and the query string
  Shared,      \* keys computed by one request at a time (the dashboard)
  None,        \* no thread, no key
  MaxEntries,  \* RESPONSE_CACHE_MAX_ENTRIES
  MaxWrites    \* bound: writes to the database

\* The thread pool is bounded, and there is one event loop.
ASSUME ThreadsAssumption == IsFiniteSet(Threads)
ASSUME KeysAssumption == Shared \subseteq Keys
ASSUME NoneAssumption == None \notin Threads \cup Keys
ASSUME CapAssumption == MaxEntries \in Nat \ {0} /\ MaxWrites \in Nat

VARIABLES
  cache,    \* the OrderedDict, oldest entry first
  version,  \* committed state of the database
  writer,   \* the admin write: "idle", or "committed" and about to clear
  cleared,  \* the version the last finished admin write made visible
  pc, want, \* pc[t], want[t]: where thread t is, the key it is after
  read,     \* read[t]: the version its own query saw
  doomed,   \* doomed[t]: expired keys its scan found and it has yet to pop
  spoiled,  \* spoiled[t]: the order changed under the scan of t
  holder,   \* holder[k]: the request that holds the lock of a shared key
  late,     \* late[t]: the cache was cleared after t had run its query
  torn      \* a write was cut short since the last one that was not

request == <<pc, want, read, doomed>>
vars == <<cache, version, writer, cleared, request, spoiled, holder, late, torn>>

Stages == {"idle", "get", "drop", "wait", "query", "insert", "move", "begin", "scan",
           "pop", "cap", "evict"}
Entry == [key: Keys, ver: Nat, old: BOOLEAN, late: BOOLEAN]

TypeOK ==
  /\ cache \in Seq(Entry)
  /\ \A i, j \in DOMAIN cache : cache[i].key = cache[j].key => i = j
  /\ version \in Nat /\ cleared \in Nat
  /\ writer \in {"idle", "committed"}
  /\ pc \in [Threads -> Stages]
  /\ want \in [Threads -> Keys \cup {None}]
  /\ \A t \in Threads : pc[t] # "idle" => want[t] \in Keys
  /\ read \in [Threads -> Nat]
  /\ doomed \in [Threads -> Seq(Keys)]
  /\ spoiled \in [Threads -> BOOLEAN]
  /\ holder \in [Shared -> Threads \cup {None}]
  /\ late \in [Threads -> BOOLEAN]
  /\ torn \in BOOLEAN

-----------------------------------------------------------------------------
(* The OrderedDict *)

Has(k) == \E i \in DOMAIN cache : cache[i].key = k
At(k) == CHOOSE i \in DOMAIN cache : cache[i].key = k
Without(k) ==
  IF Has(k) THEN SubSeq(cache, 1, At(k) - 1) \o SubSeq(cache, At(k) + 1, Len(cache))
  ELSE cache

(* The order or the membership changed: every scan under way raises. *)
Spoil == spoiled' = [t \in Threads |-> spoiled[t] \/ pc[t] = "scan"]

(* pop(k, None) *)
Remove(k) ==
  /\ cache' = Without(k)
  /\ IF Has(k) THEN Spoil ELSE UNCHANGED spoiled

(* Mutation: expiry is never looked at. *)
Fresh_Forever(k) == Has(k)

(* A read is answered from the cache by an entry younger than its TTL. *)
Fresh(k) == Has(k) /\ ~cache[At(k)].old

Goto(t, stage) == pc' = [pc EXCEPT ![t] = stage]

Init ==
  /\ cache = <<>>
  /\ version = 0 /\ cleared = 0 /\ writer = "idle"
  /\ pc = [t \in Threads |-> "idle"]
  /\ want = [t \in Threads |-> None]
  /\ read = [t \in Threads |-> 0]
  /\ doomed = [t \in Threads |-> <<>>]
  /\ spoiled = [t \in Threads |-> FALSE]
  /\ holder = [k \in Shared |-> None]
  /\ late = [t \in Threads |-> FALSE]
  /\ torn = FALSE

-----------------------------------------------------------------------------
(* A request *)

(* Answered or failed: the lock it holds is released either way. *)
Leave(t) ==
  /\ Goto(t, "idle")
  /\ want' = [want EXCEPT ![t] = None]
  /\ read' = [read EXCEPT ![t] = 0]
  /\ doomed' = [doomed EXCEPT ![t] = <<>>]
  /\ holder' = [k \in Shared |-> IF holder[k] = t THEN None ELSE holder[k]]
  /\ late' = [late EXCEPT ![t] = FALSE]

Ask(t, k) ==
  /\ pc[t] = "idle"
  /\ want' = [want EXCEPT ![t] = k]
  /\ Goto(t, "get")
  /\ UNCHANGED <<cache, version, writer, cleared, read, doomed, spoiled, holder, late, torn>>

Hit(t) ==
  /\ pc[t] = "get"
  /\ Fresh(want[t])
  /\ Leave(t)
  /\ UNCHANGED <<cache, version, writer, cleared, spoiled, torn>>

(* Mutation: the dashboard is computed without its lock. *)
Missed_NoLock(t) == "query"

(* Where a request goes that the cache does not answer. *)
Missed(t) ==
  IF want[t] \in Shared /\ holder[want[t]] # t THEN "wait" ELSE "query"

Miss(t) ==
  /\ pc[t] = "get"
  /\ ~Fresh(want[t])
  /\ Goto(t, IF Has(want[t]) THEN "drop" ELSE Missed(t))
  /\ UNCHANGED <<cache, version, writer, cleared, want, read, doomed, spoiled, holder, late, torn>>

(* cache_get pops the expired entry it found, or the one that took its place. *)
Drop(t) ==
  /\ pc[t] = "drop"
  /\ Remove(want[t])
  /\ Goto(t, Missed(t))
  /\ UNCHANGED <<version, writer, cleared, want, read, doomed, holder, late, torn>>

(* The lock of the key is its own: look again before computing. *)
Lock(t) ==
  /\ pc[t] = "wait"
  /\ holder[want[t]] = None
  /\ holder' = [holder EXCEPT ![want[t]] = t]
  /\ Goto(t, "get")
  /\ UNCHANGED <<cache, version, writer, cleared, want, read, doomed, spoiled, late, torn>>

Query(t) ==
  /\ pc[t] = "query"
  /\ read' = [read EXCEPT ![t] = version]
  /\ Goto(t, "insert")
  /\ UNCHANGED <<cache, version, writer, cleared, want, doomed, spoiled, holder, late, torn>>

(* Mutation: a computation that fails keeps the lock of its key. *)
QueryFails_KeepsLock(t) ==
  /\ pc[t] = "query"
  /\ Goto(t, "idle")
  /\ want' = [want EXCEPT ![t] = None]
  /\ UNCHANGED <<cache, version, writer, cleared, read, doomed, spoiled, holder, late, torn>>

(* The query raised: the request fails and nothing is stored. *)
QueryFails(t) ==
  /\ pc[t] = "query"
  /\ Leave(t)
  /\ UNCHANGED <<cache, version, writer, cleared, spoiled, torn>>

-----------------------------------------------------------------------------
(* cache_set *)

(* The key keeps its place in the order when it is there already. *)
Insert(t) ==
  LET e == [key |-> want[t], ver |-> read[t], old |-> FALSE, late |-> late[t]] IN
  /\ pc[t] = "insert"
  /\ IF Has(want[t])
     THEN cache' = [cache EXCEPT ![At(want[t])] = e] /\ UNCHANGED spoiled
     ELSE cache' = Append(cache, e) /\ Spoil
  /\ Goto(t, "move")
  /\ UNCHANGED <<version, writer, cleared, want, read, doomed, holder, late, torn>>

Move(t) ==
  /\ pc[t] = "move"
  /\ Has(want[t])
  /\ cache' = Append(Without(want[t]), cache[At(want[t])])
  /\ IF cache' # cache THEN Spoil ELSE UNCHANGED spoiled
  /\ Goto(t, "begin")
  /\ UNCHANGED <<version, writer, cleared, want, read, doomed, holder, late, torn>>

(* KeyError: the entry was cleared, evicted or popped since it was inserted. *)
MoveRaises(t) ==
  /\ pc[t] = "move"
  /\ ~Has(want[t])
  /\ Leave(t)
  /\ UNCHANGED <<cache, version, writer, cleared, spoiled, torn>>

BeginScan(t) ==
  /\ pc[t] = "begin"
  /\ spoiled' = [spoiled EXCEPT ![t] = FALSE]
  /\ Goto(t, IF cache = <<>> THEN "cap" ELSE "scan")
  /\ UNCHANGED <<cache, version, writer, cleared, want, read, doomed, holder, late, torn>>

(* The keys of the entries past their TTL, oldest first. *)
Expired(t) ==
  Seqs!FlattenSeq([i \in DOMAIN cache |-> IF cache[i].old THEN <<cache[i].key>> ELSE <<>>])

EndScan(t) ==
  /\ pc[t] = "scan"
  /\ ~spoiled[t]
  /\ doomed' = [doomed EXCEPT ![t] = Expired(t)]
  /\ Goto(t, "pop")
  /\ UNCHANGED <<cache, version, writer, cleared, want, read, spoiled, holder, late, torn>>

(* RuntimeError: mutated during iteration.  The insert stays, the cap is not applied. *)
ScanRaises(t) ==
  /\ pc[t] = "scan"
  /\ spoiled[t]
  /\ torn' = TRUE
  /\ Leave(t)
  /\ UNCHANGED <<cache, version, writer, cleared, spoiled>>

Pop(t) ==
  /\ pc[t] = "pop"
  /\ doomed[t] # <<>>
  /\ Remove(Head(doomed[t]))
  /\ doomed' = [doomed EXCEPT ![t] = Tail(@)]
  /\ UNCHANGED <<version, writer, cleared, pc, want, read, holder, late, torn>>

Popped(t) ==
  /\ pc[t] = "pop"
  /\ doomed[t] = <<>>
  /\ Goto(t, "cap")
  /\ UNCHANGED <<cache, version, writer, cleared, want, read, doomed, spoiled, holder, late, torn>>

(* Mutation: one entry too many is let be. *)
OverCap_OffByOne(t) == Len(cache) > MaxEntries + 1

OverCap(t) == Len(cache) > MaxEntries

CheckCap(t) ==
  /\ pc[t] = "cap"
  /\ OverCap(t)
  /\ Goto(t, "evict")
  /\ UNCHANGED <<cache, version, writer, cleared, want, read, doomed, spoiled, holder, late, torn>>

(* popitem(last=False) *)
Evict(t) ==
  /\ pc[t] = "evict"
  /\ cache # <<>>
  /\ cache' = Tail(cache)
  /\ Spoil
  /\ Goto(t, "cap")
  /\ UNCHANGED <<version, writer, cleared, want, read, doomed, holder, late, torn>>

(* KeyError: the cache was cleared after the length was looked at. *)
EvictRaises(t) ==
  /\ pc[t] = "evict"
  /\ cache = <<>>
  /\ Leave(t)
  /\ UNCHANGED <<cache, version, writer, cleared, spoiled, torn>>

Answer(t) ==
  /\ pc[t] = "cap"
  /\ ~OverCap(t)
  /\ torn' = FALSE
  /\ Leave(t)
  /\ UNCHANGED <<cache, version, writer, cleared, spoiled>>

-----------------------------------------------------------------------------
(* Writes to the database, and time *)

(* Ingest commits; what it wrote becomes visible as entries expire. *)
Ingest ==
  /\ version < MaxWrites
  /\ version' = version + 1
  /\ UNCHANGED <<cache, writer, cleared, request, spoiled, holder, late, torn>>

(* conn.commit() of an admin or a settings write. *)
Commit ==
  /\ writer = "idle"
  /\ version < MaxWrites
  /\ version' = version + 1
  /\ writer' = "committed"
  /\ UNCHANGED <<cache, cleared, request, spoiled, holder, late, torn>>

(* Mutation: an admin write clears only what has expired. *)
Invalidate_Expired ==
  /\ writer = "committed"
  /\ writer' = "idle"
  /\ cleared' = version
  /\ cache' = SelectSeq(cache, LAMBDA e : ~e.old)
  /\ Spoil
  /\ late' = [t \in Threads |-> late[t] \/ pc[t] = "insert"]
  /\ UNCHANGED <<version, request, holder, torn>>

(***************************************************************************)
(* invalidate_caches() after the commit: everything goes.  A thread that   *)
(* has run its query and not inserted yet will bring an old answer back.   *)
(***************************************************************************)
Invalidate ==
  /\ writer = "committed"
  /\ writer' = "idle"
  /\ cleared' = version
  /\ cache' = <<>>
  /\ IF cache # <<>> THEN Spoil ELSE UNCHANGED spoiled
  /\ late' = [t \in Threads |-> late[t] \/ pc[t] = "insert"]
  /\ UNCHANGED <<version, request, holder, torn>>

(* The TTL of an entry runs out. *)
Expire(k) ==
  /\ Fresh(k)
  /\ cache' = [cache EXCEPT ![At(k)].old = TRUE]
  /\ UNCHANGED <<version, writer, cleared, request, spoiled, holder, late, torn>>

Progress(t) ==
  \/ Hit(t) \/ Miss(t) \/ Drop(t) \/ Query(t) \/ QueryFails(t)
  \/ Insert(t) \/ Move(t) \/ MoveRaises(t) \/ BeginScan(t) \/ EndScan(t) \/ ScanRaises(t)
  \/ Pop(t) \/ Popped(t) \/ CheckCap(t) \/ Evict(t) \/ EvictRaises(t) \/ Answer(t)

Next ==
  \/ \E t \in Threads :
       \/ \E k \in Keys : Ask(t, k)
       \/ Progress(t) \/ Lock(t)
  \/ Ingest \/ Commit \/ Invalidate
  \/ \E k \in Keys : Expire(k)

Spec == Init /\ [][Next]_vars

(***************************************************************************)
(* A thread runs on, time passes and an admin write is finished.  Nobody   *)
(* need take a lock, and nobody need ask.                                  *)
(***************************************************************************)
FairSpec ==
  /\ Spec
  /\ \A t \in Threads : WF_vars(Progress(t))
  /\ \A k \in Keys : WF_vars(Expire(k))
  /\ WF_vars(Invalidate)
-----------------------------------------------------------------------------
Writing(t) == pc[t] \in {"move", "begin", "scan", "pop", "cap", "evict"}

(***************************************************************************)
(* The hard cap holds however writes interleave: unless a scan was spoiled *)
(* since the last write that ran to its end, the cache is over its cap by  *)
(* no more than the writes under way.                                      *)
(***************************************************************************)
CapHeld ==
  ~torn => Len(cache) <= MaxEntries + Cardinality({t \in Threads : Writing(t)})

(***************************************************************************)
(* An entry older than the last finished admin write was stored by a       *)
(* request that had run its query before that write cleared the cache:     *)
(* whoever looks at the database after the write stores what it wrote.     *)
(***************************************************************************)
StaleOnlyFromRacers ==
  \A i \in DOMAIN cache : cache[i].ver < cleared => cache[i].late

(***************************************************************************)
(* A shared key is computed by one request at a time, from its query to    *)
(* the last step of storing it.                                            *)
(***************************************************************************)
OneComputation ==
  \A t, u \in Threads :
    /\ want[t] = want[u] /\ want[t] \in Shared
    /\ pc[t] \in {"query", "insert"} /\ pc[u] \in {"query", "insert"}
    => t = u

(***************************************************************************)
(* What the cache answers catches up with the database: when the writes    *)
(* have ended, every answer from the cache is in the end the current one,  *)
(* those brought back by late requests included.                           *)
(***************************************************************************)
AnswersCatchUp ==
  <>[][\A t \in Threads :
         pc[t] = "get" /\ pc'[t] = "idle" => cache[At(want[t])].ver = version]_vars

(***************************************************************************)
(* The lock of a shared key is given back, whatever the request that holds *)
(* it runs into, unless it makes room: that loop has no end while others   *)
(* keep storing.                                                           *)
(***************************************************************************)
LockIsFreed ==
  \A k \in Shared : holder[k] # None ~> holder[k] = None \/ pc[holder[k]] = "evict"
=============================================================================
