---------------------------- MODULE InsightsCache ----------------------------
(***************************************************************************)
(* The dashboard insights cache: cards computed by threads, shared by the  *)
(* requests of one event loop, and kept warm by a background refresher.    *)
(*                                                                         *)
(* A value that is there is served at once, past its TTL too, and asking   *)
(* past the TTL starts a refresh.  A key that is not there is computed by  *)
(* one task, however many callers wait for it.  The tasks share a          *)
(* semaphore; the refresher takes the default keys one after the other,    *)
(* without the semaphore and without registering what it computes.         *)
(*                                                                         *)
(* The event loop runs one callback at a time, so everything between two   *)
(* awaits is one action.  A computation runs in a thread: what it read,    *)
(* the database version at that moment, is fixed some time before the loop *)
(* gets to store it.                                                       *)
(***************************************************************************)
EXTENDS Naturals, Sequences, FiniteSets, SequencesExt

CONSTANTS
  Keys,         \* cache keys: a card or report with its scope and filters
  DefaultKeys,  \* the keys of a refresh pass, in order
  Callers,      \* client requests that can be open at once
  Tasks,        \* bound: computations for callers that can be under way at once
  None,         \* no value, no task
  MaxEntries,   \* INSIGHTS_CACHE_MAX_ENTRIES
  Concurrency,  \* permits of the semaphore
  MaxVersion,   \* bound: how often the data changes
  Background    \* INSIGHTS_BACKGROUND_REFRESH

Versions == 0 .. MaxVersion

(* A result is the version it was computed from; an error card is one too, with a shorter TTL. *)
Values == Versions

ASSUME KeysAssumption == DefaultKeys \in Seq(Keys)
ASSUME NoneAssumption == None \notin Values /\ None \notin Tasks
ASSUME BoundsAssumption ==
  MaxEntries \in Nat \ {0} /\ Concurrency \in Nat \ {0} /\ MaxVersion \in Nat
ASSUME BackgroundAssumption == Background \in BOOLEAN

VARIABLES
  version,   \* the data the cards are computed from
  value,     \* value[k]: the cached result, or None
  order,     \* the cached keys, least recently stored first
  fresh,     \* keys whose value is within its TTL
  inflight,  \* inflight[k]: the registered task of k, or None
  task,      \* task[t]: key, phase and result of a computation
  permits,   \* free permits of the semaphore
  queue,     \* tasks waiting for a permit, first come first served
  caller,    \* caller[c]: the task a request waits for, or None
  refresher, \* stage, position in DefaultKeys, what it read or waits for
  doubled    \* keys a request has computed while the refresher computes them, until both have ended

cache == <<value, order, fresh>>
tasks == <<inflight, task, permits, queue, doubled>>
vars == <<version, cache, tasks, caller, refresher>>

Phases == {"free", "queued", "running", "read", "done", "raised"}
Stages == {"off", "sleep", "turn", "await", "running", "read", "pause"}
NoTask == [key |-> None, phase |-> "free", result |-> None]

(* Not finished yet: task.done() is false. *)
Live(t) == task[t].phase \in {"queued", "running", "read"}

TypeOK ==
  /\ version \in Versions
  /\ value \in [Keys -> Values \cup {None}]
  /\ order \in Seq(Keys)
  /\ fresh \in SUBSET Keys
  /\ inflight \in [Keys -> Tasks \cup {None}]
  /\ task \in [Tasks -> [key: Keys \cup {None}, phase: Phases, result: Values \cup {None}]]
  /\ permits \in 0 .. Concurrency
  /\ queue \in Seq(Tasks)
  /\ caller \in [Callers -> Tasks \cup {None}]
  /\ refresher \in [stage: Stages, pos: Nat, task: Tasks \cup {None}, result: Values \cup {None}]
  /\ doubled \in SUBSET Keys

Init ==
  /\ version = 0
  /\ value = [k \in Keys |-> None]
  /\ order = <<>>
  /\ fresh = {}
  /\ inflight = [k \in Keys |-> None]
  /\ task = [t \in Tasks |-> NoTask]
  /\ permits = Concurrency
  /\ queue = <<>>
  /\ caller = [c \in Callers |-> None]
  /\ refresher = [stage |-> IF Background THEN "sleep" ELSE "off", pos |-> 1,
                  task |-> None, result |-> None]
  /\ doubled = {}

-----------------------------------------------------------------------------
(* The cache *)

(* The sequence s without k, which has at most one place in it. *)
Without(s, k) ==
  IF \A i \in DOMAIN s : s[i] # k THEN s
  ELSE LET at == CHOOSE i \in DOMAIN s : s[i] = k
       IN SubSeq(s, 1, at - 1) \o SubSeq(s, at + 1, Len(s))

(* Mutation: room is made before the key's own old place is given up. *)
Kept_Early(k) ==
  IF Len(order) >= MaxEntries THEN Append(Without(Tail(order), k), k)
  ELSE Append(Without(order, k), k)

(* The order after storing k: k moves to the end, and the oldest go over the limit. *)
Kept(k) ==
  LET moved == Append(Without(order, k), k)
      surplus == IF Len(moved) > MaxEntries THEN Len(moved) - MaxEntries ELSE 0
  IN SubSeq(moved, surplus + 1, Len(moved))

Store(k, v) ==
  /\ order' = Kept(k)
  /\ value' = [x \in Keys |-> IF x = k THEN v ELSE IF x \in ToSet(order') THEN value[x] ELSE None]
  /\ fresh' = (fresh \cap ToSet(order')) \cup {k}

(* A value passes its TTL: five minutes, or one minute when it is an error. *)
Expire(k) ==
  /\ k \in fresh
  /\ fresh' = fresh \ {k}
  /\ UNCHANGED <<version, value, order, tasks, caller, refresher>>

(* Ingest changes what a card would be computed from. *)
Change ==
  /\ version < MaxVersion
  /\ version' = version + 1
  /\ UNCHANGED <<cache, tasks, caller, refresher>>

-----------------------------------------------------------------------------
(* Computations on behalf of callers *)

Running(k) == inflight[k] # None /\ Live(inflight[k])
Turn == DefaultKeys[refresher.pos]

(* The refresher computes k now; nothing tells a request so. *)
Refreshing(k) == refresher.stage \in {"running", "read"} /\ Turn = k

Start(k, t) ==
  /\ task[t].phase = "free"
  /\ task' = [task EXCEPT ![t] = [key |-> k, phase |-> "queued", result |-> None]]
  /\ inflight' = [inflight EXCEPT ![k] = t]
  /\ queue' = Append(queue, t)
  /\ doubled' = doubled \cup {x \in {k} : Refreshing(x)}
  /\ UNCHANGED permits

(* The running computation of k, which is t, started if there is none. *)
Refresh(k, t) ==
  \/ Running(k) /\ t = inflight[k] /\ UNCHANGED tasks
  \/ ~Running(k) /\ Start(k, t)

(* The semaphore lets the first in the queue in, and its thread starts. *)
Acquire(t) ==
  /\ task[t].phase = "queued" /\ Head(queue) = t
  /\ permits > 0
  /\ permits' = permits - 1
  /\ queue' = Tail(queue)
  /\ task' = [task EXCEPT ![t].phase = "running"]
  /\ UNCHANGED <<version, cache, inflight, doubled, caller, refresher>>

(* The thread has read the data. *)
Read(t) ==
  /\ task[t].phase = "running"
  /\ task' = [task EXCEPT ![t].phase = "read", ![t].result = version]
  /\ UNCHANGED <<version, cache, inflight, permits, queue, doubled, caller, refresher>>

(* The key of a computation that ends is doubled no more once the other has ended. *)
TaskEnds(t) == doubled' = doubled \ {k \in {task[t].key} : ~Refreshing(k)}

(* The loop gets the thread's result: the permit is returned and the value stored. *)
Complete(t) ==
  /\ task[t].phase = "read"
  /\ permits' = permits + 1
  /\ Store(task[t].key, task[t].result)
  /\ task' = [task EXCEPT ![t].phase = "done", ![t].result = None]
  /\ TaskEnds(t)
  /\ UNCHANGED <<version, inflight, queue, caller, refresher>>

(* Mutation: a computation that raises keeps its permit. *)
Raise_KeepsPermit(t) ==
  /\ task[t].phase \in {"running", "read"}
  /\ task' = [task EXCEPT ![t].phase = "raised", ![t].result = None]
  /\ UNCHANGED <<version, cache, inflight, permits, queue, doubled, caller, refresher>>

(* The computation raised: nothing is stored. *)
Raise(t) ==
  /\ task[t].phase \in {"running", "read"}
  /\ permits' = permits + 1
  /\ task' = [task EXCEPT ![t].phase = "raised", ![t].result = None]
  /\ TaskEnds(t)
  /\ UNCHANGED <<version, cache, inflight, queue, caller, refresher>>

(* Mutation: the registration is dropped whoever it belongs to. *)
Forgotten_Any(t) == [inflight EXCEPT ![task[t].key] = None]

(* The registration of a finished task is dropped, unless another has taken its place. *)
Forgotten(t) ==
  [k \in Keys |-> IF inflight[k] = t THEN None ELSE inflight[k]]

(***************************************************************************)
(* The done callbacks of a task run: its registration is dropped, and who  *)
(* awaits it, callers and refresher, is woken with its result.             *)
(***************************************************************************)
Finished(t) ==
  /\ task[t].phase \in {"done", "raised"}
  /\ inflight' = Forgotten(t)
  /\ task' = [task EXCEPT ![t] = NoTask]
  /\ caller' = [c \in Callers |-> IF caller[c] = t THEN None ELSE caller[c]]
  /\ refresher' = IF refresher.stage = "await" /\ refresher.task = t
                  THEN [refresher EXCEPT !.stage = "pause", !.task = None] ELSE refresher
  /\ UNCHANGED <<version, cache, permits, queue, doubled>>

-----------------------------------------------------------------------------
(* Callers *)

(* A value that is there is served as it is; past its TTL a refresh is started. *)
AskCached(c, k) ==
  /\ caller[c] = None
  /\ value[k] # None
  /\ IF k \in fresh THEN UNCHANGED tasks ELSE \E t \in Tasks : Refresh(k, t)
  /\ UNCHANGED <<version, cache, caller, refresher>>

(* A value that is not there is waited for. *)
AskMissing(c, k) ==
  /\ caller[c] = None
  /\ value[k] = None
  /\ \E t \in Tasks :
       /\ Refresh(k, t)
       /\ caller' = [caller EXCEPT ![c] = t]
  /\ UNCHANGED <<version, cache, refresher>>

(* The client disconnects: only its own wait ends. *)
Leave(c) ==
  /\ caller[c] # None
  /\ caller' = [caller EXCEPT ![c] = None]
  /\ UNCHANGED <<version, cache, tasks, refresher>>

-----------------------------------------------------------------------------
(* The background refresher *)

(* The warm delay or the interval is over: a pass begins. *)
BeginPass ==
  /\ refresher.stage = "sleep"
  /\ DefaultKeys # <<>>
  /\ refresher' = [refresher EXCEPT !.stage = "turn", !.pos = 1]
  /\ UNCHANGED <<version, cache, tasks, caller>>

(* Mutation: the refresher does not look for a computation that is under way. *)
TakeTurn_Computes ==
  /\ refresher.stage = "turn"
  /\ refresher' = [refresher EXCEPT !.stage = "running"]
  /\ UNCHANGED <<version, cache, tasks, caller>>

(* A computation of the key that is under way is awaited, else one is started. *)
TakeTurn ==
  /\ refresher.stage = "turn"
  /\ refresher' = IF Running(Turn)
                  THEN [refresher EXCEPT !.stage = "await", !.task = inflight[Turn]]
                  ELSE [refresher EXCEPT !.stage = "running"]
  /\ UNCHANGED <<version, cache, tasks, caller>>

RefresherRead ==
  /\ refresher.stage = "running"
  /\ refresher' = [refresher EXCEPT !.stage = "read", !.result = version]
  /\ UNCHANGED <<version, cache, tasks, caller>>

RefresherEnds ==
  /\ refresher' = [refresher EXCEPT !.stage = "pause", !.result = None]
  /\ doubled' = doubled \ {k \in {Turn} : ~\E t \in Tasks : Live(t) /\ task[t].key = k}

RefresherStore ==
  /\ refresher.stage = "read"
  /\ Store(Turn, refresher.result)
  /\ RefresherEnds
  /\ UNCHANGED <<version, inflight, task, permits, queue, caller>>

(* Mutation: a card that fails ends the pass. *)
RefresherFails_EndsPass ==
  /\ refresher.stage \in {"running", "read"}
  /\ refresher' = [refresher EXCEPT !.stage = "sleep", !.result = None]
  /\ UNCHANGED <<version, cache, tasks, caller>>

(* A failure is logged; the pass goes on with the next key. *)
RefresherFails ==
  /\ refresher.stage \in {"running", "read"}
  /\ RefresherEnds
  /\ UNCHANGED <<version, cache, inflight, task, permits, queue, caller>>

EndPause ==
  /\ refresher.stage = "pause"
  /\ refresher' = IF refresher.pos < Len(DefaultKeys)
                  THEN [refresher EXCEPT !.stage = "turn", !.pos = @ + 1]
                  ELSE [refresher EXCEPT !.stage = "sleep"]
  /\ UNCHANGED <<version, cache, tasks, caller>>

(***************************************************************************)
(* Shutdown cancels the refresher wherever it awaits.  Requests have ended *)
(* by then; a thread it had started runs on, and its result is dropped.    *)
(***************************************************************************)
StopWarmup ==
  /\ refresher.stage # "off"
  /\ \A c \in Callers : caller[c] = None
  /\ refresher' = [refresher EXCEPT !.stage = "off", !.task = None, !.result = None]
  /\ UNCHANGED <<version, cache, tasks, caller>>

-----------------------------------------------------------------------------
TaskStep(t) == Acquire(t) \/ Read(t) \/ Complete(t) \/ Raise(t) \/ Finished(t)

RefresherStep ==
  \/ BeginPass \/ TakeTurn \/ RefresherRead \/ RefresherStore \/ RefresherFails \/ EndPause

Next ==
  \/ Change
  \/ \E k \in Keys : Expire(k)
  \/ \E t \in Tasks : TaskStep(t)
  \/ \E c \in Callers :
       \/ \E k \in Keys : AskCached(c, k) \/ AskMissing(c, k)
       \/ Leave(c)
  \/ RefresherStep
  \/ StopWarmup

Spec == Init /\ [][Next]_vars

(***************************************************************************)
(* The event loop gets to every callback, and a thread ends: its           *)
(* statements run under a timeout.                                         *)
(***************************************************************************)
FairSpec ==
  Spec /\ WF_vars(RefresherStep) /\ \A t \in Tasks : WF_vars(TaskStep(t))
-----------------------------------------------------------------------------
(***************************************************************************)
(* Single flight: two computations on behalf of callers are never under    *)
(* way for one key, and the one that is can be found, so that whoever asks *)
(* next shares it.  The done callback of an old task must not unregister   *)
(* the new one.                                                            *)
(***************************************************************************)
SingleFlight ==
  \A t \in Tasks : Live(t) => inflight[task[t].key] = t

(***************************************************************************)
(* A key's value never gets older, what was stored last was read last, but *)
(* for one case: a request had the key computed while the refresher was    *)
(* computing it, unregistered, and the two have not both ended.  That they *)
(* may end in the wrong order the code accepts; afterwards, and in every   *)
(* other order of tasks, passes and callbacks, it does not happen.         *)
(***************************************************************************)
NeverOlder ==
  [][\A k \in Keys \ doubled :
       value[k] \in Versions /\ value'[k] \in Versions => value[k] <= value'[k]]_value

(***************************************************************************)
(* A refresh never makes the cache smaller than it has room for.           *)
(***************************************************************************)
RoomIsUsed ==
  [][Len(order') >= Len(order)]_order

(***************************************************************************)
(* Every caller that waits is answered, whether or not others leave the    *)
(* computation it shares, and whatever fails: a permit is never lost.      *)
(***************************************************************************)
EveryCallerAnswered == \A c \in Callers : caller[c] # None ~> caller[c] = None

(***************************************************************************)
(* Until it is stopped, the refresher gets to every default key again and  *)
(* again: neither a card that fails, each time it is computed, nor a       *)
(* computation it shares keeps the keys after it waiting for good.         *)
(***************************************************************************)
EveryCardGetsItsTurn ==
  \A i \in DOMAIN DefaultKeys :
    []<>(refresher.stage = "off" \/ (refresher.stage = "turn" /\ refresher.pos = i))
=============================================================================
