---------------------------- MODULE UsageHistory ----------------------------
(***************************************************************************)
(* The maintenance of usage_history: the baseline reset that moves rows to *)
(* usage_history_archive, the retention cleanup, the export, while devices *)
(* go on adding deltas.                                                    *)
(*                                                                         *)
(* A delta is what one check-in adds to one row.  It cannot be recomputed, *)
(* so what becomes of each is what matters here: a row is the set of the   *)
(* deltas it has accumulated, and is not there when the set is empty.      *)
(*                                                                         *)
(* Postgres runs everything at READ COMMITTED: the two statements of a     *)
(* reset see the rows committed when each of them starts.  Only the second *)
(* one locks what it touches, until the transaction ends.                  *)
(***************************************************************************)
EXTENDS Integers, FiniteSets

CONSTANTS
  Keys,         \* rows by date, device and application, in this order: 1, 2, ...
  Date, Owner,  \* Date[k], Owner[k]: the day and the device of row k
  Deltas,       \* what check-ins add
  Target,       \* Target[d]: the row delta d goes to
  Admins,       \* reset requests being handled
  Scopes,       \* what a reset is asked to remove: a cutoff, and devices or none
  Cutoffs,      \* cutoffs of the retention cleanup
  None,         \* no scope
  Batch,        \* EXPORT_BATCH
  MaxRequests,  \* bound: resets
  MaxRemovals,  \* bound: cleanups and deleted devices
  MaxExports    \* bound: exports

Devices == {Owner[k] : k \in Keys}

ASSUME KeysAssumption ==
  /\ IsFiniteSet(Keys) /\ Keys \subseteq Nat \ {0}
  /\ Date \in [Keys -> Nat] /\ DOMAIN Owner = Keys
  /\ \A j, k \in Keys : j < k => Date[j] <= Date[k]
ASSUME TargetAssumption == Target \in [Deltas -> Keys]
ASSUME ScopesAssumption ==
  /\ Scopes \subseteq [before: Nat, devices: SUBSET Devices] /\ None \notin Scopes
  /\ Cutoffs \subseteq Nat
ASSUME BoundsAssumption ==
  Batch \in Nat \ {0} /\ MaxRequests \in Nat /\ MaxRemovals \in Nat /\ MaxExports \in Nat

VARIABLES
  rows,      \* rows[k]: the deltas in row k of usage_history
  archived,  \* archived[d]: rows of the archive that contain d
  \* the resets
  stage, scope,  \* where request a is, and what it is to remove
  copy,      \* copy[a]: the rows its first statement has copied
  gone,      \* gone[a]: the rows its second statement has deleted
  \* the export
  export,    \* whether one runs, its range, the last row sent, and whether the batch was full
  sent,      \* sent[k]: how often it has sent row k
  \* what is remembered for the properties
  booked,    \* deltas added so far
  discarded, \* deltas that went with the retention cleanup or a deleted device
  late,      \* deltas added in scope of a reset between its two statements
  through,   \* rows that have been there since the export began
  requests, removals, exports

table == <<rows, archived>>
reset == <<stage, scope, copy, gone>>
reading == <<export, sent, through>>
counts == <<requests, removals, exports>>
vars == <<table, reset, reading, booked, discarded, late, counts>>

NoExport == [on |-> FALSE, from |-> 0, to |-> 0, after |-> 0, full |-> FALSE]

TypeOK ==
  /\ rows \in [Keys -> SUBSET Deltas]
  /\ archived \in [Deltas -> Nat]
  /\ stage \in [Admins -> {"idle", "counted", "copied", "deleted"}]
  /\ scope \in [Admins -> Scopes \cup {None}]
  /\ \A a \in Admins : stage[a] # "idle" => scope[a] \in Scopes
  /\ copy \in [Admins -> [Keys -> SUBSET Deltas]]
  /\ gone \in [Admins -> SUBSET Keys]
  /\ \A a \in Admins : stage[a] # "deleted" => gone[a] = {}
  /\ export \in [on: BOOLEAN, from: Nat, to: Nat, after: Nat, full: BOOLEAN]
  /\ sent \in [Keys -> Nat]
  /\ booked \in SUBSET Deltas /\ discarded \in SUBSET Deltas /\ late \in SUBSET Deltas
  /\ through \in SUBSET Keys
  /\ requests \in Nat /\ removals \in Nat /\ exports \in Nat

NoRows == [k \in Keys |-> {}]
Present == {k \in Keys : rows[k] # {}}
Live == UNION {rows[k] : k \in Keys}

Init ==
  /\ rows = NoRows
  /\ archived = [d \in Deltas |-> 0]
  /\ stage = [a \in Admins |-> "idle"]
  /\ scope = [a \in Admins |-> None]
  /\ copy = [a \in Admins |-> NoRows]
  /\ gone = [a \in Admins |-> {}]
  /\ export = NoExport
  /\ sent = [k \in Keys |-> 0]
  /\ booked = {} /\ discarded = {} /\ late = {} /\ through = {}
  /\ requests = 0 /\ removals = 0 /\ exports = 0

-----------------------------------------------------------------------------
(* Rows come and go *)

(* A row an open reset has deleted: who writes it waits for the end of the reset. *)
Locked(k) == \E a \in Admins : k \in gone[a]

InScope(k, s) ==
  /\ Date[k] < s.before
  /\ s.devices = {} \/ Owner[k] \in s.devices

(* A check-in's upsert: accumulated in the row that is there, or a row of its own. *)
Book(d) ==
  LET k == Target[d] IN
  /\ d \notin booked
  /\ ~Locked(k)
  /\ rows' = [rows EXCEPT ![k] = @ \cup {d}]
  /\ booked' = booked \cup {d}
  /\ late' = IF \E a \in Admins : stage[a] = "copied" /\ InScope(k, scope[a])
             THEN late \cup {d} ELSE late
  /\ UNCHANGED <<archived, reset, reading, discarded, counts>>

Without(S) == [k \in Keys |-> IF k \in S THEN {} ELSE rows[k]]

(* Rows S go for good. *)
Discard(S) ==
  /\ removals < MaxRemovals
  /\ \A k \in S : ~Locked(k)
  /\ rows' = Without(S)
  /\ discarded' = discarded \cup UNION {rows[k] : k \in S}
  /\ through' = through \ S
  /\ removals' = removals + 1
  /\ UNCHANGED <<archived, reset, export, sent, booked, late, requests, exports>>

(* DELETE /admin/usage-history/cleanup *)
Cleanup(before) == Discard({k \in Present : Date[k] < before})

(* The usage rows of a device that is deleted (see DeviceAdmin). *)
DropDevice(o) == Discard({k \in Present : Owner[k] = o})

-----------------------------------------------------------------------------
(* POST /admin/usage-history/reset-baseline with confirm=true *)

(* Rows in scope are counted; with none there is nothing to do. *)
BeginReset(a, s) ==
  /\ stage[a] = "idle"
  /\ requests < MaxRequests
  /\ \E k \in Present : InScope(k, s)
  /\ stage' = [stage EXCEPT ![a] = "counted"]
  /\ scope' = [scope EXCEPT ![a] = s]
  /\ requests' = requests + 1
  /\ UNCHANGED <<table, copy, gone, reading, booked, discarded, late, removals, exports>>

(* INSERT INTO usage_history_archive SELECT ... *)
Copy(a) ==
  /\ stage[a] = "counted"
  /\ stage' = [stage EXCEPT ![a] = "copied"]
  /\ copy' = [copy EXCEPT ![a] = [k \in Keys |-> IF InScope(k, scope[a]) THEN rows[k] ELSE {}]]
  /\ UNCHANGED <<table, scope, gone, reading, booked, discarded, late, counts>>

(***************************************************************************)
(* DELETE FROM usage_history ..., once no other reset holds one of these   *)
(* rows.  A statement that began before another reset ended misses rows    *)
(* added since; the counts then differ as they do when a statement fails.  *)
(***************************************************************************)
Delete(a) ==
  LET taken == {k \in Present : InScope(k, scope[a])} IN
  /\ stage[a] = "copied"
  /\ \A k \in taken : ~Locked(k)
  /\ stage' = [stage EXCEPT ![a] = "deleted"]
  /\ gone' = [gone EXCEPT ![a] = taken]
  /\ UNCHANGED <<table, scope, copy, reading, booked, discarded, late, counts>>

Copied(a) == {k \in Keys : copy[a][k] # {}}

(* Mutation: the counts are not compared. *)
CountsAgree_Unchecked(a) == TRUE

(* archived == deleted *)
CountsAgree(a) == Cardinality(Copied(a)) = Cardinality(gone[a])

Close(a) ==
  /\ stage' = [stage EXCEPT ![a] = "idle"]
  /\ scope' = [scope EXCEPT ![a] = None]
  /\ copy' = [copy EXCEPT ![a] = NoRows]
  /\ gone' = [gone EXCEPT ![a] = {}]

(* Both statements become visible together. *)
Commit(a) ==
  /\ stage[a] = "deleted"
  /\ CountsAgree(a)
  /\ rows' = Without(gone[a])
  /\ archived' = [d \in Deltas |->
                    archived[d] + Cardinality({k \in Copied(a) : d \in copy[a][k]})]
  /\ through' = through \ gone[a]
  /\ Close(a)
  /\ UNCHANGED <<export, sent, booked, discarded, late, counts>>

(* Mutation: the refusal commits the deletes. *)
Refuse_Commits(a) ==
  /\ stage[a] = "deleted"
  /\ ~CountsAgree(a)
  /\ rows' = Without(gone[a])
  /\ through' = through \ gone[a]
  /\ Close(a)
  /\ UNCHANGED <<archived, export, sent, booked, discarded, late, counts>>

(* A partial copy is refused: rolled back, and answered 500. *)
Refuse(a) ==
  /\ stage[a] = "deleted"
  /\ ~CountsAgree(a)
  /\ Close(a)
  /\ UNCHANGED <<table, reading, booked, discarded, late, counts>>

(* A statement fails, or the process dies: rolled back. *)
Fail(a) ==
  /\ stage[a] # "idle"
  /\ Close(a)
  /\ UNCHANGED <<table, reading, booked, discarded, late, counts>>

-----------------------------------------------------------------------------
(* GET /admin/usage-history/export *)

RowsOf(from, to) == {k \in Present : from <= Date[k] /\ Date[k] < to}
FirstOf(S) == {k \in S : Cardinality({j \in S : j <= k}) <= Batch}

(* Mutation: rows are skipped by number, not by the last one sent. *)
Fetched_ByOffset(from, to, after) ==
  LET all == RowsOf(from, to)
      offset == Cardinality({k \in Keys : sent[k] > 0})
  IN {k \in all : LET n == Cardinality({j \in all : j <= k})
                  IN offset < n /\ n <= offset + Batch}

(* One bounded query: the first rows of the range past the last row sent. *)
Fetched(from, to, after) == FirstOf({k \in RowsOf(from, to) : k > after})

LastOf(S, after) == IF S = {} THEN after ELSE CHOOSE k \in S : \A j \in S : j <= k

Sending(from, to, after, S) ==
  /\ sent' = [k \in Keys |-> sent[k] + IF k \in S THEN 1 ELSE 0]
  /\ export' = [on |-> TRUE, from |-> from, to |-> to, after |-> LastOf(S, after),
                full |-> Cardinality(S) = Batch]

(* The first batch is read before the response starts. *)
BeginExport(from, to) ==
  /\ ~export.on
  /\ exports < MaxExports
  /\ from < to
  /\ Sending(from, to, 0, Fetched(from, to, 0))
  /\ through' = RowsOf(from, to)
  /\ exports' = exports + 1
  /\ UNCHANGED <<table, reset, booked, discarded, late, requests, removals>>

(* A batch that was full is followed by another, of the rows there are by then. *)
NextBatch ==
  /\ export.on /\ export.full
  /\ Sending(export.from, export.to, export.after,
             Fetched(export.from, export.to, export.after))
  /\ UNCHANGED <<table, reset, through, booked, discarded, late, counts>>

(* The last batch was short, or the client has gone away. *)
EndExport ==
  /\ export.on
  /\ export' = NoExport
  /\ sent' = [k \in Keys |-> 0]
  /\ through' = {}
  /\ UNCHANGED <<table, reset, booked, discarded, late, counts>>

-----------------------------------------------------------------------------
(* Bound: everything has been added, and the requests are used up. *)
Over ==
  /\ booked = Deltas
  /\ \A a \in Admins : stage[a] = "idle"
  /\ UNCHANGED vars

Next ==
  \/ Over
  \/ \E d \in Deltas : Book(d)
  \/ \E before \in Cutoffs : Cleanup(before)
  \/ \E o \in Devices : DropDevice(o)
  \/ \E a \in Admins :
       \/ \E s \in Scopes : BeginReset(a, s)
       \/ Copy(a) \/ Delete(a) \/ Commit(a) \/ Refuse(a) \/ Fail(a)
  \/ \E from, to \in {Date[k] : k \in Keys} \cup {Date[k] + 1 : k \in Keys} : BeginExport(from, to)
  \/ NextBatch \/ EndExport

Spec == Init /\ [][Next]_vars
-----------------------------------------------------------------------------
(***************************************************************************)
(* A reset loses nothing that was there when it copied: a delta that is    *)
(* neither in the table nor in the archive was discarded on purpose, or    *)
(* was added in the scope of a reset between its two statements, where the *)
(* comparison of the counts does not notice it in a row that was copied.   *)
(***************************************************************************)
KeptSomewhere ==
  \A d \in booked \ (discarded \cup late) : d \in Live \/ archived[d] > 0

(***************************************************************************)
(* Nothing is counted twice.  A delta in the archive is not in the table,  *)
(* and unless deltas were added in between, it is in the archive once,     *)
(* however many resets copied it at the same time: the counts of those     *)
(* that come second do not agree.  The migration that makes the archive    *)
(* gives it a key of its own because there "the same row can be archived   *)
(* more than once (a reset re-run over an overlapping range)", 0004:16-17. *)
(* A re-run does not do that: what was archived is deleted in the same     *)
(* transaction, so the re-run finds only rows made since.  It takes two    *)
(* resets at once, and a delta between their statements (late), to make    *)
(* the counts agree over different rows.                                   *)
(***************************************************************************)
CountedOnce ==
  \A d \in Deltas :
    /\ archived[d] > 0 => d \notin Live
    /\ late = {} => archived[d] <= 1

(***************************************************************************)
(* An export is complete although rows come and go under it: once a batch  *)
(* was short, every row of the range that has been there all the time was  *)
(* sent, and no row was sent twice.                                        *)
(***************************************************************************)
ExportComplete ==
  /\ \A k \in Keys : sent[k] <= 1
  /\ export.on /\ ~export.full => \A k \in through : sent[k] = 1

(***************************************************************************)
(* The reset is recoverable: what is not in the table any more and was not *)
(* discarded on purpose is in the archive.                                 *)
(***************************************************************************)
Recoverable ==
  \A d \in booked \ discarded : d \in Live \/ archived[d] > 0
=============================================================================
