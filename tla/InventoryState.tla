--------------------------- MODULE InventoryState ---------------------------
(***************************************************************************)
(* PUT /inventory-state: an asset inventory says where devices are.  A     *)
(* write upserts one row for each serial, then, when it replaces, deletes  *)
(* every row it does not name, and commits.  Postgres runs it at READ      *)
(* COMMITTED: a statement sees what was committed when it began, and waits *)
(* for a row an open transaction has written.                              *)
(***************************************************************************)
EXTENDS Integers, FiniteSets, Functions

CONSTANTS
  Devices,    \* serial numbers, normalized
  Writers,    \* writes being handled
  Blank       \* an entry whose serial is only blanks

ASSUME WritersAssumption == Blank \notin Devices

States == {"checked_out", "storage", "decommissioning"}

VARIABLES
  states,   \* device_inventory_state, committed: states[s] for the serials it has
  phase,    \* phase[w]: where the write is
  asked,    \* asked[w]: the entries of its body, and whether it replaces
  written,  \* written[w]: the rows its open transaction has upserted
  doomed,   \* doomed[w]: the rows its DELETE saw and does not keep
  writes,   \* writes begun
  beside    \* beside[w]: serials committed by other writes since it began

inventory == <<states, phase, asked, written, doomed, writes, beside>>

Phases == {"idle", "upsert", "clear", "commit"}
NoEntries == [s \in {} |-> "storage"]
Nothing == [rows |-> NoEntries, replace |-> FALSE]

InventoryInit ==
  /\ states = NoEntries
  /\ phase = [w \in Writers |-> "idle"]
  /\ asked = [w \in Writers |-> Nothing]
  /\ written = [w \in Writers |-> NoEntries]
  /\ doomed = [w \in Writers |-> {}]
  /\ writes = 0
  /\ beside = [w \in Writers |-> {}]

(* The rows a body asks for: an entry whose serial is blank has none. *)
RowsOf(entries) == Restrict(entries, DOMAIN entries \ {Blank})

Holds(w, s) == s \in DOMAIN written[w] \cup (IF phase[w] = "commit" THEN doomed[w] ELSE {})
FreeFor(w, s) == \A v \in Writers \ {w} : ~Holds(v, s)

(* A body that names no device may not replace; one that only names blanks may. *)
BeginWrite(w, entries, replace) ==
  /\ phase[w] = "idle"
  /\ replace => DOMAIN entries # {}
  /\ phase' = [phase EXCEPT ![w] = "upsert"]
  /\ asked' = [asked EXCEPT ![w] = [rows |-> RowsOf(entries), replace |-> replace]]
  /\ writes' = writes + 1
  /\ beside' = [beside EXCEPT ![w] = {}]
  /\ UNCHANGED <<states, written, doomed>>

UpsertState(w, s) ==
  /\ phase[w] = "upsert" /\ s \in DOMAIN asked[w].rows \ DOMAIN written[w]
  /\ FreeFor(w, s)
  /\ written' = [written EXCEPT ![w] = [t \in DOMAIN @ \cup {s} |-> IF t = s THEN asked[w].rows[s] ELSE @[t]]]
  /\ UNCHANGED <<states, phase, asked, doomed, writes, beside>>

(* Mutation: rows another write holds are skipped. *)
LookForOthers_SkipLocked(w) ==
  /\ phase[w] = "upsert" /\ DOMAIN written[w] = DOMAIN asked[w].rows
  /\ phase' = [phase EXCEPT ![w] = IF asked[w].replace THEN "clear" ELSE "commit"]
  /\ doomed' = [doomed EXCEPT ![w] = IF asked[w].replace
                   THEN {s \in DOMAIN states \ DOMAIN asked[w].rows : FreeFor(w, s)} ELSE {}]
  /\ UNCHANGED <<states, asked, written, writes, beside>>

(* The DELETE begins: it looks for the rows the body does not name. *)
LookForOthers(w) ==
  /\ phase[w] = "upsert" /\ DOMAIN written[w] = DOMAIN asked[w].rows
  /\ phase' = [phase EXCEPT ![w] = IF asked[w].replace THEN "clear" ELSE "commit"]
  /\ doomed' = [doomed EXCEPT ![w] = IF asked[w].replace THEN DOMAIN states \ DOMAIN asked[w].rows ELSE {}]
  /\ UNCHANGED <<states, asked, written, writes, beside>>

(* It ends when nobody else holds a row it saw. *)
ClearOthers(w) ==
  /\ phase[w] = "clear" /\ \A s \in doomed[w] : FreeFor(w, s)
  /\ phase' = [phase EXCEPT ![w] = "commit"]
  /\ UNCHANGED <<states, asked, written, doomed, writes, beside>>

Reset(w) ==
  /\ phase' = [phase EXCEPT ![w] = "idle"]
  /\ asked' = [asked EXCEPT ![w] = Nothing]
  /\ written' = [written EXCEPT ![w] = NoEntries]

CommitStates(w) ==
  /\ phase[w] = "commit"
  /\ states' = [s \in (DOMAIN states \ doomed[w]) \cup DOMAIN written[w] |->
                  IF s \in DOMAIN written[w] THEN written[w][s] ELSE states[s]]
  /\ beside' = [v \in Writers |-> IF v = w THEN {} ELSE beside[v] \cup DOMAIN written[w]]
  /\ doomed' = [v \in Writers |-> IF v = w THEN {}
                 ELSE IF phase[v] = "clear" THEN doomed[v] \ doomed[w] ELSE doomed[v]]
  /\ Reset(w)
  /\ UNCHANGED writes

(* A statement fails, or Postgres ends a deadlock: all is rolled back. *)
WriteFails(w) ==
  /\ phase[w] # "idle"
  /\ beside' = [beside EXCEPT ![w] = {}]
  /\ doomed' = [doomed EXCEPT ![w] = {}]
  /\ Reset(w)
  /\ UNCHANGED <<states, writes>>

(* Reading: no table, or a failing read, is no states. *)
StatesRead == {states, NoEntries}
IsStored(known, s) == s \in DOMAIN known /\ known[s] = "storage"

InventoryTypeOK ==
  /\ DOMAIN states \subseteq Devices /\ states \in [DOMAIN states -> States]
  /\ phase \in [Writers -> Phases]
  /\ \A w \in Writers : doomed[w] \cup beside[w] \cup DOMAIN written[w] \subseteq Devices
=============================================================================
