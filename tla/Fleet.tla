------------------------------- MODULE Fleet -------------------------------
(***************************************************************************)
(* What the reports read: the devices, the module row each one's last      *)
(* check-in left, what the inventory says of them, and how old it all is.  *)
(*                                                                         *)
(* A report reads the rows of one module.  `topic' is the module the rows  *)
(* of a behaviour belong to: one behaviour for each, not their product.    *)
(***************************************************************************)
EXTENDS InventoryState, CertificateClass

CONSTANTS
  Topics,         \* modules reports are made of
  Payloads(_, _), \* Payloads(t, d): what a check-in of d may carry of module t
  Older(_, _),    \* Older(t, d): rows that earlier versions of the API have stored
  Platforms(_, _),\* Platforms(t, d): the platforms a check-in may name
  Bodies(_),      \* Bodies(t): what inventory writes may ask for, next to topic t
  MaxWrites(_),   \* bound: inventory writes
  MaxDay(_),      \* bound: days
  NoRow,          \* no such device
  Facts,          \* Facts[d]: the device's OS name and inventory module
  SerialOrder,    \* the devices in the order of their serial numbers
  Placeholders    \* serials of test devices: TEST-... and localhost

ASSUME FleetAssumption ==
  /\ Placeholders \subseteq Devices
  /\ \A t \in Topics : MaxDay(t) \in Nat /\ \A d \in Devices : NoRow \notin Payloads(t, d) \cup Older(t, d)
  /\ \A t \in Topics : \A entries \in Bodies(t) : entries \in [DOMAIN entries -> States]

(* A row that is stored is something, a history and the stamped views of certificates too. *)
SentEntries == UNION UNION {Payloads("usage", d) : d \in Devices}
EntriesOf(k) == {[entry EXCEPT !.day = k] : entry \in SentEntries}
HistoryEntries ==
  (UNION UNION {Older("usage", d) : d \in Devices}) \cup (UNION {EntriesOf(k) : k \in 0..MaxDay("usage")})
ASSUME StoredAssumption ==
  /\ "usage" \in Topics => \A history \in SUBSET HistoryEntries : history # NoRow
  /\ "certificates" \in Topics =>
       \A d \in Devices : \A views \in Payloads("certificates", d), p \in Platforms("certificates", d) : Stamped(views, p) # NoRow

VARIABLES
  topic,
  row,       \* row[d]: the module row of device d
  platform,  \* platform[d]: devices.platform
  archived,  \* devices.archived
  seen,      \* seen[d]: the day of last_seen
  today

fleet == <<topic, row, platform, archived, seen, today>>

NoDay == -1  \* a date a document does not have, or that cannot be read

Registered == {d \in Devices : row[d] # NoRow}

(* ORDER BY ... LIMIT: of what is ordered, what fewer than limit others come before. *)
Leading(S, Before(_, _), limit) == {x \in S : Cardinality({y \in S : Before(y, x)}) < limit}

FleetInit ==
  /\ InventoryInit
  /\ topic \in Topics
  /\ row \in {r \in [Devices -> {NoRow} \cup UNION {Older(topic, d) : d \in Devices}] :
                \A d \in Devices : r[d] \in {NoRow} \cup Older(topic, d)}
  /\ platform = [d \in Devices |-> "Unknown"]
  /\ archived = {}
  /\ seen = [d \in Devices |-> 0]
  /\ today = 0

(* Usage entries are added to the history; any other module's row is replaced. *)
Upserted(old, p, payload) ==
  CASE topic = "usage" -> (IF old = NoRow THEN {} ELSE old) \cup {[entry EXCEPT !.day = today] : entry \in payload}
    [] topic = "certificates" -> Stamped(payload, p)
    [] OTHER -> payload

(* Every check-in says which platform it is from; one that does not is from Unknown. *)
Register(d, p) ==
  /\ seen' = [seen EXCEPT ![d] = today]
  /\ platform' = [platform EXCEPT ![d] = p]

(* A check-in stores its module and registers or refreshes its device, archived or not. *)
CheckIn(d, p, payload) ==
  /\ Register(d, p)
  /\ row' = [row EXCEPT ![d] = Upserted(row[d], p, payload)]
  /\ UNCHANGED <<inventory, topic, archived, today>>

(* One without the module leaves the row of an earlier one. *)
CheckInWithout(d, p) ==
  /\ d \in Registered
  /\ Register(d, p)
  /\ UNCHANGED <<inventory, topic, row, archived, today>>

Archive(d) ==
  /\ d \in Registered \ archived
  /\ archived' = archived \cup {d}
  /\ UNCHANGED <<inventory, topic, row, platform, seen, today>>

Unarchive(d) ==
  /\ d \in archived
  /\ archived' = archived \ {d}
  /\ UNCHANGED <<inventory, topic, row, platform, seen, today>>

(* A deletion leaves the device's inventory state. *)
Delete(d) ==
  /\ d \in Registered
  /\ row' = [row EXCEPT ![d] = NoRow]
  /\ platform' = [platform EXCEPT ![d] = "Unknown"]
  /\ seen' = [seen EXCEPT ![d] = 0]
  /\ archived' = archived \ {d}
  /\ UNCHANGED <<inventory, topic, today>>

Midnight ==
  /\ today < MaxDay(topic)
  /\ today' = today + 1
  /\ UNCHANGED <<inventory, topic, row, platform, archived, seen>>

WriteStep ==
  /\ \E w \in Writers :
       \/ /\ writes < MaxWrites(topic)
          /\ \E entries \in Bodies(topic), replace \in BOOLEAN : BeginWrite(w, entries, replace)
       \/ \E s \in Devices : UpsertState(w, s)
       \/ LookForOthers(w) \/ ClearOthers(w) \/ CommitStates(w) \/ WriteFails(w)
  /\ UNCHANGED fleet

FleetNext ==
  \/ \E d \in Devices :
       \/ \E p \in Platforms(topic, d) : \/ CheckInWithout(d, p)
                                         \/ \E payload \in Payloads(topic, d) : CheckIn(d, p, payload)
       \/ Archive(d) \/ Unarchive(d) \/ Delete(d)
  \/ Midnight
  \/ WriteStep

FleetTypeOK ==
  /\ InventoryTypeOK
  /\ topic \in Topics
  /\ archived \subseteq Registered
  /\ seen \in [Devices -> Nat] /\ today \in Nat
=============================================================================
