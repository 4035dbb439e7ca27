---------------------------- MODULE UpdateReports ----------------------------
(***************************************************************************)
(* GET /system/updates: which updates each device waits for or has, and    *)
(* how much its silence proves; and the picker beside it.                  *)
(*                                                                         *)
(* A document has an OS name, the lists of pending updates (an unreadable  *)
(* one is NoList), Windows's own count of them, the updates installed, the *)
(* day it was collected and the client's last search.  An update has a kb  *)
(* or only a title.                                                        *)
(***************************************************************************)
EXTENDS Fleet, Sequences

CONSTANTS
  NoList,  \* no list of updates, or one with anything but objects in it
  NoCount, \* no count of them
  NoName   \* no OS name, kb, title or update

NamedPlatform(d) == IF row[d].os # NoName THEN row[d].os ELSE platform[d]

(* An OS that says nothing is known by the list it sends. *)
UpdatePlatform(d) ==
  IF NamedPlatform(d) \in {"Windows", "macOS"} THEN NamedPlatform(d)
  ELSE IF row[d].windows # NoList THEN "Windows" ELSE IF row[d].apple # NoList THEN "macOS" ELSE "none"

UpdateKey(p, update) ==
  IF p = "Windows" /\ update.kb # NoName THEN <<p, "kb", update.kb>> ELSE <<p, "title", update.title>>

PendingList(d) == IF UpdatePlatform(d) = "Windows" THEN row[d].windows ELSE row[d].apple
Readable(d) ==
  /\ PendingList(d) # NoList
  /\ UpdatePlatform(d) = "Windows" => row[d].count \in {NoCount, Len(PendingList(d))}

(* The first entry of each key. *)
FirstOfEach(d, list) ==
  {list[i] : i \in {j \in DOMAIN list : \A k \in 1..(j - 1) :
                      UpdateKey(UpdatePlatform(d), list[k]) # UpdateKey(UpdatePlatform(d), list[j])}}
PendingOn(d) == IF Readable(d) THEN FirstOfEach(d, PendingList(d)) ELSE {}
InstalledOn(d) == IF UpdatePlatform(d) = "Windows" THEN FirstOfEach(d, row[d].installed) ELSE {}

Freshness(day, now, maxAge) ==
  IF day = NoDay \/ day > now THEN "unknown" ELSE IF now - day <= maxAge THEN "fresh" ELSE "stale"

(* What a device with nothing to show proves: no list, no search, or an old one, proves nothing. *)
EmptyState(d, trusted, maxAge, nothing) ==
  LET search == row[d].search
      proven == trusted /\ search.status = "succeeded" /\ Freshness(search.checked, today, maxAge) = "fresh"
  IN IF ~Readable(d) THEN [reported |-> "missing", state |-> "unknown"]
     ELSE IF search.status = "failed"
       THEN [reported |-> "search_failed", state |-> IF trusted THEN "search_failed" ELSE "unknown"]
     ELSE [reported |-> nothing, state |-> IF proven THEN nothing ELSE "unknown"]

(* With a selection, "not reported" needs no search: the installed list is partial anyway. *)
NotReported(d, trusted, maxAge) ==
  LET empty == EmptyState(d, trusted, maxAge, "not_reported")
  IN IF empty.reported = "not_reported" THEN [empty EXCEPT !.state = IF trusted THEN "not_reported" ELSE "unknown"]
                                        ELSE empty

Selects(q) == q.keys # {} \/ q.cves # {}
Picks(q, d, update) == UpdateKey(UpdatePlatform(d), update) \in q.keys \/ update.cves \cap q.cves # {}
Filters(q) == q.securityOnly \/ q.deferred # "all" \/ q.reboot \/ q.minAge > 0
Passes(q, update) ==
  /\ q.securityOnly => update.security
  /\ q.deferred # "all" => update.deferred = q.deferred
  /\ q.reboot => update.reboot = "yes"
  /\ q.minAge > 0 => update.since # NoDay /\ today - update.since >= q.minAge

(* The rows of a device before the state filter. *)
RowsOn(d, q) ==
  LET trusted == Readable(d) /\ Freshness(row[d].collected, today, q.maxAge) = "fresh"
      pending == {u \in PendingOn(d) : Selects(q) => Picks(q, d, u)}
      keys == {UpdateKey(UpdatePlatform(d), u) : u \in pending}
      installed == {u \in InstalledOn(d) : Selects(q) /\ Picks(q, d, u) /\ UpdateKey(UpdatePlatform(d), u) \notin keys}
      nothing == IF Selects(q) THEN NotReported(d, trusted, q.maxAge) ELSE EmptyState(d, trusted, q.maxAge, "none")
      Line(u, reported, state) == [device |-> d, update |-> u, reported |-> reported, state |-> state]
  IN {Line(u, "pending", IF trusted THEN "pending" ELSE "unknown") : u \in {v \in pending : Passes(q, v)}}
     \cup {Line(u, "installed", "installed") : u \in {v \in installed : Passes(q, v)}}
     \cup IF pending = {} /\ installed = {} /\ ~Filters(q) THEN {Line(NoName, nothing.reported, nothing.state)} ELSE {}

(* A selection is of its platforms; CVEs are Windows's. *)
SelectedPlatforms(q) == {k[1] : k \in q.keys} \cup IF q.cves # {} THEN {"Windows"} ELSE {}
UpdateScope(q) ==
  {d \in Registered \ Placeholders :
     /\ q.includeArchived \/ d \notin archived
     /\ q.platform # "all" => NamedPlatform(d) = q.platform
     /\ q.usages = {} \/ Facts[d].usage \in q.usages
     /\ q.inventory = {} \/ (IF d \in DOMAIN states THEN states[d] ELSE "unknown") \in q.inventory
     /\ Selects(q) => UpdatePlatform(d) \in SelectedPlatforms(q)
     /\ q.freshness # "all" => Freshness(row[d].collected, today, q.maxAge) = q.freshness}

UpdateRows(q) == UNION {RowsOn(d, q) : d \in UpdateScope(q)}
UpdateSummary(q) == [s \in {r.state : r \in UpdateRows(q)} |-> Cardinality({r \in UpdateRows(q) : r.state = s})]
UpdateReport(q) == {r \in UpdateRows(q) : q.states = {} \/ r.state \in q.states}

(* GET /system/updates/filters: what there is to pick, and on how many devices. *)
UpdateOptions(platformName, includeArchived) ==
  LET devices == {d \in Registered \ Placeholders :
                    (includeArchived \/ d \notin archived) /\ platformName \in {"all", NamedPlatform(d)}}
      Known(updates) == {u \in updates : u.kb # NoName \/ u.title # NoName}
      KeysOf(updates, d) == {UpdateKey(UpdatePlatform(d), u) : u \in Known(updates)}
      With(cve) == {d \in devices : \E u \in Known(PendingOn(d)) : cve \in u.cves}
  IN [updates |-> [k \in UNION {KeysOf(PendingOn(d) \cup InstalledOn(d), d) : d \in devices} |->
                     [pending |-> {d \in devices : k \in KeysOf(PendingOn(d), d)},
                      installed |-> {d \in devices : k \in KeysOf(InstalledOn(d), d)}]],
      cves |-> [c \in UNION {UNION {u.cves : u \in Known(PendingOn(d))} : d \in devices} |-> With(c)]]
=============================================================================
