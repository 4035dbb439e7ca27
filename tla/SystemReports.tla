---------------------------- MODULE SystemReports ----------------------------
(***************************************************************************)
(* GET /devices/system, and what the Reboot Debt and Update Debt cards     *)
(* read of the same documents in SQL.                                      *)
(*                                                                         *)
(* A document has the version of its operating system (os, train and       *)
(* level), hours of uptime, the pending Apple updates (each deferred *)
(* or not), and Windows's count and list of pending updates.               *)
(***************************************************************************)
EXTENDS Fleet, Sequences, SequencesExt

CONSTANTS
  Empty,      \* a document without fields
  Unset,      \* a variable that has no value yet
  MinDevices  \* OS_CURRENCY_MIN_DEVICES

ASSUME CurrencyAssumption == MinDevices \in Nat \ {0}

OsPlatform(os) ==
  IF os = "macOS" THEN "macOS" ELSE IF os \in {"Windows 10", "Windows 11"} THEN "Windows" ELSE "Unknown"

SystemScope(includeArchived) == {d \in Registered \ Placeholders : includeArchived \/ d \notin archived}

DeferredIn(updates) == Cardinality({i \in DOMAIN updates : updates[i]})

(* Apple's list, else Windows's count, else Windows's list. *)
PendingShown(doc) ==
  IF Len(doc.apple) > 0 THEN Len(doc.apple) ELSE IF doc.winCount > 0 THEN doc.winCount ELSE doc.winList

(* Rows are made in a loop, in the order of the serial numbers.  An empty  *)
(* document sets no number of deferred updates: it shows that of the last  *)
(* one before it that did, and has no row when there is none.              *)
SystemList(includeArchived) ==
  LET places == {i \in DOMAIN SerialOrder : SerialOrder[i] \in SystemScope(includeArchived)}
      Doc(i) == row[SerialOrder[i]]
      Set(i) == {j \in places : j <= i /\ Doc(j) # Empty}
      deferred == [i \in {j \in places : Set(j) # {}} |-> DeferredIn(Doc(Max(Set(i))).apple)]
      Row(i) == IF Doc(i) = Empty
                  THEN [device |-> SerialOrder[i], platform |-> "Unknown", uptime |-> Unset, pending |-> 0, deferred |-> deferred[i]]
                  ELSE [device |-> SerialOrder[i], platform |-> OsPlatform(Doc(i).version.os),
                        uptime |-> IF Doc(i).uptime = 0 THEN Unset ELSE Doc(i).uptime,
                        pending |-> PendingShown(Doc(i)), deferred |-> deferred[i]]
  IN {Row(i) : i \in DOMAIN deferred}

---------------------------------------------------------------------------
(* reboot_debt.sql: the hours a bucket begins and ends with. *)

Day == 24
UptimeBucket(hours) ==
  IF hours < Day THEN "lt1d" ELSE IF hours < 3 * Day THEN "1-3d" ELSE IF hours < 7 * Day THEN "3-7d"
  ELSE IF hours < 14 * Day THEN "1-2w" ELSE IF hours < 30 * Day THEN "2-4w" ELSE "30d+"

PendingCounted(doc) ==
  CASE doc = Empty -> 0
    [] doc # Empty /\ Len(doc.apple) > 0 -> Len(doc.apple)
    [] doc # Empty /\ Len(doc.apple) = 0 /\ doc.winCount > 0 -> doc.winCount
    [] OTHER -> doc.winList

(* What the query counts of its devices, by column. *)
RebootDebt(devices) ==
  LET full == {d \in devices : row[d] # Empty}
      UpFor(bucket) == {d \in full : row[d].uptime > 0 /\ UptimeBucket(row[d].uptime) = bucket}
  IN [column \in {"devices", "pending", "deferred", "lt1d", "1-3d", "3-7d", "1-2w", "2-4w", "30d+"} |->
        CASE column = "devices" -> devices
          [] column = "pending" -> {d \in devices : PendingCounted(row[d]) > 0}
          [] column = "deferred" -> {d \in full : DeferredIn(row[d].apple) > 0}
          [] OTHER -> UpFor(column)]

---------------------------------------------------------------------------
(* os_versions.sql and os_currency: rows[v] is how many devices report v. *)

NoVersion == [os |-> "other", train |-> 0, level |-> 0]
VersionOf(doc) == IF doc = Empty THEN NoVersion ELSE doc.version
OsVersions(devices) ==
  [v \in {VersionOf(row[d]) : d \in devices} |-> {d \in devices : VersionOf(row[d]) = v}]

(* A Windows build without its update revision, and any other system, is not rated. *)
Rated(v) == OsPlatform(v.os) = "macOS" \/ (OsPlatform(v.os) = "Windows" /\ v.level > 0)
SameTrain(v, w) == OsPlatform(v.os) = OsPlatform(w.os) /\ v.train = w.train
Total(rows, versions) == SumFunctionOnSet(rows, versions)

(* The highest level of a train that enough devices report, or the highest there is. *)
LatestLevel(rows, v) ==
  LET levels == {w.level : w \in {x \in DOMAIN rows : Rated(x) /\ SameTrain(x, v)}}
      Enough(l) == Total(rows, {x \in DOMAIN rows : Rated(x) /\ SameTrain(x, v) /\ x.level = l}) >= MinDevices
      bar == IF \E l \in levels : Enough(l) THEN {l \in levels : Enough(l)} ELSE levels
  IN CHOOSE l \in bar : \A m \in bar : m <= l

(* Apple went from 15 to 26. *)
MacOrdinal(major) == IF major >= 26 THEN major - 10 ELSE major

NewestMac(rows) ==
  LET macs == {v \in DOMAIN rows : Rated(v) /\ OsPlatform(v.os) = "macOS"}
      majors == {MacOrdinal(v.train) : v \in macs}
      Enough(m) == Total(rows, {v \in macs : MacOrdinal(v.train) = m}) >= MinDevices
      bar == IF \E m \in majors : Enough(m) THEN {m \in majors : Enough(m)} ELSE majors
  IN IF majors = {} THEN 0 ELSE CHOOSE m \in bar : \A n \in bar : n <= m

(* The rules are made of the whole fleet; the count covers the platform asked for. *)
OsCurrency(rows, wanted) ==
  LET scoped == {v \in DOMAIN rows : wanted \in {"all", OsPlatform(v.os)}}
      rated == {v \in scoped : Rated(v)}
      behind == {v \in rated : v.level < LatestLevel(rows, v)}
  IN [devices |-> Total(rows, scoped), rated |-> Total(rows, rated), behind |-> Total(rows, behind),
      onLatest |-> Total(rows, rated) - Total(rows, behind),
      unsupported |-> Total(rows, {v \in scoped : /\ OsPlatform(v.os) = "macOS"
                                                  /\ MacOrdinal(v.train) < NewestMac(rows) - 2}),
      windows10 |-> Total(rows, {v \in scoped : v.os = "Windows 10"}),
      lagging |-> [v \in behind |-> rows[v]]]

(* Mutation: the versions are asked for the card's platform. *)
UpdateDebt_Scoped(devices, wanted) ==
  LET scoped == {d \in devices : wanted \in {"all", platform[d]}}
  IN [currency |-> OsCurrency([v \in DOMAIN OsVersions(scoped) |-> Cardinality(OsVersions(scoped)[v])], wanted),
      pending |-> RebootDebt(scoped)["pending"], deferred |-> RebootDebt(scoped)["deferred"]]

(* Versions are asked for the whole fleet, pending updates for the platform. *)
UpdateDebt(devices, wanted) ==
  LET versions == OsVersions(devices)
      debt == RebootDebt({d \in devices : wanted \in {"all", platform[d]}})
  IN [currency |-> OsCurrency([v \in DOMAIN versions |-> Cardinality(versions[v])], wanted),
      pending |-> debt["pending"], deferred |-> debt["deferred"]]
=============================================================================
