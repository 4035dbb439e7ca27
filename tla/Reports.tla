------------------------------- MODULE Reports -------------------------------
(***************************************************************************)
(* The fleet reports beside each other: the same rows are read by several  *)
(* endpoints and cards, in Python and in SQL, and should add up the same.  *)
(***************************************************************************)
EXTENDS AppInventory, InsightCards, VulnerabilityReports

CONSTANTS
  UsageQuestions, \* questions asked of usage_history
  AppQuestions,   \* questions asked of the applications
  Names,          \* names asked for
  UpdateQuestions,\* questions asked of the operating systems' updates
  CveQuestions,   \* questions asked of the CVEs
  ThreatQuestions,\* questions asked of the detections
  CertLimits      \* rows asked of the certificate search

ASSUME DatesAssumption ==
  /\ \A d \in Devices : \A document \in Payloads("updates", d) \cup Older("updates", d) :
       document.collected \in Int /\ document.search.checked \in Int
  /\ \A d \in Devices : \A document \in Payloads("vulnerabilities", d) \cup Older("vulnerabilities", d) :
       /\ document.collected \in Int
       /\ document.detections # NoList =>
            \A i \in DOMAIN document.detections : document.detections[i].seen \in Int
  /\ \A q \in UpdateQuestions \cup CveQuestions : q.maxAge \in Nat
  /\ \A q \in ThreatQuestions : q.days \in Nat

(* A query reads its own module. *)
QueryNames == {"install_counts", "install_items_failing", "install_items_pending", "install_agent_runs",
               "reboot_debt", "os_versions", "certificates"}
ASSUME QueriesAssumption ==
  \A t \in Topics :
    /\ Queries(t) \subseteq QueryNames
    /\ "certificates" \in Queries(t) => t = "certificates"
    /\ "install_items_failing" \in Queries(t) => t \in {"installs", "items"}

(* Devices and what they send are finite, and fleet.sql knows three platforms. *)
ASSUME FinitelyMany ==
  /\ IsFiniteSet(Devices)
  /\ \A d \in Devices : \A views \in Payloads("certificates", d) \cup Older("certificates", d) : IsFiniteSet(views)
  /\ \A t \in {"installs", "items"}, d \in Devices : \A document \in Payloads(t, d) \cup Older(t, d) :
       \A a \in {"munki", "cimian"} : IsFiniteSet(DOMAIN ItemsOf(document[a]))
(* Runs have dates; a system document has lists, counts and hours; the views *)
(* of one certificate agree on when it expires.                              *)
ASSUME RunsAssumption ==
  \A d \in Devices : \A document \in Payloads("installs", d) \cup Older("installs", d) :
    \A a \in {"munki", "cimian"} : document[a] # NoAgent =>
      LET agent == document[a]
      IN /\ agent.run.end \in Int /\ agent.run.start \in Int
         /\ IsFiniteSet(DOMAIN agent.sessions)
         /\ \A i \in DOMAIN agent.sessions : agent.sessions[i].end \in Int /\ agent.sessions[i].start \in Int
ASSUME SystemAssumption ==
  /\ SerialOrder \in Seq(Devices) /\ ToSet(SerialOrder) = Devices /\ IsInjective(SerialOrder)
  /\ \A d \in Devices : \A document \in (Payloads("system", d) \cup Older("system", d)) \ {Empty} :
       /\ document.apple \in Seq(BOOLEAN)
       /\ document.winCount \in Nat /\ document.winList \in Nat /\ document.uptime \in Nat
ASSUME CertificatesAssumption ==
  \A d \in Devices : \A views \in Payloads("certificates", d) \cup Older("certificates", d) :
    /\ \A v \in views : /\ {"id", "name", "notAfter", "left", "flag", "class", "live"} \subseteq DOMAIN v
                       /\ v.id \in Int /\ v.name \in Int /\ v.notAfter \in Int /\ v.left \in Int /\ ClassOf(v) \in Classes
    /\ \A v, w \in views : v.id = w.id => /\ v.notAfter = w.notAfter /\ v.left = w.left
                                         /\ v.live = w.live /\ v.flag = w.flag
ASSUME SearchAssumption == CertLimits \subseteq Nat /\ Unnamed \in Int

(* A question has these fields; an entry of a list of updates is something, and Apple's have no KB and no CVEs. *)
UpdateFields == {"keys", "cves", "states", "freshness", "maxAge", "platform", "usages", "inventory", "securityOnly",
                 "deferred", "reboot", "minAge", "includeArchived"}
CveFields == {"identifiers", "statuses", "severities", "exploited", "freshness", "maxAge", "platform", "usages",
              "inventory", "includeArchived"}
AppFields == {"days", "picks", "usages", "catalogs", "platforms", "includeArchived", "minLaunches", "names", "deviceLimit"}
ThreatFields == {"days", "vendors", "severities", "platform", "usages", "inventory", "includeArchived"}
ASSUME QuestionsAssumption ==
  /\ \A q \in UpdateQuestions : q = [f \in UpdateFields |-> q[f]]
  /\ \A q \in CveQuestions : q = [f \in CveFields |-> q[f]]
  /\ \A q \in ThreatQuestions : q = [f \in ThreatFields |-> q[f]]
  /\ \A q \in AppQuestions : q = [f \in AppFields |-> q[f]] /\ q.deviceLimit \in Nat
  /\ NotSaid # "yes"
ASSUME AppsAssumption ==
  /\ \A d \in Devices : \A apps \in Payloads("applications", d) \cup Older("applications", d) :
       /\ apps \in Seq(ToSet(apps))
       /\ \A app \in ToSet(apps) : /\ app.name # NoText => {"base", "tail", "caps", "padded"} \subseteq DOMAIN app.name
                                   /\ {"text", "padded"} \subseteq DOMAIN app.version
  /\ NoText # UnknownApplication
(* The history of a device is finite, and every name in it has its parts. *)
Spelled(name) == name = [base |-> name.base, tail |-> name.tail, caps |-> name.caps, padded |-> name.padded]
ASSUME UsageAssumption ==
  /\ \A d \in Devices : \A document \in Payloads("usage", d) \cup Older("usage", d) :
       /\ IsFiniteSet(document)
       /\ \A e \in document : {"app", "day", "user"} \subseteq DOMAIN e /\ e.day \in Int /\ e.user \in Int /\ Spelled(e.app)
  /\ \A q \in UsageQuestions : q.days \in Nat /\ q.minLaunches \in Nat
ASSUME UpdatesAssumption ==
  \A d \in Devices : \A document \in Payloads("updates", d) \cup Older("updates", d) :
    /\ \A list \in {document.windows, document.apple, document.installed} \ {NoList} :
         list \in Seq(ToSet(list)) /\ NoName \notin ToSet(list)
    /\ document.apple # NoList => \A i \in DOMAIN document.apple : document.apple[i].kb = NoName /\ document.apple[i].cves = {}
    /\ document.installed # NoList
ASSUME PlatformsAssumption == \A t \in Topics, d \in Devices : Platforms(t, d) \subseteq {"macOS", "Windows", "Unknown"}

vars == <<inventory, fleet, cards>>

Init == FleetInit /\ CardsInit
Next == (FleetNext /\ Beside) \/ CardStep
Spec == Init /\ [][Next]_vars

---------------------------------------------------------------------------
Settled(name) == Lower(Canonical(name)) = Lower(name)
SumOf(report) == SumFunction([r \in report |-> r.launches])

(* The rows of the report under the spellings of a name. *)
ReportedAs(n, q) == {r \in UsageReport(q) : Lower(r.name) = Lower(n)}

(* What one question about usage is told.  A name that would fold again is left out. *)
UsageAgrees(q) ==
  /\ q.picks = <<>> /\ q.minLaunches = 0 /\ q.platforms = {} =>
       \A n \in {r.name : r \in UsageReport(q)} : Settled(n) =>
         /\ {x.device : x \in DrillDown(n, q)} = UNION {r.devices : r \in ReportedAs(n, q)}
         /\ SumOf(DrillDown(n, q)) = SumOf(ReportedAs(n, q))
  /\ q.picks = <<>> /\ q.minLaunches = 0 /\ ~q.includeArchived =>
       \A c \in AppUsageCard(q) : /\ c.launches = SumOf(ReportedAs(c.key, q))
                                  /\ c.devices = UNION {r.devices : r \in ReportedAs(c.key, q)}
  /\ DevicesAggregate(q) = UNION {r.devices : r \in UsageReport(q)}
  /\ UsageSummary(q).devices = Cardinality(DevicesAggregate(q))
  /\ q.minLaunches = 0 =>
       LET people == UNION {r.users : r \in UsageReport(q)}
           shown == {t.user : t \in TopUsers(q)}
       IN /\ shown \subseteq people
          /\ \A u \in people \ shown, t \in TopUsers(q) : LaunchesBy(u, q) <= t.launches
          /\ Cardinality(shown) < UserLimit /\ Cardinality(Candidates(q)) <= UserRows => shown = people
  /\ q.picks = <<>> /\ q.minLaunches = 0 /\ q.platforms = {} /\ q.usages = {} /\ q.catalogs = {} =>
       LET health == CollectionHealth(q.days, q.days + 1, states, q.includeArchived)
       IN health.healthy = DevicesAggregate(q) \ health.storage

(* Whoever opens a row of the usage report finds the devices and launches  *)
(* the row counted: so does the App Usage card, and the list of devices.   *)
(* The users shown are the report's, those who used most first, and all of *)
(* them when there are fewer than may be shown and the query was not cut.  *)
(* The devices with usage in those days are the ones whose collection is   *)
(* called healthy, or stored.                                              *)
UsageAddsUp == topic = "usage" => \A q \in UsageQuestions : UsageAgrees(q)

(* How many devices have an application, and a version of it, is the       *)
(* number of devices the list of applications shows for that name, under   *)
(* any blanks around the version; and its first rows show every one of     *)
(* them.  The list also finds what has no name by the name it gives it.    *)
SpreadAsListed(q, n) ==
  LET list == AppList([q EXCEPT !.names = <<n>>])
      spread == Distribution(n, q)
      On(rows) == {r.device : r \in ToSet(rows)}
      With(v) == {x \in ToSet(list) : Trimmed(x.version) = v}
  IN /\ spread.total <= Cardinality(On(list))
     /\ ~FoundIn(UnknownApplication, n) =>
          /\ spread.total = Cardinality(On(list))
          /\ DOMAIN spread.versions = {Trimmed(r.version) : r \in ToSet(list)}
          /\ \A v \in DOMAIN spread.versions : spread.versions[v] = Cardinality({r.device : r \in With(v)})
     /\ On(Page(list, Cardinality(On(list)), 0)) = On(list)

(* The name of a bundle folds into the row of another name. *)
FoldsInto(name, n) == Lower(Canonical(Bundle(name))) = Lower(Canonical(n))

(* The filters offer every name the list shows, without its blanks, but    *)
(* the one it gives what has none; and the installs beside a row of the    *)
(* usage report are those the list shows under a name that folds into it.  *)
AppsAddUp ==
  topic = "applications" => \A q \in AppQuestions, n \in Names :
    q.deviceLimit >= Cardinality(Devices) =>
      /\ SpreadAsListed(q, n)
      /\ {Stripped(r.name) : r \in ToSet(AppList(q))} \ {UnknownApplication} \subseteq FilterOptions(q).names
      /\ q.platforms = {} /\ q.names = <<>> /\ q.picks = <<>> /\ ~FoldsInto(UnknownApplication, n) =>
           Installed(Canonical(n), q) = {r.device : r \in {x \in ToSet(AppList(q)) : FoldsInto(x.name, n)}}

(* An agent the card calls silent is in the list of stale agents. *)
SilentAreStale ==
  topic = "installs" => \A a \in BOOLEAN :
    LET whole == CardFleet([name |-> "install_agent_runs", includeArchived |-> a, hasStates |-> TRUE], "all")
    IN \A agent \in {"munki", "cimian"} : \A d \in SilentAgents(whole)[agent] :
         \E s \in StaleAgents(states, a) : s.device = d /\ s.agent = agent

(* A failing item is in the list of installs, for every device counted, whatever blanks are around its name. *)
FailingAreListed ==
  topic = "items" => \A a \in BOOLEAN :
    LET failing == FailingItems(SystemScope(a))
    IN \A n \in DOMAIN failing : failing[n] \subseteq {x.device : x \in {y \in InstallsList(a) : y.name = n}}

(* Devices with pending, deferred updates are those of the system report;  *)
(* each device that is up is in one bucket; and what is behind on each     *)
(* platform adds up to the fleet.                                          *)
DebtIsListed ==
  topic = "system" => \A a \in BOOLEAN :
    LET whole == SystemScope(a)
        Lagging(p) == UpdateDebt(whole, p).currency.behind
        full == {r \in SystemList(a) : row[r.device] # Empty}
    IN /\ {r.device : r \in {x \in full : x.pending > 0}} = RebootDebt(whole)["pending"]
       /\ {r.device : r \in {x \in full : x.deferred > 0}} = RebootDebt(whole)["deferred"]
       /\ \A r \in full : r.uptime # Unset =>
            Cardinality({b \in {"lt1d", "1-3d", "3-7d", "1-2w", "2-4w", "30d+"} : r.device \in RebootDebt(whole)[b]}) = 1
       /\ Lagging("all") = Lagging("macOS") + Lagging("Windows") + Lagging("Unknown")

(* What is expired on the Certificates card is so in the security report,  *)
(* and what expires soon, but where a device's own flag does not agree     *)
(* with the days it collected.                                             *)
CardIsReported(a) ==
  LET card == CertificatesCard(SecurityScope(a), today)
      list == SecurityList(a)
      expiring == {d \in DOMAIN list : list[d].expiring > 0}
  IN /\ card.expired = {d \in DOMAIN list : list[d].expired > 0}
     /\ card.expiring \subseteq expiring
     /\ \A d \in expiring \ card.expiring : \A v \in row[d] :
          ClassOf(v) = "actionable" /\ Expiring(v, today) => ~v.live /\ v.left \notin 0..(2 * CertWindow)

(* The names that expire first are those devices'; no other is due before  *)
(* them, and all are there when fewer than may be shown.                   *)
SoonestAreDue(a) ==
  LET card == CertificatesCard(SecurityScope(a), today)
      soonest == Soonest(SecurityScope(a), today, TopN)
      shown == UNION {n.devices : n \in soonest}
  IN /\ shown \subseteq card.expiring
     /\ \A e \in Listable(SecurityScope(a), today), n \in soonest :
          e.view.name \notin {m.name : m \in soonest} => n.days <= TimeLeft(e.view, today)
     /\ Cardinality(soonest) < TopN =>
          \A d \in card.expiring \ shown : \A v \in row[d] :
            ClassOf(v) = "actionable" /\ CardExpiring(v, today) => v.name = Unnamed

(* A search shows no certificate that the card does not count, unless it   *)
(* expires a day later or carries such a flag; and it has them all when it *)
(* answers less than it was asked for.                                     *)
CardIsFound(a, limit) ==
  LET card == CertificatesCard(SecurityScope(a), today)
      expired == CertSearch("actionable", "expired", a, limit)
      expiring == CertSearch("actionable", "expiring", a, limit)
      counted == {<<x.device, x.view.id>> : x \in {y \in expiring : CardExpiring(y.view, today)}}
  IN /\ {x.device : x \in expired} \subseteq card.expired /\ counted \subseteq card.certificates
     /\ Cardinality(expired) < limit => card.expired \subseteq {x.device : x \in expired}
     /\ Cardinality(expiring) < limit => card.certificates \subseteq counted
     /\ \A x \in expiring : ~Expiring(x.view, today) => Left(x.view, today) = 2 * CertWindow + 1

(* Searches that were not cut leave no certificate out of every class or status. *)
NoneIsLeftOut(a, limit) ==
  LET Found(class, status) == CertSearch(class, status, a, limit)
      Certs(class, status) == {<<x.device, x.view.id>> : x \in Found(class, status)}
      Statuses == {"expired", "expiring", "valid"}
  IN (\A class \in Classes \cup {"all", "hidden"}, status \in Statuses \cup {"all"} : Cardinality(Found(class, status)) < limit) =>
       /\ Certs("all", "all") = UNION {Certs(class, "all") : class \in Classes}
       /\ Certs("hidden", "all") = UNION {Certs(class, "all") : class \in Classes \ {"actionable"}}
       /\ Certs("all", "all") = UNION {Certs("all", status) : status \in Statuses}

(* The Certificates card, the security report and the search read the same certificates. *)
CertificatesAreListed ==
  topic = "certificates" => \A a \in BOOLEAN :
    /\ CardIsReported(a)
    /\ SoonestAreDue(a)
    /\ \A limit \in CertLimits : CardIsFound(a, limit) /\ NoneIsLeftOut(a, limit)

(* A card counts the devices its link opens. *)
CardsCountTheirReports == SilentAreStale /\ FailingAreListed /\ DebtIsListed /\ CertificatesAreListed

(* A question that asks for less than the picker was made of. *)
Narrowed(q) == Selects(q) \/ Filters(q) \/ q.usages # {} \/ q.inventory # {} \/ q.freshness # "all"

(* What the picker counts behind an update or a CVE is what picking it     *)
(* shows, an installed one that is pending again as pending; an update     *)
(* without a KB and a title is shown by its CVEs and not counted.          *)
PickedAsCounted(q) ==
  LET options == UpdateOptions(q.platform, q.includeArchived)
      Picking(k) == UpdateRows([q EXCEPT !.keys = {k}])
      Naming(c) == UpdateRows([q EXCEPT !.cves = {c}])
      Told(rows, what) == {r.device : r \in {x \in rows : x.reported = what}}
      Known(rows) == {r \in rows : r.update # NoName /\ (r.update.kb # NoName \/ r.update.title # NoName)}
  IN /\ \A k \in DOMAIN options.updates :
          /\ Told(Picking(k), "pending") = options.updates[k].pending
          /\ Told(Picking(k), "installed") = options.updates[k].installed \ options.updates[k].pending
          /\ {r.device : r \in Picking(k)} = {d \in UpdateScope(q) : UpdatePlatform(d) = k[1]}
     /\ \A c \in DOMAIN options.cves : Told(Known(Naming(c)), "pending") = options.cves[c]

(* A device said to have nothing has no other row, and nothing in its list and count. *)
NoneStandsAlone(q) ==
  /\ \A k \in DOMAIN UpdateOptions(q.platform, q.includeArchived).updates \cup {<<"Windows", "kb", "unheard">>} :
       LET picked == UpdateRows([q EXCEPT !.keys = {k}])
       IN \A r \in picked : r.update = NoName => {x \in picked : x.device = r.device} = {r}
  /\ \A r \in UpdateRows(q) :
       r.reported = "none" =>
         PendingList(r.device) = <<>> /\ (UpdatePlatform(r.device) = "Windows" => row[r.device].count \in {NoCount, 0})

(* Asking for older evidence takes back nothing newer shows. *)
OlderShowsNoLess(q) ==
  q.freshness # "stale" =>
    {r \in UpdateRows(q) : r.state # "unknown"} \subseteq UpdateRows([q EXCEPT !.maxAge = q.maxAge + 1])

(* The picker and the report of updates.  Every device in scope has a row  *)
(* in the report, and the summary counts the rows of each state.           *)
UpdatesAddUp ==
  topic = "updates" => \A q \in UpdateQuestions :
    /\ ~Filters(q) => {r.device : r \in UpdateRows(q)} = UpdateScope(q)
    /\ ~Narrowed(q) => PickedAsCounted(q)
    /\ NoneStandsAlone(q)
    /\ \A s \in DOMAIN UpdateSummary(q) : Cardinality(UpdateReport([q EXCEPT !.states = {s}])) = UpdateSummary(q)[s]
    /\ OlderShowsNoLess(q)

(* The filters of the installs report offer the names its list shows, but  *)
(* Cimian's own, and no other but that of an item of Cimian's the list has *)
(* without a name.  They count a device's pending items as the list has    *)
(* them, when one agent manages it; a stored device is counted apart from  *)
(* the stale ones.                                                         *)
InstallsAddUp ==
  topic \in {"installs", "items"} => \A a \in BOOLEAN :
    LET list == InstallsList(a)
        PendingRows(d) == {x \in list : x.device = d /\ x.text = "pending"}
        Own(x) == x.source = "cimian" /\ x.name \in Bookkeeping /\ ~x.padded
        offered == {[agent |-> x.source, name |-> x.name] : x \in {y \in list : y.name # Untold /\ ~Own(y)}}
    IN /\ offered \subseteq ManagedNames(a)
       /\ \A n \in ManagedNames(a) \ offered : n.agent = "cimian" /\ \E x \in list : x.source = "cimian" /\ x.name = Untold
       /\ \A d \in InstallsListed(a) : ItemsOf(row[d].cimian) = <<>> \/ ItemsOf(row[d].munki) = <<>> =>
            ItemCounts(d).pending = Cardinality(PendingRows(d))
       /\ \A known \in StatesRead :
            Cardinality({s.device : s \in StaleAgents(known, a)}) + StoredCount(known, a) <= Cardinality(InstallsFull(a))

(* The devices the picker counts for a CVE, and those it counts unpatched, *)
(* are the ones picking it shows, whatever the case of its name; one is    *)
(* exploited when a device says so.  The rows it counts for a severity are *)
(* shown by picking it, with those of its other spellings, unless there is *)
(* a comma in it: then others may be asked for.                            *)
CvesAsPicked(q) ==
  LET options == CveOptions(q.platform, q.includeArchived)
      Alike(k) == {j \in DOMAIN options.cves : Plain(j) = Plain(k)}
      Picking(k) == CveRows([q EXCEPT !.identifiers = {k}])
  IN /\ \A k \in DOMAIN options.cves :
          /\ {r.device : r \in Picking(k)} = UNION {options.cves[j].devices : j \in Alike(k)}
          /\ {r.device : r \in {x \in Picking(k) : x.entry.status = "unpatched"}} =
               UNION {options.cves[j].unpatched : j \in Alike(k)}
          /\ (\E j \in Alike(k) : options.cves[j].exploited = "yes") <=>
               CveRows([q EXCEPT !.identifiers = {k}, !.exploited = "yes"]) # {}
     /\ \A s \in DOMAIN options.severities :
          ~HasComma(s) => CveRows([q EXCEPT !.severities = {s}]) =
                            UNION {options.severities[t] : t \in {u \in DOMAIN options.severities : Plain(u) = Plain(s)}}

(* Of the devices in scope each is fresh, stale or neither, and none that sent no list has a row. *)
CveScopeSplits(q) ==
  LET Aged(age) == CveScope([q EXCEPT !.freshness = age])
      Ages == {"fresh", "stale", "unknown"}
  IN /\ CveScope([q EXCEPT !.freshness = "all"]) = UNION {Aged(age) : age \in Ages}
     /\ \A a, b \in Ages : a # b => Aged(a) \cap Aged(b) = {}
     /\ {r.device : r \in CveRows(q)} \cap CveCoverage(q).notReporting = {}

(* Picking what a detection's picker offers shows the devices it counts    *)
(* for it and for its other spellings, unless there is a comma in it; and  *)
(* a longer window of days leaves none out.                                *)
DetectionsAsPicked(q) ==
  LET offered == DetectionOptions(q.platform, q.includeArchived)
  IN /\ DetectionRows(q) \subseteq DetectionRows([q EXCEPT !.days = IF @ = 0 THEN 0 ELSE @ + 1])
     /\ q.days = 0 /\ q.severities = {} /\ q.usages = {} /\ q.inventory = {} => \A v \in DOMAIN offered.vendors :
          ~HasComma(v) => {r.device : r \in DetectionRows([q EXCEPT !.vendors = {v}])} =
                            UNION {offered.vendors[w] : w \in {u \in DOMAIN offered.vendors : Plain(u) = Plain(v)}}

(* The pickers and the reports of CVEs and of detections show the same devices. *)
VulnerabilitiesAddUp ==
  topic = "vulnerabilities" =>
    /\ \A q \in CveQuestions :
         /\ q = EveryCve(q.platform, q.includeArchived) => CvesAsPicked(q)
         /\ CveScopeSplits(q)
    /\ \A q \in ThreatQuestions : DetectionsAsPicked(q)

(* What the filters, the pickers and the distribution offer is what the    *)
(* lists they are made for then show.                                      *)
ListsAddUp == AppsAddUp /\ InstallsAddUp /\ UpdatesAddUp /\ VulnerabilitiesAddUp

(* A device that is off checks in no more: it makes no agent stale.        *)
NoneTurnsStale == topic = "installs" => \A a \in BOOLEAN : StaleAgents(states, a)' = StaleAgents(states, a)

(* What is claimed of its updates ages to "unknown", and never to anything *)
(* else, unless the device dated its documents ahead.                      *)
DatedAhead(d) == row[d].collected > today \/ row[d].search.checked > today
ClaimsOnlyAge ==
  topic = "updates" => \A d \in Registered, q \in UpdateQuestions :
    ~DatedAhead(d) /\ q.minAge = 0 => {r \in RowsOn(d, q)' : r.state # "unknown"} \subseteq RowsOn(d, q)

(* What a device said of its CVEs is no fresher a day later, and no        *)
(* detection enters a window of days it was not in.                        *)
ThreatsOnlyAge ==
  topic = "vulnerabilities" =>
    /\ \A q \in CveQuestions : q.freshness = "fresh" =>
         {d \in CveScope(q)' : row[d].collected <= today} \subseteq CveScope(q)
    /\ \A q \in ThreatQuestions : DetectionRows(q)' \subseteq DetectionRows(q)

(* Time alone proves nothing about a device: neither that its agent does   *)
(* not run, nor that it is patched, waits for an update or met a threat.    *)
SilenceProvesNothing == [][today' # today => NoneTurnsStale /\ ClaimsOnlyAge /\ ThreatsOnlyAge]_vars

(* What a part counts of one device in a row: the device, or its certificates. *)
Behind(part, k, d) ==
  IF k \notin DOMAIN part THEN {}
  ELSE IF query.name = "certificates" /\ k = "certificates" THEN {c \in part[k] : c[1] = d}
  ELSE part[k] \cap {d}

(* No platform has more rows than its part may answer. *)
Uncut ==
  query.name \in Limited /\ query.platform = "all" =>
    \A p \in ToSet(FleetPlatforms) : Execute(query, p, PartLimit(TopN)) = Groups(query, p)

(* A card for the whole fleet counts every device that did not change      *)
(* while it was computed once, whatever the others did between its parts;  *)
(* when nothing changed, it is what one statement over the fleet answers,  *)
(* or would be had no part been cut.                                       *)
CardCountsOnce ==
  Complete =>
    LET whole == Groups(query, query.platform)
        keys == DOMAIN whole \cup UNION {DOMAIN parts[i] : i \in DOMAIN parts}
    IN /\ query.name \notin Limited =>
            \A d \in Devices \ touched, k \in keys :
              SumFunction([i \in DOMAIN parts |-> Cardinality(Behind(parts[i], k, d))]) = Cardinality(Behind(whole, k, d))
       /\ touched = {} /\ Uncut => Answer = MergeRows(query, <<whole>>)

(* A write that replaces leaves its own rows, and those that other writes  *)
(* committed while it ran.                                                 *)
ReplaceClears ==
  [][\A w \in Writers : phase[w] = "commit" /\ states' # states /\ phase'[w] = "idle" /\ asked[w].replace =>
       DOMAIN states' \subseteq DOMAIN asked[w].rows \cup beside[w]]_vars
=============================================================================
