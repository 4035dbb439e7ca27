----------------------------- MODULE InsightCards -----------------------------
(***************************************************************************)
(* How a card of the dashboard's insights is computed: a query for the     *)
(* whole fleet is run once for each platform and the parts are merged.     *)
(* Every part is a statement of its own and reads what is committed when   *)
(* it begins; check-ins go on between them.  They share one transaction,   *)
(* and with it the time.                                                   *)
(*                                                                         *)
(* What a query answers is a function: the devices behind each of its      *)
(* rows, or behind each column of its one row.                             *)
(***************************************************************************)
EXTENDS InstallReports, SystemReports, SecurityReports

CONSTANTS
  Queries(_),  \* Queries(t): those that read module t
  Scopes(_),   \* Scopes(t): the scopes cards are asked for
  NoQuery,
  TopN,        \* TOP_N: rows a limited query answers
  SplitFactor, \* SPLIT_LIMIT_FACTOR
  SplitFloor   \* SPLIT_LIMIT_FLOOR

ASSUME SplitAssumption == TopN \in Nat /\ SplitFactor \in Nat \ {0} /\ SplitFloor \in Nat

VARIABLES
  query,   \* the query being run, its scope, and when its transaction began
  parts,   \* the answers of its statements so far
  touched  \* devices that changed since it began

cards == <<query, parts, touched>>

CardsInit == query = NoQuery /\ parts = <<>> /\ touched = {}

(* Only what the reports leave out as well leaves out stored devices. *)
StoredExcluded == {"silent_devices", "install_agent_runs"}

(* Mutation: a device on no known platform is in no part. *)
FleetPlatforms_Known == <<"macOS", "Windows">>

FleetPlatforms == <<"macOS", "Windows", "Unknown">>

(* fleet.sql: the devices a query counts over. *)
CardFleet(q, p) ==
  {d \in Registered \ Placeholders :
     /\ q.includeArchived \/ d \notin archived
     /\ q.hasStates /\ q.name \in StoredExcluded => ~IsStored(states, d)
     /\ p \in {"all", platform[d]}}

(* Items by the state ingest stamped on them; an older one by its text. *)
StateText(item) == IF item.stamp # "none" THEN item.stamp ELSE item.text
FailingOn(d, name) == \E item \in ToSet(ItemsShown(d)) : item.name = name /\ StateText(item) = "error"
FailingItems(devices) ==
  [n \in {x \in (UNION {{i.name : i \in ToSet(ItemsShown(d))} : d \in devices}) \ {Untold} : \E d \in devices : FailingOn(d, x)} |->
     {d \in devices : FailingOn(d, n)}]

PendingItems(devices) ==
  [a \in {"munki", "cimian"} |->
     {d \in devices : /\ a = IF ItemsOf(row[d].cimian) # <<>> THEN "cimian" ELSE "munki"
                      /\ \E i \in ToSet(ItemsShown(d)) : i.stamp = "pending"}]

(* Errors by the counters ingest keeps, of the agent that goes with the platform: of items, *)
(* or of a run that failed in what no item accounts for.                                    *)
InError(agent) ==
  agent # NoAgent /\ (agent.runFailed \/ \E i \in ToSet(agent.items) : StateText(i) = "error")
InstallCounts(devices) ==
  LET On(p) == {d \in devices : platform[d] = p}
      Failed(a, ds) == {d \in ds : InError(row[d][a])}
  IN [column \in {"munki_devices", "cimian_devices", "munki_with_errors", "cimian_with_errors"} |->
        CASE column = "munki_devices" -> On("macOS")
          [] column = "cimian_devices" -> On("Windows")
          [] column = "munki_with_errors" -> Failed("munki", On("macOS"))
          [] OTHER -> Failed("cimian", On("Windows"))]

Limited == {"install_items_failing"}

(* What each query makes of its devices. *)
Table(q, devices) ==
  CASE q.name = "install_counts" -> InstallCounts(devices)
    [] q.name = "install_items_failing" -> FailingItems(devices)
    [] q.name = "install_items_pending" -> PendingItems(devices)
    [] q.name = "install_agent_runs" -> SilentAgents(devices)
    [] q.name = "reboot_debt" -> RebootDebt(devices)
    [] q.name = "os_versions" -> OsVersions(devices)
    [] q.name = "certificates" -> CertificatesCard(devices, q.day)

Groups(q, p) == Table(q, CardFleet(q, p))

(* The first rows by number of devices, and by name. *)
TopOf(counts, limit) ==
  {k \in DOMAIN counts :
     Cardinality({j \in DOMAIN counts : counts[j] > counts[k] \/ (counts[j] = counts[k] /\ j < k)}) < limit}

(* A platform's top rows are not the fleet's: a part answers more of them. *)
PartLimit(limit) == Larger(limit * SplitFactor, SplitFloor)

(* One statement. *)
Execute(q, p, limit) ==
  LET groups == Groups(q, p)
  IN IF q.name \in Limited
       THEN Restrict(groups, TopOf([k \in DOMAIN groups |-> Cardinality(groups[k])], limit))
       ELSE groups

(* The parts of an answer add up, row by row; then the limit holds for the fleet. *)
CountIn(part, k) == IF k \in DOMAIN part THEN Cardinality(part[k]) ELSE 0
MergeRows(q, ps) ==
  LET counts == [k \in UNION {DOMAIN ps[i] : i \in DOMAIN ps} |->
                   SumFunction([i \in DOMAIN ps |-> CountIn(ps[i], k)])]
  IN IF q.name \in Limited THEN Restrict(counts, TopOf(counts, TopN)) ELSE counts

Complete == query # NoQuery /\ Len(parts) = IF query.platform = "all" THEN Len(FleetPlatforms) ELSE 1
Answer == MergeRows(query, parts)

---------------------------------------------------------------------------
(* The check for the table of inventory states may fail: it is taken not to be there. *)
AskCard(name, scope) ==
  /\ query = NoQuery
  /\ query' = [name |-> name, platform |-> scope.platform,
               includeArchived |-> scope.includeArchived, hasStates |-> scope.hasStates, day |-> today]
  /\ UNCHANGED <<parts, touched>>

RunPart ==
  /\ query # NoQuery /\ ~Complete
  /\ parts' = Append(parts, IF query.platform = "all"
                              THEN Execute(query, FleetPlatforms[Len(parts) + 1], PartLimit(TopN))
                              ELSE Execute(query, query.platform, TopN))
  /\ UNCHANGED <<query, touched>>

(* The card is answered; or a statement failed or took too long, and it is an error. *)
EndCard ==
  /\ query # NoQuery
  /\ query' = NoQuery /\ parts' = <<>> /\ touched' = {}

CardStep ==
  /\ \/ \E name \in Queries(topic), scope \in Scopes(topic) : AskCard(name, scope)
     \/ RunPart
     \/ EndCard
  /\ UNCHANGED <<inventory, fleet>>

(* What the fleet's steps do beside a card. *)
Facet(d) == <<row[d], platform[d], seen[d], d \in archived, IsStored(states, d)>>
Beside ==
  /\ touched' = IF query = NoQuery THEN {} ELSE touched \cup {d \in Devices : Facet(d) # Facet(d)'}
  /\ UNCHANGED <<query, parts>>
=============================================================================
