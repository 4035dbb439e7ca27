--------------------------- MODULE InstallReports ---------------------------
(***************************************************************************)
(* The reports made of the installs module: the items each device manages, *)
(* how many are in trouble, and the devices that go on checking in while   *)
(* their management agent no longer runs.                                   *)
(*                                                                         *)
(* A row has a part for each agent.  A part has the sessions it reports,   *)
(* each with the days it ended and started, the same two days of the       *)
(* module itself, its items, and the messages of its last run.  An item    *)
(* has the name its agent knows it by, or is Untold, and may have another  *)
(* to display; padded, there are blanks around them.  Names are numbers.   *)
(***************************************************************************)
EXTENDS Fleet, Sequences, SequencesExt

CONSTANTS
  NoAgent,     \* the device does not report that agent
  Untold,      \* a name that is not given
  Bookkeeping, \* managed_apps and managed_profiles
  StaleAfter,  \* STALE_AGENT_THRESHOLD_DAYS
  SilentAfter  \* SILENT_AGENT_DAYS

ASSUME SilentAssumption == StaleAfter \in Nat /\ SilentAfter \in Nat /\ StaleAfter <= SilentAfter

(* A run that was cut short has a start only. *)
RunTime(record) == IF record.end # NoDay THEN record.end ELSE record.start

(* The newest of the sessions; without any, the module's own run. *)
AgentLastRun(agent) ==
  IF agent = NoAgent THEN NoDay
  ELSE LET days == {RunTime(agent.sessions[i]) : i \in DOMAIN agent.sessions} \ {NoDay}
       IN IF days # {} THEN Max(days) ELSE RunTime(agent.run)

(* Mutation: measured against today. *)
StaleDays_FromToday(agent, d) == IF AgentLastRun(agent) = NoDay THEN NoDay ELSE today - AgentLastRun(agent)

(* How long the device went on checking in after that run: never less than nothing. *)
StaleDays(agent, d) ==
  LET last == AgentLastRun(agent)
  IN IF last = NoDay THEN NoDay ELSE IF last > seen[d] THEN 0 ELSE seen[d] - last

---------------------------------------------------------------------------
(* GET .../installs/filters *)

InstallsListed(includeArchived) == {d \in Registered \ Placeholders : includeArchived \/ d \notin archived}

(* What the report makes of a status text; anything it does not know is installed. *)
Category(text) == IF text \in {"success", "pending", "error", "warning", "removed"} THEN text ELSE "installed"

ItemsOf(agent) == IF agent = NoAgent THEN <<>> ELSE agent.items
ItemsShown(d) == IF ItemsOf(row[d].cimian) # <<>> THEN row[d].cimian.items ELSE ItemsOf(row[d].munki)
CountOf(items, categories) == Cardinality({i \in DOMAIN items : Category(items[i].text) \in categories})
Larger(a, b) == IF a > b THEN a ELSE b

(* The messages of a Munki run count when there are more of them than items in trouble; *)
(* an item may be in trouble and carry a warning besides.                               *)
ItemCounts(d) ==
  LET items == ItemsShown(d)
      munki == row[d].munki
      errors == CountOf(items, {"error"})
      warnings == CountOf(items, {"warning"})
      warned == Cardinality({i \in DOMAIN items : items[i].warned})
  IN [installed |-> CountOf(items, {"installed", "success"}), success |-> CountOf(items, {"success"}),
      pending |-> CountOf(items, {"pending"}), removed |-> CountOf(items, {"removed"}),
      error |-> IF munki = NoAgent THEN errors ELSE Larger(errors, munki.errorMessages),
      warning |-> IF munki = NoAgent THEN warnings ELSE Larger(warnings + warned, munki.warningMessages)]

(* Cimian's reading when the device reports Cimian at all. *)
AgentOf(d) == IF row[d].cimian # NoAgent THEN "cimian" ELSE IF row[d].munki # NoAgent THEN "munki" ELSE "none"
DeviceStaleDays(d) == IF row[d].cimian # NoAgent THEN StaleDays(row[d].cimian, d) ELSE StaleDays(row[d].munki, d)

StaleAgents(known, includeArchived) ==
  {[device |-> d, agent |-> AgentOf(d), days |-> DeviceStaleDays(d)] :
     d \in {x \in InstallsListed(includeArchived) :
              DeviceStaleDays(x) # NoDay /\ DeviceStaleDays(x) >= StaleAfter /\ ~IsStored(known, x)}}

StoredCount(known, includeArchived) == Cardinality({d \in InstallsListed(includeArchived) : IsStored(known, d)})

(* The names the filters offer, without blanks; Cimian's two own bookkeeping *)
(* items are none, unless there are blanks around their names.               *)
Called(item) == IF item.name # Untold THEN item.name ELSE item.display
OffersName(a, item) == Called(item) # Untold /\ (a = "cimian" => Called(item) \notin Bookkeeping \/ item.padded)
ManagedNames(includeArchived) ==
  UNION {UNION {{[agent |-> a, name |-> Called(item)] : item \in {x \in ToSet(ItemsOf(row[d][a])) : OffersName(a, x)}} :
                  d \in InstallsListed(includeArchived)} : a \in {"cimian", "munki"}}

---------------------------------------------------------------------------
(* GET .../installs and .../installs/full *)

(* Every item has its row, and the name it was sent with; for Munki's, else the one displayed. *)
ListedName(a, item) == IF a = "munki" THEN Called(item) ELSE item.name
InstallsList(includeArchived) ==
  UNION {UNION {{[device |-> d, source |-> a, nth |-> i, name |-> ListedName(a, row[d][a].items[i]),
                  padded |-> row[d][a].items[i].padded, text |-> row[d][a].items[i].text] :
                     i \in DOMAIN ItemsOf(row[d][a])} : a \in {"cimian", "munki"}} : d \in InstallsListed(includeArchived)}

(* The sessions are cut to the latest five, and the run's output is left out. *)
InstallsFull(includeArchived) ==
  {[device |-> d, cimian |-> row[d].cimian, munki |-> row[d].munki] : d \in InstallsListed(includeArchived)}

---------------------------------------------------------------------------
(* The agents the Install Health card calls silent, over the devices of its scope. *)

SilentAgents(devices) ==
  [a \in {"munki", "cimian"} |->
     {d \in devices : AgentOf(d) = a /\ StaleDays(row[d][a], d) # NoDay /\ StaleDays(row[d][a], d) > SilentAfter}]
=============================================================================
