---------------------------- MODULE UsageReports ----------------------------
(***************************************************************************)
(* The reports made of usage_history: the fleet's usage by application,    *)
(* the devices behind one of its rows, the App Usage card, and which       *)
(* devices collect usage at all.                                           *)
(*                                                                         *)
(* A raw application name is a record: a product (base), what trails it    *)
(* (tail, of "version", "arch" and "app", for ".app"), whether it is       *)
(* written in capitals, and whether blanks are around it (padded).  An     *)
(* entry of the history counts one launch and one unit of time; a user is  *)
(* a number, in the order the database has for those who used as much.     *)
(***************************************************************************)
EXTENDS Fleet, Sequences, SequencesExt

CONSTANTS
  Alias,    \* products the alias map folds, and into which
  Machines, \* principals that are no person
  Computers,\* those of them whose name ends in $
  UserRows, \* rows the query for the users returns
  UserLimit \* users shown

ASSUME UsersAssumption == Computers \subseteq Machines /\ UserRows \in Nat /\ UserLimit \in Nat

Lower(name) == [name EXCEPT !.caps = FALSE]

Without(word, tail) == IF tail # <<>> /\ Last(tail) = word THEN Front(tail) ELSE tail

(* The alias map first; else a trailing version goes, and then a trailing architecture. *)
Canonical(name) ==
  IF name.base \in DOMAIN Alias THEN [base |-> Alias[name.base], tail |-> <<>>, caps |-> TRUE, padded |-> FALSE]
  ELSE [base |-> name.base, tail |-> Without("arch", Without("version", name.tail)), caps |-> name.caps, padded |-> FALSE]

(* A question: days back, names picked, usage, catalog and platform wanted, archived ones too? *)
Wanted(set, value) == set = {} \/ value \in set
Open(d, q) == /\ d \in Registered \ Placeholders /\ (q.includeArchived \/ d \notin archived)
              /\ Wanted(q.usages, Facts[d].usage) /\ Wanted(q.catalogs, Facts[d].catalog)
UsageScope(q) == {d \in Registered : Open(d, q) /\ Wanted(q.platforms, platform[d])}
Recent(entry, q) == entry.day >= today - q.days

History(devices, q) == UNION {{[device |-> d, entry |-> e] : e \in {x \in row[d] : Recent(x, q)}} : d \in devices}
Picked(q, app) == \E i \in DOMAIN q.picks : Lower(q.picks[i]) = Lower(app)
UsageRows(q) == {r \in History(UsageScope(q), q) : q.picks = <<>> \/ Picked(q, r.entry.app)}

(* The row of the report a raw name is counted in: the pick it matches, or its canonical name. *)
BucketOf(app, q) ==
  IF q.picks = <<>> THEN Canonical(app)
  ELSE q.picks[CHOOSE i \in DOMAIN q.picks :
         Lower(q.picks[i]) = Lower(app) /\ \A j \in 1..(i - 1) : Lower(q.picks[j]) # Lower(app)]

(* A picked name without usage still has its row. *)
Buckets(q) ==
  LET found == {BucketOf(r.entry.app, q) : r \in UsageRows(q)}
  IN found \cup {q.picks[i] : i \in {j \in DOMAIN q.picks : Lower(q.picks[j]) \notin {Lower(b) : b \in found}}}
RowsBehind(b, q) == {r \in UsageRows(q) : BucketOf(r.entry.app, q) = b}

DevicesOf(rows) == {r.device : r \in rows}
Humans(rows) == {r.entry.user : r \in rows} \ Machines
Active(rows) == {r \in rows : r.entry.active}

ReportRow(b, q) ==
  LET rows == RowsBehind(b, q)
  IN [name |-> b, launches |-> Cardinality(rows), devices |-> DevicesOf(rows), users |-> Humans(rows),
      activeDevices |-> DevicesOf(Active(rows)), activeUsers |-> Humans(Active(rows)),
      aliasedFrom |-> {r.entry.app : r \in rows} \ {b}]

(* The least number of launches keeps rows out, unless names were picked. *)
UsageReport(q) ==
  {r \in {ReportRow(b, q) : b \in Buckets(q)} : q.picks # <<>> \/ r.launches >= q.minLaunches}

UsageSummary(q) ==
  LET report == UsageReport(q)
  IN [apps |-> Cardinality(report), devices |-> Cardinality(UNION {r.devices : r \in report}),
      users |-> Cardinality(UNION {r.users : r \in report}),
      singleUser |-> {r.name : r \in {x \in report : Cardinality(x.users) = 1}},
      noActiveUse |-> {r.name : r \in {x \in report : x.activeDevices = {}}}]

(* The people behind it: the query leaves out computers only and keeps UserRows users, *)
(* who used most first; of these the people are shown, UserLimit at most.              *)
LaunchesBy(u, q) == Cardinality({r \in UsageRows(q) : r.entry.user = u})
Candidates(q) == {r.entry.user : r \in UsageRows(q)} \ Computers
TopUsers(q) ==
  LET Before(u, v) == LaunchesBy(u, q) > LaunchesBy(v, q) \/ (LaunchesBy(u, q) = LaunchesBy(v, q) /\ u < v)
      people == Leading(Candidates(q), Before, UserRows) \ Machines
  IN {[user |-> u, launches |-> LaunchesBy(u, q)] : u \in Leading(people, Before, UserLimit)}

DevicesAggregate(q) ==
  {d \in DevicesOf(UsageRows(q)) :
     q.picks # <<>> \/ q.minLaunches > 0 => d \in UNION {r.devices : r \in UsageReport(q)}}

---------------------------------------------------------------------------
(* GET .../usage/by-device: the names that belong to the one asked for, on any device. *)
(* Mutation: only the name itself. *)
MemberNames_Exact(app, q) == {Lower(app)}

MemberNames(app, q) ==
  LET known == {r.entry.app : r \in History(Registered, q)}
      members == {Lower(n) : n \in {m \in known : \/ Lower(m) = Lower(app)
                                                  \/ Lower(Canonical(m)) = Lower(Canonical(app))}}
  IN IF members = {} THEN {Lower(app)} ELSE members

DrillDown(app, q) ==
  LET rows == {r \in History({d \in Registered : Open(d, q)}, q) : Lower(r.entry.app) \in MemberNames(app, q)}
  IN {[device |-> d,
       launches |-> Cardinality({r \in rows : r.device = d}),
       users |-> Humans({r \in rows : r.device = d}),
       variants |-> {Canonical(r.entry.app) : r \in {x \in rows : x.device = d}}] : d \in DevicesOf(rows)}

---------------------------------------------------------------------------
(* The App Usage card: the names are folded first, then counted without regard to case; *)
(* it shows the first of these apps by hours, of devices that are not archived.         *)
AppUsageCard(q) ==
  LET rows == History(UsageScope(q), q)
      Folded(k) == {r \in rows : Lower(Canonical(r.entry.app)) = k}
  IN {[key |-> k, launches |-> Cardinality(Folded(k)), devices |-> DevicesOf(Folded(k))] :
        k \in {Lower(Canonical(r.entry.app)) : r \in rows}}

---------------------------------------------------------------------------
(* Which devices collect usage; a stored one is counted apart. *)
Collection(d, fresh, stale, known) ==
  IF IsStored(known, d) THEN "storage"
  ELSE IF row[d] = {} THEN "never"
  ELSE LET last == CHOOSE n \in {e.day : e \in row[d]} : \A e \in row[d] : e.day <= n
       IN IF last >= today - fresh THEN "healthy" ELSE IF last >= today - stale THEN "stale" ELSE "dark"

CollectionHealth(fresh, stale, known, includeArchived) ==
  LET listed == {d \in Registered \ Placeholders : includeArchived \/ d \notin archived}
      In(bucket) == {d \in listed : Collection(d, fresh, stale, known) = bucket}
  IN [total |-> Cardinality(listed \ In("storage")), storage |-> In("storage"),
      healthy |-> In("healthy"), stale |-> In("stale"), dark |-> In("dark"), never |-> In("never"),
      darkDevices |-> In("dark") \cup In("never")]
=============================================================================
