------------------------- MODULE VulnerabilityReports -------------------------
(***************************************************************************)
(* GET /security/vulnerabilities and /security/detections, and what their  *)
(* pickers offer: the CVEs and threats devices report, as they report      *)
(* them.  A device that sent no list is not reporting, and never clean.    *)
(*                                                                         *)
(* A name is [base, caps]: what it says, and whether in capitals; names,   *)
(* severities and vendors are compared without regard to case, and offered *)
(* as they were sent.  The row of a device has the two lists of CVEs a     *)
(* client may send, whether the client said its list was cut, its          *)
(* detections and their date.                                              *)
(***************************************************************************)
EXTENDS UpdateReports

CONSTANTS
  NotSaid,     \* a severity, vendor or flag that was not collected
  Pieces,      \* Pieces[b]: what a name that has a comma is taken for when it is asked for
  MacListLimit \* entries an old macOS client kept

Plain(name) == IF name \in {NoName, NotSaid} THEN name ELSE [name EXCEPT !.caps = FALSE]
InCapitals(name) == IF name = NoName THEN NoName ELSE [name EXCEPT !.caps = TRUE]

(* The CVE itself, else the KB, else whatever names it; a CVE is put in capitals. *)
Identifier(entry) ==
  IF entry.cve # NoName THEN InCapitals(entry.cve) ELSE IF entry.kb # NoName THEN entry.kb ELSE entry.label

(* What is in the list of a macOS client is unpatched; an entry nothing names is left out. *)
Normalized(entry, list) ==
  [identifier |-> Identifier(entry), status |-> IF list = "mac" THEN "unpatched" ELSE entry.status,
   severity |-> entry.severity, exploited |-> entry.exploited]
ListOf(d, list) ==
  LET raw == row[d][list]
      named == IF raw = NoList THEN <<>> ELSE SelectSeq(raw, LAMBDA e : Identifier(e) # NoName)
  IN [i \in DOMAIN named |-> Normalized(named[i], list)]
CveEntries(d) == ListOf(d, "msrc") \o ListOf(d, "mac")

Reporting(d) == IF row[d].msrc # NoList \/ row[d].mac # NoList THEN "reported" ELSE "not_reported"
MayBeIncomplete(d) ==
  row[d].mac # NoList /\ (IF row[d].cut # NotSaid THEN row[d].cut = "yes" ELSE Len(row[d].mac) >= MacListLimit)

(* The rows read, and those of them a question is about. *)
SecurityRows(platformName, includeArchived) ==
  {d \in Registered \ Placeholders :
     (includeArchived \/ d \notin archived) /\ platformName \in {"all", Facts[d].system}}
InScope(d, q) ==
  /\ q.usages = {} \/ Facts[d].usage \in q.usages
  /\ q.inventory = {} \/ (IF d \in DOMAIN states THEN states[d] ELSE "unknown") \in q.inventory
CveScope(q) ==
  {d \in SecurityRows(q.platform, q.includeArchived) :
     InScope(d, q) /\ q.freshness \in {"all", Freshness(row[d].collected, today, q.maxAge)}}

Wants(set, value) == set = {} \/ value \in set

(* What a list of severities or vendors asks for: it is split at its commas.  CVEs are given one by one. *)
HasComma(name) == name # NotSaid /\ name.base \in DOMAIN Pieces
Asked(name) == IF HasComma(name) THEN {[base |-> b, caps |-> FALSE] : b \in Pieces[name.base]} ELSE {Plain(name)}
AskedFor(names) == UNION {Asked(n) : n \in names}

MatchesCve(e, q) ==
  /\ Wants({Plain(n) : n \in q.identifiers}, Plain(e.identifier))
  /\ Wants(q.statuses, e.status) /\ Wants(AskedFor(q.severities), Plain(e.severity))
  /\ q.exploited \in {"all", e.exploited}

(* An entry stands for itself: the same one twice is two rows. *)
CveRows(q) ==
  UNION {{[device |-> d, nth |-> i, entry |-> CveEntries(d)[i]] :
            i \in {j \in DOMAIN CveEntries(d) : MatchesCve(CveEntries(d)[j], q)}} : d \in CveScope(q)}
CveCoverage(q) ==
  LET Told(what) == {d \in CveScope(q) : Reporting(d) = what}
  IN [devices |-> CveScope(q), reporting |-> Told("reported"), notReporting |-> Told("not_reported"),
      incomplete |-> {d \in CveScope(q) : MayBeIncomplete(d)}]

(* One CVE for each spelling; exploited as soon as one device says so, and unknown before "no". *)
SummarizeCves(rows) ==
  [k \in {r.entry.identifier : r \in rows} |->
     LET group == {r \in rows : r.entry.identifier = k}
         With(status) == {r.device : r \in {x \in group : x.entry.status = status}}
         flags == {r.entry.exploited : r \in group}
     IN [devices |-> {r.device : r \in group}, unpatched |-> With("unpatched"), patched |-> With("patched"),
         exploited |-> IF "yes" \in flags THEN "yes" ELSE IF NotSaid \in flags THEN NotSaid ELSE "no"]]

(* The pickers: a severity has the number of its rows, spelling by spelling. *)
EveryCve(platformName, includeArchived) ==
  [identifiers |-> {}, statuses |-> {}, severities |-> {}, exploited |-> "all", freshness |-> "all", maxAge |-> 0,
   platform |-> platformName, usages |-> {}, inventory |-> {}, includeArchived |-> includeArchived]
CveOptions(platformName, includeArchived) ==
  LET rows == CveRows(EveryCve(platformName, includeArchived))
  IN [cves |-> SummarizeCves(rows),
      severities |-> [s \in {r.entry.severity : r \in rows} |-> {r \in rows : r.entry.severity = s}]]

---------------------------------------------------------------------------
(* Detections.  One without a date is in no window of days.  A vendor and  *)
(* a severity stand for the four fields a detection is picked by.          *)
Detections(d) == IF row[d].detections = NoList THEN <<>> ELSE row[d].detections
WithinWindow(e, days) == days = 0 \/ (e.seen # NoDay /\ e.seen >= today - days)

DetectionRows(q) ==
  UNION {{[device |-> d, nth |-> i, entry |-> Detections(d)[i]] :
            i \in {j \in DOMAIN Detections(d) : /\ WithinWindow(Detections(d)[j], q.days)
                                                /\ Wants(AskedFor(q.vendors), Plain(Detections(d)[j].vendor))
                                                /\ Wants(AskedFor(q.severities), Plain(Detections(d)[j].severity))}} :
         d \in {x \in SecurityRows(q.platform, q.includeArchived) : InScope(x, q)}}

(* The pickers of detections: devices are counted once for a value, spelling by spelling. *)
DetectionOptions(platformName, includeArchived) ==
  LET devices == SecurityRows(platformName, includeArchived)
      Count(field) ==
        [v \in UNION {{Detections(d)[i][field] : i \in DOMAIN Detections(d)} : d \in devices} |->
           {d \in devices : \E i \in DOMAIN Detections(d) : Detections(d)[i][field] = v}]
  IN [vendors |-> Count("vendor"), severities |-> Count("severity")]
=============================================================================
