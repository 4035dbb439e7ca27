--------------------------- MODULE SecurityReports ---------------------------
(***************************************************************************)
(* Three readings of the same certificates: the counts of the security     *)
(* report, the certificate search, and the Certificates card.  Expiry is   *)
(* worked out when they are read; a view whose date cannot be read, or     *)
(* stored before views were stamped, has the flags its device collected,   *)
(* and the days collected beside them, zero when there are none.           *)
(*                                                                         *)
(* A date is a number of half days, so that it may lie between two whole   *)
(* days.  Windows shows a certificate (id) in several views.  The id and   *)
(* the name stand for the texts answers are ordered by: numbers, and a     *)
(* name stands for the issuer's besides.                                   *)
(***************************************************************************)
EXTENDS Fleet, FiniteSetsExt

CONSTANTS
  CertWindow, \* CERT_WINDOW_DAYS
  Unnamed     \* a certificate nothing readable names

ASSUME CertWindowAssumption == CertWindow \in Nat

Left(view, now) == view.notAfter - 2 * now
Expired(view, now) == IF view.live THEN Left(view, now) < 0 ELSE view.flag = "expired"
Expiring(view, now) == IF view.live THEN Left(view, now) \in 0..(2 * CertWindow) ELSE view.flag = "expiring"
ClassOf(view) == IF view.class = "none" THEN "actionable" ELSE view.class

(* One view for each certificate: the one somebody has to act on, if there is one. *)
Rank(view) == IF ClassOf(view) = "actionable" THEN 0 ELSE IF ClassOf(view) = "system-managed" THEN 1 ELSE 2
OnePerCert(views) ==
  {CHOOSE v \in views : v.id = c /\ \A w \in views : w.id = c => Rank(v) <= Rank(w) : c \in {x.id : x \in views}}

SecurityScope(includeArchived) == {d \in Registered \ Placeholders : includeArchived \/ d \notin archived}

(* The report folds the views and counts by class. *)
CertCounts(d) ==
  LET certs == OnePerCert(row[d])
      Of(class) == {v \in certs : ClassOf(v) = class}
  IN [total |-> Cardinality(certs), actionable |-> Cardinality(Of("actionable")),
      systemManaged |-> Cardinality(Of("system-managed")), trustStore |-> Cardinality(Of("trust-store")),
      expired |-> Cardinality({v \in Of("actionable") : Expired(v, today)}),
      expiring |-> Cardinality({v \in Of("actionable") : Expiring(v, today)}),
      systemExpired |-> Cardinality({v \in Of("system-managed") : Expired(v, today)}),
      trustExpired |-> Cardinality({v \in Of("trust-store") : Expired(v, today)})]

SecurityList(includeArchived) == [d \in SecurityScope(includeArchived) |-> CertCounts(d)]

(* The search filters the views and then folds them.  It counts whole days: *)
(* what it calls expiring may have up to a day more than the window.        *)
SearchExpiring(view, now) == IF view.live THEN Left(view, now) >= 0 /\ Left(view, now) \div 2 <= CertWindow ELSE view.flag = "expiring"
HasStatus(view, status, now) ==
  CASE status = "expired" -> Expired(view, now)
    [] status = "expiring" -> SearchExpiring(view, now)
    [] status = "valid" -> ~Expired(view, now) /\ ~SearchExpiring(view, now)
    [] OTHER -> TRUE
InClass(view, class) == class \in {"all", ClassOf(view)} \/ (class = "hidden" /\ ClassOf(view) # "actionable")

(* What a search finds, and what it answers of it: the first rows by serial and by name. *)
CertFinds(class, status, includeArchived) ==
  UNION {{[device |-> d, view |-> v] : v \in OnePerCert({x \in row[d] : InClass(x, class) /\ HasStatus(x, status, today)})} :
           d \in SecurityScope(includeArchived)}
Place(d) == CHOOSE i \in DOMAIN SerialOrder : SerialOrder[i] = d
Precedes(r, s) == Place(r.device) < Place(s.device) \/ (r.device = s.device /\ r.view.id < s.view.id)
CertSearch(class, status, includeArchived, limit) == Leading(CertFinds(class, status, includeArchived), Precedes, limit)

(* The card takes what somebody has to act on, and then folds the views; *)
(* its time is that of the transaction all its statements run in.  It    *)
(* asks for the days left also where the device had set the flag.        *)
TimeLeft(view, now) == IF view.live THEN Left(view, now) ELSE view.left
CardExpiring(view, now) == Expiring(view, now) /\ TimeLeft(view, now) \in 0..(2 * CertWindow)
ActionableOn(d) == OnePerCert({v \in row[d] : ClassOf(v) = "actionable"})
CertificatesCard(devices, now) ==
  LET Having(Is(_, _)) == {d \in devices : \E v \in ActionableOn(d) : Is(v, now)}
  IN [certificates |-> UNION {{<<d, v.id>> : v \in {x \in ActionableOn(d) : CardExpiring(x, now)}} : d \in devices},
      expiring |-> Having(CardExpiring), expired |-> Having(Expired)]

(* The names that expire first, with the devices behind each and the least time left. *)
InList(view, now) == ClassOf(view) = "actionable" /\ CardExpiring(view, now) /\ view.name # Unnamed
Listable(devices, now) == UNION {{[device |-> d, view |-> v] : v \in {x \in row[d] : InList(x, now)}} : d \in devices}
Soonest(devices, now, limit) ==
  LET found == Listable(devices, now)
      Under(n) == {e \in found : e.view.name = n}
      Days(n) == Min({TimeLeft(e.view, now) : e \in Under(n)})
      Before(m, n) == Days(m) < Days(n) \/ (Days(m) = Days(n) /\ m < n)
  IN {[name |-> n, days |-> Days(n), devices |-> {e.device : e \in Under(n)}] :
        n \in Leading({e.view.name : e \in found}, Before, limit)}
=============================================================================
