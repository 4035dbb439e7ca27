---------------------------- MODULE InstallStatus ----------------------------
(***************************************************************************)
(* What state a managed-software item is in, how a device's problems are   *)
(* counted, and which fields the cleanup blanks.                           *)
(*                                                                         *)
(* Status texts are kept only as far as the two sets of matchers tell them *)
(* apart: the ladder reads spaces, hyphens and underscores as one, the     *)
(* patterns of the cleanup do not.                                         *)
(***************************************************************************)
EXTENDS Integers, FiniteSets

CONSTANT Names   \* managed items

States == {"error", "warning", "pending", "installed", "removed"}
Problems == {"error", "warning"}

(* The texts, by what the ladder makes of them; "" and "odd" say nothing. *)
Texts == [
  error     |-> {"Error", "Install Failed", "Install Loop", "needs_reinstall"},
  warning   |-> {"Warning", "needs-attention", "Needs Attention", "Not Installed"},
  pending   |-> {"Pending"},
  removed   |-> {"Removed"},
  installed |-> {"Installed"}]

Text == (UNION {Texts[s] : s \in States}) \cup {"", "odd"}

(* current, mapped: the verdict in two fields; status: presence as Munki says it; error, *)
(* warning: messages; seen: the run attributed them; tally: failures were counted.       *)
Item == [current: Text, mapped: Text, status: Text, attempt: Text, error: BOOLEAN,
         warning: BOOLEAN, seen: BOOLEAN, loop: BOOLEAN, tally: BOOLEAN,
         age: {"recent", "old", "unknown"}]

StateOf(text) ==
  IF \E s \in States : text \in Texts[s] THEN CHOOSE s \in States : text \in Texts[s] ELSE "none"

(* The first of a sequence of states that says something. *)
FirstSaid(s) ==
  LET said == {n \in DOMAIN s : s[n] # "none"}
  IN IF said = {} THEN "none" ELSE s[CHOOSE n \in said : \A m \in said : n <= m]

Only(S, s) == IF s \in S THEN s ELSE "none"
When(b, s) == IF b THEN s ELSE "none"

(***************************************************************************)
(* classify_item.  The verdict settles errors and warnings, and good       *)
(* states but for a loop; then presence, the last attempt, the messages    *)
(* the run itself reported, the loop flag.                                 *)
(***************************************************************************)
Classify(i, sessions) ==
  LET verdict  == FirstSaid(<<StateOf(i.current), StateOf(i.mapped)>>)
      good     == verdict \in {"installed", "removed"}
      presence == StateOf(i.status)
      reported == ~sessions \/ i.seen
  IN FirstSaid(<<
       Only(Problems, verdict),
       When(good /\ i.loop, "warning"), When(good, verdict),
       Only(Problems, presence),
       Only(Problems, StateOf(i.attempt)),
       When(reported /\ i.error, "error"), When(reported /\ i.warning, "warning"),
       When(i.loop, "warning"),
       verdict, presence>>)

-----------------------------------------------------------------------------
(* A payload: the items of one platform, the problems of the run that name no item,   *)
(* the items whose installation failed in the run log, and the states stamped on them. *)
Payload == [platform: {"cimian", "munki"}, sessions: BOOLEAN, items: [Names -> Item],
            run: SUBSET Problems, failed: SUBSET Names, stamp: [Names -> States \cup {"none"}]]

InState(p, s) == {n \in Names : Classify(p.items[n], p.sessions) = s}

(* Packages that failed in the latest run's log and that no item accounts for. *)
Unattributed(p) == p.failed \ (InState(p, "error") \cup InState(p, "warning"))

(* install_issue_counts: problems of the run stand in when no item has one. *)
Counts(p) ==
  LET count(s) == IF InState(p, s) # {} THEN Cardinality(InState(p, s))
                  ELSE IF s \in p.run THEN 1 ELSE 0
  IN [errors |-> count("error") + Cardinality(Unattributed(p)), warnings |-> count("warning")]

Stamped(p) ==
  [p EXCEPT !.stamp = [n \in Names |-> Classify(p.items[n], p.sessions)]]

-----------------------------------------------------------------------------
(* The cleanup *)

(* What the patterns of the cleanup find in a status text. *)
CimianMatch(text) == text \in {"Error", "Install Failed", "Warning", "needs-attention", "needs_reinstall"}
MunkiMatch(text) == text \in {"Error", "Install Failed", "Warning"}
MunkiExact(text) == text \in {"Error", "Warning"}

Flagged(platform, i) ==
  \/ i.error \/ i.warning
  \/ platform = "cimian" /\ (i.tally \/ i.loop \/ CimianMatch(i.current))
  \/ platform = "munki" /\ (MunkiMatch(i.status) \/ MunkiExact(i.current))

ClearedItem(platform, i) ==
  IF ~Flagged(platform, i) THEN i
  ELSE IF platform = "cimian"
  THEN [i EXCEPT !.error = FALSE, !.warning = FALSE, !.tally = FALSE, !.loop = FALSE,
                 !.current = IF CimianMatch(@) THEN "Installed" ELSE @,
                 !.mapped = IF CimianMatch(i.current) /\ @ # "" THEN "Installed" ELSE @]
  ELSE [i EXCEPT !.error = FALSE, !.warning = FALSE,
                 !.status = IF MunkiMatch(@) THEN "Installed" ELSE @,
                 !.current = IF MunkiExact(@) THEN "Installed" ELSE @]

(* _clear_install_issue_fields: every item; the problems of the run on Munki only. *)
Cleared(p) ==
  [p EXCEPT !.items = [n \in Names |-> ClearedItem(p.platform, @[n])],
            !.run = IF p.platform = "munki" THEN {} ELSE @]

(* _clear_stale_items_by_age: Cimian's items whose last attempt is old. *)
ClearedByAge(p) ==
  [p EXCEPT !.items = [n \in Names |->
     IF p.platform = "cimian" /\ @[n].age = "old" THEN ClearedItem(p.platform, @[n]) ELSE @[n]]]
=============================================================================
