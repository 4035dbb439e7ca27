------------------------------ MODULE MCIngest ------------------------------
(* Small payloads for Ingest: one device, two check-ins collected at 1 and 2. *)
EXTENDS Ingest, TLC

CONSTANTS d1, s1, s2

Ev(kind, module, sound) ==
  [kind |-> kind, module |-> module, reports |-> FALSE, moot |-> FALSE, sound |-> sound]

CheckIn(keyed, at, mods, evs) ==
  [device |-> d1, keyed |-> keyed, at |-> at, modules |-> mods,
   usage |-> TRUE, named |-> "module", events |-> evs]

(* A failing run that carries usage deltas, and the quiet run after it. *)
TwoRuns ==
  s1 :> CheckIn(TRUE, 1, {"installs", "applications"}, <<Ev("error", "installs", TRUE)>>) @@
  s2 :> CheckIn(TRUE, 2, {"system", "installs", "applications"},
                <<[Ev("error", "none", TRUE) EXCEPT !.moot = TRUE], Ev("info", "os_update", TRUE)>>)

(* A quiet run with an event that cannot be stored. *)
BadEvent ==
  s1 :> CheckIn(TRUE, 1, {"installs"}, <<Ev("error", "installs", TRUE)>>) @@
  s2 :> CheckIn(TRUE, 2, {"installs"}, <<Ev("info", "other", FALSE)>>)

(* An unkeyed first run with an event to drop, and a keyed check-in. *)
FirstContact ==
  s1 :> CheckIn(FALSE, 1, {"installs"}, <<[Ev("error", "none", TRUE) EXCEPT !.moot = TRUE]>>) @@
  s2 :> CheckIn(TRUE, 2, {}, <<>>)

Once == [s \in Submissions |-> 1]
Twice == [s \in Submissions |-> 2]
(* Processes are alike. *)
WorkerTwins == Permutations(Workers)

ThreeAndTwo == s1 :> 3 @@ s2 :> 2
=============================================================================
