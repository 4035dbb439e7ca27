--------------------------- MODULE MCUsageHistory ---------------------------
(* Three rows on two days, of two devices, and four deltas for them. *)
EXTENDS UsageHistory, TLC

CONSTANTS d1, d2, d3, d4, o1, o2

Days == <<1, 1, 2>>
Owners == <<o1, o2, o1>>
Targets == d1 :> 1 @@ d2 :> 1 @@ d3 :> 2 @@ d4 :> 3
AllAndOne == {[before |-> 3, devices |-> {}], [before |-> 2, devices |-> {o1}]}
Alike == Permutations(Admins)
=============================================================================
