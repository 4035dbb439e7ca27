---------------------------- MODULE MCDeviceAdmin ----------------------------
(* One device with two module tables. *)
EXTENDS DeviceAdmin, TLC

CONSTANTS a1, a2, i1, i2

AnOrder == <<"installs", "system">>
Alike == Permutations(CheckIns) \cup Permutations(Admins)
=============================================================================
