----------------------- MODULE MCInstallsMaintenance -----------------------
(* Payloads of one item that differ in what the ladder and the cleanup make of them. *)
EXTENDS InstallsMaintenance, TLC

CONSTANT app

Plain == [current |-> "", mapped |-> "", status |-> "", attempt |-> "", error |-> FALSE,
          warning |-> FALSE, seen |-> FALSE, loop |-> FALSE, tally |-> FALSE, age |-> "recent"]
Of(platform, item) ==
  [platform |-> platform, sessions |-> TRUE, items |-> [n \in Names |-> item], run |-> {},
   failed |-> {}, stamp |-> [n \in Names |-> "none"]]

FailedLongAgo == Of("cimian", [Plain EXCEPT !.current = "Error", !.error = TRUE, !.tally = TRUE, !.loop = TRUE,
                                            !.age = "old"])
FailsNow == [Of("cimian", [Plain EXCEPT !.current = "Pending", !.error = TRUE, !.seen = TRUE]) EXCEPT !.failed = Names]
MunkiWarns == [Of("munki", [Plain EXCEPT !.status = "Warning", !.warning = TRUE]) EXCEPT !.run = {"warning"}]

Some == {FailedLongAgo, FailsNow}
Old == {[is |-> MunkiWarns, counts |-> [errors |-> 0, warnings |-> 0]],
        [is |-> Of("cimian", [Plain EXCEPT !.current = "Installed"]), counts |-> [errors |-> 0, warnings |-> 2]]}
Alike == Permutations(Admins)
=============================================================================
