----------------------------- MODULE UsageLedger -----------------------------
(***************************************************************************)
(* What ingest promises about the usage ledger, with no database, process  *)
(* or transaction in sight: the window deltas of a submission are booked   *)
(* at most once for each time the submission was claimed, and a submission *)
(* that is already claimed cannot be claimed again until its claim is      *)
(* forgotten.                                                              *)
(***************************************************************************)
EXTENDS Naturals

CONSTANT Submissions

VARIABLES
  held,    \* submissions whose claim is remembered
  claims,  \* claims[s]: how often s was claimed
  books    \* books[s]: how often the deltas of s were added to the ledger

vars == <<held, claims, books>>

Init ==
  /\ held = {}
  /\ claims = [s \in Submissions |-> 0]
  /\ books = [s \in Submissions |-> 0]

Claim(s) ==
  /\ s \notin held
  /\ held' = held \cup {s}
  /\ claims' = [claims EXCEPT ![s] = @ + 1]
  /\ UNCHANGED books

Book(s) ==
  /\ books[s] < claims[s]
  /\ books' = [books EXCEPT ![s] = @ + 1]
  /\ UNCHANGED <<held, claims>>

Forget(S) ==
  /\ held' = held \ S
  /\ UNCHANGED <<claims, books>>

Next ==
  \/ \E s \in Submissions : Claim(s) \/ Book(s)
  \/ \E S \in SUBSET Submissions : Forget(S)

Spec == Init /\ [][Next]_vars
=============================================================================
