---------------------------- MODULE MCFrontDoor ----------------------------
(* Two replicas, a device that is let in and one without headers that is not, behind one router. *)
EXTENDS FrontDoor, TLC

CONSTANTS d1, d2, r1, r2, router, current, other

OneRouter == [d \in Devices |-> router]

Plain == [encoding |-> "none", inflates |-> TRUE, size |-> 0, ended |-> TRUE]
Real == [blank |-> FALSE, sentinel |-> FALSE, fewDigits |-> FALSE, hostShaped |-> FALSE, ownName |-> FALSE]
Good == [arrives |-> "whole", empty |-> FALSE, stream |-> Plain, parses |-> TRUE, nul |-> FALSE,
         fits |-> TRUE, serial |-> Real]
Aborted == [Good EXCEPT !.arrives = "aborted"]
DroppedAndGood == {Good, Aborted}
NoOne == [internal |-> Absent, principal |-> FALSE, key |-> Absent, keyScopes |-> {},
          bearer |-> Absent, bearerScopes |-> {}, passphrase |-> Absent]
ExpiredToken == [decodes |-> TRUE, issuerTrusted |-> TRUE, keyResolves |-> TRUE, verifies |-> FALSE, granted |-> {"ingest"}]
RevokedKey == [active |-> FALSE, hashMatches |-> TRUE]
Both == [d \in Devices |->
  IF d = d1 THEN [NoOne EXCEPT !.passphrase = current, !.bearer = TokenStanding(ExpiredToken, TRUE, {})]
            ELSE [NoOne EXCEPT !.passphrase = other, !.key = KeyStanding(RevokedKey)]]
OnlyCurrent == [disabled |-> FALSE, secret |-> TRUE, trusted |-> FALSE, listed |-> <<current>>]

Twins == Permutations(Replicas)
=============================================================================
