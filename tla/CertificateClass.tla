-------------------------- MODULE CertificateClass --------------------------
(***************************************************************************)
(* Which certificates somebody has to renew.  Each view of a certificate   *)
(* is classified once, when a check-in brings it, and carries its class.   *)
(*                                                                         *)
(* A view says where it was found: a location and a kind of store on       *)
(* Windows, the kind of keychain path on a Mac.  What a runner may leave   *)
(* unsaid is "yes", "no" or "unsaid".                                      *)
(***************************************************************************)
EXTENDS Integers

Classes == {"actionable", "system-managed", "trust-store"}
NoDate == -1000  \* a date that cannot be read

(* A device whose platform is not known is taken for Windows when it names a store and no path. *)
IsWindows(view, platformName) ==
  platformName = "Windows" \/ (platformName = "Unknown" /\ view.path = "none" /\ view.store # "none")

ClassifyWindows(view) ==
  IF view.location = "uefi" THEN "trust-store"
  ELSE IF view.store = "system" THEN "system-managed"
  ELSE IF view.store = "trust" THEN IF view.location = "policy" THEN "actionable" ELSE "trust-store"
  ELSE IF view.agentIssued THEN "system-managed" ELSE "actionable"

(* A self-signed one without its key, or one only its name calls a CA, is an anchor. *)
Anchor(view) ==
  \/ view.ca = "yes"
  \/ view.selfSigned /\ view.key # "yes"
  \/ view.ca = "unsaid" /\ view.key = "unsaid" /\ view.caName

(* Without its key, a certificate in a user's keychain is a copy. *)
ClassifyMac(view) ==
  IF view.path = "system" THEN "trust-store"
  ELSE IF view.path = "agent" \/ view.agentIssued THEN "system-managed"
  ELSE IF Anchor(view) THEN "trust-store"
  ELSE IF (view.path = "user" \/ view.location = "user") /\ view.key = "no" THEN "system-managed"
  ELSE "actionable"

Classify(view, platformName) == IF IsWindows(view, platformName) THEN ClassifyWindows(view) ELSE ClassifyMac(view)

(* Whatever class or date the device claims is replaced. *)
Stamped(views, platformName) ==
  {[v EXCEPT !.class = Classify(v, platformName), !.live = v.notAfter # NoDate] : v \in views}
=============================================================================
