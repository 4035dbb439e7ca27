------------------------------- MODULE Access -------------------------------
(***************************************************************************)
(* Who a request is and what it may do: the credentials it presents, in    *)
(* the order they are looked at, and the one scope gate behind them.       *)
(***************************************************************************)
EXTENDS Sequences, SequencesExt

CONSTANTS
  Absent,      \* the header is not sent, or the setting is not configured
  Passphrases  \* what a client may present as passphrase, listed or not

AllScopes == {"read", "ingest", "admin"}

(***************************************************************************)
(* A key presented is "live" when it parses, is stored, active and its     *)
(* hash matches; otherwise, a lookup that failed included, it is "dead".   *)
(* A bearer token is "dead" for every reason there is not to accept it.    *)
(***************************************************************************)
Credentials == [
  internal: {Absent, "right", "wrong"},
  principal: BOOLEAN,
  key: {Absent, "live", "dead"}, keyScopes: SUBSET AllScopes,
  bearer: {Absent, "live", "dead"}, bearerScopes: SUBSET AllScopes,
  passphrase: Passphrases \cup {Absent}]

(* listed: the comma-separated passphrases, the current one first. *)
Settings == [
  disabled: BOOLEAN, secret: BOOLEAN, trusted: BOOLEAN, listed: Seq(Passphrases)]

(* A stored key row, as the lookup returns it: a failed lookup is a row that is not there. *)
KeyStanding(row) ==
  IF row # Absent /\ row.active /\ row.hashMatches THEN "live" ELSE "dead"

(* A token is accepted when every check passes and it grants a scope of its own or by default. *)
TokenScopes(token, defaults) ==
  IF token.granted = {} THEN defaults ELSE token.granted

TokenStanding(token, enabled, defaults) ==
  IF /\ enabled
     /\ token.decodes /\ token.issuerTrusted /\ token.keyResolves /\ token.verifies
     /\ TokenScopes(token, defaults) # {}
  THEN "live" ELSE "dead"

Principal(method, scopes) == [method |-> method, scopes |-> scopes, status |-> 200, reason |-> Absent]
Refused(status, reason) == [method |-> Absent, scopes |-> {}, status |-> status, reason |-> reason]

(* Any passphrase of the list is accepted; with an empty list that is the server's fault. *)
ByPassphrase(c, s) ==
  IF s.listed = <<>> THEN Refused(500, Absent)
  ELSE IF c.passphrase \in ToSet(s.listed) THEN Principal("passphrase", AllScopes)
  ELSE Refused(401, "invalid_passphrase")

(* A key or token that is not accepted gives way to a passphrase beside it. *)
OrPassphrase(c, s, standing, method, scopes, reason) ==
  CASE standing = "live" -> Principal(method, scopes)
    [] standing # "live" /\ c.passphrase # Absent -> ByPassphrase(c, s)
    [] OTHER -> Refused(401, reason)

ByInternal(c, s) ==
  CASE ~s.secret -> Refused(500, Absent)
    [] s.secret /\ c.internal = "wrong" -> Refused(401, "invalid_internal_secret")
    [] OTHER -> Principal("internal_secret", AllScopes)

(***************************************************************************)
(* The first credential that is looked at decides, but for a dead key or   *)
(* token next to a passphrase.  A token next to a key is not looked at.    *)
(***************************************************************************)
Identify(c, s) ==
  CASE s.disabled -> Principal("auth_disabled", AllScopes)
    [] ~s.disabled /\ c.internal # Absent -> ByInternal(c, s)
    [] ~s.disabled /\ c.internal = Absent /\ c.principal /\ s.trusted ->
         Principal("managed_identity", AllScopes)
    [] OTHER ->
         IF c.key # Absent
         THEN OrPassphrase(c, s, c.key, "api_key", c.keyScopes, "invalid_api_key")
         ELSE IF c.bearer # Absent
         THEN OrPassphrase(c, s, c.bearer, "oidc", c.bearerScopes, "invalid_bearer_token")
         ELSE IF c.passphrase # Absent THEN ByPassphrase(c, s)
         ELSE Refused(401, "missing_credentials")

RequiredScope(method, adminPath) ==
  CASE adminPath -> "admin"
    [] ~adminPath /\ method \in {"GET", "HEAD", "OPTIONS"} -> "read"
    [] ~adminPath /\ method = "POST" -> "ingest"
    [] OTHER -> "admin"

(* Authentication and then the scope gate, which a disabled authentication skips. *)
Authorize(c, s, method, adminPath) ==
  LET who == Identify(c, s)
  IN IF \/ who.status # 200 \/ s.disabled
        \/ RequiredScope(method, adminPath) \in who.scopes
     THEN who ELSE Refused(403, "insufficient_scope")

(* Startup: authentication may only be off where nothing says production. *)
MayStart(s, environment, secretsConfigured) ==
  \/ ~s.disabled
  \/ environment = "nonprod"
  \/ environment # "prod" /\ ~secretsConfigured

(* What a refusal leaves in ingest_failures: device credentials anywhere, everything on ingest. *)
AuthRecorded(verdict, ingestPost) ==
  /\ verdict.reason # Absent
  /\ ingestPost \/ verdict.reason \in {"invalid_passphrase", "invalid_api_key"}
=============================================================================
