-------------------------------- MODULE OAuth --------------------------------
(***************************************************************************)
(* OAuth tokens (oauth/acg.ts, oauth/OAuthService.ts): apps of a mesh with *)
(* authorization codes, access tokens and rotating refresh tokens; channel *)
(* secrets with client-credentials tokens; revocation of both.             *)
(*                                                                         *)
(* Every call of the token endpoint is a Mint, at most one access and one  *)
(* refresh token come out of it, and they have its name.  Every call that  *)
(* revokes is a Revocation.  Both go from one awaited read or write of the *)
(* database to the next, and a crash may end them at any of these.         *)
(***************************************************************************)
EXTENDS Integers, FiniteSets

CONSTANTS
  App,         \* bound of the apps ever registered
  Code,        \* bound of the authorization codes ever issued
  Mint,        \* bound of the calls of the token endpoint
  Revocation,  \* the calls that revoke in progress at once
  MaxSecret,   \* bound of the secrets the channel ever has
  None

ASSUME OAuthAssumption ==
  /\ MaxSecret \in Nat
  /\ None \notin App \union Code \union Mint

VARIABLES
  app,       \* ["oauth-app"]: "none", "live" or "revoked"
  code,      \* ["oauth-auth-code"]: the app of each stored code
  issued,    \* the codes ever issued, each with its app
  secret,    \* ["oauth-channel"]: the number of the channel's secret, 0 for none
  secrets,   \* every secret of the channel: "unused", "made" or "given" to the client
  access,    \* ["oauth-token"]: the mints whose access token is stored
  refresh,   \* ["oauth-refresh"]: the mints whose refresh token is stored
  mint,      \* the calls of the token endpoint
  revoking,  \* the calls that revoke
  history    \* codes whose calls overlapped, mints a revocation could not reach

vars == <<app, code, issued, secret, secrets, access, refresh, mint, revoking,
          history>>

\* from: the mint whose refresh token is used; secret: of a channel's token.
Unused == [step |-> "unused", code |-> None, from |-> None, secret |-> 0]
Idle == [step |-> "idle", app |-> None, made |-> 0, todo |-> {}]
MintSteps == {"unused", "code", "refresh", "access", "tokens", "half", "channel",
              "over"}
RevokeSteps == {"idle", "app", "tokens", "refreshes", "secret", "channel"}
Secrets == 1..MaxSecret

\* The app and the grant (its code) a mint stands for.
AppOf(m) == IF mint[m].code = None THEN None ELSE issued[mint[m].code]
Active(m) == mint[m].step \notin {"unused", "over"}
OfGrant(ms, g) == {m \in ms : mint[m].code = g}
OfApp(ms, a) == {m \in ms : mint[m].code # None /\ AppOf(m) = a}
OfChannel(ms) == {m \in ms : mint[m].secret # 0}

Go(m, step) == mint' = [mint EXCEPT ![m].step = step]

-----------------------------------------------------------------------------
(* Apps and consent.                                                       *)

registerApp(a) ==
  /\ app[a] = "none"
  /\ app' = [app EXCEPT ![a] = "live"]
  /\ UNCHANGED <<code, issued, secret, secrets, access, refresh, mint, revoking, history>>

\* approveAuthorization; its read of the app commutes with what follows it.
approveAuthorization(g, a) ==
  /\ issued[g] = None
  /\ app[a] = "live"
  /\ code' = [code EXCEPT ![g] = a]
  /\ issued' = [issued EXCEPT ![g] = a]
  /\ UNCHANGED <<app, secret, secrets, access, refresh, mint, revoking, history>>

CodeExpires(g) ==
  /\ code' = [code EXCEPT ![g] = None]
  /\ UNCHANGED <<app, issued, secret, secrets, access, refresh, mint, revoking, history>>

-----------------------------------------------------------------------------
(* The token endpoint.                                                     *)

\* Some other call works on the same grant.
Overlaps(m, g) == \E n \in Mint \ {m} : Active(n) /\ mint[n].code = g
Flag(m, g) ==
  history' = [history EXCEPT !.overlapped = @ \union {h \in {g} : Overlaps(m, g)}]

\* authorizationCodeGrant up to its del of the code.  An app is never live again
\* once revoked, so its read may be taken with the read of the code.
ReadCode(m, g) ==
  /\ mint[m] = Unused
  /\ code[g] # None /\ app[code[g]] = "live"
  /\ mint' = [mint EXCEPT ![m].step = "code", ![m].code = g]
  /\ Flag(m, g)
  /\ UNCHANGED <<app, code, issued, secret, secrets, access, refresh, revoking>>

UseCode(m) ==
  /\ mint[m].step = "code"
  /\ code' = [code EXCEPT ![mint[m].code] = None]
  /\ Go(m, "tokens")
  /\ UNCHANGED <<app, issued, secret, secrets, access, refresh, revoking, history>>

ReadRefreshAnyApp(m, n) ==  \* mutant: the app is not read
  LET g == mint[n].code IN
  /\ mint[m] = Unused /\ n \in refresh
  /\ mint' = [mint EXCEPT ![m].step = "refresh", ![m].code = g, ![m].from = n]
  /\ Flag(m, g)
  /\ UNCHANGED <<app, code, issued, secret, secrets, access, refresh, revoking>>

\* refreshTokenGrant up to its first del.
ReadRefresh(m, n) ==
  LET g == mint[n].code IN
  /\ mint[m] = Unused
  /\ n \in refresh /\ app[AppOf(n)] = "live"
  /\ mint' = [mint EXCEPT ![m].step = "refresh", ![m].code = g, ![m].from = n]
  /\ Flag(m, g)
  /\ UNCHANGED <<app, code, issued, secret, secrets, access, refresh, revoking>>

UseRefresh(m) ==
  /\ mint[m].step = "refresh"
  /\ refresh' = refresh \ {mint[m].from}
  /\ Go(m, "access")
  /\ UNCHANGED <<app, code, issued, secret, secrets, access, revoking, history>>

ReplaceKeepsAccess(m) ==  \* mutant: the old access token is left to expire
  /\ mint[m].step = "access"
  /\ Go(m, "tokens")
  /\ UNCHANGED <<app, code, issued, secret, secrets, access, refresh, revoking, history>>

ReplaceAccess(m) ==
  /\ mint[m].step = "access"
  /\ access' = access \ {mint[m].from}
  /\ Go(m, "tokens")
  /\ UNCHANGED <<app, code, issued, secret, secrets, refresh, revoking, history>>

\* mintAcgTokens: two puts.
PutAccess(m) ==
  /\ mint[m].step = "tokens"
  /\ access' = access \union {m}
  /\ Go(m, "half")
  /\ UNCHANGED <<app, code, issued, secret, secrets, refresh, revoking, history>>

PutRefresh(m) ==
  /\ mint[m].step = "half"
  /\ refresh' = refresh \union {m}
  /\ Go(m, "over")
  /\ UNCHANGED <<app, code, issued, secret, secrets, access, revoking, history>>

ReadSecretAny(m, s) ==  \* mutant: any secret the channel ever had will do
  /\ mint[m] = Unused /\ secrets[s] = "given"
  /\ mint' = [mint EXCEPT ![m].step = "channel", ![m].secret = s]
  /\ UNCHANGED <<app, code, issued, secret, secrets, access, refresh, revoking, history>>

\* clientCredentialsGrant up to its put, for a client with secret s.
ReadSecret(m, s) ==
  /\ mint[m] = Unused
  /\ secrets[s] = "given" /\ s = secret
  /\ mint' = [mint EXCEPT ![m].step = "channel", ![m].secret = s]
  /\ UNCHANGED <<app, code, issued, secret, secrets, access, refresh, revoking, history>>

PutChannelAccess(m) ==
  /\ mint[m].step = "channel"
  /\ access' = access \union {m}
  /\ Go(m, "over")
  /\ UNCHANGED <<app, code, issued, secret, secrets, refresh, revoking, history>>

\* Expiry: the grants, resolveMeshBearerToken and validateSkyBearerToken refuse
\* an expired token, and delete it.
AccessExpires(m) ==
  /\ access' = access \ {m}
  /\ UNCHANGED <<app, code, issued, secret, secrets, refresh, mint, revoking, history>>
RefreshExpires(m) ==
  /\ refresh' = refresh \ {m}
  /\ UNCHANGED <<app, code, issued, secret, secrets, access, mint, revoking, history>>

-----------------------------------------------------------------------------
(* Revocation: the record first, then the tokens listed after it, one by one. *)

\* A call that read the record before it changed is out of reach.
Outrun(ms) == history' = [history EXCEPT !.unreached = @ \union {m \in ms : Active(m)}]

\* revokeApp up to the del of the app.
revokeApp(r, a) ==
  /\ revoking[r] = Idle
  /\ app[a] = "live"
  /\ app' = [app EXCEPT ![a] = "revoked"]
  /\ revoking' = [revoking EXCEPT ![r].step = "app", ![r].app = a]
  /\ Outrun(OfApp(Mint, a))
  /\ UNCHANGED <<code, issued, secret, secrets, access, refresh, mint>>

\* createChannelSecret up to the put of the secret.
createChannelSecret(r, s) ==
  /\ revoking[r] = Idle
  /\ secrets[s] = "unused" /\ \A t \in 1..(s - 1) : secrets[t] # "unused"
  /\ secret' = s
  /\ secrets' = [secrets EXCEPT ![s] = "made"]
  /\ revoking' = [revoking EXCEPT ![r].step = "secret", ![r].made = s]
  /\ Outrun(OfChannel(Mint))
  /\ UNCHANGED <<app, code, issued, access, refresh, mint>>

\* revokeChannelSecret up to the del of the secret.
revokeChannelSecret(r) ==
  /\ revoking[r] = Idle
  /\ secret' = 0
  /\ revoking' = [revoking EXCEPT ![r].step = "secret"]
  /\ Outrun(OfChannel(Mint))
  /\ UNCHANGED <<app, code, issued, secrets, access, refresh, mint>>

\* revokeTokens on its own.
revokeTokens(r) ==
  /\ revoking[r] = Idle
  /\ revoking' = [revoking EXCEPT ![r].step = "secret"]
  /\ UNCHANGED <<app, code, issued, secret, secrets, access, refresh, mint, history>>

\* The loops of revokeAppTokens and revokeTokens.
List(r, step, tokens) ==
  /\ revoking' = [revoking EXCEPT ![r].step = step, ![r].todo = tokens]
  /\ UNCHANGED <<app, code, issued, secret, secrets, access, refresh, mint, history>>

ListTokens(r) ==
  \/ /\ revoking[r].step = "app"
     /\ List(r, "tokens", OfApp(access, revoking[r].app))
  \/ /\ revoking[r].step = "tokens" /\ revoking[r].todo = {}
     /\ List(r, "refreshes", OfApp(refresh, revoking[r].app))
  \/ /\ revoking[r].step = "secret"
     /\ List(r, "channel", OfChannel(access))

DeleteListed(r, m) ==
  /\ m \in revoking[r].todo
  /\ revoking' = [revoking EXCEPT ![r].todo = @ \ {m}]
  /\ \/ revoking[r].step = "refreshes"
        /\ refresh' = refresh \ {m} /\ UNCHANGED access
     \/ revoking[r].step \in {"tokens", "channel"}
        /\ access' = access \ {m} /\ UNCHANGED refresh
  /\ UNCHANGED <<app, code, issued, secret, secrets, mint, history>>

\* The call answers, with the secret if it made one.
Revoked(r) ==
  /\ revoking[r].step \in {"refreshes", "channel"} /\ revoking[r].todo = {}
  /\ secrets' = [s \in Secrets |-> IF s = revoking[r].made THEN "given" ELSE secrets[s]]
  /\ revoking' = [revoking EXCEPT ![r] = Idle]
  /\ UNCHANGED <<app, code, issued, secret, access, refresh, mint, history>>

-----------------------------------------------------------------------------
RevokingApp(a) == \E r \in Revocation : revoking[r].app = a
RevokingChannel == \E r \in Revocation : revoking[r].step \in {"secret", "channel"}

\* The process ends: a revocation stays half done, its retry answers 404.
Crash ==
  /\ mint' = [m \in Mint |-> IF Active(m) THEN [mint[m] EXCEPT !.step = "over"]
                              ELSE mint[m]]
  /\ revoking' = [r \in Revocation |-> Idle]
  /\ history' = [history EXCEPT !.unreached = @ \union
       {m \in access \union refresh :
          \/ mint[m].code # None /\ RevokingApp(AppOf(m))
          \/ mint[m].secret \notin {0, secret} /\ RevokingChannel}]
  /\ UNCHANGED <<app, code, issued, secret, secrets, access, refresh>>

Init ==
  /\ app = [a \in App |-> "none"]
  /\ code = [g \in Code |-> None]
  /\ issued = [g \in Code |-> None]
  /\ secret = 0
  /\ secrets = [s \in Secrets |-> "unused"]
  /\ access = {} /\ refresh = {}
  /\ mint = [m \in Mint |-> Unused]
  /\ revoking = [r \in Revocation |-> Idle]
  /\ history = [overlapped |-> {}, unreached |-> {}]

Call(m) ==
  \/ \E g \in Code : ReadCode(m, g)
  \/ \E n \in Mint : ReadRefresh(m, n)
  \/ \E s \in Secrets : ReadSecret(m, s)
  \/ UseCode(m) \/ UseRefresh(m) \/ ReplaceAccess(m) \/ PutAccess(m) \/ PutRefresh(m)
  \/ PutChannelAccess(m) \/ AccessExpires(m) \/ RefreshExpires(m)

Revoke(r) ==
  \/ \E a \in App : revokeApp(r, a)
  \/ \E s \in Secrets : createChannelSecret(r, s)
  \/ revokeChannelSecret(r) \/ revokeTokens(r) \/ ListTokens(r) \/ Revoked(r)
  \/ \E m \in Mint : DeleteListed(r, m)

Next ==
  \/ \E a \in App : registerApp(a)
  \/ \E g \in Code, a \in App : approveAuthorization(g, a)
  \/ \E g \in Code : CodeExpires(g)
  \/ \E m \in Mint : Call(m)
  \/ \E r \in Revocation : Revoke(r)
  \/ Crash

Spec == Init /\ [][Next]_vars

-----------------------------------------------------------------------------
\* Every stored record and every call in progress has its type.
TypeOK ==
  /\ app \in [App -> {"none", "live", "revoked"}]
  /\ code \in [Code -> App \union {None}]
  /\ issued \in [Code -> App \union {None}]
  /\ secret \in 0..MaxSecret
  /\ secrets \in [Secrets -> {"unused", "made", "given"}]
  /\ access \subseteq Mint /\ refresh \subseteq Mint
  /\ mint \in [Mint -> [step : MintSteps, code : Code \union {None},
                       from : Mint \union {None}, secret : 0..MaxSecret]]
  /\ revoking \in [Revocation -> [step : RevokeSteps, app : App \union {None},
                                 made : 0..MaxSecret, todo : SUBSET Mint]]
  /\ history \in [overlapped : SUBSET Code, unreached : SUBSET Mint]

\* A consent lives in one access token and one refresh token at most, however
\* often it is refreshed and wherever a crash falls, unless two calls for the
\* same consent overlapped.
OneTokenPairPerConsent ==
  \A g \in Code \ history.overlapped :
    /\ Cardinality(OfGrant(access, g)) <= 1
    /\ Cardinality(OfGrant(refresh, g)) <= 1
    /\ code[g] # None => OfGrant(access \union refresh, g) = {}

\* Once revokeApp has answered, the app has no token and can never get one,
\* except from calls that had read the app before, or after a crash in between.
RevokedAppHasNoTokens ==
  \A m \in (access \union refresh) \ history.unreached :
    mint[m].code # None /\ app[AppOf(m)] = "revoked" => RevokingApp(AppOf(m))

\* Once a channel's secret has been replaced or deleted, no token of an older one
\* is left, except from calls that had read it before, or after a crash in between.
OnlyCurrentSecretsTokens ==
  \A m \in access \ history.unreached :
    mint[m].secret \notin {0, secret} => RevokingChannel
=============================================================================
