------------------------------ MODULE OAuthProofs ------------------------------
(***************************************************************************)
(* Proofs about OAuth for every number of apps, codes, calls, revocations   *)
(* and secrets, wherever a call, an expiry or a crash falls between two     *)
(* writes: types, one pair of tokens for a consent, and no token of a       *)
(* revoked app or a replaced secret.                                        *)
(***************************************************************************)
EXTENDS OAuth, FiniteSetTheorems, TLAPS

Tokens == access \union refresh
Granting == {"code", "refresh", "access", "tokens", "half"}

\* What a call of the token endpoint and the tokens it made stand for.
KindInv ==
  /\ \A g \in Code : code[g] # None => issued[g] = code[g]
  /\ \A m \in Mint :
       /\ mint[m].step = "unused" => mint[m] = Unused
       /\ mint[m].step \in Granting => mint[m].code # None
       /\ mint[m].step = "channel" => mint[m].code = None
       /\ mint[m].code # None => issued[mint[m].code] # None /\ mint[m].secret = 0
  /\ \A m \in Tokens : mint[m].step # "unused"
  /\ \A m \in refresh : mint[m].code # None

TypeInv == TypeOK /\ KindInv

\* The tokens of a consent, by what the only call that works on it has done.
\* They all are of one mint.
OnePair(g) ==
  /\ \A m, n \in Tokens : mint[m].code = g /\ mint[n].code = g => m = n
  /\ code[g] # None => \A m \in Tokens : mint[m].code # g
  /\ \A m \in Mint : Active(m) /\ mint[m].code = g =>
       /\ \A n \in Mint : Active(n) /\ mint[n].code = g => n = m
       /\ mint[m].step # "code" => code[g] = None
       /\ \A n \in Tokens : mint[n].code = g =>
            \/ mint[m].step = "refresh" /\ n = mint[m].from
            \/ mint[m].step = "access" /\ n = mint[m].from /\ n \notin refresh
            \/ mint[m].step = "half" /\ n = m
GrantInv == \A g \in Code \ history.overlapped : OnePair(g)

OfRevoked(m) == mint[m].code # None /\ app[AppOf(m)] = "revoked"
Old(m) == mint[m].secret \notin {0, secret}

\* What is left to do by a revocation that will delete m.
WillDeleteAccess(r, m) ==
  \/ revoking[r].step = "app"
  \/ revoking[r].step = "tokens" /\ m \in revoking[r].todo
WillDeleteRefresh(r, m) ==
  \/ revoking[r].step \in {"app", "tokens"}
  \/ revoking[r].step = "refreshes" /\ m \in revoking[r].todo
WillDeleteChannel(r, m) ==
  \/ revoking[r].step = "secret"
  \/ revoking[r].step = "channel" /\ m \in revoking[r].todo

\* A token of a revoked app is still to be listed, or listed, by some revocation.
AppInv ==
  /\ \A m \in Mint : Active(m) /\ OfRevoked(m) => m \in history.unreached
  /\ \A m \in access \ history.unreached : OfRevoked(m) =>
       \E r \in Revocation : revoking[r].app = AppOf(m) /\ WillDeleteAccess(r, m)
  /\ \A m \in refresh \ history.unreached : OfRevoked(m) =>
       \E r \in Revocation : revoking[r].app = AppOf(m) /\ WillDeleteRefresh(r, m)

\* So is a token of an old secret.
ChannelInv ==
  /\ \A m \in Mint : Active(m) /\ Old(m) => m \in history.unreached
  /\ \A m \in access \ history.unreached : Old(m) =>
       \E r \in Revocation : WillDeleteChannel(r, m)
  /\ \A m \in Mint : mint[m].secret # 0 => secrets[mint[m].secret] # "unused"

\* The types of a call, a revocation and the history.
CallType == [step : MintSteps, code : Code \union {None}, from : Mint \union {None},
          secret : 0..MaxSecret]
RevocationType == [step : RevokeSteps, app : App \union {None}, made : 0..MaxSecret,
                todo : SUBSET Mint]
History == [overlapped : SUBSET Code, unreached : SUBSET Mint]

-----------------------------------------------------------------------------
(* Types.                                                                  *)

\* What a call does to its own record is all it does to the calls.
LEMMA Gone ==
  ASSUME TypeOK, NEW m \in Mint, NEW step \in MintSteps, Go(m, step)
  PROVE  /\ \A n \in Mint \ {m} : mint'[n] = mint[n]
         /\ mint'[m].step = step /\ mint'[m].code = mint[m].code
         /\ mint'[m].from = mint[m].from /\ mint'[m].secret = mint[m].secret
         /\ mint' \in [Mint -> CallType]
  BY DEF Go, TypeOK, CallType

LEMMA Begun ==
  ASSUME TypeOK, NEW m \in Mint, NEW c \in CallType, mint' = [mint EXCEPT ![m] = c]
  PROVE  /\ \A n \in Mint \ {m} : mint'[n] = mint[n]
         /\ mint'[m] = c
         /\ mint' \in [Mint -> CallType]
  BY DEF TypeOK, CallType

LEMMA Turned ==
  ASSUME TypeOK, NEW r \in Revocation, NEW v \in RevocationType,
         revoking' = [revoking EXCEPT ![r] = v]
  PROVE  /\ \A q \in Revocation \ {r} : revoking'[q] = revoking[q]
         /\ revoking'[r] = v
         /\ revoking' \in [Revocation -> RevocationType]
  BY DEF TypeOK, RevocationType

\* A crash ends the calls in progress.
LEMMA Crashed ==
  ASSUME TypeOK, Crash
  PROVE  /\ \A m \in Mint :
              /\ mint'[m].step = IF Active(m) THEN "over" ELSE mint[m].step
              /\ mint'[m].code = mint[m].code /\ mint'[m].from = mint[m].from
              /\ mint'[m].secret = mint[m].secret
              /\ ~Active(m) => mint'[m] = mint[m]
         /\ mint' \in [Mint -> CallType]
<1>1. ASSUME NEW m \in Mint
      PROVE  /\ mint'[m].step = IF Active(m) THEN "over" ELSE mint[m].step
             /\ mint'[m].code = mint[m].code /\ mint'[m].from = mint[m].from
             /\ mint'[m].secret = mint[m].secret
             /\ ~Active(m) => mint'[m] = mint[m]
             /\ mint'[m] \in CallType
  <2>1. mint[m] \in CallType BY DEF TypeOK, CallType
  <2>2. mint'[m] = IF Active(m) THEN [mint[m] EXCEPT !.step = "over"] ELSE mint[m]
    BY DEF Crash
  <2>3. CASE Active(m) BY <2>1, <2>2, <2>3 DEF CallType, MintSteps
  <2>4. CASE ~Active(m) BY <2>1, <2>2, <2>4
  <2> QED BY <2>3, <2>4
<1>2. mint' = [m \in Mint |-> mint'[m]] BY DEF Crash
<1> QED BY <1>1, <1>2

\* A call that goes on keeps what it stands for.
LEMMA KindGone ==
  ASSUME TypeInv, NEW m \in Mint, NEW step \in MintSteps \ {"unused", "channel"}, Go(m, step),
         mint[m].step # "unused", step \in Granting => mint[m].step \in Granting,
         access' \subseteq access \union {m}, refresh' \subseteq refresh \union {m},
         mint[m].code = None => refresh' \subseteq refresh,
         issued' = issued, \A g \in Code : code'[g] \in {None, code[g]}
  PROVE  KindInv' /\ mint' \in [Mint -> CallType]
<1> USE DEF TypeInv, Tokens, KindInv
<1>1. /\ \A n \in Mint \ {m} : mint'[n] = mint[n]
      /\ mint'[m].step = step /\ mint'[m].code = mint[m].code
      /\ mint'[m].secret = mint[m].secret /\ mint' \in [Mint -> CallType]
  BY Gone
<1>2. \A n \in Mint :
        /\ mint'[n].step = "unused" => mint'[n] = Unused
        /\ mint'[n].step \in Granting => mint'[n].code # None
        /\ mint'[n].step = "channel" => mint'[n].code = None
        /\ mint'[n].code # None => issued'[mint'[n].code] # None /\ mint'[n].secret = 0
  BY <1>1
<1>3. /\ \A n \in access' \union refresh' : n \in Mint /\ mint'[n].step # "unused"
      /\ \A n \in refresh' : mint'[n].code # None
  BY <1>1 DEF TypeOK
<1> QED BY <1>1, <1>2, <1>3

LEMMA TypeInit == Init => TypeInv
  BY OAuthAssumption
  DEF Init, TypeInv, TypeOK, KindInv, Unused, Idle, MintSteps, RevokeSteps, Secrets, Tokens,
      Granting, OAuthAssumption

LEMMA TypeStep == TypeInv /\ [Next]_vars => TypeInv'
<1> SUFFICES ASSUME TypeInv, [Next]_vars PROVE TypeInv'
  OBVIOUS
<1> USE DEF TypeInv, Tokens, Granting, MintSteps, RevokeSteps, Secrets
<1>1. None \notin Code /\ None \notin App /\ None \notin Mint /\ MaxSecret \in Nat
  BY OAuthAssumption DEF OAuthAssumption
<1>2. ASSUME NEW a \in App, registerApp(a) PROVE TypeInv'
  BY <1>2 DEF registerApp, TypeOK, KindInv
<1>3. ASSUME NEW g \in Code, NEW a \in App, approveAuthorization(g, a) PROVE TypeInv'
  BY <1>1, <1>3 DEF approveAuthorization, TypeOK, KindInv
<1>4. ASSUME NEW g \in Code, CodeExpires(g) PROVE TypeInv'
  BY <1>1, <1>4 DEF CodeExpires, TypeOK, KindInv
<1>5. ASSUME NEW m \in Mint, Call(m) PROVE TypeInv'
  <2> mint[m] \in CallType BY DEF TypeOK, CallType
  <2>1. ASSUME NEW g \in Code, ReadCode(m, g) PROVE TypeInv'
    <3> DEFINE c == [mint[m] EXCEPT !.step = "code", !.code = g]
    <3>1. c \in CallType BY DEF CallType
    <3>2. c.step = "code" /\ c.code = g /\ c.secret = 0
      BY <2>1 DEF CallType, ReadCode, Unused
    <3>3. mint' = [mint EXCEPT ![m] = c] BY <2>1 DEF ReadCode, TypeOK
    <3> HIDE DEF c
    <3>4. history' \in History BY <2>1 DEF ReadCode, Flag, History, TypeOK
    <3>5. KindInv' BY <1>1, <2>1, <3>1, <3>2, <3>3, Begun DEF ReadCode, Unused, TypeOK, KindInv
    <3>6. mint' \in [Mint -> CallType] BY <3>1, <3>3, Begun
    <3> QED BY <2>1, <3>4, <3>5, <3>6 DEF ReadCode, History, CallType, TypeOK
  <2>2. ASSUME NEW n \in Mint, ReadRefresh(m, n) PROVE TypeInv'
    <3> DEFINE g == mint[n].code
               c == [mint[m] EXCEPT !.step = "refresh", !.code = g, !.from = n]
    <3>1. g \in Code BY <2>2 DEF ReadRefresh, TypeOK, KindInv
    <3>2. c \in CallType BY <3>1 DEF CallType
    <3>3. c.step = "refresh" /\ c.code = g /\ c.secret = 0
      BY <2>2 DEF CallType, ReadRefresh, Unused
    <3>4. mint' = [mint EXCEPT ![m] = c] BY <2>2 DEF ReadRefresh, TypeOK
    <3>5. history' \in History BY <2>2, <3>1 DEF ReadRefresh, Flag, History, TypeOK
    <3>6. issued[g] # None BY <2>2 DEF ReadRefresh, KindInv
    <3> HIDE DEF c, g
    <3>7. KindInv'
      BY <1>1, <2>2, <3>1, <3>2, <3>3, <3>4, <3>6, Begun DEF ReadRefresh, Unused, TypeOK, KindInv
    <3> QED BY <2>2, <3>2, <3>4, <3>5, <3>7, Begun DEF ReadRefresh, History, CallType, TypeOK
  <2>3. ASSUME NEW x \in Secrets, ReadSecret(m, x) PROVE TypeInv'
    <3> DEFINE c == [mint[m] EXCEPT !.step = "channel", !.secret = x]
    <3>1. x \in 0..MaxSecret BY <1>1
    <3>2. c \in CallType BY <3>1 DEF CallType
    <3>3. c.step = "channel" /\ c.code = None /\ c.secret = x
      BY <2>3 DEF CallType, ReadSecret, Unused
    <3>4. mint' = [mint EXCEPT ![m] = c] BY <2>3 DEF ReadSecret, TypeOK
    <3> HIDE DEF c
    <3>5. KindInv' BY <1>1, <2>3, <3>2, <3>3, <3>4, Begun DEF ReadSecret, Unused, TypeOK, KindInv
    <3>6. mint' \in [Mint -> CallType] BY <3>2, <3>4, Begun
    <3> QED BY <2>3, <3>5, <3>6 DEF ReadSecret, CallType, TypeOK
  <2>4. CASE UseCode(m)
    <3>1. KindInv' /\ mint' \in [Mint -> CallType]
      BY <1>1, <2>4, KindGone DEF UseCode, KindInv, TypeOK
    <3> QED BY <1>1, <2>4, <3>1 DEF UseCode, CallType, TypeOK
  <2>5. CASE UseRefresh(m)
    <3>1. KindInv' /\ mint' \in [Mint -> CallType]
      BY <1>1, <2>5, KindGone DEF UseRefresh, KindInv, TypeOK
    <3> QED BY <1>1, <2>5, <3>1 DEF UseRefresh, CallType, TypeOK
  <2>6. CASE ReplaceAccess(m)
    <3>1. KindInv' /\ mint' \in [Mint -> CallType]
      BY <1>1, <2>6, KindGone DEF ReplaceAccess, KindInv, TypeOK
    <3> QED BY <1>1, <2>6, <3>1 DEF ReplaceAccess, CallType, TypeOK
  <2>7. CASE PutAccess(m)
    <3>1. KindInv' /\ mint' \in [Mint -> CallType]
      BY <1>1, <2>7, KindGone DEF PutAccess, KindInv, TypeOK
    <3> QED BY <1>1, <2>7, <3>1 DEF PutAccess, CallType, TypeOK
  <2>8. CASE PutRefresh(m)
    <3>1. KindInv' /\ mint' \in [Mint -> CallType]
      BY <1>1, <2>8, KindGone DEF PutRefresh, KindInv, TypeOK
    <3> QED BY <1>1, <2>8, <3>1 DEF PutRefresh, CallType, TypeOK
  <2>9. CASE PutChannelAccess(m)
    <3>1. KindInv' /\ mint' \in [Mint -> CallType]
      BY <1>1, <2>9, KindGone DEF PutChannelAccess, KindInv, TypeOK
    <3> QED BY <1>1, <2>9, <3>1 DEF PutChannelAccess, CallType, TypeOK
  <2>10. CASE AccessExpires(m)
    BY <2>10 DEF AccessExpires, TypeOK, KindInv
  <2>11. CASE RefreshExpires(m)
    BY <2>11 DEF RefreshExpires, TypeOK, KindInv
  <2> QED BY <1>5, <2>1, <2>2, <2>3, <2>4, <2>5, <2>6, <2>7, <2>8, <2>9, <2>10, <2>11 DEF Call
<1>6. ASSUME NEW r \in Revocation, Revoke(r) PROVE TypeInv'
  <2> revoking[r] \in RevocationType BY DEF TypeOK, RevocationType
  <2>1. ASSUME NEW a \in App, revokeApp(r, a) PROVE TypeInv'
    <3>1. history' \in History BY <2>1 DEF revokeApp, Outrun, OfApp, History, TypeOK
    <3> DEFINE v == [revoking[r] EXCEPT !.step = "app", !.app = a]
    <3>2. v \in RevocationType BY DEF RevocationType
    <3>3. revoking' = [revoking EXCEPT ![r] = v] BY <2>1 DEF revokeApp, TypeOK
    <3> HIDE DEF v
    <3>4. revoking' \in [Revocation -> RevocationType] BY <3>2, <3>3, Turned
    <3>5. KindInv' BY <2>1 DEF revokeApp, KindInv
    <3> QED BY <2>1, <3>1, <3>4, <3>5 DEF revokeApp, History, RevocationType, TypeOK
  <2>2. ASSUME NEW x \in Secrets, createChannelSecret(r, x) PROVE TypeInv'
    <3>1. history' \in History BY <2>2 DEF createChannelSecret, Outrun, OfChannel, History, TypeOK
    <3> DEFINE v == [revoking[r] EXCEPT !.step = "secret", !.made = x]
    <3>2. x \in 0..MaxSecret BY <1>1
    <3>3. v \in RevocationType BY <3>2 DEF RevocationType
    <3>4. revoking' = [revoking EXCEPT ![r] = v] BY <2>2 DEF createChannelSecret, TypeOK
    <3> HIDE DEF v
    <3>5. revoking' \in [Revocation -> RevocationType] BY <3>3, <3>4, Turned
    <3>6. KindInv' BY <2>2 DEF createChannelSecret, KindInv
    <3> QED
      BY <1>1, <2>2, <3>1, <3>5, <3>6 DEF createChannelSecret, History, RevocationType, TypeOK
  <2>3. ASSUME revokeChannelSecret(r) \/ revokeTokens(r) PROVE TypeInv'
    <3>1. history' \in History
      BY <2>3 DEF revokeChannelSecret, revokeTokens, Outrun, OfChannel, History, TypeOK
    <3> DEFINE v == [revoking[r] EXCEPT !.step = "secret"]
    <3>2. v \in RevocationType BY DEF RevocationType
    <3>3. revoking' = [revoking EXCEPT ![r] = v]
      BY <2>3 DEF revokeChannelSecret, revokeTokens, TypeOK
    <3> HIDE DEF v
    <3>4. revoking' \in [Revocation -> RevocationType] BY <3>2, <3>3, Turned
    <3>5. KindInv' BY <2>3 DEF revokeChannelSecret, revokeTokens, KindInv
    <3> QED
      BY <1>1, <2>3, <3>1, <3>4, <3>5
      DEF revokeChannelSecret, revokeTokens, History, RevocationType, TypeOK
  <2>4. ASSUME NEW step \in RevokeSteps, NEW tokens \in SUBSET Mint, List(r, step, tokens)
        PROVE  TypeInv'
    <3> DEFINE v == [revoking[r] EXCEPT !.step = step, !.todo = tokens]
    <3>2. v \in RevocationType BY DEF RevocationType
    <3>3. revoking' = [revoking EXCEPT ![r] = v] BY <2>4 DEF List, TypeOK
    <3> HIDE DEF v
    <3>4. revoking' \in [Revocation -> RevocationType] BY <3>2, <3>3, Turned
    <3>5. KindInv' BY <2>4 DEF List, KindInv
    <3> QED BY <2>4, <3>4, <3>5 DEF List, RevocationType, TypeOK
  <2>5. CASE ListTokens(r)
    <3>1. /\ OfApp(access, revoking[r].app) \in SUBSET Mint
          /\ OfApp(refresh, revoking[r].app) \in SUBSET Mint
          /\ OfChannel(access) \in SUBSET Mint
      BY DEF OfApp, OfChannel, TypeOK
    <3> QED BY <2>4, <2>5, <3>1 DEF ListTokens
  <2>6. CASE Revoked(r)
    <3>1. Idle \in RevocationType BY <1>1 DEF Idle, RevocationType
    <3>2. revoking' \in [Revocation -> RevocationType] BY <2>6, <3>1, Turned DEF Revoked
    <3>3. KindInv' BY <2>6 DEF Revoked, KindInv
    <3> QED BY <2>6, <3>2, <3>3 DEF Revoked, RevocationType, TypeOK
  <2>7. ASSUME NEW m \in Mint, DeleteListed(r, m) PROVE TypeInv'
    <3> DEFINE v == [revoking[r] EXCEPT !.todo = @ \ {m}]
    <3>1. v \in RevocationType BY DEF RevocationType
    <3>2. revoking' = [revoking EXCEPT ![r] = v] BY <2>7 DEF DeleteListed, TypeOK
    <3> HIDE DEF v
    <3>3. revoking' \in [Revocation -> RevocationType] BY <3>1, <3>2, Turned
    <3>4. access' \subseteq access /\ refresh' \subseteq refresh BY <2>7 DEF DeleteListed
    <3>5. KindInv' BY <2>7, <3>4 DEF DeleteListed, KindInv
    <3> QED BY <2>7, <3>3, <3>4, <3>5 DEF DeleteListed, RevocationType, TypeOK
  <2> QED BY <1>6, <2>1, <2>2, <2>3, <2>5, <2>6, <2>7 DEF Revoke
<1>7. CASE Crash
  <2>1. history' \in History BY <1>7 DEF Crash, History, TypeOK
  <2>2. revoking' \in [Revocation -> RevocationType]
    BY <1>1, <1>7 DEF Crash, Idle, RevocationType
  <2>3. KindInv' BY <1>7, Crashed DEF Crash, Unused, Active, KindInv, TypeOK
  <2> QED BY <1>7, <2>1, <2>2, <2>3, Crashed DEF Crash, History, RevocationType, CallType, TypeOK
<1>8. CASE UNCHANGED vars BY <1>8 DEF vars, TypeOK, KindInv
<1> QED BY <1>2, <1>3, <1>4, <1>5, <1>6, <1>7, <1>8 DEF Next

\* Every reachable state of codes, secrets, tokens and calls is well typed.
THEOREM TypeCorrect == Spec => []TypeOK
<1>1. Init => TypeInv BY TypeInit
<1>2. TypeInv /\ [Next]_vars => TypeInv' BY TypeStep
<1>3. TypeInv => TypeOK BY DEF TypeInv
<1> QED BY <1>1, <1>2, <1>3, PTL DEF Spec

-----------------------------------------------------------------------------
(* What a step may do.                                                     *)

\* A call begins, or goes on.
Begins(m) ==
  \/ \E g \in Code : ReadCode(m, g)
  \/ \E n \in Mint : ReadRefresh(m, n)
  \/ \E x \in Secrets : ReadSecret(m, x)
Goes(m) ==
  \/ UseCode(m) \/ UseRefresh(m) \/ ReplaceAccess(m) \/ PutAccess(m) \/ PutRefresh(m)
  \/ PutChannelAccess(m)

\* A step of neither a call nor a revocation, nor a crash.
Aside ==
  /\ mint' = mint /\ revoking' = revoking /\ history' = history
  /\ secret' = secret /\ secrets' = secrets
  /\ access' \subseteq access /\ refresh' \subseteq refresh
  /\ \A a \in App : app'[a] = "revoked" <=> app[a] = "revoked"

LEMMA StepKinds ==
  ASSUME TypeInv, [Next]_vars
  PROVE  \/ \E m \in Mint : Begins(m) \/ Goes(m)
         \/ \E r \in Revocation : Revoke(r)
         \/ Crash
         \/ Aside
<1> USE DEF Aside
<1>1. ASSUME NEW a \in App, registerApp(a) PROVE Aside
  BY <1>1 DEF registerApp, TypeInv, TypeOK
<1>2. ASSUME NEW g \in Code, NEW a \in App, approveAuthorization(g, a) PROVE Aside
  BY <1>2 DEF approveAuthorization
<1>3. ASSUME NEW g \in Code, CodeExpires(g) PROVE Aside
  BY <1>3 DEF CodeExpires
<1>4. ASSUME NEW m \in Mint, AccessExpires(m) \/ RefreshExpires(m) PROVE Aside
  BY <1>4 DEF AccessExpires, RefreshExpires
<1>5. CASE UNCHANGED vars BY <1>5 DEF vars
<1> QED BY <1>1, <1>2, <1>3, <1>4, <1>5 DEF Next, Call, Begins, Goes

\* The code and the secret of a call are fixed when it begins.
LEMMA Begin ==
  ASSUME TypeInv, NEW m \in Mint, Begins(m)
  PROVE  /\ \A n \in Mint \ {m} : mint'[n] = mint[n]
         /\ mint[m] = Unused /\ ~Active(m) /\ Active(m)'
         /\ UNCHANGED <<app, code, issued, secret, secrets, access, refresh, revoking>>
         /\ history'.unreached = history.unreached
<1>1. mint[m] \in CallType /\ None \notin Code
  BY OAuthAssumption DEF OAuthAssumption, TypeInv, TypeOK, CallType
<1>2. ASSUME NEW g \in Code, ReadCode(m, g)
      PROVE  /\ \A n \in Mint \ {m} : mint'[n] = mint[n]
             /\ Active(m)'
             /\ history'.unreached = history.unreached
  BY <1>1, <1>2 DEF ReadCode, Flag, Active, TypeInv, TypeOK
<1>3. ASSUME NEW n \in Mint, ReadRefresh(m, n)
      PROVE  /\ \A k \in Mint \ {m} : mint'[k] = mint[k]
             /\ Active(m)'
             /\ history'.unreached = history.unreached
  BY <1>1, <1>3 DEF ReadRefresh, Flag, Active, TypeInv, TypeOK
<1>4. ASSUME NEW x \in Secrets, ReadSecret(m, x)
      PROVE  /\ \A n \in Mint \ {m} : mint'[n] = mint[n]
             /\ Active(m)'
             /\ history'.unreached = history.unreached
  BY <1>1, <1>4 DEF ReadSecret, Active, TypeInv, TypeOK
<1>5. UNCHANGED <<app, code, issued, secret, secrets, access, refresh, revoking>>
  BY DEF Begins, ReadCode, ReadRefresh, ReadSecret
<1>6. mint[m] = Unused /\ ~Active(m)
  <2>1. mint[m] = Unused BY DEF Begins, ReadCode, ReadRefresh, ReadSecret
  <2> QED BY <2>1 DEF Unused, Active
<1> QED BY <1>2, <1>3, <1>4, <1>5, <1>6 DEF Begins

LEMMA BeginWith ==
  ASSUME TypeInv, NEW m \in Mint, Begins(m)
  PROVE  \/ /\ mint'[m].code = None /\ mint'[m].secret = secret /\ secret # 0
            /\ secrets[secret] = "given" /\ history' = history
         \/ /\ mint'[m].code \in Code /\ mint'[m].secret = 0
            /\ issued[mint'[m].code] # None /\ app[issued[mint'[m].code]] = "live"
<1>1. mint[m] \in CallType /\ None \notin Code
  BY OAuthAssumption DEF OAuthAssumption, TypeInv, TypeOK, CallType
<1>2. ASSUME NEW g \in Code, ReadCode(m, g)
      PROVE  /\ mint'[m].code = g /\ mint'[m].secret = 0
             /\ issued[g] # None /\ app[issued[g]] = "live"
  BY <1>1, <1>2 DEF ReadCode, Unused, TypeInv, TypeOK, KindInv
<1>3. ASSUME NEW n \in Mint, ReadRefresh(m, n)
      PROVE  /\ mint'[m].code \in Code /\ mint'[m].secret = 0
             /\ issued[mint'[m].code] # None /\ app[issued[mint'[m].code]] = "live"
  <2>1. mint[n].code \in Code /\ issued[mint[n].code] # None /\ app[issued[mint[n].code]] = "live"
    BY <1>1, <1>3 DEF ReadRefresh, AppOf, TypeInv, TypeOK, KindInv
  <2>2. mint'[m].code = mint[n].code /\ mint'[m].secret = 0
    BY <1>1, <1>3 DEF ReadRefresh, Unused, TypeInv, TypeOK
  <2> QED BY <2>1, <2>2
<1>4. ASSUME NEW x \in Secrets, ReadSecret(m, x)
      PROVE  /\ mint'[m].code = None /\ mint'[m].secret = secret /\ secret # 0
             /\ secrets[secret] = "given" /\ history' = history
  BY <1>1, <1>4, OAuthAssumption DEF ReadSecret, Unused, Secrets, OAuthAssumption, TypeInv, TypeOK
<1> QED BY <1>2, <1>3, <1>4 DEF Begins

\* Only a call in progress stores a token, its own one.
LEMMA Goer ==
  ASSUME TypeInv, NEW m \in Mint, Goes(m)
  PROVE  /\ \A n \in Mint \ {m} : mint'[n] = mint[n]
         /\ Active(m) /\ mint'[m].step # "unused"
         /\ mint'[m].code = mint[m].code /\ mint'[m].secret = mint[m].secret
         /\ mint'[m].from = mint[m].from
         /\ access' \subseteq access \union {m} /\ refresh' \subseteq refresh \union {m}
         /\ UNCHANGED <<app, issued, secret, secrets, revoking, history>>
<1> USE Gone DEF Active, MintSteps, TypeInv
<1>1. CASE UseCode(m) BY <1>1 DEF UseCode
<1>2. CASE UseRefresh(m) BY <1>2 DEF UseRefresh
<1>3. CASE ReplaceAccess(m) BY <1>3 DEF ReplaceAccess
<1>4. CASE PutAccess(m) BY <1>4 DEF PutAccess
<1>5. CASE PutRefresh(m) BY <1>5 DEF PutRefresh
<1>6. CASE PutChannelAccess(m) BY <1>6 DEF PutChannelAccess
<1> QED BY <1>1, <1>2, <1>3, <1>4, <1>5, <1>6 DEF Goes

\* What a revocation does to the other records.
LEMMA Revoking ==
  ASSUME TypeInv, NEW r \in Revocation, Revoke(r)
  PROVE  /\ mint' = mint /\ issued' = issued /\ code' = code
         /\ access' \subseteq access /\ refresh' \subseteq refresh
         /\ history'.overlapped = history.overlapped
         /\ history.unreached \subseteq history'.unreached
         /\ \A q \in Revocation \ {r} : revoking'[q] = revoking[q]
<1> USE DEF Outrun, TypeInv, TypeOK
<1>1. ASSUME NEW a \in App, revokeApp(r, a)
      PROVE  /\ history'.overlapped = history.overlapped
             /\ history.unreached \subseteq history'.unreached
             /\ \A q \in Revocation \ {r} : revoking'[q] = revoking[q]
  BY <1>1 DEF revokeApp
<1>2. ASSUME (\E x \in Secrets : createChannelSecret(r, x)) \/ revokeChannelSecret(r)
      PROVE  /\ history'.overlapped = history.overlapped
             /\ history.unreached \subseteq history'.unreached
             /\ \A q \in Revocation \ {r} : revoking'[q] = revoking[q]
  BY <1>2 DEF createChannelSecret, revokeChannelSecret
<1>3. ASSUME revokeTokens(r) \/ ListTokens(r) \/ Revoked(r) \/ \E m \in Mint : DeleteListed(r, m)
      PROVE  history' = history /\ \A q \in Revocation \ {r} : revoking'[q] = revoking[q]
  BY <1>3 DEF revokeTokens, ListTokens, List, Revoked, DeleteListed
<1>4. UNCHANGED <<mint, issued, code>> /\ access' \subseteq access /\ refresh' \subseteq refresh
  BY DEF Revoke, revokeApp, createChannelSecret, revokeChannelSecret, revokeTokens, ListTokens,
         List, Revoked, DeleteListed
<1> QED BY <1>1, <1>2, <1>3, <1>4 DEF Revoke

-----------------------------------------------------------------------------
(* Channel secrets.                                                        *)

LEMMA ChannelInit == Init => ChannelInv
  BY DEF Init, ChannelInv, Unused, Active

LEMMA ChannelStep == TypeInv /\ ChannelInv /\ [Next]_vars => ChannelInv'
<1> SUFFICES ASSUME TypeInv, ChannelInv, [Next]_vars PROVE ChannelInv'
  OBVIOUS
<1> USE DEF ChannelInv
<1>1. CASE Aside
  BY <1>1 DEF Aside, Active, Old, WillDeleteChannel
<1>2. ASSUME NEW m \in Mint, Begins(m) PROVE ChannelInv'
  <2>1. Old(m)' = FALSE BY <1>2, Begin, BeginWith DEF Old
  <2>2. m \notin access BY <1>2, Begin DEF TypeInv, KindInv, Tokens, Unused
  <2>3. \A n \in Mint \ {m} : (Active(n)' <=> Active(n)) /\ (Old(n)' <=> Old(n))
    BY <1>2, Begin DEF Active, Old
  <2>4. \A r \in Revocation, n \in Mint : WillDeleteChannel(r, n)' <=> WillDeleteChannel(r, n)
    BY <1>2, Begin DEF WillDeleteChannel
  <2>5. \A n \in Mint : mint'[n].secret # 0 => secrets'[mint'[n].secret] # "unused"
    BY <1>2, Begin, BeginWith
  <2>6. access \subseteq Mint BY DEF TypeInv, TypeOK
  <2> QED BY <1>2, <2>1, <2>2, <2>3, <2>4, <2>5, <2>6, Begin
<1>3. ASSUME NEW m \in Mint, Goes(m) PROVE ChannelInv'
  <2>1. \A n \in Mint : (Active(n)' => Active(n)) /\ (Old(n)' <=> Old(n))
    BY <1>3, Goer DEF Active, Old
  <2>2. \A r \in Revocation, n \in Mint : WillDeleteChannel(r, n)' <=> WillDeleteChannel(r, n)
    BY <1>3, Goer DEF WillDeleteChannel
  <2>3. access' \subseteq access \union {m} /\ Active(m) /\ access \subseteq Mint
    BY <1>3, Goer DEF TypeInv, TypeOK
  <2>4. \A n \in Mint : mint'[n].secret = mint[n].secret
    BY <1>3, Goer
  <2> QED BY <1>3, <2>1, <2>2, <2>3, <2>4, Goer
<1>4. ASSUME NEW r \in Revocation, Revoke(r) PROVE ChannelInv'
  <2>1. /\ mint' = mint /\ access' \subseteq access /\ access \subseteq Mint
        /\ history.unreached \subseteq history'.unreached
        /\ \A q \in Revocation \ {r} : revoking'[q] = revoking[q]
        /\ \A m \in Mint : Active(m)' <=> Active(m)
    BY <1>4, Revoking DEF TypeInv, TypeOK, Active
  <2>2. CASE (\E x \in Secrets : createChannelSecret(r, x)) \/ revokeChannelSecret(r)
    <3>1. revoking'[r].step = "secret"
      BY <2>2 DEF createChannelSecret, revokeChannelSecret, TypeInv, TypeOK
    <3>2. \A m \in Mint : Active(m) /\ mint[m].secret # 0 => m \in history'.unreached
      BY <2>2 DEF createChannelSecret, revokeChannelSecret, Outrun, OfChannel, TypeInv, TypeOK
    <3>3. \A x \in Secrets : secrets[x] # "unused" => secrets'[x] # "unused"
      BY <2>2 DEF createChannelSecret, revokeChannelSecret, TypeInv, TypeOK
    <3>4. \A m \in Mint : mint[m].secret # 0 => mint[m].secret \in Secrets
      BY OAuthAssumption DEF OAuthAssumption, Secrets, TypeInv, TypeOK
    <3> QED BY <2>1, <3>1, <3>2, <3>3, <3>4 DEF Old, WillDeleteChannel
  <2>3. CASE ~((\E x \in Secrets : createChannelSecret(r, x)) \/ revokeChannelSecret(r))
    <3>1. \A x \in Secrets : secrets[x] # "unused" => secrets'[x] # "unused"
      BY <1>4, <2>3
      DEF Revoke, revokeApp, revokeTokens, ListTokens, List, Revoked, DeleteListed
    <3>2. \A m \in Mint : mint[m].secret # 0 => mint[m].secret \in Secrets
      BY OAuthAssumption DEF OAuthAssumption, Secrets, TypeInv, TypeOK
    <3>3. secret' = secret
      BY <1>4, <2>3
      DEF Revoke, revokeApp, revokeTokens, ListTokens, List, Revoked, DeleteListed
    <3>4. ASSUME NEW m \in access', mint[m].secret # 0, WillDeleteChannel(r, m)
          PROVE  WillDeleteChannel(r, m)'
      <4> USE DEF WillDeleteChannel
      <4>1. m \in Mint /\ m \in access BY <2>1
      <4>2. ASSUME NEW a \in App, revokeApp(r, a) PROVE FALSE
        BY <3>4, <4>2 DEF revokeApp, Idle
      <4>3. CASE revokeTokens(r) BY <3>4, <4>3 DEF revokeTokens, Idle
      <4>4. CASE ListTokens(r)
        <5>1. revoking[r].step = "secret" BY <3>4, <4>4 DEF ListTokens
        <5>2. revoking' = [revoking EXCEPT ![r].step = "channel", ![r].todo = OfChannel(access)]
          BY <4>4, <5>1 DEF ListTokens, List
        <5>3. m \in OfChannel(access) BY <3>4, <4>1 DEF OfChannel
        <5> QED BY <5>2, <5>3 DEF TypeInv, TypeOK
      <4>5. CASE Revoked(r) BY <3>4, <4>5 DEF Revoked
      <4>6. ASSUME NEW n \in Mint, DeleteListed(r, n) PROVE WillDeleteChannel(r, m)'
        BY <3>4, <4>1, <4>6 DEF DeleteListed, TypeInv, TypeOK
      <4> QED BY <1>4, <2>3, <4>2, <4>3, <4>4, <4>5, <4>6 DEF Revoke
    <3>5. \A q \in Revocation \ {r}, m \in Mint : WillDeleteChannel(q, m)' <=> WillDeleteChannel(q, m)
      BY <2>1 DEF WillDeleteChannel
    <3> QED BY <2>1, <3>1, <3>2, <3>3, <3>4, <3>5 DEF Old
  <2> QED BY <2>2, <2>3
<1>5. CASE Crash
  <2>1. /\ access' = access /\ secret' = secret /\ secrets' = secrets /\ access \subseteq Mint
        /\ history.unreached \subseteq history'.unreached
        /\ \A m \in access : Old(m) /\ RevokingChannel => m \in history'.unreached
    BY <1>5 DEF Crash, Old, TypeInv, TypeOK
  <2>2. \A m \in Mint : ~Active(m)' /\ (Old(m)' <=> Old(m)) /\ mint'[m].secret = mint[m].secret
    BY <1>5, <2>1, Crashed DEF Active, Old, TypeInv
  <2>3. \A m \in access \ history.unreached : Old(m) => RevokingChannel
    BY DEF WillDeleteChannel, RevokingChannel
  <2> QED BY <2>1, <2>2, <2>3
<1> QED BY <1>1, <1>2, <1>3, <1>4, <1>5, StepKinds

\* Once a secret has been replaced or deleted and the call that did it has answered,
\* no token of it is left or still comes, except from calls that had read it before
\* or after a crash in between.
THEOREM SecretsCorrect == Spec => []OnlyCurrentSecretsTokens
<1>1. Init => TypeInv /\ ChannelInv BY TypeInit, ChannelInit
<1>2. TypeInv /\ ChannelInv /\ [Next]_vars => (TypeInv /\ ChannelInv)'
  BY TypeStep, ChannelStep
<1>3. ChannelInv => OnlyCurrentSecretsTokens
  BY DEF ChannelInv, OnlyCurrentSecretsTokens, Old, WillDeleteChannel, RevokingChannel
<1> QED BY <1>1, <1>2, <1>3, PTL DEF Spec

-----------------------------------------------------------------------------
(* Apps.                                                                   *)

\* The consent behind a call that has begun does not change.
LEMMA SameApp ==
  ASSUME TypeInv, [Next]_vars, NEW m \in Mint, mint[m].step # "unused"
  PROVE  mint'[m].code = mint[m].code /\ (mint[m].code # None => AppOf(m)' = AppOf(m))
<1>1. ASSUME NEW g \in Code, issued[g] # None PROVE issued'[g] = issued[g]
  <2>1. ASSUME NEW h \in Code, NEW a \in App, approveAuthorization(h, a)
        PROVE  issued'[g] = issued[g]
    BY <1>1, <2>1 DEF approveAuthorization, TypeInv, TypeOK
  <2>2. CASE UNCHANGED issued BY <2>2
  <2> QED
    BY <2>1, <2>2, Begin, Goer, Revoking
    DEF Next, vars, Call, Begins, Goes, registerApp, CodeExpires, AccessExpires, RefreshExpires,
        Crash
<1>2. mint'[m].code = mint[m].code
  <2>1. ASSUME NEW n \in Mint, Begins(n) PROVE mint'[m].code = mint[m].code
    BY <2>1, Begin DEF Unused
  <2> QED BY <2>1, StepKinds, Goer, Revoking, Crashed DEF Aside, TypeInv
<1>3. mint[m].code # None => mint[m].code \in Code /\ issued[mint[m].code] # None
  BY DEF TypeInv, TypeOK, KindInv
<1> QED BY <1>1, <1>2, <1>3 DEF AppOf

LEMMA AppInit == Init => AppInv
  BY DEF Init, AppInv, Unused, Active

LEMMA AppStep == TypeInv /\ AppInv /\ [Next]_vars => AppInv'
<1> SUFFICES ASSUME TypeInv, AppInv, [Next]_vars PROVE AppInv'
  OBVIOUS
<1> USE DEF AppInv
<1>1. access \subseteq Mint /\ refresh \subseteq Mint BY DEF TypeInv, TypeOK
<1>2. \A m \in Mint : Active(m) => mint[m].step # "unused" BY DEF Active
<1>3. \A m \in access \union refresh : mint[m].step # "unused" BY DEF TypeInv, KindInv, Tokens
<1>4. ASSUME NEW m \in Mint, mint[m].step # "unused", UNCHANGED app
      PROVE  OfRevoked(m)' <=> OfRevoked(m)
  BY <1>4, SameApp DEF OfRevoked
<1>5. CASE Aside
  <2>1. \A m \in Mint : mint[m].code # None =>
          mint[m].step # "unused" /\ AppOf(m) \in App
    BY OAuthAssumption DEF OAuthAssumption, AppOf, Unused, TypeInv, TypeOK, KindInv
  <2>2. \A m \in Mint : OfRevoked(m)' <=> OfRevoked(m)
    BY <1>5, <2>1, SameApp DEF Aside, OfRevoked
  <2>3. \A m \in Mint : mint[m].code # None => AppOf(m)' = AppOf(m)
    BY <2>1, SameApp
  <2>4. \A m \in Mint : OfRevoked(m) => mint[m].code # None BY DEF OfRevoked
  <2> QED BY <1>1, <1>5, <2>2, <2>3, <2>4 DEF Aside, Active, WillDeleteAccess, WillDeleteRefresh
<1>6. ASSUME NEW m \in Mint, Begins(m) PROVE AppInv'
  <2>1. ~OfRevoked(m)' BY <1>6, Begin, BeginWith DEF OfRevoked, AppOf
  <2>2. m \notin access /\ m \notin refresh BY <1>3, <1>6, Begin DEF Unused
  <2>3. \A n \in Mint \ {m} : (Active(n)' <=> Active(n)) /\ (OfRevoked(n)' <=> OfRevoked(n))
                              /\ AppOf(n)' = AppOf(n)
    BY <1>6, Begin DEF Active, OfRevoked, AppOf
  <2>4. \A r \in Revocation, n \in Mint : /\ WillDeleteAccess(r, n)' <=> WillDeleteAccess(r, n)
                                          /\ WillDeleteRefresh(r, n)' <=> WillDeleteRefresh(r, n)
    BY <1>6, Begin DEF WillDeleteAccess, WillDeleteRefresh
  <2>5. /\ access' = access /\ refresh' = refresh /\ revoking' = revoking
        /\ history'.unreached = history.unreached
    BY <1>6, Begin
  <2>6. ASSUME NEW n \in access' \ history'.unreached, OfRevoked(n)'
        PROVE  \E r \in Revocation : revoking'[r].app = AppOf(n)' /\ WillDeleteAccess(r, n)'
    <3>1. n \in access /\ n \notin history.unreached /\ OfRevoked(n) /\ AppOf(n)' = AppOf(n)
      BY <1>1, <2>1, <2>2, <2>3, <2>4, <2>5, <2>6
    <3>2. PICK r \in Revocation : revoking[r].app = AppOf(n) /\ WillDeleteAccess(r, n)
      BY <3>1
    <3>3. WillDeleteAccess(r, n)' BY <2>5, <3>2 DEF WillDeleteAccess
    <3> QED BY <2>5, <3>1, <3>2, <3>3
  <2>7. ASSUME NEW n \in refresh' \ history'.unreached, OfRevoked(n)'
        PROVE  \E r \in Revocation : revoking'[r].app = AppOf(n)' /\ WillDeleteRefresh(r, n)'
    <3>1. n \in refresh /\ n \notin history.unreached /\ OfRevoked(n) /\ AppOf(n)' = AppOf(n)
      BY <1>1, <2>1, <2>2, <2>3, <2>4, <2>5, <2>7
    <3>2. PICK r \in Revocation : revoking[r].app = AppOf(n) /\ WillDeleteRefresh(r, n)
      BY <3>1
    <3>3. WillDeleteRefresh(r, n)' BY <2>5, <3>2 DEF WillDeleteRefresh
    <3> QED BY <2>5, <3>1, <3>2, <3>3
  <2> QED BY <1>1, <2>1, <2>2, <2>3, <2>4, <2>5, <2>6, <2>7
<1>7. ASSUME NEW m \in Mint, Goes(m) PROVE AppInv'
  <2>1. \A n \in Mint : /\ Active(n)' => Active(n)
                        /\ OfRevoked(n)' <=> OfRevoked(n)
                        /\ AppOf(n)' = AppOf(n)
    BY <1>7, Goer DEF Active, OfRevoked, AppOf
  <2>2. \A r \in Revocation, n \in Mint : /\ WillDeleteAccess(r, n)' <=> WillDeleteAccess(r, n)
                                          /\ WillDeleteRefresh(r, n)' <=> WillDeleteRefresh(r, n)
    BY <1>7, Goer DEF WillDeleteAccess, WillDeleteRefresh
  <2>3. /\ access' \subseteq access \union {m} /\ refresh' \subseteq refresh \union {m}
        /\ revoking' = revoking /\ history' = history /\ Active(m)
    BY <1>7, Goer
  <2>4. ASSUME NEW n \in access' \ history'.unreached, OfRevoked(n)'
        PROVE  \E r \in Revocation : revoking'[r].app = AppOf(n)' /\ WillDeleteAccess(r, n)'
    <3>1. n \in access /\ n \notin history.unreached /\ OfRevoked(n) /\ AppOf(n)' = AppOf(n)
      BY <1>1, <2>1, <2>2, <2>3, <2>4
    <3>2. PICK r \in Revocation : revoking[r].app = AppOf(n) /\ WillDeleteAccess(r, n)
      BY <3>1
    <3>3. WillDeleteAccess(r, n)' BY <2>3, <3>2 DEF WillDeleteAccess
    <3> QED BY <2>3, <3>1, <3>2, <3>3
  <2>5. ASSUME NEW n \in refresh' \ history'.unreached, OfRevoked(n)'
        PROVE  \E r \in Revocation : revoking'[r].app = AppOf(n)' /\ WillDeleteRefresh(r, n)'
    <3>1. n \in refresh /\ n \notin history.unreached /\ OfRevoked(n) /\ AppOf(n)' = AppOf(n)
      BY <1>1, <2>1, <2>2, <2>3, <2>5
    <3>2. PICK r \in Revocation : revoking[r].app = AppOf(n) /\ WillDeleteRefresh(r, n)
      BY <3>1
    <3>3. WillDeleteRefresh(r, n)' BY <2>3, <3>2 DEF WillDeleteRefresh
    <3> QED BY <2>3, <3>1, <3>2, <3>3
  <2> QED BY <1>1, <2>1, <2>2, <2>3, <2>4, <2>5
<1>8. ASSUME NEW r \in Revocation, Revoke(r) PROVE AppInv'
  <2>1. /\ access' \subseteq access /\ refresh' \subseteq refresh
        /\ history.unreached \subseteq history'.unreached
        /\ revoking' = [revoking EXCEPT ![r] = revoking'[r]]
        /\ \A q \in Revocation \ {r} : revoking'[q] = revoking[q]
        /\ \A m \in Mint : (Active(m)' <=> Active(m)) /\ AppOf(m)' = AppOf(m)
        /\ \A m \in Mint : mint'[m].code = mint[m].code
    <3>1. revoking' \in [Revocation -> RevocationType]
      BY TypeStep DEF TypeInv, TypeOK, RevocationType
    <3> QED BY <1>8, <3>1, Revoking DEF TypeInv, TypeOK, Active, AppOf
  <2>2. \A q \in Revocation \ {r}, m \in Mint :
          /\ WillDeleteAccess(q, m)' <=> WillDeleteAccess(q, m)
          /\ WillDeleteRefresh(q, m)' <=> WillDeleteRefresh(q, m)
    BY <2>1 DEF WillDeleteAccess, WillDeleteRefresh
  <2>3. ASSUME NEW a \in App, revokeApp(r, a) PROVE AppInv'
    <3>1. /\ app'[a] = "revoked" /\ \A b \in App \ {a} : app'[b] = app[b]
          /\ revoking[r] = Idle /\ revoking'[r].step = "app" /\ revoking'[r].app = a
          /\ \A m \in Mint : Active(m) /\ mint[m].code # None /\ AppOf(m) = a => m \in history'.unreached
      BY <2>3 DEF revokeApp, Outrun, OfApp, TypeInv, TypeOK
    <3>2. \A m \in Mint : WillDeleteAccess(r, m)' /\ WillDeleteRefresh(r, m)'
                         /\ ~WillDeleteAccess(r, m) /\ ~WillDeleteRefresh(r, m)
      BY <3>1 DEF WillDeleteAccess, WillDeleteRefresh, Idle
    <3>3. \A m \in Mint : mint[m].code # None => AppOf(m) \in App
      BY OAuthAssumption DEF OAuthAssumption, AppOf, TypeInv, TypeOK, KindInv
    <3>4. \A m \in Mint : OfRevoked(m)' => OfRevoked(m) \/ (mint[m].code # None /\ AppOf(m) = a)
      BY <2>1, <3>1, <3>3 DEF OfRevoked
    <3> QED BY <1>1, <2>1, <2>2, <3>1, <3>2, <3>4
  <2>4. CASE ~\E a \in App : revokeApp(r, a)
    <3>1. app' = app
      BY <1>8, <2>4 DEF Revoke, createChannelSecret, revokeChannelSecret, revokeTokens, ListTokens,
                       List, Revoked, DeleteListed
    <3>2. \A m \in Mint : OfRevoked(m)' <=> OfRevoked(m) BY <2>1, <3>1 DEF OfRevoked
    <3>3. ASSUME NEW m \in Mint, mint[m].code # None, revoking[r].app = AppOf(m)
          PROVE  /\ m \in access' /\ WillDeleteAccess(r, m) =>
                      WillDeleteAccess(r, m)' /\ revoking'[r].app = AppOf(m)
                 /\ m \in refresh' /\ WillDeleteRefresh(r, m) =>
                      WillDeleteRefresh(r, m)' /\ revoking'[r].app = AppOf(m)
      <4> USE DEF WillDeleteAccess, WillDeleteRefresh
      <4>1. CASE revoking[r] = Idle BY <4>1 DEF Idle
      <4>2. CASE ListTokens(r)
        <5>1. CASE revoking[r].step = "app"
          <6>1. revoking' = [revoking EXCEPT ![r].step = "tokens",
                                            ![r].todo = OfApp(access, revoking[r].app)]
            BY <4>2, <5>1 DEF ListTokens, List
          <6>2. m \in access' => m \in OfApp(access, revoking[r].app) BY <2>1, <3>3 DEF OfApp
          <6>3. /\ revoking'[r].step = "tokens" /\ revoking'[r].app = revoking[r].app
                /\ revoking'[r].todo = OfApp(access, revoking[r].app)
            BY <6>1 DEF TypeInv, TypeOK
          <6> QED BY <3>3, <5>1, <6>1, <6>2, <6>3
        <5>2. CASE revoking[r].step = "tokens"
          <6>1. /\ revoking[r].todo = {}
                /\ revoking' = [revoking EXCEPT ![r].step = "refreshes",
                                               ![r].todo = OfApp(refresh, revoking[r].app)]
            BY <4>2, <5>2 DEF ListTokens, List
          <6>2. m \in refresh' => m \in OfApp(refresh, revoking[r].app) BY <2>1, <3>3 DEF OfApp
          <6>3. /\ revoking'[r].step = "refreshes" /\ revoking'[r].app = revoking[r].app
                /\ revoking'[r].todo = OfApp(refresh, revoking[r].app)
            BY <6>1 DEF TypeInv, TypeOK
          <6> QED BY <3>3, <5>2, <6>1, <6>2, <6>3
        <5>3. CASE revoking[r].step = "secret" BY <5>3
        <5> QED BY <4>2, <5>1, <5>2, <5>3 DEF ListTokens
      <4>3. CASE Revoked(r) BY <4>3 DEF Revoked
      <4>4. ASSUME NEW n \in Mint, DeleteListed(r, n)
            PROVE  /\ m \in access' /\ WillDeleteAccess(r, m) =>
                        WillDeleteAccess(r, m)' /\ revoking'[r].app = AppOf(m)
                   /\ m \in refresh' /\ WillDeleteRefresh(r, m) =>
                        WillDeleteRefresh(r, m)' /\ revoking'[r].app = AppOf(m)
        <5>1. /\ revoking'[r].step = revoking[r].step /\ revoking'[r].app = revoking[r].app
              /\ revoking'[r].todo = revoking[r].todo \ {n}
          BY <4>4 DEF DeleteListed, TypeInv, TypeOK
        <5> QED BY <3>3, <4>4, <5>1 DEF DeleteListed
      <4> QED
        BY <1>8, <2>4, <4>1, <4>2, <4>3, <4>4
        DEF Revoke, createChannelSecret, revokeChannelSecret, revokeTokens
    <3>4. \A m \in Mint : OfRevoked(m) => mint[m].code # None BY DEF OfRevoked
    <3>5. ASSUME NEW m \in access' \ history'.unreached, OfRevoked(m)'
          PROVE  \E q \in Revocation : revoking'[q].app = AppOf(m)' /\ WillDeleteAccess(q, m)'
      <4>1. PICK q \in Revocation : revoking[q].app = AppOf(m) /\ WillDeleteAccess(q, m)
        BY <1>1, <2>1, <3>2, <3>5
      <4> QED BY <1>1, <2>1, <2>2, <3>2, <3>3, <3>4, <3>5, <4>1
    <3>6. ASSUME NEW m \in refresh' \ history'.unreached, OfRevoked(m)'
          PROVE  \E q \in Revocation : revoking'[q].app = AppOf(m)' /\ WillDeleteRefresh(q, m)'
      <4>1. PICK q \in Revocation : revoking[q].app = AppOf(m) /\ WillDeleteRefresh(q, m)
        BY <1>1, <2>1, <3>2, <3>6
      <4> QED BY <1>1, <2>1, <2>2, <3>2, <3>3, <3>4, <3>6, <4>1
    <3> QED BY <1>1, <2>1, <3>2, <3>5, <3>6
  <2> QED BY <2>3, <2>4
<1>9. CASE Crash
  <2>1. /\ access' = access /\ refresh' = refresh
        /\ history.unreached \subseteq history'.unreached
        /\ \A m \in access \union refresh :
             mint[m].code # None /\ RevokingApp(AppOf(m)) => m \in history'.unreached
    BY <1>9 DEF Crash, TypeInv, TypeOK
  <2>2. \A m \in Mint : ~Active(m)' /\ (OfRevoked(m)' <=> OfRevoked(m))
    BY <1>9, Crashed DEF Crash, Active, OfRevoked, AppOf, TypeInv
  <2>3. \A m \in (access \union refresh) \ history.unreached :
          OfRevoked(m) => mint[m].code # None /\ RevokingApp(AppOf(m))
    BY DEF RevokingApp, OfRevoked
  <2> QED BY <1>1, <2>1, <2>2, <2>3
<1> QED BY <1>5, <1>6, <1>7, <1>8, <1>9, StepKinds

\* Once revokeApp has answered, the app has no token and gets none any more, except
\* from calls that had read the app before or after a crash in between.
THEOREM RevokedCorrect == Spec => []RevokedAppHasNoTokens
<1>1. Init => TypeInv /\ AppInv BY TypeInit, AppInit
<1>2. TypeInv /\ AppInv /\ [Next]_vars => (TypeInv /\ AppInv)'
  BY TypeStep, AppStep
<1>3. AppInv => RevokedAppHasNoTokens
  BY DEF AppInv, RevokedAppHasNoTokens, OfRevoked, RevokingApp
<1> QED BY <1>1, <1>2, <1>3, PTL DEF Spec

-----------------------------------------------------------------------------
(* Consents.                                                               *)

LEMMA GrantInit == Init => GrantInv
  BY DEF Init, GrantInv, OnePair, Unused, Active, Tokens

\* A call that goes on leaves one pair of tokens behind it, if it is alone.
LEMMA GoesKeeps ==
  ASSUME TypeInv, NEW m \in Mint, Goes(m), NEW g \in Code, OnePair(g)
  PROVE  OnePair(g)'
<1> USE DEF OnePair, Tokens
<1>1. /\ \A n \in Mint \ {m} : mint'[n] = mint[n]
      /\ \A n \in Mint : mint'[n].code = mint[n].code /\ (Active(n)' => Active(n))
      /\ mint'[m].from = mint[m].from
      /\ access \subseteq Mint /\ refresh \subseteq Mint /\ Active(m) /\ None \notin Code
  BY Goer, OAuthAssumption DEF Active, OAuthAssumption, TypeInv, TypeOK
<1>2. CASE UseCode(m)
  <2>1. /\ mint[m].step = "code" /\ mint'[m].step = "tokens"
        /\ access' = access /\ refresh' = refresh /\ mint[m].code \in Code
        /\ code'[mint[m].code] = None /\ \A h \in Code \ {mint[m].code} : code'[h] = code[h]
    BY <1>2, Gone DEF UseCode, MintSteps, Granting, TypeInv, TypeOK, KindInv
  <2> QED BY <1>1, <2>1
<1>3. CASE UseRefresh(m)
  <2>1. /\ mint[m].step = "refresh" /\ mint'[m].step = "access"
        /\ access' = access /\ refresh' = refresh \ {mint[m].from} /\ code' = code
    BY <1>3, Gone DEF UseRefresh, MintSteps, TypeInv
  <2> QED BY <1>1, <2>1
<1>4. CASE ReplaceAccess(m)
  <2>1. /\ mint[m].step = "access" /\ mint'[m].step = "tokens"
        /\ access' = access \ {mint[m].from} /\ refresh' = refresh /\ code' = code
    BY <1>4, Gone DEF ReplaceAccess, MintSteps, TypeInv
  <2> QED BY <1>1, <2>1
<1>5. CASE PutAccess(m)
  <2>1. /\ mint[m].step = "tokens" /\ mint'[m].step = "half"
        /\ access' = access \union {m} /\ refresh' = refresh /\ code' = code
    BY <1>5, Gone DEF PutAccess, MintSteps, TypeInv
  <2> QED BY <1>1, <2>1
<1>6. CASE PutRefresh(m)
  <2>1. /\ mint[m].step = "half" /\ mint'[m].step = "over"
        /\ access' = access /\ refresh' = refresh \union {m} /\ code' = code
    BY <1>6, Gone DEF PutRefresh, MintSteps, TypeInv
  <2>2. ~Active(m)' BY <2>1 DEF Active
  <2> QED BY <1>1, <2>1, <2>2
<1>7. CASE PutChannelAccess(m)
  <2>1. /\ mint[m].step = "channel" /\ mint'[m].step = "over" /\ mint[m].code = None
        /\ access' = access \union {m} /\ refresh' = refresh /\ code' = code
    BY <1>7, Gone DEF PutChannelAccess, MintSteps, TypeInv, KindInv
  <2>2. ~Active(m)' BY <2>1 DEF Active
  <2> QED BY <1>1, <2>1, <2>2
<1> QED BY <1>2, <1>3, <1>4, <1>5, <1>6, <1>7 DEF Goes

\* A call that begins on a consent finds what the last one left, if no other call
\* works on it.
LEMMA BeginsKeeps ==
  ASSUME TypeInv, NEW m \in Mint, Begins(m), NEW g \in Code, OnePair(g),
         g \notin history'.overlapped
  PROVE  OnePair(g)'
<1> USE DEF OnePair, Tokens
<1>1. /\ \A n \in Mint \ {m} : mint'[n] = mint[n] /\ (Active(n)' <=> Active(n))
      /\ access' = access /\ refresh' = refresh /\ code' = code
      /\ access \subseteq Mint /\ refresh \subseteq Mint /\ ~Active(m) /\ None \notin Code
      /\ m \notin access /\ m \notin refresh
  BY Begin, OAuthAssumption
  DEF Active, Unused, OAuthAssumption, TypeInv, TypeOK, KindInv
<1>2. ASSUME NEW h \in Code, ReadCode(m, h) PROVE OnePair(g)'
  <2>1. /\ mint'[m].code = h /\ mint'[m].step = "code" /\ code[h] # None
        /\ (g = h => \A n \in Mint \ {m} : ~(Active(n) /\ mint[n].code = g))
    BY <1>2 DEF ReadCode, Flag, Overlaps, TypeInv, TypeOK
  <2> QED BY <1>1, <2>1
<1>3. ASSUME NEW n \in Mint, ReadRefresh(m, n) PROVE OnePair(g)'
  <2>1. /\ mint'[m].code = mint[n].code /\ mint'[m].step = "refresh" /\ mint'[m].from = n
        /\ n \in refresh /\ mint[n].code \in Code
    BY <1>3 DEF ReadRefresh, TypeInv, TypeOK, KindInv
  <2>2. g = mint[n].code => \A k \in Mint \ {m} : ~(Active(k) /\ mint[k].code = g)
    BY <1>3, <2>1 DEF ReadRefresh, Flag, Overlaps, TypeInv, TypeOK
  <2> QED BY <1>1, <2>1, <2>2
<1>4. ASSUME NEW x \in Secrets, ReadSecret(m, x) PROVE OnePair(g)'
  <2>1. mint'[m].code = None
    BY <1>4 DEF ReadSecret, Unused, TypeInv, TypeOK
  <2> QED BY <1>1, <2>1
<1> QED BY <1>2, <1>3, <1>4 DEF Begins

LEMMA OverlappedGrows ==
  ASSUME TypeInv, [Next]_vars
  PROVE  history.overlapped \subseteq history'.overlapped
<1>1. ASSUME NEW m \in Mint, Begins(m) PROVE history.overlapped \subseteq history'.overlapped
  <2>1. ASSUME NEW g \in Code, ReadCode(m, g)
        PROVE  history.overlapped \subseteq history'.overlapped
    BY <2>1 DEF ReadCode, Flag, TypeInv, TypeOK
  <2>2. ASSUME NEW n \in Mint, ReadRefresh(m, n)
        PROVE  history.overlapped \subseteq history'.overlapped
    BY <2>2 DEF ReadRefresh, Flag, TypeInv, TypeOK
  <2> QED BY <1>1, <2>1, <2>2 DEF Begins, ReadSecret
<1>2. CASE Crash BY <1>2 DEF Crash, TypeInv, TypeOK
<1> QED BY <1>1, <1>2, StepKinds, Goer, Revoking DEF Aside

LEMMA GrantStep == TypeInv /\ GrantInv /\ [Next]_vars => GrantInv'
<1> SUFFICES ASSUME TypeInv, GrantInv, [Next]_vars,
                    NEW g \in Code, g \notin history'.overlapped
             PROVE  OnePair(g)'
  BY DEF GrantInv
<1>1. OnePair(g) BY OverlappedGrows DEF GrantInv
<1>2. None \notin Code BY OAuthAssumption DEF OAuthAssumption
<1>3. CASE /\ mint' = mint /\ access' \subseteq access /\ refresh' \subseteq refresh
           /\ code'[g] \in {None, code[g]}
  BY <1>1, <1>3 DEF OnePair, Tokens, Active
<1>4. ASSUME NEW m \in Mint, Begins(m) PROVE OnePair(g)'
  BY <1>1, <1>4, BeginsKeeps
<1>5. ASSUME NEW m \in Mint, Goes(m) PROVE OnePair(g)'
  BY <1>1, <1>5, GoesKeeps
<1>6. ASSUME NEW r \in Revocation, Revoke(r) PROVE OnePair(g)'
  BY <1>3, <1>6, Revoking
<1>7. ASSUME NEW h \in Code, NEW a \in App, approveAuthorization(h, a) PROVE OnePair(g)'
  <2>1. /\ issued[h] = None /\ mint' = mint /\ access' = access /\ refresh' = refresh
        /\ code' = [code EXCEPT ![h] = a]
    BY <1>7 DEF approveAuthorization
  <2>2. CASE g = h
    <3>1. \A m \in Mint : mint[m].code # g
      BY <1>2, <2>1, <2>2 DEF TypeInv, KindInv
    <3> QED BY <2>1, <3>1 DEF OnePair, Tokens, TypeInv, TypeOK
  <2>3. CASE g # h BY <1>3, <2>1, <2>3 DEF TypeInv, TypeOK
  <2> QED BY <2>2, <2>3
<1>8. ASSUME NEW h \in Code, CodeExpires(h) PROVE OnePair(g)'
  BY <1>3, <1>8 DEF CodeExpires, TypeInv, TypeOK
<1>9. CASE Crash
  <2>1. \A m \in Mint : ~Active(m)' /\ mint'[m].code = mint[m].code
    BY <1>9, Crashed DEF Active, TypeInv
  <2>2. access' = access /\ refresh' = refresh /\ code' = code /\ Tokens \subseteq Mint
    BY <1>9 DEF Crash, Tokens, TypeInv, TypeOK
  <2> QED BY <1>1, <2>1, <2>2 DEF OnePair, Tokens
<1>10. CASE \/ \E a \in App : registerApp(a)
            \/ \E m \in Mint : AccessExpires(m) \/ RefreshExpires(m)
            \/ UNCHANGED vars
  BY <1>3, <1>10 DEF registerApp, AccessExpires, RefreshExpires, vars
<1> QED BY <1>4, <1>5, <1>6, <1>7, <1>8, <1>9, <1>10 DEF Next, Call, Begins, Goes

LEMMA AtMostOne ==
  ASSUME NEW S, \A x, y \in S : x = y
  PROVE  Cardinality(S) <= 1
<1>1. CASE S = {} BY <1>1, FS_EmptySet
<1>2. ASSUME NEW x \in S PROVE Cardinality(S) <= 1
  <2>1. S = {x} OBVIOUS
  <2>2. Cardinality(S) = 1 BY <2>1, FS_Singleton
  <2> QED BY <2>2
<1> QED BY <1>1, <1>2

\* A consent lives in one access token and one refresh token at most, however often
\* it is refreshed and wherever a crash falls, unless two calls for it overlapped.
THEOREM OnePairCorrect == Spec => []OneTokenPairPerConsent
<1>1. Init => TypeInv /\ GrantInv BY TypeInit, GrantInit
<1>2. TypeInv /\ GrantInv /\ [Next]_vars => (TypeInv /\ GrantInv)'
  BY TypeStep, GrantStep
<1>3. GrantInv => OneTokenPairPerConsent
  <2> SUFFICES ASSUME GrantInv, NEW g \in Code \ history.overlapped
               PROVE  /\ Cardinality(OfGrant(access, g)) <= 1
                      /\ Cardinality(OfGrant(refresh, g)) <= 1
                      /\ code[g] # None => OfGrant(access \union refresh, g) = {}
    BY DEF OneTokenPairPerConsent
  <2>1. OnePair(g) BY DEF GrantInv
  <2>2. /\ \A x, y \in OfGrant(access, g) : x = y
        /\ \A x, y \in OfGrant(refresh, g) : x = y
        /\ code[g] # None => OfGrant(access \union refresh, g) = {}
    BY <2>1 DEF OnePair, OfGrant, Tokens
  <2> QED BY <2>2, AtMostOne
<1> QED BY <1>1, <1>2, <1>3, PTL DEF Spec
=============================================================================
