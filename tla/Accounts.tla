------------------------------- MODULE Accounts -------------------------------
(***************************************************************************)
(* Accounts, passkeys, invites and sessions (auth/AuthService.ts).         *)
(*                                                                         *)
(* A passkey ceremony has two halves: the options call leaves a challenge  *)
(* in memory, the verify call takes it and works through awaited reads and *)
(* writes of the database.  A ceremony here is both: its challenge while   *)
(* it is "open", the verify handler that took it afterwards.  An account   *)
(* has the name of the ceremony that created it, and so has a new root.    *)
(***************************************************************************)
EXTENDS Integers, FiniteSets

CONSTANTS
  Ceremony,    \* bound of the ceremonies ever begun
  Passkey,     \* bound of the passkeys ever created
  Invite,      \* bound of the invites ever issued
  Deletion,    \* the deletions of passkeys in progress at once
  SelfSignup,  \* allowSelfSignup
  Legacy,      \* a root that is older than the accounts
  None

ASSUME AccountsAssumption ==
  /\ SelfSignup \in BOOLEAN
  /\ None \notin Ceremony \union Passkey \union Invite \union {Legacy}
  /\ Legacy \notin Ceremony

VARIABLES
  primary,   \* getPrimaryRootPicoId(): the first root, if any
  account,   \* ["auth", "account"]: account[a] is the root of a
  owner,     \* ["auth", "credential"]: owner[k] is the account of k
  invite,    \* ["auth", "invite"]
  session,   \* ["auth", "session"]: account and passkey of each session
  ceremony,  \* the challenges, and the verify handlers that took one
  deleting,  \* deleteCredential between its list and its del
  history    \* what happened so far that the properties ask about

vars == <<primary, account, owner, invite, session, ceremony, deleting, history>>

Root == Ceremony \union {Legacy}
Accounts == {a \in Ceremony : account[a] # None}
PasskeysOf(a) == {k \in Passkey : owner[k] = a}
SessionsOf(a) == {s \in session : s.account = a}

\* of: the invite of a registration, the root of a claim, the account of an
\* enrolment or a login; key: the passkey of an enrolment or a login.
Fresh == [step |-> "fresh", type |-> "none", of |-> None, key |-> None]
Open(type, of) == [step |-> "open", type |-> type, of |-> of, key |-> None]
Steps == {"fresh", "open", "taken", "admitted", "provisioned", "account",
          "passkey", "consumed", "adding", "read", "counted", "over"}

Is(c, type, step) == ceremony[c].type = type /\ ceremony[c].step = step
Go(c, step) == ceremony' = [ceremony EXCEPT ![c].step = step]

-----------------------------------------------------------------------------
(* The options calls: they only read, and leave a challenge.               *)

needsAuthMigration == Accounts = {} /\ primary # None

allowedAnyone(i) == TRUE  \* mutant: the verify call does not ask again

\* assertRegistrationAllowed.
allowed(i) ==
  \/ Accounts = {}
  \/ SelfSignup
  \/ i # None /\ invite[i] = "valid"

\* putCeremony.
Challenge(c, type, of) ==
  /\ ceremony[c] = Fresh
  /\ ceremony' = [ceremony EXCEPT ![c] = Open(type, of)]
  /\ UNCHANGED <<primary, account, owner, invite, session, deleting, history>>

claimPrimaryRootOptions(c) ==
  /\ primary # None /\ Accounts = {}
  /\ Challenge(c, "claim", primary)

\* A token is known only once its invite has been issued.
registerNewAccountOptions(c, i) ==
  /\ ~needsAuthMigration
  /\ i # None => invite[i] # "unissued"
  /\ allowed(i)
  /\ Challenge(c, "register", i)

loginOptions(c) == Challenge(c, "login", None)

addCredentialOptions(c, a) ==
  /\ SessionsOf(a) # {}
  /\ Challenge(c, "addcred", a)

-----------------------------------------------------------------------------
(* Registration and claim, from one await to the next.                     *)

\* takeCeremony.  The await of needsAuthMigration before it commutes with
\* everything up to the next read.
Take(c) ==
  /\ ceremony[c].step = "open" /\ ceremony[c].type \in {"register", "claim"}
  /\ ceremony[c].type = "register" => ~needsAuthMigration
  /\ Go(c, "taken")
  /\ UNCHANGED <<primary, account, owner, invite, session, deleting, history>>

\* What lets c in: an engine without accounts, or an invite.
Ground(c) == IF ceremony[c].type = "claim" THEN None ELSE ceremony[c].of
Admitted(c) ==
  /\ ceremony[c].type \in {"register", "claim"}
  /\ ceremony[c].step \in {"admitted", "provisioned", "account", "passkey"}

Admit(c) ==
  /\ ceremony[c].step = "taken"
  /\ \/ ceremony[c].type = "register" /\ allowed(ceremony[c].of)
     \/ ceremony[c].type = "claim" /\ Accounts = {} /\ primary = ceremony[c].of
  /\ Go(c, "admitted")
  /\ history' = [history EXCEPT !.overlapped = @ \/
       \E d \in Ceremony \ {c} : Admitted(d) /\ Ground(d) = Ground(c)]
  /\ UNCHANGED <<primary, account, owner, invite, session, deleting>>

\* The response verified; provisionRoot begins with createRootPico.
Provision(c) ==
  /\ Is(c, "register", "admitted")
  /\ primary' = IF primary = None THEN c ELSE primary
  /\ Go(c, "provisioned")
  /\ UNCHANGED <<account, owner, invite, session, deleting, history>>

PutAccount(c) ==
  /\ \/ Is(c, "register", "provisioned")
        /\ account' = [account EXCEPT ![c] = c]
     \/ Is(c, "claim", "admitted")
        /\ account' = [account EXCEPT ![c] = ceremony[c].of]
  /\ Go(c, "account")
  /\ UNCHANGED <<primary, owner, invite, session, deleting, history>>

\* Every registration makes a passkey of its own.
New(k) ==
  /\ owner[k] = None /\ k \notin history.removed
  /\ \A c \in Ceremony : ceremony[c].key # k

\* storeCredential.
PutPasskey(c, k) ==
  /\ ceremony[c].step = "account" /\ New(k)
  /\ owner' = [owner EXCEPT ![k] = c]
  /\ ceremony' = [ceremony EXCEPT ![c].step = "passkey", ![c].key = k]
  /\ UNCHANGED <<primary, account, invite, session, deleting, history>>

\* consumeInvite.
Consume(c) ==
  /\ Is(c, "register", "passkey") /\ ceremony[c].of # None
  /\ invite' = [invite EXCEPT ![ceremony[c].of] = "gone"]
  /\ Go(c, "consumed")
  /\ UNCHANGED <<primary, account, owner, session, deleting, history>>

\* createSession, the last await of a registration or a claim.
EnterNewAccount(c) ==
  /\ \/ Is(c, "register", "consumed")
     \/ Is(c, "register", "passkey") /\ ceremony[c].of = None
     \/ Is(c, "claim", "passkey")  \* after onAccountClaimed
  /\ session' = session \union {[account |-> c, key |-> ceremony[c].key]}
  /\ Go(c, "over")
  /\ UNCHANGED <<primary, account, owner, invite, deleting, history>>

-----------------------------------------------------------------------------
(* Login.                                                                  *)

LoginReadAny(c, k) ==  \* mutant: an unknown credential is not refused
  /\ Is(c, "login", "open")
  /\ \E a \in Accounts :
       /\ owner[k] = a \/ k \in history.removed
       /\ ceremony' = [ceremony EXCEPT ![c].step = "read", ![c].key = k, ![c].of = a]
  /\ UNCHANGED <<primary, account, owner, invite, session, deleting, history>>

\* loginVerify up to its read of the credential.
LoginRead(c, k) ==
  /\ Is(c, "login", "open")
  /\ owner[k] # None
  /\ ceremony' = [ceremony EXCEPT ![c].step = "read", ![c].key = k, ![c].of = owner[k]]
  /\ UNCHANGED <<primary, account, owner, invite, session, deleting, history>>

\* The credential is written back with the new counter.
LoginCount(c) ==
  /\ Is(c, "login", "read")
  /\ owner' = [owner EXCEPT ![ceremony[c].key] = ceremony[c].of]
  /\ Go(c, "counted")
  /\ UNCHANGED <<primary, account, invite, session, deleting, history>>

LoginEnter(c) ==
  /\ Is(c, "login", "counted")
  /\ account[ceremony[c].of] # None
  /\ session' = session \union {[account |-> ceremony[c].of, key |-> ceremony[c].key]}
  /\ Go(c, "over")
  /\ UNCHANGED <<primary, account, owner, invite, deleting, history>>

-----------------------------------------------------------------------------
(* Passkeys of an account, behind requireSession.                          *)

\* addCredentialVerify up to its list of the account's passkeys.
AddRead(c, k) ==
  LET a == ceremony[c].of IN
  /\ Is(c, "addcred", "open") /\ SessionsOf(a) # {}
  /\ New(k) \/ owner[k] = a
  /\ owner[k] # a  \* else it answers 409
  /\ ceremony' = [ceremony EXCEPT ![c].step = "adding", ![c].key = k]
  /\ UNCHANGED <<primary, account, owner, invite, session, deleting, history>>

AddPut(c) ==
  /\ Is(c, "addcred", "adding")
  /\ owner' = [owner EXCEPT ![ceremony[c].key] = ceremony[c].of]
  /\ Go(c, "over")
  /\ UNCHANGED <<primary, account, invite, session, deleting, history>>

DeleteReadAny(d, a, k) ==  \* mutant: the number of passkeys is not asked
  /\ deleting[d] = None
  /\ SessionsOf(a) # {} /\ k \in PasskeysOf(a)
  /\ deleting' = [deleting EXCEPT ![d] = k]
  /\ history' = [history EXCEPT !.crossed = @ \union
       {b \in {a} : \E e \in Deletion \ {d} : deleting[e] \in PasskeysOf(a)}]
  /\ UNCHANGED <<primary, account, owner, invite, session, ceremony>>

\* deleteCredential up to its list of the account's passkeys.
DeleteRead(d, a, k) ==
  /\ deleting[d] = None
  /\ SessionsOf(a) # {}
  /\ Cardinality(PasskeysOf(a)) > 1 /\ k \in PasskeysOf(a)
  /\ deleting' = [deleting EXCEPT ![d] = k]
  /\ history' = [history EXCEPT !.crossed = @ \union
       {b \in {a} : \E e \in Deletion \ {d} : deleting[e] \in PasskeysOf(a)}]
  /\ UNCHANGED <<primary, account, owner, invite, session, ceremony>>

DeleteWrite(d) ==
  LET k == deleting[d] IN
  /\ k # None
  /\ owner' = [owner EXCEPT ![k] = None]
  /\ deleting' = [deleting EXCEPT ![d] = None]
  /\ history' = [history EXCEPT
       !.removed = @ \union {k},
       !.held = @ \union {j \in {k} : \E c \in Ceremony :
                            Is(c, "login", "read") /\ ceremony[c].key = k}]
  /\ UNCHANGED <<primary, account, invite, session, ceremony>>

-----------------------------------------------------------------------------
(* Sessions, invites, failures.                                            *)

\* deleteSession, or getSession after the session's expiry.
DropSession(s) ==
  /\ session' = session \ {s}
  /\ UNCHANGED <<primary, account, owner, invite, ceremony, deleting, history>>

createInvite(i) ==
  /\ session # {} /\ invite[i] = "unissued"
  /\ invite' = [invite EXCEPT ![i] = "valid"]
  /\ UNCHANGED <<primary, account, owner, session, ceremony, deleting, history>>

InviteExpires(i) ==
  /\ invite[i] = "valid"
  /\ invite' = [invite EXCEPT ![i] = "expired"]
  /\ UNCHANGED <<primary, account, owner, session, ceremony, deleting, history>>

\* A registration that stops after its account is stored is remembered with the
\* step it stopped at.
Stopped(cs) ==
  [history EXCEPT !.stopped = [c \in Ceremony |->
     IF c \in cs /\ Admitted(c) /\ account[c] # None
     THEN ceremony[c].step ELSE @[c]]]

\* The challenge expires or is pruned, a check of the handler refuses, or one of
\* its awaits rejects.
Abort(c) ==
  /\ ceremony[c].step \notin {"fresh", "over"}
  /\ Go(c, "over")
  /\ history' = Stopped({c})
  /\ UNCHANGED <<primary, account, owner, invite, session, deleting>>

\* The process ends and starts again: challenges and handlers are lost.
Crash ==
  /\ ceremony' = [c \in Ceremony |-> IF ceremony[c] = Fresh THEN Fresh
                                      ELSE [ceremony[c] EXCEPT !.step = "over"]]
  /\ deleting' = [d \in Deletion |-> None]
  /\ history' = Stopped(Ceremony)
  /\ UNCHANGED <<primary, account, owner, invite, session>>

-----------------------------------------------------------------------------
Init ==
  /\ primary \in {None, Legacy}  \* a new engine, or one from before accounts
  /\ account = [c \in Ceremony |-> None]
  /\ owner = [k \in Passkey |-> None]
  /\ invite = [i \in Invite |-> "unissued"]
  /\ session = {}
  /\ ceremony = [c \in Ceremony |-> Fresh]
  /\ deleting = [d \in Deletion |-> None]
  /\ history = [overlapped |-> FALSE, stopped |-> [c \in Ceremony |-> "none"],
                crossed |-> {}, removed |-> {}, held |-> {}]

Options(c) ==
  \/ claimPrimaryRootOptions(c) \/ loginOptions(c)
  \/ \E i \in Invite \union {None} : registerNewAccountOptions(c, i)
  \/ \E a \in Accounts : addCredentialOptions(c, a)

Verify(c) ==
  \/ Take(c) \/ Admit(c) \/ Provision(c) \/ PutAccount(c) \/ Consume(c)
  \/ EnterNewAccount(c) \/ LoginCount(c) \/ LoginEnter(c) \/ AddPut(c) \/ Abort(c)
  \/ \E k \in Passkey : PutPasskey(c, k) \/ LoginRead(c, k) \/ AddRead(c, k)

Next ==
  \/ \E c \in Ceremony : Options(c) \/ Verify(c)
  \/ \E d \in Deletion : DeleteWrite(d)
  \/ \E d \in Deletion, a \in Accounts, k \in Passkey : DeleteRead(d, a, k)
  \/ \E s \in session : DropSession(s)
  \/ \E i \in Invite : createInvite(i) \/ InviteExpires(i)
  \/ Crash

Spec == Init /\ [][Next]_vars

-----------------------------------------------------------------------------
\* Every stored record and every ceremony has its type.
TypeOK ==
  /\ primary \in Root \union {None}
  /\ account \in [Ceremony -> Root \union {None}]
  /\ owner \in [Passkey -> Ceremony \union {None}]
  /\ invite \in [Invite -> {"unissued", "valid", "expired", "gone"}]
  /\ session \subseteq [account : Ceremony, key : Passkey]
  /\ ceremony \in [Ceremony ->
       [step : Steps, type : {"none", "register", "claim", "login", "addcred"},
        of : Root \union Invite \union {None}, key : Passkey \union {None}]]
  /\ deleting \in [Deletion -> Passkey \union {None}]
  /\ history \in [overlapped : BOOLEAN, stopped : [Ceremony -> Steps \union {"none"}],
                  crossed : SUBSET Ceremony, removed : SUBSET Passkey,
                  held : SUBSET Passkey]

\* Without self-signup, and unless two verify calls overlapped on the same
\* ground, only one account came in on an engine without accounts, no two
\* accounts share a root, and an invite admitted one account (a second one only
\* if the first stopped before it consumed the invite).
AdmittedOnce ==
  ~SelfSignup /\ ~history.overlapped =>
    \A a, b \in Accounts : a # b =>
      /\ account[a] # account[b]
      /\ Ground(a) = Ground(b) =>
           /\ Ground(a) # None
           /\ \E x \in {a, b} : history.stopped[x] \in {"account", "passkey"}

\* An account has a passkey to log in with from the end of its registration on,
\* unless the registration stopped between its two writes or two deletions of
\* the account's passkeys overlapped.
KeepsPasskey ==
  \A a \in Accounts :
    \/ PasskeysOf(a) # {}
    \/ ceremony[a].step = "account"
    \/ history.stopped[a] = "account"
    \/ a \in history.crossed

\* A deleted passkey stays deleted, whatever is verified afterwards, unless a
\* login had read it before the deletion.
StaysDeleted ==
  \A k \in history.removed \ history.held : owner[k] = None

=============================================================================
