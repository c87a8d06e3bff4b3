---------------------------- MODULE AccountsProofs ----------------------------
(***************************************************************************)
(* Proofs about Accounts for every number of ceremonies, passkeys, invites  *)
(* and deletions, however their reads and writes interleave: types, a       *)
(* deleted passkey stays deleted, an account keeps a passkey, and an engine  *)
(* admits one account for each ground.                                      *)
(***************************************************************************)
EXTENDS Accounts, FiniteSetTheorems, TLAPS

Reads(c, k) == Is(c, "login", "read") /\ ceremony[c].key = k
Adding(c) == Is(c, "addcred", "adding")

-----------------------------------------------------------------------------
(* Passkeys: what the calls between a read and a write may rely on.         *)

\* What a ceremony has in each of its steps.
KindInv ==
  \A c \in Ceremony :
    /\ ceremony[c].type = "none" => ceremony[c] = Fresh
    /\ ceremony[c].step = "fresh" => ceremony[c].type = "none"
    /\ ceremony[c].step \in {"taken", "admitted", "provisioned", "account", "passkey", "consumed"}
         => ceremony[c].type \in {"register", "claim"}
    /\ ceremony[c].type = "register" => ceremony[c].of \in Invite \union {None}
    /\ ceremony[c].type = "claim" => ceremony[c].of \in Root
    /\ ceremony[c].type = "addcred" => ceremony[c].of \in Ceremony
    /\ ceremony[c].type = "login" /\ ceremony[c].step \in {"read", "counted"}
         => ceremony[c].of \in Ceremony
    /\ ceremony[c].step \in {"passkey", "consumed", "read", "counted", "adding"}
         => ceremony[c].key \in Passkey

\* A passkey that is about to be stored is new to everybody else.
AddInv ==
  \A c \in Ceremony : Adding(c) =>
    /\ owner[ceremony[c].key] = None
    /\ ceremony[c].key \notin history.removed
    /\ \A d \in Ceremony \ {c} : ceremony[d].key # ceremony[c].key

\* A passkey that is about to be deleted has been stored.
DeletingInv ==
  \A d \in Deletion : deleting[d] # None =>
    owner[deleting[d]] # None \/ deleting[d] \in history.removed

\* A login writes back the owner that the passkey has, unless it has been deleted
\* since.
LoginInv ==
  \A c \in Ceremony, k \in Passkey : Reads(c, k) =>
    /\ \/ owner[k] = ceremony[c].of
       \/ owner[k] = None /\ k \in history.removed
    /\ k \in history.removed => k \in history.held
    /\ \A d \in Ceremony : Reads(d, k) => ceremony[d].of = ceremony[c].of

\* Two deletions at two passkeys of one account have crossed.
PairInv ==
  \A d, e \in Deletion : d # e /\ deleting[d] # None /\ deleting[e] # None =>
    (owner[deleting[d]] = owner[deleting[e]] =>
       owner[deleting[d]] \in history.crossed \union {None})

\* So have two at a passkey that one of them deleted and a login will write back.
HeldInv ==
  \A c \in Ceremony, d \in Deletion : deleting[d] # None /\ Reads(c, deleting[d]) =>
    (owner[deleting[d]] = None => ceremony[c].of \in history.crossed)

\* The passkey of a deletion on its own is not the last one.
LastInv ==
  \A d \in Deletion : deleting[d] # None /\ owner[deleting[d]] # None =>
    \/ owner[deleting[d]] \in history.crossed
    \/ \E k \in Passkey \ {deleting[d]} : owner[k] = owner[deleting[d]]

-----------------------------------------------------------------------------
(* Admission.                                                              *)

\* A registration that stopped is over.
StopInv == \A c \in Ceremony : history.stopped[c] # "none" => ceremony[c].step = "over"

\* Who has an account, and with which root.
AccountInv ==
  \A c \in Ceremony :
    /\ ceremony[c].step \in {"account", "passkey", "consumed"} => account[c] # None
    /\ account[c] # None =>
         /\ ceremony[c].step \in {"account", "passkey", "consumed", "over"}
         /\ \/ ceremony[c].type = "register" /\ account[c] = c
            \/ ceremony[c].type = "claim" /\ account[c] = ceremony[c].of

\* An engine without accounts has no sessions and no invites.
IssueInv ==
  /\ session # {} => Accounts # {}
  /\ \A i \in Invite : invite[i] # "unissued" => Accounts # {}
  /\ \A c \in Ceremony : ceremony[c].type = "register" /\ ceremony[c].of # None
       => invite[ceremony[c].of] # "unissued"

\* A root that can be claimed is the legacy one or of a registration without invite.
RootInv ==
  /\ primary \in Ceremony => ceremony[primary].type = "register"
  /\ \A c \in Ceremony : ceremony[c].type = "claim" /\ ceremony[c].of \in Ceremony =>
       /\ ceremony[ceremony[c].of].type = "register"
       /\ ceremony[ceremony[c].of].of = None

\* An invite is used up behind an account that it let in, or the registration stopped.
ConsumeInv ==
  \A c \in Ceremony :
    account[c] # None /\ ceremony[c].type = "register" /\ ceremony[c].of # None /\ ~Admitted(c) =>
      \/ invite[ceremony[c].of] = "gone"
      \/ history.stopped[c] \in {"account", "passkey"}

In(c) == Admitted(c) \/ account[c] # None

\* At most one ceremony has been let in on each ground.
GroundInv ==
  ~SelfSignup /\ ~history.overlapped =>
    \A a, b \in Ceremony : a # b /\ In(a) /\ In(b) /\ Ground(a) = Ground(b) =>
      /\ Ground(a) # None
      /\ \E x \in {a, b} : history.stopped[x] \in {"account", "passkey"}

TypeInv == TypeOK /\ KindInv

\* What is asked of the passkeys, and of who is let in.
OwnerInv ==
  /\ AddInv /\ DeletingInv /\ LoginInv /\ PairInv /\ HeldInv /\ LastInv /\ StaysDeleted

AdmissionInv ==
  /\ StopInv /\ AccountInv /\ IssueInv /\ RootInv /\ ConsumeInv /\ GroundInv

Handler ==
  [step : Steps, type : {"none", "register", "claim", "login", "addcred"},
   of : Root \union Invite \union {None}, key : Passkey \union {None}]

-----------------------------------------------------------------------------
(* Types.                                                                  *)

\* What a call does to its own ceremony is all it does to the ceremonies.
LEMMA Gone ==
  ASSUME TypeOK, NEW c \in Ceremony, NEW step \in Steps, Go(c, step)
  PROVE  /\ \A d \in Ceremony \ {c} : ceremony'[d] = ceremony[d]
         /\ ceremony'[c].step = step /\ ceremony'[c].type = ceremony[c].type
         /\ ceremony'[c].of = ceremony[c].of /\ ceremony'[c].key = ceremony[c].key
  BY DEF Go, TypeOK

\* A crash leaves a ceremony that was never begun, and ends any other.
LEMMA Crashed ==
  ASSUME TypeInv, Crash, NEW c \in Ceremony
  PROVE  \/ ceremony[c] = Fresh /\ ceremony'[c] = Fresh
         \/ /\ ceremony[c] # Fresh /\ ceremony'[c].step = "over"
            /\ ceremony'[c].type = ceremony[c].type
            /\ ceremony'[c].of = ceremony[c].of /\ ceremony'[c].key = ceremony[c].key
            /\ ceremony'[c] \in Handler
<1>1. ceremony[c] \in Handler BY DEF TypeInv, TypeOK, Handler
<1>2. CASE ceremony[c] = Fresh BY <1>2 DEF Crash
<1>3. CASE ceremony[c] # Fresh
  <2>1. ceremony'[c] = [ceremony[c] EXCEPT !.step = "over"] BY <1>3 DEF Crash
  <2> QED BY <1>1, <1>3, <2>1 DEF Handler, Steps
<1> QED BY <1>2, <1>3

LEMMA TypeInit == Init => TypeInv
  BY DEF Init, TypeInv, TypeOK, KindInv, Fresh, Steps, Root

LEMMA TypeStep == TypeInv /\ [Next]_vars => TypeInv'
<1> SUFFICES ASSUME TypeInv, [Next]_vars PROVE TypeInv'
  OBVIOUS
<1> USE DEF TypeInv
<1>1. ASSUME NEW c \in Ceremony, Options(c) PROVE TypeInv'
  <2> USE DEF Challenge, Open, Fresh, Steps
  <2>1. CASE claimPrimaryRootOptions(c)
    BY <2>1 DEF claimPrimaryRootOptions, TypeOK, KindInv, Root
  <2>2. CASE loginOptions(c)
    BY <2>2 DEF loginOptions, TypeOK, KindInv
  <2>3. ASSUME NEW i \in Invite \union {None}, registerNewAccountOptions(c, i)
        PROVE  TypeInv'
    BY <2>3 DEF registerNewAccountOptions, TypeOK, KindInv
  <2>4. ASSUME NEW a \in Accounts, addCredentialOptions(c, a) PROVE TypeInv'
    BY <2>4 DEF addCredentialOptions, Accounts, Root, TypeOK, KindInv
  <2> QED BY <1>1, <2>1, <2>2, <2>3, <2>4 DEF Options
<1>2. ASSUME NEW c \in Ceremony, Verify(c) PROVE TypeInv'
  <2> USE DEF Steps, Is, Root, Fresh
  <2>1. CASE Take(c) BY <2>1 DEF Take, Go, TypeOK, KindInv
  <2>2. CASE Admit(c)
    <3> DEFINE o == \/ history.overlapped
                    \/ \E d \in Ceremony \ {c} : Admitted(d) /\ Ground(d) = Ground(c)
    <3>1. history' = [history EXCEPT !.overlapped = o] BY <2>2 DEF Admit
    <3>2. o \in BOOLEAN BY DEF TypeOK
    <3> HIDE DEF o
    <3>3. history' \in [overlapped : BOOLEAN, stopped : [Ceremony -> Steps \union {"none"}],
                       crossed : SUBSET Ceremony, removed : SUBSET Passkey,
                       held : SUBSET Passkey]
      BY <3>1, <3>2 DEF TypeOK
    <3>4. KindInv' BY <2>2 DEF Admit, Go, TypeOK, KindInv
    <3> QED BY <2>2, <3>3, <3>4 DEF Admit, Go, TypeOK
  <2>3. CASE Provision(c)
    <3>1. primary' \in Root \union {None} BY <2>3 DEF Provision, TypeOK
    <3>2. KindInv' BY <2>3 DEF Provision, Go, TypeOK, KindInv
    <3> QED BY <2>3, <3>1, <3>2 DEF Provision, Go, TypeOK
  <2>4. CASE PutAccount(c)
    <3>1. CASE Is(c, "register", "provisioned")
      BY <2>4, <3>1 DEF PutAccount, Go, TypeOK, KindInv
    <3>2. CASE Is(c, "claim", "admitted")
      BY <2>4, <3>2 DEF PutAccount, Go, TypeOK, KindInv
    <3> QED BY <2>4, <3>1, <3>2 DEF PutAccount
  <2>5. CASE Consume(c) BY <2>5 DEF Consume, Go, TypeOK, KindInv
  <2>6. CASE EnterNewAccount(c) BY <2>6 DEF EnterNewAccount, Go, TypeOK, KindInv
  <2>7. CASE LoginCount(c) BY <2>7 DEF LoginCount, Go, TypeOK, KindInv
  <2>8. CASE LoginEnter(c) BY <2>8 DEF LoginEnter, Go, TypeOK, KindInv
  <2>9. CASE AddPut(c) BY <2>9 DEF AddPut, Go, TypeOK, KindInv
  <2>10. CASE Abort(c) BY <2>10 DEF Abort, Stopped, Go, TypeOK, KindInv
  <2>11. ASSUME NEW k \in Passkey, PutPasskey(c, k) PROVE TypeInv'
    <3>1. ceremony' = [ceremony EXCEPT ![c] = [ceremony[c] EXCEPT !.step = "passkey", !.key = k]]
      BY <2>11 DEF PutPasskey, TypeOK
    <3>2. ceremony[c] \in Handler BY DEF TypeOK, Handler
    <3>3. [ceremony[c] EXCEPT !.step = "passkey", !.key = k] \in Handler
      BY <2>11, <3>2 DEF Handler, PutPasskey, TypeOK
    <3>4. ceremony' \in [Ceremony -> Handler] BY <3>1, <3>3 DEF TypeOK, Handler
    <3>5. KindInv' BY <2>11, <3>1, <3>3 DEF PutPasskey, Handler, TypeOK, KindInv
    <3> QED BY <2>11, <3>4, <3>5 DEF PutPasskey, Handler, TypeOK
  <2>12. ASSUME NEW k \in Passkey, LoginRead(c, k) PROVE TypeInv'
    <3>1. ceremony' = [ceremony EXCEPT
            ![c] = [ceremony[c] EXCEPT !.step = "read", !.key = k, !.of = owner[k]]]
      BY <2>12 DEF LoginRead, TypeOK
    <3>2. ceremony[c] \in Handler BY DEF TypeOK, Handler
    <3>3. [ceremony[c] EXCEPT !.step = "read", !.key = k, !.of = owner[k]] \in Handler
      BY <2>12, <3>2 DEF Handler, LoginRead, TypeOK
    <3>4. ceremony' \in [Ceremony -> Handler] BY <3>1, <3>3 DEF TypeOK, Handler
    <3>5. KindInv' BY <2>12, <3>1, <3>3 DEF LoginRead, Handler, TypeOK, KindInv
    <3> QED BY <2>12, <3>4, <3>5 DEF LoginRead, Handler, TypeOK
  <2>13. ASSUME NEW k \in Passkey, AddRead(c, k) PROVE TypeInv'
    <3>1. ceremony' = [ceremony EXCEPT ![c] = [ceremony[c] EXCEPT !.step = "adding", !.key = k]]
      BY <2>13 DEF AddRead, TypeOK
    <3>2. ceremony[c] \in Handler BY DEF TypeOK, Handler
    <3>3. [ceremony[c] EXCEPT !.step = "adding", !.key = k] \in Handler
      BY <2>13, <3>2 DEF Handler, AddRead, TypeOK
    <3>4. ceremony' \in [Ceremony -> Handler] BY <3>1, <3>3 DEF TypeOK, Handler
    <3>5. KindInv' BY <2>13, <3>1, <3>3 DEF AddRead, Handler, TypeOK, KindInv
    <3> QED BY <2>13, <3>4, <3>5 DEF AddRead, Handler, TypeOK
  <2> QED BY <1>2, <2>1, <2>2, <2>3, <2>4, <2>5, <2>6, <2>7, <2>8, <2>9, <2>10,
             <2>11, <2>12, <2>13 DEF Verify
<1>3. ASSUME NEW d \in Deletion, DeleteWrite(d) PROVE TypeInv'
  <2>1. history' \in [overlapped : BOOLEAN, stopped : [Ceremony -> Steps \union {"none"}],
                     crossed : SUBSET Ceremony, removed : SUBSET Passkey,
                     held : SUBSET Passkey]
    BY <1>3 DEF DeleteWrite, TypeOK
  <2> QED BY <1>3, <2>1 DEF DeleteWrite, TypeOK, KindInv
<1>4. ASSUME NEW d \in Deletion, NEW a \in Accounts, NEW k \in Passkey, DeleteRead(d, a, k)
      PROVE  TypeInv'
  BY <1>4 DEF DeleteRead, Accounts, TypeOK, KindInv
<1>5. ASSUME NEW s \in session, DropSession(s) PROVE TypeInv'
  BY <1>5 DEF DropSession, TypeOK, KindInv
<1>6. ASSUME NEW i \in Invite, createInvite(i) \/ InviteExpires(i) PROVE TypeInv'
  BY <1>6 DEF createInvite, InviteExpires, TypeOK, KindInv
<1>7. ASSUME Crash PROVE TypeInv'
  <2>2. ceremony' \in [Ceremony -> Handler]
    <3>1. ASSUME NEW c \in Ceremony PROVE ceremony'[c] \in Handler
      BY <1>7, Crashed DEF Fresh, Handler, Steps
    <3>2. ceremony' = [c \in Ceremony |-> ceremony'[c]] BY <1>7 DEF Crash
    <3> QED BY <3>1, <3>2
  <2>3. history' \in [overlapped : BOOLEAN, stopped : [Ceremony -> Steps \union {"none"}],
                     crossed : SUBSET Ceremony, removed : SUBSET Passkey,
                     held : SUBSET Passkey]
    BY <1>7 DEF Crash, Stopped, TypeOK
  <2>4. KindInv' BY <1>7, Crashed DEF Fresh, Root, KindInv
  <2> QED BY <1>7, <2>2, <2>3, <2>4 DEF Crash, TypeOK, Handler
<1>8. ASSUME UNCHANGED vars PROVE TypeInv'
  BY <1>8 DEF vars, TypeOK, KindInv
<1> QED BY <1>1, <1>2, <1>3, <1>4, <1>5, <1>6, <1>7, <1>8 DEF Next

\* Every reachable state of the accounts is well typed.
THEOREM TypeCorrect == Spec => []TypeOK
<1>1. Init => TypeInv BY TypeInit
<1>2. TypeInv /\ [Next]_vars => TypeInv' BY TypeStep
<1>3. TypeInv => TypeOK BY DEF TypeInv
<1> QED BY <1>1, <1>2, <1>3, PTL DEF Spec

-----------------------------------------------------------------------------
(* Passkeys.                                                               *)

\* A step that leaves the passkeys alone, and gives neither a ceremony a passkey to
\* write nor a deletion one to delete.
Calm ==
  /\ UNCHANGED owner
  /\ \A d \in Deletion : deleting'[d] \in {None, deleting[d]}
  /\ history'.removed = history.removed
  /\ history'.held = history.held
  /\ history'.crossed = history.crossed
  /\ \A c \in Ceremony :
       /\ ceremony'[c].step \in {"adding", "read"} =>
            /\ ceremony'[c].step = ceremony[c].step /\ ceremony'[c].of = ceremony[c].of
            /\ ceremony'[c].type = ceremony[c].type
            /\ ceremony'[c].key = ceremony[c].key
       /\ ceremony'[c].key \in {None, ceremony[c].key}

\* The steps that are not.
Writes(c) == \/ LoginCount(c) \/ AddPut(c)
             \/ \E k \in Passkey : PutPasskey(c, k) \/ LoginRead(c, k) \/ AddRead(c, k)
Deletes(d) == \/ DeleteWrite(d)
              \/ \E a \in Accounts, k \in Passkey : DeleteRead(d, a, k)

\* Every step is calm, a write of a verify handler, or a deletion's.
LEMMA CalmStep ==
  ASSUME TypeInv, [Next]_vars
  PROVE  Calm \/ (\E c \in Ceremony : Writes(c)) \/ (\E d \in Deletion : Deletes(d))
<1>1. ASSUME NEW c \in Ceremony, Options(c) PROVE Calm
  <2>1. PICK type, of : ceremony' = [ceremony EXCEPT ![c] = Open(type, of)]
    BY <1>1 DEF Options, claimPrimaryRootOptions, loginOptions,
                registerNewAccountOptions, addCredentialOptions, Challenge
  <2>2. UNCHANGED <<owner, deleting, history>>
    BY <1>1 DEF Options, claimPrimaryRootOptions, loginOptions,
                registerNewAccountOptions, addCredentialOptions, Challenge
  <2> QED BY <2>1, <2>2 DEF Calm, Open, TypeInv, TypeOK
<1>2. ASSUME NEW c \in Ceremony, NEW step \in Steps \ {"adding", "read"}, Go(c, step),
             UNCHANGED <<owner, deleting, history>>
      PROVE  Calm
  BY <1>2, Gone DEF Calm, TypeInv
<1>3. ASSUME NEW c \in Ceremony, Verify(c), ~Writes(c) PROVE Calm
  <2> USE DEF Steps
  <2>1. CASE Take(c) BY <1>2, <2>1 DEF Take
  <2>2. CASE Provision(c) BY <1>2, <2>2 DEF Provision
  <2>3. CASE PutAccount(c) BY <1>2, <2>3 DEF PutAccount
  <2>4. CASE Consume(c) BY <1>2, <2>4 DEF Consume
  <2>5. CASE EnterNewAccount(c) BY <1>2, <2>5 DEF EnterNewAccount
  <2>6. CASE LoginEnter(c) BY <1>2, <2>6 DEF LoginEnter
  <2>7. CASE Admit(c) BY <2>7, Gone DEF Admit, Calm, TypeInv, TypeOK
  <2>8. CASE Abort(c) BY <2>8, Gone DEF Abort, Stopped, Calm, TypeInv, TypeOK
  <2> QED BY <1>3, <2>1, <2>2, <2>3, <2>4, <2>5, <2>6, <2>7, <2>8 DEF Verify, Writes
<1>4. ASSUME NEW s \in session, DropSession(s) PROVE Calm
  BY <1>4 DEF DropSession, Calm
<1>5. ASSUME NEW i \in Invite, createInvite(i) \/ InviteExpires(i) PROVE Calm
  BY <1>5 DEF createInvite, InviteExpires, Calm
<1>6. ASSUME Crash PROVE Calm
  <2>1. ASSUME NEW d \in Deletion PROVE deleting'[d] = None
    BY <1>6 DEF Crash
  <2> QED BY <1>6, <2>1, Crashed DEF Crash, Stopped, Calm, Fresh, TypeInv, TypeOK
<1>7. CASE UNCHANGED vars BY <1>7 DEF vars, Calm
<1> QED BY <1>1, <1>3, <1>4, <1>5, <1>6, <1>7 DEF Next, Deletes

LEMMA OwnerInit == Init => OwnerInv
  BY DEF Init, Fresh, Is, Reads, Adding, OwnerInv, AddInv, DeletingInv, LoginInv, PairInv,
         HeldInv, LastInv, StaysDeleted

\* A passkey that is written or deleted is one.
LEMMA Keys ==
  ASSUME TypeInv
  PROVE  /\ None \notin Passkey /\ None \notin Ceremony
         /\ \A c \in Ceremony : Adding(c) => ceremony[c].key \in Passkey
         /\ \A c \in Ceremony, k \in Passkey : Reads(c, k) =>
              ceremony[c].key = k /\ ceremony[c].of \in Ceremony
         /\ \A d \in Deletion : deleting[d] # None => deleting[d] \in Passkey
         /\ \A k \in Passkey : owner[k] # None => owner[k] \in Ceremony
         /\ history.removed \subseteq Passkey
  BY AccountsAssumption DEF AccountsAssumption, TypeInv, TypeOK, KindInv, Adding, Reads, Is

\* A set of more than one element has another one than k.
LEMMA Another ==
  ASSUME NEW S, Cardinality(S) > 1, NEW k \in S
  PROVE  \E j \in S : j # k
<1> SUFFICES ASSUME \A j \in S : j = k PROVE FALSE
  OBVIOUS
<1>1. S = {k} OBVIOUS
<1>2. Cardinality(S) = 1 BY <1>1, FS_Singleton
<1> QED BY <1>2

\* What calm steps and each of the others do to the clauses about passkeys.
LEMMA CalmKeeps ==
  ASSUME TypeInv, TypeInv', OwnerInv, Calm
  PROVE  OwnerInv'
<1>1. /\ owner' = owner
      /\ \A d \in Deletion : deleting'[d] \in {None, deleting[d]}
      /\ history'.removed = history.removed /\ history'.held = history.held
      /\ history'.crossed = history.crossed
      /\ \A c \in Ceremony, k \in Passkey :
           Reads(c, k)' => Reads(c, k) /\ ceremony'[c].of = ceremony[c].of
      /\ \A c \in Ceremony : Adding(c)' => Adding(c) /\ ceremony'[c].key = ceremony[c].key
      /\ \A c \in Ceremony : ceremony'[c].key \in {None, ceremony[c].key}
  BY DEF Calm, Reads, Adding, Is
<1> USE DEF OwnerInv
<1>2. AddInv' BY Keys, <1>1 DEF AddInv
<1>3. DeletingInv' BY Keys, <1>1 DEF DeletingInv
<1>4. LoginInv' BY Keys, <1>1 DEF LoginInv
<1>5. PairInv' BY Keys, <1>1 DEF PairInv
<1>6. HeldInv' BY Keys, <1>1 DEF HeldInv
<1>7. LastInv' BY Keys, <1>1 DEF LastInv
<1>8. StaysDeleted' BY Keys, <1>1 DEF StaysDeleted
<1> QED BY <1>2, <1>3, <1>4, <1>5, <1>6, <1>7, <1>8

LEMMA PutPasskeyKeeps ==
  ASSUME TypeInv, TypeInv', OwnerInv, NEW c \in Ceremony, NEW k \in Passkey, PutPasskey(c, k)
  PROVE  OwnerInv'
<1>1. /\ \A e \in Ceremony \ {c} : ceremony'[e] = ceremony[e]
      /\ ceremony'[c].key = k /\ ceremony'[c].of = ceremony[c].of
      /\ \A e \in Ceremony, j \in Passkey : Reads(e, j)' <=> Reads(e, j)
      /\ \A e \in Ceremony : Adding(e)' <=> Adding(e)
  BY DEF PutPasskey, Reads, Adding, Is, TypeInv, TypeOK
<1>2. /\ ~Adding(c) /\ deleting' = deleting /\ history' = history
      /\ owner[k] = None /\ k \notin history.removed
      /\ \A e \in Ceremony : ceremony[e].key # k
      /\ owner'[k] = c /\ \A j \in Passkey \ {k} : owner'[j] = owner[j]
  BY DEF PutPasskey, New, Adding, Is, TypeInv, TypeOK, KindInv
<1> USE DEF OwnerInv
<1>3. AddInv' BY Keys, <1>1, <1>2 DEF AddInv
<1>4. DeletingInv' BY Keys, <1>1, <1>2 DEF DeletingInv
<1>5. LoginInv' BY Keys, <1>1, <1>2 DEF LoginInv
<1>6. PairInv' BY Keys, <1>1, <1>2 DEF PairInv, DeletingInv
<1>7. HeldInv' BY Keys, <1>1, <1>2 DEF HeldInv
<1>8. LastInv' BY Keys, <1>1, <1>2 DEF LastInv, DeletingInv
<1>9. StaysDeleted' BY Keys, <1>1, <1>2 DEF StaysDeleted
<1> QED BY <1>3, <1>4, <1>5, <1>6, <1>7, <1>8, <1>9

LEMMA LoginReadKeeps ==
  ASSUME TypeInv, TypeInv', OwnerInv, NEW c \in Ceremony, NEW k \in Passkey, LoginRead(c, k)
  PROVE  OwnerInv'
<1>1. /\ \A e \in Ceremony \ {c} : ceremony'[e] = ceremony[e]
      /\ ceremony'[c].key = k /\ ceremony'[c].of = owner[k]
      /\ \A e \in Ceremony, j \in Passkey : Reads(e, j)' <=> (Reads(e, j) \/ (e = c /\ j = k))
      /\ \A e \in Ceremony : Adding(e)' <=> Adding(e)
  BY DEF LoginRead, Reads, Adding, Is, TypeInv, TypeOK
<1>2. /\ ~Adding(c) /\ deleting' = deleting /\ history' = history /\ owner' = owner
      /\ owner[k] # None /\ \A j \in Passkey : ~Reads(c, j)
  BY DEF LoginRead, Adding, Reads, Is
<1> USE DEF OwnerInv
<1>3. AddInv' BY Keys, <1>1, <1>2 DEF AddInv
<1>4. DeletingInv' BY Keys, <1>1, <1>2 DEF DeletingInv
<1>5. LoginInv' BY Keys, <1>1, <1>2 DEF LoginInv, StaysDeleted
<1>6. PairInv' BY Keys, <1>1, <1>2 DEF PairInv
<1>7. HeldInv' BY Keys, <1>1, <1>2 DEF HeldInv
<1>8. LastInv' BY Keys, <1>1, <1>2 DEF LastInv
<1>9. StaysDeleted' BY Keys, <1>1, <1>2 DEF StaysDeleted
<1> QED BY <1>3, <1>4, <1>5, <1>6, <1>7, <1>8, <1>9

LEMMA AddReadKeeps ==
  ASSUME TypeInv, TypeInv', OwnerInv, NEW c \in Ceremony, NEW k \in Passkey, AddRead(c, k)
  PROVE  OwnerInv'
<1>1. /\ \A e \in Ceremony \ {c} : ceremony'[e] = ceremony[e]
      /\ ceremony'[c].key = k /\ ceremony'[c].of = ceremony[c].of
      /\ \A e \in Ceremony, j \in Passkey : Reads(e, j)' <=> Reads(e, j)
      /\ \A e \in Ceremony : Adding(e)' <=> (Adding(e) \/ e = c)
  BY DEF AddRead, Reads, Adding, Is, TypeInv, TypeOK
<1>2. /\ deleting' = deleting /\ history' = history /\ owner' = owner
      /\ owner[k] = None /\ k \notin history.removed
      /\ \A e \in Ceremony : ceremony[e].key # k
  BY DEF AddRead, New
<1> USE DEF OwnerInv
<1>3. AddInv' BY Keys, <1>1, <1>2 DEF AddInv
<1>4. DeletingInv' BY Keys, <1>1, <1>2 DEF DeletingInv
<1>5. LoginInv' BY Keys, <1>1, <1>2 DEF LoginInv
<1>6. PairInv' BY Keys, <1>1, <1>2 DEF PairInv
<1>7. HeldInv' BY Keys, <1>1, <1>2 DEF HeldInv
<1>8. LastInv' BY Keys, <1>1, <1>2 DEF LastInv
<1>9. StaysDeleted' BY Keys, <1>1, <1>2 DEF StaysDeleted
<1> QED BY <1>3, <1>4, <1>5, <1>6, <1>7, <1>8, <1>9

LEMMA LoginCountKeeps ==
  ASSUME TypeInv, TypeInv', OwnerInv, NEW c \in Ceremony, LoginCount(c)
  PROVE  OwnerInv'
<1> DEFINE k == ceremony[c].key
<1>1. /\ \A e \in Ceremony \ {c} : ceremony'[e] = ceremony[e]
      /\ ceremony'[c].key = k /\ ceremony'[c].of = ceremony[c].of
      /\ \A e \in Ceremony, j \in Passkey : Reads(e, j)' <=> Reads(e, j) /\ e # c
      /\ \A e \in Ceremony : Adding(e)' <=> Adding(e) /\ e # c
  BY Gone DEF LoginCount, Reads, Adding, Is, TypeInv, Steps
<1>2. Reads(c, k) /\ k \in Passkey /\ ~Adding(c)
  BY DEF LoginCount, Reads, Adding, Is, TypeInv, KindInv
<1>3. /\ deleting' = deleting /\ history' = history
      /\ owner'[k] = ceremony[c].of /\ \A j \in Passkey \ {k} : owner'[j] = owner[j]
  BY <1>2 DEF LoginCount, TypeInv, TypeOK
<1> HIDE DEF k
<1> USE DEF OwnerInv
<1>4. AddInv' BY Keys, <1>1, <1>2, <1>3 DEF AddInv
<1>5. DeletingInv' BY Keys, <1>1, <1>2, <1>3 DEF DeletingInv
<1>6. LoginInv' BY Keys, <1>1, <1>2, <1>3 DEF LoginInv
<1>7. PairInv' BY Keys, <1>1, <1>2, <1>3 DEF PairInv, HeldInv, LoginInv
<1>8. HeldInv' BY Keys, <1>1, <1>2, <1>3 DEF HeldInv
<1>9. LastInv' BY Keys, <1>1, <1>2, <1>3 DEF LastInv, HeldInv, LoginInv
<1>10. StaysDeleted' BY Keys, <1>1, <1>2, <1>3 DEF StaysDeleted, LoginInv
<1> QED BY <1>4, <1>5, <1>6, <1>7, <1>8, <1>9, <1>10

LEMMA AddPutKeeps ==
  ASSUME TypeInv, TypeInv', OwnerInv, NEW c \in Ceremony, AddPut(c)
  PROVE  OwnerInv'
<1> DEFINE k == ceremony[c].key
<1>1. /\ \A e \in Ceremony \ {c} : ceremony'[e] = ceremony[e]
      /\ ceremony'[c].key = k /\ ceremony'[c].of = ceremony[c].of
      /\ \A e \in Ceremony, j \in Passkey : Reads(e, j)' <=> Reads(e, j) /\ e # c
      /\ \A e \in Ceremony : Adding(e)' <=> Adding(e) /\ e # c
  BY Gone DEF AddPut, Reads, Adding, Is, TypeInv, Steps
<1>2. Adding(c) /\ k \in Passkey /\ ceremony[c].of \in Ceremony
  BY DEF AddPut, Adding, Is, TypeInv, KindInv
<1>3. /\ deleting' = deleting /\ history' = history
      /\ owner'[k] = ceremony[c].of /\ \A j \in Passkey \ {k} : owner'[j] = owner[j]
  BY <1>2 DEF AddPut, TypeInv, TypeOK
<1> USE DEF OwnerInv
<1>4. AddInv' BY Keys, <1>1, <1>2, <1>3 DEF AddInv, AddInv, DeletingInv
<1>5. DeletingInv' BY Keys, <1>1, <1>2, <1>3 DEF DeletingInv, AddInv, DeletingInv
<1>6. LoginInv' BY Keys, <1>1, <1>2, <1>3 DEF LoginInv, AddInv, DeletingInv
<1>7. PairInv' BY Keys, <1>1, <1>2, <1>3 DEF PairInv, AddInv, DeletingInv
<1>8. HeldInv' BY Keys, <1>1, <1>2, <1>3 DEF HeldInv, AddInv, DeletingInv
<1>9. LastInv' BY Keys, <1>1, <1>2, <1>3 DEF LastInv, AddInv, DeletingInv
<1>10. StaysDeleted' BY Keys, <1>1, <1>2, <1>3 DEF StaysDeleted, AddInv, DeletingInv
<1> QED BY <1>4, <1>5, <1>6, <1>7, <1>8, <1>9, <1>10

LEMMA DeleteWriteKeeps ==
  ASSUME TypeInv, TypeInv', OwnerInv, NEW d \in Deletion, DeleteWrite(d)
  PROVE  OwnerInv'
<1> DEFINE k == deleting[d]
<1>1. k \in Passkey /\ k # None /\ k = deleting[d] BY Keys DEF DeleteWrite
<1>2. /\ ceremony' = ceremony /\ owner'[k] = None
      /\ \A j \in Passkey \ {k} : owner'[j] = owner[j]
      /\ deleting'[d] = None /\ \A e \in Deletion \ {d} : deleting'[e] = deleting[e]
  <2>1. /\ owner \in [Passkey -> Ceremony \union {None}]
        /\ deleting \in [Deletion -> Passkey \union {None}]
    BY DEF TypeInv, TypeOK
  <2>2. /\ ceremony' = ceremony /\ owner' = [owner EXCEPT ![k] = None]
        /\ deleting' = [deleting EXCEPT ![d] = None]
    BY DEF DeleteWrite
  <2> HIDE DEF k
  <2> QED BY <1>1, <2>1, <2>2
<1>3. /\ \A e \in Ceremony, j \in Passkey : Reads(e, j)' <=> Reads(e, j)
      /\ \A e \in Ceremony : Adding(e)' <=> Adding(e)
  BY <1>2 DEF Reads, Adding, Is
<1>4. /\ history'.crossed = history.crossed
      /\ history'.removed = history.removed \union {k}
      /\ \A j \in Passkey : j \in history'.held <=>
           j \in history.held \/ (j = k /\ \E c \in Ceremony : Reads(c, k))
  BY DEF DeleteWrite, Reads, TypeInv, TypeOK
<1> HIDE DEF k
<1> USE DEF OwnerInv
<1>5. AddInv' BY Keys, <1>1, <1>2, <1>3, <1>4 DEF AddInv, DeletingInv
<1>6. DeletingInv' BY Keys, <1>1, <1>2, <1>3, <1>4 DEF DeletingInv
<1>7. LoginInv' BY Keys, <1>1, <1>2, <1>3, <1>4 DEF LoginInv
<1>8. PairInv' BY Keys, <1>1, <1>2, <1>3, <1>4 DEF PairInv
<1>9. HeldInv' BY Keys, <1>1, <1>2, <1>3, <1>4 DEF HeldInv, PairInv, LoginInv
<1>10. LastInv' BY Keys, <1>1, <1>2, <1>3, <1>4 DEF LastInv, PairInv
<1>11. StaysDeleted' BY Keys, <1>1, <1>2, <1>3, <1>4 DEF StaysDeleted
<1> QED BY <1>5, <1>6, <1>7, <1>8, <1>9, <1>10, <1>11

LEMMA DeleteReadKeeps ==
  ASSUME TypeInv, TypeInv', OwnerInv, 
         NEW d \in Deletion, NEW a \in Accounts, NEW k \in Passkey, DeleteRead(d, a, k)
  PROVE  OwnerInv'
<1>1. /\ ceremony' = ceremony /\ owner' = owner /\ deleting[d] = None
      /\ deleting'[d] = k /\ \A e \in Deletion \ {d} : deleting'[e] = deleting[e]
      /\ owner[k] = a /\ a \in Ceremony
  BY DEF DeleteRead, PasskeysOf, Accounts, TypeInv, TypeOK
<1>2. /\ \A e \in Ceremony, j \in Passkey : Reads(e, j)' <=> Reads(e, j)
      /\ \A e \in Ceremony : Adding(e)' <=> Adding(e)
  BY <1>1 DEF Reads, Adding, Is
<1>3. /\ history'.removed = history.removed /\ history'.held = history.held
      /\ history.crossed \subseteq history'.crossed
      /\ \A e \in Deletion \ {d} :
           deleting[e] \in Passkey /\ owner[deleting[e]] = a => a \in history'.crossed
  BY DEF DeleteRead, PasskeysOf, TypeInv, TypeOK
<1>4. \E j \in Passkey \ {k} : owner[j] = a
  BY Another DEF DeleteRead, PasskeysOf
<1> USE DEF OwnerInv
<1>5. AddInv' BY Keys, <1>1, <1>2, <1>3, <1>4 DEF AddInv
<1>6. DeletingInv' BY Keys, <1>1, <1>2, <1>3, <1>4 DEF DeletingInv
<1>7. LoginInv' BY Keys, <1>1, <1>2, <1>3, <1>4 DEF LoginInv
<1>8. PairInv' BY Keys, <1>1, <1>2, <1>3, <1>4 DEF PairInv
<1>9. HeldInv' BY Keys, <1>1, <1>2, <1>3, <1>4 DEF HeldInv
<1>10. LastInv' BY Keys, <1>1, <1>2, <1>3, <1>4 DEF LastInv
<1>11. StaysDeleted' BY Keys, <1>1, <1>2, <1>3, <1>4 DEF StaysDeleted
<1> QED BY <1>5, <1>6, <1>7, <1>8, <1>9, <1>10, <1>11

LEMMA OwnerStep == TypeInv /\ OwnerInv /\ [Next]_vars => OwnerInv'
<1> SUFFICES ASSUME TypeInv, OwnerInv, [Next]_vars PROVE OwnerInv'
  OBVIOUS
<1>1. TypeInv' BY TypeStep
<1>2. CASE Calm BY <1>1, <1>2, CalmKeeps
<1>3. ASSUME NEW c \in Ceremony, Writes(c) PROVE OwnerInv'
  BY <1>1, <1>3, LoginCountKeeps, AddPutKeeps, PutPasskeyKeeps, LoginReadKeeps, AddReadKeeps
     DEF Writes
<1>4. ASSUME NEW d \in Deletion, Deletes(d) PROVE OwnerInv'
  BY <1>1, <1>4, DeleteWriteKeeps, DeleteReadKeeps DEF Deletes
<1> QED BY <1>2, <1>3, <1>4, CalmStep

\* A deleted passkey stays deleted, whatever login, enrolment or deletion was
\* between its read and its write, unless a login had read it before.
THEOREM StaysDeletedCorrect == Spec => []StaysDeleted
<1>1. Init => TypeInv /\ OwnerInv BY TypeInit, OwnerInit
<1>2. TypeInv /\ OwnerInv /\ [Next]_vars => (TypeInv /\ OwnerInv)'
  BY TypeStep, OwnerStep
<1>3. OwnerInv => StaysDeleted BY DEF OwnerInv
<1> QED BY <1>1, <1>2, <1>3, PTL DEF Spec

-----------------------------------------------------------------------------
(* Admission.                                                              *)

Outsider(c) == ceremony[c].type \notin {"register", "claim"}

\* A step that is not about registrations, claims, accounts, roots or invites.
Outside ==
  /\ UNCHANGED <<account, primary, invite>>
  /\ history'.stopped = history.stopped
  /\ history'.overlapped = history.overlapped
  /\ session' # {} => Accounts # {}
  /\ \A c \in Ceremony :
       \/ ceremony'[c] = ceremony[c]
       \/ /\ Outsider(c) /\ Outsider(c)'
          /\ ceremony[c].step # "over" /\ account[c] = None

\* The steps that are.
Enters(c) ==
  \/ claimPrimaryRootOptions(c) \/ Take(c) \/ Admit(c) \/ Provision(c) \/ PutAccount(c)
  \/ Consume(c) \/ EnterNewAccount(c) \/ Abort(c)
  \/ \E i \in Invite \union {None} : registerNewAccountOptions(c, i)
  \/ \E k \in Passkey : PutPasskey(c, k)
Issues == \E i \in Invite : createInvite(i) \/ InviteExpires(i)

LEMMA AdmissionInit == Init => AdmissionInv
  BY AccountsAssumption
  DEF Init, Fresh, Admitted, In, Ground, Accounts, AccountsAssumption, AdmissionInv, StopInv,
      AccountInv, IssueInv, RootInv, ConsumeInv, GroundInv

\* Every step is one of these, or the end of the process.
LEMMA AdmissionStepKinds ==
  ASSUME TypeInv, TypeInv', AdmissionInv, [Next]_vars
  PROVE  Outside \/ (\E c \in Ceremony : Enters(c)) \/ Issues \/ Crash
<1> USE DEF AdmissionInv, TypeInv
<1>1. session # {} => Accounts # {} BY DEF IssueInv
<1>2. \A c \in Ceremony : Outsider(c) => account[c] = None BY DEF Outsider, AccountInv
<1>3. ASSUME NEW c \in Ceremony, ceremony[c] = Fresh, NEW type \in {"login", "addcred"}, NEW of,
             Challenge(c, type, of)
      PROVE  Outside
  BY <1>1, <1>2, <1>3 DEF Challenge, Open, Fresh, Outside, Outsider, TypeOK
<1>4. ASSUME NEW c \in Ceremony, Options(c), ~Enters(c) PROVE Outside
  <2>1. CASE loginOptions(c) BY <1>3, <2>1 DEF loginOptions, Challenge
  <2>2. ASSUME NEW a \in Accounts, addCredentialOptions(c, a) PROVE Outside
    BY <1>3, <2>2 DEF addCredentialOptions, Challenge
  <2> QED BY <1>4, <2>1, <2>2 DEF Options, Enters
<1>5. ASSUME NEW c \in Ceremony, Verify(c), ~Enters(c) PROVE Outside
  <2> USE DEF Outside, Outsider, Is, Steps
  <2>1. CASE LoginCount(c) BY <1>1, <1>2, <2>1, Gone DEF LoginCount
  <2>2. CASE LoginEnter(c)
    <3>1. ceremony[c].of \in Accounts
      BY <2>2, AccountsAssumption DEF LoginEnter, Accounts, KindInv
    <3> QED BY <1>2, <2>2, <3>1, Gone DEF LoginEnter
  <2>3. CASE AddPut(c) BY <1>1, <1>2, <2>3, Gone DEF AddPut
  <2>4. ASSUME NEW k \in Passkey, LoginRead(c, k) PROVE Outside
    BY <1>1, <1>2, <2>4 DEF LoginRead, TypeOK
  <2>5. ASSUME NEW k \in Passkey, AddRead(c, k) PROVE Outside
    BY <1>1, <1>2, <2>5 DEF AddRead, TypeOK
  <2> QED BY <1>5, <2>1, <2>2, <2>3, <2>4, <2>5 DEF Verify, Enters
<1>6. ASSUME NEW d \in Deletion, DeleteWrite(d) PROVE Outside
  BY <1>1, <1>6 DEF DeleteWrite, Outside, TypeOK
<1>7. ASSUME NEW d \in Deletion, NEW a \in Accounts, NEW k \in Passkey, DeleteRead(d, a, k)
      PROVE  Outside
  BY <1>1, <1>7 DEF DeleteRead, Outside, TypeOK
<1>8. ASSUME NEW x \in session, DropSession(x) PROVE Outside
  BY <1>1, <1>8 DEF DropSession, Outside
<1>9. CASE UNCHANGED vars BY <1>1, <1>9 DEF vars, Outside
<1> QED BY <1>4, <1>5, <1>6, <1>7, <1>8, <1>9 DEF Next, Issues

\* What each step does to the clauses about admission.
LEMMA OutsideKeeps ==
  ASSUME TypeInv, TypeInv', AdmissionInv, Outside
  PROVE  AdmissionInv'
<1>1. /\ account' = account /\ primary' = primary /\ invite' = invite
      /\ history'.stopped = history.stopped /\ history'.overlapped = history.overlapped
      /\ session' # {} => Accounts # {}
      /\ Accounts' = Accounts
  BY DEF Outside, Accounts
<1>2. \A c \in Ceremony :
        /\ Admitted(c)' <=> Admitted(c)
        /\ In(c)' <=> In(c)
        /\ ~Outsider(c) => ceremony'[c] = ceremony[c] /\ Ground(c)' = Ground(c)
        /\ Outsider(c)' <=> Outsider(c)
        /\ ceremony[c].step = "over" => ceremony'[c].step = "over"
        /\ In(c) => ~Outsider(c)
        /\ Outsider(c) => ceremony'[c].step \notin {"account", "passkey", "consumed"}
        /\ account[c] # None => ~Outsider(c)
  BY DEF Outside, Outsider, Admitted, In, Ground, AdmissionInv, AccountInv, TypeInv, KindInv
<1> USE DEF AdmissionInv
<1>3. StopInv' BY <1>1, <1>2 DEF StopInv
<1>4. AccountInv' BY <1>1, <1>2 DEF AccountInv, Outsider
<1>5. IssueInv' BY <1>1, <1>2 DEF IssueInv, Outsider
<1>6. RootInv' BY <1>1, <1>2 DEF RootInv, Outsider
<1>7. ConsumeInv' BY <1>1, <1>2 DEF ConsumeInv, Outsider
<1>8. GroundInv' BY <1>1, <1>2 DEF GroundInv
<1> QED BY <1>3, <1>4, <1>5, <1>6, <1>7, <1>8

LEMMA TakeKeeps ==
  ASSUME TypeInv, TypeInv', AdmissionInv, NEW c \in Ceremony, Take(c)
  PROVE  AdmissionInv'
<1>1. /\ \A d \in Ceremony \ {c} :
            /\ ceremony'[d] = ceremony[d] /\ Ground(d)' = Ground(d)
            /\ Admitted(d)' <=> Admitted(d)
      /\ ceremony'[c].step = "taken" /\ ceremony'[c].type = ceremony[c].type
      /\ ceremony'[c].of = ceremony[c].of /\ Ground(c)' = Ground(c)
      /\ ceremony[c].type \in {"register", "claim"}
      /\ ~Admitted(c) /\ ceremony[c].step = "open"
      /\ ~Admitted(c)'
  BY Gone DEF Take, Admitted, Ground, Is, Steps, TypeInv, TypeOK, KindInv
<1>2. /\ account' = account /\ Accounts' = Accounts
      /\ history'.stopped = history.stopped /\ history'.overlapped = history.overlapped
      /\ primary' = primary /\ invite' = invite /\ session' = session
  BY DEF Take, Accounts, TypeInv, TypeOK
<1>3. \A d \in Ceremony : In(d)' <=> In(d) BY <1>1, <1>2 DEF In, AdmissionInv, AccountInv
<1> USE DEF AdmissionInv
<1>4. StopInv' BY <1>1, <1>2, <1>3 DEF StopInv
<1>5. AccountInv' BY <1>1, <1>2, <1>3 DEF AccountInv
<1>6. IssueInv' BY <1>1, <1>2, <1>3 DEF IssueInv
<1>7. RootInv' BY <1>1, <1>2, <1>3 DEF RootInv
<1>8. ConsumeInv' BY <1>1, <1>2, <1>3 DEF ConsumeInv
<1>9. GroundInv' BY <1>1, <1>2, <1>3 DEF GroundInv
<1> QED BY <1>4, <1>5, <1>6, <1>7, <1>8, <1>9

LEMMA ProvisionKeeps ==
  ASSUME TypeInv, TypeInv', AdmissionInv, NEW c \in Ceremony, Provision(c)
  PROVE  AdmissionInv'
<1>1. /\ \A d \in Ceremony \ {c} :
            /\ ceremony'[d] = ceremony[d] /\ Ground(d)' = Ground(d)
            /\ Admitted(d)' <=> Admitted(d)
      /\ ceremony'[c].step = "provisioned" /\ ceremony'[c].type = ceremony[c].type
      /\ ceremony'[c].of = ceremony[c].of /\ Ground(c)' = Ground(c)
      /\ ceremony[c].type = "register"
      /\ Admitted(c) /\ ceremony[c].step = "admitted"
      /\ Admitted(c)'
  BY Gone DEF Provision, Admitted, Ground, Is, Steps, TypeInv, TypeOK, KindInv
<1>2. /\ account' = account /\ Accounts' = Accounts
      /\ history'.stopped = history.stopped /\ history'.overlapped = history.overlapped
      /\ primary' \in {primary, c} /\ invite' = invite /\ session' = session
  BY DEF Provision, Accounts, TypeInv, TypeOK
<1>3. \A d \in Ceremony : In(d)' <=> In(d) BY <1>1, <1>2 DEF In, AdmissionInv, AccountInv
<1> USE DEF AdmissionInv
<1>4. StopInv' BY <1>1, <1>2, <1>3 DEF StopInv
<1>5. AccountInv' BY <1>1, <1>2, <1>3 DEF AccountInv
<1>6. IssueInv' BY <1>1, <1>2, <1>3 DEF IssueInv
<1>7. RootInv' BY <1>1, <1>2, <1>3 DEF RootInv
<1>8. ConsumeInv' BY <1>1, <1>2, <1>3 DEF ConsumeInv
<1>9. GroundInv' BY <1>1, <1>2, <1>3 DEF GroundInv
<1> QED BY <1>4, <1>5, <1>6, <1>7, <1>8, <1>9

LEMMA PutPasskeyAdmits ==
  ASSUME TypeInv, TypeInv', AdmissionInv, NEW c \in Ceremony, NEW k \in Passkey, PutPasskey(c, k)
  PROVE  AdmissionInv'
<1>1. /\ \A d \in Ceremony \ {c} :
            /\ ceremony'[d] = ceremony[d] /\ Ground(d)' = Ground(d)
            /\ Admitted(d)' <=> Admitted(d)
      /\ ceremony'[c].step = "passkey" /\ ceremony'[c].type = ceremony[c].type
      /\ ceremony'[c].of = ceremony[c].of /\ Ground(c)' = Ground(c)
      /\ ceremony[c].type \in {"register", "claim"}
      /\ Admitted(c) /\ ceremony[c].step = "account"
      /\ Admitted(c)'
  BY Gone DEF PutPasskey, Admitted, Ground, Is, Steps, TypeInv, TypeOK, KindInv
<1>2. /\ account' = account /\ Accounts' = Accounts
      /\ history'.stopped = history.stopped /\ history'.overlapped = history.overlapped
      /\ primary' = primary /\ invite' = invite /\ session' = session
  BY DEF PutPasskey, Accounts, TypeInv, TypeOK
<1>3. \A d \in Ceremony : In(d)' <=> In(d) BY <1>1, <1>2 DEF In, AdmissionInv, AccountInv
<1> USE DEF AdmissionInv
<1>4. StopInv' BY <1>1, <1>2, <1>3 DEF StopInv
<1>5. AccountInv' BY <1>1, <1>2, <1>3 DEF AccountInv
<1>6. IssueInv' BY <1>1, <1>2, <1>3 DEF IssueInv
<1>7. RootInv' BY <1>1, <1>2, <1>3 DEF RootInv
<1>8. ConsumeInv' BY <1>1, <1>2, <1>3 DEF ConsumeInv
<1>9. GroundInv' BY <1>1, <1>2, <1>3 DEF GroundInv
<1> QED BY <1>4, <1>5, <1>6, <1>7, <1>8, <1>9

LEMMA ConsumeKeeps ==
  ASSUME TypeInv, TypeInv', AdmissionInv, NEW c \in Ceremony, Consume(c)
  PROVE  AdmissionInv'
<1>1. /\ \A d \in Ceremony \ {c} :
            /\ ceremony'[d] = ceremony[d] /\ Ground(d)' = Ground(d)
            /\ Admitted(d)' <=> Admitted(d)
      /\ ceremony'[c].step = "consumed" /\ ceremony'[c].type = ceremony[c].type
      /\ ceremony'[c].of = ceremony[c].of /\ Ground(c)' = Ground(c)
      /\ ceremony[c].type = "register"
      /\ Admitted(c) /\ ceremony[c].step = "passkey"
      /\ ~Admitted(c)'
  BY Gone DEF Consume, Admitted, Ground, Is, Steps, TypeInv, TypeOK, KindInv
<1>2. /\ account' = account /\ Accounts' = Accounts
      /\ history'.stopped = history.stopped /\ history'.overlapped = history.overlapped
      /\ primary' = primary /\ session' = session
      /\ ceremony[c].of \in Invite /\ invite'[ceremony[c].of] = "gone"
      /\ \A i \in Invite \ {ceremony[c].of} : invite'[i] = invite[i]
  BY DEF Consume, Is, KindInv, Accounts, TypeInv, TypeOK
<1>3. \A d \in Ceremony : In(d)' <=> In(d) BY <1>1, <1>2 DEF In, AdmissionInv, AccountInv
<1> USE DEF AdmissionInv
<1>4. StopInv' BY <1>1, <1>2, <1>3 DEF StopInv
<1>5. AccountInv' BY <1>1, <1>2, <1>3 DEF AccountInv
<1>6. IssueInv' BY <1>1, <1>2, <1>3 DEF IssueInv, AccountInv, Accounts, TypeInv, KindInv
<1>7. RootInv' BY <1>1, <1>2, <1>3 DEF RootInv
<1>8. ConsumeInv' BY <1>1, <1>2, <1>3 DEF ConsumeInv, TypeInv, KindInv
<1>9. GroundInv' BY <1>1, <1>2, <1>3 DEF GroundInv
<1> QED BY <1>4, <1>5, <1>6, <1>7, <1>8, <1>9

LEMMA EnterKeeps ==
  ASSUME TypeInv, TypeInv', AdmissionInv, NEW c \in Ceremony, EnterNewAccount(c)
  PROVE  AdmissionInv'
<1>1. /\ \A d \in Ceremony \ {c} :
            /\ ceremony'[d] = ceremony[d] /\ Ground(d)' = Ground(d)
            /\ Admitted(d)' <=> Admitted(d)
      /\ ceremony'[c].step = "over" /\ ceremony'[c].type = ceremony[c].type
      /\ ceremony'[c].of = ceremony[c].of /\ Ground(c)' = Ground(c)
      /\ ceremony[c].type \in {"register", "claim"}
      /\ ceremony[c].step \in {"passkey", "consumed"}
      /\ ceremony[c].type = "register" /\ ceremony[c].of # None => ~Admitted(c)
      /\ ~Admitted(c)'
  BY Gone DEF EnterNewAccount, Admitted, Ground, Is, Steps, TypeInv, TypeOK, KindInv
<1>2. /\ account' = account /\ Accounts' = Accounts
      /\ history'.stopped = history.stopped /\ history'.overlapped = history.overlapped
      /\ primary' = primary /\ invite' = invite
  BY DEF EnterNewAccount, Accounts, TypeInv, TypeOK
<1>3. \A d \in Ceremony : In(d)' <=> In(d) BY <1>1, <1>2 DEF In, AdmissionInv, AccountInv
<1> USE DEF AdmissionInv
<1>4. StopInv' BY <1>1, <1>2, <1>3 DEF StopInv
<1>5. AccountInv' BY <1>1, <1>2, <1>3 DEF AccountInv
<1>6. IssueInv' BY <1>1, <1>2 DEF IssueInv, AccountInv, Accounts
<1>7. RootInv' BY <1>1, <1>2, <1>3 DEF RootInv
<1>8. ConsumeInv' BY <1>1, <1>2, <1>3 DEF ConsumeInv
<1>9. GroundInv' BY <1>1, <1>2, <1>3 DEF GroundInv
<1> QED BY <1>4, <1>5, <1>6, <1>7, <1>8, <1>9

LEMMA PutAccountKeeps ==
  ASSUME TypeInv, TypeInv', AdmissionInv, NEW c \in Ceremony, PutAccount(c)
  PROVE  AdmissionInv'
<1>1. /\ \A d \in Ceremony \ {c} :
            /\ ceremony'[d] = ceremony[d] /\ Ground(d)' = Ground(d)
            /\ Admitted(d)' <=> Admitted(d)
      /\ ceremony'[c].step = "account" /\ ceremony'[c].type = ceremony[c].type
      /\ ceremony'[c].of = ceremony[c].of /\ Ground(c)' = Ground(c)
      /\ ceremony[c].type \in {"register", "claim"}
      /\ Admitted(c) /\ ceremony[c].step \in {"provisioned", "admitted"}
      /\ Admitted(c)'
  <2>1. /\ Go(c, "account") /\ "account" \in Steps
        /\ ceremony[c].step \in {"provisioned", "admitted"}
        /\ ceremony[c].type \in {"register", "claim"}
    BY DEF PutAccount, Is, Steps
  <2>2. /\ \A d \in Ceremony \ {c} : ceremony'[d] = ceremony[d]
        /\ ceremony'[c].step = "account" /\ ceremony'[c].type = ceremony[c].type
        /\ ceremony'[c].of = ceremony[c].of
    BY <2>1, Gone DEF TypeInv
  <2> QED BY <2>1, <2>2 DEF Admitted, Ground
<1>2. /\ account[c] = None
      /\ account' = [account EXCEPT ![c] = account'[c]] /\ account'[c] # None
      /\ \/ ceremony[c].type = "register" /\ account'[c] = c
         \/ ceremony[c].type = "claim" /\ account'[c] = ceremony[c].of
      /\ history' = history /\ primary' = primary /\ invite' = invite /\ session' = session
  BY AccountsAssumption
     DEF PutAccount, Is, AccountsAssumption, Root, AdmissionInv, AccountInv, TypeInv, TypeOK,
         KindInv
<1>3. /\ \A d \in Ceremony : In(d)' <=> In(d)
      /\ \A d \in Ceremony \ {c} : account'[d] = account[d]
  BY <1>1, <1>2 DEF In, TypeInv, TypeOK
<1>4. Accounts' = Accounts \union {c} BY <1>2, <1>3 DEF Accounts
<1> USE DEF AdmissionInv
<1>5. StopInv' BY <1>1, <1>2, <1>3, <1>4 DEF StopInv
<1>6. AccountInv' BY <1>1, <1>2, <1>3, <1>4 DEF AccountInv
<1>7. IssueInv' BY <1>1, <1>2, <1>3, <1>4 DEF IssueInv
<1>8. RootInv' BY <1>1, <1>2, <1>3, <1>4 DEF RootInv
<1>9. ConsumeInv' BY <1>1, <1>2, <1>3, <1>4 DEF ConsumeInv
<1>10. GroundInv' BY <1>1, <1>2, <1>3, <1>4 DEF GroundInv
<1> QED BY <1>5, <1>6, <1>7, <1>8, <1>9, <1>10

LEMMA AdmitKeeps ==
  ASSUME TypeInv, TypeInv', AdmissionInv, NEW c \in Ceremony, Admit(c)
  PROVE  AdmissionInv'
<1>1. /\ \A d \in Ceremony \ {c} :
            /\ ceremony'[d] = ceremony[d] /\ Ground(d)' = Ground(d)
            /\ Admitted(d)' <=> Admitted(d)
      /\ ceremony'[c].step = "admitted" /\ ceremony'[c].type = ceremony[c].type
      /\ ceremony'[c].of = ceremony[c].of /\ Ground(c)' = Ground(c)
      /\ ceremony[c].type \in {"register", "claim"}
      /\ ~Admitted(c) /\ ceremony[c].step = "taken"
      /\ Admitted(c)'
  <2>1. /\ Go(c, "admitted") /\ "admitted" \in Steps /\ ceremony[c].step = "taken"
        /\ ceremony[c].type \in {"register", "claim"}
    BY DEF Admit, Steps
  <2>2. /\ \A d \in Ceremony \ {c} : ceremony'[d] = ceremony[d]
        /\ ceremony'[c].step = "admitted" /\ ceremony'[c].type = ceremony[c].type
        /\ ceremony'[c].of = ceremony[c].of
    BY <2>1, Gone DEF TypeInv
  <2> QED BY <2>1, <2>2 DEF Admitted, Ground
<1>2. /\ account' = account /\ Accounts' = Accounts
      /\ history'.stopped = history.stopped /\ (history.overlapped => history'.overlapped)
      /\ \A d \in Ceremony \ {c} : Admitted(d) /\ Ground(d) = Ground(c) => history'.overlapped
      /\ primary' = primary /\ invite' = invite /\ session' = session
  BY DEF Admit, Accounts, TypeInv, TypeOK
<1>3. /\ \A d \in Ceremony \ {c} : In(d)' <=> In(d)
      /\ account[c] = None
  BY <1>1, <1>2 DEF In, AdmissionInv, AccountInv
<1> USE DEF AdmissionInv
<1>4. StopInv' BY <1>1, <1>2, <1>3 DEF StopInv
<1>5. AccountInv' BY <1>1, <1>2, <1>3 DEF AccountInv
<1>6. IssueInv' BY <1>1, <1>2, <1>3 DEF IssueInv
<1>7. RootInv' BY <1>1, <1>2, <1>3 DEF RootInv
<1>8. ConsumeInv' BY <1>1, <1>2, <1>3 DEF ConsumeInv
<1>9. GroundInv' 
  <2> SUFFICES ASSUME ~SelfSignup, ~history'.overlapped,
                      NEW b \in Ceremony \ {c}, In(b), Ground(b) = Ground(c)
               PROVE  /\ Ground(c) # None
                      /\ history.stopped[b] \in {"account", "passkey"}
    BY <1>1, <1>2, <1>3 DEF GroundInv
  <2>1. b \in Accounts /\ ~Admitted(b) BY <1>2 DEF In, Accounts
  <2>2. ceremony[c].type = "register" /\ ceremony[c].of # None /\ invite[ceremony[c].of] = "valid"
    BY <2>1 DEF Admit, allowed
  <2>3. ceremony[b].type = "register" /\ ceremony[b].of = ceremony[c].of
    BY <2>1, <2>2 DEF Ground, Accounts, AccountInv
  <2> QED BY <2>1, <2>2, <2>3 DEF Ground, ConsumeInv, Accounts
<1> QED BY <1>4, <1>5, <1>6, <1>7, <1>8, <1>9

LEMMA AbortKeeps ==
  ASSUME TypeInv, TypeInv', AdmissionInv, NEW c \in Ceremony, Abort(c)
  PROVE  AdmissionInv'
<1>1. /\ \A d \in Ceremony \ {c} :
            /\ ceremony'[d] = ceremony[d] /\ Ground(d)' = Ground(d)
            /\ Admitted(d)' <=> Admitted(d)
      /\ ceremony'[c].step = "over" /\ ceremony'[c].type = ceremony[c].type
      /\ ceremony'[c].of = ceremony[c].of /\ Ground(c)' = Ground(c)
      /\ ceremony[c].step \notin {"fresh", "over"} /\ ~Admitted(c)'
  BY Gone DEF Abort, Admitted, Ground, Steps, TypeInv
<1>2. /\ account' = account /\ Accounts' = Accounts
      /\ history'.overlapped = history.overlapped
      /\ \A d \in Ceremony \ {c} : history'.stopped[d] = history.stopped[d]
      /\ history'.stopped[c] = IF Admitted(c) /\ account[c] # None
                               THEN ceremony[c].step ELSE history.stopped[c]
      /\ primary' = primary /\ invite' = invite /\ session' = session
  BY DEF Abort, Stopped, Accounts, TypeInv, TypeOK
<1>3. \A d \in Ceremony : In(d)' => In(d) BY <1>1, <1>2 DEF In
<1> USE DEF AdmissionInv
<1>4. StopInv' BY <1>1, <1>2, <1>3 DEF StopInv
<1>5. AccountInv' BY <1>1, <1>2, <1>3 DEF AccountInv
<1>6. IssueInv' BY <1>1, <1>2, <1>3 DEF IssueInv
<1>7. RootInv' BY <1>1, <1>2, <1>3 DEF RootInv
<1>8. ConsumeInv' BY <1>1, <1>2, <1>3 DEF ConsumeInv, AccountInv, Admitted
<1>9. GroundInv' BY <1>1, <1>2, <1>3 DEF GroundInv, StopInv
<1> QED BY <1>4, <1>5, <1>6, <1>7, <1>8, <1>9

LEMMA CrashKeeps ==
  ASSUME TypeInv, TypeInv', AdmissionInv, Crash
  PROVE  AdmissionInv'
<1>1. \A d \in Ceremony :
        /\ \/ ~Admitted(d) /\ ceremony[d].step = "fresh" /\ ceremony'[d].step = "fresh"
           \/ ceremony'[d].step = "over"
        /\ ceremony'[d].type = ceremony[d].type
        /\ ceremony'[d].of = ceremony[d].of /\ Ground(d)' = Ground(d)
        /\ ~Admitted(d)'
  BY Crashed DEF Fresh, Admitted, Ground
<1>2. /\ account' = account /\ Accounts' = Accounts
      /\ history'.overlapped = history.overlapped
      /\ \A d \in Ceremony :
           history'.stopped[d] = IF Admitted(d) /\ account[d] # None
                                 THEN ceremony[d].step ELSE history.stopped[d]
      /\ primary' = primary /\ invite' = invite /\ session' = session
  BY DEF Crash, Stopped, Accounts, TypeInv, TypeOK
<1>3. \A d \in Ceremony : In(d)' => In(d) BY <1>1, <1>2 DEF In
<1> USE DEF AdmissionInv
<1>4. StopInv' BY <1>1, <1>2, <1>3 DEF StopInv
<1>5. AccountInv' BY <1>1, <1>2, <1>3 DEF AccountInv
<1>6. IssueInv' BY <1>1, <1>2, <1>3 DEF IssueInv
<1>7. RootInv' BY <1>1, <1>2, <1>3 DEF RootInv
<1>8. ConsumeInv' BY <1>1, <1>2, <1>3 DEF ConsumeInv, AccountInv, Admitted
<1>9. GroundInv' BY <1>1, <1>2, <1>3 DEF GroundInv, StopInv, Admitted
<1> QED BY <1>4, <1>5, <1>6, <1>7, <1>8, <1>9

LEMMA IssuesKeep ==
  ASSUME TypeInv, TypeInv', AdmissionInv, Issues
  PROVE  AdmissionInv'
<1>1. PICK i \in Invite : createInvite(i) \/ InviteExpires(i) BY DEF Issues
<1>2. /\ account' = account /\ Accounts' = Accounts /\ ceremony' = ceremony
      /\ history' = history /\ primary' = primary /\ session' = session
      /\ \A j \in Invite \ {i} : invite'[j] = invite[j]
      /\ \/ invite[i] = "unissued" /\ invite'[i] = "valid" /\ session # {}
         \/ invite[i] = "valid" /\ invite'[i] = "expired"
  BY <1>1 DEF createInvite, InviteExpires, Accounts, TypeInv, TypeOK
<1>3. \A d \in Ceremony : /\ In(d)' <=> In(d) /\ Ground(d)' = Ground(d)
                          /\ Admitted(d)' <=> Admitted(d)
                          /\ ceremony[d].type = "register" =>
                               ceremony[d].of \in Invite \union {None}
  BY <1>2 DEF In, Ground, Admitted, TypeInv, KindInv
<1> USE DEF AdmissionInv
<1>4. StopInv' BY <1>1, <1>2, <1>3 DEF StopInv
<1>5. AccountInv' BY <1>1, <1>2, <1>3 DEF AccountInv
<1>6. IssueInv' BY <1>1, <1>2, <1>3 DEF IssueInv
<1>7. RootInv' BY <1>1, <1>2, <1>3 DEF RootInv
<1>8. ConsumeInv' BY <1>1, <1>2, <1>3 DEF ConsumeInv
<1>9. GroundInv' BY <1>1, <1>2, <1>3 DEF GroundInv
<1> QED BY <1>4, <1>5, <1>6, <1>7, <1>8, <1>9

LEMMA ClaimKeeps ==
  ASSUME TypeInv, TypeInv', AdmissionInv, NEW c \in Ceremony, claimPrimaryRootOptions(c)
  PROVE  AdmissionInv'
<1>1. /\ \A d \in Ceremony \ {c} :
            /\ ceremony'[d] = ceremony[d] /\ Ground(d)' = Ground(d)
            /\ Admitted(d)' <=> Admitted(d)
      /\ ceremony[c].step = "fresh" /\ ceremony[c].type = "none"
      /\ ceremony'[c].step = "open" /\ ceremony'[c].type = "claim"
      /\ ceremony'[c].of = primary /\ ~Admitted(c) /\ ~Admitted(c)'
  BY DEF claimPrimaryRootOptions, Challenge, Open, Fresh, Admitted, Ground, TypeInv, TypeOK
<1>2. /\ account' = account /\ Accounts' = Accounts /\ history' = history
      /\ primary' = primary /\ invite' = invite /\ session' = session
      /\ Accounts = {}
  BY DEF claimPrimaryRootOptions, Challenge, Accounts
<1>3. /\ \A d \in Ceremony : In(d)' <=> In(d)
      /\ account[c] = None /\ ~In(c)
  BY <1>1, <1>2 DEF In, AdmissionInv, AccountInv
<1> USE DEF AdmissionInv
<1>4. StopInv' BY <1>1, <1>2, <1>3 DEF StopInv
<1>5. AccountInv' BY <1>1, <1>2, <1>3 DEF AccountInv
<1>6. IssueInv' BY <1>1, <1>2, <1>3 DEF IssueInv
<1>7. RootInv' BY <1>1, <1>2, <1>3 DEF RootInv, IssueInv, TypeInv, KindInv
<1>8. ConsumeInv' BY <1>1, <1>2, <1>3 DEF ConsumeInv
<1>9. GroundInv' BY <1>1, <1>2, <1>3 DEF GroundInv
<1> QED BY <1>4, <1>5, <1>6, <1>7, <1>8, <1>9

LEMMA RegisterKeeps ==
  ASSUME TypeInv, TypeInv', AdmissionInv, NEW c \in Ceremony, NEW i \in Invite \union {None},
         registerNewAccountOptions(c, i)
  PROVE  AdmissionInv'
<1>1. /\ \A d \in Ceremony \ {c} :
            /\ ceremony'[d] = ceremony[d] /\ Ground(d)' = Ground(d)
            /\ Admitted(d)' <=> Admitted(d)
      /\ ceremony[c].step = "fresh" /\ ceremony[c].type = "none"
      /\ ceremony'[c].step = "open" /\ ceremony'[c].type = "register"
      /\ ceremony'[c].of = i /\ ~Admitted(c) /\ ~Admitted(c)'
  BY DEF registerNewAccountOptions, Challenge, Open, Fresh, Admitted, Ground, TypeInv, TypeOK
<1>2. /\ account' = account /\ Accounts' = Accounts /\ history' = history
      /\ primary' = primary /\ invite' = invite /\ session' = session
      /\ i # None => invite[i] # "unissued"
  BY DEF registerNewAccountOptions, Challenge, Accounts
<1>3. /\ \A d \in Ceremony : In(d)' <=> In(d)
      /\ account[c] = None /\ ~In(c)
  BY <1>1, <1>2 DEF In, AdmissionInv, AccountInv
<1> USE DEF AdmissionInv
<1>4. StopInv' BY <1>1, <1>2, <1>3 DEF StopInv
<1>5. AccountInv' BY <1>1, <1>2, <1>3 DEF AccountInv
<1>6. IssueInv' BY <1>1, <1>2, <1>3 DEF IssueInv
<1>7. RootInv' BY <1>1, <1>2, <1>3 DEF RootInv
<1>8. ConsumeInv' BY <1>1, <1>2, <1>3 DEF ConsumeInv
<1>9. GroundInv' BY <1>1, <1>2, <1>3 DEF GroundInv
<1> QED BY <1>4, <1>5, <1>6, <1>7, <1>8, <1>9

LEMMA AdmissionStep == TypeInv /\ AdmissionInv /\ [Next]_vars => AdmissionInv'
<1> SUFFICES ASSUME TypeInv, AdmissionInv, [Next]_vars PROVE AdmissionInv'
  OBVIOUS
<1>1. TypeInv' BY TypeStep
<1>2. ASSUME NEW c \in Ceremony, Enters(c) PROVE AdmissionInv'
  BY <1>1, <1>2, ClaimKeeps, TakeKeeps, AdmitKeeps, ProvisionKeeps, PutAccountKeeps,
     ConsumeKeeps, EnterKeeps, AbortKeeps, RegisterKeeps, PutPasskeyAdmits DEF Enters
<1> QED BY <1>1, <1>2, AdmissionStepKinds, OutsideKeeps, IssuesKeep, CrashKeeps

\* Whoever has been let in on one ground, two of them never have the same root.
LEMMA OneEach == TypeInv /\ AdmissionInv => AdmittedOnce
<1> SUFFICES ASSUME TypeInv, AdmissionInv, ~SelfSignup, ~history.overlapped,
                    NEW a \in Accounts, NEW b \in Accounts, a # b
             PROVE  /\ account[a] # account[b]
                    /\ Ground(a) = Ground(b) =>
                         /\ Ground(a) # None
                         /\ \E x \in {a, b} : history.stopped[x] \in {"account", "passkey"}
  BY DEF AdmittedOnce
<1>1. /\ a \in Ceremony /\ account[a] # None /\ In(a)
      /\ b \in Ceremony /\ account[b] # None /\ In(b)
  BY DEF Accounts, In
<1>2. Ground(a) = Ground(b) =>
        /\ Ground(a) # None
        /\ \E x \in {a, b} : history.stopped[x] \in {"account", "passkey"}
  BY <1>1 DEF AdmissionInv, GroundInv
<1>3. account[a] # account[b]
  <2>1. ASSUME NEW c \in Ceremony, account[c] # None
        PROVE  \/ ceremony[c].type = "register" /\ account[c] = c
               \/ ceremony[c].type = "claim" /\ account[c] = ceremony[c].of
    BY <2>1 DEF AdmissionInv, AccountInv
  <2>2. \A c, d \in {a, b} :
          account[c] = account[d] /\ ceremony[c].type = "claim" =>
            Ground(c) = None /\ Ground(d) = None
    BY <1>1, <2>1 DEF Ground, AdmissionInv, RootInv
  <2> QED BY <1>1, <1>2, <2>1, <2>2
<1> QED BY <1>2, <1>3

\* Without self-signup, and unless two verify calls overlapped on the same ground,
\* an engine without accounts and each invite let in one account, and no two
\* accounts share a root.
THEOREM AdmittedOnceCorrect == Spec => []AdmittedOnce
<1>1. Init => TypeInv /\ AdmissionInv BY TypeInit, AdmissionInit
<1>2. TypeInv /\ AdmissionInv /\ [Next]_vars => (TypeInv /\ AdmissionInv)'
  BY TypeStep, AdmissionStep
<1> QED BY <1>1, <1>2, OneEach, PTL DEF Spec

-----------------------------------------------------------------------------
(* A passkey for every account.                                            *)

AllInv == TypeInv /\ OwnerInv /\ AdmissionInv

LEMMA AllStep == AllInv /\ [Next]_vars => AllInv'
  BY TypeStep, OwnerStep, AdmissionStep DEF AllInv

\* An account begins with its registration between its two writes.
LEMMA Begins ==
  ASSUME AllInv, [Next]_vars, NEW a \in Ceremony, account[a] = None, account'[a] # None
  PROVE  ceremony'[a].step = "account"
<1> USE DEF AllInv
<1>1. CASE Outside BY <1>1 DEF Outside
<1>2. ASSUME NEW c \in Ceremony, Enters(c) PROVE ceremony'[a].step = "account"
  <2>1. CASE PutAccount(c)
    <3>1. a = c BY <2>1 DEF PutAccount, TypeInv, TypeOK
    <3> QED BY <2>1, <3>1, Gone DEF PutAccount, Steps, TypeInv
  <2>2. CASE ~PutAccount(c)
    BY <1>2, <2>2 DEF Enters, claimPrimaryRootOptions, registerNewAccountOptions, Challenge, Take,
                      Admit, Provision, Consume, EnterNewAccount, Abort, PutPasskey
  <2> QED BY <2>1, <2>2
<1>3. CASE Issues BY <1>3 DEF Issues, createInvite, InviteExpires
<1>4. CASE Crash BY <1>4 DEF Crash
<1> QED BY <1>1, <1>2, <1>3, <1>4, AdmissionStepKinds, TypeStep

\* What is remembered of a stopped registration is not forgotten.
LEMMA StaysStopped ==
  ASSUME AllInv, [Next]_vars, NEW a \in Ceremony, history.stopped[a] # "none"
  PROVE  history'.stopped[a] = history.stopped[a]
<1> USE DEF AllInv
<1>1. ceremony[a].step = "over" BY DEF AdmissionInv, StopInv
<1>2. CASE Outside BY <1>2 DEF Outside
<1>3. ASSUME NEW c \in Ceremony, Enters(c) PROVE history'.stopped[a] = history.stopped[a]
  <2>1. CASE Abort(c)
    BY <1>1, <2>1 DEF Abort, Stopped, TypeInv, TypeOK
  <2>2. CASE Admit(c) BY <2>2 DEF Admit, TypeInv, TypeOK
  <2> QED
    BY <1>3, <2>1, <2>2
    DEF Enters, claimPrimaryRootOptions, registerNewAccountOptions, Challenge, Take, Provision,
        PutAccount, Consume, EnterNewAccount, PutPasskey
<1>4. CASE Issues BY <1>4 DEF Issues, createInvite, InviteExpires
<1>5. CASE Crash BY <1>1, <1>5 DEF Crash, Stopped, Admitted, TypeInv, TypeOK
<1> QED BY <1>2, <1>3, <1>4, <1>5, AdmissionStepKinds, TypeStep

\* A registration goes from its first write to its second, or stops.
LEMMA Continues ==
  ASSUME AllInv, [Next]_vars, NEW a \in Accounts, ceremony[a].step = "account"
  PROVE  \/ ceremony'[a].step = "account"
         \/ \E k \in Passkey : owner'[k] = a
         \/ history'.stopped[a] = "account"
<1> DEFINE Goal == \/ ceremony'[a].step = "account"
                   \/ \E k \in Passkey : owner'[k] = a
                   \/ history'.stopped[a] = "account"
<1> USE DEF AllInv
<1>1. a \in Ceremony /\ account[a] # None /\ Admitted(a) /\ ~Outsider(a)
  BY DEF Accounts, Admitted, Outsider, TypeInv, KindInv
<1>2. CASE Outside BY <1>1, <1>2 DEF Outside
<1>3. ASSUME NEW c \in Ceremony, Enters(c) PROVE Goal
  <2>1. CASE c # a
    BY <1>1, <1>3, <2>1, Gone
    DEF Enters, claimPrimaryRootOptions, registerNewAccountOptions, Challenge, Take, Admit,
        Provision, PutAccount, Consume, EnterNewAccount, Abort, PutPasskey, Steps, TypeInv, TypeOK
  <2>2. CASE c = a
    <3>1. CASE Abort(c) BY <1>1, <2>2, <3>1 DEF Abort, Stopped, TypeInv, TypeOK
    <3>2. ASSUME NEW k \in Passkey, PutPasskey(c, k) PROVE Goal
      BY <2>2, <3>2 DEF PutPasskey, TypeInv, TypeOK
    <3> QED
      BY <1>3, <2>2, <3>1, <3>2
      DEF Enters, claimPrimaryRootOptions, registerNewAccountOptions, Challenge, Fresh, Take,
          Admit, Provision, PutAccount, Consume, EnterNewAccount, Is
  <2> QED BY <2>1, <2>2
<1>4. CASE Issues BY <1>4 DEF Issues, createInvite, InviteExpires
<1>5. CASE Crash BY <1>1, <1>5 DEF Crash, Stopped, TypeInv, TypeOK
<1> QED BY <1>2, <1>3, <1>4, <1>5, AdmissionStepKinds, TypeStep

\* Only overlapping deletions take the last passkey of an account.
LEMMA HasPasskey ==
  ASSUME AllInv, [Next]_vars, NEW a \in Ceremony, NEW k \in Passkey, owner[k] = a
  PROVE  (\E j \in Passkey : owner'[j] = a) \/ a \in history'.crossed
<1> USE DEF AllInv
<1>1. a # None /\ None \notin Ceremony BY AccountsAssumption DEF AccountsAssumption
<1>2. CASE Calm BY <1>2 DEF Calm
<1>3. ASSUME NEW c \in Ceremony, Writes(c) PROVE owner'[k] = a
  <2>1. CASE LoginCount(c)
    <3>1. ceremony[c].key = k => Reads(c, k) BY <2>1 DEF LoginCount, Reads
    <3>2. ceremony[c].key = k => ceremony[c].of = a BY <1>1, <3>1 DEF OwnerInv, LoginInv
    <3> QED BY <2>1, <3>2 DEF LoginCount, TypeInv, TypeOK
  <2>2. CASE AddPut(c)
    <3>1. ceremony[c].key # k BY <1>1, <2>2 DEF AddPut, Adding, OwnerInv, AddInv
    <3> QED BY <2>2, <3>1 DEF AddPut, TypeInv, TypeOK
  <2>3. ASSUME NEW j \in Passkey, PutPasskey(c, j) PROVE owner'[k] = a
    BY <1>1, <2>3 DEF PutPasskey, New, TypeInv, TypeOK
  <2>4. ASSUME NEW j \in Passkey, LoginRead(c, j) \/ AddRead(c, j) PROVE owner'[k] = a
    BY <2>4 DEF LoginRead, AddRead
  <2> QED BY <1>3, <2>1, <2>2, <2>3, <2>4 DEF Writes
<1>4. ASSUME NEW d \in Deletion, DeleteWrite(d)
      PROVE  (\E j \in Passkey : owner'[j] = a) \/ a \in history'.crossed
  <2>1. /\ history'.crossed = history.crossed
        /\ \A j \in Passkey \ {deleting[d]} : owner'[j] = owner[j]
    BY <1>4 DEF DeleteWrite, TypeInv, TypeOK
  <2>2. CASE deleting[d] = k
    <3>1. \/ a \in history.crossed
          \/ \E j \in Passkey \ {k} : owner[j] = a
      BY <1>1, <1>4, <2>2 DEF DeleteWrite, OwnerInv, LastInv
    <3> QED BY <2>1, <2>2, <3>1
  <2>3. CASE deleting[d] # k BY <2>1, <2>3
  <2> QED BY <2>2, <2>3
<1>5. ASSUME NEW d \in Deletion, NEW b \in Accounts, NEW j \in Passkey, DeleteRead(d, b, j)
      PROVE  owner'[k] = a
  BY <1>5 DEF DeleteRead
<1> QED BY <1>2, <1>3, <1>4, <1>5, CalmStep DEF Deletes

LEMMA StaysCrossed ==
  ASSUME AllInv, [Next]_vars
  PROVE  history.crossed \subseteq history'.crossed
<1> USE DEF AllInv
<1>1. ASSUME NEW c \in Ceremony, Writes(c) PROVE history' = history
  BY <1>1 DEF Writes, LoginCount, AddPut, PutPasskey, LoginRead, AddRead
<1>2. ASSUME NEW d \in Deletion, Deletes(d) PROVE history.crossed \subseteq history'.crossed
  <2>1. CASE DeleteWrite(d) BY <2>1 DEF DeleteWrite, TypeInv, TypeOK
  <2>2. ASSUME NEW a \in Accounts, NEW k \in Passkey, DeleteRead(d, a, k)
        PROVE  history.crossed \subseteq history'.crossed
    BY <2>2 DEF DeleteRead, TypeInv, TypeOK
  <2> QED BY <1>2, <2>1, <2>2 DEF Deletes
<1> QED BY <1>1, <1>2, CalmStep DEF Calm

LEMMA KeepsPasskeyStep == AllInv /\ KeepsPasskey /\ [Next]_vars => KeepsPasskey'
<1> SUFFICES ASSUME AllInv, KeepsPasskey, [Next]_vars,
                    NEW a \in Ceremony, account'[a] # None
             PROVE  \/ \E k \in Passkey : owner'[k] = a
                    \/ ceremony'[a].step = "account"
                    \/ history'.stopped[a] = "account"
                    \/ a \in history'.crossed
  BY DEF KeepsPasskey, Accounts, PasskeysOf
<1>1. CASE account[a] = None BY <1>1, Begins
<1>2. CASE account[a] # None
  <2>1. \/ \E k \in Passkey : owner[k] = a
        \/ ceremony[a].step = "account"
        \/ history.stopped[a] = "account"
        \/ a \in history.crossed
    BY <1>2 DEF KeepsPasskey, Accounts, PasskeysOf
  <2>2. a \in Accounts BY <1>2 DEF Accounts
  <2> QED BY <2>1, <2>2, HasPasskey, Continues, StaysStopped, StaysCrossed
<1> QED BY <1>1, <1>2

\* However logins, enrolments and deletions interleave and whenever the engine
\* stops: an account has a passkey to log in with, unless its registration stopped
\* between its two writes or two deletions of its passkeys overlapped.
THEOREM KeepsPasskeyCorrect == Spec => []KeepsPasskey
<1>1. Init => AllInv BY TypeInit, OwnerInit, AdmissionInit DEF AllInv
<1>2. Init => KeepsPasskey BY DEF Init, KeepsPasskey, Accounts
<1>3. AllInv /\ KeepsPasskey /\ [Next]_vars => (AllInv /\ KeepsPasskey)'
  BY AllStep, KeepsPasskeyStep
<1> QED BY <1>1, <1>2, <1>3, PTL DEF Spec
=============================================================================
