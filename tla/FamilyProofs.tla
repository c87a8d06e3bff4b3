----------------------------- MODULE FamilyProofs -----------------------------
(***************************************************************************)
(* Proofs about how families of picos come about.                           *)
(*   By wrangler's requests (Family): for any picos, any requests and any   *)
(* number of crashes, in every order: parent and child know each other when *)
(* nothing is in progress, and every request has had its effect.            *)
(*   By an import (SubtreeImport): for every tree of picos, every set of    *)
(* references and every order in which the new picos' own events run:       *)
(* types, references to what the walk has been through are rewritten, and   *)
(* every finished pico's user interface knows its children.                 *)
(***************************************************************************)
EXTENDS Family, SubtreeImport, TLAPS

-----------------------------------------------------------------------------
(*                            PART 1: FAMILY                                *)

-----------------------------------------------------------------------------
(* The invariant.                                                           *)

Msgs(s) == {s[i] : i \in 1 .. Len(s)}
Waits(p, name) == \E m \in Msgs(queue[p]) : m.name = name
IsQuestion(m) == m.name \in {"setup", "ask"}

\* Nobody has two questions in s.
Once(s) ==
  \A i, j \in 1 .. Len(s) :
    IsQuestion(s[i]) /\ IsQuestion(s[j]) /\ s[i].from = s[j].from => i = j

\* Who answers p's question.
Asked(p) == IF tx[p].step = "parent" THEN parent[p] ELSE tx[p].of

Making(p, c) == tx[p].step \in {"bootstrap", "remember"} /\ tx[p].of = c
Booting(p, c) == tx[p].step = "bootstrap" /\ tx[p].of = c

\* Every pico but the first root hangs below a live one.
TreeInv ==
  /\ FirstRoot \in live /\ parent[FirstRoot] = NoPico
  /\ live \subseteq Used
  /\ \A c \in Picos : parent[c] # NoPico => parent[c] \in Used
  /\ \A c \in Picos : parent[c] # c
  /\ \A c \in live : c # FirstRoot => parent[c] \in live
  /\ \A c \in live : parent[c] \notin Subtree(c)
  /\ \A p \in Picos : p \notin Used => tx[p] = Idle /\ known[p] = {} /\ p \notin placed

\* A question is the only one of who asked it, who waits for its answer.
QuestionInv ==
  \A q \in live :
    /\ Once(queue[q])
    /\ \A m \in Msgs(queue[q]) : IsQuestion(m) =>
         /\ m.from \in Used
         /\ m.name = "setup" => parent[q] = m.from
         /\ m.from \in live =>
              /\ tx[m.from].waits /\ Asked(m.from) = q
              /\ m.name = "setup" <=> tx[m.from].step = "bootstrap"

\* What holds of a pico c that p is making: nobody else has to do with it.
Made(p, c) ==
  /\ c \in live /\ parent[c] = p /\ tx[c] = Idle /\ c \notin known[p]
  /\ \A d \in Picos : parent[d] # c
  /\ tx[p].step = "bootstrap" /\ tx[p].waits => \A m \in Msgs(queue[c]) : m.name = "setup"
  /\ tx[p].step = "bootstrap" /\ ~tx[p].waits => queue[c] = <<>>
  /\ tx[p].step = "remember" =>
       ~tx[p].waits /\ \A m \in Msgs(queue[c]) : m.name \in {"pico_created", "box"}
  /\ tx[p].step # "bootstrap" \/ ~tx[p].waits => c \in uiChannel
MakingInv == \A p \in live, c \in Picos : Making(p, c) => Made(p, c)

\* The picos that p's transaction has asked or will ask.
Left(p) == tx[p].todo \cup ({tx[p].of} \ {NoPico})

\* p waits for another pico, and not for its parent.
WaitsDown(p) == tx[p].waits /\ tx[p].step # "parent"

\* A transaction asks children of its own.
Works(p) ==
  /\ WaitsDown(p) => tx[p].of \in Children(p)
  /\ tx[p].step \in {"children", "spread", "backfill"} => Left(p) \subseteq Children(p)
  /\ tx[p].step = "forget" => parent[tx[p].of] = p /\ tx[p].of \notin live
  /\ tx[p].step \in {"bootstrap", "remember", "forget"} => tx[p].of \in Picos
  /\ tx[p].step = "idle" => tx[p] = Idle
WorkInv == \A p \in live : Works(p)

\* The first root has yet to begin what it does after a crash.
Starting ==
  /\ crashes > 0 /\ tx[FirstRoot] = Idle
  /\ queue[FirstRoot] # <<>> /\ Head(queue[FirstRoot]).name = "started"
Repairing(p, steps) == p = FirstRoot /\ (Starting \/ (crashes > 0 /\ tx[p].step \in steps))

\* The picos of which more than the types can be said.
Sound(p) == crashes = 0 \/ p = FirstRoot

UiInv ==
  /\ FirstRoot \in uiChannel
  /\ crashes = 0 =>
       /\ \A c \in live : c # FirstRoot /\ c \notin uiChannel =>
            Booting(parent[c], c) /\ tx[parent[c]].waits
       /\ found = {}
       /\ \A p \in live : tx[p].step = "backfill" => Left(p) = {}

\* p's map of UI channels has no pico too many and none too few.
KnownOf(p) ==
  /\ \A c \in known[p] : parent[c] = p /\ c \in uiChannel
  /\ Sound(p) =>
       /\ \A c \in known[p] : \/ c \in live
                              \/ tx[p].step = "forget" /\ tx[p].of = c
                              \/ Repairing(p, {"spread", "backfill"})
       /\ \A c \in Children(p) \cap uiChannel :
            \/ c \in known[p]
            \/ Making(p, c)
            \/ Repairing(p, {"spread"})
            \/ p = FirstRoot /\ tx[p].step = "backfill" /\ c \in Left(p)
KnownInv == \A p \in live : KnownOf(p)

PlacedOf(p) ==
  Sound(p) => \A c \in Children(p) : c \in known[p] \ found =>
    \/ c \in placed
    \/ Waits(c, "layout")
    \/ Repairing(p, {})
    \/ p = FirstRoot /\ tx[p].step = "spread" /\ c \in Left(p)
PlacedInv == \A p \in live : PlacedOf(p)

\* A child is placed by its parent's event, which has the parent's UI channel.
LayoutInv ==
  \A c \in live : c # FirstRoot /\ Sound(parent[c]) =>
    /\ c \in placed => c \in parentUi
    /\ \A m \in Msgs(queue[c]) : m.name = "layout" => m.from = parent[c]

Initialized(c, m) == m.name = "child_initialized" /\ m.of = c
BornInv ==
  \A c \in live : c # FirstRoot =>
    /\ crashes = 0 => \/ wrangler[c] = "child"
                      \/ Waits(c, "pico_created")
                      \/ Booting(parent[c], c)
    /\ \/ c \in told \cup cut
       \/ Waits(c, "pico_created")
       \/ Booting(parent[c], c)
       \/ \E m \in Msgs(queue[parent[c]]) : Initialized(c, m)

AsksToGo(c, m) == m.name = "child_deletion_request" /\ m.of = c
LeavingInv ==
  \A c \in leaving :
    c \in live /\ c # FirstRoot /\ \E m \in Msgs(queue[parent[c]]) : AsksToGo(c, m)

FamilyInv ==
  /\ FamilyTypeOK /\ TreeInv /\ QuestionInv /\ MakingInv /\ WorkInv /\ UiInv /\ KnownInv
  /\ PlacedInv /\ LayoutInv /\ BornInv /\ LeavingInv

-----------------------------------------------------------------------------
(* Queues.                                                                  *)

QueueType == [Picos -> Seq(MessageType)]
NoQuestion(N) == \A m \in N : ~IsQuestion(m)

\* t is s with the messages N after it.
Grown(s, t, N) ==
  /\ Msgs(t) = Msgs(s) \cup N
  /\ s # <<>> => t # <<>> /\ Head(t) = Head(s)
  /\ N # {} => t # <<>>
  /\ Once(s) /\ NoQuestion(N) => Once(t)

\* t is s without its first message.
Cut(s, t) ==
  /\ Head(s) \in Msgs(s) /\ Msgs(s) = {Head(s)} \cup Msgs(t)
  /\ Once(s) => Once(t) /\ (IsQuestion(Head(s)) =>
                  \A m \in Msgs(t) : IsQuestion(m) => m.from # Head(s).from)

LEMMA SeqAppend ==
  ASSUME NEW S, NEW s \in Seq(S), NEW e \in S
  PROVE  /\ Append(s, e) \in Seq(S) /\ Append(s, e) # <<>>
         /\ Len(Append(s, e)) = Len(s) + 1
         /\ \A m \in 1 .. Len(s) + 1 :
              Append(s, e)[m] = IF m <= Len(s) THEN s[m] ELSE e
         /\ s # <<>> => Head(Append(s, e)) = Head(s)
OBVIOUS

LEMMA SeqTail ==
  ASSUME NEW S, NEW s \in Seq(S), s # << >>
  PROVE  /\ Tail(s) \in Seq(S) /\ Len(s) \in Nat \ {0}
         /\ Len(Tail(s)) = Len(s) - 1
         /\ \A m \in 1 .. Len(s) - 1 : Tail(s)[m] = s[m + 1]
         /\ Head(s) = s[1] /\ s[1] \in S
OBVIOUS

LEMMA SeqEmpty == Msgs(<<>>) = {} /\ Once(<<>>)
BY DEF Msgs, Once

LEMMA SeqOne ==
  ASSUME NEW m \in MessageType
  PROVE  /\ <<m>> \in Seq(MessageType) /\ <<m>> # <<>> /\ Head(<<m>>) = m
         /\ Msgs(<<m>>) = {m} /\ Once(<<m>>)
<1>1. <<m>> \in Seq(MessageType) /\ Len(<<m>>) = 1 /\ <<m>>[1] = m
  OBVIOUS
<1>2. 1 .. Len(<<m>>) = {1}
  BY <1>1
<1> QED BY <1>1, <1>2 DEF Msgs, Once

\* A message put at the end, and the first one taken.
LEMMA AppendGrown ==
  ASSUME NEW s \in Seq(MessageType), NEW m \in MessageType
  PROVE  /\ Append(s, m) \in Seq(MessageType) /\ Grown(s, Append(s, m), {m})
         /\ Once(s) /\ (\A n \in Msgs(s) : IsQuestion(n) => n.from # m.from)
              => Once(Append(s, m))
<1> DEFINE t == Append(s, m)
<1>1. /\ t \in Seq(MessageType) /\ t # <<>> /\ Len(t) = Len(s) + 1 /\ Len(s) \in Nat
      /\ \A k \in 1 .. Len(s) + 1 : t[k] = IF k <= Len(s) THEN s[k] ELSE m
      /\ s # <<>> => Head(t) = Head(s)
  BY SeqAppend
<1> HIDE DEF t
<1>2. Msgs(t) = Msgs(s) \cup {m}
  <2>1. \A k \in 1 .. Len(s) : t[k] = s[k] /\ k \in 1 .. Len(t)
    BY <1>1
  <2>2. t[Len(t)] = m /\ Len(t) \in 1 .. Len(t)
    BY <1>1
  <2>3. \A k \in 1 .. Len(t) : k \in 1 .. Len(s) \/ k = Len(t)
    BY <1>1
  <2> QED BY <2>1, <2>2, <2>3 DEF Msgs
<1>3. ASSUME Once(s), ~IsQuestion(m) \/ \A n \in Msgs(s) : IsQuestion(n) => n.from # m.from
      PROVE  Once(t)
  <2> SUFFICES ASSUME NEW i \in 1 .. Len(t), NEW j \in 1 .. Len(t),
                      IsQuestion(t[i]), IsQuestion(t[j]), t[i].from = t[j].from
               PROVE  i = j
    BY DEF Once
  <2>1. \A k \in 1 .. Len(t) : \/ k \in 1 .. Len(s) /\ t[k] = s[k] /\ t[k] \in Msgs(s)
                               \/ k = Len(t) /\ t[k] = m
    BY <1>1 DEF Msgs
  <2>2. CASE i \in 1 .. Len(s) /\ t[i] = s[i] /\ j \in 1 .. Len(s) /\ t[j] = s[j]
    BY <2>2, <1>3 DEF Once
  <2>3. CASE i = Len(t) /\ j = Len(t)
    BY <2>3
  <2>4. CASE i \in 1 .. Len(s) /\ t[i] \in Msgs(s) /\ t[j] = m
    BY <2>4, <1>3
  <2>5. CASE j \in 1 .. Len(s) /\ t[j] \in Msgs(s) /\ t[i] = m
    BY <2>5, <1>3
  <2> QED BY <2>1, <2>2, <2>3, <2>4, <2>5
<1>4. Grown(s, t, {m})
  BY <1>1, <1>2, <1>3 DEF Grown, NoQuestion
<1> QED BY <1>1, <1>3, <1>4 DEF t

LEMMA TailCut ==
  ASSUME NEW s \in Seq(MessageType), s # <<>>
  PROVE  Tail(s) \in Seq(MessageType) /\ Head(s) \in MessageType /\ Cut(s, Tail(s))
<1> DEFINE t == Tail(s)
<1>1. /\ t \in Seq(MessageType) /\ Len(s) \in Nat \ {0} /\ Len(t) = Len(s) - 1
      /\ \A k \in 1 .. Len(s) - 1 : t[k] = s[k + 1]
      /\ Head(s) = s[1] /\ s[1] \in MessageType
  BY SeqTail
<1> HIDE DEF t
<1>2. Msgs(s) = {Head(s)} \cup Msgs(t) /\ Head(s) \in Msgs(s)
  <2>1. 1 \in 1 .. Len(s) /\ \A k \in 1 .. Len(t) : t[k] = s[k + 1] /\ k + 1 \in 1 .. Len(s)
    BY <1>1
  <2>2. \A k \in 1 .. Len(s) : k = 1 \/ (k - 1 \in 1 .. Len(t) /\ t[k - 1] = s[k])
    BY <1>1
  <2> QED BY <2>1, <2>2, <1>1 DEF Msgs
<1>3. ASSUME Once(s) PROVE Once(t)
  <2> SUFFICES ASSUME NEW i \in 1 .. Len(t), NEW j \in 1 .. Len(t),
                      IsQuestion(t[i]), IsQuestion(t[j]), t[i].from = t[j].from
               PROVE  i = j
    BY DEF Once
  <2>1. /\ t[i] = s[i + 1] /\ i + 1 \in 1 .. Len(s)
        /\ t[j] = s[j + 1] /\ j + 1 \in 1 .. Len(s)
    BY <1>1
  <2>2. i + 1 = j + 1
    BY <2>1, <1>3 DEF Once
  <2> QED BY <2>2
<1>4. ASSUME Once(s), IsQuestion(Head(s)), NEW m \in Msgs(t), IsQuestion(m),
             m.from = Head(s).from
      PROVE  FALSE
  <2>1. PICK k \in 1 .. Len(t) : m = t[k]
    BY DEF Msgs
  <2>2. t[k] = s[k + 1] /\ k + 1 \in 1 .. Len(s) /\ 1 \in 1 .. Len(s) /\ Head(s) = s[1]
    BY <1>1
  <2>3. k + 1 = 1
    BY <2>1, <2>2, <1>4 DEF Once
  <2> QED BY <2>3
<1> QED BY <1>1, <1>2, <1>3, <1>4 DEF Cut, t

\* The same of the queues of all picos.
LEMMA PutFacts ==
  ASSUME NEW Q \in QueueType, live \subseteq Picos, NEW q, NEW m \in MessageType
  PROVE  /\ Put(Q, q, m) \in QueueType
         /\ \A r \in Picos : r # q => Put(Q, q, m)[r] = Q[r]
         /\ q \notin live => Put(Q, q, m) = Q
         /\ q \in live =>
              /\ Grown(Q[q], Put(Q, q, m)[q], {m})
              /\ Once(Q[q]) /\ (\A n \in Msgs(Q[q]) : IsQuestion(n) => n.from # m.from)
                   => Once(Put(Q, q, m)[q])
<1>1. CASE q \notin live
  BY <1>1 DEF Put
<1>2. CASE q \in live
  <2>1. q \in Picos /\ Q[q] \in Seq(MessageType)
    BY <1>2 DEF QueueType
  <2>2. Put(Q, q, m) = [Q EXCEPT ![q] = Append(Q[q], m)]
    BY <1>2 DEF Put
  <2>3. Append(Q[q], m) \in Seq(MessageType)
    BY <2>1, AppendGrown
  <2>4. Put(Q, q, m)[q] = Append(Q[q], m)
    BY <2>1, <2>2 DEF QueueType
  <2>5. Put(Q, q, m) \in QueueType /\ \A r \in Picos : r # q => Put(Q, q, m)[r] = Q[r]
    BY <2>1, <2>2, <2>3 DEF QueueType
  <2> QED BY <1>2, <2>1, <2>4, <2>5, AppendGrown
<1> QED BY <1>1, <1>2

LEMMA PoppedFacts ==
  ASSUME queue \in QueueType, NEW p \in Picos, queue[p] # <<>>
  PROVE  /\ Popped(p) \in QueueType
         /\ \A r \in Picos : r # p => Popped(p)[r] = queue[r]
         /\ Cut(queue[p], Popped(p)[p]) /\ Head(queue[p]) \in MessageType
<1>1. queue[p] \in Seq(MessageType)
  BY DEF QueueType
<1>2. Tail(queue[p]) \in Seq(MessageType) /\ Popped(p)[p] = Tail(queue[p])
  BY <1>1, TailCut DEF Popped, QueueType
<1> QED BY <1>1, <1>2, TailCut DEF Popped, QueueType

-----------------------------------------------------------------------------
(* Transactions and what follows from the invariant about them.             *)

LEMMA IdleTx ==
  /\ Idle \in TxType /\ Idle.step = "idle" /\ Idle.of = NoPico /\ Idle.todo = {}
  /\ Idle.waits = FALSE
BY DEF Idle, TxType

LEMMA Unwaiting ==
  ASSUME NEW t \in TxType, NEW u, u = [t EXCEPT !.waits = FALSE]
  PROVE  /\ u \in TxType /\ u.waits = FALSE
         /\ u.step = t.step /\ u.of = t.of /\ u.todo = t.todo
         /\ t.waits = FALSE => u = t
BY DEF TxType

\* What a transaction is that the code begins.
LEMMA RunningTx ==
  ASSUME NEW step \in {"bootstrap", "remember", "forget", "children", "spread", "backfill",
                       "parent"},
         NEW of \in Picos \cup {NoPico}, NEW todo \in SUBSET Picos
  PROVE  /\ Running(step, of, todo) \in TxType /\ Running(step, of, todo).step = step
         /\ Running(step, of, todo).of = of /\ Running(step, of, todo).todo = todo
         /\ ~Running(step, of, todo).waits /\ Running(step, of, todo) # Idle
         /\ Waiting(step, of, todo) \in TxType /\ Waiting(step, of, todo).step = step
         /\ Waiting(step, of, todo).of = of /\ Waiting(step, of, todo).todo = todo
         /\ Waiting(step, of, todo).waits /\ Waiting(step, of, todo) # Idle
BY DEF Running, Waiting, Idle, TxType

LEMMA RunningWaits == \A step, of, todo : ~Running(step, of, todo).waits
BY DEF Running, Idle

LEMMA SetTx ==
  ASSUME tx \in [Picos -> TxType], NEW p \in Picos, NEW t \in TxType,
         tx' = [tx EXCEPT ![p] = t]
  PROVE  /\ tx' \in [Picos -> TxType] /\ tx'[p] = t
         /\ \A r \in Picos : r # p => tx'[r] = tx[r]
OBVIOUS

\* Everything of a transaction but that it waits.
SameWork(r) == tx'[r].step = tx[r].step /\ tx'[r].of = tx[r].of /\ tx'[r].todo = tx[r].todo

\* An answer ends the wait of who asked, and changes nothing else.
LEMMA AnsweredTx ==
  ASSUME tx \in [Picos -> TxType], NEW f \in Picos \cup {NoPico}, tx' = Answered(f)
  PROVE  /\ tx' \in [Picos -> TxType]
         /\ \A r \in Picos : r # f => tx'[r] = tx[r]
         /\ \A r \in Picos : SameWork(r)
         /\ f \in Picos => ~tx'[f].waits
         /\ \A r \in Picos : ~tx[r].waits => tx'[r] = tx[r]
<1>1. CASE f \in Picos
  <2> DEFINE u == [tx[f] EXCEPT !.waits = FALSE]
  <2>1. tx' = [tx EXCEPT ![f] = u]
    BY <1>1 DEF Answered
  <2>2. /\ u \in TxType /\ u.waits = FALSE
        /\ u.step = tx[f].step /\ u.of = tx[f].of /\ u.todo = tx[f].todo
        /\ tx[f].waits = FALSE => u = tx[f]
    BY <1>1, Unwaiting
  <2> HIDE DEF u
  <2>3. tx' \in [Picos -> TxType] /\ tx'[f] = u
        /\ \A r \in Picos : r # f => tx'[r] = tx[r]
    BY <2>1, <2>2, <1>1
  <2>4. tx[f].waits \in BOOLEAN
    BY <1>1 DEF TxType
  <2> QED BY <2>2, <2>3, <2>4, <1>1 DEF SameWork
<1>2. CASE f \notin Picos
  BY <1>2 DEF Answered, SameWork
<1> QED BY <1>1, <1>2

\* Who waits is at work, and who is being made is idle.
LEMMA Busy ==
  ASSUME FamilyTypeOK, MakingInv, WorkInv, NEW p \in live, NEW a \in live
  PROVE  /\ tx[p] # Idle => ~Making(a, p)
         /\ Begins(p, Head(queue[p]).name) /\ Making(a, p) =>
              Head(queue[p]).name \in {"setup", "pico_created", "box"}
         /\ \A c \in Picos : Making(a, c) => c \in live /\ parent[c] = a
<1>1. tx[p] # Idle => ~Making(a, p)
  BY DEF MakingInv, Made, FamilyTypeOK
<1>2. ASSUME queue[p] # <<>>, Making(a, p)
      PROVE  Head(queue[p]).name \in {"setup", "pico_created", "box"}
  <2>1. queue \in QueueType /\ p \in Picos
    BY DEF FamilyTypeOK, QueueType
  <2>2. Head(queue[p]) \in Msgs(queue[p])
    BY <2>1, <1>2, PoppedFacts DEF Cut
  <2>3. /\ tx[a].step = "bootstrap" /\ tx[a].waits => Head(queue[p]).name = "setup"
        /\ tx[a].step = "bootstrap" /\ ~tx[a].waits => queue[p] = <<>>
        /\ tx[a].step = "remember" => Head(queue[p]).name \in {"pico_created", "box"}
    BY <1>2, <2>1, <2>2 DEF MakingInv, Made
  <2>4. tx[a].step \in {"bootstrap", "remember"}
    BY <1>2 DEF Making
  <2> QED BY <2>3, <2>4, <1>2
<1>3. \A c \in Picos : Making(a, c) => c \in live /\ parent[c] = a
  BY DEF MakingInv, Made
<1> QED BY <1>1, <1>2, <1>3 DEF Begins

\* A message for a child of p or for p's parent goes to nobody another pico makes.
LEMMA NotMade ==
  ASSUME FamilyTypeOK, MakingInv, NEW p \in Picos, NEW q \in Picos, NEW a \in live,
         Making(a, q), parent[q] = p \/ parent[p] = q
  PROVE  a = p /\ parent[q] = p
BY DEF MakingInv, Made

\* p asks one question at most, and takes none from a queue.
LEMMA QuestionsKept ==
  ASSUME FamilyTypeOK, TreeInv, QuestionInv, NEW p \in live, ~tx[p].waits,
         live' = live, parent' = parent,
         \A r \in Picos : r # p => tx'[r] = tx[r],
         \A q \in live : Once(queue'[q]),
         \A q \in live : \A m \in Msgs(queue'[q]) : IsQuestion(m) =>
           \/ m \in Msgs(queue[q])
           \/ /\ m.from = p /\ m.name = "ask"
              /\ tx'[p].waits /\ tx'[p].step # "bootstrap" /\ Asked(p)' = q
  PROVE  QuestionInv'
<1> SUFFICES ASSUME NEW q \in live, NEW m \in Msgs(queue'[q]), IsQuestion(m)
             PROVE  /\ m.from \in Used'
                    /\ m.name = "setup" => parent[q] = m.from
                    /\ m.from \in live =>
                         /\ tx'[m.from].waits /\ Asked(m.from)' = q
                         /\ m.name = "setup" <=> tx'[m.from].step = "bootstrap"
  BY DEF QuestionInv
<1>1. CASE m \in Msgs(queue[q])
  <2>1. /\ m.from \in Used
        /\ m.name = "setup" => parent[q] = m.from
        /\ m.from \in live =>
             /\ tx[m.from].waits /\ Asked(m.from) = q
             /\ m.name = "setup" <=> tx[m.from].step = "bootstrap"
    BY <1>1 DEF QuestionInv
  <2>2. Used' = Used
    BY DEF Used
  <2>3. m.from \in live => m.from \in Picos /\ m.from # p
    BY <2>1 DEF FamilyTypeOK
  <2> QED BY <2>1, <2>2, <2>3 DEF Asked
<1>2. CASE /\ m.from = p /\ m.name = "ask"
           /\ tx'[p].waits /\ tx'[p].step # "bootstrap" /\ Asked(p)' = q
  <2>1. p \in Used'
    BY DEF Used, TreeInv
  <2> QED BY <1>2, <2>1
<1> QED BY <1>1, <1>2

-----------------------------------------------------------------------------
(* What is left to show of a step in which p works at its own transaction.  *)

\* p works, and sends to its children and its parent only.
OwnQueue(p) ==
  /\ \A q \in Picos : q # p /\ parent[q] # p /\ parent[p] # q => queue'[q] = queue[q]
  /\ \A q \in live : q # p /\ queue[q] # <<>> =>
       queue'[q] # <<>> /\ Head(queue'[q]) = Head(queue[q])
  /\ \A q \in live : \A m \in Msgs(queue[q]) :
       m \in Msgs(queue'[q]) \/ m.name \in {"children", "started"}
  /\ \A q \in live : \A m \in Msgs(queue'[q]) :
       \/ m \in Msgs(queue[q])
       \/ /\ parent[q] = p \/ parent[p] = q
          /\ IsQuestion(m) => /\ m.from = p /\ m.name = "ask"
                              /\ tx'[p].waits /\ tx'[p].step # "bootstrap" /\ Asked(p)' = q
          /\ m.name = "layout" => m.from = parent[q] \/ ~Sound(parent[q])
  /\ \A q \in live : Once(queue'[q])

OwnWork(p) ==
  /\ p \in live /\ ~tx[p].waits
  /\ UNCHANGED <<parent, live, uiChannel, placed, wrangler, told, leaving, cut, crashes>>
  /\ parentUi \subseteq parentUi'
  /\ \A r \in Picos : r # p => tx'[r] = tx[r] /\ known'[r] = known[r]
  /\ OwnQueue(p)

\* The picos in the making, when p works and the others do not.
LEMMA MadeByOthers ==
  ASSUME FamilyTypeOK, TreeInv, MakingInv, WorkInv, NEW p \in live,
         live' = live, parent' = parent, uiChannel \subseteq uiChannel',
         \A r \in Picos : r # p => tx'[r] = tx[r] /\ known'[r] = known[r],
         \A q \in Picos : q # p /\ parent[q] # p /\ parent[p] # q => queue'[q] = queue[q],
         \A a \in live : a # p /\ Making(a, p) => Made(a, p)',
         \A c \in Picos : Making(p, c)' => Made(p, c)'
  PROVE  MakingInv'
<1> SUFFICES ASSUME NEW a \in live, NEW c \in Picos, Making(a, c)' PROVE Made(a, c)'
  BY DEF MakingInv
<1>1. CASE a = p
  BY <1>1
<1>2. CASE a # p /\ c = p
  BY <1>2 DEF Making, FamilyTypeOK
<1>3. CASE a # p /\ c # p
  <2>1. /\ a \in Picos /\ tx'[a] = tx[a] /\ tx'[c] = tx[c] /\ Making(a, c)
        /\ known'[a] = known[a]
    BY <1>3 DEF FamilyTypeOK, Making
  <2>2. Made(a, c)
    BY <2>1 DEF MakingInv
  <2>3. parent[c] # p /\ parent[p] # c
    BY <1>3, <2>1, NotMade DEF FamilyTypeOK
  <2>4. queue'[c] = queue[c]
    BY <1>3, <2>3
  <2> QED BY <2>1, <2>2, <2>4 DEF Made
<1> QED BY <1>1, <1>2, <1>3

LEMMA OwnTree ==
  ASSUME FamilyTypeOK, TreeInv, NEW p \in live, live' = live, parent' = parent,
         \A r \in Picos : r # p => tx'[r] = tx[r] /\ known'[r] = known[r],
         placed' \subseteq placed \cup live
  PROVE  TreeInv'
<1>1. \A c : Subtree(c)' = Subtree(c)
  BY DEF Subtree, Children
<1> QED BY <1>1 DEF TreeInv, Used, FamilyTypeOK

\* What p does to its own transaction leaves everybody else as they are.
LEMMA OwnWorkKnown ==
  ASSUME FamilyInv, NEW p \in live, OwnWork(p), KnownOf(p)' PROVE KnownInv'
<1> SUFFICES ASSUME NEW a \in live, a # p PROVE KnownOf(a)'
  BY DEF KnownInv, OwnWork, OwnQueue
<1>1. a \in Picos /\ FirstRoot \in live /\ live \subseteq Picos /\ KnownOf(a)
  BY DEF FamilyInv, FamilyTypeOK, TreeInv, KnownInv
<1>2. tx'[a] = tx[a] /\ known'[a] = known[a] /\ Children(a)' = Children(a)
  BY <1>1 DEF OwnWork, OwnQueue, Children
<1>3. a = FirstRoot /\ Starting => Starting'
  BY <1>1, <1>2 DEF Starting, OwnWork, OwnQueue
<1> QED BY <1>1, <1>2, <1>3 DEF KnownOf, OwnWork, OwnQueue, Sound, Repairing, Making, Left

LEMMA OwnWorkPlaced ==
  ASSUME FamilyInv, NEW p \in live, OwnWork(p), found \subseteq found', PlacedOf(p)'
  PROVE  PlacedInv'
<1> SUFFICES ASSUME NEW a \in live, a # p PROVE PlacedOf(a)'
  BY DEF PlacedInv, OwnWork, OwnQueue
<1>1. a \in Picos /\ FirstRoot \in live /\ live \subseteq Picos /\ PlacedOf(a)
  BY DEF FamilyInv, FamilyTypeOK, TreeInv, PlacedInv
<1>2. tx'[a] = tx[a] /\ known'[a] = known[a] /\ Children(a)' = Children(a)
  BY <1>1 DEF OwnWork, OwnQueue, Children
<1>3. a = FirstRoot /\ Starting => Starting'
  BY <1>1, <1>2 DEF Starting, OwnWork, OwnQueue
<1>4. \A c \in Children(a) : Waits(c, "layout") => Waits(c, "layout")'
  BY DEF Waits, OwnWork, OwnQueue, Children
<1> QED BY <1>1, <1>2, <1>3, <1>4 DEF PlacedOf, OwnWork, OwnQueue, Sound, Repairing, Left

LEMMA OwnWorkLayout ==
  ASSUME FamilyInv, NEW p \in live, OwnWork(p) PROVE LayoutInv'
<1> SUFFICES ASSUME NEW c \in live, c # FirstRoot, Sound(parent[c])
             PROVE  /\ c \in placed => c \in parentUi'
                    /\ \A m \in Msgs(queue'[c]) : m.name = "layout" => m.from = parent[c]
  BY DEF LayoutInv, OwnWork, OwnQueue, Sound
<1>1. /\ c \in placed => c \in parentUi
      /\ \A m \in Msgs(queue[c]) : m.name = "layout" => m.from = parent[c]
  BY DEF FamilyInv, LayoutInv
<1> QED BY <1>1 DEF OwnWork, OwnQueue

LEMMA OwnWorkBorn ==
  ASSUME FamilyInv, NEW p \in live, OwnWork(p),
         \A c \in live : Booting(p, c) => Booting(p, c)' \/ Waits(c, "pico_created")'
  PROVE  BornInv' /\ LeavingInv'
<1>1. /\ \A q \in live : Waits(q, "pico_created") => Waits(q, "pico_created")'
      /\ \A q \in live : \A m \in Msgs(queue[q]) :
           m.name \in {"child_initialized", "child_deletion_request"} => m \in Msgs(queue'[q])
  BY DEF OwnWork, OwnQueue, Waits
<1>2. \A c \in live : c # FirstRoot => parent[c] \in live /\ parent[c] \in Picos
  BY DEF FamilyInv, TreeInv, FamilyTypeOK
<1>3. \A c \in live : c # FirstRoot /\ Booting(parent[c], c) =>
        Booting(parent[c], c)' \/ Waits(c, "pico_created")'
  BY <1>2 DEF OwnWork, OwnQueue, Booting
<1>4. BornInv'
  <2> SUFFICES ASSUME NEW c \in live, c # FirstRoot
               PROVE  /\ crashes = 0 => \/ wrangler[c] = "child"
                                        \/ Waits(c, "pico_created")'
                                        \/ Booting(parent[c], c)'
                      /\ \/ c \in told \cup cut
                         \/ Waits(c, "pico_created")'
                         \/ Booting(parent[c], c)'
                         \/ \E m \in Msgs(queue'[parent[c]]) : Initialized(c, m)
    BY DEF BornInv, OwnWork, OwnQueue, Initialized
  <2>1. /\ crashes = 0 => \/ wrangler[c] = "child"
                          \/ Waits(c, "pico_created")
                          \/ Booting(parent[c], c)
        /\ \/ c \in told \cup cut
           \/ Waits(c, "pico_created")
           \/ Booting(parent[c], c)
           \/ \E m \in Msgs(queue[parent[c]]) : Initialized(c, m)
    BY DEF FamilyInv, BornInv
  <2> QED BY <1>1, <1>2, <1>3, <2>1 DEF Initialized
<1>5. LeavingInv'
  <2> SUFFICES ASSUME NEW c \in leaving
               PROVE  /\ c \in live /\ c # FirstRoot
                      /\ \E m \in Msgs(queue'[parent[c]]) : AsksToGo(c, m)
    BY DEF LeavingInv, OwnWork, OwnQueue, AsksToGo
  <2>1. c \in live /\ c # FirstRoot /\ \E m \in Msgs(queue[parent[c]]) : AsksToGo(c, m)
    BY DEF FamilyInv, LeavingInv
  <2> QED BY <1>1, <1>2, <2>1 DEF AsksToGo
<1> QED BY <1>4, <1>5

LEMMA OwnWorkUi ==
  ASSUME FamilyInv, NEW p \in live, OwnWork(p), crashes = 0 => found' = {},
         crashes = 0 /\ tx'[p].step = "backfill" => Left(p)' = {}
  PROVE  UiInv'
<1>1. crashes = 0 => \A a \in live : tx'[a].step = "backfill" => Left(a)' = {}
  <2> SUFFICES ASSUME crashes = 0, NEW a \in live, tx'[a].step = "backfill", a # p
               PROVE  Left(a)' = {}
    OBVIOUS
  <2>1. tx'[a] = tx[a]
    BY DEF OwnWork, OwnQueue, FamilyInv, FamilyTypeOK
  <2> QED BY <2>1 DEF FamilyInv, UiInv, Left
<1>2. ASSUME crashes = 0, NEW c \in live, c # FirstRoot, c \notin uiChannel
      PROVE  Booting(parent[c], c)' /\ tx'[parent[c]].waits
  <2>1. Booting(parent[c], c) /\ tx[parent[c]].waits /\ parent[c] \in Picos
    BY <1>2 DEF FamilyInv, UiInv, TreeInv, FamilyTypeOK
  <2> QED BY <2>1 DEF OwnWork, OwnQueue, Booting
<1> QED BY <1>1, <1>2 DEF UiInv, FamilyInv, OwnWork, OwnQueue

\* Together: it is enough to look at p.
LEMMA OwnWorkStep ==
  ASSUME FamilyInv, FamilyTypeOK', NEW p \in live, OwnWork(p),
         \A a \in live : ~Making(a, p),
         found \subseteq found', crashes = 0 => found' = {},
         \A c \in Picos : Making(p, c)' => Made(p, c)',
         Works(p)',
         crashes = 0 /\ tx'[p].step = "backfill" => Left(p)' = {},
         KnownOf(p)', PlacedOf(p)',
         \A c \in live : Booting(p, c) => Booting(p, c)' \/ Waits(c, "pico_created")'
  PROVE  FamilyInv'
<1>1. TreeInv'
  BY OwnTree DEF FamilyInv, OwnWork, OwnQueue
<1>2. QuestionInv'
  <2>1. \A q \in live : \A m \in Msgs(queue'[q]) : IsQuestion(m) =>
           \/ m \in Msgs(queue[q])
           \/ /\ m.from = p /\ m.name = "ask"
              /\ tx'[p].waits /\ tx'[p].step # "bootstrap" /\ Asked(p)' = q
    BY DEF OwnWork, OwnQueue
  <2> QED BY <2>1, QuestionsKept DEF FamilyInv, OwnWork, OwnQueue
<1>3. MakingInv'
  BY MadeByOthers DEF FamilyInv, OwnWork, OwnQueue
<1>4. WorkInv'
  <2> SUFFICES ASSUME NEW a \in live, a # p PROVE Works(a)'
    BY DEF WorkInv, OwnWork, OwnQueue
  <2>1. tx'[a] = tx[a] /\ Works(a) /\ Children(a)' = Children(a)
    BY DEF OwnWork, OwnQueue, FamilyInv, FamilyTypeOK, WorkInv, Children
  <2> QED BY <2>1 DEF Works, WaitsDown, OwnWork, OwnQueue, Left
<1>5. UiInv'
  BY OwnWorkUi
<1>6. KnownInv' /\ PlacedInv' /\ LayoutInv'
  BY OwnWorkKnown, OwnWorkPlaced, OwnWorkLayout
<1>7. BornInv' /\ LeavingInv'
  BY OwnWorkBorn
<1> QED BY <1>1, <1>2, <1>3, <1>4, <1>5, <1>6, <1>7 DEF FamilyInv

\* The same for a step that has nothing to do with a pico in the making.
Apart(t) == t.step \notin {"bootstrap", "remember"}

LEMMA QuietStep ==
  ASSUME FamilyInv, FamilyTypeOK', NEW p \in live, OwnWork(p), \A a \in live : ~Making(a, p),
         Apart(tx[p]), Apart(tx'[p]), found \subseteq found', crashes = 0 => found' = {}, Works(p)',
         crashes = 0 /\ tx'[p].step = "backfill" => Left(p)' = {},
         KnownOf(p)', PlacedOf(p)'
  PROVE  FamilyInv'
<1>1. \A c : ~Making(p, c)' /\ ~Booting(p, c)
  BY DEF Making, Booting, Apart
<1> QED BY <1>1, OwnWorkStep

\* What every step needs of the types and the tree.
LEMMA Unpack ==
  ASSUME FamilyInv
  PROVE  /\ queue \in QueueType /\ live \subseteq Picos /\ tx \in [Picos -> TxType]
         /\ \A q \in live : Once(queue[q]) /\ q \in Picos
         /\ \A q \in live : q # FirstRoot => parent[q] \in live
BY DEF FamilyInv, FamilyTypeOK, QueueType, QuestionInv, TreeInv

LEMMA QuietQueue ==
  ASSUME FamilyInv, NEW p \in live, queue' = queue
  PROVE  OwnQueue(p)
BY DEF OwnQueue, FamilyInv, QuestionInv

\* p takes its first message, or sends one to its child.
LEMMA PopQueue ==
  ASSUME FamilyInv, NEW p \in live, queue[p] # <<>>, queue' = Popped(p),
         Head(queue[p]).name \in {"children", "started"}
  PROVE  OwnQueue(p) /\ queue' \in QueueType
<1>1. queue \in QueueType /\ p \in Picos /\ live \subseteq Picos /\ \A q \in live : Once(queue[q])
  BY Unpack
<1>2. /\ queue' \in QueueType
      /\ \A r \in Picos : r # p => queue'[r] = queue[r]
      /\ Cut(queue[p], queue'[p])
  BY <1>1, PoppedFacts
<1>3. \A q \in live : Once(queue'[q]) /\ (q # p => queue'[q] = queue[q])
  BY <1>1, <1>2 DEF Cut
<1>4. \A m \in Msgs(queue[p]) : m \in Msgs(queue'[p]) \/ m = Head(queue[p])
  BY <1>2 DEF Cut
<1>5. \A m \in Msgs(queue'[p]) : m \in Msgs(queue[p])
  BY <1>2 DEF Cut
<1> QED BY <1>1, <1>2, <1>3, <1>4, <1>5 DEF OwnQueue

LEMMA PushQueue ==
  ASSUME FamilyInv, NEW p \in live, NEW q, NEW m \in MessageType, parent[q] = p,
         queue' = Put(queue, q, m), ~IsQuestion(m),
         m.name = "layout" => m.from = p \/ ~Sound(p)
  PROVE  /\ OwnQueue(p) /\ queue' \in QueueType
         /\ q \in live => Msgs(queue'[q]) = Msgs(queue[q]) \cup {m}
<1>1. queue \in QueueType /\ p \in Picos /\ live \subseteq Picos /\ \A r \in live : Once(queue[r])
  BY Unpack
<1>2. /\ queue' \in QueueType
      /\ \A r \in Picos : r # q => queue'[r] = queue[r]
      /\ q \notin live => queue' = queue
      /\ q \in live => Grown(queue[q], queue'[q], {m})
  BY <1>1, PutFacts
<1>3. CASE q \notin live
  BY <1>2, <1>3, QuietQueue
<1>4. CASE q \in live
  <2>1. /\ Msgs(queue'[q]) = Msgs(queue[q]) \cup {m} /\ Once(queue'[q])
        /\ queue[q] # <<>> => queue'[q] # <<>> /\ Head(queue'[q]) = Head(queue[q])
    BY <1>1, <1>2, <1>4 DEF Grown, NoQuestion
  <2>2. \A r \in Picos : parent[r] # p => queue'[r] = queue[r]
    BY <1>2
  <2>3. \A r \in live : r = q \/ queue'[r] = queue[r]
    BY <1>1, <1>2
  <2>4. \A r \in live : Once(queue'[r])
    BY <1>1, <2>1, <2>3
  <2>5. \A r \in live : \A n \in Msgs(queue'[r]) : n \in Msgs(queue[r]) \/ (r = q /\ n = m)
    BY <2>1, <2>3
  <2> QED BY <1>2, <2>1, <2>2, <2>3, <2>4, <2>5 DEF OwnQueue
<1> QED BY <1>2, <1>3, <1>4

\* p, which did not wait, asks q.
LEMMA AskQueue ==
  ASSUME FamilyInv, NEW p \in live, ~tx[p].waits, NEW q \in live,
         parent[q] = p \/ parent[p] = q, queue' = Put(queue, q, Message("ask", NoPico, p)),
         tx'[p].waits, tx'[p].step # "bootstrap", Asked(p)' = q
  PROVE  OwnQueue(p) /\ queue' \in QueueType
<1> DEFINE m == Message("ask", NoPico, p)
<1>1. /\ queue \in QueueType /\ p \in Picos /\ live \subseteq Picos
      /\ \A r \in live : Once(queue[r]) /\ r \in Picos
  BY Unpack
<1>2. m \in MessageType /\ m.from = p /\ m.name = "ask" /\ queue' = Put(queue, q, m)
  BY <1>1 DEF Message, MessageType
<1> HIDE DEF m
<1>3. \A r \in live : \A n \in Msgs(queue[r]) : IsQuestion(n) => n.from # p
  BY DEF FamilyInv, QuestionInv
<1>4. /\ queue' \in QueueType
      /\ \A r \in Picos : r # q => queue'[r] = queue[r]
      /\ Grown(queue[q], queue'[q], {m}) /\ Once(queue'[q])
  <2>1. /\ queue \in QueueType /\ live \subseteq Picos /\ m \in MessageType
        /\ Once(queue[q]) /\ \A n \in Msgs(queue[q]) : IsQuestion(n) => n.from # m.from
    BY <1>1, <1>2, <1>3
  <2>2. /\ Put(queue, q, m) \in QueueType
        /\ \A r \in Picos : r # q => Put(queue, q, m)[r] = queue[r]
        /\ Grown(queue[q], Put(queue, q, m)[q], {m}) /\ Once(Put(queue, q, m)[q])
    BY <2>1, PutFacts
  <2> QED BY <1>2, <2>2
<1>5. /\ Msgs(queue'[q]) = Msgs(queue[q]) \cup {m}
      /\ queue[q] # <<>> => queue'[q] # <<>> /\ Head(queue'[q]) = Head(queue[q])
  BY <1>4 DEF Grown
<1>6. \A r \in live : r = q \/ queue'[r] = queue[r]
  BY <1>1, <1>4
<1>7. \A r \in live : \A n \in Msgs(queue'[r]) : n \in Msgs(queue[r]) \/ (r = q /\ n = m)
  BY <1>5, <1>6
<1> QED BY <1>1, <1>2, <1>4, <1>5, <1>6, <1>7 DEF OwnQueue

\* What holds of a pico that is at a step, and of one that may begin.
LEMMA AtFacts ==
  ASSUME FamilyInv, NEW p \in Picos, NEW step, At(p, step), step # "idle"
  PROVE  /\ p \in live /\ ~tx[p].waits /\ tx[p].step = step /\ tx[p] # Idle
         /\ tx[p].of \in Picos \cup {NoPico} /\ tx[p].todo \in SUBSET Picos
         /\ \A a \in live : ~Making(a, p)
<1>1. p \in live /\ ~tx[p].waits /\ tx[p].step = step /\ tx[p] # Idle
  BY IdleTx DEF At
<1>2. tx[p] \in TxType
  BY DEF FamilyInv, FamilyTypeOK
<1> QED BY <1>1, <1>2, Busy DEF FamilyInv, TxType

LEMMA BeginsFacts ==
  ASSUME FamilyInv, NEW p \in Picos, NEW name, Begins(p, name)
  PROVE  /\ p \in live /\ tx[p] = Idle /\ ~tx[p].waits /\ tx[p].step = "idle" /\ queue[p] # <<>>
         /\ Head(queue[p]).name = name /\ Head(queue[p]) \in Msgs(queue[p])
         /\ Head(queue[p]) \in MessageType
         /\ name \notin {"setup", "pico_created", "box"} => \A a \in live : ~Making(a, p)
<1>1. p \in live /\ tx[p] = Idle /\ queue[p] # <<>> /\ Head(queue[p]).name = name
  BY DEF Begins
<1>2. Head(queue[p]) \in Msgs(queue[p]) /\ Head(queue[p]) \in MessageType
  BY <1>1, Unpack, PoppedFacts DEF Cut
<1>3. \A a \in live : Making(a, p) => name \in {"setup", "pico_created", "box"}
  BY <1>1, Busy DEF FamilyInv, Begins
<1> QED BY <1>1, <1>2, <1>3, IdleTx

\* What is left when p begins or ends asking, or takes an answer.
LEMMA QuietTypes ==
  ASSUME FamilyInv, NEW p \in live, NEW t \in TxType, tx' = [tx EXCEPT ![p] = t],
         queue' \in QueueType, known' \in [Picos -> SUBSET Picos], found' \subseteq Picos,
         parentUi' \subseteq Picos,
         UNCHANGED <<parent, live, uiChannel, placed, wrangler, told, leaving, cut, calls, crashes>>
  PROVE  FamilyTypeOK'
BY DEF FamilyInv, FamilyTypeOK, QueueType

\* The types, and that p works at its own transaction.
LEMMA OwnStart ==
  ASSUME FamilyInv, NEW p \in live, ~tx[p].waits, NEW t \in TxType, tx' = [tx EXCEPT ![p] = t],
         OwnQueue(p), queue' \in QueueType,
         NEW K \in SUBSET Picos, known' = [known EXCEPT ![p] = K],
         found' \subseteq Picos, parentUi' \subseteq Picos, parentUi \subseteq parentUi',
         UNCHANGED <<parent, live, uiChannel, placed, wrangler, told, leaving, cut, calls, crashes>>
  PROVE  FamilyTypeOK' /\ OwnWork(p) /\ tx'[p] = t /\ known'[p] = K
<1>1. p \in Picos /\ tx \in [Picos -> TxType] /\ known \in [Picos -> SUBSET Picos]
  BY DEF FamilyInv, FamilyTypeOK
<1>2. /\ tx'[p] = t /\ known'[p] = K /\ known' \in [Picos -> SUBSET Picos]
      /\ \A r \in Picos : r # p => tx'[r] = tx[r] /\ known'[r] = known[r]
  BY <1>1
<1>3. FamilyTypeOK'
  BY <1>2, QuietTypes
<1>4. OwnWork(p)
  BY <1>2 DEF OwnWork
<1> QED BY <1>2, <1>3, <1>4

LEMMA SameKnown ==
  ASSUME FamilyInv, known' = known, NEW p \in live
  PROVE  known[p] \in SUBSET Picos /\ known' = [known EXCEPT ![p] = known[p]]
BY DEF FamilyInv, FamilyTypeOK

\* What else the invariant says of p.
LEMMA OfPico ==
  ASSUME FamilyInv, NEW p \in live
  PROVE  /\ KnownOf(p) /\ PlacedOf(p) /\ Works(p) /\ p \in Picos
         /\ found \subseteq Picos /\ parentUi \subseteq Picos
         /\ Children(p) \subseteq Picos /\ FirstRoot \notin Children(p)
         /\ \A c \in Children(p) : c \in live /\ parent[c] = p
         /\ crashes \in Nat /\ (crashes = 0 => found = {}) /\ (crashes = 0 \/ crashes > 0)
         /\ tx[p] # Idle /\ p = FirstRoot => ~Starting
         /\ tx[p] = Idle /\ Head(queue[p]).name # "started" /\ p = FirstRoot => ~Starting
BY FamilyAssumption DEF FamilyInv, KnownInv, PlacedInv, WorkInv, FamilyTypeOK, Children, TreeInv,
   UiInv, Starting

LEMMA QuietStart ==
  ASSUME FamilyInv, NEW p \in live, ~tx[p].waits, NEW t \in TxType, tx' = [tx EXCEPT ![p] = t],
         OwnQueue(p), queue' \in QueueType,
         UNCHANGED <<parent, live, uiChannel, known, parentUi, placed, wrangler,
                     told, leaving, cut, found, calls, crashes>>
  PROVE  FamilyTypeOK' /\ OwnWork(p) /\ tx'[p] = t
<1>1. known[p] \in SUBSET Picos /\ known' = [known EXCEPT ![p] = known[p]]
  BY SameKnown
<1>2. found' \subseteq Picos /\ parentUi' \subseteq Picos
  BY OfPico
<1> QED BY <1>1, <1>2, OwnStart

-----------------------------------------------------------------------------
(* children() and the rules on engine:started.                              *)

LEMMA StepBeginChildren ==
  ASSUME FamilyInv, NEW p \in Picos, BeginChildren(p) PROVE FamilyInv'
<1> DEFINE D == Children(p)
           t == Running("children", NoPico, D)
<1>1. /\ p \in live /\ tx[p] = Idle /\ ~tx[p].waits /\ tx[p].step = "idle" /\ queue[p] # <<>>
      /\ Head(queue[p]).name = "children" /\ \A a \in live : ~Making(a, p)
  BY BeginsFacts DEF BeginChildren
<1>2. /\ queue' = Popped(p) /\ tx' = [tx EXCEPT ![p] = t]
      /\ UNCHANGED <<parent, live, uiChannel, known, parentUi, placed, wrangler,
                     told, leaving, cut, found, calls, crashes>>
  BY DEF BeginChildren, persisted, history
<1>3. /\ t \in TxType /\ t.step = "children" /\ t.of = NoPico /\ t.todo = D /\ ~t.waits
  <2>1. D \subseteq Picos
    BY <1>1, OfPico
  <2> HIDE DEF D
  <2> QED BY <2>1, RunningTx
<1> HIDE DEF t
<1>4. FamilyTypeOK' /\ OwnWork(p) /\ tx'[p] = t
  <2>1. OwnQueue(p) /\ queue' \in QueueType
    BY <1>1, <1>2, PopQueue
  <2> QED BY <1>1, <1>2, <1>3, <2>1, QuietStart
<1>5. Apart(tx[p]) /\ Apart(tx'[p]) /\ Works(p)'
  BY <1>1, <1>2, <1>3, <1>4 DEF Apart, Works, WaitsDown, Left, Children
<1>6. KnownOf(p)'
  BY <1>1, <1>2, <1>3, <1>4, <1>5, OfPico
     DEF KnownOf, Sound, Repairing, Making, Apart, Children
<1>7. PlacedOf(p)'
  BY <1>1, <1>2, <1>3, <1>4, OfPico
     DEF PlacedOf, Sound, Repairing, Waits, OwnWork, OwnQueue, Children
<1> QED BY <1>1, <1>2, <1>3, <1>4, <1>5, <1>6, <1>7, OfPico, QuietStep

LEMMA StepBeginStarted ==
  ASSUME FamilyInv, NEW p \in Picos, BeginStarted(p) PROVE FamilyInv'
<1> DEFINE D == Children(p) \cap known[p]
           t == Running("spread", NoPico, D)
<1>1. /\ p \in live /\ tx[p] = Idle /\ ~tx[p].waits /\ tx[p].step = "idle" /\ queue[p] # <<>>
      /\ Head(queue[p]).name = "started" /\ \A a \in live : ~Making(a, p)
  BY BeginsFacts DEF BeginStarted
<1>2. /\ queue' = Popped(p) /\ tx' = [tx EXCEPT ![p] = t]
      /\ UNCHANGED <<parent, live, uiChannel, known, parentUi, placed, wrangler,
                     told, leaving, cut, found, calls, crashes>>
  BY DEF BeginStarted, persisted, history
<1>3. /\ D \subseteq Picos /\ D \subseteq Children(p)
      /\ \A c \in Children(p) : c \in known[p] => c \in D
  BY <1>1, OfPico
<1> HIDE DEF D
<1>4. t \in TxType /\ t.step = "spread" /\ t.of = NoPico /\ t.todo = D /\ ~t.waits
  BY <1>3, RunningTx
<1> HIDE DEF t
<1>5. FamilyTypeOK' /\ OwnWork(p) /\ tx'[p] = t
  <2>1. OwnQueue(p) /\ queue' \in QueueType
    BY <1>1, <1>2, PopQueue
  <2> QED BY <1>1, <1>2, <1>4, <2>1, QuietStart
<1>6. Apart(tx[p]) /\ Apart(tx'[p]) /\ Works(p)' /\ Left(p)' = D
  BY <1>1, <1>2, <1>3, <1>4, <1>5 DEF Apart, Works, WaitsDown, Left, Children
<1>7. KnownOf(p)'
  BY <1>1, <1>2, <1>4, <1>5, <1>6, OfPico
     DEF KnownOf, Sound, Repairing, Starting, Making, Apart, Children
<1>8. PlacedOf(p)'
  BY <1>1, <1>2, <1>3, <1>4, <1>5, <1>6, OfPico
     DEF PlacedOf, Sound, Repairing, Waits, OwnWork, OwnQueue, Children
<1> QED BY <1>1, <1>2, <1>4, <1>5, <1>6, <1>7, <1>8, OfPico, QuietStep

LEMMA StepEndChildren ==
  ASSUME FamilyInv, NEW p \in Picos, EndChildren(p) PROVE FamilyInv'
<1>1. /\ p \in live /\ ~tx[p].waits /\ tx[p].step = "children" /\ tx[p] # Idle
      /\ \A a \in live : ~Making(a, p)
  BY AtFacts DEF EndChildren
<1>2. /\ queue' = queue /\ tx' = [tx EXCEPT ![p] = Idle]
      /\ UNCHANGED <<parent, live, uiChannel, known, parentUi, placed, wrangler,
                     told, leaving, cut, found, calls, crashes>>
  BY DEF EndChildren, persisted, history
<1>3. FamilyTypeOK' /\ OwnWork(p) /\ tx'[p] = Idle
  BY <1>1, <1>2, IdleTx, QuietQueue, Unpack, QuietStart
<1>4. Apart(tx[p]) /\ Apart(tx'[p]) /\ Works(p)'
  BY <1>1, <1>2, <1>3, IdleTx DEF Apart, Works, WaitsDown
<1>5. KnownOf(p)'
  BY <1>1, <1>2, <1>3, <1>4, OfPico DEF KnownOf, Sound, Repairing, Making, Apart, Children
<1>6. PlacedOf(p)'
  BY <1>1, <1>2, <1>3, OfPico DEF PlacedOf, Sound, Repairing, Waits, Children
<1> QED BY <1>1, <1>2, <1>3, <1>4, <1>5, <1>6, IdleTx, OfPico, QuietStep

\* Before any crash every child of a pico that is not making one has its UI channel,
\* and is known.
LEMMA AllKnown ==
  ASSUME FamilyInv, NEW p \in live, crashes = 0, Apart(tx[p]), tx[p].step # "backfill"
  PROVE  Children(p) \subseteq known[p] \cap uiChannel
<1> SUFFICES ASSUME NEW c \in Children(p) PROVE c \in known[p] /\ c \in uiChannel
  OBVIOUS
<1>1. c \in live /\ c # FirstRoot /\ parent[c] = p
  BY OfPico
<1>2. c \in uiChannel
  BY <1>1 DEF FamilyInv, UiInv, Booting, Apart
<1> QED BY <1>1, <1>2, OfPico DEF KnownOf, Sound, Repairing, Starting, Making, Apart

LEMMA StepBeginBackfill ==
  ASSUME FamilyInv, NEW p \in Picos, BeginBackfill(p) PROVE FamilyInv'
<1> DEFINE D == Children(p) \ known[p]
           t == Running("backfill", NoPico, D)
<1>1. /\ p \in live /\ ~tx[p].waits /\ tx[p].step = "spread" /\ tx[p] # Idle
      /\ \A a \in live : ~Making(a, p)
      /\ tx[p].of = NoPico /\ tx[p].todo = {}
  BY AtFacts DEF BeginBackfill
<1>2. /\ queue' = queue /\ tx' = [tx EXCEPT ![p] = t]
      /\ UNCHANGED <<parent, live, uiChannel, known, parentUi, placed, wrangler,
                     told, leaving, cut, found, calls, crashes>>
  BY DEF BeginBackfill, persisted, history
<1>3. /\ D \subseteq Picos /\ D \subseteq Children(p)
      /\ \A c \in Children(p) : c \in known[p] \/ c \in D
  BY <1>1, OfPico
<1>4. crashes = 0 => D = {}
  BY <1>1, AllKnown DEF Apart
<1> HIDE DEF D
<1>5. t \in TxType /\ t.step = "backfill" /\ t.of = NoPico /\ t.todo = D /\ ~t.waits
  BY <1>3, RunningTx
<1> HIDE DEF t
<1>6. FamilyTypeOK' /\ OwnWork(p) /\ tx'[p] = t
  BY <1>1, <1>2, <1>5, QuietQueue, Unpack, QuietStart
<1>7. Apart(tx[p]) /\ Apart(tx'[p]) /\ Works(p)' /\ Left(p)' = D /\ Left(p) = {}
  BY <1>1, <1>2, <1>3, <1>5, <1>6 DEF Apart, Works, WaitsDown, Left, Children
<1>8. KnownOf(p)'
  <2>1. Children(p)' = Children(p) /\ \A c : ~Making(p, c)
    BY <1>2, <1>7 DEF Children, Making, Apart
  <2>2. Repairing(p, {"spread", "backfill"}) => Repairing(p, {"spread", "backfill"})'
    BY <1>1, <1>2, <1>5, <1>6, OfPico DEF Repairing
  <2>3. \A c \in Children(p) \cap uiChannel : Sound(p) =>
          c \in known[p] \/ (p = FirstRoot /\ c \in Left(p)')
    BY <1>1, <1>3, <1>4, <1>7, OfPico DEF Sound
  <2> QED BY <1>1, <1>2, <1>5, <1>6, <2>1, <2>2, <2>3, OfPico DEF KnownOf, Sound
<1>9. PlacedOf(p)'
  BY <1>1, <1>2, <1>6, <1>7, OfPico DEF PlacedOf, Sound, Repairing, Waits, Children
<1> QED BY <1>1, <1>2, <1>4, <1>6, <1>7, <1>8, <1>9, OfPico, QuietStep

LEMMA MessageFacts ==
  ASSUME NEW name \in {"new_child_request", "child_deletion_request", "del", "children", "started",
                       "ready_for_deletion", "setup", "pico_created", "box", "layout",
                       "ask"},
         NEW of \in Picos \cup {NoPico}, NEW from \in Picos \cup {NoPico}
  PROVE  /\ Message(name, of, from) \in MessageType /\ Message(name, of, from).name = name
         /\ Message(name, of, from).of = of /\ Message(name, of, from).from = from
BY DEF Message, MessageType

\* A pico that works, and of which more than types is said, has its UI channel.
LEMMA HasUi ==
  ASSUME FamilyInv, NEW p \in live, \A a \in live : ~Making(a, p)
  PROVE  /\ UiOf(p) \in Picos \cup {NoPico}
         /\ Sound(p) => UiOf(p) = p /\ p \in uiChannel
<1>1. Sound(p) => p \in uiChannel
  <2>1. CASE p = FirstRoot
    BY <2>1 DEF FamilyInv, UiInv
  <2>2. CASE p # FirstRoot /\ crashes = 0
    BY <2>2, Unpack DEF FamilyInv, UiInv, Booting, Making
  <2> QED BY <2>1, <2>2 DEF Sound
<1> QED BY <1>1, OfPico DEF UiOf

LEMMA StepAskChild ==
  ASSUME FamilyInv, NEW p \in Picos, AskChild(p) PROVE FamilyInv'
<1>1. PICK step \in {"children", "spread", "backfill"} :
        /\ At(p, step) /\ tx[p].of = NoPico
        /\ \E c \in tx[p].todo :
             /\ queue' = Put(queue, c, Message("ask", NoPico, p))
             /\ tx' = [tx EXCEPT ![p] = Waiting(step, c, tx[p].todo \ {c})]
  BY DEF AskChild
<1>2. PICK c \in tx[p].todo :
        /\ queue' = Put(queue, c, Message("ask", NoPico, p))
        /\ tx' = [tx EXCEPT ![p] = Waiting(step, c, tx[p].todo \ {c})]
  BY <1>1
<1>3. UNCHANGED <<parent, live, uiChannel, known, parentUi, placed, wrangler,
                  told, leaving, cut, found, calls, crashes>>
  BY DEF AskChild, persisted, history
<1>4. /\ p \in live /\ ~tx[p].waits /\ tx[p].step = step /\ tx[p] # Idle
      /\ tx[p].todo \in SUBSET Picos /\ \A a \in live : ~Making(a, p)
  BY <1>1, AtFacts
<1>5. /\ Left(p) = tx[p].todo /\ Left(p) \subseteq Children(p)
      /\ c \in live /\ c \in Picos /\ parent[c] = p /\ c # NoPico
  BY <1>1, <1>4, OfPico, FamilyAssumption DEF Left, Works
<1> DEFINE D == tx[p].todo \ {c}
           t == Waiting(step, c, D)
<1>6. D \subseteq Picos /\ D \cup {c} = Left(p)
  BY <1>4, <1>5
<1>7. tx' = [tx EXCEPT ![p] = t]
  BY <1>2
<1> HIDE DEF D
<1>8. t \in TxType /\ t.step = step /\ t.of = c /\ t.todo = D /\ t.waits
  BY <1>5, <1>6, RunningTx
<1> HIDE DEF t
<1>9. tx'[p] = t
  BY <1>7, <1>8, SetTx, Unpack
<1>10. OwnQueue(p) /\ queue' \in QueueType
  BY <1>2, <1>4, <1>5, <1>8, <1>9, AskQueue DEF Asked
<1>11. FamilyTypeOK' /\ OwnWork(p)
  BY <1>3, <1>4, <1>7, <1>8, <1>10, QuietStart
<1>12. /\ Apart(tx[p]) /\ Apart(tx'[p]) /\ Left(p)' = Left(p) /\ Children(p)' = Children(p)
       /\ tx'[p].step = tx[p].step
  BY <1>3, <1>4, <1>5, <1>6, <1>8, <1>9, FamilyAssumption DEF Apart, Left, Children
<1>13. Works(p)'
  <2>1. tx'[p].of = c /\ c \in Children(p)
    BY <1>5, <1>8, <1>9 DEF Children
  <2> QED BY <2>1, <1>4, <1>5, <1>12 DEF Works, WaitsDown
<1>14. KnownOf(p)'
  BY <1>3, <1>4, <1>12, OfPico DEF KnownOf, Sound, Repairing, Making, Apart
<1>15. PlacedOf(p)'
  <2>1. \A d \in Children(p) : Waits(d, "layout") => Waits(d, "layout")'
    BY <1>11, OfPico DEF OwnWork, OwnQueue, Waits
  <2> QED BY <2>1, <1>3, <1>4, <1>12, OfPico DEF PlacedOf, Sound, Repairing
<1>16. crashes = 0 /\ tx'[p].step = "backfill" => Left(p)' = {}
  BY <1>4, <1>12 DEF FamilyInv, UiInv
<1> QED BY <1>3, <1>4, <1>11, <1>12, <1>13, <1>14, <1>15, <1>16, OfPico, QuietStep

\* The step in terms of the child that answered.
LEMMA UseAnswerEffect ==
  ASSUME FamilyInv, NEW p \in Picos, UseAnswer(p)
  PROVE  \E c \in Children(p), t \in TxType, K \in SUBSET Picos :
           /\ p \in live /\ ~tx[p].waits /\ tx[p] # Idle /\ \A a \in live : ~Making(a, p)
           /\ tx[p].step \in {"children", "spread", "backfill"} /\ tx[p].of = c
           /\ t.step = tx[p].step /\ t.of = NoPico /\ t.todo = tx[p].todo /\ ~t.waits
           /\ tx' = [tx EXCEPT ![p] = t]
           /\ known' = [known EXCEPT ![p] = K]
           /\ K = known[p] \cup {d \in {c} : tx[p].step = "backfill" /\ c \in uiChannel}
           /\ found' = found \cup {d \in {c} : tx[p].step = "backfill"}
           /\ queue' = IF tx[p].step = "spread" /\ c \notin placed
                         THEN Put(queue, c, Message("layout", NoPico, UiOf(p)))
                         ELSE queue
           /\ UNCHANGED <<parent, live, uiChannel, parentUi, placed, wrangler,
                          told, leaving, cut, calls, crashes>>
<1>1. PICK step \in {"children", "spread", "backfill"} :
        /\ At(p, step) /\ tx[p].of # NoPico
        /\ LET c == tx[p].of
           IN  /\ queue' = IF step = "spread" /\ c \notin placed
                             THEN Put(queue, c, Message("layout", NoPico, UiOf(p)))
                             ELSE queue
               /\ known' = IF step = "backfill" /\ c \in uiChannel
                             THEN [known EXCEPT ![p] = @ \cup {c}]
                             ELSE known
               /\ found' = IF step = "backfill" THEN found \cup {c} ELSE found
        /\ tx' = [tx EXCEPT ![p].of = NoPico]
        /\ UNCHANGED <<parent, live, uiChannel, parentUi, placed, wrangler,
                       told, leaving, cut, calls, crashes>>
  BY DEF UseAnswer
<1> DEFINE c == tx[p].of
           t == [tx[p] EXCEPT !.of = NoPico]
           K == known[p] \cup {d \in {c} : step = "backfill" /\ c \in uiChannel}
<1>2. /\ p \in live /\ ~tx[p].waits /\ tx[p].step = step /\ tx[p] # Idle
      /\ \A a \in live : ~Making(a, p) /\ c \in Picos
  BY <1>1, AtFacts
<1>3. c \in Children(p)
  BY <1>1, <1>2, OfPico DEF Works, Left
<1>4. tx[p] \in TxType /\ known \in [Picos -> SUBSET Picos]
  BY DEF FamilyInv, FamilyTypeOK
<1>5. /\ t \in TxType /\ t.step = tx[p].step /\ t.of = NoPico /\ t.todo = tx[p].todo
      /\ ~t.waits /\ tx' = [tx EXCEPT ![p] = t]
  BY <1>1, <1>2, <1>4 DEF TxType
<1>6. K \in SUBSET Picos /\ known' = [known EXCEPT ![p] = K]
  <2>1. CASE step = "backfill" /\ c \in uiChannel
    BY <1>1, <1>2, <1>4, <2>1
  <2>2. CASE ~(step = "backfill" /\ c \in uiChannel)
    BY <1>1, <1>2, <1>4, <2>2
  <2> QED BY <2>1, <2>2
<1>7. found' = found \cup {d \in {c} : step = "backfill"}
  BY <1>1
<1>8. queue' = IF tx[p].step = "spread" /\ c \notin placed
                 THEN Put(queue, c, Message("layout", NoPico, UiOf(p)))
                 ELSE queue
  BY <1>1, <1>2
<1> HIDE DEF t, K
<1>9. K = known[p] \cup {d \in {c} : tx[p].step = "backfill" /\ c \in uiChannel}
  BY <1>2 DEF K
<1>10. /\ tx[p].step \in {"children", "spread", "backfill"}
       /\ found' = found \cup {d \in {c} : tx[p].step = "backfill"}
       /\ UNCHANGED <<parent, live, uiChannel, parentUi, placed, wrangler,
                      told, leaving, cut, calls, crashes>>
  BY <1>1, <1>2, <1>7
<1> HIDE DEF c
<1>11. tx[p].of = c
  BY DEF c
<1> QED BY <1>2, <1>3, <1>5, <1>6, <1>8, <1>9, <1>10, <1>11

LEMMA StepUseAnswer ==
  ASSUME FamilyInv, NEW p \in Picos, UseAnswer(p) PROVE FamilyInv'
<1>1. PICK c \in Children(p), t \in TxType, K \in SUBSET Picos :
           /\ p \in live /\ ~tx[p].waits /\ tx[p] # Idle /\ \A a \in live : ~Making(a, p)
           /\ tx[p].step \in {"children", "spread", "backfill"} /\ tx[p].of = c
           /\ t.step = tx[p].step /\ t.of = NoPico /\ t.todo = tx[p].todo /\ ~t.waits
           /\ tx' = [tx EXCEPT ![p] = t]
           /\ known' = [known EXCEPT ![p] = K]
           /\ K = known[p] \cup {d \in {c} : tx[p].step = "backfill" /\ c \in uiChannel}
           /\ found' = found \cup {d \in {c} : tx[p].step = "backfill"}
           /\ queue' = IF tx[p].step = "spread" /\ c \notin placed
                         THEN Put(queue, c, Message("layout", NoPico, UiOf(p)))
                         ELSE queue
           /\ UNCHANGED <<parent, live, uiChannel, parentUi, placed, wrangler,
                          told, leaving, cut, calls, crashes>>
  BY UseAnswerEffect
<1>2. c \in live /\ c \in Picos /\ parent[c] = p /\ c # NoPico
  BY <1>1, OfPico, FamilyAssumption
<1> DEFINE m == Message("layout", NoPico, UiOf(p))
<1>3. /\ m \in MessageType /\ m.name = "layout" /\ (Sound(p) => m.from = p)
  BY <1>1, HasUi, MessageFacts
<1>4. /\ OwnQueue(p) /\ queue' \in QueueType
      /\ tx[p].step = "spread" /\ c \notin placed => Waits(c, "layout")'
  <2>1. CASE tx[p].step = "spread" /\ c \notin placed
    <3>1. queue' = Put(queue, c, m)
      BY <1>1, <2>1
    <3> HIDE DEF m
    <3>2. OwnQueue(p) /\ queue' \in QueueType /\ m \in Msgs(queue'[c])
      BY <1>1, <1>2, <1>3, <3>1, PushQueue DEF IsQuestion
    <3> QED BY <3>2, <1>3 DEF Waits
  <2>2. CASE ~(tx[p].step = "spread" /\ c \notin placed)
    BY <1>1, <2>2, QuietQueue, Unpack
  <2> QED BY <2>1, <2>2
<1> HIDE DEF m
<1>5. found' \subseteq Picos /\ parentUi' \subseteq Picos /\ found \subseteq found'
      /\ (crashes = 0 => found' = {})
  <2>1. crashes = 0 => tx[p].step # "backfill"
    BY <1>1, <1>2 DEF FamilyInv, UiInv, Left
  <2> QED BY <2>1, <1>1, <1>2, OfPico
<1>6. FamilyTypeOK' /\ OwnWork(p) /\ tx'[p] = t /\ known'[p] = K
  <2>1. /\ ~tx[p].waits /\ tx' = [tx EXCEPT ![p] = t] /\ known' = [known EXCEPT ![p] = K]
        /\ UNCHANGED <<parent, live, uiChannel, placed, wrangler, told, leaving, cut, calls,
                       crashes>>
        /\ parentUi \subseteq parentUi' /\ p \in live
    BY <1>1
  <2> QED BY <2>1, <1>4, <1>5, OwnStart
<1>7. /\ Apart(tx[p]) /\ Apart(tx'[p]) /\ Left(p) = Left(p)' \cup {c} /\ Left(p)' \subseteq Left(p)
      /\ Children(p)' = Children(p) /\ tx'[p].step = tx[p].step
  BY <1>1, <1>2, <1>6, FamilyAssumption DEF Apart, Left, Children
<1>8. Works(p)'
  BY <1>1, <1>6, <1>7, OfPico DEF Works, WaitsDown
<1>9. KnownOf(p)'
  <2>1. \A d \in K : d \in known[p] \/ (d = c /\ c \in uiChannel)
    BY <1>1
  <2>2. \A d \in known[p] : d \in K
    BY <1>1
  <2>3. tx[p].step = "backfill" /\ c \in uiChannel => c \in K
    BY <1>1
  <2>4. \A d : ~Making(p, d)
    BY <1>7 DEF Making, Apart
  <2> QED BY <1>1, <1>2, <1>6, <1>7, <2>1, <2>2, <2>3, <2>4, OfPico DEF KnownOf, Sound, Repairing
<1>10. PlacedOf(p)'
  <2>1. \A d \in Children(p) : Waits(d, "layout") => Waits(d, "layout")'
    BY <1>6, OfPico DEF OwnWork, OwnQueue, Waits
  <2>2. \A d \in K \ found' : d \in known[p] \ found
    BY <1>1
  <2> QED BY <2>1, <2>2, <1>1, <1>4, <1>6, <1>7, OfPico DEF PlacedOf, Sound, Repairing
<1>11. crashes = 0 /\ tx'[p].step = "backfill" => Left(p)' = {}
  BY <1>1, <1>7 DEF FamilyInv, UiInv
<1> QED BY <1>1, <1>5, <1>6, <1>7, <1>8, <1>9, <1>10, <1>11, OfPico, QuietStep

LEMMA StepPruneStale ==
  ASSUME FamilyInv, NEW p \in Picos, PruneStale(p) PROVE FamilyInv'
<1> DEFINE K == known[p] \cap Children(p)
<1>1. /\ p \in live /\ ~tx[p].waits /\ tx[p].step = "backfill" /\ tx[p] # Idle
      /\ \A a \in live : ~Making(a, p)
      /\ tx[p].of = NoPico /\ tx[p].todo = {}
  BY AtFacts DEF PruneStale
<1>2. /\ known' = [known EXCEPT ![p] = K]
      /\ IF AsksParent(p)
           THEN /\ queue' = Put(queue, parent[p], Message("ask", NoPico, p))
                /\ tx' = [tx EXCEPT ![p] = Waiting("parent", NoPico, {})]
           ELSE /\ tx' = [tx EXCEPT ![p] = Idle]
                /\ UNCHANGED queue
      /\ UNCHANGED <<parent, live, uiChannel, parentUi, placed, wrangler,
                     told, leaving, cut, found, calls, crashes>>
  BY DEF PruneStale, history
<1>3. K \in SUBSET Picos
  BY <1>1, OfPico
<1>4. PICK t \in TxType : /\ tx' = [tx EXCEPT ![p] = t] /\ t.step \in {"idle", "parent"}
                          /\ t.step = "idle" => t = Idle
                          /\ AsksParent(p) => t.waits /\ t.step = "parent"
                          /\ ~AsksParent(p) => queue' = queue
  <2>1. CASE AsksParent(p)
    <3> DEFINE u == Waiting("parent", NoPico, {})
    <3>1. u \in TxType /\ u.step = "parent" /\ u.waits
      BY RunningTx
    <3>2. tx' = [tx EXCEPT ![p] = u]
      BY <1>2, <2>1
    <3> HIDE DEF u
    <3> QED BY <3>1, <3>2, <2>1
  <2>2. CASE ~AsksParent(p)
    BY <1>2, <2>2, IdleTx
  <2> QED BY <2>1, <2>2
<1>5. tx'[p] = t
  BY <1>4, SetTx, Unpack
<1>6. OwnQueue(p) /\ queue' \in QueueType
  <2>1. CASE AsksParent(p)
    <3>1. parent[p] \in live /\ parent' = parent
      BY <1>1, <1>2, <2>1, Unpack DEF AsksParent, FamilyInv, TreeInv
    <3>2. Asked(p)' = parent[p]
      BY <1>4, <1>5, <2>1, <3>1 DEF Asked
    <3>3. tx'[p].waits /\ tx'[p].step # "bootstrap"
      BY <1>4, <1>5, <2>1
    <3>4. queue' = Put(queue, parent[p], Message("ask", NoPico, p))
      BY <1>2, <2>1
    <3> QED BY <1>1, <3>1, <3>2, <3>3, <3>4, AskQueue
  <2>2. CASE ~AsksParent(p)
    BY <1>1, <1>4, <2>2, QuietQueue, Unpack
  <2> QED BY <2>1, <2>2
<1> HIDE DEF K
<1>7. FamilyTypeOK' /\ OwnWork(p) /\ known'[p] = K
  <2>1. /\ found' \subseteq Picos /\ parentUi' \subseteq Picos /\ parentUi \subseteq parentUi'
        /\ UNCHANGED <<parent, live, uiChannel, placed, wrangler, told, leaving, cut, calls,
                       crashes>>
    BY <1>1, <1>2, OfPico
  <2>2. /\ ~tx[p].waits /\ tx' = [tx EXCEPT ![p] = t] /\ known' = [known EXCEPT ![p] = K]
    BY <1>1, <1>2, <1>4
  <2> QED BY <1>1, <1>3, <1>6, <2>1, <2>2, OwnStart
<1>8. /\ Apart(tx[p]) /\ Apart(tx'[p]) /\ Left(p) = {} /\ Children(p)' = Children(p)
      /\ tx'[p].step # "backfill" /\ Works(p)'
  BY <1>1, <1>2, <1>4, <1>5, IdleTx DEF Apart, Left, Children, Works, WaitsDown
<1>9. KnownOf(p)'
  <2>1. \A d \in K : d \in known[p] /\ d \in live
    BY <1>1, OfPico DEF K
  <2>2. \A d \in Children(p) : d \in known[p] => d \in K
    BY DEF K
  <2>3. \A d : ~Making(p, d)
    BY <1>8 DEF Making, Apart
  <2> QED BY <1>1, <1>2, <1>7, <1>8, <2>1, <2>2, <2>3, OfPico DEF KnownOf, Sound, Repairing
<1>10. PlacedOf(p)'
  <2>1. \A d \in Children(p) : Waits(d, "layout") => Waits(d, "layout")'
    BY <1>7, OfPico DEF OwnWork, OwnQueue, Waits
  <2>2. \A d \in K : d \in known[p]
    BY DEF K
  <2> QED BY <1>1, <1>2, <1>7, <1>8, <2>1, <2>2, OfPico DEF PlacedOf, Sound, Repairing
<1> QED BY <1>1, <1>2, <1>7, <1>8, <1>9, <1>10, OfPico, QuietStep

LEMMA StepLearnParentUi ==
  ASSUME FamilyInv, NEW p \in Picos, LearnParentUi(p) PROVE FamilyInv'
<1>1. /\ p \in live /\ ~tx[p].waits /\ tx[p].step = "parent" /\ tx[p] # Idle
      /\ \A a \in live : ~Making(a, p)
  BY AtFacts DEF LearnParentUi
<1>2. /\ queue' = queue /\ tx' = [tx EXCEPT ![p] = Idle]
      /\ parentUi' = IF parent[p] \in uiChannel THEN parentUi \cup {p} ELSE parentUi
      /\ UNCHANGED <<parent, live, uiChannel, known, placed, wrangler,
                     told, leaving, cut, found, calls, crashes>>
  BY DEF LearnParentUi, history
<1>3. FamilyTypeOK' /\ OwnWork(p) /\ tx'[p] = Idle
  <2>1. /\ found' \subseteq Picos /\ parentUi' \subseteq Picos /\ parentUi \subseteq parentUi'
        /\ OwnQueue(p) /\ queue' \in QueueType /\ Idle \in TxType
    BY <1>1, <1>2, OfPico, QuietQueue, Unpack, IdleTx
  <2>2. known[p] \in SUBSET Picos /\ known' = [known EXCEPT ![p] = known[p]]
    BY <1>1, <1>2, SameKnown
  <2> QED BY <1>1, <1>2, <2>1, <2>2, OwnStart
<1>4. Apart(tx[p]) /\ Apart(tx'[p]) /\ Works(p)'
  BY <1>1, <1>2, <1>3, IdleTx DEF Apart, Works, WaitsDown
<1>5. KnownOf(p)'
  BY <1>1, <1>2, <1>3, <1>4, OfPico DEF KnownOf, Sound, Repairing, Making, Apart, Children
<1>6. PlacedOf(p)'
  BY <1>1, <1>2, <1>3, OfPico DEF PlacedOf, Sound, Repairing, Waits, Children
<1> QED BY <1>1, <1>2, <1>3, <1>4, <1>5, <1>6, IdleTx, OfPico, QuietStep

-----------------------------------------------------------------------------
(* Making and forgetting a child.                                           *)

LEMMA StepForgetChild ==
  ASSUME FamilyInv, NEW p \in Picos, ForgetChild(p) PROVE FamilyInv'
<1> DEFINE K == known[p] \ {tx[p].of}
<1>1. /\ p \in live /\ ~tx[p].waits /\ tx[p].step = "forget" /\ tx[p] # Idle
      /\ \A a \in live : ~Making(a, p)
  BY AtFacts DEF ForgetChild
<1>2. /\ queue' = queue /\ tx' = [tx EXCEPT ![p] = Idle] /\ known' = [known EXCEPT ![p] = K]
      /\ UNCHANGED <<parent, live, uiChannel, parentUi, placed, wrangler,
                     told, leaving, cut, found, calls, crashes>>
  BY DEF ForgetChild, history
<1>3. K \in SUBSET Picos
  BY <1>1, SameKnown DEF FamilyInv, FamilyTypeOK
<1>4. tx[p].of \notin live
  BY <1>1, OfPico DEF Works
<1> HIDE DEF K
<1>5. FamilyTypeOK' /\ OwnWork(p) /\ tx'[p] = Idle /\ known'[p] = K
  <2>1. /\ found' \subseteq Picos /\ parentUi' \subseteq Picos /\ parentUi \subseteq parentUi'
        /\ OwnQueue(p) /\ queue' \in QueueType /\ Idle \in TxType
    BY <1>1, <1>2, OfPico, QuietQueue, Unpack, IdleTx
  <2> QED BY <1>1, <1>2, <1>3, <2>1, OwnStart
<1>6. Apart(tx[p]) /\ Apart(tx'[p]) /\ Works(p)' /\ Children(p)' = Children(p)
  BY <1>1, <1>2, <1>5, IdleTx DEF Apart, Works, WaitsDown, Children
<1>7. KnownOf(p)'
  <2>1. \A d \in K : d \in known[p] /\ d # tx[p].of
    BY DEF K
  <2>2. \A d \in Children(p) : d \in known[p] => d \in K
    BY <1>1, <1>4, OfPico DEF K
  <2>3. \A d : ~Making(p, d)
    BY <1>6 DEF Making, Apart
  <2> QED BY <1>1, <1>2, <1>5, <1>6, <2>1, <2>2, <2>3, OfPico DEF KnownOf, Sound, Repairing
<1>8. PlacedOf(p)'
  <2>1. \A d \in K : d \in known[p]
    BY DEF K
  <2> QED BY <1>1, <1>2, <1>5, <1>6, <2>1, OfPico DEF PlacedOf, Sound, Repairing, Waits
<1> QED BY <1>1, <1>2, <1>5, <1>6, <1>7, <1>8, IdleTx, OfPico, QuietStep

LEMMA StepRememberChild ==
  ASSUME FamilyInv, NEW p \in Picos, RememberChild(p) PROVE FamilyInv'
<1>0. PICK c : c = tx[p].of
  OBVIOUS
<1> DEFINE m == Message("layout", NoPico, UiOf(p))
           K == known[p] \cup {c}
<1>1. /\ p \in live /\ ~tx[p].waits /\ tx[p].step = "remember" /\ tx[p] # Idle
      /\ (\A a \in live : ~Making(a, p)) /\ tx[p].of \in Picos \cup {NoPico}
  BY AtFacts DEF RememberChild
<1>2. /\ queue' = Put(queue, c, m) /\ tx' = [tx EXCEPT ![p] = Idle]
      /\ known' = [known EXCEPT ![p] = K]
      /\ UNCHANGED <<parent, live, uiChannel, parentUi, placed, wrangler,
                     told, leaving, cut, found, calls, crashes>>
  BY <1>0 DEF RememberChild, history
<1>3. /\ c \in Picos /\ Making(p, c) /\ c \in live /\ parent[c] = p /\ c \in uiChannel
      /\ ~Booting(p, c) /\ \A d : Making(p, d) => d = c
  <2>1. c \in Picos /\ Making(p, c) /\ \A d : Making(p, d) => d = c
    BY <1>0, <1>1, OfPico DEF Making, Works
  <2>2. Made(p, c)
    BY <1>1, <2>1 DEF FamilyInv, MakingInv
  <2> QED BY <1>1, <2>1, <2>2 DEF Made, Booting
<1>4. m \in MessageType /\ m.name = "layout" /\ (Sound(p) => m.from = p)
  <2>1. UiOf(p) \in Picos \cup {NoPico} /\ (Sound(p) => UiOf(p) = p)
    BY <1>1, HasUi
  <2> QED BY <1>1, <2>1 DEF Message, MessageType
<1>5. K \in SUBSET Picos
  BY <1>1, <1>3, SameKnown DEF FamilyInv, FamilyTypeOK
<1> HIDE DEF m
<1>6. OwnQueue(p) /\ queue' \in QueueType /\ Waits(c, "layout")'
  <2>1. OwnQueue(p) /\ queue' \in QueueType /\ m \in Msgs(queue'[c])
    BY <1>1, <1>2, <1>3, <1>4, PushQueue DEF IsQuestion
  <2> QED BY <2>1, <1>4 DEF Waits
<1> HIDE DEF K
<1>7. FamilyTypeOK' /\ OwnWork(p) /\ tx'[p] = Idle /\ known'[p] = K
  <2>1. /\ found' \subseteq Picos /\ parentUi' \subseteq Picos /\ parentUi \subseteq parentUi'
        /\ Idle \in TxType
    BY <1>1, <1>2, OfPico, IdleTx
  <2> QED BY <1>1, <1>2, <1>5, <1>6, <2>1, OwnStart
<1>8. /\ \A d : ~Making(p, d)' /\ ~Booting(p, d)
      /\ Works(p)' /\ Children(p)' = Children(p)
  BY <1>1, <1>2, <1>7, IdleTx DEF Making, Booting, Works, WaitsDown, Children
<1>9. KnownOf(p)'
  <2>1. \A d \in K : d \in known[p] \/ d = c
    BY DEF K
  <2>2. c \in K /\ \A d \in known[p] : d \in K
    BY DEF K
  <2> QED BY <1>1, <1>2, <1>3, <1>7, <1>8, <2>1, <2>2, OfPico DEF KnownOf, Sound, Repairing
<1>10. PlacedOf(p)'
  <2>1. \A d \in Children(p) : Waits(d, "layout") => Waits(d, "layout")'
    BY <1>1, <1>7, OfPico DEF OwnWork, OwnQueue, Waits
  <2>2. \A d \in K : d \in known[p] \/ d = c
    BY DEF K
  <2> QED BY <1>1, <1>2, <1>6, <1>7, <1>8, <2>1, <2>2, OfPico DEF PlacedOf, Sound, Repairing
<1> QED BY <1>1, <1>2, <1>7, <1>8, <1>9, <1>10, IdleTx, OfPico, OwnWorkStep

\* Both events of bootstrapNewChild reach an empty queue.
LEMMA BootQueue ==
  ASSUME FamilyInv, NEW p \in live, NEW c \in live, parent[c] = p, queue[c] = <<>>,
         NEW a \in MessageType, NEW b \in MessageType, a.name = "pico_created", b.name = "box",
         queue' = Put(Put(queue, c, a), c, b)
  PROVE  OwnQueue(p) /\ queue' \in QueueType /\ Msgs(queue'[c]) = {a, b}
<1>1. queue \in QueueType /\ p \in Picos /\ live \subseteq Picos /\ \A r \in live : Once(queue[r])
  BY Unpack
<1> DEFINE Q == Put(queue, c, a)
<1>2. /\ Q \in QueueType /\ Grown(queue[c], Q[c], {a})
      /\ \A r \in Picos : r # c => Q[r] = queue[r]
  BY <1>1, PutFacts
<1>3. queue' = Put(Q, c, b) /\ Q[c] \in Seq(MessageType)
  BY <1>1, <1>2 DEF QueueType
<1> HIDE DEF Q
<1>4. /\ queue' \in QueueType /\ Grown(Q[c], queue'[c], {b})
      /\ \A r \in Picos : r # c => queue'[r] = Q[r]
  <2>1. /\ Put(Q, c, b) \in QueueType /\ Grown(Q[c], Put(Q, c, b)[c], {b})
        /\ \A r \in Picos : r # c => Put(Q, c, b)[r] = Q[r]
    BY <1>1, <1>2, PutFacts
  <2> QED BY <1>3, <2>1
<1>5. NoQuestion({a}) /\ NoQuestion({b})
  BY DEF NoQuestion, IsQuestion
<1>6. Msgs(queue'[c]) = {a, b} /\ Once(queue'[c])
  BY <1>1, <1>2, <1>4, <1>5, SeqEmpty DEF Grown
<1>7. \A r \in Picos : r # c => queue'[r] = queue[r]
  BY <1>2, <1>4
<1>8. \A m \in Msgs(queue'[c]) : ~IsQuestion(m) /\ m.name # "layout"
  BY <1>6 DEF IsQuestion
<1>9. \A r \in live : r = c \/ queue'[r] = queue[r]
  BY <1>1, <1>7
<1>10. \A r \in live : Once(queue'[r])
  BY <1>1, <1>6, <1>9
<1>11. \A m \in Msgs(queue[c]) : FALSE
  BY SeqEmpty
<1> QED BY <1>4, <1>6, <1>7, <1>8, <1>9, <1>10, <1>11 DEF OwnQueue

LEMMA StepBootstrap ==
  ASSUME FamilyInv, NEW p \in Picos, Bootstrap(p) PROVE FamilyInv'
<1>0. PICK c : c = tx[p].of
  OBVIOUS
<1> DEFINE a == Message("pico_created", NoPico, p)
           b == Message("box", NoPico, UiOf(p))
           t == Running("remember", c, {})
<1>1. /\ p \in live /\ ~tx[p].waits /\ tx[p].step = "bootstrap" /\ tx[p] # Idle
      /\ (\A d \in live : ~Making(d, p)) /\ tx[p].of \in Picos \cup {NoPico}
  BY AtFacts DEF Bootstrap
<1>2. /\ queue' = Put(Put(queue, c, a), c, b) /\ tx' = [tx EXCEPT ![p] = t]
      /\ UNCHANGED <<parent, live, uiChannel, known, parentUi, placed, wrangler,
                     told, leaving, cut, found, calls, crashes>>
  BY <1>0 DEF Bootstrap, persisted, history
<1>3. /\ c \in Picos /\ Making(p, c) /\ Made(p, c) /\ \A d : Making(p, d) => d = c
  <2>1. c \in Picos /\ Making(p, c) /\ \A d : Making(p, d) => d = c
    BY <1>0, <1>1, OfPico DEF Making, Works
  <2> QED BY <1>1, <2>1 DEF FamilyInv, MakingInv
<1>4. /\ a \in MessageType /\ a.name = "pico_created" /\ b \in MessageType /\ b.name = "box"
  <2>1. UiOf(p) \in Picos \cup {NoPico}
    BY <1>1, HasUi
  <2> QED BY <1>1, <2>1 DEF Message, MessageType
<1>5. t \in TxType /\ t.step = "remember" /\ t.of = c /\ t.todo = {} /\ ~t.waits
  BY <1>3, RunningTx
<1> HIDE DEF a, b, t
<1>6. c \in live /\ parent[c] = p /\ queue[c] = <<>> /\ c \in uiChannel /\ tx[c] = Idle
  BY <1>1, <1>3 DEF Made
<1>7. OwnQueue(p) /\ queue' \in QueueType /\ Msgs(queue'[c]) = {a, b}
  BY <1>1, <1>2, <1>4, <1>6, BootQueue
<1>8. FamilyTypeOK' /\ OwnWork(p) /\ tx'[p] = t
  BY <1>1, <1>2, <1>5, <1>7, QuietStart
<1>9. \A d : Making(p, d)' <=> d = c
  BY <1>5, <1>8 DEF Making
<1>10. tx'[c] = tx[c] /\ Made(p, c)'
  <2>1. c # p
    BY <1>1, <1>6
  <2>2. tx'[c] = tx[c]
    BY <1>3, <1>8, <2>1 DEF OwnWork
  <2>3. \A m \in Msgs(queue'[c]) : m.name \in {"pico_created", "box"}
    BY <1>4, <1>7
  <2> QED BY <1>2, <1>3, <1>5, <1>6, <1>8, <2>2, <2>3 DEF Made
<1>11. /\ Works(p)' /\ Children(p)' = Children(p)
       /\ \A d : Booting(p, d) => Waits(d, "pico_created")'
  <2>1. \A d : Booting(p, d) => d = c
    BY <1>3 DEF Booting, Making
  <2>2. Waits(c, "pico_created")'
    BY <1>4, <1>7 DEF Waits
  <2> QED BY <1>2, <1>3, <1>5, <1>8, <2>1, <2>2 DEF Works, WaitsDown, Children
<1>12. KnownOf(p)'
  BY <1>1, <1>2, <1>3, <1>5, <1>8, <1>9, <1>11, OfPico DEF KnownOf, Sound, Repairing
<1>13. PlacedOf(p)'
  <2>1. \A d \in Children(p) : Waits(d, "layout") => Waits(d, "layout")'
    BY <1>1, <1>8, OfPico DEF OwnWork, OwnQueue, Waits
  <2> QED BY <1>1, <1>2, <1>5, <1>8, <1>11, <2>1, OfPico DEF PlacedOf, Sound, Repairing
<1> QED BY <1>1, <1>2, <1>5, <1>8, <1>9, <1>10, <1>11, <1>12, <1>13, OfPico, OwnWorkStep

-----------------------------------------------------------------------------
(* Transactions of one step.                                                *)

\* p takes the message h, and may send one that asks nothing to its parent.
HandledQueue(p, h) ==
  /\ queue[p] # <<>> /\ h = Head(queue[p]) /\ h \in Msgs(queue[p])
  /\ \A q \in Picos : q # p /\ q # parent[p] => queue'[q] = queue[q]
  /\ \A q \in live : q # p /\ queue[q] # <<>> =>
       queue'[q] # <<>> /\ Head(queue'[q]) = Head(queue[q])
  /\ \A q \in live : \A m \in Msgs(queue[q]) : m \in Msgs(queue'[q]) \/ (q = p /\ m = h)
  /\ \A q \in live : \A m \in Msgs(queue'[q]) :
       \/ m \in Msgs(queue[q])
       \/ q = parent[p] /\ q # p /\ ~IsQuestion(m) /\ m.name # "layout"
  /\ \A q \in live : Once(queue'[q])

\* p takes its first message, and may send one to its parent.
LEMMA PopHandled ==
  ASSUME FamilyInv, NEW p \in live, queue[p] # <<>>, queue' = Popped(p)
  PROVE  HandledQueue(p, Head(queue[p])) /\ queue' \in QueueType
<1>1. queue \in QueueType /\ p \in Picos /\ live \subseteq Picos /\ \A q \in live : Once(queue[q])
  BY Unpack
<1>2. /\ queue' \in QueueType
      /\ \A r \in Picos : r # p => queue'[r] = queue[r]
      /\ Cut(queue[p], queue'[p])
  BY <1>1, PoppedFacts
<1>3. \A q \in live : Once(queue'[q]) /\ (q # p => queue'[q] = queue[q])
  BY <1>1, <1>2 DEF Cut
<1>4. /\ Head(queue[p]) \in Msgs(queue[p])
      /\ \A m \in Msgs(queue[p]) : m \in Msgs(queue'[p]) \/ m = Head(queue[p])
      /\ \A m \in Msgs(queue'[p]) : m \in Msgs(queue[p])
  BY <1>2 DEF Cut
<1> QED BY <1>1, <1>2, <1>3, <1>4 DEF HandledQueue

LEMMA PopPutHandled ==
  ASSUME FamilyInv, NEW p \in live, queue[p] # <<>>, NEW m \in MessageType,
         ~IsQuestion(m), m.name # "layout", queue' = Put(Popped(p), parent[p], m)
  PROVE  /\ HandledQueue(p, Head(queue[p])) /\ queue' \in QueueType
         /\ p # FirstRoot => m \in Msgs(queue'[parent[p]])
<1>1. queue \in QueueType /\ p \in Picos /\ live \subseteq Picos /\ \A q \in live : Once(queue[q])
  BY Unpack
<1>2. parent[p] # p /\ (p # FirstRoot => parent[p] \in live)
  BY <1>1, Unpack DEF FamilyInv, TreeInv
<1> DEFINE Q == Popped(p)
<1>3. /\ Q \in QueueType
      /\ \A r \in Picos : r # p => Q[r] = queue[r]
      /\ Cut(queue[p], Q[p])
  BY <1>1, PoppedFacts
<1>4. queue' = Put(Q, parent[p], m)
  OBVIOUS
<1> HIDE DEF Q
<1>5. /\ Put(Q, parent[p], m) \in QueueType
      /\ \A r \in Picos : r # parent[p] => Put(Q, parent[p], m)[r] = Q[r]
      /\ parent[p] \notin live => Put(Q, parent[p], m) = Q
      /\ parent[p] \in live => Grown(Q[parent[p]], Put(Q, parent[p], m)[parent[p]], {m})
  <2>1. Q \in QueueType /\ live \subseteq Picos /\ m \in MessageType
    BY <1>1, <1>3
  <2> QED BY <2>1, PutFacts
<1>6. /\ queue' \in QueueType
      /\ \A r \in Picos : r # p /\ r # parent[p] => queue'[r] = queue[r]
      /\ queue'[p] = Q[p]
      /\ parent[p] \notin live => queue'[parent[p]] = Q[parent[p]]
      /\ parent[p] \in live => Grown(queue[parent[p]], queue'[parent[p]], {m})
  BY <1>1, <1>2, <1>3, <1>4, <1>5
<1>7. /\ Head(queue[p]) \in Msgs(queue[p])
      /\ \A n \in Msgs(queue[p]) : n \in Msgs(queue'[p]) \/ n = Head(queue[p])
      /\ \A n \in Msgs(queue'[p]) : n \in Msgs(queue[p])
      /\ Once(queue'[p])
  BY <1>1, <1>3, <1>6 DEF Cut
<1>8. parent[p] \in live =>
        LET q == parent[p] IN
        /\ Msgs(queue'[q]) = Msgs(queue[q]) \cup {m} /\ Once(queue'[q])
        /\ queue[q] # <<>> => queue'[q] # <<>> /\ Head(queue'[q]) = Head(queue[q])
  BY <1>1, <1>6 DEF Grown, NoQuestion
<1>9. \A q \in live : q = p \/ q = parent[p] \/ queue'[q] = queue[q]
  BY <1>1, <1>6
<1>10. \A q \in live : Once(queue'[q])
  BY <1>1, <1>7, <1>8, <1>9
<1>11. \A q \in live : \A n \in Msgs(queue[q]) :
         n \in Msgs(queue'[q]) \/ (q = p /\ n = Head(queue[p]))
  BY <1>7, <1>8, <1>9
<1>12. \A q \in live : \A n \in Msgs(queue'[q]) :
         n \in Msgs(queue[q]) \/ (q = parent[p] /\ q # p /\ n = m)
  BY <1>2, <1>7, <1>8, <1>9
<1>13. \A q \in live : q # p /\ queue[q] # <<>> =>
         queue'[q] # <<>> /\ Head(queue'[q]) = Head(queue[q])
  BY <1>8, <1>9
<1> QED BY <1>2, <1>6, <1>7, <1>8, <1>10, <1>11, <1>12, <1>13 DEF HandledQueue

LEMMA HandledMaking ==
  ASSUME FamilyInv, NEW p \in live, NEW h, HandledQueue(p, h), tx[p] = Idle, ~IsQuestion(h),
         tx' = tx, UNCHANGED <<parent, live, uiChannel, known>>
  PROVE  MakingInv'
<1>1. /\ p \in Picos /\ live \subseteq Picos /\ ~tx[p].waits /\ tx[p].step = "idle"
      /\ \A c : ~Making(p, c)'
  BY Unpack, IdleTx DEF Making
<1>2. ASSUME NEW a \in live, a # p, Making(a, p) PROVE Made(a, p)'
  <2>1. Made(a, p)
    BY <1>1, <1>2 DEF FamilyInv, MakingInv
  <2>2. tx[a].step = "remember"
    BY <1>2, <2>1 DEF Made, Making, HandledQueue, IsQuestion
  <2>3. \A m \in Msgs(queue'[p]) : m \in Msgs(queue[p])
    BY DEF HandledQueue
  <2> QED BY <2>1, <2>2, <2>3 DEF Made
<1>3. \A q \in Picos : q # p /\ parent[q] # p /\ parent[p] # q => queue'[q] = queue[q]
  BY DEF HandledQueue
<1> QED BY <1>1, <1>2, <1>3, MadeByOthers DEF FamilyInv

\* It is enough to look at what the message was about.
LEMMA HandledStep ==
  ASSUME FamilyInv, FamilyTypeOK', NEW p \in live, NEW h, HandledQueue(p, h),
         tx[p] = Idle, ~IsQuestion(h), h.name # "started",
         h.name = "child_deletion_request" => h.of \notin Children(p),
         UNCHANGED <<parent, live, uiChannel, known, tx, cut, found, crashes>>,
         placed \subseteq placed', placed' \subseteq placed \cup {p},
         parentUi \subseteq parentUi', told \subseteq told',
         h.name = "layout" => p \in placed',
         \A c \in placed' : c \in placed \/ c \in parentUi' \/ ~Sound(parent[c]) \/ c = FirstRoot,
         \A c \in Picos : wrangler[c] = "child" => wrangler'[c] = "child",
         h.name = "pico_created" /\ p # FirstRoot =>
           wrangler'[p] = "child" /\ \E m \in Msgs(queue'[parent[p]]) : Initialized(p, m),
         h.name = "child_initialized" => h.of \in told',
         \A c \in leaving' : c \in leaving \/
           (c = p /\ p # FirstRoot /\ \E m \in Msgs(queue'[parent[p]]) : AsksToGo(p, m))
  PROVE  FamilyInv'
<1>1. /\ p \in Picos /\ live \subseteq Picos /\ ~tx[p].waits /\ FirstRoot \in live
      /\ \A c \in live : c # FirstRoot => parent[c] \in live
  BY Unpack, IdleTx DEF FamilyInv, TreeInv
<1>2. TreeInv' /\ WorkInv' /\ UiInv'
  <2>1. TreeInv'
    BY <1>1, OwnTree DEF FamilyInv
  <2>2. WorkInv' /\ UiInv'
    BY <1>1 DEF FamilyInv, WorkInv, Works, WaitsDown, Left, Children, UiInv, Booting
  <2> QED BY <2>1, <2>2
<1>3. QuestionInv'
  BY <1>1, QuestionsKept DEF FamilyInv, HandledQueue
<1>4. MakingInv'
  BY HandledMaking
<1>5. Starting => Starting'
  BY <1>1 DEF Starting, HandledQueue
<1>6. KnownInv'
  BY <1>5 DEF FamilyInv, KnownInv, KnownOf, Sound, Repairing, Making, Left, Children
<1>7. /\ \A c \in live : Waits(c, "layout") => Waits(c, "layout")' \/ c \in placed'
      /\ \A c \in live : Waits(c, "pico_created") => Waits(c, "pico_created")' \/
           (c = p /\ h.name = "pico_created")
  BY DEF HandledQueue, Waits
<1>8. PlacedInv'
  <2> SUFFICES ASSUME NEW a \in live PROVE PlacedOf(a)'
    BY DEF PlacedInv
  <2>1. PlacedOf(a) /\ Children(a)' = Children(a) /\ \A c \in Children(a) : c \in live
    BY OfPico DEF Children
  <2> QED BY <1>5, <1>7, <2>1 DEF PlacedOf, Sound, Repairing, Left
<1>9. LayoutInv'
  <2> SUFFICES ASSUME NEW c \in live, c # FirstRoot, Sound(parent[c])
               PROVE  /\ c \in placed' => c \in parentUi'
                      /\ \A m \in Msgs(queue'[c]) : m.name = "layout" => m.from = parent[c]
    BY DEF LayoutInv, Sound
  <2>1. /\ c \in placed => c \in parentUi
        /\ \A m \in Msgs(queue[c]) : m.name = "layout" => m.from = parent[c]
    BY DEF FamilyInv, LayoutInv
  <2> QED BY <2>1 DEF HandledQueue
<1>10. BornInv'
  <2> SUFFICES ASSUME NEW c \in live, c # FirstRoot
               PROVE  /\ crashes = 0 => \/ wrangler'[c] = "child"
                                        \/ Waits(c, "pico_created")'
                                        \/ Booting(parent[c], c)
                      /\ \/ c \in told' \cup cut
                         \/ Waits(c, "pico_created")'
                         \/ Booting(parent[c], c)
                         \/ \E m \in Msgs(queue'[parent[c]]) : Initialized(c, m)
    BY DEF BornInv, Initialized, Booting
  <2>1. /\ crashes = 0 => \/ wrangler[c] = "child"
                          \/ Waits(c, "pico_created")
                          \/ Booting(parent[c], c)
        /\ \/ c \in told \cup cut
           \/ Waits(c, "pico_created")
           \/ Booting(parent[c], c)
           \/ \E m \in Msgs(queue[parent[c]]) : Initialized(c, m)
    BY DEF FamilyInv, BornInv
  <2>2. (\E m \in Msgs(queue[parent[c]]) : Initialized(c, m)) =>
          c \in told' \/ \E m \in Msgs(queue'[parent[c]]) : Initialized(c, m)
    BY <1>1 DEF HandledQueue, Initialized
  <2> QED BY <1>1, <1>7, <2>1, <2>2
<1>11. LeavingInv'
  <2> SUFFICES ASSUME NEW c \in leaving', c \in leaving
               PROVE  /\ c \in live /\ c # FirstRoot
                      /\ \E m \in Msgs(queue'[parent[c]]) : AsksToGo(c, m)
    BY DEF LeavingInv, AsksToGo
  <2>1. c \in live /\ c # FirstRoot /\ \E m \in Msgs(queue[parent[c]]) : AsksToGo(c, m)
    BY DEF FamilyInv, LeavingInv
  <2>2. c \in Children(parent[c])
    BY <2>1 DEF Children
  <2>3. PICK m \in Msgs(queue[parent[c]]) : AsksToGo(c, m)
    BY <2>1
  <2>4. m \in Msgs(queue'[parent[c]])
    BY <1>1, <2>1, <2>2, <2>3 DEF HandledQueue, AsksToGo
  <2> QED BY <2>1, <2>3, <2>4
<1> QED BY <1>2, <1>3, <1>4, <1>6, <1>8, <1>9, <1>10, <1>11 DEF FamilyInv

LEMMA StepCreateChildFails ==
  ASSUME FamilyInv, NEW p \in Picos, CreateChildFails(p) PROVE FamilyInv'
<1> DEFINE h == Head(queue[p])
<1>1. /\ p \in live /\ tx[p] = Idle /\ queue[p] # <<>> /\ h.name = "new_child_request"
      /\ queue' = Popped(p)
      /\ UNCHANGED <<parent, live, uiChannel, known, parentUi, placed, wrangler, tx,
                     told, leaving, cut, found, calls, crashes>>
  BY BeginsFacts DEF CreateChildFails, persisted, history
<1>2. HandledQueue(p, h) /\ queue' \in QueueType
  BY <1>1, PopHandled
<1>3. FamilyTypeOK'
  BY <1>1, <1>2 DEF FamilyInv, FamilyTypeOK, QueueType
<1> HIDE DEF h
<1> QED BY <1>1, <1>2, <1>3, HandledStep DEF IsQuestion

LEMMA StepInitializeChild ==
  ASSUME FamilyInv, NEW p \in Picos, InitializeChild(p) PROVE FamilyInv'
<1> DEFINE h == Head(queue[p])
           m == Message("child_initialized", p, NoPico)
<1>1. /\ p \in live /\ tx[p] = Idle /\ queue[p] # <<>> /\ h.name = "pico_created"
      /\ queue' = Put(Popped(p), parent[p], m)
      /\ wrangler' = [wrangler EXCEPT ![p] = "child"]
      /\ UNCHANGED <<parent, live, uiChannel, known, parentUi, placed, tx,
                     told, leaving, cut, found, calls, crashes>>
  BY BeginsFacts DEF InitializeChild, history
<1>2. m \in MessageType /\ m.name = "child_initialized" /\ m.of = p
  BY DEF Message, MessageType
<1> HIDE DEF h, m
<1>3. /\ HandledQueue(p, h) /\ queue' \in QueueType
      /\ p # FirstRoot => m \in Msgs(queue'[parent[p]])
  BY <1>1, <1>2, PopPutHandled DEF IsQuestion, h
<1>4. /\ FamilyTypeOK' /\ wrangler'[p] = "child"
      /\ \A c \in Picos : wrangler[c] = "child" => wrangler'[c] = "child"
  BY <1>1, <1>3 DEF FamilyInv, FamilyTypeOK, QueueType
<1>5. p # FirstRoot => \E n \in Msgs(queue'[parent[p]]) : Initialized(p, n)
  BY <1>2, <1>3 DEF Initialized
<1> QED BY <1>1, <1>3, <1>4, <1>5, HandledStep DEF IsQuestion

LEMMA StepBox ==
  ASSUME FamilyInv, NEW p \in Picos, Box(p) PROVE FamilyInv'
<1> DEFINE h == Head(queue[p])
<1>1. /\ p \in live /\ tx[p] = Idle /\ queue[p] # <<>> /\ h.name \in {"box", "layout"}
      /\ h \in Msgs(queue[p])
      /\ queue' = Popped(p)
      /\ parentUi' = IF h.from = NoPico THEN parentUi ELSE parentUi \cup {p}
      /\ placed' = IF h.name = "layout" THEN placed \cup {p} ELSE placed
      /\ UNCHANGED <<parent, live, uiChannel, known, wrangler, tx,
                     told, leaving, cut, found, calls, crashes>>
  BY BeginsFacts DEF Box, history
<1>2. HandledQueue(p, h) /\ queue' \in QueueType
  BY <1>1, PopHandled
<1> HIDE DEF h
<1>3. FamilyTypeOK'
  BY <1>1, <1>2 DEF FamilyInv, FamilyTypeOK, QueueType
<1>4. h.name = "layout" /\ p # FirstRoot /\ Sound(parent[p]) => p \in parentUi'
  <2>1. p # FirstRoot => parent[p] \in live /\ parent[p] # NoPico
    BY <1>1, Unpack, FamilyAssumption
  <2>2. h.name = "layout" /\ p # FirstRoot /\ Sound(parent[p]) => h.from = parent[p]
    BY <1>1 DEF FamilyInv, LayoutInv
  <2> QED BY <1>1, <2>1, <2>2
<1>5. \A c \in placed' : c \in placed \/ c \in parentUi' \/ ~Sound(parent[c]) \/ c = FirstRoot
  BY <1>1, <1>4
<1> QED BY <1>1, <1>2, <1>3, <1>5, HandledStep DEF IsQuestion

LEMMA StepChildInitialized ==
  ASSUME FamilyInv, NEW p \in Picos, ChildInitialized(p) PROVE FamilyInv'
<1> DEFINE h == Head(queue[p])
<1>1. /\ p \in live /\ tx[p] = Idle /\ queue[p] # <<>> /\ h.name = "child_initialized"
      /\ h \in MessageType
      /\ queue' = Popped(p) /\ told' = told \cup {h.of}
      /\ UNCHANGED <<parent, live, uiChannel, known, parentUi, placed, wrangler, tx,
                     leaving, cut, found, calls, crashes>>
  BY BeginsFacts DEF ChildInitialized, persisted
<1>2. HandledQueue(p, h) /\ queue' \in QueueType
  BY <1>1, PopHandled
<1>3. h.of \in Picos
  BY <1>1 DEF MessageType
<1>4. FamilyTypeOK'
  BY <1>1, <1>2, <1>3 DEF FamilyInv, FamilyTypeOK, QueueType
<1> HIDE DEF h
<1> QED BY <1>1, <1>2, <1>4, HandledStep DEF IsQuestion

LEMMA StepInitiateDeletion ==
  ASSUME FamilyInv, NEW p \in Picos, InitiateDeletion(p) PROVE FamilyInv'
<1> DEFINE h == Head(queue[p])
           m == Message("child_deletion_request", p, NoPico)
           asks == parent[p] # NoPico /\ wrangler[p] = "child"
<1>1. /\ p \in live /\ tx[p] = Idle /\ queue[p] # <<>> /\ h.name = "ready_for_deletion"
      /\ queue' = IF asks THEN Put(Popped(p), parent[p], m) ELSE Popped(p)
      /\ leaving' = IF asks THEN leaving \cup {p} ELSE leaving
      /\ UNCHANGED <<parent, live, uiChannel, known, parentUi, placed, wrangler, tx,
                     told, cut, found, calls, crashes>>
  BY BeginsFacts DEF InitiateDeletion, persisted
<1>2. m \in MessageType /\ m.name = "child_deletion_request" /\ m.of = p
  BY DEF Message, MessageType
<1> HIDE DEF h, m
<1>3. /\ HandledQueue(p, h) /\ queue' \in QueueType
      /\ asks => p # FirstRoot /\ \E n \in Msgs(queue'[parent[p]]) : AsksToGo(p, n)
  <2>1. CASE asks
    <3>1. p # FirstRoot
      BY <2>1 DEF FamilyInv, TreeInv
    <3>2. /\ HandledQueue(p, h) /\ queue' \in QueueType
          /\ m \in Msgs(queue'[parent[p]])
      BY <1>1, <1>2, <2>1, <3>1, PopPutHandled DEF IsQuestion, h
    <3> QED BY <1>2, <3>1, <3>2 DEF AsksToGo
  <2>2. CASE ~asks
    BY <1>1, <2>2, PopHandled DEF h
  <2> QED BY <2>1, <2>2
<1> HIDE DEF asks
<1>4. FamilyTypeOK'
  BY <1>1, <1>3 DEF FamilyInv, FamilyTypeOK, QueueType
<1> QED BY <1>1, <1>3, <1>4, HandledStep DEF IsQuestion

-----------------------------------------------------------------------------
(* Questions and their answers.                                             *)

\* p answers the question h, which came first in its queue.
Answering(p, h) ==
  /\ p \in live /\ tx[p] = Idle /\ queue[p] # <<>> /\ h = Head(queue[p])
  /\ h \in Msgs(queue[p]) /\ IsQuestion(h)
  /\ queue' = Popped(p) /\ tx' = Answered(h.from)
  /\ UNCHANGED <<parent, live, known, parentUi, placed, told, leaving, cut, found, calls, crashes>>
  /\ h.name = "setup" => uiChannel' = uiChannel \cup {p}
  /\ h.name = "ask" => uiChannel' = uiChannel
  /\ \A c \in Picos : wrangler[c] = "child" => wrangler'[c] = "child"
  /\ wrangler' \in [Picos -> {"none", "root", "child"}]

\* A queue without messages is empty.
LEMMA NoMessages == ASSUME NEW s \in Seq(MessageType), Msgs(s) = {} PROVE s = <<>>
<1>1. ASSUME s # <<>> PROVE FALSE
  BY <1>1, TailCut DEF Cut
<1> QED BY <1>1

\* What the answer does to queues and transactions.
LEMMA AnsweringFacts ==
  ASSUME FamilyInv, NEW p \in Picos, NEW h, Answering(p, h)
  PROVE  /\ HandledQueue(p, h) /\ queue' \in QueueType
         /\ \A m \in Msgs(queue'[p]) : IsQuestion(m) => m.from # h.from
         /\ \A q \in Picos : q # p => queue'[q] = queue[q]
         /\ h.from \in Picos
         /\ tx' \in [Picos -> TxType] /\ \A r \in Picos : SameWork(r)
         /\ \A r \in Picos : r # h.from \/ ~tx[r].waits => tx'[r] = tx[r]
         /\ ~tx'[h.from].waits
         /\ h.from \in live => /\ tx[h.from].waits /\ Asked(h.from) = p
                               /\ h.name = "setup" <=> tx[h.from].step = "bootstrap"
         /\ h.name = "setup" => /\ h.from \in live /\ parent[p] = h.from /\ p # FirstRoot
                                /\ tx[h.from].of = p
<1>1. queue \in QueueType /\ tx \in [Picos -> TxType] /\ p \in live /\ queue[p] # <<>>
  BY Unpack DEF Answering
<1>2. HandledQueue(p, h) /\ queue' \in QueueType
  BY <1>1, PopHandled DEF Answering
<1>3. /\ \A r \in Picos : r # p => queue'[r] = queue[r]
      /\ Cut(queue[p], queue'[p])
  BY <1>1, PoppedFacts DEF Answering
<1>4. \A m \in Msgs(queue'[p]) : IsQuestion(m) => m.from # h.from
  BY <1>1, <1>3, Unpack DEF Cut, Answering
<1>5. /\ h.from \in Used
      /\ h.name = "setup" => parent[p] = h.from
      /\ h.from \in live => /\ tx[h.from].waits /\ Asked(h.from) = p
                            /\ h.name = "setup" <=> tx[h.from].step = "bootstrap"
  BY DEF FamilyInv, QuestionInv, Answering
<1>6. h.from \in Picos
  BY <1>5, FamilyAssumption DEF Used
<1>7. /\ tx' \in [Picos -> TxType] /\ \A r \in Picos : SameWork(r)
      /\ \A r \in Picos : r # h.from \/ ~tx[r].waits => tx'[r] = tx[r]
      /\ ~tx'[h.from].waits
  BY <1>1, <1>6, AnsweredTx DEF Answering
<1>8. ASSUME h.name = "setup"
      PROVE  h.from \in live /\ parent[p] = h.from /\ p # FirstRoot /\ tx[h.from].of = p
  <2>1. parent[p] = h.from /\ p # FirstRoot
    BY <1>5, <1>6, <1>8, FamilyAssumption DEF FamilyInv, TreeInv
  <2>2. h.from \in live
    BY <1>1, <2>1 DEF FamilyInv, TreeInv
  <2> QED BY <1>5, <1>8, <2>1, <2>2 DEF Asked
<1> QED BY <1>2, <1>3, <1>4, <1>5, <1>6, <1>7, <1>8

\* The answered question was the only one of who asked it.
LEMMA AnsweringQuestions ==
  ASSUME FamilyInv, NEW p \in Picos, NEW h, Answering(p, h) PROVE QuestionInv'
<1>1. live' = live /\ parent' = parent /\ live \subseteq Picos
  BY Unpack DEF Answering
<1> SUFFICES ASSUME NEW q \in live
             PROVE  /\ Once(queue'[q])
                    /\ \A m \in Msgs(queue'[q]) : IsQuestion(m) =>
                         /\ m.from \in Used
                         /\ m.name = "setup" => parent[q] = m.from
                         /\ m.from \in live =>
                              /\ tx'[m.from].waits /\ Asked(m.from)' = q
                              /\ m.name = "setup" <=> tx'[m.from].step = "bootstrap"
  BY <1>1 DEF QuestionInv, Used
<1>2. Once(queue'[q])
  BY AnsweringFacts DEF HandledQueue
<1>3. ASSUME NEW m \in Msgs(queue'[q]), IsQuestion(m)
      PROVE  /\ m.from \in Used
             /\ m.name = "setup" => parent[q] = m.from
             /\ m.from \in live =>
                  /\ tx'[m.from].waits /\ Asked(m.from)' = q
                  /\ m.name = "setup" <=> tx'[m.from].step = "bootstrap"
  <2>1. m \in Msgs(queue[q])
    BY <1>3, AnsweringFacts DEF HandledQueue, IsQuestion
  <2>2. /\ m.from \in Used
        /\ m.name = "setup" => parent[q] = m.from
        /\ m.from \in live =>
             /\ tx[m.from].waits /\ Asked(m.from) = q
             /\ m.name = "setup" <=> tx[m.from].step = "bootstrap"
    BY <1>3, <2>1 DEF FamilyInv, QuestionInv
  <2>3. m.from \in live => m.from # h.from
    <3>1. m.from \in live /\ m.from = h.from => q = p
      BY <2>2, AnsweringFacts
    <3> QED BY <3>1, <1>3, AnsweringFacts
  <2>4. m.from \in live => tx'[m.from] = tx[m.from]
    BY <1>1, <2>3, AnsweringFacts
  <2> QED BY <1>1, <2>2, <2>4 DEF Asked
<1> QED BY <1>2, <1>3

\* Only setup is asked of a pico in the making, and it makes its channel.
LEMMA AnsweringMaking ==
  ASSUME FamilyInv, NEW p \in Picos, NEW h, Answering(p, h) PROVE MakingInv'
<1>1. /\ known' = known /\ live' = live /\ parent' = parent
      /\ live \subseteq Picos /\ uiChannel \subseteq uiChannel'
  BY Unpack DEF Answering, IsQuestion
<1> SUFFICES ASSUME NEW a \in live, NEW c \in Picos, Making(a, c)' PROVE Made(a, c)'
  BY <1>1 DEF MakingInv
<1>2. a \in Picos /\ SameWork(a) /\ Making(a, c)
  BY <1>1, AnsweringFacts DEF Making, SameWork
<1>3. Made(a, c) /\ tx'[c] = tx[c]
  <2>1. Made(a, c)
    BY <1>2 DEF FamilyInv, MakingInv
  <2> QED BY <2>1, IdleTx, AnsweringFacts DEF Made
<1>4. CASE c # p
  <2>1. queue'[c] = queue[c]
    BY <1>4, AnsweringFacts
  <2>2. tx'[a] = tx[a]
    <3>1. CASE a = h.from /\ h.name = "setup"
      BY <3>1, <1>2, <1>4, AnsweringFacts DEF Making
    <3>2. CASE a = h.from /\ h.name # "setup"
      <4>1. tx[a].step # "bootstrap"
        BY <3>2, AnsweringFacts
      <4>2. ~tx[a].waits
        BY <4>1, <1>2, <1>3 DEF Making, Made
      <4> QED BY <1>2, <4>2, AnsweringFacts
    <3>3. CASE a # h.from
      BY <3>3, <1>2, AnsweringFacts
    <3> QED BY <3>1, <3>2, <3>3
  <2> QED BY <1>1, <1>3, <2>1, <2>2 DEF Made
<1>5. CASE c = p
  <2>1. h.name = "setup" /\ tx[a].step = "bootstrap" /\ tx[a].waits
    <3>1. /\ tx[a].step = "bootstrap" /\ tx[a].waits => h.name = "setup"
          /\ tx[a].step = "bootstrap" => tx[a].waits
          /\ tx[a].step # "remember"
      BY <1>3, <1>5 DEF Made, Answering, IsQuestion
    <3> QED BY <1>2, <3>1 DEF Making
  <2>2. a = h.from /\ ~tx'[a].waits /\ tx'[a].step = "bootstrap"
    BY <1>2, <1>3, <1>5, <2>1, AnsweringFacts DEF Made, SameWork
  <2>3. p \in uiChannel'
    BY <2>1 DEF Answering
  <2>4. \A m \in Msgs(queue'[p]) : FALSE
    <3> SUFFICES ASSUME NEW m \in Msgs(queue'[p]) PROVE FALSE
      OBVIOUS
    <3>1. m \in Msgs(queue[p])
      BY AnsweringFacts DEF HandledQueue, IsQuestion, Answering
    <3>2. m.name = "setup"
      BY <3>1, <1>3, <1>5, <2>1 DEF Made
    <3>3. parent[p] = m.from /\ parent[p] = h.from
      BY <3>1, <3>2, <2>1, AnsweringFacts DEF FamilyInv, QuestionInv, IsQuestion, Answering
    <3>4. IsQuestion(m)
      BY <3>2 DEF IsQuestion
    <3>5. \A n \in Msgs(queue'[p]) : IsQuestion(n) => n.from # h.from
      BY AnsweringFacts
    <3> QED BY <3>3, <3>4, <3>5
  <2>5. queue'[p] = <<>>
    BY <2>4, NoMessages, AnsweringFacts DEF QueueType
  <2> QED BY <1>1, <1>3, <1>5, <2>2, <2>3, <2>5 DEF Made
<1> QED BY <1>4, <1>5

LEMMA AnsweringStep ==
  ASSUME FamilyInv, NEW p \in Picos, NEW h, Answering(p, h) PROVE FamilyInv'
<1>1. /\ live' = live /\ parent' = parent /\ uiChannel \subseteq uiChannel' /\ p \in live
      /\ UNCHANGED <<known, parentUi, placed, told, leaving, cut, found, crashes>>
      /\ live \subseteq Picos /\ FirstRoot \in live
      /\ \A c \in live : c # FirstRoot => parent[c] \in live
      /\ \A q : Children(q)' = Children(q)
  BY Unpack DEF Answering, IsQuestion, FamilyInv, TreeInv, Children
<1>2. FamilyTypeOK'
  <2>1. queue' \in QueueType /\ tx' \in [Picos -> TxType]
    BY AnsweringFacts
  <2>2. /\ wrangler' \in [Picos -> {"none", "root", "child"}] /\ calls' = calls
        /\ uiChannel' = uiChannel \cup {p} \/ uiChannel' = uiChannel
    BY DEF Answering, IsQuestion
  <2>3. FamilyTypeOK
    BY DEF FamilyInv
  <2> QED BY <1>1, <2>1, <2>2, <2>3 DEF FamilyTypeOK, QueueType
<1>3. \A r \in Picos : tx[r] = Idle => tx'[r] = Idle
  BY IdleTx, AnsweringFacts
<1>4. TreeInv'
  <2>1. \A c : Subtree(c)' = Subtree(c)
    BY <1>1 DEF Subtree, Children
  <2> QED BY <1>1, <1>3, <2>1 DEF FamilyInv, TreeInv, Used
<1>5. WorkInv'
  <2> SUFFICES ASSUME NEW a \in live PROVE Works(a)'
    BY <1>1 DEF WorkInv
  <2>1. SameWork(a) /\ Works(a) /\ a \in Picos
    BY <1>1, AnsweringFacts, OfPico
  <2>2. tx'[a].waits => tx[a].waits
    BY <2>1, AnsweringFacts
  <2> QED BY <1>1, <1>3, <2>1, <2>2 DEF Works, WaitsDown, SameWork, Left
<1>6. UiInv'
  <2>1. ASSUME crashes = 0, NEW c \in live, c # FirstRoot, c \notin uiChannel'
        PROVE  Booting(parent[c], c)' /\ tx'[parent[c]].waits
    <3>1. Booting(parent[c], c) /\ tx[parent[c]].waits /\ parent[c] \in live /\ parent[c] \in Picos
      BY <1>1, <2>1 DEF FamilyInv, UiInv
    <3>2. parent[c] # h.from
      <4>1. CASE h.name = "setup"
        BY <4>1, <2>1, <3>1, AnsweringFacts DEF Booting, Answering
      <4>2. CASE h.name # "setup"
        BY <4>2, <3>1, AnsweringFacts DEF Booting
      <4> QED BY <4>1, <4>2
    <3> QED BY <1>1, <3>1, <3>2, AnsweringFacts DEF Booting
  <2>2. \A a \in live : tx'[a].step = tx[a].step /\ Left(a)' = Left(a)
    BY <1>1, AnsweringFacts DEF SameWork, Left
  <2> QED BY <1>1, <2>1, <2>2 DEF FamilyInv, UiInv
<1>7. Starting => Starting'
  <2>1. Starting => p # FirstRoot
    BY DEF Starting, Answering, IsQuestion
  <2> QED BY <1>1, <1>3, <2>1, AnsweringFacts DEF Starting
<1>8. \A c \in live : \A m \in Msgs(queue[c]) : ~IsQuestion(m) => m \in Msgs(queue'[c])
  <2>1. \A c \in live : \A m \in Msgs(queue[c]) : m \in Msgs(queue'[c]) \/ m = h
    BY AnsweringFacts DEF HandledQueue
  <2>2. IsQuestion(h)
    BY DEF Answering
  <2> QED BY <2>1, <2>2
<1>9. KnownInv' /\ PlacedInv'
  <2> SUFFICES ASSUME NEW a \in live PROVE KnownOf(a)' /\ PlacedOf(a)'
    BY <1>1 DEF KnownInv, PlacedInv
  <2>1. a \in Picos /\ SameWork(a) /\ KnownOf(a) /\ PlacedOf(a) /\ Left(a)' = Left(a)
    BY <1>1, OfPico, AnsweringFacts DEF Left, SameWork
  <2>2. \A c \in Children(a) : c \in uiChannel' => c \in uiChannel \/ Making(a, c)
    <3>1. \A c \in uiChannel' : c \in uiChannel \/ (c = p /\ h.name = "setup")
      BY DEF Answering, IsQuestion
    <3>2. h.name = "setup" => Making(parent[p], p)
      BY AnsweringFacts DEF Making
    <3> QED BY <3>1, <3>2 DEF Children
  <2>3. \A s : Repairing(a, s) => Repairing(a, s)'
    BY <1>1, <1>7, <2>1 DEF Repairing, SameWork
  <2>4. \A c \in Children(a) : Waits(c, "layout") => Waits(c, "layout")'
    BY <1>8 DEF Waits, Children, IsQuestion
  <2>5. KnownOf(a)'
    BY <1>1, <2>1, <2>2, <2>3 DEF KnownOf, Sound, Making, SameWork
  <2>6. PlacedOf(a)'
    BY <1>1, <2>1, <2>3, <2>4 DEF PlacedOf, Sound, SameWork
  <2> QED BY <2>5, <2>6
<1>10. LayoutInv'
  <2> SUFFICES ASSUME NEW c \in live, c # FirstRoot, Sound(parent[c])
               PROVE  /\ c \in placed => c \in parentUi
                      /\ \A m \in Msgs(queue'[c]) : m.name = "layout" => m.from = parent[c]
    BY <1>1 DEF LayoutInv, Sound
  <2> QED BY AnsweringFacts DEF FamilyInv, LayoutInv, HandledQueue
<1>11. BornInv' /\ LeavingInv'
  <2>2. \A c \in live : /\ Waits(c, "pico_created") => Waits(c, "pico_created")'
                        /\ c # FirstRoot => (Booting(parent[c], c) => Booting(parent[c], c)')
    BY <1>1, <1>8, AnsweringFacts DEF Waits, IsQuestion, Booting, SameWork
  <2>3. \A c \in live : c # FirstRoot =>
          /\ (\E m \in Msgs(queue[parent[c]]) : Initialized(c, m)) =>
                \E m \in Msgs(queue'[parent[c]]) : Initialized(c, m)
          /\ (\E m \in Msgs(queue[parent[c]]) : AsksToGo(c, m)) =>
                \E m \in Msgs(queue'[parent[c]]) : AsksToGo(c, m)
    BY <1>1, <1>8 DEF Initialized, AsksToGo, IsQuestion
  <2>4. BornInv'
    <3> SUFFICES ASSUME NEW c \in live, c # FirstRoot
                 PROVE  /\ crashes = 0 => \/ wrangler'[c] = "child"
                                          \/ Waits(c, "pico_created")'
                                          \/ Booting(parent[c], c)'
                        /\ \/ c \in told \cup cut
                           \/ Waits(c, "pico_created")'
                           \/ Booting(parent[c], c)'
                           \/ \E m \in Msgs(queue'[parent[c]]) : Initialized(c, m)
      BY <1>1 DEF BornInv, Initialized
    <3>1. wrangler[c] = "child" => wrangler'[c] = "child"
      BY <1>1 DEF Answering
    <3> QED BY <3>1, <2>2, <2>3 DEF FamilyInv, BornInv
  <2>5. LeavingInv'
    BY <1>1, <2>3 DEF FamilyInv, LeavingInv, AsksToGo
  <2> QED BY <2>4, <2>5
<1> QED BY <1>2, <1>4, <1>5, <1>6, <1>9, <1>10, <1>11, AnsweringQuestions, AnsweringMaking
        DEF FamilyInv

LEMMA AnsweringNow ==
  ASSUME FamilyInv, NEW p \in Picos, Setup(p) \/ Answer(p)
  PROVE  Answering(p, Head(queue[p]))
<1>1. CASE Answer(p)
  BY <1>1, BeginsFacts
     DEF Answer, Answering, persisted, history, IsQuestion, FamilyInv, FamilyTypeOK
<1>2. CASE Setup(p)
  <2>1. /\ wrangler' \in [Picos -> {"none", "root", "child"}]
        /\ \A c \in Picos : wrangler[c] = "child" => wrangler'[c] = "child"
    BY <1>2 DEF Setup, FamilyInv, FamilyTypeOK
  <2> QED BY <1>2, <2>1, BeginsFacts DEF Setup, Answering, history, IsQuestion
<1> QED BY <1>1, <1>2

LEMMA StepAnswer ==
  ASSUME FamilyInv, NEW p \in Picos, Setup(p) \/ Answer(p) PROVE FamilyInv'
BY AnsweringNow, AnsweringStep

-----------------------------------------------------------------------------
(* Requests from outside, a crash, and the first state.                     *)

\* Whom a request reaches: a pico that nobody is making, with no question and
\* nothing that only picos send each other.
LEMMA AddressedFacts ==
  ASSUME FamilyInv, NEW p \in live, NEW name \in Calls, NEW of \in Picos \cup {NoPico},
         Addressed(p, name, of)
  PROVE  /\ Message(name, of, NoPico) \in MessageType
         /\ Message(name, of, NoPico).name \notin {"setup", "ask", "layout"}
         /\ \A a \in live : ~Making(a, p)
<1>1. /\ Message(name, of, NoPico) \in MessageType
      /\ Message(name, of, NoPico).name \notin {"setup", "ask", "layout"}
  BY FamilyAssumption DEF Message, MessageType
<1>2. live \subseteq Picos /\ uiChannel \subseteq Picos
  BY DEF FamilyInv, FamilyTypeOK
<1>3. ASSUME NEW a \in live, Making(a, p) PROVE FALSE
  <2>1. Made(a, p)
    BY <1>2, <1>3 DEF FamilyInv, MakingInv
  <2>2. CASE name \in {"new_child_request", "children", "ready_for_deletion"}
    <3>1. Published(p)
      BY <2>2 DEF Addressed
    <3> QED BY <1>2, <1>3, <3>1 DEF Published, Making
  <2>3. CASE name = "started"
    <3>1. HasUiAddress(p)
      BY <2>3 DEF Addressed
    <3>2. p # FirstRoot
      BY <1>2, <2>1, FamilyAssumption DEF FamilyInv, TreeInv, Made
    <3> QED BY <2>1, <3>1, <3>2 DEF HasUiAddress, Made
  <2>4. CASE name \in {"child_deletion_request", "del"}
    <3>1. of \in Picos /\ parent[of] = p
      BY <1>2, <2>4 DEF Addressed
    <3> QED BY <2>1, <3>1 DEF Made
  <2> QED BY <2>2, <2>3, <2>4, FamilyAssumption
<1> QED BY <1>1, <1>3

LEMMA StepRequest ==
  ASSUME FamilyInv, NEW p \in Picos, Request(p) PROVE FamilyInv'
<1>1. PICK name \in Calls, of \in Picos \cup {NoPico} :
        /\ Addressed(p, name, of)
        /\ queue' = Put(queue, p, Message(name, of, NoPico))
        /\ calls[name] < MaxCalls[name]
        /\ calls' = [calls EXCEPT ![name] = @ + 1]
  BY DEF Request
<1>2. /\ p \in live
      /\ UNCHANGED <<parent, live, uiChannel, known, parentUi, placed, wrangler, tx,
                     told, leaving, cut, found, crashes>>
  BY DEF Request, persisted, history
<1> DEFINE m == Message(name, of, NoPico)
<1>3. /\ m \in MessageType /\ m.name \notin {"setup", "ask", "layout"}
      /\ \A a \in live : ~Making(a, p)
  BY <1>1, <1>2, AddressedFacts
<1>4. queue' = Put(queue, p, m)
  BY <1>1
<1> HIDE DEF m
<1>5. /\ queue \in QueueType /\ live \subseteq Picos /\ tx \in [Picos -> TxType]
      /\ \A q \in live : Once(queue[q])
      /\ \A q \in live : q # FirstRoot => parent[q] \in live
      /\ FirstRoot \in live
  BY Unpack DEF FamilyInv, TreeInv
<1>6. /\ queue' \in QueueType
      /\ \A r \in Picos : r # p => queue'[r] = queue[r]
      /\ Grown(queue[p], queue'[p], {m})
  BY <1>2, <1>3, <1>4, <1>5, PutFacts
<1>7. ~IsQuestion(m) /\ Msgs(queue'[p]) = Msgs(queue[p]) \cup {m} /\ Once(queue'[p])
  BY <1>2, <1>3, <1>5, <1>6 DEF IsQuestion, Grown, NoQuestion
<1>8. \A q \in live : \A n \in Msgs(queue[q]) : n \in Msgs(queue'[q])
  BY <1>5, <1>6, <1>7
<1>9. \A q \in live : \A n \in Msgs(queue'[q]) : n \in Msgs(queue[q]) \/ n = m
  BY <1>5, <1>6, <1>7
<1>10. FamilyTypeOK'
  <2>1. calls' \in [Calls -> Nat]
    BY <1>1 DEF FamilyInv, FamilyTypeOK
  <2> QED BY <1>2, <1>6, <2>1 DEF FamilyInv, FamilyTypeOK, QueueType
<1>11. TreeInv'
  BY <1>2, OwnTree DEF FamilyInv
<1>12. QuestionInv'
  <2>1. \A q \in live : Once(queue'[q])
    BY <1>5, <1>6, <1>7
  <2> QED BY <1>2, <1>7, <1>9, <2>1 DEF FamilyInv, QuestionInv, Asked, Used
<1>13. MakingInv'
  <2> SUFFICES ASSUME NEW a \in live, NEW c \in Picos, Making(a, c) PROVE Made(a, c)'
    BY <1>2 DEF MakingInv, Making
  <2>1. c # p /\ Made(a, c)
    BY <1>3 DEF FamilyInv, MakingInv
  <2> QED BY <1>2, <1>6, <2>1 DEF Made
<1>14. WorkInv' /\ UiInv'
  BY <1>2 DEF FamilyInv, WorkInv, Works, WaitsDown, Left, Children, UiInv, Booting
<1>15. Starting => Starting'
  BY <1>2, <1>5, <1>6 DEF Starting, Grown
<1>16. KnownInv'
  BY <1>2, <1>15 DEF FamilyInv, KnownInv, KnownOf, Sound, Repairing, Making, Left, Children
<1>17. \A c \in live : /\ Waits(c, "layout") => Waits(c, "layout")'
                       /\ Waits(c, "pico_created") => Waits(c, "pico_created")'
  BY <1>8 DEF Waits
<1>18. PlacedInv'
  <2> SUFFICES ASSUME NEW a \in live PROVE PlacedOf(a)'
    BY <1>2 DEF PlacedInv
  <2>1. PlacedOf(a) /\ Children(a)' = Children(a) /\ \A c \in Children(a) : c \in live
    BY <1>2, OfPico DEF Children
  <2> QED BY <1>2, <1>15, <1>17, <2>1 DEF PlacedOf, Sound, Repairing, Left
<1>19. LayoutInv'
  <2> SUFFICES ASSUME NEW c \in live, c # FirstRoot, Sound(parent[c])
               PROVE  /\ c \in placed => c \in parentUi
                      /\ \A n \in Msgs(queue'[c]) : n.name = "layout" => n.from = parent[c]
    BY <1>2 DEF LayoutInv, Sound
  <2> QED BY <1>3, <1>9 DEF FamilyInv, LayoutInv
<1>20. BornInv'
  <2>1. \A c \in live : c # FirstRoot =>
          ((\E n \in Msgs(queue[parent[c]]) : Initialized(c, n)) =>
             \E n \in Msgs(queue'[parent[c]]) : Initialized(c, n))
    BY <1>5, <1>8
  <2> QED BY <1>2, <1>17, <2>1 DEF FamilyInv, BornInv, Booting, Initialized
<1>21. LeavingInv'
  <2> SUFFICES ASSUME NEW c \in leaving
               PROVE  /\ c \in live /\ c # FirstRoot
                      /\ \E n \in Msgs(queue'[parent[c]]) : AsksToGo(c, n)
    BY <1>2 DEF LeavingInv, AsksToGo
  <2> QED BY <1>5, <1>8 DEF FamilyInv, LeavingInv
<1> QED BY <1>10, <1>11, <1>12, <1>13, <1>14, <1>16, <1>18, <1>19, <1>20, <1>21 DEF FamilyInv

LEMMA StepCrash ==
  ASSUME FamilyInv, Crash PROVE FamilyInv'
<1> DEFINE m == Message("started", NoPico, NoPico)
<1>1. /\ queue' = [p \in Picos |-> IF p = FirstRoot THEN <<m>> ELSE <<>>]
      /\ tx' = [p \in Picos |-> Idle]
      /\ leaving' = {} /\ found' = {}
      /\ cut' = cut \cup (live \ (told \cup {FirstRoot}))
      /\ crashes < MaxCrashes /\ crashes' = crashes + 1
      /\ UNCHANGED <<parent, live, uiChannel, known, parentUi, placed, wrangler, told, calls>>
  BY DEF Crash, persisted
<1>2. m \in MessageType /\ m.name = "started"
  BY DEF Message, MessageType
<1> HIDE DEF m
<1>3. /\ FirstRoot \in live /\ FirstRoot \in Picos /\ live \subseteq Picos
      /\ crashes \in Nat /\ crashes' > 0 /\ crashes' # 0
      /\ \A c \in live : c # FirstRoot => parent[c] \in live
  BY <1>1, FamilyAssumption DEF FamilyInv, FamilyTypeOK, TreeInv
<1>4. /\ <<m>> \in Seq(MessageType) /\ <<m>> # <<>> /\ Head(<<m>>) = m
      /\ Msgs(<<m>>) = {m} /\ Once(<<m>>)
      /\ Msgs(<<>>) = {} /\ Once(<<>>) /\ <<>> \in Seq(MessageType)
  BY <1>2, SeqOne, SeqEmpty
<1>5. /\ \A q \in Picos : Once(queue'[q]) /\ \A n \in Msgs(queue'[q]) : n = m
      /\ queue'[FirstRoot] = <<m>>
  BY <1>1, <1>3, <1>4
<1>6. \A q \in Picos : tx'[q] = Idle
  BY <1>1
<1>7. FamilyTypeOK'
  <2>1. tx' \in [Picos -> TxType] /\ queue' \in [Picos -> Seq(MessageType)]
    BY <1>1, <1>4, IdleTx
  <2>2. crashes' \in 0 .. MaxCrashes
    BY <1>1, <1>3, FamilyAssumption
  <2> QED BY <1>1, <2>1, <2>2 DEF FamilyInv, FamilyTypeOK
<1>8. TreeInv'
  <2>1. \A c : Subtree(c)' = Subtree(c)
    BY <1>1 DEF Subtree, Children
  <2> QED BY <1>1, <1>6, <2>1 DEF FamilyInv, TreeInv, Used
<1>9. QuestionInv'
  BY <1>1, <1>2, <1>3, <1>5 DEF QuestionInv, IsQuestion
<1>10. MakingInv' /\ WorkInv'
  BY <1>1, <1>3, <1>6, IdleTx DEF MakingInv, Making, WorkInv, Works, WaitsDown
<1>11. UiInv'
  BY <1>1, <1>3 DEF FamilyInv, UiInv
<1>12. Starting'
  BY <1>2, <1>3, <1>4, <1>5, <1>6 DEF Starting
<1>13. KnownInv' /\ PlacedInv'
  <2>1. \A p \in live : Sound(p)' => \A s : Repairing(p, s)'
    BY <1>3, <1>12 DEF Sound, Repairing
  <2> QED BY <1>1, <2>1 DEF FamilyInv, KnownInv, KnownOf, PlacedInv, PlacedOf
<1>14. LayoutInv'
  <2>1. \A c \in live : c # FirstRoot /\ Sound(parent[c])' => Sound(parent[c])
    BY <1>1, <1>3 DEF Sound
  <2> QED BY <1>1, <1>2, <1>3, <1>5, <2>1 DEF FamilyInv, LayoutInv
<1>15. BornInv' /\ LeavingInv'
  BY <1>1, <1>3 DEF BornInv, LeavingInv
<1> QED BY <1>7, <1>8, <1>9, <1>10, <1>11, <1>13, <1>14, <1>15 DEF FamilyInv

LEMMA FirstState == FamilyInit => FamilyInv
<1> SUFFICES ASSUME FamilyInit PROVE FamilyInv
  OBVIOUS
<1>1. /\ parent = [p \in Picos |-> NoPico]
      /\ live = {FirstRoot} /\ uiChannel = {FirstRoot}
      /\ known = [p \in Picos |-> {}]
      /\ parentUi = {} /\ placed = {}
      /\ wrangler = [p \in Picos |-> IF p = FirstRoot THEN "root" ELSE "none"]
      /\ queue = [p \in Picos |-> <<>>]
      /\ tx = [p \in Picos |-> Idle]
      /\ told = {} /\ leaving = {} /\ cut = {} /\ found = {}
      /\ calls = [name \in Calls |-> 0] /\ crashes = 0
  BY DEF FamilyInit
<1>2. FirstRoot \in Picos /\ NoPico \notin Picos
  BY FamilyAssumption
<1>3. FamilyTypeOK
  <2>1. tx \in [Picos -> TxType] /\ queue \in [Picos -> Seq(MessageType)]
    BY <1>1, IdleTx
  <2>2. crashes \in 0 .. MaxCrashes
    BY <1>1, FamilyAssumption
  <2> QED BY <1>1, <1>2, <2>1, <2>2 DEF FamilyTypeOK
<1>4. \A p : Children(p) \subseteq live /\ \A c \in Children(p) : p = NoPico
  BY <1>1, <1>2 DEF Children
<1>5. TreeInv
  <2>1. NoPico \notin Subtree(FirstRoot)
    BY <1>1, <1>2 DEF Subtree
  <2> QED BY <1>1, <1>2, <2>1 DEF TreeInv, Used
<1>6. QuestionInv /\ MakingInv /\ WorkInv
  BY <1>1, <1>2, IdleTx, SeqEmpty DEF QuestionInv, MakingInv, Making, WorkInv, Works, WaitsDown
<1>7. UiInv
  BY <1>1, <1>2, IdleTx DEF UiInv
<1>8. KnownInv /\ PlacedInv
  BY <1>1, <1>2, <1>4 DEF KnownInv, KnownOf, PlacedInv, PlacedOf
<1>9. LayoutInv /\ BornInv /\ LeavingInv
  BY <1>1 DEF LayoutInv, BornInv, LeavingInv
<1> QED BY <1>3, <1>5, <1>6, <1>7, <1>8, <1>9 DEF FamilyInv

-----------------------------------------------------------------------------
(* A new child, and a child that is deleted with all below it.              *)

\* The new pico c hangs below p and has nothing below it.
LEMMA GrownTree ==
  ASSUME FamilyTypeOK, TreeInv, NEW p \in live, NEW c \in Picos, c \notin Used,
         parent' = [parent EXCEPT ![c] = p], live' = live \cup {c}
  PROVE  /\ c \notin live /\ parent[c] = NoPico /\ c # FirstRoot /\ p \in Picos /\ p # c
         /\ parent'[c] = p /\ \A d \in Picos : d # c => parent'[d] = parent[d]
         /\ \A d \in Picos : parent[d] # c /\ parent'[d] # c
         /\ Used' = Used \cup {c}
         /\ \A d \in live' : parent'[d] \notin Subtree(d)'
<1>1. /\ c \notin live /\ parent[c] = NoPico /\ c # FirstRoot /\ p \in Picos /\ p # c
      /\ NoPico \notin Picos /\ live \subseteq Picos
  BY FamilyAssumption DEF FamilyTypeOK, TreeInv, Used
<1>2. parent'[c] = p /\ \A d \in Picos : d # c => parent'[d] = parent[d]
  BY DEF FamilyTypeOK
<1>3. \A d \in Picos : parent[d] # c /\ parent'[d] # c
  BY <1>1, <1>2, FamilyAssumption DEF TreeInv
<1>4. Used' = Used \cup {c}
  BY <1>1, <1>2 DEF Used
<1>5. ASSUME NEW d \in live' PROVE parent'[d] \notin Subtree(d)'
  <2>1. CASE d = c
    <3>1. Children(c)' = {}
      BY <1>1, <1>3 DEF Children
    <3> DEFINE F == {c}
    <3>2. F \in SUBSET live' /\ c \in F /\ p \notin F /\ \A r \in F : Children(r)' \subseteq F
      BY <1>1, <3>1
    <3> HIDE DEF F
    <3>3. p \notin Subtree(c)'
      BY <3>2 DEF Subtree
    <3> QED BY <2>1, <1>2, <3>3
  <2>2. CASE d # c
    <3>1. d \in live /\ d \in Picos /\ parent'[d] = parent[d] /\ parent[d] # c
      BY <1>1, <1>2, <1>3, <2>2
    <3>2. parent[d] \notin Subtree(d)
      BY <3>1 DEF TreeInv
    <3>3. SUFFICES ASSUME parent[d] \in live' PROVE parent[d] \notin Subtree(d)'
      BY <3>1 DEF Subtree
    <3>4. PICK F \in SUBSET live :
            d \in F /\ parent[d] \notin F /\ \A r \in F : Children(r) \subseteq F
      BY <3>1, <3>2, <3>3 DEF Subtree
    <3> DEFINE E == F \cup {c}
    <3>5. \A r : Children(r)' \subseteq Children(r) \cup {c}
      BY <1>1, <1>2 DEF Children
    <3>6. Children(c)' = {}
      BY <1>1, <1>3 DEF Children
    <3>7. E \in SUBSET live' /\ d \in E /\ parent[d] \notin E
      BY <3>1, <3>4
    <3>8. \A r \in E : Children(r)' \subseteq E
      BY <3>4, <3>5, <3>6
    <3> HIDE DEF E
    <3> QED BY <3>7, <3>8 DEF Subtree
  <2> QED BY <2>1, <2>2
<1> QED BY <1>1, <1>2, <1>3, <1>4, <1>5

\* What the step does to the parent, its queue and its transaction.
LEMMA CreateChildEffect ==
  ASSUME FamilyInv, NEW p \in Picos, CreateChild(p)
  PROVE  \E c \in Picos, m \in MessageType, t \in TxType :
           /\ c \notin Used /\ m.name = "setup" /\ m.from = p
           /\ t.step = "bootstrap" /\ t.of = c /\ t.todo = {} /\ t.waits
           /\ p \in live /\ tx[p] = Idle /\ queue[p] # <<>>
           /\ Head(queue[p]).name = "new_child_request"
           /\ \A a \in live : ~Making(a, p)
           /\ parent' = [parent EXCEPT ![c] = p] /\ live' = live \cup {c}
           /\ queue' = [Popped(p) EXCEPT ![c] = <<m>>]
           /\ tx' = [tx EXCEPT ![p] = t]
           /\ UNCHANGED <<uiChannel, known, parentUi, placed, wrangler,
                          told, leaving, cut, found, calls, crashes>>
<1> DEFINE c == CHOOSE q \in Picos \ Used : TRUE
           m == Message("setup", NoPico, p)
           t == Waiting("bootstrap", c, {})
<1>1. /\ p \in live /\ tx[p] = Idle /\ queue[p] # <<>>
      /\ Head(queue[p]).name = "new_child_request"
      /\ \A a \in live : ~Making(a, p)
  BY BeginsFacts DEF CreateChild
<1>2. /\ parent' = [parent EXCEPT ![c] = p] /\ live' = live \cup {c}
      /\ queue' = [Popped(p) EXCEPT ![c] = <<m>>]
      /\ tx' = [tx EXCEPT ![p] = t]
      /\ UNCHANGED <<uiChannel, known, parentUi, placed, wrangler,
                     told, leaving, cut, found, calls, crashes>>
  BY DEF CreateChild, history
<1>3. c \in Picos /\ c \notin Used
  <2>1. Picos # Used /\ Used \subseteq Picos
    BY FamilyAssumption DEF CreateChild, Used
  <2> QED BY <2>1
<1>4. m \in MessageType /\ m.name = "setup" /\ m.from = p
  BY DEF Message, MessageType
<1> HIDE DEF c
<1>5. t \in TxType /\ t.step = "bootstrap" /\ t.of = c /\ t.todo = {} /\ t.waits
  BY <1>3, RunningTx
<1> HIDE DEF m, t
<1> QED BY <1>1, <1>2, <1>3, <1>4, <1>5

LEMMA StepCreateChild ==
  ASSUME FamilyInv, NEW p \in Picos, CreateChild(p) PROVE FamilyInv'
<1>1. PICK c \in Picos, m \in MessageType, t \in TxType :
           /\ c \notin Used /\ m.name = "setup" /\ m.from = p
           /\ t.step = "bootstrap" /\ t.of = c /\ t.todo = {} /\ t.waits
           /\ p \in live /\ tx[p] = Idle /\ queue[p] # <<>>
           /\ Head(queue[p]).name = "new_child_request"
           /\ \A a \in live : ~Making(a, p)
           /\ parent' = [parent EXCEPT ![c] = p] /\ live' = live \cup {c}
           /\ queue' = [Popped(p) EXCEPT ![c] = <<m>>]
           /\ tx' = [tx EXCEPT ![p] = t]
           /\ UNCHANGED <<uiChannel, known, parentUi, placed, wrangler,
                          told, leaving, cut, found, calls, crashes>>
  BY CreateChildEffect
<1>2. /\ c \notin live /\ parent[c] = NoPico /\ c # FirstRoot /\ p # c
      /\ parent'[c] = p /\ \A d \in Picos : d # c => parent'[d] = parent[d]
      /\ \A d \in Picos : parent[d] # c /\ parent'[d] # c
      /\ Used' = Used \cup {c}
      /\ \A d \in live' : parent'[d] \notin Subtree(d)'
  <2>1. /\ p \in live /\ c \notin Used
        /\ parent' = [parent EXCEPT ![c] = p] /\ live' = live \cup {c}
    BY <1>1
  <2>2. FamilyTypeOK /\ TreeInv
    BY DEF FamilyInv
  <2> QED BY <2>1, <2>2, GrownTree
<1>3. /\ queue \in QueueType /\ live \subseteq Picos /\ tx \in [Picos -> TxType]
      /\ \A q \in live : Once(queue[q]) /\ q \in Picos
      /\ \A q \in live : q # FirstRoot => parent[q] \in live
      /\ FirstRoot \in live /\ NoPico \notin Picos
      /\ tx[c] = Idle /\ known[c] = {} /\ c \notin placed
  BY <1>1, Unpack, FamilyAssumption DEF FamilyInv, TreeInv
<1>4. /\ tx' \in [Picos -> TxType] /\ tx'[p] = t
      /\ \A r \in Picos : r # p => tx'[r] = tx[r]
  BY <1>1, <1>3, SetTx
<1>5. /\ queue' \in QueueType /\ queue'[c] = <<m>>
      /\ \A r \in Picos : r # p /\ r # c => queue'[r] = queue[r]
      /\ Cut(queue[p], queue'[p])
  <2> DEFINE Q == Popped(p)
  <2>1. /\ Q \in QueueType
        /\ \A r \in Picos : r # p => Q[r] = queue[r]
        /\ Cut(queue[p], Q[p])
    BY <1>1, <1>3, PoppedFacts
  <2>2. queue' = [Q EXCEPT ![c] = <<m>>] /\ <<m>> \in Seq(MessageType)
    BY <1>1, SeqOne
  <2> HIDE DEF Q
  <2> QED BY <1>2, <2>1, <2>2 DEF QueueType
<1>6. Msgs(queue'[c]) = {m} /\ Once(queue'[c])
  BY <1>5, SeqOne
<1>7. /\ \A q \in live : \A n \in Msgs(queue'[q]) : n \in Msgs(queue[q])
      /\ \A q \in live : \A n \in Msgs(queue[q]) :
           n \in Msgs(queue'[q]) \/ n.name = "new_child_request"
      /\ \A q \in live : Once(queue'[q])
  <2>1. /\ \A n \in Msgs(queue'[p]) : n \in Msgs(queue[p])
        /\ \A n \in Msgs(queue[p]) : n \in Msgs(queue'[p]) \/ n.name = "new_child_request"
        /\ Once(queue'[p])
    BY <1>1, <1>3, <1>5 DEF Cut
  <2>2. \A q \in live : q = p \/ queue'[q] = queue[q]
    BY <1>2, <1>3, <1>5
  <2> QED BY <1>3, <2>1, <2>2
<1>8. FamilyTypeOK'
  BY <1>1, <1>4, <1>5 DEF FamilyInv, FamilyTypeOK, QueueType
<1>9. TreeInv'
  <2>1. \A d \in live' : d # FirstRoot => parent'[d] \in live'
    BY <1>1, <1>2, <1>3
  <2>2. \A d \in Picos : parent'[d] # NoPico => parent'[d] \in Used'
    BY <1>1, <1>2 DEF FamilyInv, TreeInv
  <2>3. \A d \in Picos : d \notin Used' => d # p /\ d \notin Used
    BY <1>1, <1>2 DEF FamilyInv, TreeInv
  <2>4. \A d \in Picos : parent'[d] # d
    BY <1>2 DEF FamilyInv, TreeInv
  <2>5. live' \subseteq Used' /\ FirstRoot \in live' /\ parent'[FirstRoot] = NoPico
    BY <1>1, <1>2, <1>3 DEF FamilyInv, TreeInv
  <2>6. \A d \in Picos : d \notin Used' => tx'[d] = Idle /\ known'[d] = {} /\ d \notin placed'
    BY <1>1, <1>4, <2>3 DEF FamilyInv, TreeInv
  <2> QED BY <1>2, <2>1, <2>2, <2>4, <2>5, <2>6 DEF TreeInv
<1>10. QuestionInv'
  <2> SUFFICES ASSUME NEW q \in live'
               PROVE  /\ Once(queue'[q])
                      /\ \A n \in Msgs(queue'[q]) : IsQuestion(n) =>
                           /\ n.from \in Used'
                           /\ n.name = "setup" => parent'[q] = n.from
                           /\ n.from \in live' =>
                                /\ tx'[n.from].waits /\ Asked(n.from)' = q
                                /\ n.name = "setup" <=> tx'[n.from].step = "bootstrap"
    BY DEF QuestionInv
  <2>1. CASE q = c
    <3>1. p \in Used'
      BY <1>1, <1>2 DEF FamilyInv, TreeInv
    <3> QED BY <1>1, <1>2, <1>4, <1>6, <2>1, <3>1 DEF Asked
  <2>2. CASE q # c
    <3>1. q \in live /\ q \in Picos
      BY <1>1, <1>3, <2>2
    <3>2. ASSUME NEW n \in Msgs(queue'[q]), IsQuestion(n)
          PROVE  /\ n.from \in Used'
                 /\ n.name = "setup" => parent'[q] = n.from
                 /\ n.from \in live' =>
                      /\ tx'[n.from].waits /\ Asked(n.from)' = q
                      /\ n.name = "setup" <=> tx'[n.from].step = "bootstrap"
      <4>1. /\ n.from \in Used
            /\ n.name = "setup" => parent[q] = n.from
            /\ n.from \in live =>
                 /\ tx[n.from].waits /\ Asked(n.from) = q
                 /\ n.name = "setup" <=> tx[n.from].step = "bootstrap"
        BY <1>7, <3>1, <3>2 DEF FamilyInv, QuestionInv
      <4>2. n.from # c
        BY <1>1, <4>1
      <4>3. n.from \in live' => n.from \in live /\ n.from # p /\ n.from \in Picos
        BY <1>1, <1>3, <4>1, <4>2, IdleTx
      <4> QED BY <1>2, <1>4, <2>2, <3>1, <4>1, <4>2, <4>3 DEF Asked
    <3> QED BY <1>7, <3>1, <3>2
  <2> QED BY <2>1, <2>2
<1>11. MakingInv'
  <2> SUFFICES ASSUME NEW a \in live', NEW d \in Picos, Making(a, d)' PROVE Made(a, d)'
    BY DEF MakingInv
  <2>1. CASE a = p
    <3>1. d = c
      BY <1>1, <1>4, <2>1 DEF Making
    <3>2. c \notin known[p]
      BY <1>1, <1>2, <1>3, OfPico DEF KnownOf
    <3>3. \A n \in Msgs(queue'[c]) : n.name = "setup"
      BY <1>1, <1>6
    <3> QED BY <1>1, <1>2, <1>3, <1>4, <2>1, <3>1, <3>2, <3>3 DEF Made
  <2>2. CASE a = c
    BY <1>2, <1>3, <1>4, <2>2, IdleTx DEF Making
  <2>3. CASE a # p /\ a # c
    <3>1. a \in live /\ a \in Picos /\ tx'[a] = tx[a] /\ Making(a, d)
      BY <1>1, <1>3, <1>4, <2>3 DEF Making
    <3>2. Made(a, d)
      BY <3>1 DEF FamilyInv, MakingInv
    <3>3. d # p /\ d # c /\ d \in live
      BY <1>1, <1>2, <3>1, <3>2 DEF Made
    <3>4. \A e \in Picos : parent'[e] # d
      BY <1>2, <3>2, <3>3 DEF Made
    <3> QED BY <1>1, <1>2, <1>4, <1>5, <3>1, <3>2, <3>3, <3>4 DEF Made
  <2> QED BY <2>1, <2>2, <2>3
<1>12. \A a \in live : a # p =>
         /\ a \in Picos /\ tx'[a] = tx[a] /\ Left(a)' = Left(a)
         /\ Children(a)' = Children(a)
  BY <1>1, <1>2, <1>3, <1>4 DEF Left, Children
<1>13. Children(c)' = {} /\ Children(p)' = Children(p) \cup {c}
  BY <1>1, <1>2, <1>3 DEF Children
<1>14. WorkInv'
  <2> SUFFICES ASSUME NEW a \in live' PROVE Works(a)'
    BY DEF WorkInv
  <2>1. CASE a = p
    BY <1>1, <1>4, <1>13, <2>1 DEF Works, WaitsDown
  <2>2. CASE a = c
    BY <1>2, <1>3, <1>4, <2>2, IdleTx DEF Works, WaitsDown
  <2>3. CASE a # p /\ a # c
    <3>1. a \in live /\ Works(a)
      BY <1>1, <2>3, OfPico
    <3>2. tx[a].step = "forget" => tx[a].of # c /\ tx[a].of \in Picos
      BY <1>2, <1>3, <3>1 DEF Works
    <3> QED BY <1>1, <1>2, <1>12, <2>3, <3>1, <3>2 DEF Works, WaitsDown
  <2> QED BY <2>1, <2>2, <2>3
<1>15. UiInv'
  <2>1. ASSUME crashes = 0, NEW d \in live', d # FirstRoot, d \notin uiChannel
        PROVE  Booting(parent[d], d)' /\ tx'[parent'[d]].waits
    <3>1. CASE d = c
      BY <1>1, <1>2, <1>4, <3>1 DEF Booting
    <3>2. CASE d # c
      <4>1. /\ Booting(parent[d], d) /\ tx[parent[d]].waits /\ parent[d] \in live
            /\ parent'[d] = parent[d]
        BY <1>1, <1>2, <1>3, <2>1, <3>2 DEF FamilyInv, UiInv
      <4>2. parent[d] # p
        BY <1>1, <4>1, IdleTx
      <4> QED BY <1>12, <4>1, <4>2 DEF Booting
    <3> QED BY <3>1, <3>2
  <2>2. \A a \in live' : crashes = 0 /\ tx'[a].step = "backfill" => Left(a)' = {}
    <3>1. tx'[p].step # "backfill" /\ tx'[c].step # "backfill"
      BY <1>1, <1>2, <1>3, <1>4, IdleTx
    <3> QED BY <1>1, <1>12, <3>1 DEF FamilyInv, UiInv
  <2> QED BY <1>1, <2>1, <2>2 DEF FamilyInv, UiInv
<1>16. /\ Starting => Starting'
       /\ p = FirstRoot => ~Starting
  <2>1. p = FirstRoot => ~Starting
    BY <1>1, OfPico
  <2> QED BY <1>1, <1>2, <1>3, <1>4, <1>5, <2>1 DEF Starting
<1>17. KnownInv'
  <2> SUFFICES ASSUME NEW a \in live' PROVE KnownOf(a)'
    BY DEF KnownInv
  <2>1. CASE a = c
    BY <1>1, <1>3, <1>13, <2>1 DEF KnownOf
  <2>2. CASE a # c
    <3>1. a \in live /\ KnownOf(a) /\ a \in Picos
      BY <1>1, <2>2, OfPico
    <3>2. /\ \A d \in known[a] : d \in Picos /\ parent[d] = a /\ d # c /\ d \in uiChannel
      BY <1>2, <1>3, <3>1 DEF KnownOf, FamilyInv, FamilyTypeOK
    <3>3. \A d \in known[a] : parent'[d] = a /\ d \in uiChannel
      BY <1>2, <3>2
    <3>4. CASE a = p
      <4>1. Making(p, c)'
        BY <1>1, <1>4 DEF Making
      <4>2. \A d : ~Making(p, d)
        BY <1>1, IdleTx DEF Making
      <4> QED BY <1>1, <1>13, <1>16, <3>1, <3>3, <3>4, <4>1, <4>2, IdleTx
              DEF KnownOf, Sound, Repairing
    <3>5. CASE a # p
      BY <1>1, <1>12, <1>16, <3>1, <3>3, <3>5 DEF KnownOf, Sound, Repairing, Making
    <3> QED BY <3>4, <3>5
  <2> QED BY <2>1, <2>2
<1>18. \A d \in live : /\ Waits(d, "layout") => Waits(d, "layout")'
                       /\ Waits(d, "pico_created") => Waits(d, "pico_created")'
  BY <1>7 DEF Waits
<1>19. PlacedInv'
  <2> SUFFICES ASSUME NEW a \in live' PROVE PlacedOf(a)'
    BY DEF PlacedInv
  <2>1. CASE a = c
    BY <1>13, <2>1 DEF PlacedOf
  <2>2. CASE a # c
    <3>1. a \in live /\ PlacedOf(a) /\ KnownOf(a) /\ \A d \in Children(a) : d \in live
      BY <1>1, <2>2, OfPico
    <3>2. CASE a = p
      <4>1. c \notin known[p]
        BY <1>1, <1>2, <1>3, <3>1, <3>2 DEF KnownOf
      <4> QED BY <1>1, <1>13, <1>16, <1>18, <3>1, <3>2, <4>1, IdleTx
              DEF PlacedOf, Sound, Repairing
    <3>3. CASE a # p
      BY <1>1, <1>12, <1>16, <1>18, <3>1, <3>3 DEF PlacedOf, Sound, Repairing
    <3> QED BY <3>2, <3>3
  <2> QED BY <2>1, <2>2
<1>20. LayoutInv'
  <2> SUFFICES ASSUME NEW d \in live', d # FirstRoot, Sound(parent'[d])
               PROVE  /\ d \in placed => d \in parentUi
                      /\ \A n \in Msgs(queue'[d]) : n.name = "layout" => n.from = parent'[d]
    BY <1>1 DEF LayoutInv, Sound
  <2>1. CASE d = c
    BY <1>1, <1>3, <1>6, <2>1
  <2>2. CASE d # c
    <3>1. d \in live /\ parent'[d] = parent[d]
      BY <1>1, <1>2, <1>3, <2>2
    <3> QED BY <1>7, <3>1 DEF FamilyInv, LayoutInv
  <2> QED BY <2>1, <2>2
<1>21. \A d \in live : d # FirstRoot =>
         /\ parent'[d] = parent[d] /\ parent[d] \in live
         /\ Booting(parent[d], d) => Booting(parent[d], d)'
  <2> SUFFICES ASSUME NEW d \in live, d # FirstRoot
               PROVE  /\ parent'[d] = parent[d] /\ parent[d] \in live
                      /\ Booting(parent[d], d) => Booting(parent[d], d)'
    OBVIOUS
  <2>1. parent'[d] = parent[d] /\ parent[d] \in live /\ parent[d] \in Picos
    BY <1>2, <1>3
  <2>2. Booting(parent[d], d) => parent[d] # p
    BY <1>1, IdleTx DEF Booting
  <2> QED BY <1>4, <2>1, <2>2 DEF Booting
<1>22. BornInv'
  <2> SUFFICES ASSUME NEW d \in live', d # FirstRoot
               PROVE  /\ crashes = 0 => \/ wrangler[d] = "child"
                                        \/ Waits(d, "pico_created")'
                                        \/ Booting(parent[d], d)'
                      /\ \/ d \in told \cup cut
                         \/ Waits(d, "pico_created")'
                         \/ Booting(parent[d], d)'
                         \/ \E n \in Msgs(queue'[parent'[d]]) : Initialized(d, n)
    BY <1>1 DEF BornInv, Initialized, Booting
  <2>1. CASE d = c
    BY <1>1, <1>2, <1>4, <2>1 DEF Booting
  <2>2. CASE d # c
    <3>1. d \in live
      BY <1>1, <2>2
    <3>2. (\E n \in Msgs(queue[parent[d]]) : Initialized(d, n)) =>
            \E n \in Msgs(queue'[parent'[d]]) : Initialized(d, n)
      BY <1>7, <1>21, <3>1 DEF Initialized
    <3> QED BY <1>18, <1>21, <3>1, <3>2 DEF FamilyInv, BornInv
  <2> QED BY <2>1, <2>2
<1>23. LeavingInv'
  <2> SUFFICES ASSUME NEW d \in leaving
               PROVE  /\ d \in live' /\ d # FirstRoot
                      /\ \E n \in Msgs(queue'[parent'[d]]) : AsksToGo(d, n)
    BY <1>1 DEF LeavingInv, AsksToGo
  <2>1. d \in live /\ d # FirstRoot /\ \E n \in Msgs(queue[parent[d]]) : AsksToGo(d, n)
    BY DEF FamilyInv, LeavingInv
  <2> QED BY <1>1, <1>7, <1>21, <2>1 DEF AsksToGo
<1> QED BY <1>8, <1>9, <1>10, <1>11, <1>14, <1>15, <1>17, <1>19, <1>20, <1>22, <1>23 DEF FamilyInv

\* What goes with c: all below it, and nothing else.
LEMMA GoneFacts ==
  ASSUME FamilyTypeOK, TreeInv, NEW p \in live, NEW c \in Children(p), NEW G, G = Subtree(c)
  PROVE  /\ c \in G /\ G \subseteq live /\ p \notin G /\ FirstRoot \notin G
         /\ \A r \in G : Children(r) \subseteq G
         /\ \A d \in G : d # c => parent[d] \in G
<1>1. /\ p \in Picos /\ NoPico \notin Picos /\ live \subseteq Picos
      /\ c \in live /\ parent[c] = p /\ FirstRoot \in live /\ parent[FirstRoot] = NoPico
  BY FamilyAssumption DEF FamilyTypeOK, TreeInv, Children
<1>2. c \in G /\ G \subseteq live /\ p \notin G
  BY <1>1 DEF Subtree, TreeInv
<1>3. FirstRoot \notin G
  <2> DEFINE F == live \ {FirstRoot}
  <2>1. F \in SUBSET live /\ c \in F /\ FirstRoot \notin F /\ \A r \in F : Children(r) \subseteq F
    BY <1>1 DEF Children
  <2> HIDE DEF F
  <2> QED BY <2>1 DEF Subtree
<1>4. ASSUME NEW r \in G, NEW d \in Children(r) PROVE d \in G
  <2>1. d \in live /\ r \in live
    BY <1>2, <1>4 DEF Children
  <2>2. SUFFICES ASSUME NEW F \in SUBSET live, c \in F, \A q \in F : Children(q) \subseteq F
                 PROVE  d \in F
    BY <2>1 DEF Subtree
  <2>3. r \in F
    BY <1>4, <2>2 DEF Subtree
  <2> QED BY <1>4, <2>2, <2>3
<1>5. ASSUME NEW d \in G, d # c, parent[d] \notin G PROVE FALSE
  <2> DEFINE F == G \ {d}
  <2>1. F \in SUBSET live /\ c \in F /\ d \notin F
    BY <1>2, <1>5
  <2>2. \A r \in F : Children(r) \subseteq F
    BY <1>4, <1>5 DEF Children
  <2> HIDE DEF F
  <2> QED BY <1>5, <2>1, <2>2 DEF Subtree
<1> QED BY <1>2, <1>3, <1>4, <1>5

\* What is left is a tree.
LEMMA CutTree ==
  ASSUME TreeInv, parent' = parent, NEW G, live' = live \ G
  PROVE  \A d \in live' : parent'[d] \notin Subtree(d)'
<1> SUFFICES ASSUME NEW d \in live', parent[d] \in live' PROVE parent[d] \notin Subtree(d)'
  BY DEF Subtree
<1>1. PICK F \in SUBSET live :
        d \in F /\ parent[d] \notin F /\ \A r \in F : Children(r) \subseteq F
  BY DEF Subtree, TreeInv
<1> DEFINE E == F \ G
<1>2. E \in SUBSET live' /\ d \in E /\ parent[d] \notin E
  BY <1>1
<1>3. \A r \in E : Children(r)' \subseteq E
  BY <1>1 DEF Children
<1> HIDE DEF E
<1> QED BY <1>2, <1>3 DEF Subtree

\* p deletes its child c, on the message h, and everything below it, which is G.
Deleting(p, c, h, G) ==
  /\ p \in live /\ tx[p] = Idle /\ queue[p] # <<>> /\ h = Head(queue[p])
  /\ h.name \in {"child_deletion_request", "del"} /\ h.of = c /\ (\A a \in live : ~Making(a, p))
  /\ c \in Children(p) /\ G = Subtree(c)
  /\ live' = live \ G /\ leaving' = leaving \ G
  /\ \A q \in G : queue'[q] = <<>> /\ tx'[q] = Idle
  /\ \A q \in Picos : q \notin G => queue'[q] = Popped(p)[q]
  /\ \A q \in Picos : q \notin G /\ q # p => tx'[q] = tx[q]
  /\ queue' \in [Picos -> Seq(MessageType)] /\ tx' \in [Picos -> TxType]
  /\ tx'[p].step = "forget" /\ tx'[p].of = c /\ tx'[p].todo = {} /\ ~tx'[p].waits
  /\ UNCHANGED <<parent, uiChannel, known, parentUi, placed, wrangler,
                 told, cut, found, calls, crashes>>

LEMMA DeletingFacts ==
  ASSUME FamilyInv, NEW p \in Picos, NEW c, NEW h, NEW G, Deleting(p, c, h, G)
  PROVE  /\ c \in G /\ G \subseteq live /\ p \notin G /\ FirstRoot \notin G /\ c \in Picos
         /\ parent[c] = p
         /\ \A d \in live' : d # FirstRoot => parent[d] \in live'
         /\ \A a \in live' : \A d \in live : parent[d] = a => d \in live' \/ (a = p /\ d = c)
         /\ \A q \in live' : \A m \in Msgs(queue'[q]) : m \in Msgs(queue[q])
         /\ \A q \in live' : \A m \in Msgs(queue[q]) : m \in Msgs(queue'[q]) \/ (q = p /\ m = h)
         /\ \A q \in live' : Once(queue'[q])
         /\ \A q \in live' : q # p => queue'[q] = queue[q] /\ tx'[q] = tx[q]
         /\ live' \subseteq live /\ live \subseteq Picos /\ FirstRoot \in live
         /\ \A r : Children(r)' \subseteq Children(r)
         /\ \A r \in live' : r # p => Children(r)' = Children(r)
<1>1. /\ live \subseteq Picos /\ FirstRoot \in live /\ queue \in QueueType
      /\ \A q \in live : Once(queue[q]) /\ (q # FirstRoot => parent[q] \in live)
  BY Unpack DEF FamilyInv, TreeInv
<1>2. /\ p \in live /\ queue[p] # <<>> /\ h = Head(queue[p]) /\ c \in Children(p)
      /\ G = Subtree(c) /\ live' = live \ G /\ parent' = parent
      /\ \A q \in Picos : q \notin G => queue'[q] = Popped(p)[q]
      /\ \A q \in Picos : q \notin G /\ q # p => tx'[q] = tx[q]
  BY DEF Deleting
<1>3. /\ c \in G /\ G \subseteq live /\ p \notin G /\ FirstRoot \notin G
      /\ \A r \in G : Children(r) \subseteq G
      /\ \A d \in G : d # c => parent[d] \in G
  BY <1>2, GoneFacts DEF FamilyInv
<1>4. c \in Picos /\ parent[c] = p
  BY <1>1, <1>2 DEF Children
<1>5. \A d \in live' : d # FirstRoot => parent[d] \in live'
  BY <1>1, <1>2, <1>3 DEF Children
<1>6. \A a \in live' : \A d \in live : parent[d] = a => d \in live' \/ (a = p /\ d = c)
  BY <1>2, <1>3, <1>4
<1>7. /\ \A r \in Picos : r # p => Popped(p)[r] = queue[r]
      /\ Cut(queue[p], Popped(p)[p])
  BY <1>1, <1>2, PoppedFacts
<1>8. /\ \A m \in Msgs(Popped(p)[p]) : m \in Msgs(queue[p])
      /\ \A m \in Msgs(queue[p]) : m \in Msgs(Popped(p)[p]) \/ m = h
      /\ Once(Popped(p)[p])
  BY <1>1, <1>2, <1>7 DEF Cut
<1>9. \A q \in live' : /\ q # p => queue'[q] = queue[q] /\ tx'[q] = tx[q]
                       /\ q = p => queue'[q] = Popped(p)[p]
  BY <1>1, <1>2, <1>7
<1>10. \A q \in live' :
         /\ \A m \in Msgs(queue'[q]) : m \in Msgs(queue[q])
         /\ \A m \in Msgs(queue[q]) : m \in Msgs(queue'[q]) \/ (q = p /\ m = h)
         /\ Once(queue'[q])
  <2> SUFFICES ASSUME NEW q \in live'
               PROVE /\ \A m \in Msgs(queue'[q]) : m \in Msgs(queue[q])
                     /\ \A m \in Msgs(queue[q]) : m \in Msgs(queue'[q]) \/ (q = p /\ m = h)
                     /\ Once(queue'[q])
    OBVIOUS
  <2>1. CASE q = p
    BY <1>8, <1>9, <2>1
  <2>2. CASE q # p
    BY <1>1, <1>2, <1>9, <2>2
  <2> QED BY <2>1, <2>2
<1>11. /\ \A r : Children(r)' \subseteq Children(r)
       /\ \A r \in live' : r # p => Children(r)' = Children(r)
  BY <1>2, <1>6 DEF Children
<1> QED BY <1>1, <1>2, <1>3, <1>4, <1>5, <1>6, <1>9, <1>10, <1>11

LEMMA DeletingStep ==
  ASSUME FamilyInv, NEW p \in Picos, NEW c, NEW h, NEW G, Deleting(p, c, h, G) PROVE FamilyInv'
<1>1. /\ p \in live /\ tx[p] = Idle /\ queue[p] # <<>> /\ h = Head(queue[p])
      /\ h.name \in {"child_deletion_request", "del"} /\ h.of = c
      /\ \A a \in live : ~Making(a, p)
  BY DEF Deleting
<1>2. /\ live' = live \ G /\ leaving' = leaving \ G
      /\ \A q \in Picos : q \notin G /\ q # p => tx'[q] = tx[q]
      /\ \A q \in G : tx'[q] = Idle
      /\ tx'[p].step = "forget" /\ tx'[p].of = c /\ tx'[p].todo = {} /\ ~tx'[p].waits
      /\ UNCHANGED <<parent, uiChannel, known, parentUi, placed, wrangler,
                     told, cut, found, calls, crashes>>
  BY DEF Deleting
<1>3. /\ c \in G /\ G \subseteq live /\ p \notin G /\ FirstRoot \notin G /\ c \in Picos
      /\ parent[c] = p /\ p \in live'
      /\ \A d \in live' : d # FirstRoot => parent[d] \in live'
      /\ \A a \in live' : \A d \in live : parent[d] = a => d \in live' \/ (a = p /\ d = c)
      /\ live' \subseteq live /\ live \subseteq Picos /\ FirstRoot \in live
  BY <1>1, <1>2, DeletingFacts
<1>4. /\ \A q \in live' : \A m \in Msgs(queue'[q]) : m \in Msgs(queue[q])
      /\ \A q \in live' : \A m \in Msgs(queue[q]) : m \in Msgs(queue'[q]) \/ (q = p /\ m = h)
      /\ \A q \in live' : Once(queue'[q])
      /\ \A q \in live' : q # p => queue'[q] = queue[q] /\ tx'[q] = tx[q]
  BY DeletingFacts
<1>5. /\ \A r : Children(r)' \subseteq Children(r)
      /\ \A r \in live' : r # p => Children(r)' = Children(r) /\ Left(r)' = Left(r)
  BY <1>4, DeletingFacts DEF Left
<1>6. FamilyTypeOK'
  <2>1. queue' \in [Picos -> Seq(MessageType)] /\ tx' \in [Picos -> TxType]
    BY DEF Deleting
  <2> QED BY <1>2, <1>3, <2>1 DEF FamilyInv, FamilyTypeOK
<1>7. TreeInv'
  <2>1. \A d \in live' : parent'[d] \notin Subtree(d)'
    BY <1>2, CutTree DEF FamilyInv
  <2>2. \A q \in Picos : q \notin Used => tx'[q] = tx[q]
    BY <1>1, <1>2, <1>3 DEF FamilyInv, TreeInv
  <2>3. Used' = Used
    BY <1>2 DEF Used
  <2> QED BY <1>2, <1>3, <2>1, <2>2, <2>3 DEF FamilyInv, TreeInv
<1>8. QuestionInv'
  <2> SUFFICES ASSUME NEW q \in live', NEW n \in Msgs(queue'[q]), IsQuestion(n)
               PROVE  /\ n.from \in Used
                      /\ n.name = "setup" => parent[q] = n.from
                      /\ n.from \in live' =>
                           /\ tx'[n.from].waits /\ Asked(n.from)' = q
                           /\ n.name = "setup" <=> tx'[n.from].step = "bootstrap"
    BY <1>2, <1>4 DEF QuestionInv, Used
  <2>1. /\ n.from \in Used
        /\ n.name = "setup" => parent[q] = n.from
        /\ n.from \in live =>
             /\ tx[n.from].waits /\ Asked(n.from) = q
             /\ n.name = "setup" <=> tx[n.from].step = "bootstrap"
    BY <1>3, <1>4 DEF FamilyInv, QuestionInv
  <2>2. n.from \in live' => n.from \in live /\ tx'[n.from] = tx[n.from]
    BY <1>1, <1>3, <1>4, <2>1, IdleTx
  <2> QED BY <1>2, <2>1, <2>2 DEF Asked
<1>9. MakingInv'
  <2> SUFFICES ASSUME NEW a \in live', NEW d \in Picos, Making(a, d)' PROVE Made(a, d)'
    BY DEF MakingInv
  <2>1. a # p
    BY <1>2 DEF Making
  <2>2. a \in live /\ tx'[a] = tx[a] /\ Making(a, d)
    BY <1>3, <1>4, <2>1 DEF Making
  <2>3. Made(a, d)
    BY <2>2 DEF FamilyInv, MakingInv
  <2>4. d # p /\ d \in live'
    BY <1>1, <1>3, <2>1, <2>2, <2>3 DEF Made
  <2> QED BY <1>2, <1>4, <2>2, <2>3, <2>4 DEF Made
<1>10. WorkInv'
  <2> SUFFICES ASSUME NEW a \in live' PROVE Works(a)'
    BY DEF WorkInv
  <2>1. CASE a = p
    BY <1>2, <1>3, <2>1 DEF Works, WaitsDown
  <2>2. CASE a # p
    <3>1. Works(a) /\ tx'[a] = tx[a]
      BY <1>3, <1>4, <2>2, OfPico
    <3> QED BY <1>2, <1>3, <1>5, <2>2, <3>1 DEF Works, WaitsDown
  <2> QED BY <2>1, <2>2
<1>11. \A d \in live' : d # FirstRoot =>
         /\ parent[d] \in live' /\ d \in live
         /\ Booting(parent[d], d) => Booting(parent[d], d)' /\ tx'[parent[d]] = tx[parent[d]]
  <2> SUFFICES ASSUME NEW d \in live', d # FirstRoot, Booting(parent[d], d)
               PROVE  Booting(parent[d], d)' /\ tx'[parent[d]] = tx[parent[d]]
    BY <1>3
  <2>1. parent[d] \in live' /\ parent[d] # p
    BY <1>1, <1>3, IdleTx DEF Booting
  <2> QED BY <1>2, <1>4, <2>1 DEF Booting
<1>12. UiInv'
  <2>1. \A a \in live' : crashes = 0 /\ tx'[a].step = "backfill" => Left(a)' = {}
    <3> SUFFICES ASSUME NEW a \in live', crashes = 0, tx'[a].step = "backfill" PROVE Left(a)' = {}
      OBVIOUS
    <3>1. a # p
      BY <1>2
    <3> QED BY <1>3, <1>4, <1>5, <3>1 DEF FamilyInv, UiInv
  <2> QED BY <1>2, <1>11, <2>1 DEF FamilyInv, UiInv
<1>13. /\ Starting => Starting'
       /\ p = FirstRoot => ~Starting
  <2>1. p = FirstRoot => ~Starting
    BY <1>1, OfPico
  <2> QED BY <1>2, <1>3, <1>4, <2>1 DEF Starting
<1>14. KnownInv'
  <2> SUFFICES ASSUME NEW a \in live' PROVE KnownOf(a)'
    BY DEF KnownInv
  <2>1. KnownOf(a) /\ a \in live
    BY <1>3, OfPico
  <2>2. \A d \in known[a] : d \in live => d \in live' \/ (a = p /\ d = c)
    BY <1>3, <2>1 DEF KnownOf
  <2>3. CASE a = p
    <3>1. \A d : ~Making(p, d)
      BY <1>1, IdleTx DEF Making
    <3> QED BY <1>1, <1>2, <1>5, <1>13, <2>1, <2>2, <2>3, <3>1, IdleTx
            DEF KnownOf, Sound, Repairing
  <2>4. CASE a # p
    <3>1. tx'[a] = tx[a]
      BY <1>4, <2>4
    <3> QED BY <1>2, <1>5, <1>13, <2>1, <2>2, <2>4, <3>1
            DEF KnownOf, Sound, Repairing, Making
  <2> QED BY <2>3, <2>4
<1>15. \A d \in live' : /\ Waits(d, "layout") => Waits(d, "layout")'
                        /\ Waits(d, "pico_created") => Waits(d, "pico_created")'
  BY <1>1, <1>4 DEF Waits
<1>16. PlacedInv'
  <2> SUFFICES ASSUME NEW a \in live' PROVE PlacedOf(a)'
    BY DEF PlacedInv
  <2>1. PlacedOf(a) /\ a \in live /\ \A d \in Children(a)' : d \in Children(a) /\ d \in live'
    BY <1>3, <1>5, OfPico DEF Children
  <2>2. CASE a = p
    BY <1>1, <1>2, <1>13, <1>15, <2>1, <2>2, IdleTx DEF PlacedOf, Sound, Repairing
  <2>3. CASE a # p
    <3>1. tx'[a] = tx[a]
      BY <1>4, <2>3
    <3> QED BY <1>2, <1>5, <1>13, <1>15, <2>1, <2>3, <3>1 DEF PlacedOf, Sound, Repairing
  <2> QED BY <2>2, <2>3
<1>17. LayoutInv'
  <2> SUFFICES ASSUME NEW d \in live', d # FirstRoot, Sound(parent[d])
               PROVE  /\ d \in placed => d \in parentUi
                      /\ \A n \in Msgs(queue'[d]) : n.name = "layout" => n.from = parent[d]
    BY <1>2 DEF LayoutInv, Sound
  <2> QED BY <1>3, <1>4 DEF FamilyInv, LayoutInv
<1>18. BornInv'
  <2> SUFFICES ASSUME NEW d \in live', d # FirstRoot
               PROVE  /\ crashes = 0 => \/ wrangler[d] = "child"
                                        \/ Waits(d, "pico_created")'
                                        \/ Booting(parent[d], d)'
                      /\ \/ d \in told \cup cut
                         \/ Waits(d, "pico_created")'
                         \/ Booting(parent[d], d)'
                         \/ \E n \in Msgs(queue'[parent[d]]) : Initialized(d, n)
    BY <1>2 DEF BornInv, Initialized
  <2>1. (\E n \in Msgs(queue[parent[d]]) : Initialized(d, n)) =>
          \E n \in Msgs(queue'[parent[d]]) : Initialized(d, n)
    BY <1>1, <1>4, <1>11 DEF Initialized
  <2> QED BY <1>11, <1>15, <2>1 DEF FamilyInv, BornInv
<1>19. LeavingInv'
  <2> SUFFICES ASSUME NEW d \in leaving, d \notin G
               PROVE  /\ d \in live' /\ d # FirstRoot
                      /\ \E n \in Msgs(queue'[parent[d]]) : AsksToGo(d, n)
    BY <1>2 DEF LeavingInv, AsksToGo
  <2>1. d \in live /\ d # FirstRoot /\ \E n \in Msgs(queue[parent[d]]) : AsksToGo(d, n)
    BY DEF FamilyInv, LeavingInv
  <2>2. PICK n \in Msgs(queue[parent[d]]) : AsksToGo(d, n)
    BY <2>1
  <2>3. d \in live' /\ parent[d] \in live' /\ n # h
    BY <1>1, <1>2, <1>3, <2>1, <2>2 DEF AsksToGo
  <2> QED BY <1>4, <2>1, <2>2, <2>3
<1> QED BY <1>6, <1>7, <1>8, <1>9, <1>10, <1>12, <1>14, <1>16, <1>17, <1>18, <1>19 DEF FamilyInv

\* The step deletes, or takes a message that names no child of p's.
LEMMA DeleteEffect ==
  ASSUME FamilyInv, NEW p \in Picos, DeleteChild(p)
  PROVE  \/ \E c, h, G : Deleting(p, c, h, G)
         \/ \E h :
              /\ p \in live /\ tx[p] = Idle /\ queue[p] # <<>> /\ h = Head(queue[p])
              /\ h.name \in {"child_deletion_request", "del"}
              /\ h.name = "child_deletion_request" => h.of \notin Children(p)
              /\ queue' = Popped(p)
              /\ UNCHANGED <<parent, live, uiChannel, known, parentUi, placed, wrangler, tx,
                             told, leaving, cut, found, calls, crashes>>
<1> DEFINE h == Head(queue[p])
           gone == IF h.of \in Children(p) /\ Deletes(p, h) THEN Subtree(h.of) ELSE {}
<1>1. PICK name \in {"child_deletion_request", "del"} :
        /\ Begins(p, name)
        /\ live' = live \ gone
        /\ leaving' = leaving \ gone
        /\ queue' = [q \in Picos |-> IF q \in gone THEN <<>> ELSE Popped(p)[q]]
        /\ tx' = [q \in Picos |->
                    CASE q = p /\ gone # {} -> Running("forget", h.of, {})
                      [] q \in gone -> Idle
                      [] OTHER -> tx[q]]
        /\ UNCHANGED <<parent, uiChannel, known, parentUi, placed, wrangler,
                       told, cut, found, calls, crashes>>
  BY DEF DeleteChild
<1>2. /\ p \in live /\ tx[p] = Idle /\ queue[p] # <<>>
      /\ h.name \in {"child_deletion_request", "del"}
      /\ \A a \in live : ~Making(a, p)
  BY <1>1, BeginsFacts
<1>3. /\ queue \in QueueType /\ live \subseteq Picos /\ tx \in [Picos -> TxType]
      /\ Popped(p) \in QueueType
  BY <1>2, Unpack, PoppedFacts
<1>4. CASE h.of \in Children(p) /\ Deletes(p, h)
  <2>1. PICK c : c = h.of
    OBVIOUS
  <2>2. PICK G : G = Subtree(c)
    OBVIOUS
  <2>3. gone = G /\ c \in Children(p)
    BY <1>4, <2>1, <2>2
  <2>4. c \in G /\ p \notin G /\ G \subseteq live
    BY <1>2, <2>2, <2>3, GoneFacts DEF FamilyInv
  <2> DEFINE t == Running("forget", c, {})
  <2>5. /\ live' = live \ G /\ leaving' = leaving \ G
        /\ queue' = [q \in Picos |-> IF q \in G THEN <<>> ELSE Popped(p)[q]]
        /\ tx' = [q \in Picos |-> CASE q = p /\ G # {} -> t
                                    [] q \in G -> Idle
                                    [] OTHER -> tx[q]]
    BY <1>1, <2>1, <2>3
  <2>6. t \in TxType /\ t.step = "forget" /\ t.of = c /\ t.todo = {} /\ ~t.waits
    BY <1>3, <2>4, RunningTx
  <2> HIDE DEF gone, t
  <2>7. /\ tx'[p] = t /\ tx' \in [Picos -> TxType]
        /\ \A q \in G : tx'[q] = Idle
        /\ \A q \in Picos : q \notin G /\ q # p => tx'[q] = tx[q]
    <3>1. tx' = [q \in Picos |-> IF q = p THEN t ELSE IF q \in G THEN Idle ELSE tx[q]]
      BY <2>4, <2>5
    <3> QED BY <1>3, <2>4, <2>6, <3>1, IdleTx
  <2>8. /\ queue' \in [Picos -> Seq(MessageType)]
        /\ \A q \in G : queue'[q] = <<>>
        /\ \A q \in Picos : q \notin G => queue'[q] = Popped(p)[q]
    BY <1>3, <2>4, <2>5 DEF QueueType
  <2>9. Deleting(p, c, h, G)
    BY <1>1, <1>2, <2>1, <2>2, <2>3, <2>5, <2>6, <2>7, <2>8 DEF Deleting
  <2> QED BY <2>9
<1>5. CASE ~(h.of \in Children(p) /\ Deletes(p, h))
  <2>1. gone = {}
    BY <1>5
  <2>2. live' = live /\ leaving' = leaving /\ queue' = Popped(p) /\ tx' = tx
    BY <1>1, <1>3, <2>1 DEF QueueType
  <2>3. h.name = "child_deletion_request" => h.of \notin Children(p)
    BY <1>5 DEF Deletes
  <2> HIDE DEF gone
  <2> QED BY <1>1, <1>2, <2>2, <2>3
<1> QED BY <1>4, <1>5

LEMMA StepDeleteChild ==
  ASSUME FamilyInv, NEW p \in Picos, DeleteChild(p) PROVE FamilyInv'
<1>1. ASSUME NEW h, p \in live, tx[p] = Idle, queue[p] # <<>>, h = Head(queue[p]),
             h.name \in {"child_deletion_request", "del"},
             h.name = "child_deletion_request" => h.of \notin Children(p),
             queue' = Popped(p),
             UNCHANGED <<parent, live, uiChannel, known, parentUi, placed, wrangler, tx,
                         told, leaving, cut, found, calls, crashes>>
      PROVE  FamilyInv'
  <2>1. HandledQueue(p, h) /\ queue' \in QueueType
    BY <1>1, PopHandled
  <2>2. FamilyTypeOK'
    BY <1>1, <2>1 DEF FamilyInv, FamilyTypeOK, QueueType
  <2> QED BY <1>1, <2>1, <2>2, HandledStep DEF IsQuestion
<1> QED BY <1>1, DeleteEffect, DeletingStep

-----------------------------------------------------------------------------
(* Every step keeps the invariant, and it says what the properties say.     *)

LEMMA StepOf == ASSUME FamilyInv, NEW p \in Picos, FamilyStep(p) PROVE FamilyInv'
<1>1. CASE CreateChild(p)
  BY <1>1, StepCreateChild
<1>2. CASE CreateChildFails(p)
  BY <1>2, StepCreateChildFails
<1>3. CASE Bootstrap(p)
  BY <1>3, StepBootstrap
<1>4. CASE RememberChild(p)
  BY <1>4, StepRememberChild
<1>5. CASE Setup(p)
  BY <1>5, StepAnswer
<1>6. CASE InitializeChild(p)
  BY <1>6, StepInitializeChild
<1>7. CASE Box(p)
  BY <1>7, StepBox
<1>8. CASE ChildInitialized(p)
  BY <1>8, StepChildInitialized
<1>9. CASE DeleteChild(p)
  BY <1>9, StepDeleteChild
<1>10. CASE ForgetChild(p)
  BY <1>10, StepForgetChild
<1>11. CASE InitiateDeletion(p)
  BY <1>11, StepInitiateDeletion
<1>12. CASE BeginChildren(p)
  BY <1>12, StepBeginChildren
<1>13. CASE BeginStarted(p)
  BY <1>13, StepBeginStarted
<1>14. CASE AskChild(p)
  BY <1>14, StepAskChild
<1>15. CASE Answer(p)
  BY <1>15, StepAnswer
<1>16. CASE UseAnswer(p)
  BY <1>16, StepUseAnswer
<1>17. CASE EndChildren(p)
  BY <1>17, StepEndChildren
<1>18. CASE BeginBackfill(p)
  BY <1>18, StepBeginBackfill
<1>19. CASE PruneStale(p)
  BY <1>19, StepPruneStale
<1>20. CASE LearnParentUi(p)
  BY <1>20, StepLearnParentUi
<1> QED BY <1>1, <1>2, <1>3, <1>4, <1>5, <1>6, <1>7, <1>8, <1>9, <1>10, <1>11, <1>12, <1>13,
           <1>14, <1>15, <1>16, <1>17, <1>18, <1>19, <1>20 DEF FamilyStep

\* Nothing changes while no variable of the families does.
LEMMA FamilyStays == FamilyInv /\ UNCHANGED familyVars => FamilyInv'
<1> SUFFICES ASSUME FamilyInv, UNCHANGED familyVars PROVE FamilyInv'
  OBVIOUS
<1>1. /\ UNCHANGED <<parent, live, uiChannel, known, parentUi, placed, wrangler>>
      /\ UNCHANGED <<queue, tx, told, leaving, cut, found, calls, crashes>>
  BY DEF familyVars, persisted, history
<1>2. FamilyTypeOK' /\ WorkInv' /\ UiInv' /\ LayoutInv'
  BY <1>1 DEF FamilyInv, FamilyTypeOK, WorkInv, Works, WaitsDown, Left, Children, UiInv, Booting,
              LayoutInv, Sound
<1>3. TreeInv' /\ QuestionInv' /\ MakingInv'
  <2>1. \A c : Subtree(c)' = Subtree(c)
    BY <1>1 DEF Subtree, Children
  <2>2. TreeInv'
    BY <1>1, <2>1 DEF FamilyInv, TreeInv, Used
  <2>3. QuestionInv' /\ MakingInv'
    BY <1>1 DEF FamilyInv, QuestionInv, Used, Asked, MakingInv, Making, Made
  <2> QED BY <2>2, <2>3
<1>4. KnownInv' /\ PlacedInv'
  BY <1>1 DEF FamilyInv, KnownInv, KnownOf, PlacedInv, PlacedOf, Sound, Repairing, Starting,
              Making, Left, Children, Waits
<1>5. BornInv' /\ LeavingInv'
  BY <1>1 DEF FamilyInv, BornInv, LeavingInv, Waits, Booting, Initialized, AsksToGo
<1> QED BY <1>2, <1>3, <1>4, <1>5 DEF FamilyInv

LEMMA FamilyKept == FamilySpec => []FamilyInv
<1>1. FamilyInit => FamilyInv
  BY FirstState
<1>2. FamilyInv /\ [FamilyNext]_familyVars => FamilyInv'
  <2> SUFFICES ASSUME FamilyInv, FamilyNext PROVE FamilyInv'
    BY FamilyStays
  <2>1. CASE Crash
    BY <2>1, StepCrash
  <2>2. ASSUME NEW p \in Picos, FamilyStep(p) \/ Request(p) PROVE FamilyInv'
    BY <2>2, StepOf, StepRequest
  <2> QED BY <2>1, <2>2 DEF FamilyNext
<1> QED BY <1>1, <1>2, PTL DEF FamilySpec

\* Every variable of the families keeps its type: in particular nobody is told
\* of a child that is no pico, and a deletion under way is one of a live pico.
THEOREM FamilyTypeCorrect == FamilySpec => []FamilyTypeOK
<1>1. FamilyInv => FamilyTypeOK
  BY DEF FamilyInv
<1> QED BY <1>1, FamilyKept, PTL

\* When nothing is in progress parent and child know each other, as far as
\* crashes allow and the rules on engine:started make good.
THEOREM KnowsItsFamilyCorrect == FamilySpec => []KnowsItsFamily
<1>1. ASSUME FamilyInv, AtRest PROVE KnowsItsFamily
  <2> SUFFICES ASSUME NEW p \in live
               PROVE  /\ crashes = 0 =>
                           /\ known[p] = Children(p)
                           /\ \A c \in Children(p) :
                                wrangler[c] = "child" /\ c \in parentUi \cap placed
                      /\ p = FirstRoot =>
                           /\ known[p] = Children(p) \cap uiChannel
                           /\ known[p] \ found \subseteq parentUi \cap placed
    BY DEF KnowsItsFamily
  <2>1. /\ live \subseteq Picos /\ p \in Picos /\ KnownOf(p) /\ PlacedOf(p)
        /\ \A c \in Children(p) : c \in live /\ parent[c] = p /\ c # FirstRoot
        /\ crashes = 0 => found = {}
        /\ known[p] \subseteq Picos
    BY OfPico, Unpack, <1>1, SameKnown DEF FamilyInv, FamilyTypeOK
  <2>2. \A q \in Picos : /\ tx[q] = Idle /\ tx[q].step = "idle" /\ ~tx[q].waits
                         /\ queue[q] = <<>> /\ \A name : ~Waits(q, name)
    BY <1>1, IdleTx, SeqEmpty DEF AtRest, Waits
  <2>3. \A s : ~Repairing(p, s) \/ (crashes > 0 /\ tx[p].step \in s)
    BY <2>1, <2>2 DEF Repairing, Starting
  <2>4. Sound(p) => known[p] = Children(p) \cap uiChannel
    <3>1. \A c : ~Making(p, c)
      BY <2>1, <2>2 DEF Making
    <3>2. Sound(p) => \A c \in known[p] : c \in live /\ parent[c] = p /\ c \in uiChannel
      BY <2>1, <2>2, <2>3 DEF KnownOf
    <3>3. Sound(p) => \A c \in Children(p) \cap uiChannel : c \in known[p]
      BY <2>1, <2>2, <2>3, <3>1 DEF KnownOf
    <3> QED BY <3>2, <3>3 DEF Children
  <2>5. Sound(p) => known[p] \ found \subseteq parentUi \cap placed
    <3> SUFFICES ASSUME Sound(p), NEW c \in known[p] \ found PROVE c \in parentUi \cap placed
      OBVIOUS
    <3>1. c \in Children(p) /\ c \in live /\ parent[c] = p /\ c # FirstRoot
      BY <2>1, <2>4
    <3>2. c \in placed
      BY <2>1, <2>2, <2>3, <3>1 DEF PlacedOf
    <3>3. c \in parentUi
      BY <1>1, <3>1, <3>2 DEF FamilyInv, LayoutInv
    <3> QED BY <3>2, <3>3
  <2>6. ASSUME crashes = 0, NEW c \in Children(p) PROVE c \in uiChannel /\ wrangler[c] = "child"
    <3>1. c \in live /\ parent[c] = p /\ c # FirstRoot
      BY <2>1
    <3>2. ~Booting(p, c)
      BY <2>1, <2>2 DEF Booting
    <3>3. c \in uiChannel
      BY <1>1, <2>6, <3>1, <3>2 DEF FamilyInv, UiInv
    <3>4. wrangler[c] = "child"
      BY <1>1, <2>1, <2>2, <2>6, <3>1, <3>2 DEF FamilyInv, BornInv
    <3> QED BY <3>3, <3>4
  <2>7. crashes = 0 \/ p = FirstRoot => Sound(p)
    BY DEF Sound
  <2> QED BY <2>1, <2>4, <2>5, <2>6, <2>7
<1>2. FamilyInv => KnowsItsFamily
  BY <1>1 DEF KnowsItsFamily
<1> QED BY <1>2, FamilyKept, PTL

\* When nothing is in progress every child's wrangler:child_initialized has
\* reached its parent and every child that asked for its deletion is gone, but
\* for those that a crash met on the way.
THEOREM RequestsServedCorrect == FamilySpec => []RequestsServed
<1>1. ASSUME FamilyInv, AtRest PROVE live \ {FirstRoot} \subseteq told \cup cut /\ leaving = {}
  <2>1. \A q \in Picos : /\ tx[q].step = "idle" /\ queue[q] = <<>> /\ Msgs(queue[q]) = {}
                         /\ \A name : ~Waits(q, name)
    BY <1>1, IdleTx, SeqEmpty DEF AtRest, Waits
  <2>2. \A c \in live : c # FirstRoot => c \in Picos /\ parent[c] \in live /\ parent[c] \in Picos
    BY <1>1, Unpack
  <2>3. \A c \in live : c # FirstRoot => ~Booting(parent[c], c)
    BY <2>1, <2>2 DEF Booting
  <2>4. \A c \in live : c # FirstRoot => c \in told \cup cut
    BY <1>1, <2>1, <2>2, <2>3 DEF FamilyInv, BornInv
  <2>5. \A c \in leaving : FALSE
    BY <1>1, <2>1, <2>2 DEF FamilyInv, LeavingInv
  <2> QED BY <2>4, <2>5
<1>2. FamilyInv => RequestsServed
  BY <1>1 DEF RequestsServed
<1> QED BY <1>2, FamilyKept, PTL

-----------------------------------------------------------------------------
(* Who waits for whom, and that somebody can go on.                         *)

\* p's question is in the queue of the pico that p waits for.
Asks(p) == Asked(p) \in live /\ \E m \in Msgs(queue[Asked(p)]) : IsQuestion(m) /\ m.from = p
AwaitInv == \A p \in live : tx[p].waits => Asks(p)

\* With each pico that waits for a child, the child.
Closed(picos) == \A s \in picos : WaitsDown(s) => Asked(s) \in picos

\* Nowhere does everybody wait for a child of its own.
FreeInv ==
  \A picos \in SUBSET live : picos # {} /\ Closed(picos) => \E r \in picos : ~WaitsDown(r)

\* Questions of those who still wait are not lost.
KeepsQuestions ==
  \A q \in live : q \in live' => \A m \in Msgs(queue[q]) :
    IsQuestion(m) /\ m.from \in live' /\ tx'[m.from].waits => m \in Msgs(queue'[q])

\* In a step nobody begins to wait, or p asks q, which may be new.
NobodyAsks ==
  /\ live' \subseteq live /\ KeepsQuestions
  /\ \A r \in live' : tx'[r].waits =>
       tx'[r] = tx[r] /\ parent'[r] = parent[r] /\ Asked(r) \in live'
BeginsToAsk(p, q) ==
  /\ p \in live /\ live' = live \cup {q} /\ KeepsQuestions
  /\ \A r \in live : parent'[r] = parent[r] /\ (r # p => tx'[r] = tx[r])
  /\ q \in live \/ ~tx'[q].waits
  /\ tx'[p].waits /\ Asks(p)' /\ Asked(p)' = q
  /\ tx'[p].step = "parent" \/ parent'[q] = p

LEMMA AwaitStep ==
  ASSUME AwaitInv, NobodyAsks \/ \E p, q : BeginsToAsk(p, q)
  PROVE  AwaitInv'
<1> SUFFICES ASSUME NEW r \in live', tx'[r].waits PROVE Asks(r)'
  BY DEF AwaitInv
<1>1. \/ Asks(r)'
      \/ /\ r \in live /\ tx'[r] = tx[r] /\ parent'[r] = parent[r]
         /\ KeepsQuestions /\ Asked(r) \in live'
  <2>1. CASE NobodyAsks
    BY <2>1 DEF NobodyAsks
  <2>2. ASSUME NEW p, NEW q, BeginsToAsk(p, q), r # p
        PROVE  /\ r \in live /\ tx'[r] = tx[r] /\ parent'[r] = parent[r]
               /\ KeepsQuestions /\ Asked(r) \in live'
    BY <2>2 DEF BeginsToAsk, AwaitInv, Asks
  <2>3. ASSUME NEW p, NEW q, BeginsToAsk(p, q), r = p PROVE Asks(r)'
    BY <2>3 DEF BeginsToAsk
  <2> QED BY <2>1, <2>2, <2>3
<1>2. CASE /\ r \in live /\ tx'[r] = tx[r] /\ parent'[r] = parent[r]
           /\ KeepsQuestions /\ Asked(r) \in live'
  <2>1. Asked(r)' = Asked(r)
    BY <1>2 DEF Asked
  <2>2. Asked(r) \in live /\ \E m \in Msgs(queue[Asked(r)]) : IsQuestion(m) /\ m.from = r
    BY <1>2 DEF AwaitInv, Asks
  <2>3. PICK m \in Msgs(queue[Asked(r)]) : IsQuestion(m) /\ m.from = r
    BY <2>2
  <2>4. m \in Msgs(queue'[Asked(r)])
    BY <1>2, <2>2, <2>3 DEF KeepsQuestions
  <2> QED BY <1>2, <2>1, <2>3, <2>4 DEF Asks
<1> QED BY <1>1, <1>2

LEMMA FreeStep ==
  ASSUME FamilyInv, FreeInv, NobodyAsks \/ \E p, q : BeginsToAsk(p, q)
  PROVE  FreeInv'
<1> SUFFICES ASSUME NEW F \in SUBSET live', F # {}, Closed(F)', \A r \in F : WaitsDown(r)'
             PROVE  FALSE
  BY DEF FreeInv
<1>1. CASE NobodyAsks
  <2>1. F \in SUBSET live /\ \A r \in F : WaitsDown(r) /\ Asked(r)' = Asked(r)
    BY <1>1 DEF NobodyAsks, WaitsDown, Asked
  <2>2. Closed(F)
    BY <2>1 DEF Closed
  <2> QED BY <2>1, <2>2 DEF FreeInv
<1>2. ASSUME NEW p, NEW q, BeginsToAsk(p, q) PROVE FALSE
  <2>1. /\ p \in live /\ live' = live \cup {q}
        /\ \A r \in live : parent'[r] = parent[r] /\ (r # p => tx'[r] = tx[r])
        /\ q \in live \/ ~tx'[q].waits
        /\ tx'[p].waits /\ Asked(p)' = q
        /\ tx'[p].step = "parent" \/ parent'[q] = p
    BY <1>2 DEF BeginsToAsk
  <2>2. F \in SUBSET live
    BY <2>1 DEF WaitsDown
  <2>3. \A r \in F : r # p => WaitsDown(r) /\ Asked(r)' = Asked(r)
    BY <2>1, <2>2 DEF WaitsDown, Asked
  <2>4. ASSUME NEW G \in SUBSET F, G # {}, p \notin G, \A r \in G : Asked(r) \in F => Asked(r) \in G
        PROVE  FALSE
    <3>1. \A r \in G : WaitsDown(r) /\ Asked(r) \in F
      BY <2>3, <2>4 DEF Closed
    <3>2. Closed(G)
      BY <2>4, <3>1 DEF Closed
    <3> QED BY <2>2, <2>4, <3>1, <3>2 DEF FreeInv
  <2>5. p \in F
    BY <2>4
  <2>6. q \in F /\ q \in live /\ parent[q] = p
    BY <2>1, <2>2, <2>5 DEF Closed, WaitsDown
  <2> DEFINE S == Subtree(q)
             G == F \cap S
  <2>7. q \in S /\ p \notin S /\ \A r \in S : Children(r) \subseteq S
    <3>1. q \in Children(p)
      BY <2>6 DEF Children
    <3> QED BY <2>1, <3>1, GoneFacts DEF FamilyInv
  <2> HIDE DEF S
  <2>8. \A r \in G : Asked(r) \in F => Asked(r) \in G
    <3> SUFFICES ASSUME NEW r \in G, Asked(r) \in F PROVE Asked(r) \in S
      OBVIOUS
    <3>1. WaitsDown(r) /\ r \in live
      BY <2>2, <2>3, <2>7
    <3>2. Asked(r) \in Children(r)
      BY <3>1, OfPico DEF Works, WaitsDown, Asked
    <3> QED BY <2>7, <3>2
  <2> QED BY <2>4, <2>6, <2>7, <2>8
<1> QED BY <1>1, <1>2

\* No question is lost but the one that is answered.
LEMMA PoppedQuestions ==
  ASSUME FamilyInv, NEW p \in live, queue[p] # <<>>, ~IsQuestion(Head(queue[p]))
  PROVE  /\ Popped(p) \in QueueType
         /\ \A q \in live : \A m \in Msgs(queue[q]) : IsQuestion(m) => m \in Msgs(Popped(p)[q])
<1>1. /\ Popped(p) \in QueueType
      /\ \A r \in Picos : r # p => Popped(p)[r] = queue[r]
      /\ Msgs(queue[p]) = {Head(queue[p])} \cup Msgs(Popped(p)[p])
  BY Unpack, PoppedFacts DEF Cut
<1> QED BY <1>1, Unpack

LEMMA PutMessages ==
  ASSUME FamilyInv, NEW Q \in QueueType, NEW r, NEW m \in MessageType
  PROVE  Put(Q, r, m) \in QueueType /\ \A q \in live : Msgs(Q[q]) \subseteq Msgs(Put(Q, r, m)[q])
<1>1. live \subseteq Picos
  BY Unpack
<1>2. /\ Put(Q, r, m) \in QueueType
      /\ \A q \in Picos : q # r => Put(Q, r, m)[q] = Q[q]
      /\ r \in live => Grown(Q[r], Put(Q, r, m)[r], {m})
  BY <1>1, PutFacts
<1> QED BY <1>1, <1>2 DEF Grown

\* It is enough that p does not wait and others go on as they did.
LEMMA QuietWork ==
  ASSUME FamilyInv, AwaitInv, NEW p \in live, live' = live, parent' = parent,
         \A r \in Picos : r # p => tx'[r] = tx[r], ~tx'[p].waits,
         \A q \in live : \A m \in Msgs(queue[q]) : IsQuestion(m) => m \in Msgs(queue'[q])
  PROVE  NobodyAsks
BY Unpack DEF NobodyAsks, KeepsQuestions, AwaitInv, Asks

LEMMA PopWork ==
  ASSUME FamilyInv, AwaitInv, NEW p \in Picos,
         \/ CreateChildFails(p) \/ Box(p) \/ ChildInitialized(p)
         \/ BeginChildren(p) \/ BeginStarted(p)
  PROVE  NobodyAsks
<1>1. PICK name \in {"new_child_request", "box", "layout", "child_initialized", "children",
                     "started"} : Begins(p, name)
  BY DEF CreateChildFails, Box, ChildInitialized, BeginChildren, BeginStarted
<1>2. p \in live /\ tx[p] = Idle /\ ~tx[p].waits /\ queue[p] # <<>> /\ ~IsQuestion(Head(queue[p]))
  BY <1>1, BeginsFacts DEF IsQuestion
<1>3. live' = live /\ parent' = parent /\ queue' = Popped(p)
  BY DEF CreateChildFails, Box, ChildInitialized, BeginChildren, BeginStarted, persisted
<1>4. PICK t : tx' = [tx EXCEPT ![p] = t] /\ ~t.waits
  <2>1. CASE CreateChildFails(p) \/ Box(p) \/ ChildInitialized(p)
    BY <1>2, <2>1, Unpack DEF CreateChildFails, Box, ChildInitialized
  <2>2. CASE BeginChildren(p)
    BY <2>2, RunningWaits DEF BeginChildren
  <2>3. CASE BeginStarted(p)
    BY <2>3, RunningWaits DEF BeginStarted
  <2> QED BY <2>1, <2>2, <2>3
<1>5. /\ \A r \in Picos : r # p => tx'[r] = tx[r]
      /\ ~tx'[p].waits
  BY <1>4, Unpack
<1> QED BY <1>2, <1>3, <1>5, PoppedQuestions, QuietWork

LEMMA TellWork ==
  ASSUME FamilyInv, AwaitInv, NEW p \in Picos, InitializeChild(p) \/ InitiateDeletion(p)
  PROVE  NobodyAsks
<1>1. PICK name \in {"pico_created", "ready_for_deletion"} : Begins(p, name)
  BY DEF InitializeChild, InitiateDeletion
<1>2. p \in live /\ ~tx[p].waits /\ queue[p] # <<>> /\ ~IsQuestion(Head(queue[p]))
  BY <1>1, BeginsFacts DEF IsQuestion
<1>3. live' = live /\ parent' = parent /\ tx' = tx
  BY DEF InitializeChild, InitiateDeletion, persisted
<1>4. \A q \in live : \A m \in Msgs(queue[q]) : IsQuestion(m) => m \in Msgs(queue'[q])
  <2>1. \/ queue' = Popped(p)
        \/ \E m \in MessageType : queue' = Put(Popped(p), parent[p], m)
    <3>1. /\ Message("child_initialized", p, NoPico) \in MessageType
          /\ Message("child_deletion_request", p, NoPico) \in MessageType
      BY DEF Message, MessageType
    <3> QED BY <3>1 DEF InitializeChild, InitiateDeletion
  <2>2. /\ Popped(p) \in QueueType
        /\ \A q \in live : \A m \in Msgs(queue[q]) : IsQuestion(m) => m \in Msgs(Popped(p)[q])
    BY <1>2, PoppedQuestions
  <2> QED BY <2>1, <2>2, PutMessages
<1> QED BY <1>2, <1>3, <1>4, QuietWork

LEMMA OwnWorkQuiet ==
  ASSUME FamilyInv, AwaitInv, NEW p \in Picos,
         \/ Bootstrap(p) \/ RememberChild(p) \/ ForgetChild(p) \/ UseAnswer(p)
         \/ EndChildren(p) \/ BeginBackfill(p) \/ LearnParentUi(p)
  PROVE  NobodyAsks
<1>1. PICK step \in {"bootstrap", "remember", "forget", "children", "spread", "backfill",
                     "parent"} : At(p, step)
  BY DEF Bootstrap, RememberChild, ForgetChild, UseAnswer, EndChildren, BeginBackfill,
         LearnParentUi
<1>2. p \in live /\ ~tx[p].waits /\ \A a \in live : ~Making(a, p)
  BY <1>1, AtFacts
<1>3. live' = live /\ parent' = parent
  BY DEF Bootstrap, RememberChild, ForgetChild, UseAnswer, EndChildren, BeginBackfill,
         LearnParentUi, persisted
<1>4. /\ \A r \in Picos : r # p => tx'[r] = tx[r]
      /\ ~tx'[p].waits
  <2>1. PICK t : tx' = [tx EXCEPT ![p] = t] /\ ~t.waits
    <3>1. CASE UseAnswer(p)
      BY <3>1, UseAnswerEffect
    <3>2. CASE Bootstrap(p)
      BY <3>2, RunningWaits DEF Bootstrap
    <3>3. CASE BeginBackfill(p)
      BY <3>3, RunningWaits DEF BeginBackfill
    <3>4. CASE RememberChild(p) \/ ForgetChild(p) \/ EndChildren(p) \/ LearnParentUi(p)
      BY <3>4, IdleTx DEF RememberChild, ForgetChild, EndChildren, LearnParentUi
    <3> QED BY <3>1, <3>2, <3>3, <3>4
  <2> QED BY <2>1, Unpack
<1>5. \A q \in live : Msgs(queue[q]) \subseteq Msgs(queue'[q])
  <2>1. UiOf(p) \in Picos \cup {NoPico}
    BY <1>2, HasUi
  <2>2. CASE Bootstrap(p)
    <3> DEFINE a == Message("pico_created", NoPico, p)
               b == Message("box", NoPico, UiOf(p))
               Q == Put(queue, tx[p].of, a)
    <3>1. a \in MessageType /\ b \in MessageType
      BY <2>1 DEF Message, MessageType
    <3>2. queue' = Put(Q, tx[p].of, b)
      BY <2>2 DEF Bootstrap
    <3> HIDE DEF a, b
    <3>3. Q \in QueueType /\ \A q \in live : Msgs(queue[q]) \subseteq Msgs(Q[q])
      BY <3>1, Unpack, PutMessages
    <3> HIDE DEF Q
    <3> QED BY <3>1, <3>2, <3>3, PutMessages
  <2>3. CASE RememberChild(p) \/ UseAnswer(p)
    <3> DEFINE m == Message("layout", NoPico, UiOf(p))
    <3>1. m \in MessageType
      BY <2>1 DEF Message, MessageType
    <3>2. queue' = queue \/ queue' = Put(queue, tx[p].of, m)
      <4>1. CASE UseAnswer(p)
        BY <4>1, UseAnswerEffect
      <4>2. CASE RememberChild(p)
        BY <4>2 DEF RememberChild
      <4> QED BY <2>3, <4>1, <4>2
    <3> HIDE DEF m
    <3> QED BY <3>1, <3>2, Unpack, PutMessages
  <2>4. CASE ForgetChild(p) \/ EndChildren(p) \/ BeginBackfill(p) \/ LearnParentUi(p)
    BY <2>4 DEF ForgetChild, EndChildren, BeginBackfill, LearnParentUi
  <2> QED BY <2>2, <2>3, <2>4
<1> QED BY <1>2, <1>3, <1>4, <1>5, QuietWork

\* p, which did not wait, asks q.
LEMMA AskWork ==
  ASSUME FamilyInv, NEW p \in live, NEW q \in live, NEW t \in TxType,
         live' = live, parent' = parent, tx' = [tx EXCEPT ![p] = t], t.waits,
         queue' = Put(queue, q, Message("ask", NoPico, p)), t.step # "parent" => t.of = q,
         IF t.step = "parent" THEN q = parent[p] ELSE parent[q] = p
  PROVE  BeginsToAsk(p, q)
<1> DEFINE m == Message("ask", NoPico, p)
<1>1. /\ p \in Picos /\ q \in Picos /\ queue \in QueueType /\ tx \in [Picos -> TxType]
      /\ live \subseteq Picos
  BY Unpack
<1>2. m \in MessageType /\ m.name = "ask" /\ m.from = p /\ queue' = Put(queue, q, m)
  BY <1>1 DEF Message, MessageType
<1> HIDE DEF m
<1>3. tx'[p] = t /\ \A r \in Picos : r # p => tx'[r] = tx[r]
  BY <1>1, SetTx
<1>4. Asked(p)' = q
  BY <1>3 DEF Asked
<1>5. \A r \in live : Msgs(queue[r]) \subseteq Msgs(queue'[r])
  BY <1>1, <1>2, PutMessages
<1>6. m \in Msgs(queue'[q])
  <2>1. Grown(queue[q], queue'[q], {m})
    BY <1>1, <1>2, PutFacts
  <2> QED BY <2>1 DEF Grown
<1>7. Asks(p)'
  BY <1>2, <1>4, <1>6 DEF Asks, IsQuestion
<1> QED BY <1>1, <1>3, <1>4, <1>5, <1>7 DEF BeginsToAsk, KeepsQuestions

LEMMA AskChildWork ==
  ASSUME FamilyInv, NEW p \in Picos, AskChild(p) PROVE \E q : BeginsToAsk(p, q)
<1>1. PICK step \in {"children", "spread", "backfill"} :
        /\ At(p, step) /\ tx[p].of = NoPico
        /\ \E c \in tx[p].todo :
             /\ queue' = Put(queue, c, Message("ask", NoPico, p))
             /\ tx' = [tx EXCEPT ![p] = Waiting(step, c, tx[p].todo \ {c})]
  BY DEF AskChild
<1>2. PICK c \in tx[p].todo :
        /\ queue' = Put(queue, c, Message("ask", NoPico, p))
        /\ tx' = [tx EXCEPT ![p] = Waiting(step, c, tx[p].todo \ {c})]
  BY <1>1
<1>3. p \in live /\ tx[p].step = step /\ tx[p].todo \in SUBSET Picos
  BY <1>1, AtFacts
<1>4. c \in live /\ c \in Picos /\ parent[c] = p
  BY <1>1, <1>2, <1>3, OfPico DEF Left, Works
<1>5. live' = live /\ parent' = parent
  BY DEF AskChild, persisted
<1> DEFINE D == tx[p].todo \ {c}
           t == Waiting(step, c, D)
<1>6. tx' = [tx EXCEPT ![p] = t] /\ D \in SUBSET Picos
  BY <1>2, <1>3
<1> HIDE DEF D
<1>7. t \in TxType /\ t.step = step /\ t.of = c /\ t.waits
  BY <1>4, <1>6, RunningTx
<1> HIDE DEF t
<1> QED BY <1>2, <1>3, <1>4, <1>5, <1>6, <1>7, AskWork

LEMMA PruneWork ==
  ASSUME FamilyInv, AwaitInv, NEW p \in Picos, PruneStale(p)
  PROVE  NobodyAsks \/ \E q : BeginsToAsk(p, q)
<1>1. p \in live
  BY AtFacts DEF PruneStale
<1>2. live' = live /\ parent' = parent
  BY DEF PruneStale
<1>3. CASE AsksParent(p)
  <2> DEFINE t == Waiting("parent", NoPico, {})
  <2>1. queue' = Put(queue, parent[p], Message("ask", NoPico, p)) /\ tx' = [tx EXCEPT ![p] = t]
    BY <1>3 DEF PruneStale
  <2>2. t \in TxType /\ t.step = "parent" /\ t.waits
    BY RunningTx
  <2> HIDE DEF t
  <2>3. parent[p] \in live
    BY <1>1, <1>3, Unpack DEF AsksParent, FamilyInv, TreeInv
  <2> QED BY <1>1, <1>2, <2>1, <2>2, <2>3, AskWork
<1>4. CASE ~AsksParent(p)
  <2>1. queue' = queue /\ tx' = [tx EXCEPT ![p] = Idle]
    BY <1>4 DEF PruneStale
  <2>2. ~tx'[p].waits /\ \A r \in Picos : r # p => tx'[r] = tx[r]
    BY <1>1, <2>1, Unpack, IdleTx
  <2> QED BY <1>1, <1>2, <2>1, <2>2, QuietWork
<1> QED BY <1>3, <1>4

\* The answer ends the wait of who asked, and of nobody else.
LEMMA AnswerWork ==
  ASSUME FamilyInv, AwaitInv, NEW p \in Picos, NEW h, Answering(p, h)
  PROVE  NobodyAsks
<1>1. live' = live /\ parent' = parent /\ live \subseteq Picos
  BY Unpack DEF Answering
<1>2. /\ \A r \in Picos : r # h.from \/ ~tx[r].waits => tx'[r] = tx[r]
      /\ ~tx'[h.from].waits
      /\ \A q \in live : \A m \in Msgs(queue[q]) : m \in Msgs(queue'[q]) \/ m = h
  <2>1. /\ \A r \in Picos : r # h.from \/ ~tx[r].waits => tx'[r] = tx[r]
        /\ ~tx'[h.from].waits /\ HandledQueue(p, h)
    BY AnsweringFacts
  <2>2. \A q \in live : \A m \in Msgs(queue[q]) : m \in Msgs(queue'[q]) \/ m = h
    BY <2>1 DEF HandledQueue
  <2> QED BY <2>1, <2>2
<1>3. \A r \in live : tx'[r].waits => r # h.from /\ tx'[r] = tx[r]
  BY <1>1, <1>2
<1> QED BY <1>1, <1>2, <1>3 DEF NobodyAsks, KeepsQuestions, AwaitInv, Asks

\* What a pico asks of its child or its parent is not deleted while it waits.
LEMMA DeleteWork ==
  ASSUME FamilyInv, AwaitInv, NEW p \in Picos, DeleteChild(p)
  PROVE  NobodyAsks
<1>1. CASE \E c, h, G : Deleting(p, c, h, G)
  <2>1. PICK c, h, G : Deleting(p, c, h, G)
    BY <1>1
  <2>2. /\ \A d \in live' : d # FirstRoot => parent[d] \in live'
        /\ \A a \in live' : \A d \in live : parent[d] = a => d \in live' \/ (a = p /\ d = c)
        /\ \A q \in live' : \A m \in Msgs(queue[q]) : m \in Msgs(queue'[q]) \/ (q = p /\ m = h)
        /\ \A q \in live' : q # p => tx'[q] = tx[q]
        /\ live' \subseteq live
    BY <2>1, DeletingFacts
  <2>3. ~tx'[p].waits /\ parent' = parent /\ ~IsQuestion(h)
    BY <2>1 DEF Deleting, IsQuestion
  <2>4. ASSUME NEW r \in live', tx'[r].waits PROVE tx'[r] = tx[r] /\ Asked(r) \in live'
    <3>1. r # p /\ tx'[r] = tx[r] /\ r \in live
      BY <2>2, <2>3, <2>4
    <3>2. CASE tx[r].step = "parent"
      <4>1. Asked(r) = parent[r] /\ Asked(r) \in live
        BY <2>4, <3>1, <3>2 DEF Asked, AwaitInv, Asks
      <4>2. r # FirstRoot
        BY <4>1, FamilyAssumption, Unpack DEF FamilyInv, TreeInv
      <4>3. parent[r] \in live'
        BY <2>2, <2>4, <4>2
      <4> QED BY <3>1, <4>1, <4>3
    <3>3. CASE tx[r].step # "parent"
      <4>1. Asked(r) \in Children(r)
        BY <2>4, <3>1, <3>3, OfPico DEF Works, WaitsDown, Asked
      <4> QED BY <2>2, <3>1, <4>1 DEF Children
    <3> QED BY <3>1, <3>2, <3>3
  <2> QED BY <2>2, <2>3, <2>4 DEF NobodyAsks, KeepsQuestions
<1>2. CASE /\ p \in live /\ tx[p] = Idle /\ queue[p] # <<>> /\ ~IsQuestion(Head(queue[p]))
           /\ queue' = Popped(p) /\ UNCHANGED <<live, parent, tx>>
  BY <1>2, IdleTx, PoppedQuestions, QuietWork
<1> QED BY <1>1, <1>2, DeleteEffect DEF IsQuestion

\* A new pico waits for nobody, and its setup is asked of it.
LEMMA CreateWork ==
  ASSUME FamilyInv, NEW p \in Picos, CreateChild(p) PROVE \E q : BeginsToAsk(p, q)
<1>1. PICK c \in Picos, m \in MessageType, t \in TxType :
           /\ c \notin Used /\ m.name = "setup" /\ m.from = p
           /\ t.step = "bootstrap" /\ t.of = c /\ t.waits
           /\ p \in live /\ queue[p] # <<>> /\ Head(queue[p]).name = "new_child_request"
           /\ parent' = [parent EXCEPT ![c] = p] /\ live' = live \cup {c}
           /\ queue' = [Popped(p) EXCEPT ![c] = <<m>>]
           /\ tx' = [tx EXCEPT ![p] = t]
  BY CreateChildEffect
<1>2. /\ c \notin live /\ p # c /\ p \in Picos /\ parent'[c] = p
      /\ \A d \in Picos : d # c => parent'[d] = parent[d]
  <2>1. /\ p \in live /\ c \notin Used
        /\ parent' = [parent EXCEPT ![c] = p] /\ live' = live \cup {c}
    BY <1>1
  <2> QED BY <2>1, GrownTree DEF FamilyInv
<1>3. live \subseteq Picos /\ tx \in [Picos -> TxType]
  BY Unpack
<1>4. tx'[p] = t /\ \A r \in Picos : r # p => tx'[r] = tx[r]
  BY <1>1, <1>3, SetTx
<1>5. ~tx'[c].waits
  BY <1>1, <1>2, <1>4, IdleTx DEF FamilyInv, TreeInv
<1>6. /\ Popped(p) \in QueueType
      /\ \A q \in live : \A n \in Msgs(queue[q]) : IsQuestion(n) => n \in Msgs(Popped(p)[q])
  BY <1>1, PoppedQuestions DEF IsQuestion
<1>7. queue'[c] = <<m>> /\ \A q \in live : queue'[q] = Popped(p)[q]
  BY <1>1, <1>2, <1>3, <1>6 DEF QueueType
<1>8. m \in Msgs(queue'[c]) /\ IsQuestion(m)
  BY <1>1, <1>7, SeqOne DEF IsQuestion
<1>9. Asked(p)' = c
  BY <1>1, <1>4 DEF Asked
<1>10. Asks(p)'
  BY <1>1, <1>8, <1>9 DEF Asks
<1> QED BY <1>1, <1>2, <1>3, <1>4, <1>5, <1>6, <1>7, <1>9, <1>10 DEF BeginsToAsk, KeepsQuestions

LEMMA OutsideWork ==
  ASSUME FamilyInv, AwaitInv, (\E p \in Picos : Request(p)) \/ Crash \/ UNCHANGED familyVars
  PROVE  NobodyAsks
<1>1. ASSUME NEW p \in Picos, Request(p) PROVE NobodyAsks
  <2>1. PICK name \in Calls, of \in Picos \cup {NoPico} :
          Addressed(p, name, of) /\ queue' = Put(queue, p, Message(name, of, NoPico))
    BY <1>1 DEF Request
  <2>2. p \in live /\ live' = live /\ parent' = parent /\ tx' = tx
    BY <1>1 DEF Request, persisted
  <2>3. Message(name, of, NoPico) \in MessageType
    BY <2>1, <2>2, AddressedFacts
  <2>4. \A q \in live : Msgs(queue[q]) \subseteq Msgs(queue'[q])
    BY <2>1, <2>3, Unpack, PutMessages
  <2> QED BY <2>2, <2>4 DEF NobodyAsks, KeepsQuestions, AwaitInv, Asks
<1>2. CASE Crash
  <2>1. live' = live /\ \A r \in Picos : tx'[r] = Idle
    BY <1>2 DEF Crash, persisted
  <2> QED BY <2>1, Unpack, IdleTx DEF NobodyAsks, KeepsQuestions
<1>3. CASE UNCHANGED familyVars
  BY <1>3 DEF familyVars, persisted, NobodyAsks, KeepsQuestions, AwaitInv, Asks
<1> QED BY <1>1, <1>2, <1>3

LEMMA WaitsKept == FamilySpec => [](AwaitInv /\ FreeInv)
<1>1. FamilyInit => AwaitInv /\ FreeInv
  <2> SUFFICES ASSUME FamilyInit PROVE \A p \in live : ~tx[p].waits
    BY DEF AwaitInv, FreeInv, WaitsDown
  <2> QED BY FamilyAssumption, IdleTx DEF FamilyInit
<1>2. FamilyInv /\ AwaitInv /\ FreeInv /\ [FamilyNext]_familyVars => (AwaitInv /\ FreeInv)'
  <2> SUFFICES ASSUME FamilyInv, AwaitInv, FreeInv, [FamilyNext]_familyVars
               PROVE  NobodyAsks \/ \E p, q : BeginsToAsk(p, q)
    BY AwaitStep, FreeStep
  <2>1. ASSUME NEW p \in Picos, FamilyStep(p) PROVE NobodyAsks \/ \E q : BeginsToAsk(p, q)
    <3>1. CASE Setup(p) \/ Answer(p)
      <4>1. PICK h : Answering(p, h)
        BY <3>1, AnsweringNow
      <4> QED BY <4>1, AnswerWork
    <3> QED BY <2>1, <3>1, PopWork, TellWork, OwnWorkQuiet, AskChildWork, PruneWork, DeleteWork,
               CreateWork DEF FamilyStep
  <2> QED BY <2>1, OutsideWork DEF FamilyNext
<1> QED BY <1>1, <1>2, FamilyKept, PTL DEF FamilySpec

\* q, and all that q's answer depends on: every closed set with q has them.
DependsOn(q) ==
  {r \in live : \A picos \in SUBSET live : q \in picos /\ Closed(picos) => r \in picos}

\* Waits go down the tree: whoever waits, but for backfill_parent_ui_eci's wait
\* for the parent, waits for a child of its own, and so no pico waits for itself
\* through others.  Only the one rule that asks up can close a circle.
THEOREM WaitsGoDown ==
  FamilySpec => [](\A p \in live : WaitsDown(p) =>
                     Asked(p) \in Children(p) /\ p \notin DependsOn(Asked(p)))
<1> DEFINE Down == \A p \in live : WaitsDown(p) =>
                     Asked(p) \in Children(p) /\ p \notin DependsOn(Asked(p))
<1>1. FamilyInv => Down
  <2> SUFFICES ASSUME FamilyInv, NEW p \in live, WaitsDown(p)
               PROVE  Asked(p) \in Children(p) /\ p \notin DependsOn(Asked(p))
    OBVIOUS
  <2>1. \A s \in live : WaitsDown(s) => Asked(s) \in Children(s)
    BY OfPico DEF Works, WaitsDown, Asked
  <2>2. Asked(p) \in live /\ parent[Asked(p)] = p
    BY <2>1 DEF Children
  <2> DEFINE G == Subtree(Asked(p))
  <2>3. Asked(p) \in G /\ p \notin G /\ G \in SUBSET live /\ \A s \in G : Children(s) \subseteq G
    BY <2>1, GoneFacts DEF FamilyInv
  <2> HIDE DEF G
  <2>4. Closed(G)
    BY <2>1, <2>3 DEF Closed
  <2> QED BY <2>1, <2>3, <2>4 DEF DependsOn
<1> QED BY <1>1, FamilyKept, PTL

\* Whoever is at work depends on a pico that can go on, with its own transaction
\* or with what is in its queue, or that waits for its parent: but for that one
\* wait, no order of requests and crashes brings the picos to a standstill.
THEOREM SomebodyGoesOn ==
  FamilySpec => [](\A p \in live : tx[p] # Idle =>
                     \E r \in DependsOn(p) :
                       \/ ~tx[r].waits /\ (tx[r] # Idle \/ queue[r] # <<>>)
                       \/ tx[r].waits /\ tx[r].step = "parent")
<1> DEFINE Goes(r) == \/ ~tx[r].waits /\ (tx[r] # Idle \/ queue[r] # <<>>)
                      \/ tx[r].waits /\ tx[r].step = "parent"
           Going == \A p \in live : tx[p] # Idle => \E r \in DependsOn(p) : Goes(r)
<1>1. AwaitInv /\ FreeInv => Going
  <2> SUFFICES ASSUME AwaitInv, FreeInv, NEW p \in live, tx[p] # Idle
               PROVE  \E r \in DependsOn(p) : Goes(r)
    OBVIOUS
  <2> DEFINE D == DependsOn(p)
  <2>1. D \in SUBSET live /\ p \in D
    BY DEF DependsOn
  <2>2. Closed(D)
    <3> SUFFICES ASSUME NEW s \in D, WaitsDown(s) PROVE Asked(s) \in D
      BY DEF Closed
    <3>1. Asked(s) \in live
      BY <2>1 DEF AwaitInv, Asks, WaitsDown
    <3> QED BY <3>1 DEF DependsOn, Closed
  <2>3. \A E \in SUBSET live : p \in E /\ Closed(E) => D \subseteq E
    BY DEF DependsOn
  <2> HIDE DEF D
  <2>4. PICK r \in D : ~WaitsDown(r)
    BY <2>1, <2>2 DEF FreeInv
  <2>5. CASE tx[r].waits \/ r = p
    BY <2>4, <2>5 DEF WaitsDown, D
  <2>6. CASE ~tx[r].waits /\ r # p
    <3> DEFINE E == D \ {r}
    <3>1. E \in SUBSET live /\ p \in E /\ ~(D \subseteq E)
      BY <2>1, <2>4, <2>6
    <3>2. PICK s \in E : WaitsDown(s) /\ Asked(s) \notin E
      BY <2>3, <3>1 DEF Closed
    <3>3. Asked(s) = r
      BY <2>2, <3>2 DEF Closed
    <3>4. Msgs(queue[r]) # {}
      BY <2>1, <3>2, <3>3 DEF AwaitInv, Asks, WaitsDown
    <3>5. queue[r] # <<>>
      BY <3>4, SeqEmpty
    <3> QED BY <2>4, <2>6, <3>5 DEF D
  <2> QED BY <2>5, <2>6
<1> QED BY <1>1, WaitsKept, PTL

-----------------------------------------------------------------------------
(*                        PART 2: SUBTREE IMPORT                            *)


-----------------------------------------------------------------------------
(* Types.                                                                   *)

RefType(n) == ref[n] \in [Holds[n] -> {"unset", "old", "new"}]

LEMMA RefStep ==
  ASSUME DOMAIN ref = Nodes, \A n \in Nodes : RefType(n),
         NEW c \in Nodes, NEW R, R \in [Holds[c] -> {"unset", "old", "new"}],
         ref' = [ref EXCEPT ![c] = R]
  PROVE  DOMAIN ref' = Nodes /\ \A n \in Nodes : RefType(n)'
<1>1. \A n \in Nodes : ref'[n] = IF n = c THEN R ELSE ref[n]
  OBVIOUS
<1> QED BY <1>1 DEF RefType

LEMMA BootstrapType ==
  ASSUME NEW c \in Nodes, RefType(c), NEW kinds
  PROVE  bootstrapped(c, kinds) \in [Holds[c] -> {"unset", "old", "new"}]
BY DEF RefType, bootstrapped

LEMMA WrittenType ==
  ASSUME NEW n \in Nodes
  PROVE  written(n) \in [Holds[n] -> {"unset", "old", "new"}]
BY DEF written

\* The display of each pico grows by the child c, if it is one of its own.
LEMMA ChildUiWith ==
  ASSUME NEW c \in Nodes, childUi' = childUiWith(c)
  PROVE  \A p \in Nodes : /\ childUi[p] \subseteq childUi'[p]
                          /\ childUi'[p] \subseteq childUi[p] \union {c}
                          /\ c \in childUi'[p] \ childUi[p] => IsKid(p, c)
                          /\ DOMAIN childUi' = Nodes
BY DEF childUiWith

LEMMA ChildUiType ==
  ASSUME TypeOK, NEW c \in Nodes, childUi' = childUiWith(c)
  PROVE  childUi' \in [Nodes -> SUBSET Nodes]
BY DEF TypeOK, childUiWith

LEMMA KidRange ==
  ASSUME NEW p \in Nodes
  PROVE  /\ Range(Kids[p]) \subseteq Nodes
         /\ \A c \in Nodes : IsKid(p, c) => c \in Range(Kids[p])
<1>1. Kids[p] \in Seq(Nodes) BY SubtreeAssumption DEF SubtreeAssumption
<1>2. DOMAIN Kids[p] = 1 .. Len(Kids[p]) /\ \A i \in DOMAIN Kids[p] : Kids[p][i] \in Nodes
  BY <1>1
<1> QED BY <1>2 DEF Range, IsKid

LEMMA TypeInit == Init => TypeOK
<1> SUFFICES ASSUME Init PROVE TypeOK
  OBVIOUS
<1>1. pc \in [Nodes -> Phase] /\ childUi \in [Nodes -> SUBSET Nodes]
  BY DEF Init, Phase
<1>2. DOMAIN ref = Nodes /\ \A n \in Nodes : RefType(n)
  BY DEF Init, RefType
<1> QED BY <1>1, <1>2 DEF Init, TypeOK, RefType

LEMMA TypeStep == TypeOK /\ [Next]_vars => TypeOK'
<1> SUFFICES ASSUME TypeOK, [Next]_vars PROVE TypeOK'
  OBVIOUS
<1>t. DOMAIN ref = Nodes /\ \A n \in Nodes : RefType(n)
  BY DEF TypeOK, RefType
<1>1. CASE UNCHANGED vars
  BY <1>1 DEF vars, TypeOK
<1>2. CASE Throw
  BY <1>2 DEF Throw, TypeOK
<1>3. ASSUME NEW c \in Nodes, createImportChild(c) PROVE TypeOK'
  <2>1. DOMAIN ref' = Nodes /\ \A n \in Nodes : RefType(n)'
    BY <1>3, <1>t, BootstrapType, RefStep DEF createImportChild
  <2>2. childUi' \in [Nodes -> SUBSET Nodes]
    BY <1>3, ChildUiType DEF createImportChild, TypeOK
  <2>3. pc' \in [Nodes -> Phase]
    BY <1>3 DEF createImportChild, TypeOK, Phase
  <2>4. fresh' \subseteq Nodes /\ queued' \subseteq Nodes
    BY <1>3 DEF createImportChild, TypeOK
  <2>5. UNCHANGED <<eciMap, failed>>
    BY <1>3 DEF createImportChild
  <2> QED BY <2>1, <2>2, <2>3, <2>4, <2>5 DEF TypeOK, RefType
<1>4. ASSUME NEW n \in Nodes, hydrateImportedNode(n) PROVE TypeOK'
  <2>1. eciMap' \subseteq [kind : {"pico", "channel"}, of : Nodes]
    BY <1>4 DEF hydrateImportedNode, remap, TypeOK
  <2>2. pc' \in [Nodes -> Phase]
    BY <1>4 DEF hydrateImportedNode, TypeOK, Phase
  <2> QED BY <1>4, <2>1, <2>2 DEF hydrateImportedNode, TypeOK
<1>5. ASSUME NEW n \in Nodes, putEntFromExportNode(n) PROVE TypeOK'
  <2>1. DOMAIN ref' = Nodes /\ \A m \in Nodes : RefType(m)'
    BY <1>5, <1>t, WrittenType, RefStep DEF putEntFromExportNode
  <2>2. pc' \in [Nodes -> Phase] /\ childUi' \in [Nodes -> SUBSET Nodes]
    BY <1>5 DEF putEntFromExportNode, TypeOK, Phase
  <2> QED BY <1>5, <2>1, <2>2 DEF putEntFromExportNode, TypeOK, RefType
<1>6. ASSUME NEW n \in Nodes, stabilizeImportEntFromExport(n) PROVE TypeOK'
  <2>1. DOMAIN ref' = Nodes /\ \A m \in Nodes : RefType(m)'
    <3>1. CASE n \in Stabilized
      BY <1>6, <3>1, <1>t, WrittenType, RefStep DEF stabilizeImportEntFromExport
    <3>2. CASE n \notin Stabilized
      BY <1>6, <3>2, <1>t DEF stabilizeImportEntFromExport, RefType
    <3> QED BY <3>1, <3>2
  <2>2. pc' \in [Nodes -> Phase] /\ childUi' \in [Nodes -> SUBSET Nodes]
    BY <1>6 DEF stabilizeImportEntFromExport, TypeOK, Phase
  <2> QED BY <1>6, <2>1, <2>2 DEF stabilizeImportEntFromExport, TypeOK, RefType
<1>7. ASSUME NEW n \in Nodes, syncChildUiEcisFromWrangler(n) PROVE TypeOK'
  <2>1. pc' \in [Nodes -> Phase] /\ childUi' \in [Nodes -> SUBSET Nodes]
    BY <1>7, KidRange DEF syncChildUiEcisFromWrangler, TypeOK, Phase
  <2> QED BY <1>7, <2>1 DEF syncChildUiEcisFromWrangler, TypeOK
<1>8. ASSUME NEW c \in Nodes, pico_created(c) PROVE TypeOK'
  <2>1. DOMAIN ref' = Nodes /\ \A n \in Nodes : RefType(n)'
    BY <1>8, <1>t, BootstrapType, RefStep DEF pico_created
  <2> QED BY <1>8, <2>1 DEF pico_created, TypeOK, RefType
<1>9. ASSUME NEW c \in Nodes, remember_child_ui_eci(c) PROVE TypeOK'
  BY <1>9, ChildUiType DEF remember_child_ui_eci, TypeOK
<1> QED BY <1>1, <1>2, <1>3, <1>4, <1>5, <1>6, <1>7, <1>8, <1>9 DEF Next, Step

\* Every variable of the import always has its type.
THEOREM TypeCorrect == Spec => []TypeOK
<1>1. Init => TypeOK BY TypeInit
<1>2. TypeOK /\ [Next]_vars => TypeOK' BY TypeStep
<1> QED BY <1>1, <1>2, PTL DEF Spec

-----------------------------------------------------------------------------
(* The display of children.                                                 *)

DisplayInv == UiKnowsChildren /\ \A n \in Nodes : childUi[n] \subseteq Range(Kids[n])

\* Whatever the children's events have noted before and note afterwards is part
\* of what the synchronisation writes.
LEMMA UiStep == TypeOK /\ DisplayInv /\ [Next]_vars => DisplayInv'
<1> SUFFICES ASSUME TypeOK, DisplayInv, [Next]_vars PROVE DisplayInv'
  OBVIOUS
<1> DEFINE D(n) == Range(Kids[n])
<1>i. \A n \in Nodes : childUi[n] \subseteq D(n) /\ (pc[n] = "done" => childUi[n] = D(n))
  BY DEF DisplayInv, UiKnowsChildren
<1>k. \A p, c \in Nodes : IsKid(p, c) => c \in D(p)
  BY KidRange
<1> SUFFICES \A n \in Nodes : /\ childUi'[n] \subseteq D(n)
                              /\ pc'[n] = "done" => childUi'[n] = D(n)
  BY DEF DisplayInv, UiKnowsChildren
<1>t. pc \in [Nodes -> Phase] /\ childUi \in [Nodes -> SUBSET Nodes]
  BY DEF TypeOK
<1> HIDE DEF D
<1>1. CASE UNCHANGED <<pc, childUi>>
  BY <1>1, <1>i
<1>2. ASSUME NEW c \in Nodes, childUi' = childUiWith(c),
             \A n \in Nodes : pc'[n] = "done" => pc[n] = "done"
      PROVE  \A n \in Nodes : /\ childUi'[n] \subseteq D(n)
                              /\ pc'[n] = "done" => childUi'[n] = D(n)
  <2> SUFFICES ASSUME NEW n \in Nodes
               PROVE  childUi'[n] \subseteq D(n) /\ (pc'[n] = "done" => childUi'[n] = D(n))
    OBVIOUS
  <2>1. childUi[n] \subseteq childUi'[n] /\ childUi'[n] \subseteq childUi[n] \union {c}
    BY <1>2, ChildUiWith
  <2>2. c \in childUi'[n] \ childUi[n] => IsKid(n, c)
    BY <1>2, ChildUiWith
  <2>3. childUi'[n] \subseteq D(n)
    BY <1>i, <1>k, <2>1, <2>2
  <2> QED BY <1>2, <1>i, <2>1, <2>3
<1>3. ASSUME NEW c \in Nodes, createImportChild(c)
      PROVE  \A n \in Nodes : /\ childUi'[n] \subseteq D(n)
                              /\ pc'[n] = "done" => childUi'[n] = D(n)
  <2>1. \A n \in Nodes : pc'[n] = "done" => pc[n] = "done"
    BY <1>3, <1>t DEF createImportChild
  <2>2. childUi' = childUi \/ childUi' = childUiWith(c)
    BY <1>3 DEF createImportChild
  <2> QED BY <2>1, <2>2, <1>2, <1>i
<1>4. ASSUME NEW n \in Nodes, hydrateImportedNode(n)
      PROVE  childUi' = childUi /\ \A m \in Nodes : pc'[m] = "done" => pc[m] = "done"
  BY <1>4, <1>t DEF hydrateImportedNode
<1>5. ASSUME NEW n \in Nodes,
             putEntFromExportNode(n) \/ stabilizeImportEntFromExport(n)
      PROVE  \A m \in Nodes : /\ childUi'[m] \subseteq childUi[m]
                              /\ pc'[m] = "done" => pc[m] = "done" /\ childUi'[m] = childUi[m]
  BY <1>5, <1>t DEF putEntFromExportNode, stabilizeImportEntFromExport
<1>6. ASSUME NEW n \in Nodes, syncChildUiEcisFromWrangler(n)
      PROVE  \A m \in Nodes : IF m = n THEN childUi'[m] = D(m)
                              ELSE pc'[m] = pc[m] /\ childUi'[m] = childUi[m]
  BY <1>6, <1>t DEF syncChildUiEcisFromWrangler, D
<1>7. ASSUME NEW c \in Nodes, remember_child_ui_eci(c)
      PROVE  childUi' = childUiWith(c) /\ pc' = pc
  BY <1>7 DEF remember_child_ui_eci
<1>8. CASE UNCHANGED vars \/ Throw \/ \E c \in Nodes : pico_created(c)
  BY <1>8, <1>1 DEF vars, Throw, pico_created
<1>9. CASE \E n \in Nodes : Step(n)
  <2> PICK n \in Nodes : Step(n) BY <1>9
  <2>1. CASE createImportChild(n) BY <2>1, <1>3
  <2>2. CASE hydrateImportedNode(n) BY <2>2, <1>4, <1>i
  <2>3. CASE putEntFromExportNode(n) \/ stabilizeImportEntFromExport(n)
    BY <2>3, <1>5, <1>i
  <2>4. CASE syncChildUiEcisFromWrangler(n) BY <2>4, <1>6, <1>i
  <2> QED BY <2>1, <2>2, <2>3, <2>4 DEF Step
<1>10. CASE \E c \in Nodes : remember_child_ui_eci(c)
  BY <1>10, <1>7, <1>2
<1> QED BY <1>8, <1>9, <1>10 DEF Next

\* Every finished pico's user interface has exactly its children, whenever their
\* creation events reach it.
THEOREM UiCorrect == Spec => []UiKnowsChildren
<1>1. Init => TypeOK /\ DisplayInv
  <2> SUFFICES ASSUME Init PROVE DisplayInv
    BY TypeInit
  <2>1. \A n \in Nodes : pc[n] = "absent" /\ childUi[n] = {}
    BY DEF Init
  <2> QED BY <2>1 DEF DisplayInv, UiKnowsChildren
<1>2. (TypeOK /\ DisplayInv) /\ [Next]_vars => (TypeOK /\ DisplayInv)'
  BY TypeStep, UiStep
<1>3. DisplayInv => UiKnowsChildren
  BY DEF DisplayInv
<1> QED BY <1>1, <1>2, <1>3, PTL DEF Spec

-----------------------------------------------------------------------------
(* The order of the walk.                                                   *)

Reached(n) == pc[n] \notin {"absent", "created"}
Written(n) == pc[n] \in {"put", "stable", "done"}

\* The walk is at one pico; it has been through the branches before the picos in
\* its line, and what it has been through has new identifiers.
WalkInv ==
  /\ \A n \in Nodes : Reached(n) => remap(n) \subseteq eciMap
  /\ \A p, c \in Nodes : IsKid(p, c) /\ pc[c] # "absent" => Reached(p)
  /\ \A p, c \in Nodes : IsKid(p, c) /\ Written(p) => pc[c] = "done"
  /\ \A c \in Nodes : pc[c] # "absent" => \A b \in Before(c) : pc[b] = "done"

\* The picos that are done are so with all below them.
LEMMA BelowDone ==
  ASSUME TypeOK, WalkInv, NEW n \in Nodes, NEW m \in Nodes, Above(n, m),
         \A c \in Nodes : IsKid(n, c) => pc[c] = "done"
  PROVE  m = n \/ pc[m] = "done"
<1> DEFINE S == {x \in Nodes : x = n \/ pc[x] = "done"}
<1>1. S \in SUBSET Nodes /\ n \in S
  OBVIOUS
<1>2. ASSUME NEW p \in S, NEW c \in Nodes, IsKid(p, c)
      PROVE  c \in S
  <2>1. p \in Nodes /\ (p = n \/ Written(p))
    BY DEF Written
  <2>2. pc[c] = "done"
    BY <1>2, <2>1 DEF WalkInv
  <2> QED BY <2>2
<1>3. Descends(S)
  BY <1>2 DEF Descends
<1>4. m \in S
  BY <1>1, <1>3 DEF Above
<1> QED BY <1>4

\* Above a pico that exists are picos that the walk has reached.
LEMMA AboveReached ==
  ASSUME TypeOK, WalkInv, NEW m \in Nodes, NEW n \in Nodes, Above(m, n), pc[n] # "absent"
  PROVE  m = n \/ Reached(m)
<1> DEFINE S == {x \in Nodes : x = m \/ (pc[x] # "absent" => Reached(m))}
<1>1. S \in SUBSET Nodes /\ m \in S
  OBVIOUS
<1>2. ASSUME NEW p \in S, NEW c \in Nodes, IsKid(p, c), pc[c] # "absent"
      PROVE  Reached(m)
  <2>1. p \in Nodes /\ Reached(p)
    BY <1>2 DEF WalkInv
  <2>2. pc[p] # "absent"
    BY <2>1 DEF Reached
  <2> QED BY <2>1, <2>2
<1>3. Descends(S)
  BY <1>2 DEF Descends
<1>4. n \in S
  BY <1>1, <1>3 DEF Above
<1> QED BY <1>4

\* When a pico's variables are written, what is known has new identifiers.
LEMMA KnownReached ==
  ASSUME TypeOK, WalkInv, NEW m \in Nodes, NEW n \in Nodes, Known(m, n), Reached(n),
         \A c \in Nodes : IsKid(n, c) => pc[c] = "done"
  PROVE  remap(m) \subseteq eciMap
<1>1. CASE Above(m, n)
  BY <1>1, AboveReached DEF Reached, WalkInv
<1>2. CASE Above(n, m)
  BY <1>2, BelowDone DEF Reached, WalkInv
<1>3. CASE \E c \in Nodes : Above(c, n) /\ \E b \in Before(c) : Above(b, m)
  <2> PICK c \in Nodes : Above(c, n) /\ \E b \in Before(c) : Above(b, m)
    BY <1>3
  <2> PICK b \in Before(c) : Above(b, m)
    OBVIOUS
  <2>1. b \in Nodes BY DEF Before
  <2>2. pc[c] # "absent"
    BY AboveReached DEF Reached
  <2>3. pc[b] = "done"
    BY <2>2 DEF WalkInv
  <2>4. \A d \in Nodes : IsKid(b, d) => pc[d] = "done"
    BY <2>1, <2>3 DEF WalkInv, Written
  <2>5. pc[m] = "done"
    BY <2>1, <2>3, <2>4, BelowDone
  <2> QED BY <2>5 DEF WalkInv, Reached
<1> QED BY <1>1, <1>2, <1>3 DEF Known

LEMMA WalkStep == TypeOK /\ WalkInv /\ [Next]_vars => WalkInv'
<1> SUFFICES ASSUME TypeOK, WalkInv, [Next]_vars PROVE WalkInv'
  OBVIOUS
<1>t. pc \in [Nodes -> Phase]
  BY DEF TypeOK
<1>b. \A c \in Nodes : Before(c) \subseteq Nodes
  BY DEF Before
<1>1. CASE UNCHANGED <<pc, eciMap>>
  BY <1>1, <1>b DEF WalkInv, Reached, Written
<1>2. ASSUME NEW c \in Nodes, createImportChild(c) PROVE WalkInv'
  <2>1. /\ \A n \in Nodes : pc'[n] = IF n = c THEN "created" ELSE pc[n]
        /\ eciMap' = eciMap /\ pc[c] = "absent" /\ \A b \in Before(c) : pc[b] = "done"
    BY <1>2, <1>t DEF createImportChild
  <2>2. \A p \in Nodes : IsKid(p, c) => pc[p] = "descending"
    BY <1>2, TreeAssumption DEF createImportChild, TreeAssumption
  <2>3. (\A n \in Nodes : Reached(n) => remap(n) \subseteq eciMap)'
    BY <2>1 DEF WalkInv, Reached, remap
  <2>4. (\A p, d \in Nodes : IsKid(p, d) /\ pc[d] # "absent" => Reached(p))'
    BY <2>1, <2>2 DEF WalkInv, Reached, IsKid
  <2>5. (\A p, d \in Nodes : IsKid(p, d) /\ Written(p) => pc[d] = "done")'
    BY <2>1 DEF WalkInv, Written, IsKid
  <2>6. (\A d \in Nodes : pc[d] # "absent" => \A b \in Before(d) : pc[b] = "done")'
    BY <2>1, <1>b DEF WalkInv, Before
  <2> QED BY <2>3, <2>4, <2>5, <2>6 DEF WalkInv
<1>3. ASSUME NEW n \in Nodes, hydrateImportedNode(n) PROVE WalkInv'
  <2>1. /\ \A m \in Nodes : pc'[m] = IF m = n THEN "descending" ELSE pc[m]
        /\ eciMap' = eciMap \union remap(n) /\ pc[n] = "created"
    BY <1>3, <1>t DEF hydrateImportedNode
  <2>2. (\A m \in Nodes : Reached(m) => remap(m) \subseteq eciMap)'
    BY <2>1 DEF WalkInv, Reached, remap
  <2>3. (\A p, d \in Nodes : IsKid(p, d) /\ pc[d] # "absent" => Reached(p))'
    BY <2>1 DEF WalkInv, Reached, IsKid
  <2>4. (\A p, d \in Nodes : IsKid(p, d) /\ Written(p) => pc[d] = "done")'
    BY <2>1 DEF WalkInv, Written, IsKid
  <2>5. (\A d \in Nodes : pc[d] # "absent" => \A b \in Before(d) : pc[b] = "done")'
    BY <2>1, <1>b DEF WalkInv, Before
  <2> QED BY <2>2, <2>3, <2>4, <2>5 DEF WalkInv
<1>4. ASSUME NEW n \in Nodes, NEW s, s \in {"put", "stable", "done"}, eciMap' = eciMap,
             \A m \in Nodes : pc'[m] = IF m = n THEN s ELSE pc[m],
             Written(n) \/ (Reached(n) /\ \A d \in Nodes : IsKid(n, d) => pc[d] = "done"),
             pc[n] # "done"
      PROVE  WalkInv'
  <2>1. Reached(n)
    BY <1>4 DEF Reached, Written
  <2>2. (\A m \in Nodes : Reached(m) => remap(m) \subseteq eciMap)'
    BY <1>4, <2>1 DEF WalkInv, Reached, remap
  <2>3. (\A p, d \in Nodes : IsKid(p, d) /\ pc[d] # "absent" => Reached(p))'
    BY <1>4, <2>1 DEF WalkInv, Reached, IsKid
  <2>4. \A d \in Nodes : IsKid(n, d) => pc[d] = "done"
    BY <1>4 DEF WalkInv
  <2>5. (\A p, d \in Nodes : IsKid(p, d) /\ Written(p) => pc[d] = "done")'
    BY <1>4, <2>4 DEF WalkInv, Written, IsKid
  <2>6. (\A d \in Nodes : pc[d] # "absent" => \A b \in Before(d) : pc[b] = "done")'
    BY <1>4, <2>1, <1>b DEF WalkInv, Before, Reached
  <2> QED BY <2>2, <2>3, <2>5, <2>6 DEF WalkInv
<1>5. ASSUME NEW n \in Nodes, putEntFromExportNode(n) PROVE WalkInv'
  <2>1. /\ eciMap' = eciMap /\ Reached(n) /\ pc[n] # "done"
        /\ \A m \in Nodes : pc'[m] = IF m = n THEN "put" ELSE pc[m]
        /\ \A d \in Nodes : IsKid(n, d) => pc[d] = "done"
    BY <1>5, <1>t DEF putEntFromExportNode, Reached
  <2> QED BY <2>1, <1>4
<1>6. ASSUME NEW n \in Nodes,
             stabilizeImportEntFromExport(n) \/ syncChildUiEcisFromWrangler(n)
      PROVE  WalkInv'
  <2>1. PICK s \in {"put", "stable", "done"} :
          \A m \in Nodes : pc'[m] = IF m = n THEN s ELSE pc[m]
    BY <1>6, <1>t DEF stabilizeImportEntFromExport, syncChildUiEcisFromWrangler
  <2>2. eciMap' = eciMap /\ Written(n) /\ pc[n] # "done"
    BY <1>6 DEF stabilizeImportEntFromExport, syncChildUiEcisFromWrangler, Written
  <2> QED BY <2>1, <2>2, <1>4
<1>7. CASE \/ UNCHANGED vars \/ Throw
           \/ \E c \in Nodes : pico_created(c) \/ remember_child_ui_eci(c)
  BY <1>7, <1>1 DEF vars, Throw, pico_created, remember_child_ui_eci
<1> QED BY <1>2, <1>3, <1>5, <1>6, <1>7 DEF Next, Step

-----------------------------------------------------------------------------
(* References.                                                              *)

\* What KnownRemapped says of the references of one pico.
Remapped(n) == \A h \in Holds[n] :
  /\ h.of \in Nodes /\ h.kind \in {"pico", "channel"} /\ Known(h.of, n) => ref[n][h] = "new"
  /\ h.of = Outside => ref[n][h] = "old"

RefInv == \A n \in Nodes : Written(n) => Remapped(n)

LEMMA WrittenRemaps ==
  ASSUME TypeOK, WalkInv, NEW n \in Nodes, Reached(n), ref'[n] = written(n),
         \A c \in Nodes : IsKid(n, c) => pc[c] = "done"
  PROVE  Remapped(n)'
<1> SUFFICES ASSUME NEW h \in Holds[n]
             PROVE  /\ h.of \in Nodes /\ h.kind \in {"pico", "channel"} /\ Known(h.of, n)
                          => ref'[n][h] = "new"
                    /\ h.of = Outside => ref'[n][h] = "old"
  BY DEF Remapped, Known, Above, Descends, Before, IsKid
<1>1. ref'[n][h] = IF h \in eciMap THEN "new" ELSE "old"
  BY DEF written
<1>2. h \in Handle
  BY SubtreeAssumption DEF SubtreeAssumption
<1>3. ASSUME h.of \in Nodes, h.kind \in {"pico", "channel"}, Known(h.of, n)
      PROVE  ref'[n][h] = "new"
  <2>1. remap(h.of) \subseteq eciMap
    BY <1>3, KnownReached
  <2>2. h = [kind |-> h.kind, of |-> h.of]
    BY <1>2 DEF Handle
  <2>3. h \in remap(h.of)
    BY <1>3, <2>2 DEF remap
  <2> QED BY <1>1, <2>1, <2>3
<1>4. ASSUME h.of = Outside PROVE ref'[n][h] = "old"
  <2>1. h \notin eciMap
    BY <1>4, SubtreeAssumption DEF TypeOK, SubtreeAssumption
  <2> QED BY <1>1, <2>1
<1> QED BY <1>3, <1>4

\* A pico's own bootstrap makes references new, and none to the outside.
LEMMA BootstrapKeeps ==
  ASSUME NEW c \in Nodes, NEW n \in Nodes, NEW kinds, DOMAIN ref = Nodes, Remapped(n),
         ref' = [ref EXCEPT ![c] = bootstrapped(c, kinds)]
  PROVE  Remapped(n)'
<1> SUFFICES ASSUME NEW h \in Holds[n]
             PROVE  /\ h.of \in Nodes /\ h.kind \in {"pico", "channel"} /\ Known(h.of, n)
                          => ref'[n][h] = "new"
                    /\ h.of = Outside => ref'[n][h] = "old"
  BY DEF Remapped, Known, Above, Descends, Before, IsKid
<1>1. ref'[n][h] = IF n = c /\ h.of = c /\ h.kind \in kinds THEN "new" ELSE ref[n][h]
  BY DEF bootstrapped
<1>2. c # Outside
  BY SubtreeAssumption DEF SubtreeAssumption
<1> QED BY <1>1, <1>2 DEF Remapped

LEMMA RefInvStep == TypeOK /\ WalkInv /\ RefInv /\ [Next]_vars => RefInv'
<1> SUFFICES ASSUME TypeOK, WalkInv, RefInv, [Next]_vars, NEW n \in Nodes, Written(n)'
             PROVE  Remapped(n)'
  BY DEF RefInv
<1>t. pc \in [Nodes -> Phase] /\ DOMAIN ref = Nodes
  BY DEF TypeOK
<1>0. ASSUME ref'[n] = ref[n], Written(n) PROVE Remapped(n)'
  <2>1. Remapped(n)
    BY <1>0 DEF RefInv
  <2> SUFFICES ASSUME NEW h \in Holds[n]
               PROVE  /\ h.of \in Nodes /\ h.kind \in {"pico", "channel"} /\ Known(h.of, n)
                            => ref'[n][h] = "new"
                      /\ h.of = Outside => ref'[n][h] = "old"
    BY DEF Remapped, Known, Above, Descends, Before, IsKid
  <2> QED BY <1>0, <2>1 DEF Remapped
<1>1. CASE UNCHANGED vars \/ Throw
  BY <1>1, <1>0 DEF vars, Throw, Written
<1>2. ASSUME NEW c \in Nodes, createImportChild(c) PROVE Remapped(n)'
  <2>1. n # c /\ Written(n)
    BY <1>2, <1>t DEF createImportChild, Written
  <2>2. ref'[n] = ref[n]
    BY <1>2, <1>t, <2>1 DEF createImportChild
  <2> QED BY <2>1, <2>2, <1>0
<1>3. ASSUME NEW c \in Nodes, hydrateImportedNode(c) \/ syncChildUiEcisFromWrangler(c)
      PROVE  Remapped(n)'
  <2>1. Written(n) /\ ref' = ref
    BY <1>3, <1>t DEF hydrateImportedNode, syncChildUiEcisFromWrangler, Written
  <2> QED BY <2>1, <1>0
<1>4. ASSUME NEW c \in Nodes, putEntFromExportNode(c) PROVE Remapped(n)'
  <2>1. CASE n = c
    <3>1. ref'[n] = written(n) /\ Reached(n) /\ \A d \in Nodes : IsKid(n, d) => pc[d] = "done"
      BY <1>4, <1>t, <2>1 DEF putEntFromExportNode, Reached
    <3> QED BY <3>1, WrittenRemaps
  <2>2. CASE n # c
    <3>1. Written(n) /\ ref'[n] = ref[n]
      BY <1>4, <1>t, <2>2 DEF putEntFromExportNode, Written
    <3> QED BY <3>1, <1>0
  <2> QED BY <2>1, <2>2
<1>5. ASSUME NEW c \in Nodes, stabilizeImportEntFromExport(c) PROVE Remapped(n)'
  <2>1. Written(n)
    BY <1>5, <1>t DEF stabilizeImportEntFromExport, Written
  <2>2. ref'[n] = ref[n] \/ ref'[n] = written(n)
    BY <1>5, <1>t DEF stabilizeImportEntFromExport
  <2>3. Reached(n) /\ \A d \in Nodes : IsKid(n, d) => pc[d] = "done"
    BY <2>1 DEF WalkInv, Written, Reached
  <2> QED BY <2>1, <2>2, <2>3, <1>0, WrittenRemaps
<1>6. ASSUME NEW c \in Nodes, pico_created(c) PROVE Remapped(n)'
  <2>1. Written(n) /\ ref' = [ref EXCEPT ![c] = bootstrapped(c, {"pico", "family", "parent"})]
    BY <1>6 DEF pico_created, Written
  <2> QED BY <2>1, <1>t, BootstrapKeeps DEF RefInv
<1>7. ASSUME NEW c \in Nodes, remember_child_ui_eci(c) PROVE Remapped(n)'
  BY <1>7, <1>0 DEF remember_child_ui_eci, Written
<1> QED BY <1>1, <1>2, <1>3, <1>4, <1>5, <1>6, <1>7 DEF Next, Step

\* In a finished pico every reference to what the walk has been through names the
\* new pico or channel, and a reference to something outside is as it was.
THEOREM RemappedCorrect == Spec => []KnownRemapped
<1>1. Init => TypeOK /\ WalkInv /\ RefInv
  <2> SUFFICES ASSUME Init PROVE WalkInv /\ RefInv
    BY TypeInit
  <2>1. \A n \in Nodes : pc[n] = "absent"
    BY DEF Init
  <2> QED BY <2>1 DEF WalkInv, RefInv, Reached, Written
<1>2. (TypeOK /\ WalkInv /\ RefInv) /\ [Next]_vars => (TypeOK /\ WalkInv /\ RefInv)'
  BY TypeStep, WalkStep, RefInvStep
<1>3. RefInv => KnownRemapped
  BY DEF RefInv, Written, Remapped, KnownRemapped
<1> QED BY <1>1, <1>2, <1>3, PTL DEF Spec
=============================================================================
