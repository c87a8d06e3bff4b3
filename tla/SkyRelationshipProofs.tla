------------------------- MODULE SkyRelationshipProofs -------------------------
(***************************************************************************)
(* Proofs about SkyRelationship for every set of picos, meshes and          *)
(* relationships and any number of failures: types, agreement of both sides *)
(* at rest, records that match the buses, and that the rules implement the  *)
(* abstract Relationship. One inductive invariant is behind all of them.    *)
(***************************************************************************)
EXTENDS SkyRelationship, TLAPS

-----------------------------------------------------------------------------
(* The inductive invariant: the types and shapes of transactions; of each    *)
(* relationship, which two picos it is between; who waits for whom; what     *)
(* transactions, lists and events say of each other whatever fails; and what *)
(* holds besides while no failure has met the relationship.                  *)

Dos == {"nothing", "ask", "accept", "approve", "confirm", "cancel", "told"}
Ats == {"idle", "record", "send", "wait", "read", "write", "settle", "remove", "splice"}
Records == {"none", "half", "linked", "anew"}
Txns == [do : Dos, all : SUBSET Ids, left : SUBSET Ids, at : Ats,
         caller : Picos \union {NoPico}]
Events == [kind : Kinds, id : Ids, caller : Picos \union {NoPico}]
Removals == {"inbound_removal", "outbound_removal", "established_removal"}

\* A transaction is at a step of its kind; all but a cancellation are about one
\* relationship; the approval of an introduction is waited for, and a removal.
Shape(t) ==
  /\ t.at \in Steps(t.do)
  /\ t.left \subseteq t.all
  /\ t.do = "nothing" => t = Idle
  /\ t.do \in {"ask", "accept", "approve", "confirm", "told"} =>
       \E i \in Ids : t.all = {i} /\ t.left = {i}
  /\ t.caller # NoPico => t.do \in {"accept", "told"}
  /\ t.at = "remove" => t.left = {}
  /\ t.at = "splice" => \E i \in Ids : t.left = {i}

Types ==
  /\ list \in [Picos -> [Ids -> Lists]]
  /\ peer \in [Picos -> [Ids -> Picos \union {NoPico}]]
  /\ record \in [Picos -> [Ids -> Records]]
  /\ txn \in [Picos -> Txns]
  /\ queue \in [Picos -> Seq(Events)]
  /\ approver \in [Ids -> Picos \union {NoPico}]
  /\ upset \subseteq Ids
  /\ cut \subseteq Picos \X Ids
TypeInv == Types /\ \A p \in Picos : Shape(txn[p])

RestInv == home \in Homes /\ faults \in 0 .. MaxFaults

Mentioned(q, i) == \E n \in 1 .. Len(queue[q]) : queue[q][n].id = i
HasEvent(q, i, kind) == \E n \in 1 .. Len(queue[q]) :
  queue[q][n].id = i /\ queue[q][n].kind = kind

\* A relationship is between two picos, and one that does not know of it has nothing
\* about it.
PairAt(i) == \A p \in Picos :
  /\ peer[p][i] # NoPico => LET q == peer[p][i] IN
       /\ q # p /\ peer[q][i] \in {p, NoPico}
       /\ \A r \in Picos \ {p, q} : peer[r][i] = NoPico
       /\ list[p][i] # "none" \/ list[q][i] # "none"
  /\ peer[p][i] = NoPico =>
       /\ list[p][i] = "none" /\ record[p][i] = "none"
       /\ ~About(p, i) /\ approver[i] # p
       /\ ~Mentioned(p, i)

\* The removal that a cancellation sends, by where its own bus is: see notice.
NoticeOf(l) ==
  CASE l = "outbound" -> "inbound_removal"
    [] l = "inbound" -> "outbound_removal"
    [] OTHER -> "established_removal"

\* Who is waited for, and where: in a transaction or at one place of a queue.
WaitInv ==
  /\ \A q \in Picos : LET c == txn[q].caller IN c # NoPico =>
       /\ txn[c].at = "wait"
       /\ \A i \in txn[q].all : i \in txn[c].left /\ peer[c][i] = q
       /\ \/ txn[q].do = "accept" /\ txn[c].do = "ask"
          \/ txn[q].do = "told" /\ txn[c].do = "cancel"
  /\ \A q \in Picos : \A n \in 1 .. Len(queue[q]) :
       LET e == queue[q][n]
           c == e.caller IN c # NoPico =>
         /\ txn[c].at = "wait" /\ e.id \in txn[c].left /\ peer[c][e.id] = q
         /\ \/ txn[c].do = "ask" /\ e.kind = "sky_intro"
            \/ txn[c].do = "cancel" /\ e.kind = NoticeOf(list[c][e.id])
  /\ \A q, r \in Picos : \A m \in 1 .. Len(queue[q]), n \in 1 .. Len(queue[r]) :
       queue[q][m].caller = queue[r][n].caller /\ queue[q][m].caller # NoPico
         => q = r /\ m = n
  /\ \A q, r \in Picos : txn[q].caller # NoPico =>
       /\ txn[q].caller = txn[r].caller => q = r
       /\ \A n \in 1 .. Len(queue[r]) : queue[r][n].caller # txn[q].caller

\* What a transaction, a bus, an event and an approval say of each other, whatever fails.
Asking(p, i) == txn[p].do = "ask" /\ i \in txn[p].all
Approving(q, i) == txn[q].do \in {"accept", "approve"} /\ i \in txn[q].all
Ending(p, i) == txn[p].do \in {"cancel", "told"} /\ i \in txn[p].all
OneIntro(q, i) == \A m, n \in 1 .. Len(queue[q]) :
  /\ queue[q][m].id = i /\ queue[q][m].kind = "sky_intro"
  /\ queue[q][n].id = i /\ queue[q][n].kind = "sky_intro"
  => m = n

TxnAt(i) == \A p \in Picos : LET q == peer[p][i] IN
  /\ Asking(p, i) => list[p][i] = "outbound"
  /\ Asking(p, i) /\ txn[p].at \in {"record", "send"} => peer[q][i] = NoPico
  /\ Approving(p, i) => list[p][i] = "inbound"
  /\ Approving(p, i) /\ txn[p].at = "settle" => approver[i] = p
  /\ Ending(p, i) => i \in Held(p)
  /\ txn[p].do = "confirm" /\ i \in txn[p].all =>
       list[p][i] = "established" /\ <<p, i>> \in cut

\* A failure met the writes of the record and of the bus, or is about to.
Loose(p, i) == <<p, i>> \in cut \/ Between(p, i)
CutAt(i) == \A p \in Picos :
  /\ record[p][i] = "anew" => <<p, i>> \in cut
  /\ <<p, i>> \in cut => i \in upset

ListAt(i) == \A p \in Picos : LET q == peer[p][i] IN
  /\ list[p][i] = "inbound" =>
       /\ list[q][i] \in {"outbound", "established", "ended"}
       /\ record[p][i] = "linked" \/ Loose(p, i)
  /\ list[p][i] = "outbound" =>
       list[q][i] # "outbound" /\ approver[i] # p /\ (record[p][i] # "none" \/ Loose(p, i))
  /\ list[p][i] = "established" =>
       approver[i] # NoPico /\ (record[p][i] = "linked" \/ Loose(p, i))
  /\ approver[i] = p =>
       /\ list[p][i] \in {"inbound", "established", "ended"}
       /\ list[q][i] \in {"outbound", "established", "ended"}

EventAt(i) == \A p \in Picos : LET q == peer[p][i] IN
  /\ HasEvent(p, i, "sky_intro") =>
       /\ list[p][i] = "none" /\ list[q][i] \in {"outbound", "ended"}
       /\ record[p][i] = "linked" /\ approver[i] = NoPico
  /\ OneIntro(p, i)
  /\ HasEvent(p, i, "sky_intro_response") =>
       /\ approver[i] = q
       /\ list[p][i] = "outbound" => record[p][i] = "linked" \/ Loose(p, i)

Settling(p, i) == Approving(p, i) /\ txn[p].at = "settle"

\* As long as no failure met i and no withdrawal met its approval.
Told(p, i) == /\ txn[p].do = "cancel" /\ i \in txn[p].all
              /\ i \notin txn[p].left \/ txn[p].at = "splice"
Gone(p, i) == list[p][i] = "ended" \/ Told(p, i)
Heard(p, i) == txn[p].do = "told" /\ i \in txn[p].all
Splices(p, i) == txn[p].at = "splice" /\ i \in txn[p].left
\* Responses come before what a transaction waits for.
InOrder(p, i) == \A m, n \in 1 .. Len(queue[p]) :
  /\ queue[p][m].id = i /\ queue[p][m].kind = "sky_intro_response"
  /\ queue[p][n].id = i /\ queue[p][n].kind # "sky_intro_response"
  => m < n
Awaited(p, i) == \A n \in 1 .. Len(queue[p]) :
  queue[p][n].id = i /\ queue[p][n].kind # "sky_intro_response"
    => queue[p][n].caller # NoPico

Agrees(p, q, i) ==
  /\ Gone(p, i) => Gone(q, i) \/ list[q][i] \in {"none", "outbound"}
  /\ list[p][i] = "outbound" /\ HasEvent(p, i, "sky_intro_response") => ~Gone(q, i)
  /\ list[p][i] = "outbound" /\ approver[i] = q => HasEvent(p, i, "sky_intro_response")
  /\ list[p][i] = "outbound" /\ Heard(q, i) => list[q][i] = "inbound"
Tidy(p, i) ==
  /\ InOrder(p, i) /\ Awaited(p, i)
  /\ list[p][i] = "inbound" /\ approver[i] = p => Settling(p, i)
  /\ record[p][i] # "none" => i \in Held(p) \/ HasEvent(p, i, "sky_intro")
  /\ Splices(p, i) => record[p][i] = "none"
  /\ Heard(p, i) => txn[p].caller # NoPico
CalmAt(i) == \A p \in Picos :
  Tidy(p, i) /\ \A q \in Picos : peer[p][i] = q => Agrees(p, q, i)

PairInv == \A i \in Ids : PairAt(i)
TxnInv == \A i \in Ids : TxnAt(i)
CutInv == \A i \in Ids : CutAt(i)
ListInv == \A i \in Ids : ListAt(i)
EventInv == \A i \in Ids : EventAt(i)
CalmInv == \A i \in Ids \ upset : CalmAt(i)

IInv == /\ TypeInv /\ RestInv /\ PairInv /\ WaitInv
        /\ TxnInv /\ CutInv /\ ListInv /\ EventInv /\ CalmInv

-----------------------------------------------------------------------------
(* What operators on queues and transactions return.                        *)

LEMMA ConcatFacts ==
  ASSUME NEW S, NEW a \in Seq(S), NEW b \in Seq(S)
  PROVE  /\ a \o b \in Seq(S)
         /\ Len(a \o b) = Len(a) + Len(b)
         /\ \A m \in 1 .. Len(a) + Len(b) :
              (a \o b)[m] = IF m <= Len(a) THEN a[m] ELSE b[m - Len(a)]
OBVIOUS

LEMMA AppendFacts ==
  ASSUME NEW S, NEW s \in Seq(S), NEW e \in S
  PROVE  /\ Append(s, e) \in Seq(S)
         /\ Len(Append(s, e)) = Len(s) + 1
         /\ \A m \in 1 .. Len(s) + 1 :
              Append(s, e)[m] = IF m <= Len(s) THEN s[m] ELSE e
OBVIOUS

LEMMA TailFacts ==
  ASSUME NEW S, NEW s \in Seq(S), s # << >>
  PROVE  /\ Tail(s) \in Seq(S) /\ Len(s) \in Nat \ {0}
         /\ Len(Tail(s)) = Len(s) - 1
         /\ \A m \in 1 .. Len(s) - 1 : Tail(s)[m] = s[m + 1]
         /\ Head(s) = s[1] /\ s[1] \in S
OBVIOUS

\* k times e comes to the end of q's queue.
Grows(q, e, k) ==
  /\ \A r \in Picos \ {q} : queue'[r] = queue[r]
  /\ Len(queue'[q]) = Len(queue[q]) + k
  /\ \A n \in 1 .. Len(queue[q]) + k :
       queue'[q][n] = IF n <= Len(queue[q]) THEN queue[q][n] ELSE e

\* The first event of q's queue is taken.
Shrinks(q) ==
  /\ \A r \in Picos \ {q} : queue'[r] = queue[r]
  /\ Len(queue[q]) \in Nat \ {0}
  /\ Len(queue'[q]) = Len(queue[q]) - 1
  /\ \A n \in 1 .. Len(queue[q]) - 1 : queue'[q][n] = queue[q][n + 1]

\* The value of a function of picos and relationships changes at one point.
Set2(new, old, p, i, v) ==
  \A r \in Picos, j \in Ids : new[r][j] = IF r = p /\ j = i THEN v ELSE old[r][j]

LEMMA IdleFacts ==
  /\ Idle \in Txns /\ Shape(Idle)
  /\ Idle.do = "nothing" /\ Idle.at = "idle" /\ Idle.all = {} /\ Idle.left = {}
  /\ Idle.caller = NoPico
  /\ \A t : AfterIntro(t) = Idle
BY DEF Idle, Txn, Txns, Shape, Steps, Dos, Ats, AfterIntro

LEMMA TxnFacts ==
  ASSUME NEW do \in Dos, NEW I \in SUBSET Ids, NEW at \in Ats,
         NEW c \in Picos \union {NoPico}
  PROVE  LET t == Txn(do, I, at, c) IN
         /\ t \in Txns
         /\ t.do = do /\ t.all = I /\ t.left = I /\ t.at = at /\ t.caller = c
BY DEF Txn, Txns

LEMMA NoticeFacts ==
  ASSUME NEW t \in Txns, NEW i
  PROVE  LET u == AfterNotice(t, i) IN
         /\ u \in Txns
         /\ u.do = t.do /\ u.all = t.all /\ u.left = t.left \ {i} /\ u.caller = t.caller
         /\ u.at = IF t.left = {i} THEN "remove" ELSE "send"
BY DEF Txns, Ats, AfterNotice

LEMMA AtFacts ==
  ASSUME NEW t \in Txns, NEW a \in Ats
  PROVE  LET u == [t EXCEPT !.at = a] IN
         /\ u \in Txns
         /\ u.do = t.do /\ u.all = t.all /\ u.left = t.left /\ u.caller = t.caller
         /\ u.at = a
BY DEF Txns

LEMMA CallerFacts ==
  ASSUME NEW t \in Txns, NEW c \in Picos \union {NoPico}
  PROVE  LET u == [t EXCEPT !.caller = c] IN
         /\ u \in Txns
         /\ u.do = t.do /\ u.all = t.all /\ u.left = t.left /\ u.at = t.at
         /\ u.caller = c
BY DEF Txns

LEMMA EventFacts ==
  ASSUME NEW k \in Kinds, NEW i \in Ids, NEW c \in Picos \union {NoPico}
  PROVE  LET e == Event(k, i, c) IN
         e \in Events /\ e.kind = k /\ e.id = i /\ e.caller = c
BY DEF Event, Events

LEMMA OverFacts ==
  ASSUME NEW ts \in [Picos -> Txns], NEW p \in Picos, NEW i, ts[p].caller # p
  PROVE  Over(ts, p, i) = [r \in Picos |->
           IF r = p THEN Idle
           ELSE IF r = ts[p].caller THEN AfterReply(ts[r], i) ELSE ts[r]]
<1>1. ts[p].caller \in Picos \union {NoPico}
  BY DEF Txns
<1>2. QED
  BY <1>1, SkyAssumption DEF Over, SkyAssumption

\* The transaction of p becomes t; or that of q is over, and c, which waits for it
\* about i, goes on.
SetTxn(p, t) == \A r \in Picos : txn'[r] = IF r = p THEN t ELSE txn[r]
Ends(q, c, i) == \A r \in Picos :
  txn'[r] = IF r = q THEN Idle ELSE IF r = c THEN AfterReply(txn[r], i) ELSE txn[r]

\* AfterReply(t, i) for the transactions that may wait.
LEMMA ReplyFacts ==
  ASSUME NEW t \in Txns, NEW i
  PROVE  /\ AfterReply(t, i) \in Txns
         /\ t.do = "ask" => AfterReply(t, i) = Idle
         /\ t.do = "cancel" => AfterReply(t, i) = AfterNotice(t, i)
BY IdleFacts, NoticeFacts DEF AfterReply

LEMMA EndsTypes ==
  ASSUME Types, NEW q \in Picos, NEW c \in Picos \union {NoPico}, NEW i,
         NEW ts \in [Picos -> Txns], ts[q].caller = c, c # q,
         \A r \in Picos \ {q} : ts[r] = txn[r],
         txn' = Over(ts, q, i)
  PROVE  txn' \in [Picos -> Txns] /\ Ends(q, c, i)
<1>1. \A r \in Picos : AfterReply(ts[r], i) \in Txns
  BY ReplyFacts
<1>2. txn' = [r \in Picos |-> IF r = q THEN Idle
                ELSE IF r = c THEN AfterReply(ts[r], i) ELSE ts[r]]
  BY OverFacts
<1>3. txn' \in [Picos -> Txns]
  BY <1>1, <1>2, IdleFacts
<1>4. QED BY <1>2, <1>3 DEF Ends

LEMMA SetTypes ==
  ASSUME Types, NEW p \in Picos, NEW t \in Txns, txn' = [txn EXCEPT ![p] = t]
  PROVE  txn' \in [Picos -> Txns] /\ SetTxn(p, t)
BY DEF Types, SetTxn

LEMMA AppendTypes ==
  ASSUME Types, NEW q \in Picos, NEW e \in Events,
         queue' = [queue EXCEPT ![q] = Append(@, e)]
  PROVE  queue' \in [Picos -> Seq(Events)] /\ Grows(q, e, 1)
<1>1. queue[q] \in Seq(Events)
  BY DEF Types
<1>2. /\ Append(queue[q], e) \in Seq(Events)
      /\ Len(Append(queue[q], e)) = Len(queue[q]) + 1
      /\ \A m \in 1 .. Len(queue[q]) + 1 :
           Append(queue[q], e)[m] = IF m <= Len(queue[q]) THEN queue[q][m] ELSE e
  BY <1>1, AppendFacts
<1>3. queue' \in [Picos -> Seq(Events)] /\ queue'[q] = Append(queue[q], e)
      /\ \A r \in Picos \ {q} : queue'[r] = queue[r]
  BY <1>2 DEF Types
<1>4. QED BY <1>2, <1>3 DEF Grows

LEMMA TakeTypes ==
  ASSUME Types, NEW q \in Picos, queue[q] # << >>,
         queue' = [queue EXCEPT ![q] = Tail(@)]
  PROVE  /\ queue' \in [Picos -> Seq(Events)] /\ Shrinks(q)
         /\ Head(queue[q]) = queue[q][1] /\ queue[q][1] \in Events
         /\ 1 \in 1 .. Len(queue[q])
<1>1. queue[q] \in Seq(Events)
  BY DEF Types
<1>2. /\ Tail(queue[q]) \in Seq(Events)
      /\ Len(queue[q]) \in Nat \ {0}
      /\ Len(Tail(queue[q])) = Len(queue[q]) - 1
      /\ \A m \in 1 .. Len(queue[q]) - 1 : Tail(queue[q])[m] = queue[q][m + 1]
      /\ Head(queue[q]) = queue[q][1] /\ queue[q][1] \in Events
  BY <1>1, TailFacts
<1>3. queue' \in [Picos -> Seq(Events)] /\ queue'[q] = Tail(queue[q])
      /\ \A r \in Picos \ {q} : queue'[r] = queue[r]
  BY <1>2 DEF Types
<1>4. QED BY <1>2, <1>3 DEF Shrinks

\* Nobody waits for itself, and whom somebody waits for it does not wait for.
LEMMA Waiters ==
  ASSUME TypeInv, PairInv, WaitInv, NEW q \in Picos
  PROVE  /\ txn[q].caller # q
         /\ \A n \in 1 .. Len(queue[q]) : queue[q][n].caller # q
         /\ \A n \in 1 .. Len(queue[q]) :
              queue[q][n] \in Events /\ queue[q][n].id \in Ids
         /\ txn[q] \in Txns /\ Shape(txn[q])
<1>1. txn[q] \in Txns /\ Shape(txn[q]) /\ Len(queue[q]) \in Nat
      /\ \A n \in 1 .. Len(queue[q]) : queue[q][n] \in Events /\ queue[q][n].id \in Ids
  <2>1. queue[q] \in Seq(Events) /\ txn[q] \in Txns /\ Shape(txn[q])
    BY DEF TypeInv, Types
  <2>2. \A n \in 1 .. Len(queue[q]) : queue[q][n] \in Events
    BY <2>1
  <2>3. QED BY <2>1, <2>2 DEF Events
<1>2. ASSUME txn[q].caller = q PROVE FALSE
  <2>1. txn[q].caller # NoPico /\ txn[q].do \in {"accept", "told"}
    BY <1>1, <1>2, SkyAssumption DEF Shape, SkyAssumption
  <2>2. PICK i \in Ids : txn[q].all = {i}
    BY <1>1, <2>1 DEF Shape
  <2>3. peer[q][i] = q
    BY <1>2, <2>1, <2>2 DEF WaitInv
  <2>4. QED BY <2>3, SkyAssumption DEF PairInv, PairAt, SkyAssumption
<1>3. ASSUME NEW n \in 1 .. Len(queue[q]), queue[q][n].caller = q PROVE FALSE
  <2>1. peer[q][queue[q][n].id] = q
    BY <1>3, SkyAssumption DEF WaitInv, SkyAssumption
  <2>2. QED BY <1>1, <2>1, SkyAssumption DEF PairInv, PairAt, SkyAssumption
<1>4. QED BY <1>1, <1>2, <1>3

-----------------------------------------------------------------------------
(* What each action does, point by point.                                   *)

LEMMA ListTypes ==
  ASSUME Types, NEW p \in Picos, NEW i \in Ids, NEW v \in Lists,
         list' = [list EXCEPT ![p][i] = v]
  PROVE  list' \in [Picos -> [Ids -> Lists]] /\ Set2(list', list, p, i, v)
BY DEF Types, Set2

LEMMA PeerTypes ==
  ASSUME Types, NEW p \in Picos, NEW i \in Ids, NEW v \in Picos,
         peer' = [peer EXCEPT ![p][i] = v]
  PROVE  peer' \in [Picos -> [Ids -> Picos \union {NoPico}]] /\ Set2(peer', peer, p, i, v)
BY DEF Types, Set2

LEMMA RecordTypes ==
  ASSUME Types, NEW p \in Picos, NEW i \in Ids, NEW v \in Records,
         record' = [record EXCEPT ![p][i] = v]
  PROVE  /\ record' \in [Picos -> [Ids -> Records]]
         /\ Set2(record', record, p, i, v)
BY DEF Types, Set2

\* What the records may be set to.
LEMMA RecordValues ==
  "none" \in Records /\ "half" \in Records /\ "linked" \in Records /\ "anew" \in Records
BY DEF Records

\* The other pico of a relationship that a transaction or a bus is about.
LEMMA Actors ==
  ASSUME TypeInv, PairInv, NEW p \in Picos, NEW i \in Ids, About(p, i) \/ list[p][i] # "none"
  PROVE  peer[p][i] \in Picos \ {p}
BY DEF TypeInv, Types, PairInv, PairAt

LEMMA Approvals ==
  ASSUME TypeInv, PairInv, NEW q \in Picos, txn[q].at \in {"read", "write", "settle"}
  PROVE  /\ txn[q].do \in {"accept", "approve"}
         /\ \E i \in Ids : /\ txn[q].all = {i} /\ txn[q].left = {i}
                           /\ About(q, i) /\ Approving(q, i)
                           /\ peer[q][i] \in Picos \ {q}
<1>1. txn[q].do \in {"accept", "approve"}
  BY DEF TypeInv, Shape, Steps
<1>2. PICK i \in Ids : txn[q].all = {i} /\ txn[q].left = {i}
  BY <1>1 DEF TypeInv, Shape
<1>3. About(q, i) /\ Approving(q, i)
  BY <1>1, <1>2 DEF About, Approving
<1>4. peer[q][i] \in Picos \ {q}
  BY <1>3, Actors
<1>5. QED BY <1>1, <1>2, <1>3, <1>4

LEMMA AskFacts ==
  ASSUME TypeInv, NEW p \in Picos, NEW q \in Picos, NEW i \in Ids, Ask(p, q, i)
  PROVE  /\ p # q /\ txn[p] = Idle /\ \A r \in Picos : list[r][i] = "none"
         /\ Types'
         /\ Set2(list', list, p, i, "outbound")
         /\ Set2(peer', peer, p, i, q)
         /\ SetTxn(p, Txn("ask", {i}, "record", NoPico))
         /\ UNCHANGED <<record, queue, history>>
<1> DEFINE t == Txn("ask", {i}, "record", NoPico)
<1> HIDE DEF t
<1>1. t \in Txns
  BY DEF t, Txn, Txns, Dos, Ats
<1>2. /\ p # q /\ txn[p] = Idle /\ \A r \in Picos : list[r][i] = "none"
      /\ list' = [list EXCEPT ![p][i] = "outbound"]
      /\ peer' = [peer EXCEPT ![p][i] = q]
      /\ txn' = [txn EXCEPT ![p] = t]
      /\ UNCHANGED <<record, queue, history>>
  BY DEF Ask, t
<1>3. txn' \in [Picos -> Txns] /\ SetTxn(p, t)
  BY <1>1, <1>2, SetTypes DEF TypeInv
<1>4. list' \in [Picos -> [Ids -> Lists]] /\ Set2(list', list, p, i, "outbound")
  BY <1>2, ListTypes DEF TypeInv, Lists
<1>5. peer' \in [Picos -> [Ids -> Picos \union {NoPico}]] /\ Set2(peer', peer, p, i, q)
  BY <1>2, PeerTypes DEF TypeInv
<1>6. Types'
  BY <1>2, <1>3, <1>4, <1>5 DEF TypeInv, Types, history
<1>7. QED BY <1>2, <1>3, <1>4, <1>5, <1>6 DEF t

\* A transaction that is to make a record is about one relationship, and nobody
\* waits for it.
LEMMA Recording ==
  ASSUME TypeInv, NEW p \in Picos, txn[p].at = "record"
  PROVE  /\ txn[p].do \in {"ask", "confirm"} /\ txn[p].caller = NoPico
         /\ \E i \in Ids : txn[p].all = {i} /\ txn[p].left = {i}
<1>1. txn[p] \in Txns /\ Shape(txn[p])
  BY DEF TypeInv, Types
<1>2. txn[p].do \in {"ask", "confirm"}
  BY <1>1 DEF Shape, Steps, Txns, Dos
<1>3. QED BY <1>1, <1>2 DEF Shape

LEMMA EstablishFacts ==
  ASSUME TypeInv, PairInv, WaitInv, NEW p \in Picos, NEW i \in Ids,
         establishSubscriptionIdentity(p, i)
  PROVE  /\ txn[p].at = "record" /\ txn[p].all = {i} /\ txn[p].left = {i}
         /\ Types'
         /\ \/ /\ txn[p].do = "ask"
               /\ Set2(record', record, p, i, "half")
               /\ SetTxn(p, [txn[p] EXCEPT !.at = "send"])
            \/ /\ txn[p].do = "confirm"
               /\ Set2(record', record, p, i, "anew")
               /\ SetTxn(p, Idle)
         /\ UNCHANGED <<buses, queue, history>>
<1> DEFINE t == [txn[p] EXCEPT !.at = "send"]
<1> HIDE DEF t
<1>1. /\ txn[p].at = "record" /\ i \in txn[p].left
      /\ UNCHANGED <<buses, queue, history>>
  BY DEF establishSubscriptionIdentity
<1>2. txn[p].do \in {"ask", "confirm"} /\ txn[p].caller = NoPico
      /\ txn[p].all = {i} /\ txn[p].left = {i}
  BY <1>1, Recording
<1>3. txn[p] \in Txns
  BY DEF TypeInv, Types
<1>4. CASE txn[p].do = "ask"
  <2>1. txn' = [txn EXCEPT ![p] = t] /\ t \in Txns
    BY <1>3, <1>4, AtFacts DEF t, Ats, establishSubscriptionIdentity
  <2>2. txn' \in [Picos -> Txns] /\ SetTxn(p, t)
    BY <2>1, SetTypes DEF TypeInv
  <2>3. record' = [record EXCEPT ![p][i] = "half"]
    BY <1>4 DEF establishSubscriptionIdentity
  <2>4. record' \in [Picos -> [Ids -> Records]] /\ Set2(record', record, p, i, "half")
    BY <2>3, RecordTypes, RecordValues DEF TypeInv
  <2>5. Types'
    BY <1>1, <2>2, <2>4 DEF TypeInv, Types, buses, history
  <2>6. QED BY <1>1, <1>2, <1>4, <2>2, <2>4, <2>5 DEF t
<1>5. CASE txn[p].do = "confirm"
  <2>1. txn' = Over(txn, p, i) /\ record' = [record EXCEPT ![p][i] = "anew"]
    BY <1>5 DEF establishSubscriptionIdentity
  <2>2. txn' \in [Picos -> Txns] /\ Ends(p, NoPico, i)
    <3>1. txn \in [Picos -> Txns] /\ NoPico # p
      BY SkyAssumption DEF TypeInv, Types, SkyAssumption
    <3>2. QED BY <1>2, <2>1, <3>1, EndsTypes DEF TypeInv
  <2>3. SetTxn(p, Idle)
    BY <2>2, SkyAssumption DEF Ends, SetTxn, SkyAssumption
  <2>4. record' \in [Picos -> [Ids -> Records]] /\ Set2(record', record, p, i, "anew")
    BY <2>1, RecordTypes, RecordValues DEF TypeInv
  <2>5. Types'
    BY <1>1, <2>2, <2>4 DEF TypeInv, Types, buses, history
  <2>6. QED BY <1>1, <1>2, <1>5, <2>3, <2>4, <2>5
<1>6. QED BY <1>2, <1>4, <1>5

LEMMA IntroduceFacts ==
  ASSUME TypeInv, PairInv, NEW p \in Picos, NEW i \in Ids, Introduce(p, i)
  PROVE  LET q == peer[p][i] IN
         /\ Asking(p, i) /\ txn[p].at = "send" /\ q \in Picos \ {p}
         /\ Types'
         /\ UNCHANGED <<list, history>>
         /\ \/ SetTxn(p, Idle) /\ UNCHANGED <<record, queue, peer>>
            \/ /\ Set2(record', record, q, i, "linked")
               /\ Set2(peer', peer, q, i, p)
               /\ Grows(q, Event("sky_intro", i, p), 1)
               /\ SetTxn(p, [txn[p] EXCEPT !.at = "wait"])
<1> DEFINE q == peer[p][i]
           e == Event("sky_intro", i, p)
           t == [txn[p] EXCEPT !.at = "wait"]
<1> HIDE DEF e, t
<1>1. /\ txn[p].do = "ask" /\ txn[p].at = "send" /\ i \in txn[p].left
      /\ UNCHANGED <<list, history>>
  BY DEF Introduce
<1>2. txn[p] \in Txns /\ Shape(txn[p])
  BY DEF TypeInv, Types
<1>3. Asking(p, i) /\ About(p, i)
  BY <1>1, <1>2 DEF Asking, About, Shape
<1>4. q \in Picos \ {p}
  BY <1>3, Actors
<1>5. CASE txn' = [txn EXCEPT ![p] = AfterIntro(@)] /\ UNCHANGED <<record, queue, peer>>
  <2>1. txn' = [txn EXCEPT ![p] = Idle]
    BY <1>5, IdleFacts
  <2>2. txn' \in [Picos -> Txns] /\ SetTxn(p, Idle)
    BY <2>1, IdleFacts, SetTypes DEF TypeInv
  <2>3. Types'
    BY <1>1, <1>5, <2>2 DEF TypeInv, Types, history
  <2>4. QED BY <1>1, <1>3, <1>4, <1>5, <2>2, <2>3
<1>6. CASE /\ record' = [record EXCEPT ![q][i] = "linked"]
           /\ peer' = [peer EXCEPT ![q][i] = p]
           /\ queue' = [queue EXCEPT ![q] = Append(@, e)]
           /\ txn' = [txn EXCEPT ![p].at = "wait"]
  <2>1. txn' = [txn EXCEPT ![p] = t] /\ t \in Txns
    BY <1>2, <1>6, AtFacts DEF t, Ats
  <2>2. txn' \in [Picos -> Txns] /\ SetTxn(p, t)
    BY <2>1, SetTypes DEF TypeInv
  <2>3. queue' \in [Picos -> Seq(Events)] /\ Grows(q, e, 1)
    <3>1. e \in Events
      BY EventFacts DEF e, Kinds
    <3>2. QED BY <1>4, <1>6, <3>1, AppendTypes DEF TypeInv
  <2>4. peer' \in [Picos -> [Ids -> Picos \union {NoPico}]] /\ Set2(peer', peer, q, i, p)
    BY <1>4, <1>6, PeerTypes DEF TypeInv
  <2>5. record' \in [Picos -> [Ids -> Records]]
        /\ Set2(record', record, q, i, "linked")
    BY <1>4, <1>6, RecordTypes, RecordValues DEF TypeInv
  <2>6. Types'
    BY <1>1, <2>2, <2>3, <2>4, <2>5 DEF TypeInv, Types, history
  <2>7. QED BY <1>1, <1>3, <1>4, <2>2, <2>3, <2>4, <2>5, <2>6 DEF t, e
<1>7. QED BY <1>5, <1>6 DEF Introduce, e

LEMMA LinkReadFacts ==
  ASSUME TypeInv, PairInv, WaitInv, NEW q \in Picos, NEW i \in Ids,
         txn[q].all = {i}, LinkRead(q)
  PROVE  /\ txn[q].at = "read"
         /\ Types'
         /\ UNCHANGED <<buses, record, queue, history>>
         /\ \/ Ends(q, txn[q].caller, i)
            \/ /\ record[q][i] # "none" /\ record[peer[q][i]][i] # "none"
               /\ SetTxn(q, [txn[q] EXCEPT !.at = "write"])
<1> DEFINE t == [txn[q] EXCEPT !.at = "write"]
<1> HIDE DEF t
<1>1. /\ txn[q].at = "read" /\ UNCHANGED <<buses, record, queue, history>>
      /\ txn' = IF "none" \in {record[q][i], record[peer[q][i]][i]} THEN Over(txn, q, i)
                ELSE [txn EXCEPT ![q].at = "write"]
  BY DEF LinkRead
<1>2. txn[q] \in Txns /\ txn[q].caller \in Picos \union {NoPico} /\ txn[q].caller # q
  BY Waiters DEF Txns
<1>3. CASE "none" \in {record[q][i], record[peer[q][i]][i]}
  <2>1. txn' \in [Picos -> Txns] /\ Ends(q, txn[q].caller, i)
    BY <1>1, <1>2, <1>3, EndsTypes DEF TypeInv, Types
  <2>2. Types'
    BY <1>1, <2>1 DEF TypeInv, Types, history, buses
  <2>3. QED BY <1>1, <1>3, <2>1, <2>2
<1>4. CASE "none" \notin {record[q][i], record[peer[q][i]][i]}
  <2>1. txn' = [txn EXCEPT ![q] = t] /\ t \in Txns
    BY <1>1, <1>2, <1>4, AtFacts DEF t, Ats
  <2>2. txn' \in [Picos -> Txns] /\ SetTxn(q, t)
    BY <2>1, SetTypes DEF TypeInv
  <2>3. Types'
    BY <1>1, <2>2 DEF TypeInv, Types, history, buses
  <2>4. QED BY <1>1, <1>4, <2>2, <2>3 DEF t
<1>5. QED BY <1>3, <1>4

Response(i) == Event("sky_intro_response", i, NoPico)

LEMMA ResponsesFacts ==
  ASSUME NEW q \in Picos, NEW i \in Ids
  PROVE  \E k \in Nat \ {0} :
           /\ Responses(q, i) \in Seq(Events) /\ Len(Responses(q, i)) = k
           /\ \A n \in 1 .. k : Responses(q, i)[n] = Response(i)
<1>1. Response(i) \in Events
  BY EventFacts DEF Response, Kinds
<1>2. CASE txn[q].do = "accept"
  <2>1. Responses(q, i) = [n \in 1 .. Repeats |-> Response(i)]
    BY <1>2 DEF Responses, Response
  <2>2. Repeats \in Nat \ {0}
    BY SkyAssumption DEF SkyAssumption
  <2>3. QED BY <1>1, <2>1, <2>2
<1>3. CASE txn[q].do # "accept"
  <2>1. Responses(q, i) = <<Response(i)>>
    BY <1>3 DEF Responses, Response
  <2>2. QED BY <1>1, <2>1
<1>4. QED BY <1>2, <1>3

LEMMA LinkWriteFacts ==
  ASSUME TypeInv, PairInv, NEW q \in Picos, NEW i \in Ids,
         txn[q].all = {i}, LinkWrite(q)
  PROVE  LET p == peer[q][i] IN
         /\ txn[q].at = "write" /\ p \in Picos \ {q}
         /\ Types'
         /\ \E v \in {"linked", "anew"} :
              Set2(record', record, p, i, v) /\ (v = "anew" => record[p][i] = "anew")
         /\ \E k \in Nat \ {0} : Grows(p, Response(i), k)
         /\ approver' = [approver EXCEPT ![i] = q]
         /\ SetTxn(q, [txn[q] EXCEPT !.at = "settle"])
         /\ UNCHANGED <<home, buses, upset, cut, faults>>
<1> DEFINE p == peer[q][i]
           t == [txn[q] EXCEPT !.at = "settle"]
           s == Responses(q, i)
<1> HIDE DEF t, s
<1>1. /\ txn[q].at = "write"
      /\ queue' = [queue EXCEPT ![p] = @ \o s]
      /\ approver' = [approver EXCEPT ![i] = q]
      /\ txn' = [txn EXCEPT ![q].at = "settle"]
      /\ UNCHANGED <<home, buses, upset, cut, faults>>
  BY DEF LinkWrite, s
<1>0. PICK v \in {"linked"} \union ({record[p][i]} \intersect {"anew"}) :
        record' = [record EXCEPT ![p][i] = v]
  BY DEF LinkWrite
<1>2. txn[q] \in Txns /\ p \in Picos \ {q}
  BY Actors DEF TypeInv, Types, About
<1>3. txn' \in [Picos -> Txns] /\ SetTxn(q, t)
  <2>1. txn' = [txn EXCEPT ![q] = t] /\ t \in Txns
    BY <1>1, <1>2, AtFacts DEF t, Ats
  <2>2. QED BY <2>1, SetTypes DEF TypeInv
<1>4. PICK k \in Nat \ {0} : s \in Seq(Events) /\ Len(s) = k
                            /\ \A n \in 1 .. k : s[n] = Response(i)
  BY ResponsesFacts DEF s
<1>5. queue' \in [Picos -> Seq(Events)] /\ Grows(p, Response(i), k)
  <2>1. queue[p] \in Seq(Events) /\ Len(queue[p]) \in Nat
    BY <1>2 DEF TypeInv, Types
  <2>2. /\ queue[p] \o s \in Seq(Events)
        /\ Len(queue[p] \o s) = Len(queue[p]) + k
        /\ \A m \in 1 .. Len(queue[p]) + k :
             (queue[p] \o s)[m] = IF m <= Len(queue[p]) THEN queue[p][m]
                                  ELSE s[m - Len(queue[p])]
    <3>1. /\ queue[p] \o s \in Seq(Events)
          /\ Len(queue[p] \o s) = Len(queue[p]) + Len(s)
          /\ \A m \in 1 .. Len(queue[p]) + Len(s) :
               (queue[p] \o s)[m] = IF m <= Len(queue[p]) THEN queue[p][m]
                                    ELSE s[m - Len(queue[p])]
      <4> DEFINE b == queue[p]
      <4>1. b \in Seq(Events) /\ s \in Seq(Events)
        BY <1>4, <2>1
      <4> HIDE DEF b
      <4>2. /\ b \o s \in Seq(Events)
            /\ Len(b \o s) = Len(b) + Len(s)
            /\ \A m \in 1 .. Len(b) + Len(s) :
                 (b \o s)[m] = IF m <= Len(b) THEN b[m] ELSE s[m - Len(b)]
        BY <4>1
      <4>3. QED BY <4>2 DEF b
    <3>2. QED BY <1>4, <3>1, Zenon
  <2>3. \A m \in 1 .. Len(queue[p]) + k : ~(m <= Len(queue[p])) =>
          m - Len(queue[p]) \in 1 .. k
    BY <1>4, <2>1
  <2>4. \A m \in 1 .. Len(queue[p]) + k :
          (queue[p] \o s)[m] = IF m <= Len(queue[p]) THEN queue[p][m] ELSE Response(i)
    BY <1>4, <2>2, <2>3
  <2>5. queue' \in [Picos -> Seq(Events)] /\ queue'[p] = queue[p] \o s
        /\ \A r \in Picos \ {p} : queue'[r] = queue[r]
    BY <1>1, <1>2, <2>2 DEF TypeInv, Types
  <2>6. QED BY <2>2, <2>4, <2>5 DEF Grows
<1>6. record' \in [Picos -> [Ids -> Records]]
      /\ Set2(record', record, p, i, v)
  BY <1>0, <1>2, RecordTypes, RecordValues DEF TypeInv
<1>7. Types'
  <2>1. approver' \in [Ids -> Picos \union {NoPico}]
    BY <1>1 DEF TypeInv, Types
  <2>2. QED BY <1>1, <1>3, <1>5, <1>6, <2>1 DEF TypeInv, Types, buses
<1>8. QED BY <1>0, <1>1, <1>2, <1>3, <1>5, <1>6, <1>7 DEF t

LEMMA SettleFacts ==
  ASSUME TypeInv, PairInv, WaitInv, NEW q \in Picos, NEW i \in Ids,
         txn[q].all = {i}, addInboundSubscription(q)
  PROVE  /\ txn[q].at = "settle"
         /\ Types'
         /\ Set2(list', list, q, i, "established")
         /\ Ends(q, txn[q].caller, i)
         /\ UNCHANGED <<peer, record, queue, history>>
<1>1. /\ txn[q].at = "settle" /\ UNCHANGED <<peer, record, queue, history>>
      /\ list' = [list EXCEPT ![q][i] = "established"]
      /\ txn' = Over(txn, q, i)
  BY DEF addInboundSubscription
<1>2. txn[q].caller \in Picos \union {NoPico} /\ txn[q].caller # q
  BY Waiters DEF Txns
<1>3. txn' \in [Picos -> Txns] /\ Ends(q, txn[q].caller, i)
  BY <1>1, <1>2, EndsTypes DEF TypeInv, Types
<1>4. list' \in [Picos -> [Ids -> Lists]] /\ Set2(list', list, q, i, "established")
  BY <1>1, ListTypes DEF TypeInv, Lists
<1>5. Types'
  BY <1>1, <1>3, <1>4 DEF TypeInv, Types, history
<1>6. QED BY <1>1, <1>3, <1>4, <1>5

\* A pico that serves an event is idle, and nobody waits for its transaction.
LEMMA ServeFacts ==
  ASSUME TypeInv, PairInv, WaitInv, NEW q \in Picos, NEW K, Takes(q, K),
         queue' = [queue EXCEPT ![q] = Tail(@)]
  PROVE  /\ txn[q] = Idle /\ queue' \in [Picos -> Seq(Events)] /\ Shrinks(q)
         /\ 1 \in 1 .. Len(queue[q])
         /\ Head(queue[q]) = queue[q][1] /\ queue[q][1] \in Events
         /\ queue[q][1].kind \in K /\ queue[q][1].id \in Ids
         /\ queue[q][1].caller \in (Picos \ {q}) \union {NoPico}
         /\ peer[q][queue[q][1].id] \in Picos \ {q}
         /\ txn' = Over(Serving(q), q, queue[q][1].id) =>
              txn' \in [Picos -> Txns] /\ Ends(q, queue[q][1].caller, queue[q][1].id)
<1> DEFINE e == queue[q][1]
<1>1. txn[q] = Idle /\ queue[q] # << >> /\ Head(queue[q]).kind \in K
  BY DEF Takes
<1>2. /\ queue' \in [Picos -> Seq(Events)] /\ Shrinks(q)
      /\ Head(queue[q]) = e /\ e \in Events /\ 1 \in 1 .. Len(queue[q])
  BY <1>1, TakeTypes DEF TypeInv
<1>3. e.id \in Ids /\ e.caller \in Picos \union {NoPico} /\ e.caller # q
  BY <1>2, Waiters DEF Events
<1>4. peer[q][e.id] \in Picos \ {q}
  BY <1>2, <1>3 DEF PairInv, PairAt, Mentioned, TypeInv, Types
<1>5. ASSUME txn' = Over(Serving(q), q, e.id)
      PROVE  txn' \in [Picos -> Txns] /\ Ends(q, e.caller, e.id)
  <2> DEFINE ts == Serving(q)
  <2>1. ts = [txn EXCEPT ![q] = [txn[q] EXCEPT !.caller = e.caller]]
    BY <1>2 DEF Serving, TypeInv, Types
  <2>2. txn[q] \in Txns
    BY DEF TypeInv, Types
  <2>3. [txn[q] EXCEPT !.caller = e.caller] \in Txns
        /\ [txn[q] EXCEPT !.caller = e.caller].caller = e.caller
    BY <1>3, <2>2, CallerFacts
  <2>4. ts \in [Picos -> Txns] /\ ts[q].caller = e.caller
        /\ \A r \in Picos \ {q} : ts[r] = txn[r]
    BY <2>1, <2>3 DEF TypeInv, Types
  <2> HIDE DEF ts
  <2>5. txn' = Over(ts, q, e.id)
    BY <1>5 DEF ts
  <2>6. QED BY <1>3, <2>4, <2>5, EndsTypes DEF TypeInv
<1>6. QED BY <1>1, <1>2, <1>3, <1>4, <1>5

LEMMA PendingFacts ==
  ASSUME TypeInv, PairInv, WaitInv, NEW q \in Picos, NEW i, i = queue[q][1].id,
         addInboundPendingFromSkyIntro(q)
  PROVE  LET e == queue[q][1] IN
         /\ txn[q] = Idle /\ i \in Ids /\ 1 \in 1 .. Len(queue[q])
         /\ e.kind = "sky_intro" /\ e.caller \in (Picos \ {q}) \union {NoPico}
         /\ peer[q][i] \in Picos \ {q}
         /\ Types'
         /\ Set2(list', list, q, i, "inbound")
         /\ Shrinks(q)
         /\ \/ Ends(q, e.caller, i)
            \/ SetTxn(q, Txn("accept", {i}, "read", e.caller))
         /\ UNCHANGED <<peer, record, history>>
<1> DEFINE e == queue[q][1]
           t == Txn("accept", {i}, "read", e.caller)
<1> HIDE DEF t
<1>0. /\ Takes(q, {"sky_intro"}) /\ queue' = [queue EXCEPT ![q] = Tail(@)]
      /\ UNCHANGED <<peer, record, history>>
  BY DEF addInboundPendingFromSkyIntro
<1>1. /\ txn[q] = Idle /\ queue' \in [Picos -> Seq(Events)] /\ Shrinks(q)
      /\ 1 \in 1 .. Len(queue[q])
      /\ Head(queue[q]) = e /\ e.kind \in {"sky_intro"} /\ i \in Ids
      /\ e.caller \in (Picos \ {q}) \union {NoPico}
      /\ peer[q][i] \in Picos \ {q}
      /\ txn' = Over(Serving(q), q, i) => txn' \in [Picos -> Txns] /\ Ends(q, e.caller, i)
  BY <1>0, ServeFacts
<1>2. /\ list' = [list EXCEPT ![q][i] = "inbound"]
      /\ txn' = Over(Serving(q), q, i) \/ txn' = [txn EXCEPT ![q] = t]
  BY <1>1 DEF addInboundPendingFromSkyIntro, t
<1>3. list' \in [Picos -> [Ids -> Lists]] /\ Set2(list', list, q, i, "inbound")
  BY <1>1, <1>2, ListTypes DEF TypeInv, Lists
<1>4. t \in Txns
  BY <1>1 DEF t, Txn, Txns, Dos, Ats
<1>5. txn' = [txn EXCEPT ![q] = t] => txn' \in [Picos -> Txns] /\ SetTxn(q, t)
  BY <1>4, SetTypes DEF TypeInv
<1>6. txn' \in [Picos -> Txns] /\ (Ends(q, e.caller, i) \/ SetTxn(q, t))
  BY <1>1, <1>2, <1>5
<1>7. Types'
  BY <1>0, <1>1, <1>3, <1>6 DEF TypeInv, Types, history
<1>8. QED BY <1>0, <1>1, <1>3, <1>6, <1>7 DEF t

LEMMA ApproveFacts ==
  ASSUME TypeInv, NEW q \in Picos, NEW i \in Ids, Approve(q, i)
  PROVE  /\ txn[q] = Idle /\ list[q][i] = "inbound"
         /\ Types'
         /\ SetTxn(q, Txn("approve", {i}, "read", NoPico))
         /\ UNCHANGED <<buses, record, queue, history>>
<1> DEFINE t == Txn("approve", {i}, "read", NoPico)
<1> HIDE DEF t
<1>1. /\ txn[q] = Idle /\ list[q][i] = "inbound" /\ txn' = [txn EXCEPT ![q] = t]
      /\ UNCHANGED <<buses, record, queue, history>>
  BY DEF Approve, t
<1>2. t \in Txns
  BY DEF t, Txn, Txns, Dos, Ats
<1>3. txn' \in [Picos -> Txns] /\ SetTxn(q, t)
  BY <1>1, <1>2, SetTypes DEF TypeInv
<1>4. Types'
  BY <1>1, <1>3 DEF TypeInv, Types, history, buses
<1>5. QED BY <1>1, <1>3, <1>4 DEF t

LEMMA ConfirmFacts ==
  ASSUME TypeInv, PairInv, WaitInv, NEW p \in Picos, NEW i, i = queue[p][1].id,
         addOutboundSubscriptionLayer2(p)
  PROVE  LET e == queue[p][1] IN
         /\ txn[p] = Idle /\ i \in Ids /\ 1 \in 1 .. Len(queue[p])
         /\ e.kind = "sky_intro_response" /\ e.caller = NoPico
         /\ peer[p][i] \in Picos \ {p}
         /\ Types'
         /\ (list[p][i] = "outbound" => Set2(list', list, p, i, "established"))
         /\ (list[p][i] # "outbound" => list' = list)
         /\ Shrinks(p)
         /\ \/ SetTxn(p, Idle) /\ (list[p][i] = "outbound" => record[p][i] # "none")
            \/ /\ list[p][i] = "outbound" /\ record[p][i] = "none"
               /\ SetTxn(p, Txn("confirm", {i}, "record", NoPico))
         /\ UNCHANGED <<peer, record, history>>
<1> DEFINE e == queue[p][1]
           t == Txn("confirm", {i}, "record", NoPico)
<1> HIDE DEF t
<1>0. /\ Takes(p, {"sky_intro_response"}) /\ queue' = [queue EXCEPT ![p] = Tail(@)]
      /\ UNCHANGED <<peer, record, history>>
  BY DEF addOutboundSubscriptionLayer2
<1>1. /\ txn[p] = Idle /\ queue' \in [Picos -> Seq(Events)] /\ Shrinks(p)
      /\ 1 \in 1 .. Len(queue[p])
      /\ Head(queue[p]) = e /\ e.kind \in {"sky_intro_response"} /\ i \in Ids
      /\ e.caller \in (Picos \ {p}) \union {NoPico}
      /\ peer[p][i] \in Picos \ {p}
      /\ txn' = Over(Serving(p), p, i) => txn' \in [Picos -> Txns] /\ Ends(p, e.caller, i)
  BY <1>0, ServeFacts
<1>2. e.caller = NoPico
  BY <1>1 DEF WaitInv, NoticeOf
<1>3. /\ list' = IF list[p][i] = "outbound"
                 THEN [list EXCEPT ![p][i] = "established"] ELSE list
      /\ txn' = IF list[p][i] = "outbound" /\ record[p][i] = "none"
                THEN [txn EXCEPT ![p] = t] ELSE Over(Serving(p), p, i)
  BY <1>1, <1>2 DEF addOutboundSubscriptionLayer2, t
<1>4. t \in Txns
  BY <1>1 DEF t, Txn, Txns, Dos, Ats
<1>5. /\ txn' \in [Picos -> Txns]
      /\ \/ SetTxn(p, Idle) /\ (list[p][i] = "outbound" => record[p][i] # "none")
         \/ list[p][i] = "outbound" /\ record[p][i] = "none" /\ SetTxn(p, t)
  <2>1. CASE list[p][i] = "outbound" /\ record[p][i] = "none"
    BY <1>3, <1>4, <2>1, SetTypes DEF TypeInv
  <2>2. CASE ~(list[p][i] = "outbound" /\ record[p][i] = "none")
    <3>1. txn' \in [Picos -> Txns] /\ Ends(p, NoPico, i)
      BY <1>1, <1>2, <1>3, <2>2
    <3>2. SetTxn(p, Idle)
      BY <3>1, SkyAssumption DEF Ends, SetTxn, SkyAssumption
    <3>3. QED BY <2>2, <3>1, <3>2
  <2>3. QED BY <2>1, <2>2
<1>6. CASE list[p][i] = "outbound"
  <2>1. list' \in [Picos -> [Ids -> Lists]] /\ Set2(list', list, p, i, "established")
    BY <1>1, <1>3, <1>6, ListTypes DEF TypeInv, Lists
  <2>2. Types'
    BY <1>0, <1>1, <1>5, <2>1 DEF TypeInv, Types, history
  <2>3. QED BY <1>0, <1>1, <1>2, <1>5, <1>6, <2>1, <2>2 DEF t
<1>7. CASE list[p][i] # "outbound"
  <2>1. Types'
    BY <1>0, <1>1, <1>3, <1>5, <1>7 DEF TypeInv, Types, history
  <2>2. QED BY <1>0, <1>1, <1>2, <1>3, <1>5, <1>7, <2>1 DEF t
<1>8. QED BY <1>6, <1>7

LEMMA TeardownFacts ==
  ASSUME Types, NEW p \in Picos, NEW i \in Ids, teardownSubscription(p, i)
  PROVE  /\ record' \in [Picos -> [Ids -> Records]]
         /\ Set2(record', record, p, i, "none")
BY RecordTypes, RecordValues DEF teardownSubscription

LEMMA CancelFacts ==
  ASSUME TypeInv, NEW p \in Picos, NEW I \in SUBSET Ids, Cancel(p, I)
  PROVE  /\ txn[p] = Idle /\ I \subseteq Held(p)
         /\ Types'
         /\ SetTxn(p, Txn("cancel", I, "send", NoPico))
         /\ UNCHANGED <<buses, record, queue, history>>
<1> DEFINE t == Txn("cancel", I, "send", NoPico)
<1> HIDE DEF t
<1>1. /\ txn[p] = Idle /\ I \subseteq Held(p) /\ txn' = [txn EXCEPT ![p] = t]
      /\ UNCHANGED <<buses, record, queue, history>>
  BY DEF Cancel, t
<1>2. t \in Txns
  BY DEF t, Txn, Txns, Dos, Ats
<1>3. txn' \in [Picos -> Txns] /\ SetTxn(p, t)
  BY <1>1, <1>2, SetTypes DEF TypeInv
<1>4. Types'
  BY <1>1, <1>3 DEF TypeInv, Types, history, buses
<1>5. QED BY <1>1, <1>3, <1>4 DEF t

LEMMA CrossFacts ==
  ASSUME TypeInv, PairInv, NEW p \in Picos, NEW i \in Ids, crossPicoEvent(p, i)
  PROVE  LET q == peer[p][i] IN
         /\ txn[p].do = "cancel" /\ txn[p].at = "send"
         /\ i \in txn[p].left /\ i \in txn[p].all
         /\ q \in Picos \ {p}
         /\ Types'
         /\ \/ /\ record[p][i] # "none" /\ Reaches(p, q, i) /\ upset' = upset
               /\ Grows(q, Event(notice(p, i), i, p), 1)
               /\ SetTxn(p, [txn[p] EXCEPT !.at = "wait"])
            \/ /\ record[p][i] # "none" /\ ~Reaches(p, q, i) /\ upset' = upset
               /\ SetTxn(p, AfterNotice(txn[p], i))
               /\ UNCHANGED queue
            \/ /\ SetTxn(p, Idle) /\ upset' = upset \union txn[p].all
               /\ UNCHANGED queue
         /\ UNCHANGED <<home, buses, record, approver, cut, faults>>
<1> DEFINE q == peer[p][i]
           e == Event(notice(p, i), i, p)
           t == [txn[p] EXCEPT !.at = "wait"]
           u == AfterNotice(txn[p], i)
<1> HIDE DEF e, t, u
<1>1. /\ txn[p].do = "cancel" /\ txn[p].at = "send" /\ i \in txn[p].left
      /\ UNCHANGED <<home, buses, record, approver, cut, faults>>
  BY DEF crossPicoEvent
<1>2. txn[p] \in Txns /\ i \in txn[p].all /\ About(p, i)
  BY <1>1 DEF TypeInv, Types, Shape, About
<1>3. q \in Picos \ {p}
  BY <1>2, Actors
<1>4. CASE /\ record[p][i] # "none" /\ Reaches(p, q, i) /\ upset' = upset
           /\ queue' = [queue EXCEPT ![q] = Append(@, e)]
           /\ txn' = [txn EXCEPT ![p].at = "wait"]
  <2>1. txn' = [txn EXCEPT ![p] = t] /\ t \in Txns
    BY <1>2, <1>4, AtFacts DEF t, Ats
  <2>2. txn' \in [Picos -> Txns] /\ SetTxn(p, t)
    BY <2>1, SetTypes DEF TypeInv
  <2>3. queue' \in [Picos -> Seq(Events)] /\ Grows(q, e, 1)
    <3>1. e \in Events
      BY EventFacts DEF e, Kinds, notice
    <3>2. QED BY <1>3, <1>4, <3>1, AppendTypes DEF TypeInv
  <2>4. Types'
    BY <1>1, <1>4, <2>2, <2>3 DEF TypeInv, Types, buses
  <2>5. QED BY <1>1, <1>2, <1>3, <1>4, <2>2, <2>3, <2>4 DEF t, e
<1>5. CASE /\ record[p][i] # "none" /\ ~Reaches(p, q, i) /\ upset' = upset
           /\ txn' = [txn EXCEPT ![p] = AfterNotice(@, i)]
           /\ UNCHANGED queue
  <2>1. txn' = [txn EXCEPT ![p] = u] /\ u \in Txns
    BY <1>2, <1>5, NoticeFacts DEF u, TypeInv, Types
  <2>2. txn' \in [Picos -> Txns] /\ SetTxn(p, u)
    BY <2>1, SetTypes DEF TypeInv
  <2>3. Types'
    BY <1>1, <1>5, <2>2 DEF TypeInv, Types, buses
  <2>4. QED BY <1>1, <1>2, <1>3, <1>5, <2>2, <2>3 DEF u
<1>6. CASE /\ txn' = [txn EXCEPT ![p] = Idle] /\ upset' = upset \union txn[p].all
           /\ UNCHANGED queue
  <2>1. txn' \in [Picos -> Txns] /\ SetTxn(p, Idle)
    BY <1>6, IdleFacts, SetTypes DEF TypeInv
  <2>2. upset' \subseteq Ids
    BY <1>2, <1>6 DEF TypeInv, Types, Txns
  <2>3. Types'
    BY <1>1, <1>6, <2>1, <2>2 DEF TypeInv, Types, buses
  <2>4. QED BY <1>1, <1>2, <1>3, <1>6, <2>1, <2>3
<1>7. QED BY <1>4, <1>5, <1>6 DEF crossPicoEvent, e

LEMMA RemovedFacts ==
  ASSUME TypeInv, PairInv, WaitInv, NEW q \in Picos, NEW i, i = queue[q][1].id, Removed(q)
  PROVE  LET e == queue[q][1] IN
         /\ txn[q] = Idle /\ i \in Ids /\ 1 \in 1 .. Len(queue[q])
         /\ e.kind \in Removals /\ e.caller \in (Picos \ {q}) \union {NoPico}
         /\ peer[q][i] \in Picos \ {q}
         /\ Types'
         /\ \/ /\ list[q][i] = Named(e.kind)
               /\ Set2(record', record, q, i, "none")
               /\ SetTxn(q, Txn("told", {i}, "splice", e.caller))
            \/ /\ list[q][i] # Named(e.kind)
               /\ record' = record
               /\ Ends(q, e.caller, i)
         /\ Shrinks(q)
         /\ upset' = IF e.kind = "inbound_removal" /\ list[q][i] = "established"
                     THEN upset \union {i} ELSE upset
         /\ UNCHANGED <<home, buses, approver, cut, faults>>
<1> DEFINE e == queue[q][1]
           t == Txn("told", {i}, "splice", e.caller)
<1> HIDE DEF t
<1>0. /\ Takes(q, Removals) /\ queue' = [queue EXCEPT ![q] = Tail(@)]
      /\ UNCHANGED <<home, buses, approver, cut, faults>>
  BY DEF Removed, Removals
<1>1. /\ txn[q] = Idle /\ queue' \in [Picos -> Seq(Events)] /\ Shrinks(q)
      /\ 1 \in 1 .. Len(queue[q])
      /\ Head(queue[q]) = e /\ e.kind \in Removals /\ i \in Ids
      /\ e.caller \in (Picos \ {q}) \union {NoPico}
      /\ peer[q][i] \in Picos \ {q}
      /\ txn' = Over(Serving(q), q, i) => txn' \in [Picos -> Txns] /\ Ends(q, e.caller, i)
  BY <1>0, ServeFacts
<1>2. /\ \/ /\ list[q][i] = Named(e.kind)
            /\ teardownSubscription(q, i)
            /\ txn' = [txn EXCEPT ![q] = t]
         \/ /\ list[q][i] # Named(e.kind)
            /\ txn' = Over(Serving(q), q, i)
            /\ UNCHANGED record
      /\ upset' = IF e.kind = "inbound_removal" /\ list[q][i] = "established"
                  THEN upset \union {i} ELSE upset
  BY <1>1 DEF Removed, t
<1>3. t \in Txns
  BY <1>1 DEF t, Txn, Txns, Dos, Ats
<1>4. upset' \subseteq Ids
  BY <1>1, <1>2 DEF TypeInv, Types
<1>5. CASE /\ list[q][i] = Named(e.kind) /\ teardownSubscription(q, i)
           /\ txn' = [txn EXCEPT ![q] = t]
  <2>1. record' \in [Picos -> [Ids -> Records]] /\ Set2(record', record, q, i, "none")
    BY <1>1, <1>5, TeardownFacts DEF TypeInv
  <2>2. txn' \in [Picos -> Txns] /\ SetTxn(q, t)
    BY <1>3, <1>5, SetTypes DEF TypeInv
  <2>3. Types'
    BY <1>0, <1>1, <1>4, <2>1, <2>2 DEF TypeInv, Types, buses
  <2>4. QED BY <1>0, <1>1, <1>2, <1>5, <2>1, <2>2, <2>3 DEF t
<1>6. CASE /\ list[q][i] # Named(e.kind) /\ txn' = Over(Serving(q), q, i)
           /\ UNCHANGED record
  <2>1. Types'
    BY <1>0, <1>1, <1>4, <1>6 DEF TypeInv, Types, buses
  <2>2. QED BY <1>0, <1>1, <1>2, <1>6, <2>1
<1>7. QED BY <1>2, <1>5, <1>6

\* p is about to take out the bus of i, and has taken it out.
Splicing(p, i) == [txn[p] EXCEPT !.all = txn[p].all, !.left = {i}, !.at = "splice"]
Spliced(p, i) == [txn[p] EXCEPT !.all = txn[p].all \ {i}, !.left = {}, !.at = "remove"]

LEMMA SpliceTxns ==
  ASSUME TypeInv, NEW p \in Picos, NEW i \in Ids
  PROVE  /\ LET u == Splicing(p, i) IN
            /\ u \in Txns
            /\ u.do = txn[p].do /\ u.all = txn[p].all /\ u.left = {i}
            /\ u.at = "splice" /\ u.caller = txn[p].caller
         /\ LET u == Spliced(p, i) IN
            /\ u \in Txns
            /\ u.do = txn[p].do /\ u.all = txn[p].all \ {i} /\ u.left = {}
            /\ u.at = "remove" /\ u.caller = txn[p].caller
<1>1. txn[p] \in Txns /\ txn[p].all \in SUBSET Ids /\ txn[p].all \ {i} \in SUBSET Ids
  BY DEF TypeInv, Types, Txns
<1>2. "splice" \in Ats /\ "remove" \in Ats
  BY DEF Ats
<1>3. {i} \in SUBSET Ids /\ {} \in SUBSET Ids
  OBVIOUS
<1> DEFINE I == txn[p].all
           J == txn[p].all \ {i}
           t == txn[p]
<1>4. LET u == [t EXCEPT !.all = I, !.left = {i}, !.at = "splice"] IN
      /\ u \in Txns
      /\ u.do = t.do /\ u.all = I /\ u.left = {i} /\ u.at = "splice" /\ u.caller = t.caller
  <2> HIDE DEF I, t
  <2>1. I \in SUBSET Ids /\ t \in Txns
    BY <1>1 DEF I, t
  <2>2. QED BY <1>2, <1>3, <2>1 DEF Txns
<1>5. LET u == [t EXCEPT !.all = J, !.left = {}, !.at = "remove"] IN
      /\ u \in Txns
      /\ u.do = t.do /\ u.all = J /\ u.left = {} /\ u.at = "remove" /\ u.caller = t.caller
  <2> HIDE DEF J, t
  <2>1. J \in SUBSET Ids /\ t \in Txns
    BY <1>1 DEF J, t
  <2>2. QED BY <1>2, <1>3, <2>1 DEF Txns
<1>6. QED BY <1>4, <1>5 DEF Splicing, Spliced

LEMMA RemoveOwnFacts ==
  ASSUME TypeInv, NEW p \in Picos, NEW i \in Ids, RemoveOwn(p, i)
  PROVE  /\ txn[p].do = "cancel" /\ txn[p].at = "remove" /\ txn[p].left = {}
         /\ txn[p].caller = NoPico /\ i \in txn[p].all
         /\ Types'
         /\ Set2(record', record, p, i, "none")
         /\ SetTxn(p, Splicing(p, i))
         /\ UNCHANGED <<buses, queue, history>>
<1>1. /\ txn[p].at = "remove" /\ i \in txn[p].all /\ teardownSubscription(p, i)
      /\ UNCHANGED <<buses, queue, history>>
  BY DEF RemoveOwn
<1>2. txn' = [txn EXCEPT ![p] = Splicing(p, i)]
  BY DEF RemoveOwn, Splicing, TypeInv, Types, Txns
<1>3. txn[p].do = "cancel" /\ txn[p].left = {} /\ txn[p].caller = NoPico
  <2>1. txn[p] \in Txns /\ Shape(txn[p])
    BY DEF TypeInv, Types
  <2>2. txn[p].do = "cancel"
    BY <1>1, <2>1 DEF Shape, Steps, Txns, Dos
  <2>3. QED BY <1>1, <2>1, <2>2 DEF Shape
<1>4. record' \in [Picos -> [Ids -> Records]] /\ Set2(record', record, p, i, "none")
  BY <1>1, TeardownFacts DEF TypeInv
<1>5. txn' \in [Picos -> Txns] /\ SetTxn(p, Splicing(p, i))
  BY <1>2, SpliceTxns, SetTypes DEF TypeInv
<1>6. Types'
  BY <1>1, <1>4, <1>5 DEF TypeInv, Types, buses, history
<1>7. QED BY <1>1, <1>3, <1>4, <1>5, <1>6

LEMMA SpliceFacts ==
  ASSUME TypeInv, PairInv, WaitInv, NEW p \in Picos, NEW i \in Ids, splice(p, i)
  PROVE  /\ txn[p].do \in {"cancel", "told"} /\ txn[p].at = "splice" /\ txn[p].left = {i}
         /\ i \in txn[p].all
         /\ txn[p].do = "cancel" => txn[p].caller = NoPico
         /\ txn[p].do = "told" => txn[p].all = {i}
         /\ Types'
         /\ Set2(list', list, p, i, "ended")
         /\ \/ txn[p].all = {i} /\ Ends(p, txn[p].caller, i)
            \/ txn[p].do = "cancel" /\ txn[p].all # {i} /\ SetTxn(p, Spliced(p, i))
         /\ UNCHANGED <<peer, record, queue, history>>
<1>1. /\ txn[p].at = "splice" /\ i \in txn[p].left
      /\ list' = [list EXCEPT ![p][i] = "ended"]
      /\ UNCHANGED <<peer, record, queue, history>>
  BY DEF splice
<1>2. txn[p] \in Txns /\ Shape(txn[p]) /\ txn[p].caller # p
      /\ txn[p].caller \in Picos \union {NoPico}
  BY Waiters DEF Txns
<1>3. txn[p].do \in {"cancel", "told"}
  BY <1>1, <1>2 DEF Shape, Steps, Txns, Dos
<1>4. /\ txn[p].left = {i} /\ i \in txn[p].all
      /\ txn[p].do = "cancel" => txn[p].caller = NoPico
      /\ txn[p].do = "told" => txn[p].all = {i}
  BY <1>1, <1>2, <1>3 DEF Shape
<1>5. list' \in [Picos -> [Ids -> Lists]] /\ Set2(list', list, p, i, "ended")
  BY <1>1, ListTypes DEF TypeInv, Lists
<1>6. CASE txn[p].all = {i}
  <2>1. txn' = Over(txn, p, i)
    BY <1>6 DEF splice
  <2>2. txn' \in [Picos -> Txns] /\ Ends(p, txn[p].caller, i)
    BY <1>2, <2>1, EndsTypes DEF TypeInv, Types
  <2>3. Types'
    BY <1>1, <1>5, <2>2 DEF TypeInv, Types, history
  <2>4. QED BY <1>1, <1>3, <1>4, <1>5, <1>6, <2>2, <2>3
<1>7. CASE txn[p].all # {i}
  <2>1. txn' = [txn EXCEPT ![p] = Spliced(p, i)]
    BY <1>7 DEF splice, Spliced, TypeInv, Types, Txns
  <2>2. txn' \in [Picos -> Txns] /\ SetTxn(p, Spliced(p, i))
    BY <2>1, SpliceTxns, SetTypes DEF TypeInv
  <2>3. Types'
    BY <1>1, <1>5, <2>2 DEF TypeInv, Types, history
  <2>4. QED BY <1>1, <1>3, <1>4, <1>5, <1>7, <2>2, <2>3
<1>8. QED BY <1>6, <1>7

\* What waits at q stays there, but nobody of P waits for it any more.
Forgets(q, new, P) ==
  /\ Len(new) = Len(queue[q])
  /\ \A n \in 1 .. Len(queue[q]) :
       /\ new[n].kind = queue[q][n].kind /\ new[n].id = queue[q][n].id
       /\ new[n].caller = IF queue[q][n].caller \in P THEN NoPico ELSE queue[q][n].caller

LEMMA ForgetQueuedFacts ==
  ASSUME Types, NEW P \in SUBSET Picos, NEW q \in Picos
  PROVE  /\ ForgetQueued(P)[q] \in Seq(Events)
         /\ Forgets(q, ForgetQueued(P)[q], P)
<1> DEFINE new == [n \in DOMAIN queue[q] |->
                     IF queue[q][n].caller \in P THEN [queue[q][n] EXCEPT !.caller = NoPico]
                     ELSE queue[q][n]]
<1>1. ForgetQueued(P)[q] = new
  BY DEF ForgetQueued
<1>2. /\ queue[q] \in Seq(Events) /\ Len(queue[q]) \in Nat
      /\ DOMAIN queue[q] = 1 .. Len(queue[q])
  BY DEF Types
<1>3. \A n \in 1 .. Len(queue[q]) : queue[q][n] \in Events
  BY <1>2
<1>4. \A n \in 1 .. Len(queue[q]) : [queue[q][n] EXCEPT !.caller = NoPico] \in Events
  BY <1>3 DEF Events
<1>5. /\ DOMAIN new = 1 .. Len(queue[q])
      /\ \A n \in 1 .. Len(queue[q]) :
           new[n] = IF queue[q][n].caller \in P THEN [queue[q][n] EXCEPT !.caller = NoPico]
                    ELSE queue[q][n]
  BY <1>2
<1>6. new \in [1 .. Len(queue[q]) -> Events]
  BY <1>2, <1>3, <1>4
<1>7. new \in Seq(Events) /\ Len(new) = Len(queue[q])
  BY <1>2, <1>6
<1>8. Forgets(q, new, P)
  BY <1>3, <1>5, <1>7 DEF Forgets, Events
<1>9. QED BY <1>1, <1>7, <1>8

LEMMA ForgetServedFacts ==
  ASSUME Types, NEW P \in SUBSET Picos
  PROVE  /\ ForgetServed(P) \in [Picos -> Txns]
         /\ \A r \in Picos : ForgetServed(P)[r] =
              IF txn[r].caller \in P THEN [txn[r] EXCEPT !.caller = NoPico] ELSE txn[r]
<1>1. \A r \in Picos : [txn[r] EXCEPT !.caller = NoPico] \in Txns
  BY CallerFacts DEF Types
<1>2. QED BY <1>1 DEF ForgetServed, Types

\* p goes on with u and waits for nobody.
Leaves(p, u) == \A r \in Picos : txn'[r] =
  IF r = p THEN u
  ELSE IF txn[r].caller = p THEN [txn[r] EXCEPT !.caller = NoPico] ELSE txn[r]

\* After a failed request the transaction goes on, and so does whoever waits for it.
GivesUp(p, i) ==
  /\ txn[p].do \in {"ask", "cancel"} /\ txn[p].at = "send"
  /\ SetTxn(p, AfterReply(txn[p], i)) /\ queue' = queue
StopsWaiting(p, i) ==
  /\ txn[p].do \in {"ask", "cancel"} /\ txn[p].at = "wait" /\ WaitsIn(p, i, Picos)
  /\ Leaves(p, AfterReply(txn[p], i))
  /\ \A r \in Picos : Forgets(r, queue'[r], {p})
Aborts(p, i) ==
  /\ txn[p].at \in {"read", "settle"} /\ txn[p].all = {i}
  /\ Ends(p, txn[p].caller, i)
  /\ queue' = queue \/ \A r \in Picos : Forgets(r, queue'[r], {p})

LEMMA FailFacts ==
  ASSUME TypeInv, PairInv, WaitInv, NEW p \in Picos, NEW i \in Ids, NEW lost \in BOOLEAN,
         Fail(p, i, lost)
  PROVE  /\ Types'
         /\ i \in txn[p].left /\ upset' = upset \union {i}
         /\ UNCHANGED <<home, buses, record, approver, cut>>
         /\ faults < MaxFaults /\ faults' = faults + 1
         /\ GivesUp(p, i) \/ StopsWaiting(p, i) \/ Aborts(p, i)
<1>1. /\ i \in txn[p].left /\ upset' = upset \union {i}
      /\ UNCHANGED <<home, buses, record, approver, cut>>
      /\ faults < MaxFaults /\ faults' = faults + 1
      /\ txn[p].at \in IF lost THEN {"send", "read"} ELSE {"wait", "settle"}
      /\ queue' = IF lost THEN queue ELSE ForgetQueued({p})
  BY DEF Fail
<1> DEFINE ts == IF lost THEN txn ELSE ForgetServed({p})
           u == AfterReply(txn[p], i)
<1> HIDE DEF ts
<1>2. txn' = IF txn[p].do \in {"accept", "approve"} THEN Over(ts, p, i)
             ELSE [ts EXCEPT ![p] = AfterReply(@, i)]
  BY DEF Fail, ts
<1>3. ts \in [Picos -> Txns]
      /\ \A r \in Picos : ts[r] = IF ~lost /\ txn[r].caller = p
                                  THEN [txn[r] EXCEPT !.caller = NoPico] ELSE txn[r]
  <2>1. CASE lost
    BY <2>1 DEF ts, TypeInv, Types
  <2>2. CASE ~lost
    <3>1. ts = ForgetServed({p}) /\ {p} \in SUBSET Picos
      BY <2>2 DEF ts
    <3>2. QED BY <2>2, <3>1, ForgetServedFacts DEF TypeInv
  <2>3. QED BY <2>1, <2>2
<1>4. txn[p] \in Txns /\ Shape(txn[p]) /\ txn[p].caller # p
      /\ txn[p].caller \in Picos \union {NoPico}
  BY Waiters DEF Txns
<1>5. ts[p] = txn[p]
  BY <1>3, <1>4
<1>6. /\ queue' \in [Picos -> Seq(Events)]
      /\ ~lost => \A r \in Picos : Forgets(r, queue'[r], {p})
  <2>1. CASE lost
    BY <1>1, <2>1 DEF TypeInv, Types
  <2>2. CASE ~lost
    <3>1. queue' = ForgetQueued({p}) /\ {p} \in SUBSET Picos
      BY <1>1, <2>2
    <3>2. \A r \in Picos : ForgetQueued({p})[r] \in Seq(Events)
            /\ Forgets(r, ForgetQueued({p})[r], {p})
      BY <3>1, ForgetQueuedFacts DEF TypeInv
    <3>3. ForgetQueued({p}) \in [Picos -> Seq(Events)]
      BY <3>2 DEF ForgetQueued
    <3>4. QED BY <3>1, <3>2, <3>3
  <2>3. QED BY <2>1, <2>2
<1>7. CASE txn[p].do \in {"accept", "approve"}
  <2>1. txn[p].at \in {"read", "settle"} /\ txn[p].all = {i}
    BY <1>1, <1>4, <1>7 DEF Shape, Steps
  <2>2. \A r \in Picos \ {p} : ts[r] = txn[r]
    <3>1. p # NoPico /\ txn[p].do \notin {"ask", "cancel"}
      BY <1>7, SkyAssumption DEF SkyAssumption
    <3>2. \A r \in Picos : txn[r].caller # p
      BY <3>1 DEF WaitInv
    <3>3. QED BY <1>3, <3>2
  <2>3. txn' \in [Picos -> Txns] /\ Ends(p, txn[p].caller, i)
    BY <1>2, <1>3, <1>4, <1>5, <1>7, <2>2, EndsTypes DEF TypeInv
  <2>4. Types'
    BY <1>1, <1>6, <2>3 DEF TypeInv, Types, buses
  <2>5. Aborts(p, i)
    BY <1>1, <1>6, <2>1, <2>3 DEF Aborts
  <2>6. QED BY <1>1, <2>4, <2>5
<1>8. CASE txn[p].do \notin {"accept", "approve"}
  <2>1. txn[p].do \in {"ask", "cancel"} /\ txn[p].at = (IF lost THEN "send" ELSE "wait")
    BY <1>1, <1>4, <1>8 DEF Shape, Steps, Txns, Dos
  <2>2. u \in Txns
    BY <1>4, ReplyFacts
  <2>3. txn' = [ts EXCEPT ![p] = u]
    BY <1>2, <1>3, <1>5, <1>8
  <2>4. txn' \in [Picos -> Txns] /\ \A r \in Picos : txn'[r] = IF r = p THEN u ELSE ts[r]
    BY <1>3, <2>2, <2>3
  <2>5. Types'
    BY <1>1, <1>6, <2>4 DEF TypeInv, Types, buses
  <2>6. CASE lost
    <3>1. SetTxn(p, u) /\ queue' = queue /\ txn[p].at = "send"
      BY <1>1, <1>3, <2>1, <2>4, <2>6 DEF SetTxn
    <3>2. GivesUp(p, i)
      BY <2>1, <3>1 DEF GivesUp
    <3>3. QED BY <1>1, <2>5, <3>2
  <2>7. CASE ~lost
    <3>1. Leaves(p, u)
      BY <1>3, <2>4, <2>7 DEF Leaves
    <3>2. txn[p].at = "wait" /\ WaitsIn(p, i, Picos)
      BY <2>1, <2>7 DEF Fail
    <3>3. StopsWaiting(p, i)
      BY <1>6, <2>1, <2>7, <3>1, <3>2 DEF StopsWaiting
    <3>4. QED BY <1>1, <2>5, <3>3
  <2>8. QED BY <2>6, <2>7
<1>9. QED BY <1>7, <1>8

\* The transaction of p fails, and so does that of c, which waits for it.
Both(p, c) == \A r \in Picos : txn'[r] = IF r \in {p, c} THEN Idle ELSE txn[r]

LEMMA ThrowFacts ==
  ASSUME TypeInv, PairInv, WaitInv, NEW p \in Picos, NEW i \in Ids, Throw(p, i)
  PROVE  /\ Types'
         /\ Between(p, i) /\ txn[p].left = {i} /\ i \in txn[p].all
         /\ \A j \in txn[p].all : j \in upset'
         /\ upset \subseteq upset' /\ cut' = cut \union {<<p, i>>}
         /\ UNCHANGED <<home, buses, record, queue, approver>>
         /\ faults < MaxFaults /\ faults' = faults + 1
         /\ \/ Ends(p, txn[p].caller, i)
            \/ /\ Both(p, txn[p].caller) /\ txn[p].caller \in Picos
               /\ \A j \in txn[txn[p].caller].all : j \in upset'
<1> DEFINE c == txn[p].caller
           ts == Failed(txn, p, i)
           done == [txn EXCEPT ![p] = Idle]
<1>1. /\ Between(p, i) /\ txn' = ts /\ upset' = upset \union Undone(ts)
      /\ cut' = cut \union {<<p, i>>}
      /\ UNCHANGED <<home, buses, record, queue, approver>>
      /\ faults < MaxFaults /\ faults' = faults + 1
  BY DEF Throw
<1>2. /\ txn \in [Picos -> Txns] /\ txn[p] \in Txns /\ Shape(txn[p]) /\ c # p
      /\ c \in Picos \union {NoPico}
  BY Waiters DEF Txns, TypeInv, Types
<1>3. txn[p].left = {i} /\ i \in txn[p].all
  BY <1>1, <1>2, Recording DEF Between, Shape
<1>4. done \in [Picos -> Txns] /\ \A r \in Picos : done[r] = IF r = p THEN Idle ELSE txn[r]
  BY <1>2, IdleFacts
<1>5. /\ c = NoPico => ts = done
      /\ c # NoPico /\ Away(c, i) => ts = [done EXCEPT ![c] = AfterReply(done[c], i)]
      /\ c # NoPico /\ ~Away(c, i) => ts = [done EXCEPT ![c] = Idle]
  <2> HIDE DEF done
  <2>1. ts = IF c = NoPico THEN done
             ELSE [done EXCEPT ![c] = IF Away(c, i) THEN AfterReply(done[c], i) ELSE Idle]
    BY <1>2, <1>4 DEF Failed, done
  <2>2. QED BY <2>1
<1>6. /\ ts \in [Picos -> Txns]
      /\ \/ \A r \in Picos : ts[r] = IF r = p THEN Idle
                                     ELSE IF r = c THEN AfterReply(txn[r], i) ELSE txn[r]
         \/ c \in Picos /\ \A r \in Picos : ts[r] = IF r \in {p, c} THEN Idle ELSE txn[r]
  <2> HIDE DEF done, ts
  <2>1. CASE c = NoPico
    BY <1>4, <1>5, <2>1, SkyAssumption DEF SkyAssumption
  <2>2. CASE c # NoPico /\ Away(c, i)
    <3>1. done[c] = txn[c] /\ AfterReply(txn[c], i) \in Txns /\ c \in Picos
      BY <1>2, <1>4, <2>2, ReplyFacts
    <3>2. ts = [done EXCEPT ![c] = AfterReply(txn[c], i)]
      BY <1>5, <2>2, <3>1
    <3>3. QED BY <1>2, <1>4, <3>1, <3>2
  <2>3. CASE c # NoPico /\ ~Away(c, i)
    BY <1>2, <1>4, <1>5, <2>3, IdleFacts
  <2>4. QED BY <2>1, <2>2, <2>3
<1> HIDE DEF ts, done
<1>7. upset \subseteq upset' /\ \A r \in Picos : ts[r] = Idle => \A j \in txn[r].all : j \in upset'
  BY <1>1 DEF Undone
<1>8. ts[p] = Idle
  BY <1>2, <1>6
<1>9. upset' \subseteq Ids
  <2>1. \A r \in Picos : txn[r].all \subseteq Ids
    BY DEF TypeInv, Types, Txns
  <2>2. Undone(ts) \subseteq Ids
    BY <2>1 DEF Undone
  <2>3. QED BY <1>1, <2>2 DEF TypeInv, Types
<1>10. Types'
  BY <1>1, <1>6, <1>9 DEF TypeInv, Types, buses
<1>11. \/ Ends(p, c, i)
       \/ c \in Picos /\ Both(p, c) /\ \A j \in txn[c].all : j \in upset'
  <2>1. CASE \A r \in Picos : ts[r] = IF r = p THEN Idle
                              ELSE IF r = c THEN AfterReply(txn[r], i) ELSE txn[r]
    BY <1>1, <2>1 DEF Ends
  <2>2. CASE c \in Picos /\ \A r \in Picos : ts[r] = IF r \in {p, c} THEN Idle ELSE txn[r]
    <3>1. Both(p, c) /\ ts[c] = Idle
      BY <1>1, <2>2 DEF Both
    <3>2. QED BY <1>7, <2>2, <3>1
  <2>3. QED BY <1>6, <2>1, <2>2
<1>12. QED BY <1>1, <1>3, <1>7, <1>8, <1>10, <1>11

\* The picos of P lose what they were at; who waits for one of them goes on.
CrashOf(P) ==
  /\ \A r \in P : Len(queue'[r]) = 0 /\ txn'[r] = Idle
  /\ \A r \in Picos \ P : Forgets(r, queue'[r], P)
  /\ \A r \in Picos \ P :
       \/ \E j \in Ids : WaitsIn(r, j, P) /\ txn'[r] = AfterReply(txn[r], j)
       \/ /\ \A j \in Ids : ~WaitsIn(r, j, P)
          /\ txn'[r] = IF txn[r].caller \in P THEN [txn[r] EXCEPT !.caller = NoPico]
                       ELSE txn[r]
  /\ upset \subseteq upset'
  /\ \A j \in Ids, r \in P :
       About(r, j) \/ (\E n \in 1 .. Len(queue[r]) : queue[r][n].id = j) => j \in upset'
  /\ cut \subseteq cut'
  /\ \A j \in Ids, r \in P : Between(r, j) => <<r, j>> \in cut'
  /\ \A j \in Ids, r \in Picos : <<r, j>> \in cut' => <<r, j>> \in cut \/ j \in upset'

LEMMA CrashFacts ==
  ASSUME TypeInv, NEW m \in Meshes, Crash(m)
  PROVE  /\ Types' /\ UNCHANGED <<home, buses, record, approver>>
         /\ faults < MaxFaults /\ faults' = faults + 1
         /\ \E P \in SUBSET Picos : CrashOf(P)
<1> DEFINE P == {p \in Picos : home[p] = m}
           F == ForgetQueued(P)
           G == ForgetServed(P)
<1> HIDE DEF P, F, G
<1>1. P \in SUBSET Picos
  BY DEF P
<1>0. cut' = cut \union {c \in P \X Ids : Between(c[1], c[2])}
  BY DEF Crash, P
<1>2. /\ queue' = [q \in Picos |-> IF q \in P THEN << >> ELSE F[q]]
      /\ txn' = [q \in Picos |->
           IF q \in P THEN Idle
           ELSE IF \E i \in Ids : WaitsIn(q, i, P)
                THEN AfterReply(txn[q], CHOOSE i \in Ids : WaitsIn(q, i, P))
                ELSE G[q]]
      /\ UNCHANGED <<home, buses, record, approver>>
      /\ faults < MaxFaults /\ faults' = faults + 1
  BY DEF Crash, P, F, G
<1>3. upset' = upset \union {i \in Ids : \E p \in P :
                  About(p, i) \/ \E n \in DOMAIN queue[p] : queue[p][n].id = i}
  BY DEF Crash, P
<1>4. \A q \in Picos : F[q] \in Seq(Events) /\ Forgets(q, F[q], P)
  BY <1>1, ForgetQueuedFacts DEF F, TypeInv
<1>5. \A q \in Picos : G[q] = IF txn[q].caller \in P THEN [txn[q] EXCEPT !.caller = NoPico]
                              ELSE txn[q]
  BY <1>1, ForgetServedFacts DEF G, TypeInv
<1>6. \A q \in Picos : G[q] \in Txns
  BY <1>1, ForgetServedFacts DEF G, TypeInv
<1>7. ASSUME NEW q \in Picos \ P
      PROVE  /\ txn'[q] \in Txns
             /\ \/ \E j \in Ids : WaitsIn(q, j, P) /\ txn'[q] = AfterReply(txn[q], j)
                \/ (\A j \in Ids : ~WaitsIn(q, j, P)) /\ txn'[q] = G[q]
  <2>1. txn[q] \in Txns
    BY DEF TypeInv, Types
  <2>2. CASE \E i \in Ids : WaitsIn(q, i, P)
    <3> DEFINE j == CHOOSE i \in Ids : WaitsIn(q, i, P)
    <3>1. j \in Ids /\ WaitsIn(q, j, P)
      BY <2>2
    <3>2. txn'[q] = AfterReply(txn[q], j)
      BY <1>2, <2>2
    <3> HIDE DEF j
    <3>3. txn'[q] \in Txns
      BY <2>1, <3>2, ReplyFacts
    <3>4. QED BY <3>1, <3>2, <3>3
  <2>3. CASE \A i \in Ids : ~WaitsIn(q, i, P)
    <3>1. txn'[q] = G[q]
      BY <1>2, <2>3
    <3>2. QED BY <1>6, <2>3, <3>1
  <2>4. QED BY <2>2, <2>3
<1>8. \A q \in P : Len(queue'[q]) = 0 /\ queue'[q] \in Seq(Events) /\ txn'[q] = Idle
  <2>1. \A q \in P : queue'[q] = << >> /\ txn'[q] = Idle
    BY <1>1, <1>2
  <2>2. Len(<< >>) = 0 /\ << >> \in Seq(Events)
    OBVIOUS
  <2>3. QED BY <2>1, <2>2, Zenon
<1>9. \A q \in Picos \ P : queue'[q] = F[q]
  BY <1>2
<1>10. \A q \in Picos : queue'[q] \in Seq(Events) /\ txn'[q] \in Txns
  BY <1>4, <1>7, <1>8, <1>9, IdleFacts
<1>11. queue' \in [Picos -> Seq(Events)]
  BY <1>2, <1>10
<1>12. txn' \in [Picos -> Txns]
  BY <1>2, <1>10
<1>13. Types'
  BY <1>0, <1>1, <1>2, <1>3, <1>11, <1>12 DEF TypeInv, Types, buses
<1>14. \A r \in Picos : DOMAIN queue[r] = 1 .. Len(queue[r])
  BY DEF TypeInv, Types
<1>15. /\ upset \subseteq upset'
       /\ \A j \in Ids, r \in P :
            About(r, j) \/ (\E n \in 1 .. Len(queue[r]) : queue[r][n].id = j)
              => j \in upset'
  BY <1>1, <1>3, <1>14
<1>16. /\ cut \subseteq cut'
       /\ \A j \in Ids, r \in P : Between(r, j) => <<r, j>> \in cut'
       /\ \A j \in Ids, r \in Picos : <<r, j>> \in cut' => <<r, j>> \in cut \/ j \in upset'
  <2>1. \A j \in Ids, r \in P : Between(r, j) => <<r, j>> \in cut'
    BY <1>0
  <2>2. \A j \in Ids, r \in P : Between(r, j) => About(r, j)
    BY <1>1 DEF Between, About, TypeInv, Shape
  <2>3. ASSUME NEW j \in Ids, NEW r \in Picos, <<r, j>> \in cut', <<r, j>> \notin cut
        PROVE  r \in P /\ Between(r, j)
    BY <1>0, <2>3
  <2>4. QED BY <1>0, <1>15, <2>1, <2>2, <2>3
<1>17. CrashOf(P)
  BY <1>4, <1>5, <1>7, <1>8, <1>9, <1>15, <1>16 DEF CrashOf
<1>18. QED BY <1>1, <1>2, <1>13, <1>17

-----------------------------------------------------------------------------
(* Types and shapes of transactions.                                        *)

LEMMA ShapeFacts ==
  /\ Shape(Idle)
  /\ \A I \in SUBSET Ids : Shape(Txn("cancel", I, "send", NoPico))
  /\ \A i \in Ids : Shape(Txn("ask", {i}, "record", NoPico))
  /\ \A i \in Ids : Shape(Txn("approve", {i}, "read", NoPico))
  /\ \A i \in Ids, c \in Picos \union {NoPico} : Shape(Txn("accept", {i}, "read", c))
  /\ \A i \in Ids : Shape(Txn("confirm", {i}, "record", NoPico))
  /\ \A i \in Ids, c \in Picos \union {NoPico} : Shape(Txn("told", {i}, "splice", c))
  /\ \A t \in Txns : Shape(t) /\ t.do = "ask" => Shape([t EXCEPT !.at = "send"])
  /\ \A t \in Txns : Shape(t) /\ t.at = "send" => Shape([t EXCEPT !.at = "wait"])
  /\ \A t \in Txns : Shape(t) /\ t.at = "read" => Shape([t EXCEPT !.at = "write"])
  /\ \A t \in Txns : Shape(t) /\ t.at = "write" => Shape([t EXCEPT !.at = "settle"])
  /\ \A t \in Txns : Shape(t) /\ t.caller # NoPico => Shape([t EXCEPT !.caller = NoPico])
<1>1. ASSUME NEW t \in Txns, Shape(t), NEW a \in Ats,
             \/ t.do = "ask" /\ a = "send"
             \/ t.at = "send" /\ a = "wait"
             \/ t.at = "read" /\ a = "write"
             \/ t.at = "write" /\ a = "settle"
      PROVE  Shape([t EXCEPT !.at = a])
  <2> DEFINE u == [t EXCEPT !.at = a]
  <2>1. /\ u.do = t.do /\ u.all = t.all /\ u.left = t.left /\ u.caller = t.caller
        /\ u.at = a
    BY AtFacts
  <2> HIDE DEF u
  <2>2. u.at \in Steps(u.do)
    BY <1>1, <2>1 DEF Shape, Steps, Txns, Dos
  <2>3. t.do # "nothing" /\ u.at \notin {"remove", "splice"}
    BY <1>1, <2>1 DEF Shape, Steps
  <2>4. Shape(u)
    BY <1>1, <2>1, <2>2, <2>3 DEF Shape
  <2>5. QED BY <2>4 DEF u
<1>2. ASSUME NEW t \in Txns, Shape(t), t.caller # NoPico
      PROVE  Shape([t EXCEPT !.caller = NoPico])
  <2> DEFINE u == [t EXCEPT !.caller = NoPico]
  <2>1. /\ u.do = t.do /\ u.all = t.all /\ u.left = t.left /\ u.at = t.at
        /\ u.caller = NoPico
    BY CallerFacts
  <2> HIDE DEF u
  <2>2. t.do \in {"accept", "told"}
    BY <1>2 DEF Shape
  <2>3. Shape(u)
    BY <1>2, <2>1, <2>2 DEF Shape
  <2>4. QED BY <2>3 DEF u
<1>3. Shape(Idle)
  BY IdleFacts
<1>4. /\ \A I \in SUBSET Ids : Shape(Txn("cancel", I, "send", NoPico))
      /\ \A i \in Ids : Shape(Txn("ask", {i}, "record", NoPico))
  BY DEF Shape, Txn, Steps
<1>5. /\ \A i \in Ids : Shape(Txn("approve", {i}, "read", NoPico))
      /\ \A i \in Ids, c \in Picos \union {NoPico} : Shape(Txn("accept", {i}, "read", c))
      /\ \A i \in Ids : Shape(Txn("confirm", {i}, "record", NoPico))
      /\ \A i \in Ids, c \in Picos \union {NoPico} : Shape(Txn("told", {i}, "splice", c))
  BY DEF Shape, Txn, Steps
<1>6. "send" \in Ats /\ "wait" \in Ats /\ "write" \in Ats /\ "settle" \in Ats
  BY DEF Ats
<1>7. /\ \A t \in Txns : Shape(t) /\ t.do = "ask" => Shape([t EXCEPT !.at = "send"])
      /\ \A t \in Txns : Shape(t) /\ t.at = "send" => Shape([t EXCEPT !.at = "wait"])
      /\ \A t \in Txns : Shape(t) /\ t.at = "read" => Shape([t EXCEPT !.at = "write"])
      /\ \A t \in Txns : Shape(t) /\ t.at = "write" => Shape([t EXCEPT !.at = "settle"])
  <2> DEFINE Stays(t, a) == Shape([t EXCEPT !.at = a])
  <2>1. \A t \in Txns : Shape(t) => \A a \in Ats :
          (\/ t.do = "ask" /\ a = "send"
           \/ t.at = "send" /\ a = "wait"
           \/ t.at = "read" /\ a = "write"
           \/ t.at = "write" /\ a = "settle") => Stays(t, a)
    BY <1>1
  <2> HIDE DEF Stays
  <2>2. /\ \A t \in Txns : Shape(t) /\ t.do = "ask" => Stays(t, "send")
        /\ \A t \in Txns : Shape(t) /\ t.at = "send" => Stays(t, "wait")
        /\ \A t \in Txns : Shape(t) /\ t.at = "read" => Stays(t, "write")
        /\ \A t \in Txns : Shape(t) /\ t.at = "write" => Stays(t, "settle")
    <3>1. ASSUME NEW t \in Txns, Shape(t)
          PROVE  /\ t.do = "ask" => Stays(t, "send")
                 /\ t.at = "send" => Stays(t, "wait")
                 /\ t.at = "read" => Stays(t, "write")
                 /\ t.at = "write" => Stays(t, "settle")
      BY <1>6, <2>1, <3>1
    <3>2. QED BY <3>1
  <2>3. QED BY <2>2 DEF Stays
<1>8. \A t \in Txns : Shape(t) /\ t.caller # NoPico => Shape([t EXCEPT !.caller = NoPico])
  BY <1>2, Zenon
<1>9. QED BY <1>3, <1>4, <1>5, <1>7, <1>8, Zenon

LEMMA ReplyShape ==
  ASSUME NEW t \in Txns, Shape(t), t.do \in {"ask", "cancel"}, NEW i
  PROVE  Shape(AfterReply(t, i))
<1>1. CASE t.do = "ask"
  BY <1>1, ReplyFacts, ShapeFacts
<1>2. CASE t.do = "cancel"
  <2> DEFINE u == AfterNotice(t, i)
  <2>1. AfterReply(t, i) = u
    BY <1>2, ReplyFacts
  <2>2. /\ u.do = t.do /\ u.all = t.all /\ u.left = t.left \ {i} /\ u.caller = t.caller
        /\ u.at = IF t.left = {i} THEN "remove" ELSE "send"
    BY NoticeFacts
  <2> HIDE DEF u
  <2>3. Shape(u)
    BY <1>2, <2>2 DEF Shape, Steps
  <2>4. QED BY <2>1, <2>3
<1>3. QED BY <1>1, <1>2

LEMMA SetShape ==
  ASSUME TypeInv, Types', NEW p \in Picos, NEW t, Shape(t), SetTxn(p, t)
  PROVE  TypeInv'
<1>1. \A r \in Picos : Shape(txn'[r])
  BY DEF TypeInv, SetTxn
<1>2. \A r \in Picos : Shape(txn[r])'
  BY <1>1 DEF Shape, Steps, Idle, Txn
<1>3. QED BY <1>2 DEF TypeInv

\* Whoever is waited for by c, that c asks or tells.
LEMMA WaitersDo ==
  ASSUME WaitInv, NEW q \in Picos, NEW c \in Picos,
         txn[q].caller = c \/ \E n \in 1 .. Len(queue[q]) : queue[q][n].caller = c
  PROVE  txn[c].do \in {"ask", "cancel"} /\ txn[c].at = "wait"
<1>1. c # NoPico
  BY SkyAssumption DEF SkyAssumption
<1>2. QED BY <1>1 DEF WaitInv

LEMMA EndsShape ==
  ASSUME TypeInv, WaitInv, Types', NEW q \in Picos, NEW c \in Picos \union {NoPico}, NEW i,
         Ends(q, c, i),
         txn[q].caller = c \/ \E n \in 1 .. Len(queue[q]) : queue[q][n].caller = c
  PROVE  TypeInv'
<1>1. \A r \in Picos : txn[r] \in Txns /\ Shape(txn[r])
  BY DEF TypeInv, Types
<1>2. c \in Picos => Shape(AfterReply(txn[c], i))
  BY <1>1, WaitersDo, ReplyShape
<1>3. \A r \in Picos : Shape(txn'[r])
  BY <1>1, <1>2, IdleFacts DEF Ends
<1>4. \A r \in Picos : Shape(txn[r])'
  BY <1>3 DEF Shape, Steps, Idle, Txn
<1>5. QED BY <1>4 DEF TypeInv

\* Every step keeps types and shapes.
LEMMA TypeStep ==
  ASSUME TypeInv, PairInv, WaitInv, [Next]_vars
  PROVE  TypeInv'
<1>0. \A r \in Picos : txn[r] \in Txns /\ Shape(txn[r]) /\ txn[r].caller \in Picos \union {NoPico}
  BY Waiters DEF Txns
<1>1. ASSUME NEW p \in Picos, NEW q \in Picos, NEW i \in Ids, Ask(p, q, i) PROVE TypeInv'
  <2>1. Types' /\ SetTxn(p, Txn("ask", {i}, "record", NoPico))
    BY <1>1, AskFacts
  <2>2. Shape(Txn("ask", {i}, "record", NoPico))
    BY ShapeFacts
  <2>3. QED BY <2>1, <2>2, SetShape
<1>2. ASSUME NEW p \in Picos, NEW i \in Ids, Introduce(p, i) PROVE TypeInv'
  <2>1. /\ Types' /\ txn[p].at = "send"
        /\ SetTxn(p, Idle) \/ SetTxn(p, [txn[p] EXCEPT !.at = "wait"])
    BY <1>2, IntroduceFacts
  <2>2. Shape([txn[p] EXCEPT !.at = "wait"]) /\ Shape(Idle)
    BY <1>0, <2>1, ShapeFacts
  <2>3. QED BY <2>1, <2>2, SetShape
<1>3. ASSUME NEW q \in Picos, LinkRead(q) PROVE TypeInv'
  <2>1. PICK i \in Ids : txn[q].all = {i}
    BY <1>3, Approvals DEF LinkRead
  <2>2. /\ Types' /\ txn[q].at = "read"
        /\ Ends(q, txn[q].caller, i) \/ SetTxn(q, [txn[q] EXCEPT !.at = "write"])
    BY <1>3, <2>1, LinkReadFacts
  <2>3. Shape([txn[q] EXCEPT !.at = "write"])
    BY <1>0, <2>2, ShapeFacts
  <2>4. Ends(q, txn[q].caller, i) => TypeInv'
    BY <1>0, <2>2, EndsShape
  <2>5. SetTxn(q, [txn[q] EXCEPT !.at = "write"]) => TypeInv'
    BY <2>2, <2>3, SetShape
  <2>6. QED BY <2>2, <2>4, <2>5
<1>4. ASSUME NEW q \in Picos, LinkWrite(q) PROVE TypeInv'
  <2>1. PICK i \in Ids : txn[q].all = {i}
    BY <1>4, Approvals DEF LinkWrite
  <2>2. Types' /\ txn[q].at = "write" /\ SetTxn(q, [txn[q] EXCEPT !.at = "settle"])
    BY <1>4, <2>1, LinkWriteFacts
  <2>3. Shape([txn[q] EXCEPT !.at = "settle"])
    BY <1>0, <2>2, ShapeFacts
  <2>4. QED BY <2>2, <2>3, SetShape
<1>5. ASSUME NEW q \in Picos, addInboundSubscription(q) PROVE TypeInv'
  <2>1. PICK i \in Ids : txn[q].all = {i}
    BY <1>5, Approvals DEF addInboundSubscription
  <2>2. Types' /\ Ends(q, txn[q].caller, i)
    BY <1>5, <2>1, SettleFacts
  <2>3. QED BY <1>0, <2>2, EndsShape
<1>6. ASSUME NEW p \in Picos, NEW i \in Ids, RemoveOwn(p, i) PROVE TypeInv'
  <2> DEFINE u == Splicing(p, i)
  <2>1. Types' /\ SetTxn(p, u) /\ txn[p].do = "cancel" /\ i \in txn[p].all
    BY <1>6, RemoveOwnFacts
  <2>2. u.do = txn[p].do /\ u.all = txn[p].all /\ u.left = {i} /\ u.at = "splice"
        /\ u.caller = txn[p].caller
    BY SpliceTxns
  <2> HIDE DEF u
  <2>3. Shape(u)
    BY <1>0, <2>1, <2>2 DEF Shape, Steps
  <2>4. QED BY <2>1, <2>3, SetShape
<1>7. ASSUME NEW q \in Picos, addInboundPendingFromSkyIntro(q) PROVE TypeInv'
  <2> DEFINE e == queue[q][1]
             i == e.id
  <2>1. /\ Types' /\ i \in Ids /\ 1 \in 1 .. Len(queue[q])
        /\ e.caller \in Picos \union {NoPico}
        /\ Ends(q, e.caller, i) \/ SetTxn(q, Txn("accept", {i}, "read", e.caller))
    BY <1>7, PendingFacts
  <2>2. Shape(Txn("accept", {i}, "read", e.caller))
    BY <2>1, ShapeFacts
  <2>3. Ends(q, e.caller, i) => TypeInv'
    BY <2>1, EndsShape
  <2>4. SetTxn(q, Txn("accept", {i}, "read", e.caller)) => TypeInv'
    BY <2>1, <2>2, SetShape
  <2>5. QED BY <2>1, <2>3, <2>4
<1>8. ASSUME NEW p \in Picos, addOutboundSubscriptionLayer2(p) PROVE TypeInv'
  <2> DEFINE i == queue[p][1].id
             t == Txn("confirm", {i}, "record", NoPico)
  <2>1. Types' /\ i \in Ids /\ (SetTxn(p, Idle) \/ SetTxn(p, t))
    BY <1>8, ConfirmFacts
  <2>2. Shape(Idle) /\ Shape(t)
    BY <2>1, ShapeFacts
  <2> HIDE DEF t
  <2>3. QED BY <2>1, <2>2, SetShape
<1>9. ASSUME NEW q \in Picos, Removed(q) PROVE TypeInv'
  <2> DEFINE e == queue[q][1]
             i == e.id
  <2> DEFINE t == Txn("told", {i}, "splice", e.caller)
  <2>1. /\ Types' /\ 1 \in 1 .. Len(queue[q]) /\ i \in Ids
        /\ e.caller \in Picos \union {NoPico}
        /\ SetTxn(q, t) \/ Ends(q, e.caller, i)
    BY <1>9, RemovedFacts
  <2>2. Shape(t)
    BY <2>1, ShapeFacts
  <2> HIDE DEF t
  <2>3. SetTxn(q, t) => TypeInv'
    BY <2>1, <2>2, SetShape
  <2>4. Ends(q, e.caller, i) => TypeInv'
    BY <2>1, EndsShape
  <2>5. QED BY <2>1, <2>3, <2>4
<1>10. ASSUME NEW q \in Picos, NEW i \in Ids, Approve(q, i) PROVE TypeInv'
  <2>1. Types' /\ SetTxn(q, Txn("approve", {i}, "read", NoPico))
    BY <1>10, ApproveFacts
  <2>2. Shape(Txn("approve", {i}, "read", NoPico))
    BY ShapeFacts
  <2>3. QED BY <2>1, <2>2, SetShape
<1>11. ASSUME NEW p \in Picos, NEW I \in SUBSET Ids, Cancel(p, I) PROVE TypeInv'
  <2>1. Types' /\ SetTxn(p, Txn("cancel", I, "send", NoPico))
    BY <1>11, CancelFacts
  <2>2. Shape(Txn("cancel", I, "send", NoPico))
    BY ShapeFacts
  <2>3. QED BY <2>1, <2>2, SetShape
<1>12. ASSUME NEW p \in Picos, NEW i \in Ids, crossPicoEvent(p, i) PROVE TypeInv'
  <2>1. /\ Types' /\ txn[p].at = "send" /\ txn[p].do = "cancel"
        /\ \/ SetTxn(p, [txn[p] EXCEPT !.at = "wait"])
           \/ SetTxn(p, AfterNotice(txn[p], i))
           \/ SetTxn(p, Idle)
    BY <1>12, CrossFacts
  <2>2. Shape([txn[p] EXCEPT !.at = "wait"])
    BY <1>0, <2>1, ShapeFacts
  <2>3. Shape(AfterNotice(txn[p], i))
    BY <1>0, <2>1, ReplyShape, ReplyFacts
  <2>4. QED BY <2>1, <2>2, <2>3, ShapeFacts, SetShape
<1>13. ASSUME NEW p \in Picos, NEW i \in Ids, NEW lost \in BOOLEAN, Fail(p, i, lost)
       PROVE  TypeInv'
  <2> DEFINE u == AfterReply(txn[p], i)
  <2>0. Types' /\ (GivesUp(p, i) \/ StopsWaiting(p, i) \/ Aborts(p, i))
    BY <1>13, FailFacts
  <2>1. /\ Types'
        /\ \/ txn[p].do \in {"ask", "cancel"} /\ SetTxn(p, u)
           \/ txn[p].do \in {"ask", "cancel"} /\ Leaves(p, u)
           \/ Ends(p, txn[p].caller, i)
    BY <2>0 DEF GivesUp, StopsWaiting, Aborts
  <2>2. txn[p].do \in {"ask", "cancel"} => Shape(u)
    BY <1>0, ReplyShape
  <2>3. CASE txn[p].do \in {"ask", "cancel"} /\ SetTxn(p, u)
    <3> HIDE DEF u
    <3>1. QED BY <2>1, <2>2, <2>3, SetShape
  <2>4. CASE txn[p].do \in {"ask", "cancel"} /\ Leaves(p, u)
    <3>1. \A r \in Picos : txn[r].caller = p => Shape([txn[r] EXCEPT !.caller = NoPico])
      BY <1>0, ShapeFacts, SkyAssumption DEF SkyAssumption
    <3> HIDE DEF u
    <3>2. \A r \in Picos : Shape(txn'[r])
      BY <1>0, <2>2, <2>4, <3>1 DEF Leaves
    <3>3. \A r \in Picos : Shape(txn[r])'
      BY <3>2 DEF Shape, Steps, Idle, Txn
    <3>4. QED BY <2>1, <3>3 DEF TypeInv
  <2>5. CASE Ends(p, txn[p].caller, i)
    BY <1>0, <2>1, <2>5, EndsShape
  <2>6. QED BY <2>1, <2>3, <2>4, <2>5
<1>14. ASSUME NEW m \in Meshes, Crash(m) PROVE TypeInv'
  <2>1. Types'
    BY <1>14, CrashFacts
  <2>2. PICK P \in SUBSET Picos : CrashOf(P)
    BY <1>14, CrashFacts
  <2>3. ASSUME NEW r \in Picos PROVE Shape(txn'[r])
    <3>1. CASE r \in P
      BY <2>2, <3>1, ShapeFacts DEF CrashOf
    <3>2. ASSUME NEW j \in Ids, r \notin P, WaitsIn(r, j, P), txn'[r] = AfterReply(txn[r], j)
          PROVE  Shape(txn'[r])
      <4>1. \A s \in P : DOMAIN queue[s] = 1 .. Len(queue[s])
        BY DEF TypeInv, Types
      <4>2. txn[r].do \in {"ask", "cancel"}
        BY <3>2, <4>1, WaitersDo DEF WaitsIn
      <4>3. QED BY <1>0, <3>2, <4>2, ReplyShape
    <3>3. CASE /\ r \notin P
               /\ txn'[r] = IF txn[r].caller \in P THEN [txn[r] EXCEPT !.caller = NoPico]
                            ELSE txn[r]
      BY <1>0, <3>3, ShapeFacts, SkyAssumption DEF SkyAssumption
    <3>4. QED BY <2>2, <3>1, <3>2, <3>3 DEF CrashOf
  <2>4. \A r \in Picos : Shape(txn[r])'
    BY <2>3 DEF Shape, Steps, Idle, Txn
  <2>5. QED BY <2>1, <2>4 DEF TypeInv
<1>15. CASE UNCHANGED vars
  <2>1. UNCHANGED <<list, peer, record, txn, queue, approver, upset, cut>>
    BY <1>15 DEF vars
  <2>2. QED BY <2>1 DEF TypeInv, Types, Shape, Steps, Idle, Txn
<1>16. ASSUME NEW p \in Picos, NEW i \in Ids, establishSubscriptionIdentity(p, i)
       PROVE  TypeInv'
  <2> DEFINE u == [txn[p] EXCEPT !.at = "send"]
  <2>1. /\ Types'
        /\ \/ txn[p].do = "ask" /\ SetTxn(p, u)
           \/ SetTxn(p, Idle)
    BY <1>16, EstablishFacts
  <2>2. txn[p].do = "ask" => Shape(u)
    BY <1>0, ShapeFacts
  <2> HIDE DEF u
  <2>3. QED BY <2>1, <2>2, ShapeFacts, SetShape
<1>17. ASSUME NEW p \in Picos, NEW i \in Ids, splice(p, i) PROVE TypeInv'
  <2> DEFINE u == Spliced(p, i)
  <2>1. /\ Types'
        /\ \/ Ends(p, txn[p].caller, i)
           \/ txn[p].do = "cancel" /\ SetTxn(p, u)
    BY <1>17, SpliceFacts
  <2>2. u.do = txn[p].do /\ u.all = txn[p].all \ {i} /\ u.left = {} /\ u.at = "remove"
        /\ u.caller = txn[p].caller
    BY SpliceTxns
  <2> HIDE DEF u
  <2>3. txn[p].do = "cancel" => Shape(u)
    BY <1>0, <2>2 DEF Shape, Steps
  <2>4. Ends(p, txn[p].caller, i) => TypeInv'
    BY <1>0, <2>1, EndsShape
  <2>5. QED BY <2>1, <2>3, <2>4, SetShape
<1>18. ASSUME NEW p \in Picos, NEW i \in Ids, Throw(p, i) PROVE TypeInv'
  <2>1. Types' /\ (Ends(p, txn[p].caller, i) \/ Both(p, txn[p].caller))
    BY <1>18, ThrowFacts
  <2>2. CASE Both(p, txn[p].caller)
    <3>1. \A r \in Picos : Shape(txn'[r])
      BY <1>0, <2>2, ShapeFacts DEF Both
    <3>2. \A r \in Picos : Shape(txn[r])'
      BY <3>1 DEF Shape, Steps, Idle, Txn
    <3>3. QED BY <2>1, <3>2 DEF TypeInv
  <2>3. Ends(p, txn[p].caller, i) => TypeInv'
    BY <1>0, <2>1, EndsShape
  <2>4. QED BY <2>1, <2>2, <2>3
<1>19. QED
  BY <1>1, <1>2, <1>3, <1>4, <1>5, <1>6, <1>7, <1>8, <1>9, <1>10, <1>11, <1>12, <1>13,
     <1>14, <1>15, <1>16, <1>17, <1>18 DEF Next, Continue, Serve

-----------------------------------------------------------------------------
(* Who waits for whom.                                                      *)

\* Every event that is waited for was waited for before, d[r] places behind.
Carried(d) ==
  /\ d \in [Picos -> {0, 1}]
  /\ \A r \in Picos : \A n \in 1 .. Len(queue'[r]) : queue'[r][n].caller # NoPico =>
       /\ n + d[r] \in 1 .. Len(queue[r])
       /\ queue'[r][n].kind = queue[r][n + d[r]].kind
       /\ queue'[r][n].id = queue[r][n + d[r]].id
       /\ queue'[r][n].caller = queue[r][n + d[r]].caller

Level == [r \in Picos |-> 0]
Ahead(q) == [r \in Picos |-> IF r = q THEN 1 ELSE 0]

LEMMA Lengths ==
  ASSUME Types, NEW r \in Picos
  PROVE  Len(queue[r]) \in Nat /\ \A n \in 1 .. Len(queue[r]) : queue[r][n] \in Events
<1>1. queue[r] \in Seq(Events)
  BY DEF Types
<1>2. QED BY <1>1

LEMMA LengthsNext ==
  ASSUME Types', NEW r \in Picos
  PROVE  Len(queue'[r]) \in Nat /\ \A n \in 1 .. Len(queue'[r]) : queue'[r][n] \in Events
<1>1. queue'[r] \in Seq(Events)
  BY DEF Types
<1>2. QED BY <1>1

LEMMA CarrySame ==
  ASSUME Types, queue' = queue
  PROVE  Carried(Level)
BY Lengths DEF Carried, Level

LEMMA CarryGrow ==
  ASSUME Types, Types', NEW q \in Picos, NEW e, NEW k \in Nat, Grows(q, e, k), e.caller = NoPico
  PROVE  Carried(Level)
<1>1. ASSUME NEW r \in Picos, NEW n \in 1 .. Len(queue'[r]), queue'[r][n].caller # NoPico
      PROVE  n \in 1 .. Len(queue[r]) /\ queue'[r][n] = queue[r][n]
  <2>1. Len(queue[r]) \in Nat /\ Len(queue'[r]) \in Nat
    BY Lengths, LengthsNext
  <2>2. QED BY <1>1, <2>1 DEF Grows
<1>2. \A r \in Picos : Len(queue'[r]) \in Nat
  BY LengthsNext
<1>3. QED BY <1>1, <1>2 DEF Carried, Level

LEMMA CarryShrink ==
  ASSUME Types, NEW q \in Picos, Shrinks(q)
  PROVE  Carried(Ahead(q))
<1>1. \A r \in Picos : Len(queue[r]) \in Nat
  BY Lengths
<1>2. QED BY <1>1 DEF Carried, Ahead, Shrinks

LEMMA CarryForget ==
  ASSUME Types, NEW P,
         \A r \in Picos : Len(queue'[r]) = 0 \/ Forgets(r, queue'[r], P)
  PROVE  Carried(Level)
<1>1. \A r \in Picos : Len(queue[r]) \in Nat
  BY Lengths
<1>2. QED BY <1>1 DEF Carried, Level, Forgets

Unawaited(c) == \A r \in Picos :
  txn[r].caller # c /\ \A n \in 1 .. Len(queue[r]) : queue[r][n].caller # c

LEMMA NotWaiting ==
  ASSUME WaitInv, NEW p \in Picos, txn[p].at # "wait"
  PROVE  Unawaited(p)
BY WaitersDo DEF Unawaited

LEMMA UnawaitedKept ==
  ASSUME NEW c \in Picos, Unawaited(c), NEW d, Carried(d),
         \A r \in Picos : txn'[r].caller \in {NoPico, txn[r].caller}
  PROVE  Unawaited(c)'
BY SkyAssumption DEF Unawaited, Carried, SkyAssumption

\* Nobody is waited for by one pico in two places.
LEMMA OnePlace ==
  ASSUME WaitInv, NEW c \in Picos, NEW q \in Picos, txn[q].caller = c
  PROVE  /\ \A r \in Picos : txn[r].caller = c => r = q
         /\ \A r \in Picos : \A n \in 1 .. Len(queue[r]) : queue[r][n].caller # c
<1>1. c # NoPico
  BY SkyAssumption DEF SkyAssumption
<1>2. QED BY <1>1 DEF WaitInv

\* r has taken the event at the head of its queue and who waited for that waits for r.
Takeover(r) ==
  /\ 1 \in 1 .. Len(queue[r])
  /\ txn'[r].caller = queue[r][1].caller /\ txn'[r].all = {queue[r][1].id}
  /\ \/ queue[r][1].kind = "sky_intro" /\ txn'[r].do = "accept"
     \/ queue[r][1].kind \in Removals /\ txn'[r].do = "told"

\* What was waited for still is, by transactions that have not moved.
LEMMA WaitKept ==
  ASSUME TypeInv, Types', WaitInv, NEW d, Carried(d),
         \A r \in Picos : txn'[r].caller # NoPico =>
           \/ /\ txn'[r].caller = txn[r].caller /\ txn'[r].all = txn[r].all
              /\ txn'[r].do = txn[r].do
           \/ d[r] = 1 /\ Takeover(r),
         \A c \in Picos : \/ Unawaited(c)'
                          \/ txn'[c] = txn[c] /\ \A j \in Ids : list'[c][j] = list[c][j],
         \A c \in Picos, j \in Ids : peer[c][j] \in Picos => peer'[c][j] = peer[c][j]
  PROVE  WaitInv'
<1>0. NoPico \notin Picos
  BY SkyAssumption DEF SkyAssumption
<1>1. ASSUME NEW q \in Picos, NEW c \in Picos, txn'[q].caller = c
      PROVE  /\ txn'[c].at = "wait"
             /\ \A i \in txn'[q].all : i \in txn'[c].left /\ peer'[c][i] = q
             /\ \/ txn'[q].do = "accept" /\ txn'[c].do = "ask"
                \/ txn'[q].do = "told" /\ txn'[c].do = "cancel"
  <2>0. txn'[q].all \subseteq Ids
    BY DEF Types, Txns
  <2>2. ASSUME Takeover(q)
        PROVE  /\ txn[c].at = "wait"
               /\ \A i \in txn'[q].all : i \in txn[c].left /\ peer[c][i] = q
               /\ \/ txn'[q].do = "accept" /\ txn[c].do = "ask"
                  \/ txn'[q].do = "told" /\ txn[c].do = "cancel"
    <3> DEFINE e == queue[q][1]
    <3>0. /\ 1 \in 1 .. Len(queue[q]) /\ e.caller = c /\ txn'[q].all = {e.id}
          /\ \/ e.kind = "sky_intro" /\ txn'[q].do = "accept"
             \/ e.kind \in Removals /\ txn'[q].do = "told"
      BY <1>1, <2>2 DEF Takeover
    <3>1. /\ txn[c].at = "wait" /\ e.id \in txn[c].left /\ peer[c][e.id] = q
          /\ \/ txn[c].do = "ask" /\ e.kind = "sky_intro"
             \/ txn[c].do = "cancel" /\ e.kind = NoticeOf(list[c][e.id])
      BY <1>0, <3>0 DEF WaitInv
    <3> HIDE DEF e
    <3>2. /\ e.kind = "sky_intro" => txn[c].do = "ask"
          /\ e.kind \in Removals => txn[c].do = "cancel"
      BY <3>1 DEF NoticeOf, Removals
    <3>3. QED BY <3>0, <3>1, <3>2
  <2>3. /\ txn[c].at = "wait"
        /\ \A i \in txn'[q].all : i \in txn[c].left /\ peer[c][i] = q
        /\ \/ txn'[q].do = "accept" /\ txn[c].do = "ask"
           \/ txn'[q].do = "told" /\ txn[c].do = "cancel"
    <3>1. CASE c = txn[q].caller /\ txn'[q].all = txn[q].all /\ txn'[q].do = txn[q].do
      BY <1>0, <1>1, <3>1 DEF WaitInv
    <3>2. QED BY <1>0, <1>1, <2>2, <3>1
  <2>4. ~Unawaited(c)'
    BY <1>1 DEF Unawaited
  <2>5. txn'[c] = txn[c]
    BY <2>4
  <2>6. \A i \in txn'[q].all : peer'[c][i] = q
    BY <2>0, <2>3
  <2>7. QED BY <2>3, <2>5, <2>6
<1>2. ASSUME NEW q \in Picos, NEW n \in 1 .. Len(queue'[q]), NEW c \in Picos,
             queue'[q][n].caller = c, NEW i \in Ids, queue'[q][n].id = i
      PROVE  /\ txn'[c].at = "wait" /\ i \in txn'[c].left /\ peer'[c][i] = q
             /\ \/ txn'[c].do = "ask" /\ queue'[q][n].kind = "sky_intro"
                \/ txn'[c].do = "cancel" /\ queue'[q][n].kind = NoticeOf(list'[c][i])
  <2> DEFINE m == n + d[q]
             e == queue[q][m]
  <2>1. /\ m \in 1 .. Len(queue[q]) /\ queue'[q][n].kind = e.kind /\ e.id = i
        /\ e.caller = c
    BY <1>0, <1>2 DEF Carried
  <2>2. /\ txn[c].at = "wait" /\ i \in txn[c].left /\ peer[c][i] = q
        /\ \/ txn[c].do = "ask" /\ e.kind = "sky_intro"
           \/ txn[c].do = "cancel" /\ e.kind = NoticeOf(list[c][i])
    <3> HIDE DEF m
    <3>1. QED BY <1>0, <2>1 DEF WaitInv
  <2>3. ~Unawaited(c)'
    BY <1>2 DEF Unawaited
  <2>4. txn'[c] = txn[c] /\ list'[c][i] = list[c][i] /\ peer'[c][i] = q
    BY <2>2, <2>3
  <2>5. QED BY <2>1, <2>2, <2>4
<1>3. ASSUME NEW q \in Picos, NEW r \in Picos,
             NEW m \in 1 .. Len(queue'[q]), NEW n \in 1 .. Len(queue'[r]),
             queue'[q][m].caller = queue'[r][n].caller, queue'[q][m].caller # NoPico
      PROVE  q = r /\ m = n
  <2>1. /\ m + d[q] \in 1 .. Len(queue[q]) /\ n + d[r] \in 1 .. Len(queue[r])
        /\ queue'[q][m].caller = queue[q][m + d[q]].caller
        /\ queue'[r][n].caller = queue[r][n + d[r]].caller
    BY <1>3 DEF Carried
  <2>2. q = r /\ m + d[q] = n + d[r]
    <3> DEFINE k == m + d[q]
               l == n + d[r]
    <3>1. /\ k \in 1 .. Len(queue[q]) /\ l \in 1 .. Len(queue[r])
          /\ queue[q][k].caller = queue[r][l].caller /\ queue[q][k].caller # NoPico
      BY <1>3, <2>1
    <3> HIDE DEF k, l
    <3>2. q = r /\ k = l
      BY <3>1 DEF WaitInv
    <3>3. QED BY <3>2 DEF k, l
  <2>3. d[q] \in {0, 1} /\ m \in Int /\ n \in Int
    BY <1>3, LengthsNext DEF Carried
  <2>4. QED BY <2>2, <2>3
\* Where the wait that txn'[q] ends was before.
<1>4. ASSUME NEW q \in Picos, NEW c \in Picos, txn'[q].caller = c
      PROVE  \/ txn[q].caller = c
             \/ d[q] = 1 /\ 1 \in 1 .. Len(queue[q]) /\ queue[q][1].caller = c
  BY <1>0, <1>4 DEF Takeover
<1>5. ASSUME NEW q \in Picos, NEW c \in Picos, txn'[q].caller = c,
             NEW r \in Picos, txn'[r].caller = c
      PROVE  q = r
  <2>1. CASE txn[q].caller = c \/ txn[r].caller = c
    BY <1>4, <1>5, <2>1, OnePlace
  <2>2. CASE /\ 1 \in 1 .. Len(queue[q]) /\ queue[q][1].caller = c
             /\ 1 \in 1 .. Len(queue[r]) /\ queue[r][1].caller = c
    BY <1>0, <2>2 DEF WaitInv
  <2>3. QED BY <1>4, <1>5, <2>1, <2>2
<1>6. ASSUME NEW q \in Picos, NEW c \in Picos, txn'[q].caller = c,
             NEW r \in Picos, NEW n \in 1 .. Len(queue'[r]), queue'[r][n].caller = c
      PROVE  FALSE
  <2> DEFINE m == n + d[r]
  <2>1. m \in 1 .. Len(queue[r]) /\ queue[r][m].caller = c
    BY <1>0, <1>6 DEF Carried
  <2>2. n \in Nat /\ n >= 1 /\ d[q] = 1 => (q = r => m # 1)
    BY LengthsNext
  <2> HIDE DEF m
  <2>3. CASE txn[q].caller = c
    BY <2>1, <2>3, OnePlace
  <2>4. CASE d[q] = 1 /\ 1 \in 1 .. Len(queue[q]) /\ queue[q][1].caller = c
    <3>1. q = r /\ m = 1
      BY <1>0, <2>1, <2>4 DEF WaitInv
    <3>2. n \in Nat /\ n >= 1
      BY LengthsNext
    <3>3. QED BY <2>2, <2>4, <3>1, <3>2
  <2>5. QED BY <1>4, <1>6, <2>3, <2>4
<1>7. \A q \in Picos : txn'[q].caller \in Picos \union {NoPico}
  BY DEF Types, Txns
<1>8. \A q \in Picos : \A n \in 1 .. Len(queue'[q]) :
        queue'[q][n].caller \in Picos \union {NoPico} /\ queue'[q][n].id \in Ids
  BY LengthsNext DEF Events
<1>9. \A q, r \in Picos : txn'[q].caller # NoPico =>
        /\ txn'[q].caller = txn'[r].caller => q = r
        /\ \A n \in 1 .. Len(queue'[r]) : queue'[r][n].caller # txn'[q].caller
  BY <1>5, <1>6, <1>7
<1>10. QED BY <1>1, <1>2, <1>3, <1>7, <1>8, <1>9 DEF WaitInv

\* p's transaction goes on, or another one starts, without waiting.
LEMMA WaitSet ==
  ASSUME TypeInv, Types', WaitInv, NEW d, Carried(d), NEW p \in Picos, NEW t, SetTxn(p, t),
         txn[p].at # "wait",
         \/ t.caller = NoPico
         \/ t.caller = txn[p].caller /\ t.all = txn[p].all /\ t.do = txn[p].do,
         \A c \in Picos \ {p}, j \in Ids : list'[c][j] = list[c][j],
         \A c \in Picos, j \in Ids : peer[c][j] \in Picos => peer'[c][j] = peer[c][j]
  PROVE  WaitInv'
<1>1. \A r \in Picos : txn'[r].caller # NoPico =>
        /\ txn'[r].caller = txn[r].caller /\ txn'[r].all = txn[r].all
        /\ txn'[r].do = txn[r].do
  BY DEF SetTxn
<1>2. Unawaited(p)'
  BY <1>1, NotWaiting, UnawaitedKept
<1>3. \A c \in Picos \ {p} : txn'[c] = txn[c]
  BY DEF SetTxn
<1>4. QED BY <1>1, <1>2, <1>3, WaitKept

\* q's transaction ends, and so does the wait of c.
LEMMA WaitEnds ==
  ASSUME TypeInv, Types', WaitInv, NEW d, Carried(d), NEW q \in Picos, txn[q].at # "wait",
         NEW c \in Picos \union {NoPico}, NEW i, Ends(q, c, i),
         c \in Picos => Unawaited(c)' /\ txn[c].do \in {"ask", "cancel"},
         \A r \in Picos \ {q}, j \in Ids : list'[r][j] = list[r][j], peer' = peer
  PROVE  WaitInv'
<1>1. \A r \in Picos : txn[r] \in Txns /\ Shape(txn[r])
  BY DEF TypeInv, Types
<1>2. ASSUME NEW r \in Picos
      PROVE  /\ txn'[r].caller \in {NoPico, txn[r].caller}
             /\ txn'[r].caller # NoPico =>
                  txn'[r].all = txn[r].all /\ txn'[r].do = txn[r].do
  <2>1. CASE r = c /\ r # q
    <3>1. txn[c].caller = NoPico
      BY <1>1, <2>1 DEF Shape
    <3>2. txn'[c] = AfterReply(txn[c], i)
      BY <2>1 DEF Ends
    <3>3. AfterReply(txn[c], i).caller = NoPico
      BY <1>1, <2>1, <3>1, ReplyFacts, NoticeFacts, IdleFacts
    <3>4. QED BY <2>1, <3>2, <3>3
  <2>2. QED BY <2>1, IdleFacts DEF Ends
<1>3. Unawaited(q)'
  <2>1. Unawaited(q)
    BY NotWaiting
  <2>2. \A r \in Picos : txn'[r].caller \in {NoPico, txn[r].caller}
    BY <1>2
  <2>3. QED BY <2>1, <2>2, UnawaitedKept
<1>4. ASSUME NEW r \in Picos
      PROVE  \/ Unawaited(r)'
             \/ txn'[r] = txn[r] /\ \A j \in Ids : list'[r][j] = list[r][j]
  <2>1. CASE r = q
    BY <1>3, <2>1
  <2>2. CASE r = c
    BY <2>2
  <2>3. CASE r # q /\ r # c
    BY <2>3 DEF Ends
  <2>4. QED BY <2>1, <2>2, <2>3
<1>5. \A r \in Picos : txn'[r].caller # NoPico =>
        /\ txn'[r].caller = txn[r].caller /\ txn'[r].all = txn[r].all
        /\ txn'[r].do = txn[r].do
  BY <1>2
<1>6. \A r \in Picos, j \in Ids : peer[r][j] \in Picos => peer'[r][j] = peer[r][j]
  OBVIOUS
<1>7. QED BY <1>4, <1>5, <1>6, WaitKept

\* A pico that got its reply is waited for by nobody.
LEMMA ReplyCaller ==
  ASSUME TypeInv, NEW c \in Picos, txn[c].do \in {"ask", "cancel"}, NEW i
  PROVE  AfterReply(txn[c], i).caller = NoPico
<1>1. txn[c] \in Txns /\ txn[c].caller = NoPico
  BY DEF TypeInv, Types, Shape
<1>2. QED BY <1>1, ReplyFacts, NoticeFacts, IdleFacts

\* Who waits for q's transaction waits for nothing else, so that its end is the wait's.
LEMMA TxnReleases ==
  ASSUME TypeInv, WaitInv, NEW d, Carried(d), NEW q \in Picos,
         NEW c \in Picos, NEW i, txn[q].caller = c, Ends(q, c, i), c # q
  PROVE  Unawaited(c)'
<1>1. NoPico \notin Picos
  BY SkyAssumption DEF SkyAssumption
<1>2. ASSUME NEW r \in Picos, txn'[r].caller = c PROVE FALSE
  <2>1. r # q /\ r # c
    <3>1. txn[c].do \in {"ask", "cancel"}
      BY <1>1 DEF WaitInv
    <3>2. txn'[c].caller = NoPico
      BY <3>1, ReplyCaller DEF Ends
    <3>3. QED BY <1>1, <1>2, <3>2, IdleFacts DEF Ends
  <2>2. txn[r].caller = c
    BY <1>2, <2>1 DEF Ends
  <2>3. QED BY <2>1, <2>2, OnePlace
<1>3. ASSUME NEW r \in Picos, NEW n \in 1 .. Len(queue'[r]), queue'[r][n].caller = c
      PROVE  FALSE
  <2>1. /\ n + d[r] \in 1 .. Len(queue[r])
        /\ queue[r][n + d[r]].caller = c
    BY <1>1, <1>3 DEF Carried
  <2>2. QED BY <2>1, OnePlace
<1>4. QED BY <1>2, <1>3 DEF Unawaited

\* The same for the event that q has taken.
LEMMA EventReleases ==
  ASSUME TypeInv, Types', WaitInv, NEW q \in Picos, Shrinks(q),
         NEW c \in Picos, NEW i, queue[q][1].caller = c, Ends(q, c, i), c # q
  PROVE  Unawaited(c)'
<1>1. NoPico \notin Picos /\ 1 \in 1 .. Len(queue[q])
  BY SkyAssumption DEF SkyAssumption, Shrinks
<1>2. ASSUME NEW r \in Picos, txn'[r].caller = c PROVE FALSE
  <2>1. r # q /\ r # c
    <3>1. txn[c].do \in {"ask", "cancel"}
      BY <1>1, WaitersDo
    <3>2. txn'[c].caller = NoPico
      BY <3>1, ReplyCaller DEF Ends
    <3>3. QED BY <1>1, <1>2, <3>2, IdleFacts DEF Ends
  <2>2. txn[r].caller = c
    BY <1>2, <2>1 DEF Ends
  <2>3. QED BY <1>1, <2>2, OnePlace
<1>3. ASSUME NEW r \in Picos, NEW n \in 1 .. Len(queue'[r]), queue'[r][n].caller = c
      PROVE  FALSE
  <2>1. Carried(Ahead(q))
    BY CarryShrink DEF TypeInv
  <2>2. /\ n + Ahead(q)[r] \in 1 .. Len(queue[r])
        /\ queue[r][n + Ahead(q)[r]].caller = c
    BY <1>1, <1>3, <2>1 DEF Carried
  <2>3. r = q /\ n + Ahead(q)[r] = 1
    <3> DEFINE m == n + Ahead(q)[r]
    <3>1. m \in 1 .. Len(queue[r]) /\ queue[r][m].caller = c
      BY <2>2
    <3> HIDE DEF m
    <3>2. r = q /\ m = 1
      BY <1>1, <3>1 DEF WaitInv
    <3>3. QED BY <3>2 DEF m
  <2>4. QED BY <2>3, LengthsNext DEF Ahead
<1>4. QED BY <1>2, <1>3 DEF Unawaited

\* p's transaction sends e to q and waits.
LEMMA WaitNew ==
  ASSUME TypeInv, Types', WaitInv, NEW p \in Picos, NEW q \in Picos, NEW e \in Events,
         Grows(q, e, 1), e.caller = p, txn[p].at # "wait", txn[p].do \in {"ask", "cancel"},
         NEW t, SetTxn(p, t), t.at = "wait", t.do = txn[p].do, t.all = txn[p].all,
         t.caller = txn[p].caller, e.id \in t.left, peer'[p][e.id] = q,
         \/ t.do = "ask" /\ e.kind = "sky_intro"
         \/ t.do = "cancel" /\ e.kind = NoticeOf(list[p][e.id]),
         list' = list,
         \A c \in Picos, j \in Ids : peer[c][j] \in Picos => peer'[c][j] = peer[c][j]
  PROVE  WaitInv'
<1>0. NoPico \notin Picos /\ \A r \in Picos : txn[r] \in Txns
  BY SkyAssumption DEF SkyAssumption, TypeInv, Types
<1>1. Unawaited(p)
  BY NotWaiting
<1>2. \A r \in Picos : Len(queue[r]) \in Nat /\ Len(queue'[r]) \in Nat
  BY Lengths, LengthsNext DEF TypeInv
\* An event of the queues now is e at the end of q's, or was there before.
<1>3. ASSUME NEW r \in Picos, NEW n \in 1 .. Len(queue'[r])
      PROVE  \/ r = q /\ n = Len(queue[q]) + 1 /\ queue'[r][n] = e
             \/ n \in 1 .. Len(queue[r]) /\ queue'[r][n] = queue[r][n]
  BY <1>2 DEF Grows
<1>4. ASSUME NEW r \in Picos, NEW c \in Picos, txn'[r].caller = c
      PROVE  /\ txn[r].caller = c /\ c # p
             /\ txn'[c].at = "wait"
             /\ \A i \in txn'[r].all : i \in txn'[c].left /\ peer'[c][i] = r
             /\ \/ txn'[r].do = "accept" /\ txn'[c].do = "ask"
                \/ txn'[r].do = "told" /\ txn'[c].do = "cancel"
  <2>1. c = txn[r].caller /\ txn'[r].all = txn[r].all /\ txn'[r].do = txn[r].do
    BY <1>4 DEF SetTxn
  <2>2. c # p
    BY <1>1, <2>1 DEF Unawaited
  <2>3. /\ txn[c].at = "wait"
        /\ \A i \in txn[r].all : i \in txn[c].left /\ peer[c][i] = r
        /\ \/ txn[r].do = "accept" /\ txn[c].do = "ask"
           \/ txn[r].do = "told" /\ txn[c].do = "cancel"
    BY <1>0, <2>1 DEF WaitInv
  <2>4. txn[r].all \subseteq Ids /\ txn'[c] = txn[c]
    BY <1>0, <2>2 DEF Txns, SetTxn
  <2>5. \A i \in txn[r].all : peer'[c][i] = r
    BY <2>3, <2>4
  <2>6. QED BY <2>1, <2>2, <2>3, <2>4, <2>5
<1>5. ASSUME NEW r \in Picos, NEW n \in 1 .. Len(queue'[r]), NEW c \in Picos,
             queue'[r][n].caller = c
      PROVE  LET f == queue'[r][n] IN
             /\ txn'[c].at = "wait" /\ f.id \in txn'[c].left /\ peer'[c][f.id] = r
             /\ \/ txn'[c].do = "ask" /\ f.kind = "sky_intro"
                \/ txn'[c].do = "cancel" /\ f.kind = NoticeOf(list'[c][f.id])
  <2>1. CASE r = q /\ queue'[r][n] = e
    BY <1>5, <2>1 DEF SetTxn
  <2>2. CASE n \in 1 .. Len(queue[r]) /\ queue'[r][n] = queue[r][n]
    <3>1. c # p
      BY <1>1, <1>5, <2>2 DEF Unawaited
    <3>2. LET f == queue[r][n] IN
          /\ txn[c].at = "wait" /\ f.id \in txn[c].left /\ peer[c][f.id] = r
          /\ \/ txn[c].do = "ask" /\ f.kind = "sky_intro"
             \/ txn[c].do = "cancel" /\ f.kind = NoticeOf(list[c][f.id])
      BY <1>0, <1>5, <2>2 DEF WaitInv
    <3>3. queue[r][n].id \in Ids
      BY <2>2, Lengths DEF TypeInv, Events
    <3>4. QED BY <2>2, <3>1, <3>2, <3>3 DEF SetTxn
  <2>3. QED BY <1>3, <2>1, <2>2
<1>6. ASSUME NEW r \in Picos, NEW s \in Picos,
             NEW m \in 1 .. Len(queue'[r]), NEW n \in 1 .. Len(queue'[s]),
             queue'[r][m].caller = queue'[s][n].caller, queue'[r][m].caller # NoPico
      PROVE  r = s /\ m = n
  <2>1. CASE /\ m \in 1 .. Len(queue[r]) /\ queue'[r][m] = queue[r][m]
             /\ n \in 1 .. Len(queue[s]) /\ queue'[s][n] = queue[s][n]
    BY <1>6, <2>1 DEF WaitInv
  <2>2. CASE r = q /\ m = Len(queue[q]) + 1 /\ queue'[r][m] = e
    BY <1>1, <1>3, <1>6, <2>2 DEF Unawaited
  <2>3. CASE s = q /\ n = Len(queue[q]) + 1 /\ queue'[s][n] = e
    BY <1>1, <1>3, <1>6, <2>3 DEF Unawaited
  <2>4. QED BY <1>3, <2>1, <2>2, <2>3
<1>7. \A r \in Picos : txn'[r].caller \in Picos \union {NoPico}
  BY DEF Types, Txns
<1>8. \A r \in Picos : \A n \in 1 .. Len(queue'[r]) :
        queue'[r][n].caller \in Picos \union {NoPico}
  BY LengthsNext DEF Events
<1>9. ASSUME NEW r \in Picos, txn'[r].caller # NoPico, NEW s \in Picos
      PROVE  /\ txn'[r].caller = txn'[s].caller => r = s
             /\ \A n \in 1 .. Len(queue'[s]) : queue'[s][n].caller # txn'[r].caller
  <2>1. txn'[r].caller \in Picos \ {p} /\ txn[r].caller = txn'[r].caller
    BY <1>4, <1>7, <1>9
  <2>2. txn'[s].caller = txn'[r].caller => r = s
    BY <1>4, <2>1, OnePlace
  <2>3. \A n \in 1 .. Len(queue'[s]) : queue'[s][n].caller # txn'[r].caller
    BY <1>3, <2>1, OnePlace
  <2>4. QED BY <2>2, <2>3
<1>10. QED BY <1>4, <1>5, <1>6, <1>7, <1>8, <1>9 DEF WaitInv

\* q takes an introduction and approves it at once, or a removal of its bus: who waited
\* for the event waits for the transaction.
LEMMA WaitMoves ==
  ASSUME TypeInv, Types', WaitInv, NEW q \in Picos, Shrinks(q), txn[q].at # "wait",
         NEW t, SetTxn(q, t), t.caller = queue[q][1].caller, t.all = {queue[q][1].id},
         \/ queue[q][1].kind = "sky_intro" /\ t.do = "accept"
         \/ queue[q][1].kind \in Removals /\ t.do = "told",
         \A r \in Picos \ {q}, j \in Ids : list'[r][j] = list[r][j], peer' = peer
  PROVE  WaitInv'
<1>0. NoPico \notin Picos /\ 1 \in 1 .. Len(queue[q])
  BY SkyAssumption DEF SkyAssumption, Shrinks
<1>1. Carried(Ahead(q))
  BY CarryShrink DEF TypeInv
<1>2. \A r \in Picos : txn'[r].caller # NoPico =>
        \/ /\ txn'[r].caller = txn[r].caller /\ txn'[r].all = txn[r].all
           /\ txn'[r].do = txn[r].do
        \/ Ahead(q)[r] = 1 /\ Takeover(r)
  <2>1. txn'[q] = t /\ \A r \in Picos \ {q} : txn'[r] = txn[r]
    BY DEF SetTxn
  <2>2. Ahead(q)[q] = 1 /\ Takeover(q)
    BY <1>0, <2>1 DEF Takeover, Ahead
  <2>3. QED BY <2>1, <2>2
<1>3. Unawaited(q)'
  <2>1. Unawaited(q)
    BY NotWaiting
  <2>2. \A r \in Picos : txn'[r].caller # q
    BY <1>0, <2>1 DEF SetTxn, Unawaited
  <2>3. ASSUME NEW r \in Picos, NEW n \in 1 .. Len(queue'[r]), queue'[r][n].caller = q
        PROVE  FALSE
    <3>1. /\ n + Ahead(q)[r] \in 1 .. Len(queue[r])
          /\ queue[r][n + Ahead(q)[r]].caller = q
      BY <1>0, <1>1, <2>3 DEF Carried
    <3>2. QED BY <2>1, <3>1 DEF Unawaited
  <2>4. QED BY <2>2, <2>3 DEF Unawaited
<1>4. ASSUME NEW c \in Picos
      PROVE  \/ Unawaited(c)'
             \/ txn'[c] = txn[c] /\ \A j \in Ids : list'[c][j] = list[c][j]
  BY <1>3 DEF SetTxn
<1>5. \A c \in Picos, j \in Ids : peer[c][j] \in Picos => peer'[c][j] = peer[c][j]
  OBVIOUS
<1>6. QED BY <1>1, <1>2, <1>4, <1>5, WaitKept

\* p does not wait any longer.
LEMMA WaitLeaves ==
  ASSUME TypeInv, Types', PairInv, WaitInv, NEW p \in Picos, NEW u, Leaves(p, u),
         u.caller = NoPico, \A r \in Picos : Forgets(r, queue'[r], {p}),
         list' = list, peer' = peer
  PROVE  WaitInv'
<1>0. NoPico \notin Picos
  BY SkyAssumption DEF SkyAssumption
<1>1. Carried(Level)
  BY CarryForget DEF TypeInv
<1>2. ASSUME NEW r \in Picos
      PROVE  /\ txn'[r].caller # p
             /\ txn'[r].caller # NoPico =>
                  /\ txn'[r].caller = txn[r].caller /\ txn'[r].all = txn[r].all
                  /\ txn'[r].do = txn[r].do
             /\ \/ r = p \/ txn'[r] = txn[r]
                \/ txn[r].caller = p /\ txn'[r].caller = NoPico
  <2>1. txn[r] \in Txns
    BY DEF TypeInv, Types
  <2>2. CASE r = p
    BY <1>0, <2>2 DEF Leaves
  <2>3. CASE r # p /\ txn[r].caller = p
    <3>1. txn'[r] = [txn[r] EXCEPT !.caller = NoPico]
      BY <2>3 DEF Leaves
    <3>2. txn'[r].caller = NoPico
      BY <2>1, <3>1, CallerFacts
    <3>3. QED BY <1>0, <2>3, <3>2
  <2>4. CASE r # p /\ txn[r].caller # p
    BY <2>4 DEF Leaves
  <2>5. QED BY <2>2, <2>3, <2>4
<1>3. Unawaited(p)'
  <2>1. \A r \in Picos : \A n \in 1 .. Len(queue'[r]) : queue'[r][n].caller # p
    BY <1>0 DEF Forgets
  <2>2. QED BY <1>2, <2>1 DEF Unawaited
<1>4. ASSUME NEW c \in Picos
      PROVE  \/ Unawaited(c)'
             \/ txn'[c] = txn[c] /\ \A j \in Ids : list'[c][j] = list[c][j]
  <2>1. CASE txn[c].caller = p
    <3>1. txn[c].at # "wait"
      BY <1>0, <2>1 DEF TypeInv, Shape, Steps
    <3>2. Unawaited(c)
      BY <3>1, NotWaiting
    <3>3. \A r \in Picos : txn'[r].caller \in {NoPico, txn[r].caller}
      BY <1>2
    <3>4. QED BY <1>1, <3>2, <3>3, UnawaitedKept
  <2>2. QED BY <1>2, <1>3, <2>1
<1>5. \A c \in Picos, j \in Ids : peer[c][j] \in Picos => peer'[c][j] = peer[c][j]
  OBVIOUS
<1>6. \A r \in Picos : txn'[r].caller # NoPico =>
        /\ txn'[r].caller = txn[r].caller /\ txn'[r].all = txn[r].all
        /\ txn'[r].do = txn[r].do
  BY <1>2
<1>7. QED BY <1>1, <1>4, <1>5, <1>6, WaitKept

\* The engine of the picos of P stops.
LEMMA WaitCrash ==
  ASSUME TypeInv, Types', PairInv, WaitInv, NEW P \in SUBSET Picos,
         CrashOf(P), list' = list, peer' = peer
  PROVE  WaitInv'
<1>0. /\ NoPico \notin Picos
      /\ \A r \in Picos : txn[r] \in Txns /\ Shape(txn[r]) /\ Len(queue[r]) \in Nat
      /\ \A r \in Picos : DOMAIN queue[r] = 1 .. Len(queue[r])
  BY SkyAssumption DEF SkyAssumption, TypeInv, Types
<1>1. Carried(Level)
  BY CarryForget DEF TypeInv, CrashOf
<1>2. ASSUME NEW r \in Picos, NEW j \in Ids, WaitsIn(r, j, P)
      PROVE  /\ txn[r].caller = NoPico /\ AfterReply(txn[r], j).caller = NoPico
             /\ \E s \in P : \/ txn[s].caller = r
                             \/ \E n \in 1 .. Len(queue[s]) : queue[s][n].caller = r
  <2>1. \E s \in P : \/ txn[s].caller = r
                     \/ \E n \in 1 .. Len(queue[s]) : queue[s][n].caller = r
    BY <1>0, <1>2 DEF WaitsIn
  <2>2. txn[r].do \in {"ask", "cancel"}
    BY <2>1, WaitersDo
  <2>3. txn[r].caller = NoPico
    BY <1>0, <2>2 DEF Shape
  <2>4. AfterReply(txn[r], j).caller = NoPico
    BY <1>0, <2>2, <2>3, ReplyFacts, NoticeFacts, IdleFacts
  <2>5. QED BY <2>1, <2>3, <2>4
<1>3. ASSUME NEW r \in Picos
      PROVE  /\ txn'[r].caller \notin P
             /\ txn'[r].caller # NoPico => r \notin P /\ txn'[r] = txn[r]
             /\ \/ r \in P
                \/ \E j \in Ids : WaitsIn(r, j, P)
                \/ txn[r].caller \in P
                \/ txn'[r] = txn[r]
  <2>1. CASE r \in P
    BY <1>0, <2>1, IdleFacts DEF CrashOf
  <2>2. CASE r \notin P /\ \E j \in Ids : WaitsIn(r, j, P) /\ txn'[r] = AfterReply(txn[r], j)
    BY <1>0, <1>2, <2>2
  <2>3. CASE txn'[r] = IF txn[r].caller \in P THEN [txn[r] EXCEPT !.caller = NoPico]
                       ELSE txn[r]
    <3>1. CASE r \notin P /\ txn[r].caller \in P
      BY <1>0, <2>3, <3>1, CallerFacts
    <3>2. QED BY <1>0, <2>1, <2>3, <3>1
  <2>4. QED BY <2>1, <2>2, <2>3 DEF CrashOf
<1>4. ASSUME NEW c \in P PROVE Unawaited(c)'
  <2>1. \A r \in Picos : \A n \in 1 .. Len(queue'[r]) : queue'[r][n].caller # c
    BY <1>0 DEF CrashOf, Forgets
  <2>2. QED BY <1>3, <2>1 DEF Unawaited
<1>5. ASSUME NEW c \in Picos \ P, NEW j \in Ids, WaitsIn(c, j, P) PROVE Unawaited(c)'
  <2>1. PICK s \in P : \/ txn[s].caller = c
                       \/ \E n \in 1 .. Len(queue[s]) : queue[s][n].caller = c
    BY <1>2, <1>5
  <2>2. ASSUME NEW r \in Picos, txn'[r].caller = c PROVE FALSE
    <3>1. r \notin P /\ txn[r].caller = c
      BY <1>0, <1>3, <2>2
    <3>2. QED BY <2>1, <3>1, OnePlace
  <2>3. ASSUME NEW r \in Picos, NEW n \in 1 .. Len(queue'[r]), queue'[r][n].caller = c
        PROVE  FALSE
    <3>1. r \notin P
      BY <2>3 DEF CrashOf
    <3>2. n \in 1 .. Len(queue[r]) /\ queue[r][n].caller = c
      BY <1>0, <2>3, <3>1 DEF CrashOf, Forgets
    <3>3. txn[s].caller # c
      BY <2>1, <3>2, OnePlace
    <3>4. QED BY <1>0, <2>1, <3>1, <3>2, <3>3 DEF WaitInv
  <2>4. QED BY <2>2, <2>3 DEF Unawaited
<1>6. ASSUME NEW c \in Picos \ P, txn[c].caller \in P PROVE Unawaited(c)'
  <2>1. txn[c].at # "wait"
    BY <1>0, <1>6 DEF Shape, Steps
  <2>2. Unawaited(c)
    BY <2>1, NotWaiting
  <2>3. \A r \in Picos : txn'[r].caller \in {NoPico, txn[r].caller}
    BY <1>3
  <2>4. QED BY <1>1, <2>2, <2>3, UnawaitedKept
<1>7. \A c \in Picos :
        Unawaited(c)' \/ (txn'[c] = txn[c] /\ \A j \in Ids : list'[c][j] = list[c][j])
  BY <1>3, <1>4, <1>5, <1>6
<1>8. \A c \in Picos, j \in Ids : peer[c][j] \in Picos => peer'[c][j] = peer[c][j]
  OBVIOUS
<1>9. \A r \in Picos : txn'[r].caller # NoPico =>
        /\ txn'[r].caller = txn[r].caller /\ txn'[r].all = txn[r].all
        /\ txn'[r].do = txn[r].do
  BY <1>3
<1>10. QED BY <1>1, <1>7, <1>8, <1>9, WaitKept

LEMMA WaitTxnEnds ==
  ASSUME TypeInv, Types', PairInv, WaitInv, NEW d, Carried(d),
         NEW q \in Picos, NEW i, txn[q].at # "wait", Ends(q, txn[q].caller, i),
         \A r \in Picos \ {q}, j \in Ids : list'[r][j] = list[r][j], peer' = peer
  PROVE  WaitInv'
<1>1. PICK c \in (Picos \ {q}) \union {NoPico} : txn[q].caller = c
  BY Waiters DEF Txns
<1>2. Ends(q, c, i)
  BY <1>1
<1>3. c \in Picos => Unawaited(c)' /\ txn[c].do \in {"ask", "cancel"}
  <2>1. SUFFICES ASSUME c \in Picos PROVE Unawaited(c)' /\ txn[c].do \in {"ask", "cancel"}
    OBVIOUS
  <2>2. Unawaited(c)'
    BY <1>1, <1>2, <2>1, SkyAssumption, TxnReleases DEF SkyAssumption
  <2>3. txn[c].do \in {"ask", "cancel"}
    BY <1>1, <2>1, WaitersDo
  <2>4. QED BY <2>2, <2>3
<1>4. QED BY <1>2, <1>3, WaitEnds

LEMMA WaitEventEnds ==
  ASSUME TypeInv, Types', PairInv, WaitInv,
         NEW q \in Picos, NEW i, txn[q].at # "wait", Shrinks(q), Ends(q, queue[q][1].caller, i),
         \A r \in Picos \ {q}, j \in Ids : list'[r][j] = list[r][j], peer' = peer
  PROVE  WaitInv'
<1>0. 1 \in 1 .. Len(queue[q])
  BY DEF Shrinks
<1>1. PICK c \in (Picos \ {q}) \union {NoPico} : queue[q][1].caller = c
  BY <1>0, Waiters DEF Events
<1>2. Ends(q, c, i)
  BY <1>1
<1>3. c \in Picos => Unawaited(c)' /\ txn[c].do \in {"ask", "cancel"}
  <2>1. SUFFICES ASSUME c \in Picos PROVE Unawaited(c)' /\ txn[c].do \in {"ask", "cancel"}
    OBVIOUS
  <2>2. Unawaited(c)'
    BY <1>1, <1>2, <2>1, SkyAssumption, EventReleases DEF SkyAssumption
  <2>3. txn[c].do \in {"ask", "cancel"}
    BY <1>0, <1>1, <2>1, WaitersDo
  <2>4. QED BY <2>2, <2>3
<1>4. Carried(Ahead(q))
  BY CarryShrink DEF TypeInv
<1>5. QED BY <1>2, <1>3, <1>4, WaitEnds

\* q's transaction fails, and with it that of c, which waits for it.
LEMMA WaitBoth ==
  ASSUME TypeInv, Types', WaitInv, NEW q \in Picos, NEW c \in Picos, txn[q].at # "wait",
         txn[q].caller = c, Both(q, c), list' = list, peer' = peer, queue' = queue
  PROVE  WaitInv'
<1>1. NoPico \notin Picos /\ Carried(Level)
  BY SkyAssumption, CarrySame DEF SkyAssumption, TypeInv
<1>2. \A r \in Picos : txn'[r].caller # NoPico =>
        /\ txn'[r].caller = txn[r].caller /\ txn'[r].all = txn[r].all
        /\ txn'[r].do = txn[r].do
  BY IdleFacts DEF Both
<1>3. Unawaited(q)'
  BY <1>1, <1>2, NotWaiting, UnawaitedKept
<1>4. Unawaited(c)'
  <2>1. \A r \in Picos : txn'[r].caller = c => r = q
    BY <1>1, <1>2, OnePlace
  <2>2. \A r \in Picos : txn'[r].caller # c
    BY <1>1, <2>1, IdleFacts DEF Both
  <2>3. \A r \in Picos : \A n \in 1 .. Len(queue'[r]) : queue'[r][n].caller # c
    BY OnePlace
  <2>4. QED BY <2>2, <2>3 DEF Unawaited
<1>5. \A r \in Picos \ {q, c} : txn'[r] = txn[r]
  BY DEF Both
<1>6. \A r \in Picos, j \in Ids : peer[r][j] \in Picos => peer'[r][j] = peer[r][j]
  OBVIOUS
<1>7. QED BY <1>1, <1>2, <1>3, <1>4, <1>5, <1>6, WaitKept

\* Every step keeps who waits for whom.
LEMMA WaitStep ==
  ASSUME TypeInv, PairInv, WaitInv, TxnInv, [Next]_vars
  PROVE  WaitInv'
<1>0. Types /\ \A r \in Picos : txn[r] \in Txns /\ Shape(txn[r])
  BY DEF TypeInv, Types
<1>1. ASSUME NEW p \in Picos, NEW q \in Picos, NEW i \in Ids, Ask(p, q, i) PROVE WaitInv'
  <2> DEFINE t == Txn("ask", {i}, "record", NoPico)
  <2>1. /\ Types' /\ SetTxn(p, t) /\ txn[p] = Idle /\ queue' = queue
        /\ Set2(list', list, p, i, "outbound") /\ Set2(peer', peer, p, i, q)
        /\ \A r \in Picos : list[r][i] = "none"
    BY <1>1, AskFacts
  <2>2. t.caller = NoPico /\ txn[p].at # "wait"
    BY <2>1, IdleFacts DEF Txn
  <2>3. peer[p][i] = NoPico
    BY <2>1 DEF PairInv, PairAt, TypeInv, Types
  <2>4. Carried(Level)
    BY <1>0, <2>1, CarrySame
  <2> HIDE DEF t
  <2>5. \A c \in Picos, j \in Ids : peer[c][j] \in Picos => peer'[c][j] = peer[c][j]
    BY <2>1, <2>3, SkyAssumption DEF Set2, SkyAssumption
  <2>6. \A c \in Picos \ {p}, j \in Ids : list'[c][j] = list[c][j]
    BY <2>1 DEF Set2
  <2>7. QED BY <2>1, <2>2, <2>4, <2>5, <2>6, WaitSet
<1>2. ASSUME NEW p \in Picos, NEW i \in Ids, Introduce(p, i) PROVE WaitInv'
  <2> DEFINE q == peer[p][i]
             e == Event("sky_intro", i, p)
             t == [txn[p] EXCEPT !.at = "wait"]
  <2>1. /\ Asking(p, i) /\ txn[p].at = "send" /\ q \in Picos \ {p}
        /\ Types' /\ list' = list
        /\ \/ SetTxn(p, Idle) /\ queue' = queue /\ peer' = peer
           \/ Set2(peer', peer, q, i, p) /\ Grows(q, e, 1) /\ SetTxn(p, t)
    BY <1>2, IntroduceFacts
  <2>2. CASE SetTxn(p, Idle) /\ queue' = queue /\ peer' = peer
    <3>1. Carried(Level) /\ Idle.caller = NoPico
      BY <1>0, <2>2, CarrySame, IdleFacts
    <3>2. QED BY <2>1, <2>2, <3>1, WaitSet
  <2>3. CASE Set2(peer', peer, q, i, p) /\ Grows(q, e, 1) /\ SetTxn(p, t)
    <3>1. /\ e \in Events /\ e.kind = "sky_intro" /\ e.id = i /\ e.caller = p
      BY EventFacts DEF Kinds
    <3>2. /\ t.do = txn[p].do /\ t.all = txn[p].all /\ t.left = txn[p].left
          /\ t.caller = txn[p].caller /\ t.at = "wait"
      BY <1>0, AtFacts DEF Ats
    <3>3. txn[p].do = "ask" /\ i \in txn[p].left
      BY <1>0, <2>1 DEF Asking, Shape
    <3>4. peer[q][i] = NoPico
      BY <2>1 DEF TxnInv, TxnAt
    <3>5. peer'[p][i] = q
      BY <2>1, <2>3 DEF Set2
    <3>6. \A c \in Picos, j \in Ids : peer[c][j] \in Picos => peer'[c][j] = peer[c][j]
      BY <2>1, <2>3, <3>4, SkyAssumption DEF Set2, SkyAssumption
    <3>7. q \in Picos
      BY <2>1
    <3> HIDE DEF q, e, t
    <3>8. QED BY <2>1, <2>3, <3>1, <3>2, <3>3, <3>5, <3>6, <3>7, WaitNew
  <2>4. QED BY <2>1, <2>2, <2>3
<1>3. ASSUME NEW q \in Picos, LinkRead(q) PROVE WaitInv'
  <2> DEFINE t == [txn[q] EXCEPT !.at = "write"]
  <2>1. PICK i \in Ids : txn[q].all = {i}
    BY <1>3, Approvals DEF LinkRead
  <2>2. /\ Types' /\ txn[q].at = "read" /\ UNCHANGED <<buses, queue>>
        /\ Ends(q, txn[q].caller, i) \/ SetTxn(q, t)
    BY <1>3, <2>1, LinkReadFacts
  <2>3. Carried(Level) /\ list' = list /\ peer' = peer
    BY <1>0, <2>2, CarrySame DEF buses
  <2>4. Ends(q, txn[q].caller, i) => WaitInv'
    BY <2>2, <2>3, WaitTxnEnds
  <2>5. t.caller = txn[q].caller /\ t.all = txn[q].all /\ t.do = txn[q].do
    BY <1>0, AtFacts DEF Ats
  <2> HIDE DEF t
  <2>6. SetTxn(q, t) => WaitInv'
    BY <2>2, <2>3, <2>5, WaitSet
  <2>7. QED BY <2>2, <2>4, <2>6
<1>4. ASSUME NEW q \in Picos, LinkWrite(q) PROVE WaitInv'
  <2> DEFINE t == [txn[q] EXCEPT !.at = "settle"]
  <2>1. PICK i \in Ids : txn[q].all = {i}
    BY <1>4, Approvals DEF LinkWrite
  <2>2. /\ Types' /\ txn[q].at = "write" /\ SetTxn(q, t) /\ UNCHANGED buses
        /\ peer[q][i] \in Picos /\ \E k \in Nat \ {0} : Grows(peer[q][i], Response(i), k)
    BY <1>4, <2>1, LinkWriteFacts
  <2>3. Response(i).caller = NoPico
    BY EventFacts DEF Response, Event
  <2>4. Carried(Level) /\ list' = list /\ peer' = peer
    BY <1>0, <2>2, <2>3, CarryGrow DEF buses
  <2>5. t.caller = txn[q].caller /\ t.all = txn[q].all /\ t.do = txn[q].do
    BY <1>0, AtFacts DEF Ats
  <2> HIDE DEF t
  <2>6. QED BY <2>2, <2>4, <2>5, WaitSet
<1>5. ASSUME NEW q \in Picos, addInboundSubscription(q) PROVE WaitInv'
  <2>1. PICK i \in Ids : txn[q].all = {i}
    BY <1>5, Approvals DEF addInboundSubscription
  <2>2. /\ Types' /\ Ends(q, txn[q].caller, i) /\ txn[q].at = "settle"
        /\ Set2(list', list, q, i, "established") /\ UNCHANGED <<peer, queue>>
    BY <1>5, <2>1, SettleFacts
  <2>3. Carried(Level) /\ \A r \in Picos \ {q}, j \in Ids : list'[r][j] = list[r][j]
    BY <1>0, <2>2, CarrySame DEF Set2
  <2>4. QED BY <2>2, <2>3, WaitTxnEnds
<1>6. ASSUME NEW p \in Picos, NEW i \in Ids, RemoveOwn(p, i) PROVE WaitInv'
  <2> DEFINE t == Splicing(p, i)
  <2>1. /\ Types' /\ SetTxn(p, t) /\ txn[p].caller = NoPico /\ txn[p].at = "remove"
        /\ UNCHANGED <<buses, queue>>
    BY <1>6, RemoveOwnFacts
  <2>2. Carried(Level) /\ list' = list /\ peer' = peer
    BY <1>0, <2>1, CarrySame DEF buses
  <2>3. t.caller = NoPico
    BY <2>1, SpliceTxns
  <2> HIDE DEF t
  <2>4. QED BY <2>1, <2>2, <2>3, WaitSet
<1>7. ASSUME NEW q \in Picos, addInboundPendingFromSkyIntro(q) PROVE WaitInv'
  <2> DEFINE e == queue[q][1]
             i == e.id
             t == Txn("accept", {i}, "read", e.caller)
  <2>1. /\ Types' /\ i \in Ids /\ Shrinks(q) /\ txn[q] = Idle /\ e.kind = "sky_intro"
        /\ Ends(q, e.caller, i) \/ SetTxn(q, t)
        /\ Set2(list', list, q, i, "inbound") /\ peer' = peer
    BY <1>7, PendingFacts
  <2>2. /\ txn[q].at # "wait" /\ t.caller = e.caller /\ t.all = {i} /\ t.do = "accept"
        /\ \A r \in Picos \ {q}, j \in Ids : list'[r][j] = list[r][j]
    BY <2>1, IdleFacts DEF Txn, Set2
  <2>3. Ends(q, e.caller, i) => WaitInv'
    BY <2>1, <2>2, WaitEventEnds
  <2> HIDE DEF t
  <2>4. SetTxn(q, t) => WaitInv'
    BY <2>1, <2>2, WaitMoves
  <2>5. QED BY <2>1, <2>3, <2>4
<1>8. ASSUME NEW p \in Picos, addOutboundSubscriptionLayer2(p) PROVE WaitInv'
  <2> DEFINE i == queue[p][1].id
             t == Txn("confirm", {i}, "record", NoPico)
  <2>1. /\ Types' /\ txn[p] = Idle /\ peer' = peer /\ Shrinks(p)
        /\ SetTxn(p, Idle) \/ SetTxn(p, t)
        /\ \A c \in Picos \ {p}, j \in Ids : list'[c][j] = list[c][j]
    <3>1. /\ Types' /\ txn[p] = Idle /\ peer' = peer /\ Shrinks(p)
          /\ SetTxn(p, Idle) \/ SetTxn(p, t)
          /\ list' = list \/ Set2(list', list, p, i, "established")
      BY <1>8, ConfirmFacts
    <3>2. QED BY <3>1 DEF Set2
  <2>2. /\ Carried(Ahead(p)) /\ Idle.caller = NoPico /\ txn[p].at # "wait"
        /\ t.caller = NoPico
    BY <1>0, <2>1, CarryShrink, IdleFacts DEF Txn
  <2> HIDE DEF t
  <2>3. QED BY <2>1, <2>2, WaitSet
<1>9. ASSUME NEW q \in Picos, Removed(q) PROVE WaitInv'
  <2> DEFINE e == queue[q][1]
             i == e.id
             t == Txn("told", {i}, "splice", e.caller)
  <2>1. /\ Types' /\ Shrinks(q) /\ txn[q] = Idle /\ e.kind \in Removals
        /\ UNCHANGED <<home, buses>>
        /\ SetTxn(q, t) \/ Ends(q, e.caller, i)
    BY <1>9, RemovedFacts
  <2>2. txn[q].at # "wait" /\ list' = list /\ peer' = peer
    BY <2>1, IdleFacts DEF buses
  <2>3. t.caller = e.caller /\ t.all = {i} /\ t.do = "told"
    BY DEF Txn
  <2> HIDE DEF t
  <2>4. SetTxn(q, t) => WaitInv'
    BY <2>1, <2>2, <2>3, WaitMoves
  <2>5. Ends(q, e.caller, i) => WaitInv'
    BY <2>1, <2>2, WaitEventEnds
  <2>6. QED BY <2>1, <2>4, <2>5
<1>10. ASSUME NEW q \in Picos, NEW i \in Ids, Approve(q, i) PROVE WaitInv'
  <2> DEFINE t == Txn("approve", {i}, "read", NoPico)
  <2>1. Types' /\ SetTxn(q, t) /\ txn[q] = Idle /\ UNCHANGED <<buses, queue>>
    BY <1>10, ApproveFacts
  <2>2. /\ t.caller = NoPico /\ txn[q].at # "wait" /\ list' = list /\ peer' = peer
        /\ Carried(Level)
    BY <1>0, <2>1, IdleFacts, CarrySame DEF Txn, buses
  <2> HIDE DEF t
  <2>3. QED BY <2>1, <2>2, WaitSet
<1>11. ASSUME NEW p \in Picos, NEW I \in SUBSET Ids, Cancel(p, I) PROVE WaitInv'
  <2> DEFINE t == Txn("cancel", I, "send", NoPico)
  <2>1. Types' /\ SetTxn(p, t) /\ txn[p] = Idle /\ UNCHANGED <<buses, queue>>
    BY <1>11, CancelFacts
  <2>2. /\ t.caller = NoPico /\ txn[p].at # "wait" /\ list' = list /\ peer' = peer
        /\ Carried(Level)
    BY <1>0, <2>1, IdleFacts, CarrySame DEF Txn, buses
  <2> HIDE DEF t
  <2>3. QED BY <2>1, <2>2, WaitSet
<1>12. ASSUME NEW p \in Picos, NEW i \in Ids, crossPicoEvent(p, i) PROVE WaitInv'
  <2> DEFINE q == peer[p][i]
             e == Event(notice(p, i), i, p)
             t == [txn[p] EXCEPT !.at = "wait"]
             u == AfterNotice(txn[p], i)
  <2>1. /\ Types' /\ txn[p].at = "send" /\ txn[p].do = "cancel" /\ i \in txn[p].left
        /\ q \in Picos \ {p} /\ UNCHANGED buses
        /\ \/ Grows(q, e, 1) /\ SetTxn(p, t)
           \/ (SetTxn(p, u) \/ SetTxn(p, Idle)) /\ queue' = queue
    BY <1>12, CrossFacts
  <2>2. list' = list /\ peer' = peer
    BY <2>1 DEF buses
  <2>3. CASE Grows(q, e, 1) /\ SetTxn(p, t)
    <3>1. notice(p, i) = NoticeOf(list[p][i])
      BY DEF notice, NoticeOf
    <3>2. notice(p, i) \in Kinds
      BY <3>1 DEF NoticeOf, Kinds
    <3>3. /\ e \in Events /\ e.kind = NoticeOf(list[p][i]) /\ e.id = i /\ e.caller = p
      BY <3>1, <3>2, EventFacts
    <3>4. /\ t.do = txn[p].do /\ t.all = txn[p].all /\ t.left = txn[p].left
          /\ t.caller = txn[p].caller /\ t.at = "wait"
      BY <1>0, AtFacts DEF Ats
    <3>5. q \in Picos /\ peer'[p][i] = q
      BY <2>1, <2>2
    <3> HIDE DEF q, e, t
    <3>6. \A c \in Picos, j \in Ids : peer[c][j] \in Picos => peer'[c][j] = peer[c][j]
      BY <2>2
    <3>7. QED BY <2>1, <2>2, <2>3, <3>3, <3>4, <3>5, <3>6, WaitNew
  <2>4. CASE (SetTxn(p, u) \/ SetTxn(p, Idle)) /\ queue' = queue
    <3>1. /\ u.caller = txn[p].caller /\ u.all = txn[p].all /\ u.do = txn[p].do
          /\ Idle.caller = NoPico
      BY <1>0, NoticeFacts, IdleFacts
    <3>2. Carried(Level)
      BY <1>0, <2>4, CarrySame
    <3> HIDE DEF u
    <3>3. QED BY <2>1, <2>2, <2>4, <3>1, <3>2, WaitSet
  <2>5. QED BY <2>1, <2>3, <2>4
<1>13. ASSUME NEW p \in Picos, NEW i \in Ids, NEW lost \in BOOLEAN, Fail(p, i, lost)
       PROVE  WaitInv'
  <2> DEFINE u == AfterReply(txn[p], i)
  <2>1. /\ Types' /\ UNCHANGED buses
        /\ GivesUp(p, i) \/ StopsWaiting(p, i) \/ Aborts(p, i)
    BY <1>13, FailFacts
  <2>2. list' = list /\ peer' = peer
    BY <2>1 DEF buses
  <2>3. txn[p].do \in {"ask", "cancel"} => u.caller = NoPico
    BY <1>0, ReplyFacts, NoticeFacts, IdleFacts DEF Shape
  <2>4. CASE GivesUp(p, i)
    <3>1. txn[p].at # "wait" /\ SetTxn(p, u) /\ u.caller = NoPico /\ Carried(Level)
      BY <1>0, <2>3, <2>4, CarrySame DEF GivesUp
    <3> HIDE DEF u
    <3>2. QED BY <2>1, <2>2, <3>1, WaitSet
  <2>5. CASE StopsWaiting(p, i)
    <3>1. /\ Leaves(p, u) /\ u.caller = NoPico
          /\ \A r \in Picos : Forgets(r, queue'[r], {p})
      BY <2>3, <2>5 DEF StopsWaiting
    <3> HIDE DEF u
    <3>2. QED BY <2>1, <2>2, <3>1, WaitLeaves
  <2>6. CASE Aborts(p, i)
    <3>1. txn[p].at # "wait" /\ Ends(p, txn[p].caller, i) /\ Carried(Level)
      BY <1>0, <2>6, CarrySame, CarryForget DEF Aborts
    <3>2. QED BY <2>1, <2>2, <3>1, WaitTxnEnds
  <2>7. QED BY <2>1, <2>4, <2>5, <2>6
<1>14. ASSUME NEW m \in Meshes, Crash(m) PROVE WaitInv'
  BY <1>14, CrashFacts, WaitCrash DEF buses
<1>15. ASSUME NEW p \in Picos, NEW i \in Ids, establishSubscriptionIdentity(p, i)
       PROVE  WaitInv'
  <2> DEFINE t == [txn[p] EXCEPT !.at = "send"]
  <2>1. /\ Types' /\ txn[p].at = "record" /\ UNCHANGED <<buses, queue>>
        /\ SetTxn(p, t) \/ SetTxn(p, Idle)
    BY <1>15, EstablishFacts
  <2>2. Carried(Level) /\ list' = list /\ peer' = peer
    BY <1>0, <2>1, CarrySame DEF buses
  <2>3. /\ t.caller = txn[p].caller /\ t.all = txn[p].all /\ t.do = txn[p].do
        /\ Idle.caller = NoPico
    BY <1>0, AtFacts, IdleFacts DEF Ats
  <2> HIDE DEF t
  <2>4. QED BY <2>1, <2>2, <2>3, WaitSet
<1>16. ASSUME NEW p \in Picos, NEW i \in Ids, splice(p, i) PROVE WaitInv'
  <2> DEFINE t == Spliced(p, i)
  <2>1. /\ Types' /\ txn[p].at = "splice" /\ peer' = peer /\ queue' = queue
        /\ txn[p].do = "cancel" => txn[p].caller = NoPico
        /\ Ends(p, txn[p].caller, i) \/ (txn[p].do = "cancel" /\ SetTxn(p, t))
        /\ \A c \in Picos \ {p}, j \in Ids : list'[c][j] = list[c][j]
    BY <1>16, SpliceFacts DEF Set2
  <2>2. Carried(Level)
    BY <1>0, <2>1, CarrySame
  <2>3. Ends(p, txn[p].caller, i) => WaitInv'
    BY <2>1, <2>2, WaitTxnEnds
  <2>4. t.caller = txn[p].caller
    BY SpliceTxns
  <2> HIDE DEF t
  <2>5. txn[p].do = "cancel" /\ SetTxn(p, t) => WaitInv'
    BY <2>1, <2>2, <2>4, WaitSet
  <2>6. QED BY <2>1, <2>3, <2>5
<1>17. ASSUME NEW p \in Picos, NEW i \in Ids, Throw(p, i) PROVE WaitInv'
  <2>1. /\ Types' /\ Between(p, i) /\ UNCHANGED <<home, buses, record, queue, approver>>
        /\ \/ Ends(p, txn[p].caller, i)
           \/ Both(p, txn[p].caller) /\ txn[p].caller \in Picos
    BY <1>17, ThrowFacts
  <2>2. /\ Carried(Level) /\ list' = list /\ peer' = peer /\ queue' = queue
        /\ txn[p].at # "wait"
    BY <1>0, <2>1, CarrySame DEF buses, Between
  <2>3. Ends(p, txn[p].caller, i) => WaitInv'
    BY <2>1, <2>2, WaitTxnEnds
  <2>4. Both(p, txn[p].caller) /\ txn[p].caller \in Picos => WaitInv'
    BY <2>1, <2>2, WaitBoth
  <2>5. QED BY <2>1, <2>3, <2>4
<1>18. CASE UNCHANGED vars
  <2>1. UNCHANGED <<list, peer, txn, queue>>
    BY <1>18 DEF vars
  <2>2. QED BY <2>1 DEF WaitInv
<1>19. QED
  BY <1>1, <1>2, <1>3, <1>4, <1>5, <1>6, <1>7, <1>8, <1>9, <1>10, <1>11, <1>12, <1>13,
     <1>14, <1>15, <1>16, <1>17, <1>18 DEF Next, Continue, Serve

-----------------------------------------------------------------------------
(* Transactions, buses, events and approvals, whatever fails.               *)

Firm(i) == PairAt(i) /\ TxnAt(i) /\ CutAt(i) /\ ListAt(i) /\ EventAt(i)

\* Nothing about i has moved, but for transactions that have come to an end, or further.
SamePlace(i) ==
  /\ \A p \in Picos : list'[p][i] = list[p][i] /\ peer'[p][i] = peer[p][i]
  /\ approver'[i] = approver[i]
SameBus(i) == SamePlace(i) /\ \A p \in Picos : record'[p][i] = record[p][i]
EasedAt(p, i) ==
  /\ About(p, i)' => About(p, i)
  /\ Asking(p, i)' =>
       Asking(p, i) /\ (txn'[p].at \in {"record", "send"} => txn[p].at \in {"record", "send"})
  /\ Approving(p, i)' => Approving(p, i) /\ (txn'[p].at = "settle" => txn[p].at = "settle")
  /\ Ending(p, i)' => Ending(p, i)
  /\ txn'[p].do = "confirm" /\ About(p, i)' => txn[p].do = "confirm"
Eased(i) == \A p \in Picos : EasedAt(p, i)

\* Where a failure came between two writes is remembered.
CutGrows(i) ==
  /\ \A p \in Picos : /\ <<p, i>> \in cut => <<p, i>> \in cut'
                      /\ <<p, i>> \in cut' => <<p, i>> \in cut \/ i \in upset'
  /\ i \in upset => i \in upset'
Lasts(i) == CutGrows(i) /\ \A p \in Picos : Loose(p, i) => Loose(p, i)'

\* Every event about i was there before, d[r] places behind.
Kept(d, i) == \A r \in Picos : \A n \in 1 .. Len(queue'[r]) : queue'[r][n].id = i =>
  /\ n + d[r] \in 1 .. Len(queue[r]) /\ queue[r][n + d[r]].id = i
  /\ queue'[r][n].kind = queue[r][n + d[r]].kind

LEMMA KeptFacts ==
  ASSUME Types', NEW d \in [Picos -> {0, 1}], NEW i, Kept(d, i), NEW r \in Picos
  PROVE  /\ Mentioned(r, i)' => Mentioned(r, i)
         /\ \A kind : HasEvent(r, i, kind)' => HasEvent(r, i, kind)
         /\ OneIntro(r, i) => OneIntro(r, i)'
<1>1. Mentioned(r, i)' => Mentioned(r, i)
  BY DEF Kept, Mentioned
<1>2. \A kind : HasEvent(r, i, kind)' => HasEvent(r, i, kind)
  BY DEF Kept, HasEvent
<1>3. ASSUME OneIntro(r, i), NEW m \in 1 .. Len(queue'[r]), NEW n \in 1 .. Len(queue'[r]),
             queue'[r][m].id = i, queue'[r][m].kind = "sky_intro",
             queue'[r][n].id = i, queue'[r][n].kind = "sky_intro"
      PROVE  m = n
  <2> DEFINE k == m + d[r]
             l == n + d[r]
  <2>1. /\ k \in 1 .. Len(queue[r]) /\ queue[r][k].id = i /\ queue[r][k].kind = "sky_intro"
        /\ l \in 1 .. Len(queue[r]) /\ queue[r][l].id = i /\ queue[r][l].kind = "sky_intro"
    BY <1>3 DEF Kept
  <2> HIDE DEF k, l
  <2>2. k = l
    BY <1>3, <2>1 DEF OneIntro
  <2> USE DEF k, l
  <2>3. d[r] \in {0, 1} /\ m \in Int /\ n \in Int
    BY LengthsNext
  <2>4. QED BY <2>2, <2>3
<1>4. OneIntro(r, i) => OneIntro(r, i)'
  BY <1>3 DEF OneIntro
<1>5. QED BY <1>1, <1>2, <1>4

LEMMA KeptLevel ==
  /\ Level \in [Picos -> {0, 1}] /\ \A q : Ahead(q) \in [Picos -> {0, 1}]
  /\ Types /\ queue' = queue => \A i : Kept(Level, i)
BY Lengths DEF Level, Ahead, Kept

LEMMA KeptGrow ==
  ASSUME Types, Types', NEW q \in Picos, NEW e, NEW k \in Nat, Grows(q, e, k),
         NEW i, e.id # i
  PROVE  Kept(Level, i)
<1>1. \A r \in Picos : Len(queue[r]) \in Nat /\ Len(queue'[r]) \in Nat
  BY Lengths, LengthsNext
<1>2. QED BY <1>1 DEF Kept, Level, Grows

LEMMA KeptShrink ==
  ASSUME Types, NEW q \in Picos, Shrinks(q), NEW i
  PROVE  Kept(Ahead(q), i)
<1>1. \A r \in Picos : Len(queue[r]) \in Nat
  BY Lengths
<1>2. QED BY <1>1 DEF Kept, Ahead, Shrinks

LEMMA KeptForget ==
  ASSUME Types, NEW P, \A r \in Picos : Len(queue'[r]) = 0 \/ Forgets(r, queue'[r], P), NEW i
  PROVE  Kept(Level, i)
<1>1. \A r \in Picos : Len(queue[r]) \in Nat
  BY Lengths
<1>2. QED BY <1>1 DEF Kept, Level, Forgets

LEMMA PairSame ==
  ASSUME Types, NEW i \in Ids, PairAt(i), SamePlace(i),
         \A r \in Picos : peer[r][i] = NoPico =>
           record'[r][i] = record[r][i] /\ ~About(r, i)' /\ ~Mentioned(r, i)'
  PROVE  PairAt(i)'
<1>1. \A p \in Picos : peer[p][i] \in Picos \union {NoPico}
  BY DEF Types
<1>2. ASSUME NEW p \in Picos, peer'[p][i] # NoPico
      PROVE  LET q == peer'[p][i] IN
             /\ q # p /\ peer'[q][i] \in {p, NoPico}
             /\ \A r \in Picos \ {p, q} : peer'[r][i] = NoPico
             /\ list'[p][i] # "none" \/ list'[q][i] # "none"
  BY <1>1, <1>2 DEF PairAt, SamePlace
<1>3. ASSUME NEW p \in Picos, peer'[p][i] = NoPico
      PROVE  /\ list'[p][i] = "none" /\ record'[p][i] = "none"
             /\ ~About(p, i)' /\ approver'[i] # p
             /\ ~Mentioned(p, i)'
  BY <1>1, <1>3 DEF PairAt, SamePlace
<1>4. QED BY <1>2, <1>3 DEF PairAt

LEMMA ListSame ==
  ASSUME Types, NEW i \in Ids, PairAt(i), ListAt(i), SameBus(i), Lasts(i)
  PROVE  ListAt(i)'
<1>1. ASSUME NEW p \in Picos
      PROVE  LET q == peer'[p][i] IN
             /\ peer[p][i] \in Picos \union {NoPico} /\ q = peer[p][i]
             /\ peer[p][i] # NoPico => list'[q][i] = list[q][i]
             /\ peer[p][i] = NoPico => list[p][i] = "none" /\ approver[i] # p
             /\ list'[p][i] = list[p][i] /\ record'[p][i] = record[p][i]
             /\ Loose(p, i) => Loose(p, i)'
  BY DEF Types, PairAt, SameBus, SamePlace, Lasts
<1>2. approver'[i] = approver[i]
  BY DEF SameBus, SamePlace
<1>3. QED BY <1>1, <1>2 DEF ListAt

LEMMA CutSame ==
  ASSUME NEW i \in Ids, CutAt(i), CutGrows(i),
         \A p \in Picos : record'[p][i] = "anew" => record[p][i] = "anew" \/ <<p, i>> \in cut'
  PROVE  CutAt(i)'
BY DEF CutAt, CutGrows

LEMMA TxnSame ==
  ASSUME Types, NEW i \in Ids, PairAt(i), TxnAt(i), SamePlace(i), Eased(i), CutGrows(i)
  PROVE  TxnAt(i)'
<1>1. ASSUME NEW p \in Picos
      PROVE  LET q == peer'[p][i] IN
             /\ peer[p][i] \in Picos \union {NoPico} /\ q = peer[p][i]
             /\ peer[p][i] # NoPico => peer'[q][i] = peer[q][i]
             /\ peer[p][i] = NoPico => list[p][i] = "none"
             /\ list'[p][i] = list[p][i]
  BY DEF Types, PairAt, SamePlace
<1>2. approver'[i] = approver[i]
  BY DEF SamePlace
<1>3. ASSUME NEW p \in Picos
      PROVE  /\ Asking(p, i)' => list'[p][i] = "outbound"
             /\ Asking(p, i)' /\ txn'[p].at \in {"record", "send"}
                  => peer'[peer'[p][i]][i] = NoPico
             /\ Approving(p, i)' => list'[p][i] = "inbound"
             /\ Approving(p, i)' /\ txn'[p].at = "settle" => approver'[i] = p
             /\ Ending(p, i)' => i \in Held(p)'
             /\ txn'[p].do = "confirm" /\ i \in txn'[p].all =>
                  list'[p][i] = "established" /\ <<p, i>> \in cut'
  <2>1. Asking(p, i)' =>
          Asking(p, i) /\ (txn'[p].at \in {"record", "send"} => txn[p].at \in {"record", "send"})
    BY DEF Eased, EasedAt
  <2>2. Approving(p, i)' =>
          Approving(p, i) /\ (txn'[p].at = "settle" => txn[p].at = "settle")
    BY DEF Eased, EasedAt
  <2>3. Ending(p, i)' => Ending(p, i)
    BY DEF Eased, EasedAt
  <2>4. i \in Held(p) => i \in Held(p)'
    BY <1>1 DEF Held
  <2>5. txn'[p].do = "confirm" /\ i \in txn'[p].all =>
          txn[p].do = "confirm" /\ i \in txn[p].all
    BY DEF Eased, EasedAt, About
  <2>6. <<p, i>> \in cut => <<p, i>> \in cut'
    BY DEF CutGrows
  <2>7. QED BY <1>1, <1>2, <2>1, <2>2, <2>3, <2>4, <2>5, <2>6 DEF TxnAt
<1>4. QED BY <1>3 DEF TxnAt

LEMMA EventSame ==
  ASSUME Types, NEW i \in Ids, PairAt(i), EventAt(i), SameBus(i), Lasts(i),
         \A r \in Picos, kind \in {"sky_intro", "sky_intro_response"} :
           HasEvent(r, i, kind)' => HasEvent(r, i, kind) /\ peer[r][i] # NoPico,
         \A r \in Picos : OneIntro(r, i) => OneIntro(r, i)'
  PROVE  EventAt(i)'
<1>1. ASSUME NEW p \in Picos
      PROVE  LET q == peer'[p][i] IN
             /\ peer[p][i] \in Picos \union {NoPico} /\ q = peer[p][i]
             /\ peer[p][i] # NoPico => list'[q][i] = list[q][i]
             /\ list'[p][i] = list[p][i] /\ record'[p][i] = record[p][i]
             /\ Loose(p, i) => Loose(p, i)'
  BY DEF Types, PairAt, SameBus, SamePlace, Lasts
<1>2. approver'[i] = approver[i]
  BY DEF SameBus, SamePlace
<1>3. QED BY <1>1, <1>2 DEF EventAt

LEMMA FirmSame ==
  ASSUME Types, Types', NEW i \in Ids, Firm(i), SameBus(i), Eased(i), Lasts(i),
         NEW d \in [Picos -> {0, 1}], Kept(d, i)
  PROVE  Firm(i)'
<1>0. PairAt(i) /\ TxnAt(i) /\ CutAt(i) /\ ListAt(i) /\ EventAt(i)
  BY DEF Firm
<1>1. \A r \in Picos : /\ Mentioned(r, i)' => Mentioned(r, i)
                       /\ \A kind : HasEvent(r, i, kind)' => HasEvent(r, i, kind)
                       /\ OneIntro(r, i) => OneIntro(r, i)'
  BY KeptFacts
<1>2. PairAt(i)'
  <2>1. \A r \in Picos : About(r, i)' => About(r, i)
    BY DEF Eased, EasedAt
  <2>2. \A r \in Picos : peer[r][i] = NoPico =>
          record'[r][i] = record[r][i] /\ ~About(r, i)' /\ ~Mentioned(r, i)'
    BY <1>0, <1>1, <2>1 DEF SameBus, PairAt
  <2>3. QED BY <1>0, <2>2, PairSame DEF SameBus
<1>3. ListAt(i)'
  BY <1>0, ListSame
<1>4. TxnAt(i)' /\ CutAt(i)'
  BY <1>0, TxnSame, CutSame DEF SameBus, Lasts
<1>5. EventAt(i)'
  <2>1. ASSUME NEW r \in Picos, NEW kind, HasEvent(r, i, kind)' PROVE peer[r][i] # NoPico
    BY <1>0, <1>1, <2>1 DEF HasEvent, Mentioned, PairAt
  <2>2. QED BY <1>0, <1>1, <2>1, EventSame
<1>6. QED BY <1>2, <1>3, <1>4, <1>5 DEF Firm

\* A transaction that ends or goes on, but does not come to settle.
Eases(t, u) ==
  \/ u = Idle
  \/ /\ u.do = t.do /\ u.all \subseteq t.all
     /\ u.at = "settle" => t.at = "settle"
     /\ t.do = "ask" /\ u.at \in {"record", "send"} => t.at \in {"record", "send"}

LEMMA EasedBy ==
  ASSUME \A r \in Picos : Eases(txn[r], txn'[r]), NEW i
  PROVE  Eased(i)
BY IdleFacts DEF Eases, Eased, EasedAt, About, Asking, Approving, Ending

\* The transaction that p starts is about others.
LEMMA EasedOther ==
  ASSUME NEW p \in Picos, NEW t, SetTxn(p, t), NEW i, i \notin t.all
  PROVE  Eased(i)
BY DEF Eased, EasedAt, SetTxn, About, Asking, Approving, Ending

LEMMA EasesSet ==
  ASSUME NEW p \in Picos, NEW t, SetTxn(p, t), Eases(txn[p], t)
  PROVE  \A r \in Picos : Eases(txn[r], txn'[r])
BY DEF SetTxn, Eases

LEMMA EasesReply ==
  ASSUME NEW t \in Txns, t.do \in {"ask", "cancel"}, NEW j
  PROVE  Eases(t, AfterReply(t, j))
BY ReplyFacts, NoticeFacts DEF Eases

LEMMA EasesEnds ==
  ASSUME TypeInv, WaitInv, NEW q \in Picos, NEW c \in Picos \union {NoPico}, NEW j,
         Ends(q, c, j),
         txn[q].caller = c \/ \E n \in 1 .. Len(queue[q]) : queue[q][n].caller = c
  PROVE  \A r \in Picos : Eases(txn[r], txn'[r])
<1>1. \A r \in Picos : txn[r] \in Txns
  BY DEF TypeInv, Types
<1>2. c \in Picos => Eases(txn[c], AfterReply(txn[c], j))
  BY <1>1, WaitersDo, EasesReply
<1>3. QED BY <1>2 DEF Ends, Eases

\* Nothing comes to be between the two writes and is forgotten.
LEMMA LastsBy ==
  ASSUME NEW i, CutGrows(i),
         \A r \in Picos : txn[r].at \in {"record", "splice"} =>
           \/ i \notin txn[r].left \/ <<r, i>> \in cut'
           \/ txn'[r].at = txn[r].at /\ txn'[r].left = txn[r].left
  PROVE  Lasts(i)
BY DEF Lasts, CutGrows, Loose, Between

LEMMA CutStays ==
  ASSUME cut' = cut, upset \subseteq upset', NEW i
  PROVE  CutGrows(i)
BY DEF CutGrows

LEMMA LastsSet ==
  ASSUME NEW i, CutGrows(i), NEW p \in Picos, NEW t, SetTxn(p, t),
         txn[p].at \notin {"record", "splice"} \/ i \notin txn[p].left
  PROVE  Lasts(i)
BY LastsBy DEF SetTxn

LEMMA LastsEnds ==
  ASSUME WaitInv, NEW i, CutGrows(i), NEW q \in Picos, NEW c \in Picos \union {NoPico}, NEW j,
         Ends(q, c, j), txn[q].at \notin {"record", "splice"} \/ i \notin txn[q].left
                        \/ <<q, i>> \in cut',
         txn[q].caller = c \/ \E n \in 1 .. Len(queue[q]) : queue[q][n].caller = c
  PROVE  Lasts(i)
<1>1. c \in Picos => txn[c].at = "wait"
  BY WaitersDo
<1>2. QED BY <1>1, LastsBy DEF Ends

LEMMA EasesFail ==
  ASSUME TypeInv, PairInv, WaitInv, NEW p \in Picos, NEW j \in Ids,
         GivesUp(p, j) \/ StopsWaiting(p, j) \/ Aborts(p, j)
  PROVE  /\ \A r \in Picos : Eases(txn[r], txn'[r])
         /\ \A i : Kept(Level, i)
         /\ \A i : CutGrows(i) => Lasts(i)
<1>1. \A r \in Picos : txn[r] \in Txns /\ txn[r].caller \in Picos \union {NoPico}
  BY DEF TypeInv, Types, Txns
<1>2. \A r \in Picos : LET u == [txn[r] EXCEPT !.caller = NoPico] IN
        Eases(txn[r], u) /\ u.at = txn[r].at /\ u.left = txn[r].left
  BY <1>1, CallerFacts, SkyAssumption DEF SkyAssumption, Eases
<1>3. CASE GivesUp(p, j)
  BY <1>1, <1>3, EasesReply, EasesSet, KeptLevel, LastsSet DEF GivesUp, TypeInv
<1>4. CASE StopsWaiting(p, j)
  <2>1. Eases(txn[p], AfterReply(txn[p], j))
    BY <1>1, <1>4, EasesReply DEF StopsWaiting
  <2>2. \A r \in Picos : Eases(txn[r], txn'[r])
    BY <1>2, <1>4, <2>1 DEF StopsWaiting, Leaves, Eases
  <2>3. \A r \in Picos : txn[r].at \in {"record", "splice"} =>
          txn'[r].at = txn[r].at /\ txn'[r].left = txn[r].left
    BY <1>2, <1>4 DEF StopsWaiting, Leaves
  <2>4. \A i : CutGrows(i) => Lasts(i)
    BY <2>3, LastsBy
  <2>5. QED BY <1>4, <2>2, <2>4, KeptForget DEF StopsWaiting, TypeInv
<1>5. CASE Aborts(p, j)
  <2>1. \A r \in Picos : Eases(txn[r], txn'[r])
    BY <1>1, <1>5, EasesEnds DEF Aborts
  <2>2. \A i : CutGrows(i) => Lasts(i)
    BY <1>1, <1>5, LastsEnds DEF Aborts
  <2>3. QED BY <1>5, <2>1, <2>2, KeptLevel, KeptForget DEF Aborts, TypeInv
<1>6. QED BY <1>3, <1>4, <1>5

LEMMA EasesThrow ==
  ASSUME TypeInv, PairInv, WaitInv, NEW p \in Picos, NEW j \in Ids, Throw(p, j), NEW i
  PROVE  (\A r \in Picos : Eases(txn[r], txn'[r])) /\ Lasts(i) /\ Kept(Level, i)
<1> DEFINE c == txn[p].caller
<1>0. /\ txn[p].left = {j} /\ j \in upset' /\ upset \subseteq upset'
      /\ cut' = cut \union {<<p, j>>} /\ queue' = queue
      /\ Ends(p, c, j) \/ (Both(p, c) /\ c \in Picos)
  BY ThrowFacts
<1>1. c \in Picos \union {NoPico} /\ \A r \in Picos : txn[r] \in Txns
  BY DEF TypeInv, Types, Txns
<1>2. CutGrows(i)
  BY <1>0 DEF CutGrows
<1>3. txn[p].at \notin {"record", "splice"} \/ i \notin txn[p].left \/ <<p, i>> \in cut'
  BY <1>0
<1>4. Ends(p, c, j) => (\A r \in Picos : Eases(txn[r], txn'[r])) /\ Lasts(i)
  BY <1>1, <1>2, <1>3, EasesEnds, LastsEnds
<1>5. ASSUME Both(p, c), c \in Picos
      PROVE  (\A r \in Picos : Eases(txn[r], txn'[r])) /\ Lasts(i)
  <2>1. txn[c].at = "wait"
    BY <1>5, WaitersDo
  <2>2. \A r \in Picos : Eases(txn[r], txn'[r])
    BY <1>5 DEF Both, Eases
  <2>3. QED BY <1>2, <1>3, <1>5, <2>1, <2>2, LastsBy DEF Both
<1>6. Kept(Level, i)
  BY <1>0, KeptLevel DEF TypeInv
<1>7. QED BY <1>0, <1>4, <1>5, <1>6

LEMMA EasesCrash ==
  ASSUME TypeInv, WaitInv, NEW P \in SUBSET Picos, CrashOf(P)
  PROVE  /\ \A r \in Picos : Eases(txn[r], txn'[r])
         /\ \A i : Kept(Level, i)
         /\ \A i \in Ids : Lasts(i)
<1>0. /\ \A r \in Picos : txn[r] \in Txns /\ txn[r].caller \in Picos \union {NoPico}
      /\ \A r \in Picos : DOMAIN queue[r] = 1 .. Len(queue[r])
  BY DEF TypeInv, Types, Txns
<1>1. ASSUME NEW r \in Picos
      PROVE  /\ Eases(txn[r], txn'[r])
             /\ r \notin P /\ txn[r].at \in {"record", "splice"} =>
                  txn'[r].at = txn[r].at /\ txn'[r].left = txn[r].left
  <2>1. CASE r \in P
    BY <2>1 DEF CrashOf, Eases
  <2>2. ASSUME r \notin P, NEW j \in Ids, WaitsIn(r, j, P), txn'[r] = AfterReply(txn[r], j)
        PROVE  Eases(txn[r], txn'[r]) /\ txn[r].at = "wait"
    <3>1. txn[r].do \in {"ask", "cancel"} /\ txn[r].at = "wait"
      BY <1>0, <2>2, WaitersDo DEF WaitsIn
    <3>2. QED BY <1>0, <2>2, <3>1, EasesReply
  <2>3. CASE r \notin P /\ txn'[r] = IF txn[r].caller \in P
                                     THEN [txn[r] EXCEPT !.caller = NoPico] ELSE txn[r]
    BY <1>0, <2>3, CallerFacts DEF Eases
  <2>4. QED BY <2>1, <2>2, <2>3 DEF CrashOf
<1>2. \A i : Kept(Level, i)
  BY KeptForget DEF TypeInv, CrashOf
<1>3. ASSUME NEW i \in Ids PROVE Lasts(i)
  <2>1. CutGrows(i)
    BY DEF CrashOf, CutGrows
  <2>2. \A r \in P : Between(r, i) => <<r, i>> \in cut'
    BY DEF CrashOf
  <2>3. \A r \in P : txn[r].at \in {"record", "splice"} =>
          i \notin txn[r].left \/ <<r, i>> \in cut'
    BY <2>2 DEF Between
  <2>4. QED BY <1>1, <2>1, <2>3, LastsBy
<1>4. QED BY <1>1, <1>2, <1>3

\* r has nothing about i.
Blank(r, i) ==
  /\ list[r][i] = "none" /\ record[r][i] = "none"
  /\ ~About(r, i) /\ approver[i] # r /\ ~Mentioned(r, i)

LEMMA PairOf ==
  ASSUME Types, NEW i \in Ids, PairAt(i), NEW p \in Picos, NEW q \in Picos, peer[p][i] = q
  PROVE  /\ p # q /\ peer[q][i] \in {p, NoPico}
         /\ \A r \in Picos \ {p, q} : peer[r][i] = NoPico /\ Blank(r, i)
         /\ peer[q][i] = NoPico => Blank(q, i)
         /\ list[q][i] # "none" \/ Mentioned(q, i) \/ About(q, i) => peer[q][i] = p
         /\ approver[i] \in {p, q, NoPico}
<1>1. p # NoPico /\ q # NoPico
  BY SkyAssumption DEF SkyAssumption
<1>2. approver[i] \in Picos \union {NoPico}
  BY DEF Types
<1>3. /\ p # q /\ peer[q][i] \in {p, NoPico}
      /\ \A r \in Picos \ {p, q} : peer[r][i] = NoPico
  BY <1>1 DEF PairAt
<1>4. \A r \in Picos : peer[r][i] = NoPico => Blank(r, i)
  BY DEF PairAt, Blank
<1>5. QED BY <1>1, <1>2, <1>3, <1>4 DEF Blank

LEMMA HasFacts ==
  ASSUME NEW r \in Picos, NEW i, ~Mentioned(r, i)
  PROVE  OneIntro(r, i) /\ \A kind : ~HasEvent(r, i, kind)
BY DEF Mentioned, OneIntro, HasEvent

\* An introduction is asked for.
LEMMA FirmAsk ==
  ASSUME TypeInv, NEW p \in Picos, NEW q \in Picos, NEW i \in Ids, Firm(i), Ask(p, q, i)
  PROVE  Firm(i)'
<1> DEFINE t == Txn("ask", {i}, "record", NoPico)
<1>1. /\ p # q /\ txn[p] = Idle /\ \A r \in Picos : list[r][i] = "none"
      /\ Types' /\ Set2(list', list, p, i, "outbound")
      /\ Set2(peer', peer, p, i, q)
      /\ SetTxn(p, t) /\ queue' = queue /\ approver' = approver /\ record' = record
      /\ cut' = cut /\ upset' = upset
  BY AskFacts DEF history
<1>2. t.do = "ask" /\ t.all = {i} /\ t.left = {i} /\ t.at = "record"
  BY DEF Txn
<1> HIDE DEF t
<1>3. p # NoPico /\ q # NoPico
  BY SkyAssumption DEF SkyAssumption
<1>4. \A r \in Picos : peer[r][i] = NoPico
  BY <1>1, <1>3 DEF Firm, PairAt, TypeInv, Types
<1>5. \A r \in Picos : Blank(r, i)
  BY <1>4 DEF Firm, PairAt, Blank
<1>6. approver'[i] = NoPico
  BY <1>1, <1>5 DEF Blank, TypeInv, Types
<1>7. \A r \in Picos : ~Mentioned(r, i)'
  BY <1>1, <1>5 DEF Blank, Mentioned
<1>8. \A r \in Picos : OneIntro(r, i)' /\ \A kind : ~HasEvent(r, i, kind)'
  BY <1>7 DEF Mentioned, OneIntro, HasEvent
<1>9. \A r \in Picos \ {p} : /\ list'[r][i] = "none" /\ record'[r][i] = "none"
                             /\ peer'[r][i] = NoPico /\ ~About(r, i)'
  BY <1>1, <1>4, <1>5 DEF Blank, Set2, SetTxn, About
<1>10. list'[p][i] = "outbound" /\ peer'[p][i] = q /\ record'[p][i] = "none"
       /\ txn'[p].do = "ask" /\ Between(p, i)'
  BY <1>1, <1>2, <1>5 DEF Set2, SetTxn, Between, Blank
<1>11. PairAt(i)'
  <2>1. \A r \in Picos : approver'[i] # r
    BY <1>6, SkyAssumption DEF SkyAssumption
  <2>2. About(p, i)' => peer'[p][i] # NoPico
    BY <1>3, <1>10
  <2>3. QED BY <1>1, <1>3, <1>7, <1>9, <1>10, <2>1, <2>2 DEF PairAt
<1>12. TxnAt(i)'
  BY <1>1, <1>9, <1>10 DEF TxnAt, Asking, Approving, Ending, About
<1>13. ListAt(i)'
  BY <1>1, <1>3, <1>6, <1>9, <1>10, SkyAssumption DEF SkyAssumption, ListAt, Loose
<1>14. EventAt(i)'
  BY <1>8 DEF EventAt
<1>15. CutAt(i)'
  BY <1>1, <1>5 DEF CutAt, Blank, Firm
<1>16. QED BY <1>11, <1>12, <1>13, <1>14, <1>15 DEF Firm

\* The introduction reaches the other pico.
LEMMA FirmIntroduce ==
  ASSUME TypeInv, PairInv, NEW p \in Picos, NEW i \in Ids, Firm(i),
         NEW q \in Picos, peer[p][i] = q,
         Asking(p, i), txn[p].at = "send", Types', list' = list, approver' = approver,
         cut' = cut, upset' = upset,
         Set2(record', record, q, i, "linked"), Set2(peer', peer, q, i, p),
         Grows(q, Event("sky_intro", i, p), 1), SetTxn(p, [txn[p] EXCEPT !.at = "wait"])
  PROVE  Firm(i)'
<1> DEFINE t == [txn[p] EXCEPT !.at = "wait"]
           e == Event("sky_intro", i, p)
<1>1. t.do = "ask" /\ t.all = txn[p].all /\ t.at = "wait"
  BY AtFacts DEF Asking, Ats, TypeInv, Types
<1>2. e.kind = "sky_intro" /\ e.id = i
  BY DEF Event
<1> HIDE DEF t, e
<1>3. SetTxn(p, t) /\ Grows(q, e, 1)
  BY DEF t, e
<1>4. p # NoPico /\ q # NoPico
  BY SkyAssumption DEF SkyAssumption
<1>5. p # q /\ peer[q][i] = NoPico /\ list[p][i] = "outbound" /\ approver[i] # p
  BY PairOf DEF Firm, TxnAt, ListAt, TypeInv
<1>6. /\ \A r \in Picos \ {p, q} : peer[r][i] = NoPico /\ Blank(r, i)
      /\ Blank(q, i) /\ approver[i] \in {p, q, NoPico}
      /\ record[p][i] # "none" \/ <<p, i>> \in cut
  BY <1>5, PairOf DEF Firm, ListAt, TypeInv, Loose, Between
<1>7. approver'[i] = NoPico
  BY <1>5, <1>6 DEF Blank
<1>8. \A r \in Picos : Len(queue[r]) \in Nat /\ Len(queue'[r]) \in Nat
  BY Lengths, LengthsNext DEF TypeInv
<1>9. \A r \in Picos \ {p, q} :
        ~Mentioned(r, i)' /\ OneIntro(r, i)' /\ \A kind : ~HasEvent(r, i, kind)'
  BY <1>3, <1>6 DEF Grows, Blank, Mentioned, HasEvent, OneIntro
<1>10. \A kind : ~HasEvent(p, i, "sky_intro")' /\ ~HasEvent(p, i, "sky_intro_response")'
       /\ OneIntro(p, i)'
  <2>1. ~HasEvent(p, i, "sky_intro") /\ ~HasEvent(p, i, "sky_intro_response") /\ OneIntro(p, i)
    BY <1>4, <1>5, <1>6, <1>7 DEF Firm, EventAt
  <2>2. queue'[p] = queue[p]
    BY <1>3, <1>5 DEF Grows
  <2>3. QED BY <2>1, <2>2 DEF HasEvent, OneIntro
<1>11. ~HasEvent(q, i, "sky_intro_response")' /\ OneIntro(q, i)'
  <2>1. \A n \in 1 .. Len(queue'[q]) : queue'[q][n].id = i =>
          n = Len(queue[q]) + 1 /\ queue'[q][n].kind = "sky_intro"
    BY <1>2, <1>3, <1>6, <1>8 DEF Grows, Blank, Mentioned
  <2>2. QED BY <2>1 DEF HasEvent, OneIntro
<1>12. \A r \in Picos \ {p, q} : /\ list'[r][i] = "none" /\ record'[r][i] = "none"
                                /\ peer'[r][i] = NoPico /\ ~About(r, i)'
  BY <1>3, <1>5, <1>6 DEF Blank, Set2, SetTxn, About
<1>13. /\ list'[p][i] = "outbound" /\ peer'[p][i] = q
       /\ record'[p][i] # "none" \/ Loose(p, i)'
       /\ txn'[p].do = "ask" /\ txn'[p].at = "wait"
       /\ list'[q][i] = "none" /\ peer'[q][i] = p /\ record'[q][i] = "linked"
       /\ ~About(q, i)'
  BY <1>1, <1>3, <1>5, <1>6 DEF Set2, SetTxn, Blank, About, Loose
<1>14. PairAt(i)'
  <2>1. ASSUME NEW r \in Picos, peer'[r][i] # NoPico
        PROVE  LET s == peer'[r][i] IN
               /\ s # r /\ peer'[s][i] \in {r, NoPico}
               /\ \A u \in Picos \ {r, s} : peer'[u][i] = NoPico
               /\ list'[r][i] # "none" \/ list'[s][i] # "none"
    BY <1>5, <1>12, <1>13, <2>1
  <2>2. ASSUME NEW r \in Picos, peer'[r][i] = NoPico
        PROVE  /\ list'[r][i] = "none" /\ record'[r][i] = "none"
               /\ ~About(r, i)' /\ approver'[i] # r /\ ~Mentioned(r, i)'
    BY <1>4, <1>7, <1>9, <1>12, <1>13, <2>2, SkyAssumption DEF SkyAssumption
  <2>3. QED BY <2>1, <2>2 DEF PairAt
<1>15. TxnAt(i)'
  BY <1>5, <1>12, <1>13 DEF TxnAt, Asking, Approving, Ending, About
<1>16. ListAt(i)'
  BY <1>4, <1>7, <1>12, <1>13, SkyAssumption DEF SkyAssumption, ListAt
<1>17. EventAt(i)'
  BY <1>7, <1>9, <1>10, <1>11, <1>13 DEF EventAt
<1>18. CutAt(i)'
  BY <1>5, <1>6 DEF CutAt, Set2, Firm
<1>19. QED BY <1>14, <1>15, <1>16, <1>17, <1>18 DEF Firm

\* p's bus becomes established, or goes, and with it what p was at.
LEMMA FirmMoves ==
  ASSUME Types, Types', NEW i \in Ids, Firm(i), NEW p \in Picos,
         list[p][i] \in {"outbound", "inbound", "established"},
         \A r \in Picos \ {p} : list'[r][i] = list[r][i],
         \A r \in Picos : peer'[r][i] = peer[r][i] /\ record'[r][i] = record[r][i],
         approver'[i] = approver[i],
         \/ list'[p][i] = "ended"
         \/ /\ list'[p][i] = "established"
            /\ approver[i] # NoPico
            /\ record[p][i] = "linked" \/ <<p, i>> \in cut,
         ~Asking(p, i)', ~Approving(p, i)', ~Ending(p, i)',
         txn'[p].do = "confirm" =>
           /\ list'[p][i] = "established" /\ record[p][i] = "none"
           /\ <<p, i>> \in cut,
         CutGrows(i),
         \A r \in Picos \ {p} : EasedAt(r, i) /\ (Loose(r, i) => Loose(r, i)'),
         NEW d \in [Picos -> {0, 1}], Kept(d, i)
  PROVE  Firm(i)'
<1> DEFINE v == list'[p][i]
<1>0. PairAt(i) /\ TxnAt(i) /\ CutAt(i) /\ ListAt(i) /\ EventAt(i)
  BY DEF Firm
<1>1. PICK q \in Picos : peer[p][i] = q
  BY <1>0 DEF Types, PairAt
<1>2. p # NoPico /\ q # NoPico
  BY SkyAssumption DEF SkyAssumption
<1>3. /\ p # q /\ peer[q][i] \in {p, NoPico}
      /\ \A r \in Picos \ {p, q} : peer[r][i] = NoPico /\ Blank(r, i)
      /\ peer[q][i] = NoPico => Blank(q, i)
  BY <1>0, <1>1, PairOf
<1>4. \A r \in Picos : /\ Mentioned(r, i)' => Mentioned(r, i)
                       /\ \A kind : HasEvent(r, i, kind)' => HasEvent(r, i, kind)
                       /\ OneIntro(r, i) => OneIntro(r, i)'
  BY KeptFacts
<1>5. \A r \in Picos \ {p, q} : list'[r][i] = "none" /\ record'[r][i] = "none"
                                /\ ~About(r, i)' /\ ~Mentioned(r, i)'
  BY <1>3, <1>4 DEF Blank, EasedAt
<1>6. PairAt(i)'
  <2>1. ASSUME NEW r \in Picos, peer'[r][i] # NoPico
        PROVE  LET s == peer'[r][i] IN
               /\ s # r /\ peer'[s][i] \in {r, NoPico}
               /\ \A u \in Picos \ {r, s} : peer'[u][i] = NoPico
               /\ list'[r][i] # "none" \/ list'[s][i] # "none"
    BY <1>1, <1>3, <2>1
  <2>2. ASSUME NEW r \in Picos, peer'[r][i] = NoPico
        PROVE  /\ list'[r][i] = "none" /\ record'[r][i] = "none"
               /\ ~About(r, i)' /\ approver'[i] # r /\ ~Mentioned(r, i)'
    BY <1>1, <1>2, <1>3, <1>4, <2>2 DEF Blank, EasedAt
  <2>3. QED BY <2>1, <2>2 DEF PairAt
<1>7. TxnAt(i)'
  <2>1. ASSUME NEW r \in Picos \ {p}
        PROVE  /\ Asking(r, i)' => list'[r][i] = "outbound"
               /\ Asking(r, i)' /\ txn'[r].at \in {"record", "send"}
                    => peer'[peer'[r][i]][i] = NoPico
               /\ Approving(r, i)' => list'[r][i] = "inbound"
               /\ Approving(r, i)' /\ txn'[r].at = "settle" => approver'[i] = r
               /\ Ending(r, i)' => i \in Held(r)'
               /\ txn'[r].do = "confirm" /\ i \in txn'[r].all =>
                    list'[r][i] = "established" /\ <<r, i>> \in cut'
    <3>1. CASE r # q
      BY <1>5, <2>1, <3>1 DEF About, Asking, Approving, Ending
    <3>2. CASE r = q
      <4>1. peer[q][i] = NoPico => ~About(q, i)'
        BY <1>3 DEF Blank, EasedAt
      <4>2. /\ Asking(q, i)' => /\ Asking(q, i)
                                /\ txn'[q].at \in {"record", "send"}
                                     => txn[q].at \in {"record", "send"}
            /\ Approving(q, i)' =>
                 Approving(q, i) /\ (txn'[q].at = "settle" => txn[q].at = "settle")
            /\ Ending(q, i)' => Ending(q, i)
            /\ txn'[q].do = "confirm" /\ i \in txn'[q].all =>
                 txn[q].do = "confirm" /\ i \in txn[q].all
        BY <1>3 DEF EasedAt, About
      <4>3. i \in Held(q) => i \in Held(q)'
        BY <1>3 DEF Held
      <4>4. Asking(q, i)' => peer[q][i] = p
        BY <1>3, <4>1 DEF About, Asking
      <4>5. <<q, i>> \in cut => <<q, i>> \in cut'
        BY DEF CutGrows
      <4>6. QED BY <1>0, <1>1, <1>3, <3>2, <4>2, <4>3, <4>4, <4>5 DEF TxnAt
    <3>3. QED BY <3>1, <3>2
  <2>2. <<p, i>> \in cut => <<p, i>> \in cut'
    BY DEF CutGrows
  <2>3. QED BY <2>1, <2>2 DEF TxnAt
<1>8. ListAt(i)'
  <2>1. ASSUME NEW r \in Picos \ {p, q}
        PROVE  list'[r][i] = "none" /\ approver'[i] # r
    BY <1>3 DEF Blank
  <2>2. peer[q][i] = NoPico => list'[q][i] = "none" /\ approver'[i] # q
    BY <1>3 DEF Blank
  <2>3. approver'[i] = p => list'[q][i] \in {"outbound", "established", "ended"}
    BY <1>0, <1>1, <1>3 DEF ListAt
  <2>4. /\ list'[p][i] = v /\ peer'[p][i] = q /\ list'[q][i] = list[q][i]
        /\ record'[q][i] = record[q][i]
    BY <1>1, <1>3
  <2>5. /\ list[q][i] = "inbound" => record[q][i] = "linked" \/ Loose(q, i)'
        /\ list[q][i] = "outbound" =>
             approver[i] # q /\ (record[q][i] # "none" \/ Loose(q, i)')
        /\ list[q][i] = "established" =>
             approver[i] # NoPico /\ (record[q][i] = "linked" \/ Loose(q, i)')
        /\ approver[i] = q => list[q][i] \in {"inbound", "established", "ended"}
    BY <1>0, <1>3 DEF ListAt
  <2>6. peer[q][i] # NoPico => peer'[q][i] = p
    BY <1>3
  <2>7. <<p, i>> \in cut => Loose(p, i)'
    BY DEF CutGrows, Loose
  <2>8. QED BY <2>1, <2>2, <2>3, <2>4, <2>5, <2>6, <2>7 DEF ListAt
<1>9. EventAt(i)'
  <2>1. ASSUME NEW r \in Picos, NEW kind, HasEvent(r, i, kind)'
        PROVE  HasEvent(r, i, kind) /\ (r = p \/ (r = q /\ peer[q][i] = p))
    <3>1. HasEvent(r, i, kind) /\ Mentioned(r, i)
      BY <1>4, <2>1 DEF HasEvent, Mentioned
    <3>2. QED BY <1>3, <3>1 DEF Blank
  <2>2. ~HasEvent(p, i, "sky_intro")'
    BY <1>0, <2>1 DEF EventAt
  <2>3. HasEvent(q, i, "sky_intro")' =>
          /\ list'[q][i] = "none" /\ v \in {"outbound", "ended"}
          /\ record'[q][i] = "linked" /\ approver'[i] = NoPico
    BY <1>0, <1>3, <2>1 DEF EventAt
  <2>4. HasEvent(p, i, "sky_intro_response")' => approver'[i] = q
    BY <1>0, <1>1, <2>1 DEF EventAt
  <2>5. HasEvent(q, i, "sky_intro_response")' =>
          /\ approver'[i] = p
          /\ list'[q][i] = "outbound" => record'[q][i] = "linked" \/ Loose(q, i)'
    <3>1. /\ Loose(q, i) => Loose(q, i)'
          /\ list'[q][i] = list[q][i] /\ record'[q][i] = record[q][i]
      BY <1>3
    <3>2. HasEvent(q, i, "sky_intro_response")' =>
            HasEvent(q, i, "sky_intro_response") /\ peer[q][i] = p
      BY <1>3, <2>1
    <3>3. QED BY <1>0, <3>1, <3>2 DEF EventAt
  <2>6. \A r \in Picos : OneIntro(r, i)'
    BY <1>0, <1>4 DEF EventAt
  <2>7. QED BY <1>1, <1>3, <2>1, <2>2, <2>3, <2>4, <2>5, <2>6 DEF EventAt
<1>10. CutAt(i)'
  BY <1>0, CutSame
<1>11. QED BY <1>6, <1>7, <1>8, <1>9, <1>10 DEF Firm

\* The asking pico's record is linked and its response queued.
LEMMA FirmLinkWrite ==
  ASSUME TypeInv, Types', NEW q \in Picos, NEW i \in Ids, Firm(i), Approving(q, i),
         txn[q].at = "write", cut' = cut, upset' = upset,
         NEW p \in Picos, peer[q][i] = p, list' = list, peer' = peer,
         NEW v \in {"linked", "anew"}, Set2(record', record, p, i, v),
         v = "anew" => record[p][i] = "anew",
         NEW k \in Nat, Grows(p, Response(i), k), approver'[i] = q,
         SetTxn(q, [txn[q] EXCEPT !.at = "settle"])
  PROVE  Firm(i)'
<1> DEFINE t == [txn[q] EXCEPT !.at = "settle"]
           e == Response(i)
<1>0. PairAt(i) /\ TxnAt(i) /\ CutAt(i) /\ ListAt(i) /\ EventAt(i)
  BY DEF Firm
<1>1. t.do = txn[q].do /\ t.all = txn[q].all /\ t.at = "settle"
  BY AtFacts DEF Ats, TypeInv, Types
<1>2. e.kind = "sky_intro_response" /\ e.id = i
  BY DEF Response, Event
<1> HIDE DEF t, e
<1>3. SetTxn(q, t) /\ Grows(p, e, k)
  BY DEF t, e
<1>4. p # NoPico /\ q # NoPico
  BY SkyAssumption DEF SkyAssumption
<1>5. /\ list[q][i] = "inbound"
      /\ record[q][i] = "linked" \/ <<q, i>> \in cut
      /\ list[p][i] \in {"outbound", "established", "ended"}
      /\ v = "anew" => <<p, i>> \in cut
  BY <1>0 DEF TxnAt, CutAt, ListAt, Loose, Between
<1>6. /\ p # q /\ peer[p][i] = q
      /\ \A r \in Picos \ {p, q} : peer[r][i] = NoPico /\ Blank(r, i)
      /\ approver[i] \in {q, NoPico}
  <2>1. /\ q # p /\ peer[p][i] = q
        /\ \A r \in Picos \ {q, p} : peer[r][i] = NoPico /\ Blank(r, i)
        /\ approver[i] \in {q, p, NoPico}
    BY <1>0, <1>5, PairOf DEF TypeInv
  <2>2. approver[i] # p
    BY <1>0, <1>5, <2>1 DEF ListAt
  <2>3. QED BY <2>1, <2>2
<1>7. \A r \in Picos : Len(queue[r]) \in Nat /\ Len(queue'[r]) \in Nat
  BY Lengths, LengthsNext DEF TypeInv
<1>8. ASSUME NEW r \in Picos, NEW n \in 1 .. Len(queue'[r]), queue'[r][n].id = i
      PROVE  \/ n \in 1 .. Len(queue[r]) /\ queue'[r][n] = queue[r][n]
             \/ r = p /\ queue'[r][n].kind = "sky_intro_response"
  BY <1>2, <1>3, <1>7 DEF Grows
<1>9. ASSUME NEW r \in Picos
      PROVE  /\ Mentioned(r, i)' => Mentioned(r, i) \/ r = p
             /\ HasEvent(r, i, "sky_intro")' => HasEvent(r, i, "sky_intro")
             /\ HasEvent(r, i, "sky_intro_response")' =>
                  HasEvent(r, i, "sky_intro_response") \/ r = p
             /\ OneIntro(r, i) => OneIntro(r, i)'
  <2>1. Mentioned(r, i)' => Mentioned(r, i) \/ r = p
    BY <1>8 DEF Mentioned
  <2>2. /\ HasEvent(r, i, "sky_intro")' => HasEvent(r, i, "sky_intro")
        /\ HasEvent(r, i, "sky_intro_response")' =>
             HasEvent(r, i, "sky_intro_response") \/ r = p
    BY <1>8 DEF HasEvent
  <2>3. OneIntro(r, i) => OneIntro(r, i)'
    BY <1>8 DEF OneIntro
  <2>4. QED BY <2>1, <2>2, <2>3
<1>10. \A r \in Picos : /\ record'[r][i] = IF r = p THEN v ELSE record[r][i]
                        /\ About(r, i)' => About(r, i)
  BY <1>1, <1>3 DEF Set2, SetTxn, About
<1>11. PairAt(i)'
  <2>1. ASSUME NEW r \in Picos, peer'[r][i] # NoPico
        PROVE  LET s == peer'[r][i] IN
               /\ s # r /\ peer'[s][i] \in {r, NoPico}
               /\ \A u \in Picos \ {r, s} : peer'[u][i] = NoPico
               /\ list'[r][i] # "none" \/ list'[s][i] # "none"
    BY <1>0, <2>1 DEF PairAt
  <2>2. ASSUME NEW r \in Picos, peer'[r][i] = NoPico
        PROVE  /\ list'[r][i] = "none" /\ record'[r][i] = "none"
               /\ ~About(r, i)' /\ approver'[i] # r /\ ~Mentioned(r, i)'
    BY <1>4, <1>6, <1>9, <1>10, <2>2 DEF Blank
  <2>3. QED BY <2>1, <2>2 DEF PairAt
<1>12. TxnAt(i)'
  <2>1. ASSUME NEW r \in Picos, r # q
        PROVE  txn'[r] = txn[r] /\ ~Approving(r, i)
    <3>1. ~Approving(r, i)
      BY <1>0, <1>5, <1>6, <2>1 DEF TxnAt, Approving, About, Blank
    <3>2. QED BY <1>3, <2>1, <3>1 DEF SetTxn
  <2>2. txn'[q].do \in {"accept", "approve"} /\ list'[q][i] = "inbound"
    BY <1>1, <1>3, <1>5 DEF SetTxn, Approving
  <2>3. \A r \in Picos : i \in Held(r) => i \in Held(r)'
    BY DEF Held
  <2>4. ~Asking(q, i)' /\ ~Ending(q, i)'
    BY <2>2 DEF Asking, Ending
  <2>5. QED BY <1>0, <2>1, <2>2, <2>3, <2>4 DEF TxnAt, Asking, Approving, Ending
<1>13. ListAt(i)'
  <2>1. \A r \in Picos \ {p, q} : list[r][i] = "none"
    BY <1>6 DEF Blank
  <2>2. /\ \A r \in Picos : <<r, i>> \in cut => Loose(r, i)'
        /\ Loose(p, i) => Loose(p, i)'
    BY <1>3, <1>6 DEF Loose, Between, SetTxn
  <2>3. QED BY <1>0, <1>4, <1>5, <1>6, <1>10, <2>1, <2>2 DEF ListAt
<1>14. EventAt(i)'
  <2>1. ASSUME NEW r \in Picos PROVE ~HasEvent(r, i, "sky_intro")
    BY <1>0, <1>5, <1>6 DEF EventAt, Blank, Mentioned, HasEvent
  <2>2. ASSUME NEW r \in Picos, HasEvent(r, i, "sky_intro_response") PROVE r = p
    <3>1. approver[i] = peer[r][i]
      BY <1>0, <2>2 DEF EventAt
    <3>2. r \in {p, q}
      BY <1>6, <2>2 DEF Blank, Mentioned, HasEvent
    <3>3. QED BY <1>4, <1>6, <3>1, <3>2
  <2>3. (record'[p][i] = "linked" \/ Loose(p, i)') /\ peer'[p][i] = q
    BY <1>5, <1>6, <1>10 DEF Loose
  <2>4. \A r \in Picos : OneIntro(r, i)' /\ ~HasEvent(r, i, "sky_intro")'
                         /\ (HasEvent(r, i, "sky_intro_response")' => r = p)
    BY <1>0, <1>9, <2>1, <2>2 DEF EventAt
  <2>5. QED BY <2>3, <2>4 DEF EventAt
<1>15. CutAt(i)'
  BY <1>0, <1>5, <1>10 DEF CutAt
<1>16. QED BY <1>11, <1>12, <1>13, <1>14, <1>15 DEF Firm

\* An introduction is served, and perhaps approved at once.
LEMMA FirmPending ==
  ASSUME TypeInv, Types', NEW q \in Picos, NEW i \in Ids, Firm(i), txn[q] = Idle,
         queue[q][1].id = i, queue[q][1].kind = "sky_intro", Shrinks(q),
         Set2(list', list, q, i, "inbound"),
         peer' = peer, record' = record, approver' = approver,
         cut' = cut, upset' = upset, Lasts(i),
         \A r \in Picos \ {q} : Eases(txn[r], txn'[r]),
         txn'[q] = Idle \/ (txn'[q].do = "accept" /\ txn'[q].at = "read")
  PROVE  Firm(i)'
<1>0. PairAt(i) /\ TxnAt(i) /\ CutAt(i) /\ ListAt(i) /\ EventAt(i)
  BY DEF Firm
<1>1. HasEvent(q, i, "sky_intro") /\ Mentioned(q, i)
  BY DEF HasEvent, Mentioned, Shrinks
<1>2. PICK p \in Picos : peer[q][i] = p
  BY <1>0, <1>1 DEF PairAt, TypeInv, Types
<1>3. p # NoPico /\ q # NoPico /\ NoPico \notin Picos
  BY SkyAssumption DEF SkyAssumption
<1>4. /\ list[q][i] = "none" /\ list[p][i] \in {"outbound", "ended"}
      /\ record[q][i] = "linked" /\ approver[i] = NoPico
  BY <1>0, <1>1, <1>2 DEF EventAt
<1>5. /\ p # q /\ peer[p][i] = q
      /\ \A r \in Picos \ {p, q} : peer[r][i] = NoPico /\ Blank(r, i)
  BY <1>0, <1>2, <1>4, PairOf DEF TypeInv
<1>6. Types /\ Ahead(q) \in [Picos -> {0, 1}] /\ Kept(Ahead(q), i)
  BY KeptLevel, KeptShrink DEF TypeInv
<1>7. \A r \in Picos : /\ Mentioned(r, i)' => Mentioned(r, i)
                       /\ \A kind : HasEvent(r, i, kind)' => HasEvent(r, i, kind)
                       /\ OneIntro(r, i) => OneIntro(r, i)'
  BY <1>6, KeptFacts
<1>8. ~HasEvent(q, i, "sky_intro")'
  <2>1. ASSUME NEW n \in 1 .. Len(queue'[q]), queue'[q][n].id = i,
               queue'[q][n].kind = "sky_intro"
        PROVE  FALSE
    <3>1. /\ n + 1 \in 1 .. Len(queue[q]) /\ queue[q][n + 1] = queue'[q][n]
          /\ 1 \in 1 .. Len(queue[q]) /\ n \in Nat
      BY <2>1, Lengths, LengthsNext DEF Shrinks, TypeInv
    <3>2. n + 1 = 1
      BY <1>0, <2>1, <3>1 DEF EventAt, OneIntro
    <3>3. QED BY <3>1, <3>2, <2>1, LengthsNext
  <2>2. QED BY <2>1 DEF HasEvent
<1>9. \A r \in Picos : list'[r][i] = IF r = q THEN "inbound" ELSE list[r][i]
  BY DEF Set2
<1>10. \A r \in Picos \ {q} :
         /\ About(r, i)' => About(r, i)
         /\ Asking(r, i)' =>
              /\ Asking(r, i)
              /\ txn'[r].at \in {"record", "send"} => txn[r].at \in {"record", "send"}
         /\ Approving(r, i)' => Approving(r, i)
         /\ Ending(r, i)' => Ending(r, i)
         /\ txn'[r].do = "confirm" /\ i \in txn'[r].all =>
              txn[r].do = "confirm" /\ i \in txn[r].all
  BY IdleFacts DEF Eases, About, Asking, Approving, Ending
<1>11. PairAt(i)'
  <2>1. ASSUME NEW r \in Picos, peer'[r][i] # NoPico
        PROVE  LET s == peer'[r][i] IN
               /\ s # r /\ peer'[s][i] \in {r, NoPico}
               /\ \A u \in Picos \ {r, s} : peer'[u][i] = NoPico
               /\ list'[r][i] # "none" \/ list'[s][i] # "none"
    BY <1>2, <1>5, <1>9, <2>1
  <2>2. ASSUME NEW r \in Picos, peer'[r][i] = NoPico
        PROVE  /\ list'[r][i] = "none" /\ record'[r][i] = "none"
               /\ ~About(r, i)' /\ approver'[i] # r /\ ~Mentioned(r, i)'
    BY <1>2, <1>3, <1>5, <1>7, <1>9, <1>10, <2>2 DEF Blank
  <2>3. QED BY <2>1, <2>2 DEF PairAt
<1>12. TxnAt(i)'
  <2>1. /\ ~Asking(q, i)' /\ ~Ending(q, i)' /\ txn'[q].at # "settle"
        /\ list'[q][i] = "inbound" /\ txn'[q].do # "confirm"
    BY <1>9, IdleFacts DEF Asking, Ending
  <2>2. ASSUME NEW r \in Picos \ {q}
        PROVE  /\ Asking(r, i)' => list'[r][i] = "outbound"
               /\ ~(Asking(r, i)' /\ txn'[r].at \in {"record", "send"})
               /\ ~Approving(r, i)'
               /\ Ending(r, i)' => i \in Held(r)'
               /\ txn'[r].do = "confirm" /\ i \in txn'[r].all =>
                    list'[r][i] = "established" /\ <<r, i>> \in cut'
    <3>1. i \in Held(r) => i \in Held(r)'
      BY <1>9 DEF Held
    <3>2. ~Approving(r, i)
      BY <1>0, <1>4, <1>5 DEF TxnAt, Approving, Blank, About
    <3>3. ~(Asking(r, i) /\ txn[r].at \in {"record", "send"})
      <4>1. CASE r = p
        BY <1>0, <1>2, <1>3, <1>5, <4>1 DEF TxnAt
      <4>2. CASE r # p
        BY <1>5, <2>2, <4>2 DEF Asking, Blank, About
      <4>3. QED BY <4>1, <4>2
    <3>4. QED BY <1>0, <1>9, <1>10, <3>1, <3>2, <3>3 DEF TxnAt
  <2>3. QED BY <2>1, <2>2 DEF TxnAt
<1>13. ListAt(i)'
  <2>1. \A r \in Picos \ {p, q} : list'[r][i] = "none"
    BY <1>5, <1>9 DEF Blank
  <2>2. list[p][i] = "outbound" => record[p][i] # "none" \/ Loose(p, i)'
    BY <1>0 DEF ListAt, Lasts
  <2>3. QED BY <1>2, <1>3, <1>4, <1>5, <1>9, <2>1, <2>2 DEF ListAt
<1>14. EventAt(i)'
  <2>1. ASSUME NEW r \in Picos PROVE ~HasEvent(r, i, "sky_intro")'
    <3>1. r # q => ~HasEvent(r, i, "sky_intro")
      BY <1>0, <1>4, <1>5 DEF EventAt, Blank, Mentioned, HasEvent
    <3>2. QED BY <1>7, <1>8, <3>1
  <2>2. ASSUME NEW r \in Picos PROVE ~HasEvent(r, i, "sky_intro_response")'
    <3>1. ~HasEvent(r, i, "sky_intro_response")
      BY <1>0, <1>2, <1>3, <1>4, <1>5 DEF EventAt, Blank, Mentioned, HasEvent
    <3>2. QED BY <1>7, <3>1
  <2>3. \A r \in Picos : OneIntro(r, i)'
    BY <1>0, <1>7 DEF EventAt
  <2>4. QED BY <2>1, <2>2, <2>3 DEF EventAt
<1>15. CutAt(i)'
  BY <1>0 DEF CutAt
<1>16. QED BY <1>11, <1>12, <1>13, <1>14, <1>15 DEF Firm

\* An approval by hand, or the end of a relationship, begins.
LEMMA TxnStart ==
  ASSUME Types, NEW i \in Ids, PairAt(i), TxnAt(i), SamePlace(i), CutGrows(i),
         NEW p \in Picos, NEW t, SetTxn(p, t),
         \/ t.do = "approve" /\ t.at = "read" /\ list[p][i] = "inbound"
         \/ t.do \in {"cancel", "told"} /\ i \in Held(p)
  PROVE  TxnAt(i)'
<1>1. \A r \in Picos : i \in Held(r) => i \in Held(r)'
  BY DEF SamePlace, Held
<1>2. \A r \in Picos \ {p} : /\ txn'[r] = txn[r] /\ Asking(r, i)' = Asking(r, i)
                             /\ Approving(r, i)' = Approving(r, i)
                             /\ Ending(r, i)' = Ending(r, i)
  BY DEF SetTxn, Asking, Approving, Ending
<1>3. /\ ~Asking(p, i)' /\ (Approving(p, i)' => t.do = "approve") /\ txn'[p] = t
      /\ Ending(p, i)' => t.do \in {"cancel", "told"}
  BY DEF SetTxn, Asking, Approving, Ending
<1>4. \A r \in Picos : list[r][i] # "none" => peer[r][i] \in Picos
  BY DEF PairAt, Types
<1>5. ASSUME NEW r \in Picos, r # p
      PROVE  LET s == peer'[r][i] IN
             /\ Asking(r, i)' => list'[r][i] = "outbound"
             /\ Asking(r, i)' /\ txn'[r].at \in {"record", "send"} => peer'[s][i] = NoPico
             /\ Approving(r, i)' => list'[r][i] = "inbound"
             /\ Approving(r, i)' /\ txn'[r].at = "settle" => approver'[i] = r
             /\ Ending(r, i)' => i \in Held(r)'
             /\ txn'[r].do = "confirm" /\ i \in txn'[r].all =>
                  list'[r][i] = "established" /\ <<r, i>> \in cut'
  BY <1>1, <1>2, <1>4, <1>5 DEF TxnAt, SamePlace, CutGrows
<1>6. LET s == peer'[p][i] IN
      /\ ~Asking(p, i)'
      /\ Approving(p, i)' => list'[p][i] = "inbound"
      /\ ~(Approving(p, i)' /\ txn'[p].at = "settle")
      /\ Ending(p, i)' => i \in Held(p)'
      /\ txn'[p].do # "confirm"
  BY <1>1, <1>3 DEF SamePlace
<1>7. QED BY <1>5, <1>6 DEF TxnAt

LEMMA FirmStart ==
  ASSUME Types, Types', NEW i \in Ids, Firm(i), SameBus(i), Lasts(i), queue' = queue,
         NEW p \in Picos, NEW t, SetTxn(p, t),
         \/ t.do = "approve" /\ t.at = "read" /\ list[p][i] = "inbound"
         \/ t.do = "cancel" /\ i \in Held(p)
  PROVE  Firm(i)'
<1>0. PairAt(i) /\ TxnAt(i) /\ CutAt(i) /\ ListAt(i) /\ EventAt(i)
  BY DEF Firm
<1>1. list[p][i] # "none"
  BY DEF Held
<1>2. peer[p][i] \in Picos
  BY <1>0, <1>1 DEF PairAt, Types
<1>3. \A r \in Picos : /\ Mentioned(r, i)' => Mentioned(r, i)
                       /\ \A kind : HasEvent(r, i, kind)' => HasEvent(r, i, kind)
                       /\ OneIntro(r, i) => OneIntro(r, i)'
  BY DEF Mentioned, HasEvent, OneIntro
<1>4. PairAt(i)'
  <2>1. \A r \in Picos : peer[r][i] = NoPico =>
          record'[r][i] = record[r][i] /\ ~About(r, i)' /\ ~Mentioned(r, i)'
    BY <1>0, <1>2, <1>3, SkyAssumption
       DEF SkyAssumption, SameBus, SetTxn, About, PairAt
  <2>2. QED BY <1>0, <2>1, PairSame DEF SameBus
<1>5. ListAt(i)' /\ CutAt(i)'
  BY <1>0, ListSame, CutSame DEF SameBus, Lasts
<1>6. TxnAt(i)'
  BY <1>0, TxnStart DEF SameBus, Lasts
<1>7. EventAt(i)'
  <2>1. ASSUME NEW r \in Picos, NEW kind, HasEvent(r, i, kind)' PROVE peer[r][i] # NoPico
    BY <1>0, <1>3, <2>1 DEF HasEvent, Mentioned, PairAt
  <2>2. QED BY <1>0, <1>3, <2>1, EventSame
<1>8. QED BY <1>4, <1>5, <1>6, <1>7 DEF Firm

\* The record of p's bus is made, or torn down.
LEMMA FirmRecord ==
  ASSUME Types, Types', NEW i \in Ids, Firm(i), SamePlace(i), CutGrows(i),
         NEW p \in Picos, i \in Held(p),
         \A r \in Picos \ {p} : /\ record'[r][i] = record[r][i]
                                /\ About(r, i)' => About(r, i)
                                /\ Loose(r, i) => Loose(r, i)',
         record'[p][i] = "anew" => <<p, i>> \in cut,
         \/ Loose(p, i)'
         \/ /\ list[p][i] = "outbound" /\ record'[p][i] # "none"
            /\ ~HasEvent(p, i, "sky_intro_response"),
         TxnAt(i)', NEW d \in [Picos -> {0, 1}], Kept(d, i)
  PROVE  Firm(i)'
<1>0. PairAt(i) /\ TxnAt(i) /\ CutAt(i) /\ ListAt(i) /\ EventAt(i)
  BY DEF Firm
<1>1. list[p][i] # "none" /\ peer[p][i] # NoPico
  BY <1>0 DEF PairAt, Held
<1>2. \A r \in Picos : /\ Mentioned(r, i)' => Mentioned(r, i)
                       /\ \A kind : HasEvent(r, i, kind)' => HasEvent(r, i, kind)
                       /\ OneIntro(r, i) => OneIntro(r, i)'
  BY KeptFacts
<1>3. PairAt(i)'
  <2>1. \A r \in Picos : peer[r][i] = NoPico =>
          record'[r][i] = record[r][i] /\ ~About(r, i)' /\ ~Mentioned(r, i)'
    BY <1>0, <1>1, <1>2 DEF PairAt
  <2>2. QED BY <1>0, <2>1, PairSame
<1>4. CutAt(i)'
  BY <1>0 DEF CutAt, CutGrows
<1>5. ASSUME NEW r \in Picos
      PROVE  LET q == peer'[r][i] IN
             /\ peer[r][i] \in Picos \union {NoPico} /\ q = peer[r][i]
             /\ peer[r][i] # NoPico => list'[q][i] = list[q][i]
             /\ peer[r][i] = NoPico => list[r][i] = "none" /\ approver[i] # r
             /\ list'[r][i] = list[r][i]
  BY <1>0 DEF Types, PairAt, SamePlace
<1>6. approver'[i] = approver[i]
  BY DEF SamePlace
<1>7. ListAt(i)'
  BY <1>0, <1>5, <1>6 DEF ListAt
<1>8. EventAt(i)'
  <2>1. ASSUME NEW r \in Picos, HasEvent(r, i, "sky_intro") PROVE r # p
    BY <1>0, <1>1, <2>1 DEF EventAt
  <2>2. \A r \in Picos : OneIntro(r, i)'
    BY <1>0, <1>2 DEF EventAt
  <2>3. ASSUME NEW r \in Picos, HasEvent(r, i, "sky_intro")'
        PROVE  /\ list'[r][i] = "none" /\ list'[peer'[r][i]][i] \in {"outbound", "ended"}
               /\ record'[r][i] = "linked" /\ approver'[i] = NoPico
    <3>0. HasEvent(r, i, "sky_intro")
      BY <1>2, <2>3
    <3>1. HasEvent(r, i, "sky_intro") /\ r # p /\ peer[r][i] # NoPico
      BY <1>0, <2>1, <3>0 DEF PairAt, Mentioned, HasEvent
    <3>2. QED BY <1>0, <1>5, <1>6, <3>1 DEF EventAt
  <2>4. ASSUME NEW r \in Picos, HasEvent(r, i, "sky_intro_response")'
        PROVE  /\ approver'[i] = peer'[r][i]
               /\ list'[r][i] = "outbound" => record'[r][i] = "linked" \/ Loose(r, i)'
    <3>1. HasEvent(r, i, "sky_intro_response")
      BY <1>2, <2>4
    <3>2. approver[i] = peer[r][i]
          /\ (list[r][i] = "outbound" => record[r][i] = "linked" \/ Loose(r, i))
      BY <1>0, <3>1 DEF EventAt
    <3>3. CASE r = p
      BY <1>5, <1>6, <3>1, <3>2, <3>3
    <3>4. CASE r # p
      BY <1>5, <1>6, <3>2, <3>4
    <3>5. QED BY <3>3, <3>4
  <2>5. QED BY <2>2, <2>3, <2>4 DEF EventAt
<1>9. QED BY <1>3, <1>4, <1>7, <1>8 DEF Firm

\* The other pico is told of the end.
LEMMA FirmCross ==
  ASSUME Types, Types', NEW i \in Ids, Firm(i), SameBus(i), Eased(i), Lasts(i),
         NEW q \in Picos, peer[q][i] # NoPico,
         NEW e, e.kind \in Removals, Grows(q, e, 1)
  PROVE  Firm(i)'
<1>0. PairAt(i) /\ TxnAt(i) /\ CutAt(i) /\ ListAt(i) /\ EventAt(i)
  BY DEF Firm
<1>1. \A r \in Picos : Len(queue[r]) \in Nat /\ Len(queue'[r]) \in Nat
  BY Lengths, LengthsNext
<1>2. ASSUME NEW r \in Picos, NEW n \in 1 .. Len(queue'[r])
      PROVE  \/ n \in 1 .. Len(queue[r]) /\ queue'[r][n] = queue[r][n]
             \/ r = q /\ queue'[r][n].kind \in Removals
  BY <1>1 DEF Grows
<1>3. ASSUME NEW r \in Picos
      PROVE  /\ Mentioned(r, i)' => Mentioned(r, i) \/ r = q
             /\ HasEvent(r, i, "sky_intro")' => HasEvent(r, i, "sky_intro")
             /\ HasEvent(r, i, "sky_intro_response")' => HasEvent(r, i, "sky_intro_response")
             /\ OneIntro(r, i) => OneIntro(r, i)'
  <2>1. Mentioned(r, i)' => Mentioned(r, i) \/ r = q
    BY <1>2 DEF Mentioned
  <2>2. /\ HasEvent(r, i, "sky_intro")' => HasEvent(r, i, "sky_intro")
        /\ HasEvent(r, i, "sky_intro_response")' => HasEvent(r, i, "sky_intro_response")
    BY <1>2 DEF HasEvent, Removals
  <2>3. OneIntro(r, i) => OneIntro(r, i)'
    <3>1. \A n \in 1 .. Len(queue'[r]) : queue'[r][n].kind = "sky_intro" =>
            n \in 1 .. Len(queue[r]) /\ queue'[r][n] = queue[r][n]
      BY <1>2 DEF Removals
    <3>2. QED BY <3>1 DEF OneIntro
  <2>4. QED BY <2>1, <2>2, <2>3
<1>4. \A r \in Picos : About(r, i)' => About(r, i)
  BY DEF Eased, EasedAt
<1>5. PairAt(i)'
  <2>1. \A r \in Picos : peer[r][i] = NoPico =>
          record'[r][i] = record[r][i] /\ ~About(r, i)' /\ ~Mentioned(r, i)'
    BY <1>0, <1>3, <1>4 DEF SameBus, PairAt
  <2>2. QED BY <1>0, <2>1, PairSame DEF SameBus
<1>6. ListAt(i)' /\ TxnAt(i)' /\ CutAt(i)'
  BY <1>0, ListSame, TxnSame, CutSame DEF SameBus, Lasts
<1>7. EventAt(i)'
  <2>1. ASSUME NEW r \in Picos, NEW kind \in {"sky_intro", "sky_intro_response"},
               HasEvent(r, i, kind)'
        PROVE  HasEvent(r, i, kind) /\ peer[r][i] # NoPico
    <3>1. HasEvent(r, i, kind)
      BY <1>3, <2>1
    <3>2. QED BY <1>0, <3>1 DEF HasEvent, Mentioned, PairAt
  <2>2. QED BY <1>0, <1>3, <2>1, EventSame
<1>8. QED BY <1>5, <1>6, <1>7 DEF Firm

\* Every step keeps what is firm.
LEMMA FirmStep ==
  ASSUME TypeInv, PairInv, WaitInv, TxnInv, CutInv, ListInv, EventInv, [Next]_vars, NEW j \in Ids
  PROVE  Firm(j)'
<1>0. /\ Types /\ Firm(j) /\ \A r \in Picos : txn[r] \in Txns /\ Shape(txn[r])
      /\ Level \in [Picos -> {0, 1}] /\ \A q \in Picos : Ahead(q) \in [Picos -> {0, 1}]
  BY KeptLevel DEF TypeInv, Types, Firm, PairInv, TxnInv, CutInv, ListInv, EventInv
<1>1. ASSUME NEW p \in Picos, NEW q \in Picos, NEW i \in Ids, Ask(p, q, i) PROVE Firm(j)'
  <2> DEFINE t == Txn("ask", {i}, "record", NoPico)
  <2>1. /\ Types' /\ SetTxn(p, t) /\ txn[p] = Idle /\ queue' = queue /\ approver' = approver
        /\ Set2(list', list, p, i, "outbound") /\ Set2(peer', peer, p, i, q)
        /\ record' = record /\ cut' = cut /\ upset' = upset
    BY <1>1, AskFacts DEF history
  <2>2. t.all = {i}
    BY DEF Txn
  <2> HIDE DEF t
  <2>3. CASE j = i
    BY <1>0, <1>1, <2>3, FirmAsk
  <2>4. CASE j # i
    <3>1. SameBus(j) /\ Eased(j) /\ Kept(Level, j)
      BY <1>0, <2>1, <2>2, <2>4, KeptLevel, EasedOther DEF SameBus, SamePlace, Set2
    <3>2. Lasts(j)
      BY <2>1, IdleFacts, CutStays, LastsSet
    <3>3. QED BY <1>0, <2>1, <3>1, <3>2, FirmSame
  <2>5. QED BY <2>3, <2>4
<1>2. ASSUME NEW p \in Picos, NEW i \in Ids, Introduce(p, i) PROVE Firm(j)'
  <2> DEFINE t == [txn[p] EXCEPT !.at = "wait"]
             e == Event("sky_intro", i, p)
  <2>1. PICK q \in Picos : peer[p][i] = q
    BY <1>2, IntroduceFacts
  <2>2. /\ Asking(p, i) /\ txn[p].at = "send"
        /\ Types' /\ list' = list /\ approver' = approver /\ cut' = cut /\ upset' = upset
        /\ \/ SetTxn(p, Idle) /\ UNCHANGED <<record, queue, peer>>
           \/ /\ Set2(record', record, q, i, "linked") /\ Set2(peer', peer, q, i, p)
              /\ Grows(q, e, 1) /\ SetTxn(p, t)
    BY <1>2, <2>1, IntroduceFacts DEF history
  <2>3. CutGrows(j)
    BY <2>2, CutStays
  <2>4. CASE SetTxn(p, Idle) /\ UNCHANGED <<record, queue, peer>>
    <3>1. Eases(txn[p], Idle)
      BY DEF Eases
    <3>2. SameBus(j) /\ Eased(j) /\ Kept(Level, j)
      BY <1>0, <2>2, <2>4, <3>1, KeptLevel, EasesSet, EasedBy DEF SameBus, SamePlace
    <3>3. Lasts(j)
      BY <2>2, <2>3, <2>4, LastsSet
    <3>4. QED BY <1>0, <2>2, <3>2, <3>3, FirmSame
  <2>5. CASE /\ Set2(record', record, q, i, "linked") /\ Set2(peer', peer, q, i, p)
             /\ Grows(q, e, 1) /\ SetTxn(p, t)
    <3>1. CASE j = i
      BY <1>0, <2>1, <2>2, <2>5, <3>1, FirmIntroduce
    <3>2. CASE j # i
      <4>1. e.id = i /\ t.do = txn[p].do /\ t.all = txn[p].all /\ t.at = "wait"
        BY <1>0, AtFacts DEF Ats, Event
      <4> HIDE DEF e, t
      <4>2. Eases(txn[p], t)
        BY <4>1 DEF Eases
      <4>3. SameBus(j)
        BY <2>2, <2>5, <3>2 DEF SameBus, SamePlace, Set2
      <4>4. Eased(j) /\ Lasts(j)
        BY <2>2, <2>3, <2>5, <4>2, EasesSet, EasedBy, LastsSet
      <4>5. Kept(Level, j)
        BY <1>0, <2>2, <2>5, <3>2, <4>1, KeptGrow
      <4>6. QED BY <1>0, <2>2, <4>3, <4>4, <4>5, FirmSame
    <3>3. QED BY <3>1, <3>2
  <2>6. QED BY <2>2, <2>4, <2>5
<1>3. ASSUME NEW q \in Picos, LinkRead(q) PROVE Firm(j)'
  <2> DEFINE t == [txn[q] EXCEPT !.at = "write"]
  <2>1. PICK i \in Ids : txn[q].all = {i}
    BY <1>3, Approvals DEF LinkRead
  <2>2. /\ Types' /\ UNCHANGED <<buses, record, queue, history>> /\ txn[q].at = "read"
        /\ Ends(q, txn[q].caller, i) \/ SetTxn(q, t)
    BY <1>3, <2>1, LinkReadFacts
  <2>3. \A r \in Picos : Eases(txn[r], txn'[r])
    <3>1. Ends(q, txn[q].caller, i) => \A r \in Picos : Eases(txn[r], txn'[r])
      BY <1>0, EasesEnds DEF Txns
    <3>2. Eases(txn[q], t)
      BY <1>0, <2>2, AtFacts DEF Ats, Eases
    <3> HIDE DEF t
    <3>3. SetTxn(q, t) => \A r \in Picos : Eases(txn[r], txn'[r])
      BY <3>2, EasesSet
    <3>4. QED BY <2>2, <3>1, <3>3
  <2>4. SameBus(j) /\ Eased(j) /\ Kept(Level, j)
    BY <1>0, <2>2, <2>3, EasedBy, KeptLevel DEF SameBus, SamePlace, buses, history
  <2>5. Lasts(j)
    <3>1. CutGrows(j)
      BY <2>2, CutStays DEF history
    <3>2. Ends(q, txn[q].caller, i) => Lasts(j)
      BY <1>0, <2>2, <3>1, LastsEnds DEF Txns
    <3>3. QED BY <2>2, <3>1, <3>2, LastsSet
  <2>6. QED BY <1>0, <2>2, <2>4, <2>5, FirmSame
<1>4. ASSUME NEW q \in Picos, LinkWrite(q) PROVE Firm(j)'
  <2> DEFINE t == [txn[q] EXCEPT !.at = "settle"]
  <2>1. PICK i \in Ids : txn[q].all = {i} /\ Approving(q, i)
    BY <1>4, Approvals DEF LinkWrite
  <2>2. PICK p \in Picos : peer[q][i] = p
    BY <1>4, <2>1, LinkWriteFacts
  <2>3. /\ Types' /\ SetTxn(q, t) /\ list' = list /\ peer' = peer
        /\ txn[q].at = "write" /\ cut' = cut /\ upset' = upset
        /\ \E v \in {"linked", "anew"} :
             Set2(record', record, p, i, v) /\ (v = "anew" => record[p][i] = "anew")
        /\ approver' = [approver EXCEPT ![i] = q]
        /\ \E k \in Nat \ {0} : Grows(p, Response(i), k)
    BY <1>4, <2>1, <2>2, LinkWriteFacts DEF buses
  <2>4. PICK k \in Nat : Grows(p, Response(i), k)
    BY <2>3
  <2>5. PICK v \in {"linked", "anew"} :
          Set2(record', record, p, i, v) /\ (v = "anew" => record[p][i] = "anew")
    BY <2>3
  <2>6. approver'[i] = q /\ (j # i => approver'[j] = approver[j])
    BY <1>0, <2>3 DEF Types
  <2>7. CASE j = i
    BY <1>0, <2>1, <2>2, <2>3, <2>4, <2>5, <2>6, <2>7, FirmLinkWrite
  <2>8. CASE j # i
    <3>1. Response(i).id = i
      BY DEF Response, Event
    <3>2. t.all = {i}
      <4>1. txn[q] \in Txns
        BY <1>0 DEF Types
      <4>2. t.all = txn[q].all
        BY <4>1, AtFacts DEF Ats
      <4>3. QED BY <2>1, <4>2
    <3> HIDE DEF t
    <3>3. SameBus(j)
      BY <2>3, <2>5, <2>6, <2>8 DEF SameBus, SamePlace, Set2
    <3>4. Eased(j) /\ Lasts(j)
      BY <2>3, <2>8, <3>2, EasedOther, CutStays, LastsSet
    <3>5. Kept(Level, j)
      BY <1>0, <2>3, <2>4, <2>8, <3>1, KeptGrow
    <3>6. QED BY <1>0, <2>3, <3>3, <3>4, <3>5, FirmSame
  <2>9. QED BY <2>7, <2>8
<1>5. ASSUME NEW q \in Picos, addInboundSubscription(q) PROVE Firm(j)'
  <2>1. PICK i \in Ids : txn[q].all = {i} /\ Approving(q, i)
    BY <1>5, Approvals DEF addInboundSubscription
  <2>2. /\ Types' /\ Ends(q, txn[q].caller, i) /\ txn[q].at = "settle"
        /\ Set2(list', list, q, i, "established") /\ UNCHANGED <<peer, record, queue>>
        /\ approver' = approver /\ cut' = cut /\ upset' = upset
    BY <1>5, <2>1, SettleFacts DEF history
  <2>3. Eased(j) /\ Kept(Level, j) /\ txn'[q] = Idle /\ Lasts(j)
    <3>1. txn[q].caller \in Picos \union {NoPico}
      BY <1>0 DEF Txns
    <3>2. \A r \in Picos : Eases(txn[r], txn'[r])
      BY <1>0, <2>2, <3>1, EasesEnds
    <3>3. Eased(j)
      BY <3>2, EasedBy
    <3>4. Kept(Level, j)
      BY <1>0, <2>2, KeptLevel
    <3>5. Lasts(j)
      BY <2>2, <3>1, CutStays, LastsEnds
    <3>6. QED BY <2>2, <3>3, <3>4, <3>5 DEF Ends
  <2>4. CASE j = i
    <3>1. /\ list[q][i] = "inbound" /\ approver[i] = q
          /\ record[q][i] = "linked" \/ <<q, i>> \in cut
      BY <1>0, <2>1, <2>2, <2>4 DEF Firm, TxnAt, ListAt, Loose, Between
    <3>2. /\ list'[q][i] = "established"
          /\ \A r \in Picos \ {q} : list'[r][i] = list[r][i]
      BY <2>2 DEF Set2
    <3>3. approver[i] # NoPico
      BY <3>1, SkyAssumption DEF SkyAssumption
    <3>4. /\ ~Asking(q, i)' /\ ~Approving(q, i)' /\ ~Ending(q, i)'
          /\ txn'[q].do # "confirm"
      BY <2>3, IdleFacts DEF Asking, Approving, Ending
    <3>5. /\ CutGrows(i)
          /\ \A r \in Picos : EasedAt(r, i) /\ (Loose(r, i) => Loose(r, i)')
      BY <2>3, <2>4 DEF Eased, Lasts
    <3>6. QED BY <1>0, <2>2, <2>3, <2>4, <3>1, <3>2, <3>3, <3>4, <3>5, FirmMoves
  <2>5. CASE j # i
    <3>1. SameBus(j)
      BY <2>2, <2>5 DEF SameBus, SamePlace, Set2
    <3>2. QED BY <1>0, <2>2, <2>3, <3>1, FirmSame
  <2>6. QED BY <2>4, <2>5
<1>6. ASSUME NEW p \in Picos, NEW i \in Ids, RemoveOwn(p, i) PROVE Firm(j)'
  <2> DEFINE t == Splicing(p, i)
  <2>1. /\ txn[p].do = "cancel" /\ txn[p].at = "remove" /\ i \in txn[p].all
        /\ Types' /\ Set2(record', record, p, i, "none") /\ SetTxn(p, t)
        /\ UNCHANGED <<buses, queue, history>>
    BY <1>6, RemoveOwnFacts
  <2>2. t.do = txn[p].do /\ t.all = txn[p].all /\ t.left = {i} /\ t.at = "splice"
    BY <1>0, SpliceTxns
  <2> HIDE DEF t
  <2>3. Eases(txn[p], t)
    BY <2>2 DEF Eases
  <2>4. SamePlace(j) /\ Eased(j) /\ Kept(Level, j) /\ Lasts(j) /\ CutGrows(j)
    BY <1>0, <2>1, <2>3, EasesSet, EasedBy, KeptLevel, CutStays, LastsSet
       DEF SamePlace, buses, history
  <2>5. CASE j = i
    <3>1. i \in Held(p)
      BY <1>0, <2>1, <2>5 DEF Firm, TxnAt, Ending
    <3>2. Loose(p, i)'
      BY <2>1, <2>2 DEF SetTxn, Loose, Between
    <3>3. TxnAt(i)'
      BY <1>0, <2>4, <2>5, TxnSame DEF Firm
    <3>4. /\ record'[p][i] = "none"
          /\ \A r \in Picos \ {p} : /\ record'[r][i] = record[r][i]
                                    /\ About(r, i)' => About(r, i)
                                    /\ Loose(r, i) => Loose(r, i)'
      BY <2>1, <2>4, <2>5 DEF Set2, Eased, EasedAt, Lasts
    <3>5. QED BY <1>0, <2>1, <2>4, <2>5, <3>1, <3>2, <3>3, <3>4, FirmRecord
  <2>6. CASE j # i
    <3>1. SameBus(j)
      BY <2>1, <2>4, <2>6 DEF SameBus, Set2
    <3>2. QED BY <1>0, <2>1, <2>4, <3>1, FirmSame
  <2>7. QED BY <2>5, <2>6
<1>7. ASSUME NEW q \in Picos, addInboundPendingFromSkyIntro(q) PROVE Firm(j)'
  <2> DEFINE e == queue[q][1]
  <2>1. PICK i \in Ids : e.id = i
    BY <1>7, PendingFacts
  <2>2. PICK c \in Picos \union {NoPico} : e.caller = c
    BY <1>7, PendingFacts
  <2>3. /\ Types' /\ Shrinks(q) /\ txn[q] = Idle /\ e.kind = "sky_intro"
        /\ Set2(list', list, q, i, "inbound") /\ UNCHANGED <<peer, record>>
        /\ approver' = approver /\ 1 \in 1 .. Len(queue[q])
        /\ cut' = cut /\ upset' = upset
        /\ Ends(q, c, i) \/ SetTxn(q, Txn("accept", {i}, "read", c))
    BY <1>7, <2>1, <2>2, PendingFacts DEF history
  <2>4. /\ \A r \in Picos \ {q} : Eases(txn[r], txn'[r])
        /\ \/ txn'[q] = Idle
           \/ txn'[q].do = "accept" /\ txn'[q].at = "read" /\ txn'[q].all = {i}
    <3>1. Ends(q, c, i) => \A r \in Picos : Eases(txn[r], txn'[r])
      BY <1>0, <2>2, <2>3, EasesEnds
    <3>2. Ends(q, c, i) => txn'[q] = Idle
      BY DEF Ends
    <3>3. SetTxn(q, Txn("accept", {i}, "read", c)) =>
            /\ \A r \in Picos \ {q} : Eases(txn[r], txn'[r])
            /\ txn'[q].do = "accept" /\ txn'[q].at = "read" /\ txn'[q].all = {i}
      BY DEF SetTxn, Txn, Eases
    <3>4. QED BY <2>3, <3>1, <3>2, <3>3
  <2>5. Lasts(j)
    <3>1. CutGrows(j) /\ txn[q].at = "idle"
      BY <2>3, CutStays, IdleFacts
    <3>2. Ends(q, c, i) => Lasts(j)
      BY <2>2, <2>3, <3>1, LastsEnds
    <3>3. QED BY <2>3, <3>1, <3>2, LastsSet
  <2>6. CASE j = i
    BY <1>0, <2>1, <2>3, <2>4, <2>5, <2>6, FirmPending
  <2>7. CASE j # i
    <3>1. SameBus(j)
      BY <2>3, <2>7 DEF SameBus, SamePlace, Set2
    <3>2. Eased(j)
      BY <2>4, <2>7, IdleFacts
         DEF Eased, EasedAt, Eases, About, Asking, Approving, Ending
    <3>3. Kept(Ahead(q), j)
      BY <1>0, <2>3, KeptShrink
    <3>4. QED BY <1>0, <2>3, <2>5, <3>1, <3>2, <3>3, FirmSame
  <2>8. QED BY <2>6, <2>7
<1>8. ASSUME NEW p \in Picos, addOutboundSubscriptionLayer2(p) PROVE Firm(j)'
  <2> DEFINE e == queue[p][1]
  <2>1. PICK i : i = queue[p][1].id
    OBVIOUS
  <2> DEFINE t == Txn("confirm", {i}, "record", NoPico)
  <2>2. /\ i \in Ids /\ Types' /\ Shrinks(p) /\ e.kind = "sky_intro_response" /\ txn[p] = Idle
        /\ (list[p][i] = "outbound" => Set2(list', list, p, i, "established"))
        /\ (list[p][i] # "outbound" => list' = list)
        /\ UNCHANGED <<peer, record>> /\ approver' = approver
        /\ cut' = cut /\ upset' = upset /\ 1 \in 1 .. Len(queue[p])
        /\ \/ SetTxn(p, Idle)
           \/ list[p][i] = "outbound" /\ record[p][i] = "none" /\ SetTxn(p, t)
    BY <1>8, <2>1, ConfirmFacts DEF history
  <2>3. t.do = "confirm" /\ t.all = {i}
    BY DEF Txn
  <2> HIDE DEF t
  <2>4. Kept(Ahead(p), j) /\ Lasts(j) /\ CutGrows(j)
    BY <1>0, <2>2, KeptShrink, CutStays, LastsSet, IdleFacts
  <2>5. \A r \in Picos \ {p} : EasedAt(r, j) /\ (Loose(r, j) => Loose(r, j)')
    BY <2>2, <2>4 DEF SetTxn, EasedAt, Lasts, About, Asking, Approving, Ending
  <2>6. CASE j = i /\ list[p][i] = "outbound"
    <3>1. HasEvent(p, i, "sky_intro_response")
      BY <2>1, <2>2 DEF HasEvent
    <3>2. /\ approver[i] = peer[p][i] /\ peer[p][i] # NoPico
          /\ record[p][i] = "linked" \/ <<p, i>> \in cut
      BY <1>0, <2>2, <2>6, <3>1, IdleFacts DEF Firm, EventAt, PairAt, Loose, Between
    <3>3. /\ list'[p][i] = "established"
          /\ \A r \in Picos \ {p} : list'[r][i] = list[r][i]
      BY <2>2, <2>6 DEF Set2
    <3>4. /\ ~Asking(p, i)' /\ ~Approving(p, i)' /\ ~Ending(p, i)'
          /\ txn'[p].do = "confirm" => record[p][i] = "none"
      BY <2>2, <2>3, IdleFacts DEF SetTxn, Asking, Approving, Ending
    <3>5. txn'[p].do = "confirm" => <<p, i>> \in cut
      BY <3>2, <3>4
    <3>6. QED BY <1>0, <2>2, <2>4, <2>5, <2>6, <3>2, <3>3, <3>4, <3>5, FirmMoves
  <2>7. CASE j # i \/ list[p][i] # "outbound"
    <3>1. SameBus(j)
      BY <2>2, <2>7 DEF SameBus, SamePlace, Set2
    <3>2. EasedAt(p, j)
      BY <2>2, <2>3, <2>7, IdleFacts DEF SetTxn, EasedAt, About, Asking, Approving, Ending
    <3>3. QED BY <1>0, <2>2, <2>4, <2>5, <3>1, <3>2, FirmSame DEF Eased
  <2>8. QED BY <2>6, <2>7
<1>9. ASSUME NEW q \in Picos, Removed(q) PROVE Firm(j)'
  <2> DEFINE e == queue[q][1]
  <2>1. PICK c \in Picos \union {NoPico} : e.caller = c
    BY <1>9, RemovedFacts
  <2>2. PICK i \in Ids : e.id = i
    BY <1>9, RemovedFacts
  <2> DEFINE t == Txn("told", {i}, "splice", c)
  <2>3. /\ Types' /\ Shrinks(q) /\ txn[q] = Idle /\ 1 \in 1 .. Len(queue[q])
        /\ UNCHANGED <<home, buses, approver, cut, faults>>
        /\ upset \subseteq upset'
        /\ \/ /\ list[q][i] = Named(e.kind) /\ Set2(record', record, q, i, "none")
              /\ SetTxn(q, t)
           \/ record' = record /\ Ends(q, c, i)
    <3>1. /\ Types' /\ Shrinks(q) /\ txn[q] = Idle /\ 1 \in 1 .. Len(queue[q])
          /\ UNCHANGED <<home, buses, approver, cut, faults>>
      BY <1>9, RemovedFacts
    <3>2. \/ /\ list[q][i] = Named(e.kind) /\ Set2(record', record, q, i, "none")
             /\ SetTxn(q, Txn("told", {i}, "splice", e.caller))
          \/ record' = record /\ Ends(q, e.caller, i)
      BY <1>9, <2>2, RemovedFacts
    <3>3. upset' = upset \/ upset' = upset \union {i}
      BY <1>9, <2>2, RemovedFacts
    <3>4. QED BY <2>1, <3>1, <3>2, <3>3
  <2>4. SamePlace(j) /\ Kept(Ahead(q), j) /\ CutGrows(j) /\ txn[q].at = "idle"
    BY <1>0, <2>3, KeptShrink, CutStays, IdleFacts DEF SamePlace, buses
  <2>5. t.do = "told" /\ t.all = {i} /\ t.left = {i} /\ t.at = "splice"
    BY DEF Txn
  <2> HIDE DEF t
  <2>6. CASE record' = record /\ Ends(q, c, i)
    <3>1. \A r \in Picos : Eases(txn[r], txn'[r])
      BY <1>0, <2>1, <2>3, <2>6, EasesEnds
    <3>2. Eased(j) /\ Lasts(j)
      BY <2>1, <2>3, <2>4, <2>6, <3>1, EasedBy, LastsEnds
    <3>3. SameBus(j)
      BY <2>4, <2>6 DEF SameBus
    <3>4. QED BY <1>0, <2>3, <2>4, <3>2, <3>3, FirmSame
  <2>7. CASE /\ list[q][i] = Named(e.kind) /\ Set2(record', record, q, i, "none")
             /\ SetTxn(q, t)
    <3>1. Lasts(j)
      BY <2>4, <2>7, LastsSet
    <3>2. CASE j # i
      <4>1. SameBus(j)
        BY <2>4, <2>7, <3>2 DEF SameBus, Set2
      <4>2. Eased(j)
        BY <2>5, <2>7, <3>2, EasedOther
      <4>3. QED BY <1>0, <2>3, <2>4, <3>1, <4>1, <4>2, FirmSame
    <3>3. CASE j = i
      <4>1. i \in Held(q)
        BY <2>7 DEF Held, Named
      <4>2. Loose(q, i)'
        BY <2>5, <2>7 DEF SetTxn, Loose, Between
      <4>3. TxnAt(i)'
        BY <1>0, <2>4, <2>5, <2>7, <3>3, <4>1, TxnStart DEF Firm
      <4>4. /\ record'[q][i] = "none"
            /\ \A r \in Picos \ {q} : /\ record'[r][i] = record[r][i]
                                      /\ About(r, i)' => About(r, i)
                                      /\ Loose(r, i) => Loose(r, i)'
        BY <2>7, <3>1, <3>3 DEF Set2, SetTxn, About, Lasts
      <4>5. QED BY <1>0, <2>3, <2>4, <3>3, <4>1, <4>2, <4>3, <4>4, FirmRecord
    <3>4. QED BY <3>2, <3>3
  <2>8. QED BY <2>3, <2>6, <2>7
<1>10. ASSUME NEW q \in Picos, NEW i \in Ids, Approve(q, i) PROVE Firm(j)'
  <2> DEFINE t == Txn("approve", {i}, "read", NoPico)
  <2>1. /\ Types' /\ SetTxn(q, t) /\ txn[q] = Idle /\ list[q][i] = "inbound"
        /\ UNCHANGED <<buses, record, queue, history>>
    BY <1>10, ApproveFacts
  <2>2. SameBus(j) /\ queue' = queue /\ t.do = "approve" /\ t.at = "read" /\ t.all = {i}
    BY <2>1 DEF SameBus, SamePlace, buses, history, Txn
  <2> HIDE DEF t
  <2>3. Lasts(j)
    BY <2>1, CutStays, LastsSet, IdleFacts DEF history
  <2>4. CASE j = i
    BY <1>0, <2>1, <2>2, <2>3, <2>4, FirmStart
  <2>5. CASE j # i
    BY <1>0, <2>1, <2>2, <2>3, <2>5, EasedOther, KeptLevel, FirmSame
  <2>6. QED BY <2>4, <2>5
<1>11. ASSUME NEW p \in Picos, NEW I \in SUBSET Ids, Cancel(p, I) PROVE Firm(j)'
  <2> DEFINE t == Txn("cancel", I, "send", NoPico)
  <2>1. /\ Types' /\ SetTxn(p, t) /\ txn[p] = Idle /\ I \subseteq Held(p)
        /\ UNCHANGED <<buses, record, queue, history>>
    BY <1>11, CancelFacts
  <2>2. SameBus(j) /\ queue' = queue /\ t.do = "cancel" /\ t.all = I
    BY <2>1 DEF SameBus, SamePlace, buses, history, Txn
  <2> HIDE DEF t
  <2>3. Lasts(j)
    BY <2>1, CutStays, LastsSet, IdleFacts DEF history
  <2>4. CASE j \in I
    BY <1>0, <2>1, <2>2, <2>3, <2>4, FirmStart
  <2>5. CASE j \notin I
    BY <1>0, <2>1, <2>2, <2>3, <2>5, EasedOther, KeptLevel, FirmSame
  <2>6. QED BY <2>4, <2>5
<1>12. ASSUME NEW p \in Picos, NEW i \in Ids, crossPicoEvent(p, i) PROVE Firm(j)'
  <2> DEFINE t == [txn[p] EXCEPT !.at = "wait"]
             u == AfterNotice(txn[p], i)
             e == Event(notice(p, i), i, p)
  <2>1. PICK q \in Picos : peer[p][i] = q
    BY <1>12, CrossFacts
  <2>2. /\ txn[p].do = "cancel" /\ txn[p].at = "send" /\ Types'
        /\ UNCHANGED <<home, buses, record, approver, cut, faults>> /\ upset \subseteq upset'
        /\ \/ Reaches(p, q, i) /\ Grows(q, e, 1) /\ SetTxn(p, t)
           \/ (SetTxn(p, u) \/ SetTxn(p, Idle)) /\ queue' = queue
    BY <1>12, <2>1, CrossFacts
  <2>3. Eases(txn[p], t) /\ Eases(txn[p], u) /\ Eases(txn[p], Idle)
    <3>1. t.do = txn[p].do /\ t.all = txn[p].all /\ t.at = "wait"
      BY <1>0, AtFacts DEF Ats
    <3>2. u.do = txn[p].do /\ u.all = txn[p].all /\ u.at \in {"remove", "send"}
      BY <1>0, NoticeFacts
    <3> HIDE DEF t, u
    <3>3. QED BY <2>2, <3>1, <3>2 DEF Eases
  <2>4. e.id = i /\ e.kind \in Removals
    BY DEF Event, notice, Removals
  <2>5. SameBus(j)
    BY <2>2 DEF SameBus, SamePlace, buses
  <2> HIDE DEF t, u, e
  <2>6. Eased(j) /\ Lasts(j)
    BY <2>2, <2>3, EasesSet, EasedBy, CutStays, LastsSet
  <2>7. CASE queue' = queue
    BY <1>0, <2>2, <2>5, <2>6, <2>7, KeptLevel, FirmSame
  <2>8. CASE Reaches(p, q, i) /\ Grows(q, e, 1) /\ j # i
    BY <1>0, <2>2, <2>4, <2>5, <2>6, <2>8, KeptGrow, FirmSame
  <2>9. CASE Reaches(p, q, i) /\ Grows(q, e, 1) /\ j = i
    <3>1. record[q][j] # "none" \/ list[q][j] # "none"
      BY <2>9 DEF Reaches
    <3>2. peer[q][j] # NoPico
      BY <1>0, <3>1 DEF Firm, PairAt
    <3>3. QED BY <1>0, <2>2, <2>4, <2>5, <2>6, <2>9, <3>2, FirmCross
  <2>10. QED BY <2>2, <2>7, <2>8, <2>9
<1>13. ASSUME NEW p \in Picos, NEW i \in Ids, NEW lost \in BOOLEAN, Fail(p, i, lost)
       PROVE  Firm(j)'
  <2>1. /\ Types' /\ UNCHANGED <<home, buses, record, approver, cut>>
        /\ upset' = upset \union {i}
        /\ GivesUp(p, i) \/ StopsWaiting(p, i) \/ Aborts(p, i)
    BY <1>13, FailFacts
  <2>2. SameBus(j) /\ Eased(j) /\ Kept(Level, j)
    BY <2>1, EasesFail, EasedBy DEF SameBus, SamePlace, buses
  <2>3. Lasts(j)
    BY <2>1, EasesFail, CutStays
  <2>4. QED BY <1>0, <2>1, <2>2, <2>3, FirmSame
<1>14. ASSUME NEW m \in Meshes, Crash(m) PROVE Firm(j)'
  <2>1. /\ Types' /\ UNCHANGED <<home, buses, record, approver>>
        /\ \E P \in SUBSET Picos : CrashOf(P)
    BY <1>14, CrashFacts
  <2>2. SameBus(j) /\ Eased(j) /\ Kept(Level, j) /\ Lasts(j)
    BY <2>1, EasesCrash, EasedBy DEF SameBus, SamePlace, buses
  <2>3. QED BY <1>0, <2>1, <2>2, FirmSame
<1>15. ASSUME NEW p \in Picos, NEW i \in Ids, establishSubscriptionIdentity(p, i)
       PROVE  Firm(j)'
  <2> DEFINE t == [txn[p] EXCEPT !.at = "send"]
  <2>1. /\ txn[p].at = "record" /\ txn[p].all = {i} /\ txn[p].left = {i} /\ Types'
        /\ \/ txn[p].do = "ask" /\ Set2(record', record, p, i, "half") /\ SetTxn(p, t)
           \/ txn[p].do = "confirm" /\ Set2(record', record, p, i, "anew") /\ SetTxn(p, Idle)
        /\ UNCHANGED <<buses, queue, history>>
    BY <1>15, EstablishFacts
  <2>2. t.do = txn[p].do /\ t.all = txn[p].all /\ t.at = "send"
    BY <1>0, AtFacts DEF Ats
  <2> HIDE DEF t
  <2>3. Eases(txn[p], t) /\ Eases(txn[p], Idle)
    BY <2>1, <2>2 DEF Eases
  <2>4. SamePlace(j) /\ Eased(j) /\ Kept(Level, j) /\ CutGrows(j)
    BY <1>0, <2>1, <2>3, EasesSet, EasedBy, KeptLevel, CutStays
       DEF SamePlace, buses, history
  <2>5. CASE j # i
    <3>1. SameBus(j)
      BY <2>1, <2>4, <2>5 DEF SameBus, Set2
    <3>2. Lasts(j)
      BY <2>1, <2>4, <2>5, LastsSet
    <3>3. QED BY <1>0, <2>1, <2>4, <3>1, <3>2, FirmSame
  <2>6. CASE j = i
    <3>1. TxnAt(i)'
      BY <1>0, <2>4, <2>6, TxnSame DEF Firm
    <3>2. \A r \in Picos \ {p} : /\ record'[r][i] = record[r][i]
                                 /\ About(r, i)' => About(r, i)
                                 /\ Loose(r, i) => Loose(r, i)'
      BY <2>1, <2>4, <2>6 DEF Set2, SetTxn, About, Loose, Between, CutGrows
    <3>3. CASE txn[p].do = "confirm" /\ record'[p][i] = "anew"
      <4>1. list[p][i] = "established" /\ <<p, i>> \in cut
        BY <1>0, <2>1, <2>6, <3>3 DEF Firm, TxnAt
      <4>2. i \in Held(p) /\ Loose(p, i)'
        BY <2>4, <2>6, <4>1 DEF Held, Loose, CutGrows
      <4>3. QED BY <1>0, <2>1, <2>4, <2>6, <3>1, <3>2, <4>1, <4>2, FirmRecord
    <3>4. CASE txn[p].do = "ask" /\ record'[p][i] = "half"
      <4>1. Asking(p, i) /\ txn[p].at = "record"
        BY <2>1, <3>4 DEF Asking
      <4>2. list[p][i] = "outbound" /\ peer[peer[p][i]][i] = NoPico
        BY <1>0, <2>6, <4>1 DEF Firm, TxnAt
      <4>3. peer[p][i] \in Picos
        BY <1>0, <2>6, <4>2 DEF Firm, PairAt, Types
      <4>4. approver[i] # peer[p][i]
        BY <1>0, <2>6, <4>2, <4>3 DEF Firm, PairAt
      <4>5. ~HasEvent(p, i, "sky_intro_response")
        BY <1>0, <2>6, <4>4 DEF Firm, EventAt
      <4>6. i \in Held(p)
        BY <4>2 DEF Held
      <4>7. QED BY <1>0, <2>1, <2>4, <2>6, <3>1, <3>2, <3>4, <4>2, <4>5, <4>6, FirmRecord
    <3>5. QED BY <2>1, <3>3, <3>4 DEF Set2
  <2>7. QED BY <2>5, <2>6
<1>16. ASSUME NEW p \in Picos, NEW i \in Ids, splice(p, i) PROVE Firm(j)'
  <2> DEFINE t == Spliced(p, i)
  <2>1. PICK c \in Picos \union {NoPico} : txn[p].caller = c
    BY <1>0 DEF Txns
  <2>2. /\ txn[p].do \in {"cancel", "told"} /\ txn[p].at = "splice" /\ txn[p].left = {i}
        /\ i \in txn[p].all /\ Types' /\ Set2(list', list, p, i, "ended")
        /\ UNCHANGED <<peer, record, queue, history>>
        /\ Ends(p, c, i) \/ SetTxn(p, t)
    BY <1>16, <2>1, SpliceFacts
  <2>3. t.do = txn[p].do /\ t.all = txn[p].all \ {i} /\ t.at = "remove"
    BY SpliceTxns
  <2> HIDE DEF t
  <2>4. \A r \in Picos : Eases(txn[r], txn'[r])
    <3>1. Ends(p, c, i) => \A r \in Picos : Eases(txn[r], txn'[r])
      BY <2>1, EasesEnds
    <3>2. Eases(txn[p], t)
      BY <2>2, <2>3 DEF Eases
    <3>3. QED BY <2>2, <3>1, <3>2, EasesSet
  <2>5. Eased(j) /\ Kept(Level, j) /\ CutGrows(j) /\ approver' = approver
    BY <1>0, <2>2, <2>4, EasedBy, KeptLevel, CutStays DEF history
  <2>6. CASE j # i
    <3>1. SameBus(j)
      BY <2>2, <2>6 DEF SameBus, SamePlace, Set2, history
    <3>2. Lasts(j)
      <4>1. Ends(p, c, i) => Lasts(j)
        BY <2>1, <2>2, <2>5, <2>6, LastsEnds
      <4>2. QED BY <2>2, <2>5, <2>6, <4>1, LastsSet
    <3>3. QED BY <1>0, <2>2, <2>5, <3>1, <3>2, FirmSame
  <2>7. CASE j = i
    <3>1. list[p][i] \in {"outbound", "inbound", "established"}
      BY <1>0, <2>2, <2>7 DEF Firm, TxnAt, Ending, Held
    <3>2. /\ list'[p][i] = "ended"
          /\ \A r \in Picos \ {p} : list'[r][i] = list[r][i]
      BY <2>2 DEF Set2
    <3>3. txn'[p] = Idle \/ (txn'[p] = t /\ txn[p].do = txn'[p].do)
      BY <2>2, <2>3 DEF Ends, SetTxn
    <3>4. /\ ~Asking(p, i)' /\ ~Approving(p, i)' /\ ~Ending(p, i)'
          /\ txn'[p].do # "confirm"
      BY <2>2, <2>3, <3>3, IdleFacts DEF Asking, Approving, Ending
    <3>5. \A r \in Picos \ {p} : Loose(r, i) => Loose(r, i)'
      <4>1. c \in Picos => txn[c].at = "wait"
        BY <2>1, WaitersDo
      <4>2. QED BY <2>2, <2>5, <2>7, <4>1 DEF Ends, SetTxn, Loose, Between, CutGrows
    <3>6. \A r \in Picos : EasedAt(r, i)
      BY <2>5, <2>7 DEF Eased
    <3>7. QED BY <1>0, <2>2, <2>5, <2>7, <3>1, <3>2, <3>4, <3>5, <3>6, FirmMoves
  <2>8. QED BY <2>6, <2>7
<1>17. ASSUME NEW p \in Picos, NEW i \in Ids, Throw(p, i) PROVE Firm(j)'
  <2>1. Types' /\ UNCHANGED <<home, buses, record, queue, approver>>
    BY <1>17, ThrowFacts
  <2>2. SameBus(j) /\ Eased(j) /\ Lasts(j) /\ Kept(Level, j)
    BY <1>17, <2>1, EasesThrow, EasedBy DEF SameBus, SamePlace, buses
  <2>3. QED BY <1>0, <2>1, <2>2, FirmSame
<1>18. CASE UNCHANGED vars
  <2>1. UNCHANGED <<list, peer, record, txn, queue, approver, cut, upset>>
    BY <1>18 DEF vars
  <2>2. SameBus(j) /\ Eased(j) /\ Kept(Level, j)
    BY <1>0, <2>1, KeptLevel
       DEF SameBus, SamePlace, Eased, EasedAt, About, Asking, Approving, Ending
  <2>3. Types'
    BY <1>18, <1>0 DEF vars, Types
  <2>4. Lasts(j)
    BY <2>1, CutStays, LastsBy
  <2>5. QED BY <1>0, <2>2, <2>3, <2>4, FirmSame
<1>19. QED
  BY <1>1, <1>2, <1>3, <1>4, <1>5, <1>6, <1>7, <1>8, <1>9, <1>10, <1>11, <1>12, <1>13,
     <1>14, <1>15, <1>16, <1>17, <1>18 DEF Next, Continue, Serve

-----------------------------------------------------------------------------
(* Relationships that no failure has met.                                   *)

\* Nobody has been told more about i, or less, what settles still does, and who hears
\* of an end or splices has a record no more.
Steady(i) == \A p \in Picos :
  /\ Told(p, i)' <=> Told(p, i)
  /\ Settling(p, i) => Settling(p, i)'
  /\ Heard(p, i)' => Heard(p, i) /\ txn'[p].caller = txn[p].caller
  /\ Splices(p, i)' => Splices(p, i) \/ record'[p][i] = "none"

\* The events about i are the same, but for removals that come last, and for responses
\* that find no request.
SameEvents(i) == \A p \in Picos :
  /\ HasEvent(p, i, "sky_intro")' <=> HasEvent(p, i, "sky_intro")
  /\ list[p][i] = "outbound" =>
       (HasEvent(p, i, "sky_intro_response")' <=> HasEvent(p, i, "sky_intro_response"))
  /\ InOrder(p, i) => InOrder(p, i)'
  /\ Awaited(p, i) => Awaited(p, i)'

LEMMA CalmKept ==
  ASSUME Types, NEW i \in Ids, PairAt(i), CalmAt(i), SamePlace(i), Steady(i), SameEvents(i),
         \A p \in Picos : \/ record'[p][i] = record[p][i] \/ record'[p][i] = "none"
                          \/ i \in Held(p) /\ ~Splices(p, i)'
  PROVE  CalmAt(i)'
<1>1. ASSUME NEW p \in Picos
      PROVE  LET q == peer'[p][i] IN
             /\ peer[p][i] \in Picos \union {NoPico} /\ q = peer[p][i]
             /\ list'[p][i] = list[p][i]
  BY DEF Types, PairAt, SamePlace
<1>2. approver'[i] = approver[i]
  BY DEF SamePlace
<1>3. \A p \in Picos : Gone(p, i)' <=> Gone(p, i)
  BY <1>1 DEF Steady, Gone
<1>4. \A p \in Picos : i \in Held(p) => i \in Held(p)'
  BY <1>1 DEF Held
<1>5. ASSUME NEW p \in Picos, NEW q \in Picos, peer'[p][i] = q
      PROVE  Agrees(p, q, i)'
  <2>1. peer[p][i] = q
    BY <1>1, <1>5
  <2>2. Agrees(p, q, i)
    BY <2>1 DEF CalmAt
  <2>3. list[p][i] = "outbound" =>
          (HasEvent(p, i, "sky_intro_response")' <=> HasEvent(p, i, "sky_intro_response"))
    BY DEF SameEvents
  <2>4. Heard(q, i)' => Heard(q, i)
    BY DEF Steady
  <2>5. QED BY <1>1, <1>2, <1>3, <2>2, <2>3, <2>4 DEF Agrees
<1>6. ASSUME NEW p \in Picos PROVE Tidy(p, i)'
  <2>1. Tidy(p, i)
    BY DEF CalmAt
  <2>2. /\ InOrder(p, i)' /\ Awaited(p, i)'
        /\ HasEvent(p, i, "sky_intro")' <=> HasEvent(p, i, "sky_intro")
    BY <2>1 DEF SameEvents, Tidy
  <2>3. list'[p][i] = "inbound" /\ approver'[i] = p => Settling(p, i)'
    BY <1>1, <1>2, <2>1 DEF Steady, Tidy
  <2>4. record'[p][i] # "none" => i \in Held(p)' \/ HasEvent(p, i, "sky_intro")'
    BY <1>4, <2>1, <2>2 DEF Tidy
  <2>5. Splices(p, i)' => record'[p][i] = "none"
    BY <2>1 DEF Steady, Tidy
  <2>6. Heard(p, i)' => txn'[p].caller # NoPico
    BY <2>1 DEF Steady, Tidy
  <2>7. QED BY <2>2, <2>3, <2>4, <2>5, <2>6 DEF Tidy
<1>7. QED BY <1>5, <1>6 DEF CalmAt

LEMMA CalmSame ==
  ASSUME Types, NEW i \in Ids, PairAt(i), CalmAt(i), SameBus(i), Steady(i), SameEvents(i)
  PROVE  CalmAt(i)'
BY CalmKept DEF SameBus

LEMMA EventsStay ==
  ASSUME queue' = queue, NEW i
  PROVE  SameEvents(i)
BY DEF SameEvents, HasEvent, InOrder, Awaited

\* The queue of q grows by events about others, or by a removal that is waited for.
LEMMA EventsGrow ==
  ASSUME Types, Types', NEW q \in Picos, NEW e, NEW k \in Nat, Grows(q, e, k), NEW i,
         e.id # i \/ (e.kind \in Removals /\ e.caller # NoPico)
  PROVE  SameEvents(i)
<1>1. \A r \in Picos : Len(queue[r]) \in Nat /\ Len(queue'[r]) \in Nat
  BY Lengths, LengthsNext
<1>2. ASSUME NEW r \in Picos, NEW n \in 1 .. Len(queue'[r]), queue'[r][n].id = i
      PROVE  \/ n \in 1 .. Len(queue[r]) /\ queue'[r][n] = queue[r][n]
             \/ /\ n > Len(queue[r]) /\ queue'[r][n].kind \in Removals
                /\ queue'[r][n].caller # NoPico
  BY <1>1, <1>2 DEF Grows
<1>3. ASSUME NEW r \in Picos, NEW n \in 1 .. Len(queue[r])
      PROVE  n \in 1 .. Len(queue'[r]) /\ queue'[r][n] = queue[r][n]
  BY <1>1 DEF Grows
<1>4. ASSUME NEW r \in Picos, NEW kind \in {"sky_intro", "sky_intro_response"}
      PROVE  HasEvent(r, i, kind)' <=> HasEvent(r, i, kind)
  BY <1>2, <1>3 DEF HasEvent, Removals
<1>5. ASSUME NEW r \in Picos, InOrder(r, i) PROVE InOrder(r, i)'
  <2>1. SUFFICES ASSUME NEW m \in 1 .. Len(queue'[r]), NEW n \in 1 .. Len(queue'[r]),
                        queue'[r][m].id = i, queue'[r][m].kind = "sky_intro_response",
                        queue'[r][n].id = i, queue'[r][n].kind # "sky_intro_response"
                 PROVE  m < n
    BY DEF InOrder
  <2>2. m \in 1 .. Len(queue[r]) /\ queue'[r][m] = queue[r][m]
    BY <1>2, <2>1 DEF Removals
  <2>3. CASE n \in 1 .. Len(queue[r]) /\ queue'[r][n] = queue[r][n]
    BY <1>5, <2>1, <2>2, <2>3 DEF InOrder
  <2>4. CASE n > Len(queue[r])
    BY <1>1, <2>2, <2>4
  <2>5. QED BY <1>2, <2>1, <2>3, <2>4
<1>6. ASSUME NEW r \in Picos, Awaited(r, i) PROVE Awaited(r, i)'
  BY <1>2, <1>6 DEF Awaited
<1>7. QED BY <1>4, <1>5, <1>6 DEF SameEvents

\* The first event of q's queue is taken.
LEMMA EventsShrink ==
  ASSUME Types, Types', NEW q \in Picos, Shrinks(q), NEW i, NEW r \in Picos
  PROVE  /\ \A kind : HasEvent(r, i, kind)' => HasEvent(r, i, kind)
         /\ \A kind : /\ HasEvent(r, i, kind)
                      /\ r # q \/ queue[q][1].id # i \/ queue[q][1].kind # kind
                      => HasEvent(r, i, kind)'
         /\ InOrder(r, i) => InOrder(r, i)'
         /\ Awaited(r, i) => Awaited(r, i)'
<1>1. Len(queue[r]) \in Nat /\ Len(queue'[r]) \in Nat
  BY Lengths, LengthsNext
<1>2. CASE r # q
  <2>1. queue'[r] = queue[r]
    BY <1>2 DEF Shrinks
  <2>2. QED BY <2>1 DEF HasEvent, InOrder, Awaited
<1>3. CASE r = q
  <2>1. ASSUME NEW n \in 1 .. Len(queue'[q])
        PROVE  n + 1 \in 1 .. Len(queue[q]) /\ queue'[q][n] = queue[q][n + 1]
    BY <1>1, <1>3 DEF Shrinks
  <2>2. ASSUME NEW n \in 1 .. Len(queue[q])
        PROVE  n = 1 \/ (n - 1 \in 1 .. Len(queue'[q]) /\ queue'[q][n - 1] = queue[q][n])
    BY <1>1, <1>3 DEF Shrinks
  <2>3. \A kind : HasEvent(q, i, kind)' => HasEvent(q, i, kind)
    BY <2>1 DEF HasEvent
  <2>4. \A kind : /\ HasEvent(q, i, kind)
                  /\ queue[q][1].id # i \/ queue[q][1].kind # kind
                  => HasEvent(q, i, kind)'
    BY <2>2 DEF HasEvent
  <2>5. ASSUME InOrder(q, i), NEW m \in 1 .. Len(queue'[q]), NEW n \in 1 .. Len(queue'[q]),
               queue'[q][m].id = i, queue'[q][m].kind = "sky_intro_response",
               queue'[q][n].id = i, queue'[q][n].kind # "sky_intro_response"
        PROVE  m < n
    <3>1. /\ m + 1 \in 1 .. Len(queue[q]) /\ queue'[q][m] = queue[q][m + 1]
          /\ n + 1 \in 1 .. Len(queue[q]) /\ queue'[q][n] = queue[q][n + 1]
      BY <2>1
    <3>2. m + 1 < n + 1
      BY <2>5, <3>1 DEF InOrder
    <3>3. QED BY <1>1, <1>3, <3>2
  <2>6. InOrder(q, i) => InOrder(q, i)'
    BY <2>5 DEF InOrder
  <2>7. Awaited(q, i) => Awaited(q, i)'
    BY <2>1 DEF Awaited
  <2>8. QED BY <1>3, <2>3, <2>4, <2>6, <2>7
<1>4. QED BY <1>2, <1>3

\* It was about another relationship, or a removal, or a response that found no request.
LEMMA EventsTaken ==
  ASSUME Types, Types', NEW q \in Picos, Shrinks(q), NEW i,
         \/ queue[q][1].id # i
         \/ queue[q][1].kind \in Removals
         \/ queue[q][1].kind = "sky_intro_response" /\ list[q][i] # "outbound"
  PROVE  SameEvents(i)
<1>1. queue[q][1].id # i \/ queue[q][1].kind # "sky_intro"
  BY DEF Removals
<1>2. \/ queue[q][1].id # i
      \/ queue[q][1].kind # "sky_intro_response"
      \/ list[q][i] # "outbound"
  BY DEF Removals
<1>3. ASSUME NEW r \in Picos
      PROVE  /\ HasEvent(r, i, "sky_intro")' <=> HasEvent(r, i, "sky_intro")
             /\ list[r][i] = "outbound" =>
                  (HasEvent(r, i, "sky_intro_response")'
                     <=> HasEvent(r, i, "sky_intro_response"))
  BY <1>1, <1>2, EventsShrink
<1>4. QED BY <1>3, EventsShrink DEF SameEvents

\* Nobody waits for P's events any more; the ones about i were not among them.
LEMMA EventsForgotten ==
  ASSUME Types, Types', NEW P, NEW i,
         \A r \in Picos : \/ ~Mentioned(r, i) /\ Len(queue'[r]) = 0
                          \/ Forgets(r, queue'[r], P),
         \A r \in Picos : \A n \in 1 .. Len(queue[r]) :
           queue[r][n].id = i => queue[r][n].caller \notin P
  PROVE  SameEvents(i)
<1>1. ASSUME NEW r \in Picos
      PROVE  /\ \A kind \in {"sky_intro", "sky_intro_response"} :
                  HasEvent(r, i, kind)' <=> HasEvent(r, i, kind)
             /\ InOrder(r, i) => InOrder(r, i)'
             /\ Awaited(r, i) => Awaited(r, i)'
  <2>1. Len(queue[r]) \in Nat /\ Len(queue'[r]) \in Nat
    BY Lengths, LengthsNext
  <2>2. CASE ~Mentioned(r, i) /\ Len(queue'[r]) = 0
    BY <2>1, <2>2 DEF Mentioned, HasEvent, InOrder, Awaited
  <2>3. CASE Forgets(r, queue'[r], P)
    <3>1. /\ Len(queue'[r]) = Len(queue[r])
          /\ \A n \in 1 .. Len(queue[r]) :
               /\ queue'[r][n].kind = queue[r][n].kind /\ queue'[r][n].id = queue[r][n].id
               /\ queue[r][n].id = i => queue'[r][n].caller = queue[r][n].caller
      BY <2>3 DEF Forgets
    <3>2. \A kind : HasEvent(r, i, kind)' <=> HasEvent(r, i, kind)
      BY <3>1 DEF HasEvent
    <3>3. InOrder(r, i) => InOrder(r, i)'
      BY <3>1 DEF InOrder
    <3>4. Awaited(r, i) => Awaited(r, i)'
      BY <3>1 DEF Awaited
    <3>5. QED BY <3>2, <3>3, <3>4
  <2>4. QED BY <2>2, <2>3
<1>2. QED BY <1>1 DEF SameEvents

\* The same for a transaction that becomes another.
Alike(t, u, i) ==
  /\ u.do = "cancel" /\ i \in u.all /\ (i \notin u.left \/ u.at = "splice") <=>
     t.do = "cancel" /\ i \in t.all /\ (i \notin t.left \/ t.at = "splice")
  /\ t.do \in {"accept", "approve"} /\ i \in t.all /\ t.at = "settle" =>
       u.do \in {"accept", "approve"} /\ i \in u.all /\ u.at = "settle"
  /\ u.do = "told" /\ i \in u.all => t.do = "told" /\ i \in t.all /\ u.caller = t.caller
  /\ u.at = "splice" /\ i \in u.left => t.at = "splice" /\ i \in t.left

LEMMA SteadyBy ==
  ASSUME NEW i, \A r \in Picos : Alike(txn[r], txn'[r], i)
  PROVE  Steady(i)
<1>1. ASSUME NEW p \in Picos
      PROVE  /\ Told(p, i)' <=> Told(p, i)
             /\ Settling(p, i) => Settling(p, i)'
  BY DEF Alike, Told, Settling, Approving
<1>2. ASSUME NEW p \in Picos
      PROVE  /\ Heard(p, i)' => Heard(p, i) /\ txn'[p].caller = txn[p].caller
             /\ Splices(p, i)' => Splices(p, i)
  BY DEF Alike, Heard, Splices
<1>3. QED BY <1>1, <1>2 DEF Steady

LEMMA SteadySet ==
  ASSUME NEW p \in Picos, NEW t, SetTxn(p, t), NEW i, Alike(txn[p], t, i)
  PROVE  Steady(i)
<1>1. \A r \in Picos : Alike(txn[r], txn'[r], i)
  BY DEF SetTxn, Alike
<1>2. QED BY <1>1, SteadyBy

LEMMA AlikeIdle ==
  ASSUME NEW t, NEW i, i \notin t.all
  PROVE  Alike(t, Idle, i)
BY IdleFacts DEF Alike

LEMMA AlikeReply ==
  ASSUME NEW t \in Txns, t.do \in {"ask", "cancel"}, t.at # "splice", NEW j, NEW i,
         i # j \/ t.do = "ask"
  PROVE  Alike(t, AfterReply(t, j), i)
<1>1. CASE t.do = "ask"
  BY <1>1, ReplyFacts, IdleFacts DEF Alike
<1>2. CASE t.do = "cancel"
  <2> DEFINE u == AfterReply(t, j)
  <2>1. /\ u.do = t.do /\ u.all = t.all /\ u.left = t.left \ {j}
        /\ u.at \in {"remove", "send"}
    BY <1>2, ReplyFacts, NoticeFacts
  <2> HIDE DEF u
  <2>2. Alike(t, u, i)
    BY <1>2, <2>1 DEF Alike
  <2>3. QED BY <2>2 DEF u
<1>3. QED BY <1>1, <1>2

\* q, whose transaction is over, was not about to settle i; c waited for it.
LEMMA SteadyEnds ==
  ASSUME TypeInv, WaitInv, NEW q \in Picos, NEW c \in Picos \union {NoPico}, NEW j,
         Ends(q, c, j), NEW i, ~Settling(q, i), txn[q].do # "cancel" \/ i \notin txn[q].all,
         c \in Picos => /\ txn[c].do \in {"ask", "cancel"} /\ txn[c].at = "wait"
                        /\ i # j \/ txn[c].do = "ask"
  PROVE  Steady(i)
<1>1. \A r \in Picos : txn[r] \in Txns
  BY DEF TypeInv, Types
<1>2. Alike(txn[q], Idle, i)
  BY IdleFacts DEF Alike, Settling, Approving
<1>3. c \in Picos => Alike(txn[c], AfterReply(txn[c], j), i)
  BY <1>1, AlikeReply
<1>4. \A r \in Picos : Alike(txn[r], txn[r], i)
  BY DEF Alike
<1>5. \A r \in Picos : Alike(txn[r], txn'[r], i)
  BY <1>2, <1>3, <1>4 DEF Ends
<1>6. QED BY <1>5, SteadyBy

\* It is enough to look at the two picos of a relationship.
LEMMA CalmPair ==
  ASSUME NEW i, NEW p \in Picos, NEW q \in Picos, p # q,
         peer'[p][i] = q, peer'[q][i] \in {p, NoPico},
         \A r \in Picos \ {p, q} : /\ peer'[r][i] = NoPico /\ list'[r][i] = "none"
                                   /\ record'[r][i] = "none" /\ ~Mentioned(r, i)'
                                   /\ ~About(r, i)',
         Tidy(p, i)', Tidy(q, i)', Agrees(p, q, i)', Agrees(q, p, i)'
  PROVE  CalmAt(i)'
<1>1. \A r \in Picos \ {p, q} : Tidy(r, i)'
  <2>1. SUFFICES ASSUME NEW r \in Picos \ {p, q} PROVE Tidy(r, i)'
    OBVIOUS
  <2>2. InOrder(r, i)' /\ Awaited(r, i)'
    BY DEF InOrder, Awaited, Mentioned
  <2>3. QED BY <2>2 DEF Tidy, Heard, About
<1>2. NoPico \notin Picos
  BY SkyAssumption DEF SkyAssumption
<1>3. QED BY <1>1, <1>2 DEF CalmAt

\* Nothing was there before, and nobody has been told anything.
LEMMA CalmAsk ==
  ASSUME TypeInv, NEW p \in Picos, NEW q \in Picos, NEW i \in Ids, Firm(i), Ask(p, q, i)
  PROVE  CalmAt(i)'
<1> DEFINE t == Txn("ask", {i}, "record", NoPico)
<1>1. /\ p # q /\ txn[p] = Idle /\ \A r \in Picos : list[r][i] = "none"
      /\ Types' /\ Set2(list', list, p, i, "outbound")
      /\ Set2(peer', peer, p, i, q) /\ record' = record
      /\ SetTxn(p, t) /\ queue' = queue /\ approver' = approver
  BY AskFacts DEF history
<1>2. t.do = "ask" /\ t.at = "record"
  BY DEF Txn
<1> HIDE DEF t
<1>3. p # NoPico /\ q # NoPico /\ NoPico \notin Picos
  BY SkyAssumption DEF SkyAssumption
<1>4. \A r \in Picos : peer[r][i] = NoPico
  BY <1>1, <1>3 DEF Firm, PairAt, TypeInv, Types
<1>5. \A r \in Picos : Blank(r, i)
  BY <1>4 DEF Firm, PairAt, Blank
<1>6. approver'[i] # p /\ approver'[i] # q
  BY <1>1, <1>5 DEF Blank
<1>7. \A r \in Picos : ~Mentioned(r, i)'
  BY <1>1, <1>5 DEF Blank, Mentioned
<1>8. /\ \A r \in Picos : InOrder(r, i)' /\ Awaited(r, i)'
      /\ \A r \in Picos : ~HasEvent(r, i, "sky_intro_response")'
  BY <1>7 DEF Mentioned, InOrder, Awaited, HasEvent
<1>9. \A r \in Picos \ {p} : /\ list'[r][i] = "none" /\ record'[r][i] = "none"
                             /\ peer'[r][i] = NoPico /\ ~About(r, i)'
  BY <1>1, <1>4, <1>5 DEF Blank, Set2, SetTxn, About
<1>10. /\ list'[p][i] = "outbound" /\ peer'[p][i] = q /\ txn'[p].do = "ask"
       /\ i \in Held(p)' /\ txn'[p].at = "record"
  BY <1>1, <1>2 DEF Set2, SetTxn, Held
<1>11. /\ ~Gone(p, i)' /\ ~Gone(q, i)' /\ ~Heard(p, i)' /\ ~Heard(q, i)'
       /\ ~Splices(p, i)'
  BY <1>1, <1>9, <1>10 DEF Gone, Told, Heard, Splices, About
<1>12. Agrees(p, q, i)' /\ Agrees(q, p, i)'
  BY <1>1, <1>6, <1>9, <1>11 DEF Agrees
<1>13. Tidy(p, i)' /\ Tidy(q, i)'
  BY <1>1, <1>8, <1>9, <1>10, <1>11 DEF Tidy
<1>14. QED BY <1>1, <1>7, <1>9, <1>10, <1>12, <1>13, CalmPair

LEMMA CalmIntroduce ==
  ASSUME TypeInv, PairInv, NEW p \in Picos, NEW i \in Ids, Firm(i), CalmAt(i),
         NEW q \in Picos, peer[p][i] = q,
         Asking(p, i), txn[p].at = "send", Types', list' = list, approver' = approver,
         Set2(record', record, q, i, "linked"), Set2(peer', peer, q, i, p),
         Grows(q, Event("sky_intro", i, p), 1), SetTxn(p, [txn[p] EXCEPT !.at = "wait"])
  PROVE  CalmAt(i)'
<1> DEFINE t == [txn[p] EXCEPT !.at = "wait"]
           e == Event("sky_intro", i, p)
<1>1. t.do = "ask" /\ t.all = txn[p].all /\ t.at = "wait"
  BY AtFacts DEF Asking, Ats, TypeInv, Types
<1>2. e.kind = "sky_intro" /\ e.id = i /\ e.caller = p
  BY DEF Event
<1> HIDE DEF t, e
<1>3. SetTxn(p, t) /\ Grows(q, e, 1)
  BY DEF t, e
<1>4. p # NoPico /\ q # NoPico /\ NoPico \notin Picos
  BY SkyAssumption DEF SkyAssumption
<1>5. p # q /\ peer[q][i] = NoPico /\ list[p][i] = "outbound" /\ approver[i] # p
  BY PairOf DEF Firm, TxnAt, ListAt, TypeInv
<1>6. /\ \A r \in Picos \ {p, q} : peer[r][i] = NoPico /\ Blank(r, i)
      /\ Blank(q, i) /\ approver[i] = NoPico
  BY <1>5, PairOf DEF Firm, Blank, TypeInv
<1>7. \A r \in Picos : Len(queue[r]) \in Nat /\ Len(queue'[r]) \in Nat
  BY Lengths, LengthsNext DEF TypeInv
<1>8. \A r \in Picos \ {p, q} : ~Mentioned(r, i)'
  BY <1>3, <1>6 DEF Grows, Blank, Mentioned
<1>9. /\ ~HasEvent(p, i, "sky_intro_response")'
      /\ InOrder(p, i)' /\ Awaited(p, i)'
  <2>1. ~HasEvent(p, i, "sky_intro_response")
    BY <1>4, <1>6 DEF Firm, EventAt
  <2>2. queue'[p] = queue[p]
    BY <1>3, <1>5 DEF Grows
  <2>3. QED BY <2>1, <2>2 DEF HasEvent, InOrder, Awaited, CalmAt, Tidy
<1>10. \A n \in 1 .. Len(queue'[q]) : queue'[q][n].id = i =>
         /\ n = Len(queue[q]) + 1
         /\ queue'[q][n].kind = "sky_intro" /\ queue'[q][n].caller = p
  BY <1>2, <1>3, <1>6, <1>7 DEF Grows, Blank, Mentioned
<1>11. InOrder(q, i)' /\ Awaited(q, i)' /\ HasEvent(q, i, "sky_intro")'
  <2>1. InOrder(q, i)' /\ Awaited(q, i)'
    BY <1>4, <1>10 DEF InOrder, Awaited
  <2>2. /\ Len(queue[q]) + 1 \in 1 .. Len(queue'[q])
        /\ queue'[q][Len(queue[q]) + 1] = e
    BY <1>3, <1>7 DEF Grows
  <2>3. QED BY <1>2, <2>1, <2>2 DEF HasEvent
<1>12. \A r \in Picos \ {p, q} : /\ list'[r][i] = "none" /\ record'[r][i] = "none"
                                /\ peer'[r][i] = NoPico /\ ~About(r, i)'
  BY <1>3, <1>6 DEF Blank, Set2, SetTxn, About
<1>13. /\ list'[p][i] = "outbound" /\ peer'[p][i] = q /\ i \in Held(p)'
       /\ txn'[p].do = "ask" /\ list'[q][i] = "none" /\ peer'[q][i] = p
       /\ ~About(q, i)' /\ approver'[i] = NoPico /\ txn'[p].at = "wait"
       /\ txn'[q] = txn[q]
  BY <1>1, <1>3, <1>5, <1>6 DEF Set2, SetTxn, Blank, About, Held
<1>14. /\ ~Gone(p, i)' /\ ~Gone(q, i)' /\ ~Heard(p, i)' /\ ~Heard(q, i)'
       /\ ~Splices(p, i)' /\ ~Splices(q, i)'
  <2>1. ~Splices(q, i)
    BY <1>6 DEF Splices, Blank, About, TypeInv, Shape
  <2>2. QED BY <1>13, <2>1 DEF Gone, Told, Heard, Splices, About
<1>15. Agrees(p, q, i)' /\ Agrees(q, p, i)'
  BY <1>4, <1>13, <1>14 DEF Agrees
<1>16. Tidy(p, i)' /\ Tidy(q, i)'
  BY <1>9, <1>11, <1>13, <1>14 DEF Tidy
<1>17. QED BY <1>5, <1>8, <1>12, <1>13, <1>15, <1>16, CalmPair

\* What is known of the two picos of a relationship.
LEMMA CalmParts ==
  ASSUME TypeInv, NEW i \in Ids, Firm(i), CalmAt(i),
         NEW p \in Picos, NEW q \in Picos, peer[p][i] = q
  PROVE  /\ p # q /\ peer[q][i] \in {p, NoPico} /\ NoPico \notin Picos
         /\ \A r \in Picos \ {p, q} : peer[r][i] = NoPico /\ Blank(r, i)
         /\ list[q][i] # "none" \/ Mentioned(q, i) \/ About(q, i) => peer[q][i] = p
         /\ approver[i] \in {p, q, NoPico}
         /\ Tidy(p, i) /\ Tidy(q, i) /\ Agrees(p, q, i) /\ Agrees(q, p, i)
<1>1. NoPico \notin Picos
  BY SkyAssumption DEF SkyAssumption
<1>2. /\ p # q /\ peer[q][i] \in {p, NoPico}
      /\ \A r \in Picos \ {p, q} : peer[r][i] = NoPico /\ Blank(r, i)
      /\ peer[q][i] = NoPico => Blank(q, i)
      /\ list[q][i] # "none" \/ Mentioned(q, i) \/ About(q, i) => peer[q][i] = p
      /\ approver[i] \in {p, q, NoPico}
  BY PairOf DEF Firm, TypeInv
<1>3. Tidy(p, i) /\ Tidy(q, i) /\ Agrees(p, q, i)
  BY DEF CalmAt
<1>4. Agrees(q, p, i)
  <2>1. CASE peer[q][i] = p
    BY <2>1 DEF CalmAt
  <2>2. CASE peer[q][i] = NoPico
    <3>1. Blank(q, i)
      BY <1>2, <2>2
    <3>2. list[q][i] = "none" /\ ~Gone(q, i)
      BY <3>1 DEF Blank, Gone, Told, About
    <3>3. QED BY <3>2 DEF Agrees
  <2>3. QED BY <1>2, <2>1, <2>2
<1>5. QED BY <1>1, <1>2, <1>3, <1>4

\* A step of the two that leaves the others alone.
LEMMA CalmTwo ==
  ASSUME Types, NEW i \in Ids, PairAt(i), NEW p \in Picos, NEW q \in Picos, peer[p][i] = q,
         \A r \in Picos : peer'[r][i] = peer[r][i],
         \A r \in Picos \ {p, q} : /\ list'[r][i] = list[r][i]
                                   /\ record'[r][i] = record[r][i]
                                   /\ queue'[r] = queue[r]
                                   /\ About(r, i)' => About(r, i),
         Tidy(p, i)', Tidy(q, i)', Agrees(p, q, i)', Agrees(q, p, i)'
  PROVE  CalmAt(i)'
<1>1. /\ p # q /\ peer[q][i] \in {p, NoPico}
      /\ \A r \in Picos \ {p, q} : peer[r][i] = NoPico /\ Blank(r, i)
  BY PairOf
<1>2. peer'[p][i] = q /\ peer'[q][i] \in {p, NoPico}
  BY <1>1
<1>3. \A r \in Picos \ {p, q} : /\ peer'[r][i] = NoPico /\ list'[r][i] = "none"
                                /\ record'[r][i] = "none" /\ ~Mentioned(r, i)'
                                /\ ~About(r, i)'
  BY <1>1 DEF Blank, Mentioned
<1>4. QED BY <1>1, <1>2, <1>3, CalmPair

\* Who hears of an end hears it from the other pico, which waits; and who is about to
\* splice has heard of it, or told.
LEMMA HeardOf ==
  ASSUME TypeInv, WaitInv, NEW i \in Ids, Firm(i), CalmAt(i), NEW q \in Picos, Heard(q, i)
  PROVE  \E p \in Picos : /\ txn[q].caller = p /\ peer[p][i] = q /\ peer[q][i] = p
                          /\ txn[p].at = "wait" /\ txn[p].do = "cancel"
                          /\ i \in txn[p].left
<1>1. txn[q] \in Txns /\ txn[q].caller # NoPico
  BY DEF CalmAt, Tidy, TypeInv, Types
<1>2. PICK p \in Picos : txn[q].caller = p
  BY <1>1 DEF Txns
<1>3. /\ txn[p].at = "wait" /\ i \in txn[p].left /\ peer[p][i] = q
      /\ txn[p].do = "cancel" /\ About(q, i)
  BY <1>1, <1>2 DEF WaitInv, Heard, About
<1>4. peer[q][i] = p
  BY <1>3, CalmParts
<1>5. QED BY <1>2, <1>3, <1>4

LEMMA SplicesOf ==
  ASSUME TypeInv, NEW i, NEW p \in Picos, Splices(p, i)
  PROVE  Told(p, i) \/ Heard(p, i)
BY DEF TypeInv, Shape, Steps, Splices, Told, Heard

\* What one of them is told, where its transaction and list are as before.
LEMMA GoneSame ==
  ASSUME NEW r \in Picos, NEW i, txn'[r] = txn[r], list'[r][i] = list[r][i]
  PROVE  /\ Gone(r, i)' <=> Gone(r, i)
         /\ Settling(r, i)' <=> Settling(r, i)
         /\ i \in Held(r)' <=> i \in Held(r)
         /\ Heard(r, i)' <=> Heard(r, i)
         /\ Splices(r, i)' <=> Splices(r, i)
BY DEF Gone, Told, Settling, Approving, Held, Heard, Splices

LEMMA QueueSame ==
  ASSUME NEW r \in Picos, NEW i, queue'[r] = queue[r]
  PROVE  /\ InOrder(r, i)' <=> InOrder(r, i)
         /\ Awaited(r, i)' <=> Awaited(r, i)
         /\ \A kind : HasEvent(r, i, kind)' <=> HasEvent(r, i, kind)
BY DEF InOrder, Awaited, HasEvent

\* An event about i that is waited for is waited for by the other pico.
LEMMA CallerIsPeer ==
  ASSUME TypeInv, WaitInv, NEW i \in Ids, Firm(i), CalmAt(i), NEW q \in Picos,
         NEW n \in 1 .. Len(queue[q]), queue[q][n].id = i,
         queue[q][n].kind # "sky_intro_response"
  PROVE  \E p \in Picos : /\ queue[q][n].caller = p /\ peer[p][i] = q /\ peer[q][i] = p
                          /\ txn[p].at = "wait" /\ i \in txn[p].left
                          /\ \/ txn[p].do = "ask" /\ queue[q][n].kind = "sky_intro"
                             \/ /\ txn[p].do = "cancel"
                                /\ queue[q][n].kind = NoticeOf(list[p][i])
<1>1. queue[q][n].caller # NoPico
  BY DEF CalmAt, Tidy, Awaited
<1>2. queue[q][n] \in Events
  BY Lengths DEF TypeInv
<1>3. PICK p \in Picos : queue[q][n].caller = p
  BY <1>1, <1>2 DEF Events
<1>4. /\ txn[p].at = "wait" /\ i \in txn[p].left /\ peer[p][i] = q
      /\ \/ txn[p].do = "ask" /\ queue[q][n].kind = "sky_intro"
         \/ txn[p].do = "cancel" /\ queue[q][n].kind = NoticeOf(list[p][i])
  BY <1>1, <1>3 DEF WaitInv
<1>5. Mentioned(q, i)
  BY DEF Mentioned
<1>6. peer[q][i] = p
  BY <1>4, <1>5, CalmParts
<1>7. QED BY <1>3, <1>4, <1>6

\* The response is queued for a pico that still asks, before anything else about i.
LEMMA CalmLinkWrite ==
  ASSUME TypeInv, WaitInv, Types', NEW q \in Picos, NEW i \in Ids, Firm(i), CalmAt(i),
         Approving(q, i), txn[q].at = "write",
         NEW p \in Picos, peer[q][i] = p, list' = list, peer' = peer,
         NEW v, Set2(record', record, p, i, v),
         NEW k \in Nat \ {0}, Grows(p, Response(i), k), approver'[i] = q,
         SetTxn(q, [txn[q] EXCEPT !.at = "settle"])
  PROVE  CalmAt(i)'
<1> DEFINE t == [txn[q] EXCEPT !.at = "settle"]
           e == Response(i)
<1>1. t.do = txn[q].do /\ t.all = txn[q].all /\ t.at = "settle"
  BY AtFacts DEF Ats, TypeInv, Types
<1>2. e.kind = "sky_intro_response" /\ e.id = i
  BY DEF Response, Event
<1> HIDE DEF t, e
<1>3. SetTxn(q, t) /\ Grows(p, e, k)
  BY DEF t, e
<1>4. /\ p # q /\ NoPico \notin Picos
      /\ Tidy(p, i) /\ Tidy(q, i) /\ Agrees(p, q, i)
      /\ approver[i] \in {p, q, NoPico}
      /\ list[p][i] # "none" => peer[p][i] = q
      /\ \A r \in Picos \ {p, q} : peer[r][i] = NoPico /\ Blank(r, i)
  BY CalmParts
<1>5. list[q][i] = "inbound" /\ list[p][i] \in {"outbound", "established", "ended"}
  BY DEF Firm, TxnAt, ListAt
<1>6. peer[p][i] = q
  BY <1>4, <1>5
<1>7. approver[i] = NoPico
  <2>1. approver[i] # q
    BY <1>4, <1>5 DEF Tidy, Settling
  <2>2. approver[i] # p
    BY <1>5, <1>6 DEF Firm, ListAt
  <2>3. QED BY <1>4, <2>1, <2>2
<1>8. ~Gone(q, i)
  BY <1>5 DEF Gone, Told, Approving
<1>9. list[p][i] = "outbound" /\ ~Gone(p, i)
  <2>1. ~Gone(p, i)
    BY <1>5, <1>6, <1>8 DEF CalmAt, Agrees
  <2>2. list[p][i] # "established"
    BY <1>7 DEF Firm, ListAt
  <2>3. QED BY <1>5, <2>1, <2>2 DEF Gone
<1>10. ASSUME NEW n \in 1 .. Len(queue[p]), queue[p][n].id = i PROVE FALSE
  <2>1. CASE queue[p][n].kind = "sky_intro_response"
    <3>1. HasEvent(p, i, "sky_intro_response")
      BY <1>10, <2>1 DEF HasEvent
    <3>2. approver[i] = q
      BY <1>6, <3>1 DEF Firm, EventAt
    <3>3. QED BY <1>4, <1>7, <3>2
  <2>2. CASE queue[p][n].kind # "sky_intro_response"
    <3>1. PICK c \in Picos : peer[c][i] = p /\ txn[c].at = "wait"
      BY <1>10, <2>2, CallerIsPeer
    <3>2. c = q
      BY <1>4, <1>6, <3>1
    <3>3. QED BY <3>1, <3>2
  <2>3. QED BY <2>1, <2>2
<1>11. /\ InOrder(p, i)' /\ Awaited(p, i)' /\ HasEvent(p, i, "sky_intro_response")'
  <2>1. Len(queue[p]) \in Nat /\ Len(queue'[p]) \in Nat
    BY Lengths, LengthsNext DEF TypeInv
  <2>2. \A n \in 1 .. Len(queue'[p]) : queue'[p][n].id = i =>
          queue'[p][n].kind = "sky_intro_response"
    BY <1>2, <1>3, <1>10, <2>1 DEF Grows
  <2>3. InOrder(p, i)' /\ Awaited(p, i)'
    BY <2>2 DEF InOrder, Awaited
  <2>4. \E n \in 1 .. Len(queue'[p]) : queue'[p][n] = e
    <3>1. /\ Len(queue'[p]) = Len(queue[p]) + k
          /\ \A n \in 1 .. Len(queue[p]) + k :
               queue'[p][n] = IF n <= Len(queue[p]) THEN queue[p][n] ELSE e
      BY <1>3 DEF Grows
    <3>2. Len(queue[p]) + k \in 1 .. Len(queue[p]) + k /\ ~(Len(queue[p]) + k <= Len(queue[p]))
      BY <2>1
    <3>3. queue'[p][Len(queue[p]) + k] = e
      BY <3>1, <3>2
    <3>4. QED BY <3>1, <3>2, <3>3
  <2>5. QED BY <1>2, <2>3, <2>4 DEF HasEvent
<1>12. queue'[q] = queue[q] /\ txn'[p] = txn[p] /\ txn'[q] = t
       /\ \A r \in Picos \ {p, q} : queue'[r] = queue[r] /\ record'[r][i] = record[r][i]
       /\ record'[q][i] = record[q][i]
  BY <1>3, <1>4 DEF Grows, SetTxn, Set2
<1>13. /\ Settling(q, i)' /\ ~Gone(q, i)' /\ ~Gone(p, i)'
       /\ i \in Held(p)' /\ i \in Held(q)'
  BY <1>1, <1>5, <1>9, <1>12 DEF Settling, Approving, Gone, Told, Held
<1>14. ~Heard(p, i)' /\ ~Splices(p, i)' /\ ~Heard(q, i)' /\ ~Splices(q, i)'
  <2>1. ~Heard(p, i)
    <3>1. SUFFICES ASSUME Heard(p, i) PROVE FALSE
      OBVIOUS
    <3>2. PICK c \in Picos : peer[p][i] = c /\ txn[c].at = "wait"
      BY <3>1, HeardOf
    <3>3. QED BY <1>6, <3>2
  <2>2. ~Splices(p, i)
    BY <1>9, <2>1, SplicesOf DEF Gone
  <2>3. QED BY <1>1, <1>12, <2>1, <2>2 DEF Heard, Splices, Approving
<1>15. Tidy(p, i)' /\ Tidy(q, i)'
  <2>1. Tidy(p, i)'
    BY <1>9, <1>11, <1>13, <1>14 DEF Tidy
  <2>2. Tidy(q, i)'
    BY <1>4, <1>12, <1>13, <1>14, QueueSame DEF Tidy
  <2>3. QED BY <2>1, <2>2
<1>16. Agrees(p, q, i)' /\ Agrees(q, p, i)'
  BY <1>5, <1>11, <1>13, <1>14 DEF Agrees
<1>17. /\ Types /\ PairAt(i) /\ \A r \in Picos : peer'[r][i] = peer[r][i]
       /\ \A r \in Picos \ {p, q} : About(r, i)' => About(r, i)
  BY <1>3 DEF TypeInv, Firm, SetTxn, About
<1>18. QED BY <1>4, <1>12, <1>15, <1>16, <1>17, CalmTwo

\* The approval is done: nobody has been told of an end.
LEMMA CalmSettle ==
  ASSUME TypeInv, WaitInv, NEW q \in Picos, NEW i \in Ids, Firm(i), CalmAt(i),
         Settling(q, i), Set2(list', list, q, i, "established"),
         Ends(q, txn[q].caller, i), peer' = peer, record' = record, queue' = queue,
         approver' = approver
  PROVE  CalmAt(i)'
<1>1. PICK p \in Picos : peer[q][i] = p
  <2>1. list[q][i] = "inbound"
    BY DEF Firm, TxnAt, Settling
  <2>2. QED BY <2>1 DEF Firm, PairAt, TypeInv, Types
<1>2. /\ p # q /\ NoPico \notin Picos
      /\ Tidy(p, i) /\ Tidy(q, i) /\ Agrees(p, q, i) /\ Agrees(q, p, i)
      /\ list[p][i] # "none" => peer[p][i] = q
  BY <1>1, CalmParts
<1>3. /\ list[q][i] = "inbound" /\ list[p][i] \in {"outbound", "established", "ended"}
      /\ approver[i] = q
  BY <1>1 DEF Firm, TxnAt, ListAt, Settling
<1>4. ~Gone(q, i) /\ ~Gone(p, i)
  <2>1. ~Gone(q, i)
    BY <1>3 DEF Gone, Told, Settling, Approving
  <2>2. QED BY <1>2, <1>3, <2>1 DEF Agrees
<1>5. /\ txn'[q] = Idle
      /\ txn'[p] = txn[p] \/ txn'[p] = Idle
  <2>1. txn[q].caller = p => txn[p].do = "ask"
    BY <1>2 DEF WaitInv, Settling, Approving
  <2>2. txn[p] \in Txns
    BY DEF TypeInv, Types
  <2>3. txn[p].do = "ask" => AfterReply(txn[p], i) = Idle
    BY <2>2, ReplyFacts
  <2>4. QED BY <1>2, <2>1, <2>3 DEF Ends
<1>6. /\ list'[q][i] = "established"
      /\ \A r \in Picos \ {q} : list'[r][i] = list[r][i]
  BY DEF Set2
<1>7. ~Gone(q, i)' /\ ~Gone(p, i)'
  BY <1>2, <1>4, <1>5, <1>6, IdleFacts DEF Gone, Told
<1>8. /\ i \in Held(q)' /\ (i \in Held(p) => i \in Held(p)')
      /\ ~Heard(q, i)' /\ ~Splices(q, i)'
      /\ Heard(p, i)' => Heard(p, i) /\ txn'[p].caller = txn[p].caller
      /\ Splices(p, i)' => Splices(p, i)
  BY <1>2, <1>5, <1>6, IdleFacts DEF Held, Heard, Splices
<1>9. Tidy(p, i)'
  BY <1>2, <1>3, <1>6, <1>8, QueueSame DEF Tidy
<1>10. Tidy(q, i)'
  BY <1>2, <1>6, <1>8, QueueSame DEF Tidy
<1>11. Agrees(p, q, i)' /\ Agrees(q, p, i)'
  BY <1>2, <1>6, <1>7, <1>8, QueueSame DEF Agrees
<1>12. /\ Types /\ PairAt(i) /\ \A r \in Picos : peer'[r][i] = peer[r][i]
       /\ \A r \in Picos \ {p, q} : About(r, i)' => About(r, i)
  <2>1. txn[q].caller \in Picos => peer[txn[q].caller][i] = q
    BY <1>2 DEF WaitInv, Settling, Approving
  <2>2. \A r \in Picos \ {p, q} : peer[r][i] = NoPico
    BY <1>1, CalmParts
  <2>3. \A r \in Picos \ {p, q} : txn'[r] = txn[r]
    BY <1>2, <2>1, <2>2 DEF Ends
  <2>4. QED BY <2>3 DEF TypeInv, Firm, About
<1>13. QED BY <1>1, <1>6, <1>9, <1>10, <1>11, <1>12, CalmTwo

\* The introduction is served while the asking pico waits for it.
LEMMA CalmPending ==
  ASSUME TypeInv, WaitInv, Types', NEW q \in Picos, NEW i \in Ids, Firm(i), CalmAt(i),
         txn[q] = Idle, 1 \in 1 .. Len(queue[q]),
         queue[q][1].id = i, queue[q][1].kind = "sky_intro", Shrinks(q),
         Set2(list', list, q, i, "inbound"),
         peer' = peer, record' = record, approver' = approver,
         Ends(q, queue[q][1].caller, i)
           \/ SetTxn(q, Txn("accept", {i}, "read", queue[q][1].caller))
  PROVE  CalmAt(i)'
<1>1. PICK p \in Picos : /\ queue[q][1].caller = p /\ peer[p][i] = q /\ peer[q][i] = p
                         /\ i \in txn[p].left /\ txn[p].do = "ask"
  BY CallerIsPeer DEF NoticeOf
<1>2. /\ p # q /\ NoPico \notin Picos
      /\ Tidy(p, i) /\ Tidy(q, i) /\ Agrees(p, q, i) /\ Agrees(q, p, i)
  BY <1>1, CalmParts
<1>3. txn[p] \in Txns /\ Shape(txn[p])
  BY DEF TypeInv, Types
<1>4. list[p][i] = "outbound" /\ ~Gone(p, i)
  BY <1>1, <1>3 DEF Firm, TxnAt, Asking, Shape, Gone, Told
<1>5. HasEvent(q, i, "sky_intro")
  BY DEF HasEvent
<1>6. approver[i] = NoPico
  BY <1>5 DEF Firm, EventAt
<1>7. /\ txn'[q].do \notin {"cancel", "told"} /\ txn'[q].at # "splice"
      /\ txn'[p] = txn[p] \/ txn'[p] = Idle
      /\ \A r \in Picos \ {p, q} : txn'[r] = txn[r]
  <2>1. AfterReply(txn[p], i) = Idle
    BY <1>1, <1>3, ReplyFacts
  <2>2. Idle.do \notin {"cancel", "told"} /\ Idle.at # "splice"
    BY IdleFacts
  <2>3. CASE Ends(q, p, i)
    BY <1>2, <2>1, <2>2, <2>3 DEF Ends
  <2>4. CASE SetTxn(q, Txn("accept", {i}, "read", p))
    BY <1>2, <2>4 DEF SetTxn, Txn
  <2>5. QED BY <1>1, <2>3, <2>4
<1>8. list'[q][i] = "inbound" /\ \A r \in Picos \ {q} : list'[r][i] = list[r][i]
  BY DEF Set2
<1>9. ~Gone(q, i)' /\ ~Gone(p, i)'
  BY <1>1, <1>2, <1>4, <1>7, <1>8, IdleFacts DEF Gone, Told
<1>10. /\ i \in Held(q)' /\ i \in Held(p)'
       /\ ~Heard(q, i)' /\ ~Splices(q, i)' /\ ~Heard(p, i)' /\ ~Splices(p, i)'
  <2>1. ~Heard(p, i) /\ ~Splices(p, i)
    BY <1>1, <1>3 DEF Heard, Splices, Shape, Steps
  <2>2. QED BY <1>2, <1>4, <1>7, <1>8, <2>1, IdleFacts DEF Held, Heard, Splices
<1>11. /\ InOrder(q, i)' /\ Awaited(q, i)'
       /\ \A r \in Picos \ {q} : queue'[r] = queue[r]
  <2>1. Types
    BY DEF TypeInv
  <2>2. QED BY <1>2, <2>1, EventsShrink DEF Tidy, Shrinks
<1>12. Tidy(q, i)'
  BY <1>2, <1>6, <1>10, <1>11 DEF Tidy
<1>13. Tidy(p, i)'
  BY <1>2, <1>4, <1>8, <1>10, <1>11, QueueSame DEF Tidy
<1>14. Agrees(p, q, i)' /\ Agrees(q, p, i)'
  BY <1>2, <1>6, <1>8, <1>9, <1>10 DEF Agrees
<1>15. /\ Types /\ PairAt(i) /\ \A r \in Picos : peer'[r][i] = peer[r][i]
       /\ \A r \in Picos \ {p, q} : About(r, i)' => About(r, i)
  BY <1>7 DEF TypeInv, Firm, About
<1>16. QED BY <1>1, <1>8, <1>11, <1>12, <1>13, <1>14, <1>15, CalmTwo

\* The first response is served, and nobody has been told of an end.
LEMMA CalmConfirm ==
  ASSUME TypeInv, WaitInv, Types', NEW p \in Picos, NEW i \in Ids, Firm(i), CalmAt(i),
         txn[p] = Idle, list[p][i] = "outbound", 1 \in 1 .. Len(queue[p]),
         queue[p][1].id = i, queue[p][1].kind = "sky_intro_response", Shrinks(p),
         Set2(list', list, p, i, "established"), SetTxn(p, Idle),
         peer' = peer, record' = record, approver' = approver
  PROVE  CalmAt(i)'
<1>1. PICK q \in Picos : peer[p][i] = q
  BY DEF Firm, PairAt, TypeInv, Types
<1>2. /\ p # q /\ NoPico \notin Picos
      /\ Tidy(p, i) /\ Tidy(q, i) /\ Agrees(p, q, i) /\ Agrees(q, p, i)
      /\ peer[q][i] \in {p, NoPico}
  BY <1>1, CalmParts
<1>3. HasEvent(p, i, "sky_intro_response")
  BY DEF HasEvent
<1>4. approver[i] = q /\ list[q][i] # "outbound" /\ ~Gone(q, i)
  BY <1>1, <1>2, <1>3 DEF Firm, EventAt, ListAt, Agrees
<1>5. /\ list'[p][i] = "established"
      /\ \A r \in Picos \ {p} : list'[r][i] = list[r][i] /\ queue'[r] = queue[r]
      /\ txn'[p] = Idle /\ \A r \in Picos \ {p} : txn'[r] = txn[r]
  BY DEF Set2, Shrinks, SetTxn
<1>6. ~Gone(q, i)' /\ ~Gone(p, i)'
  BY <1>2, <1>4, <1>5, GoneSame, IdleFacts DEF Gone, Told
<1>7. /\ i \in Held(p)' /\ (i \in Held(q)' <=> i \in Held(q))
      /\ ~Heard(p, i)' /\ ~Splices(p, i)'
  BY <1>2, <1>5, IdleFacts DEF Held, Heard, Splices
<1>8. InOrder(p, i)' /\ Awaited(p, i)'
  <2>1. Types
    BY DEF TypeInv
  <2>2. QED BY <1>2, <2>1, EventsShrink DEF Tidy
<1>9. Tidy(p, i)'
  BY <1>5, <1>7, <1>8 DEF Tidy
<1>10. Tidy(q, i)'
  BY <1>2, <1>5, <1>7, GoneSame, QueueSame DEF Tidy
<1>11. Agrees(p, q, i)' /\ Agrees(q, p, i)'
  BY <1>2, <1>4, <1>5, <1>6, <1>7 DEF Agrees
<1>12. /\ Types /\ PairAt(i) /\ \A r \in Picos : peer'[r][i] = peer[r][i]
       /\ \A r \in Picos \ {p, q} : About(r, i)' => About(r, i)
  BY <1>5 DEF TypeInv, Firm, About
<1>13. QED BY <1>1, <1>5, <1>9, <1>10, <1>11, <1>12, CalmTwo

\* A removal that cannot be delivered: the other pico never had the relationship, has
\* only asked for it, or is about to end it.
LEMMA CalmUndelivered ==
  ASSUME TypeInv, WaitInv, NEW p \in Picos, NEW i \in Ids, Firm(i), CalmAt(i), i \notin upset,
         txn[p].do = "cancel", txn[p].at = "send", i \in txn[p].left,
         NEW q \in Picos, peer[p][i] = q,
         ~Reaches(p, q, i), SetTxn(p, AfterNotice(txn[p], i)),
         list' = list, peer' = peer, record' = record, queue' = queue,
         approver' = approver
  PROVE  CalmAt(i)'
<1> DEFINE u == AfterNotice(txn[p], i)
<1>1. /\ u.do = "cancel" /\ u.all = txn[p].all /\ u.left = txn[p].left \ {i}
      /\ u.at \in {"remove", "send"}
  BY NoticeFacts DEF TypeInv, Types
<1> HIDE DEF u
<1>2. txn'[p] = u /\ \A r \in Picos \ {p} : txn'[r] = txn[r]
  BY DEF SetTxn, u
<1>3. txn[p].left \subseteq txn[p].all
  BY DEF TypeInv, Shape
<1>4. /\ p # q /\ NoPico \notin Picos
      /\ Tidy(p, i) /\ Tidy(q, i) /\ Agrees(p, q, i) /\ Agrees(q, p, i)
      /\ list[q][i] # "none" \/ About(q, i) => peer[q][i] = p
  BY CalmParts
<1>5. list[p][i] \in {"outbound", "inbound", "established"} /\ ~Gone(p, i)
  BY <1>3 DEF Firm, TxnAt, Ending, Held, Gone, Told
<1>6. record[q][i] # "linked" /\ ~Heard(q, i)
  <2>1. <<p, i>> \notin cut /\ record[p][i] # "anew"
    BY DEF Firm, CutAt
  <2>2. record[q][i] # "linked"
    BY <2>1 DEF Reaches
  <2>3. Heard(q, i) => \E r \in Picos : peer[q][i] = r /\ txn[r].at = "wait" /\ About(q, i)
    BY HeardOf DEF Heard, About
  <2>4. QED BY <1>4, <2>2, <2>3
<1>7. /\ ~Told(q, i) => list[q][i] \in {"none", "outbound", "ended"}
      /\ ~Told(q, i) => ~(list[q][i] = "outbound" /\ HasEvent(q, i, "sky_intro_response"))
  <2>1. SUFFICES ASSUME ~Told(q, i)
                 PROVE  /\ list[q][i] \in {"none", "outbound", "ended"}
                        /\ ~(list[q][i] = "outbound" /\ HasEvent(q, i, "sky_intro_response"))
    OBVIOUS
  <2>2. list[q][i] \in Lists /\ txn[q] \in Txns /\ Shape(txn[q])
    BY DEF TypeInv, Types
  <2>3. ~Splices(q, i) /\ <<q, i>> \notin cut
    BY <1>6, <2>1, SplicesOf DEF Firm, CutAt
  <2>4. Loose(q, i) => Asking(q, i) /\ txn[q].at = "record"
    BY <2>2, <2>3 DEF Loose, Between, Splices, Asking, Firm, TxnAt, Shape, Steps
  <2>5. Loose(q, i) => list[q][i] = "outbound" /\ peer[p][i] = NoPico
    BY <1>4, <2>4 DEF Firm, TxnAt, Asking, About
  <2>6. ~Loose(q, i)
    BY <1>4, <2>5
  <2>7. QED BY <1>6, <2>2, <2>6 DEF Firm, ListAt, EventAt, Lists
<1>8. Gone(p, i)' /\ (Gone(q, i)' <=> Gone(q, i))
  BY <1>1, <1>2, <1>3, <1>4, GoneSame DEF Gone, Told
<1>9. /\ ~Settling(p, i) /\ ~Heard(p, i)' /\ ~Splices(p, i)'
      /\ txn'[q] = txn[q]
  BY <1>1, <1>2, <1>4 DEF Settling, Approving, Heard, Splices
<1>10. Tidy(p, i)' /\ Tidy(q, i)'
  <2>1. \A r \in Picos : Held(r)' = Held(r)
    BY DEF Held
  <2>2. Tidy(p, i)'
    BY <1>4, <1>9, <2>1, QueueSame DEF Tidy
  <2>3. Tidy(q, i)'
    BY <1>4, <1>9, GoneSame, QueueSame DEF Tidy
  <2>4. QED BY <2>2, <2>3
<1>11. Agrees(p, q, i)'
  <2>1. Gone(q, i)' \/ list'[q][i] \in {"none", "outbound"}
    BY <1>7, <1>8 DEF Gone
  <2>2. ~Heard(q, i)'
    BY <1>6, <1>9 DEF Heard
  <2>3. QED BY <1>4, <1>8, <2>1, <2>2, QueueSame DEF Agrees
<1>12. Agrees(q, p, i)'
  <2>1. list[q][i] = "outbound" => ~Told(q, i)
    BY <1>4, <1>5 DEF Agrees, Firm, ListAt, Gone
  <2>2. ~(list'[q][i] = "outbound" /\ HasEvent(q, i, "sky_intro_response")')
    BY <1>7, <2>1, QueueSame
  <2>3. QED BY <1>4, <1>8, <1>9, <2>2, QueueSame DEF Agrees
<1>13. /\ Types /\ PairAt(i) /\ \A r \in Picos : peer'[r][i] = peer[r][i]
       /\ \A r \in Picos \ {p, q} : About(r, i)' => About(r, i)
  BY <1>2 DEF TypeInv, Firm, About
<1>14. QED BY <1>10, <1>11, <1>12, <1>13, CalmTwo

\* A cancellation splices: the other pico has been told.
LEMMA CalmSpliceOwn ==
  ASSUME TypeInv, NEW p \in Picos, NEW i \in Ids, Firm(i), CalmAt(i), Told(p, i),
         Splices(p, i), Set2(list', list, p, i, "ended"), record' = record,
         txn'[p].do \in {"nothing", "cancel"}, txn'[p].at # "splice",
         \A r \in Picos \ {p} : txn'[r] = txn[r],
         peer' = peer, queue' = queue, approver' = approver
  PROVE  CalmAt(i)'
<1>1. PICK q \in Picos : peer[p][i] = q
  <2>1. About(p, i)
    BY DEF Told, About
  <2>2. QED BY <2>1 DEF Firm, PairAt, TypeInv, Types
<1>2. /\ p # q /\ NoPico \notin Picos
      /\ Tidy(p, i) /\ Tidy(q, i) /\ Agrees(p, q, i) /\ Agrees(q, p, i)
  BY <1>1, CalmParts
<1>3. /\ list'[p][i] = "ended" /\ record'[p][i] = "none"
      /\ \A r \in Picos \ {p} : list'[r][i] = list[r][i]
      /\ ~Heard(p, i)' /\ ~Splices(p, i)'
  BY <1>2 DEF Set2, Tidy, Heard, Splices
<1>4. Gone(p, i) /\ Gone(p, i)'
  BY <1>3 DEF Gone
<1>5. Tidy(p, i)'
  BY <1>2, <1>3, QueueSame DEF Tidy
<1>6. Tidy(q, i)'
  BY <1>2, <1>3, GoneSame, QueueSame DEF Tidy
<1>7. Agrees(p, q, i)'
  BY <1>2, <1>3, <1>4, GoneSame DEF Agrees
<1>8. Agrees(q, p, i)'
  BY <1>2, <1>3, <1>4, GoneSame, QueueSame DEF Agrees
<1>9. /\ Types /\ PairAt(i) /\ \A r \in Picos : peer'[r][i] = peer[r][i]
      /\ \A r \in Picos \ {p, q} : About(r, i)' => About(r, i)
  BY DEF TypeInv, Firm, About
<1>10. QED BY <1>1, <1>2, <1>3, <1>5, <1>6, <1>7, <1>8, <1>9, CalmTwo

\* A pico that was told splices, and the one that told it goes on.
LEMMA CalmSpliceTold ==
  ASSUME TypeInv, WaitInv, NEW q \in Picos, NEW i \in Ids, Firm(i), CalmAt(i), Heard(q, i),
         Set2(list', list, q, i, "ended"), record' = record,
         Ends(q, txn[q].caller, i), peer' = peer, queue' = queue, approver' = approver
  PROVE  CalmAt(i)'
<1>1. PICK p \in Picos : /\ txn[q].caller = p /\ peer[p][i] = q /\ peer[q][i] = p
                        /\ txn[p].at = "wait" /\ txn[p].do = "cancel"
                        /\ i \in txn[p].left
  BY HeardOf
<1>2. /\ p # q /\ NoPico \notin Picos
      /\ Tidy(p, i) /\ Tidy(q, i) /\ Agrees(p, q, i) /\ Agrees(q, p, i)
  BY <1>1, CalmParts
<1>3. txn[p] \in Txns /\ txn[p].left \subseteq txn[p].all /\ Shape(txn[q])
  BY DEF TypeInv, Types, Shape
<1>4. /\ txn'[p].do = "cancel" /\ i \in txn'[p].all /\ i \notin txn'[p].left
      /\ txn'[p].at # "splice" /\ txn'[q] = Idle
      /\ \A r \in Picos \ {p, q} : txn'[r] = txn[r]
  <2> DEFINE u == AfterReply(txn[p], i)
  <2>1. /\ u.do = txn[p].do /\ u.all = txn[p].all /\ u.left = txn[p].left \ {i}
        /\ u.at \in {"remove", "send"}
    BY <1>1, <1>3, ReplyFacts, NoticeFacts
  <2> HIDE DEF u
  <2>2. txn'[p] = u /\ txn'[q] = Idle /\ \A r \in Picos \ {p, q} : txn'[r] = txn[r]
    BY <1>1, <1>2 DEF Ends, u
  <2>3. QED BY <1>1, <1>3, <2>1, <2>2
<1>5. /\ list'[q][i] = "ended" /\ \A r \in Picos \ {q} : list'[r][i] = list[r][i]
      /\ Splices(q, i)
  BY <1>3 DEF Set2, Splices, Heard, Shape, Steps
<1>6. /\ Gone(p, i)' /\ Gone(q, i)' /\ ~Heard(p, i)' /\ ~Heard(q, i)'
      /\ ~Splices(p, i)' /\ ~Splices(q, i)'
  BY <1>4, <1>5, IdleFacts DEF Gone, Told, Heard, Splices
<1>7. i \in Held(p)' /\ ~Settling(p, i) /\ ~Settling(q, i) /\ record[q][i] = "none"
  BY <1>1, <1>2, <1>3, <1>5 DEF Firm, TxnAt, Ending, Held, Settling, Approving, Heard, Tidy
<1>8. Tidy(p, i)'
  BY <1>2, <1>5, <1>6, <1>7, QueueSame DEF Tidy
<1>9. Tidy(q, i)'
  BY <1>2, <1>5, <1>6, <1>7, QueueSame DEF Tidy
<1>10. ~(list[p][i] = "outbound" /\ HasEvent(p, i, "sky_intro_response"))
  <2>1. SUFFICES ASSUME list[p][i] = "outbound", HasEvent(p, i, "sky_intro_response")
                 PROVE  FALSE
    OBVIOUS
  <2>2. approver[i] = q
    BY <1>1, <2>1 DEF Firm, EventAt
  <2>3. list[q][i] = "inbound"
    BY <1>2, <2>1 DEF Agrees
  <2>4. QED BY <1>2, <1>7, <2>2, <2>3 DEF Tidy
<1>11. Agrees(p, q, i)'
  BY <1>2, <1>5, <1>6, <1>10, QueueSame DEF Agrees
<1>12. Agrees(q, p, i)'
  BY <1>5, <1>6 DEF Agrees
<1>13. /\ Types /\ PairAt(i) /\ \A r \in Picos : peer'[r][i] = peer[r][i]
       /\ \A r \in Picos \ {p, q} : About(r, i)' => About(r, i)
  BY <1>4 DEF TypeInv, Firm, About
<1>14. QED BY <1>1, <1>2, <1>5, <1>8, <1>9, <1>11, <1>12, <1>13, CalmTwo

\* The event that q serves is a removal: the pico that sent it waits for that.
LEMMA Removing ==
  ASSUME TypeInv, WaitInv, NEW q \in Picos, NEW i \in Ids, Firm(i), CalmAt(i),
         txn[q] = Idle, 1 \in 1 .. Len(queue[q]), queue[q][1].id = i,
         queue[q][1].kind \in Removals
  PROVE  \E p \in Picos :
         /\ queue[q][1].caller = p /\ peer[p][i] = q /\ peer[q][i] = p
         /\ i \in txn[p].left /\ i \in txn[p].all
         /\ txn[p].do = "cancel" /\ txn[p].at = "wait"
         /\ queue[q][1].kind = NoticeOf(list[p][i])
         /\ list[p][i] \in {"outbound", "inbound", "established"}
         /\ list[q][i] \in Lists /\ ~HasEvent(q, i, "sky_intro_response")
<1>1. PICK p \in Picos : /\ queue[q][1].caller = p /\ peer[p][i] = q /\ peer[q][i] = p
                        /\ i \in txn[p].left /\ txn[p].do = "cancel" /\ txn[p].at = "wait"
                        /\ queue[q][1].kind = NoticeOf(list[p][i])
  BY CallerIsPeer DEF Removals
<1>2. Tidy(q, i)
  BY DEF CalmAt
<1>3. txn[p].left \subseteq txn[p].all
  BY DEF TypeInv, Shape
<1>4. /\ list[p][i] \in {"outbound", "inbound", "established"}
      /\ list[q][i] \in Lists
  <2>1. i \in Held(p)
    BY <1>1, <1>3 DEF Firm, TxnAt, Ending
  <2>2. list[q][i] \in Lists
    BY DEF TypeInv, Types
  <2>3. QED BY <2>1, <2>2 DEF Held
<1>5. ~HasEvent(q, i, "sky_intro_response")
  BY <1>2 DEF Tidy, InOrder, HasEvent, Removals
<1>6. QED BY <1>1, <1>3, <1>4, <1>5

\* It finds the bus, whose record is torn down.
LEMMA CalmTold ==
  ASSUME TypeInv, WaitInv, Types', NEW q \in Picos, NEW i \in Ids, Firm(i), CalmAt(i),
         txn[q] = Idle, 1 \in 1 .. Len(queue[q]), queue[q][1].id = i,
         queue[q][1].kind \in Removals, list[q][i] = Named(queue[q][1].kind),
         Set2(record', record, q, i, "none"),
         SetTxn(q, Txn("told", {i}, "splice", queue[q][1].caller)),
         Shrinks(q), list' = list, peer' = peer, approver' = approver
  PROVE  CalmAt(i)'
<1> DEFINE t == Txn("told", {i}, "splice", queue[q][1].caller)
           kind == queue[q][1].kind
<1>1. PICK p \in Picos :
      /\ queue[q][1].caller = p /\ peer[p][i] = q /\ peer[q][i] = p
      /\ txn[p].do = "cancel" /\ kind = NoticeOf(list[p][i])
  BY Removing
<1>2. /\ p # q /\ NoPico \notin Picos
      /\ Tidy(p, i) /\ Tidy(q, i) /\ Agrees(p, q, i) /\ Agrees(q, p, i)
      /\ ~HasEvent(q, i, "sky_intro_response") /\ kind # "sky_intro"
  BY <1>1, CalmParts, Removing DEF Removals
<1>3. t.do = "told" /\ t.at = "splice" /\ t.caller = p
  BY <1>1 DEF Txn
<1>4. list[p][i] = "outbound" => list[q][i] = "inbound"
  BY <1>1 DEF NoticeOf, Named
<1> HIDE DEF t, kind
<1>5. txn'[q] = t /\ \A r \in Picos \ {q} : txn'[r] = txn[r]
  BY DEF SetTxn, t
<1>6. /\ record'[q][i] = "none"
      /\ \A r \in Picos \ {q} : record'[r][i] = record[r][i] /\ queue'[r] = queue[r]
  BY DEF Set2, Shrinks
<1>7. /\ Gone(p, i)' <=> Gone(p, i)
      /\ Gone(q, i)' <=> Gone(q, i)
      /\ ~Settling(q, i) /\ ~Settling(p, i) /\ ~Heard(p, i)'
  BY <1>1, <1>2, <1>3, <1>5, IdleFacts DEF Gone, Told, Settling, Approving, Heard
<1>8. /\ \A kd : HasEvent(q, i, kd)' => HasEvent(q, i, kd)
      /\ InOrder(q, i)' /\ Awaited(q, i)'
  BY <1>2, EventsShrink DEF Tidy, TypeInv
<1>9. Tidy(p, i)'
  BY <1>2, <1>5, <1>6, GoneSame, QueueSame DEF Tidy
<1>10. Tidy(q, i)'
  BY <1>2, <1>3, <1>5, <1>6, <1>7, <1>8 DEF Tidy
<1>11. Agrees(p, q, i)'
  BY <1>2, <1>4, <1>6, <1>7, QueueSame DEF Agrees
<1>12. Agrees(q, p, i)'
  <2>1. ~HasEvent(q, i, "sky_intro_response")'
    BY <1>2, <1>8
  <2>2. ~(list[q][i] = "outbound" /\ approver[i] = p)
    BY <1>2 DEF Agrees
  <2>3. QED BY <1>2, <1>7, <2>1, <2>2 DEF Agrees
<1>13. /\ Types /\ PairAt(i) /\ \A r \in Picos : peer'[r][i] = peer[r][i]
       /\ \A r \in Picos \ {p, q} : About(r, i)' => About(r, i)
  BY <1>5 DEF TypeInv, Firm, About
<1>14. QED BY <1>1, <1>6, <1>9, <1>10, <1>11, <1>12, <1>13, CalmTwo

\* It finds none, and is no withdrawal that meets its approval.
LEMMA CalmUntold ==
  ASSUME TypeInv, WaitInv, Types', NEW q \in Picos, NEW i \in Ids, Firm(i), CalmAt(i),
         txn[q] = Idle, 1 \in 1 .. Len(queue[q]), queue[q][1].id = i,
         queue[q][1].kind \in Removals, list[q][i] # Named(queue[q][1].kind),
         ~(queue[q][1].kind = "inbound_removal" /\ list[q][i] = "established"),
         Shrinks(q), Ends(q, queue[q][1].caller, i),
         list' = list, peer' = peer, record' = record, approver' = approver
  PROVE  CalmAt(i)'
<1> DEFINE kind == queue[q][1].kind
<1>1. PICK p \in Picos :
      /\ queue[q][1].caller = p /\ peer[p][i] = q /\ peer[q][i] = p
      /\ i \in txn[p].left /\ i \in txn[p].all
      /\ txn[p].do = "cancel" /\ kind = NoticeOf(list[p][i])
      /\ list[p][i] \in {"outbound", "inbound", "established"}
      /\ list[q][i] \in Lists /\ ~HasEvent(q, i, "sky_intro_response")
  BY Removing
<1>2. /\ p # q /\ NoPico \notin Picos
      /\ Tidy(p, i) /\ Tidy(q, i) /\ Agrees(p, q, i) /\ Agrees(q, p, i)
      /\ approver[i] \in {p, q, NoPico} /\ kind # "sky_intro"
  BY <1>1, CalmParts DEF Removals
<1>3. txn[p] \in Txns
  BY DEF TypeInv, Types
<1>4. /\ txn'[p].do = "cancel" /\ i \in txn'[p].all /\ i \notin txn'[p].left
      /\ txn'[p].at # "splice" /\ txn'[q] = Idle
      /\ \A r \in Picos \ {p, q} : txn'[r] = txn[r]
  <2> DEFINE u == AfterReply(txn[p], i)
  <2>1. /\ u.do = txn[p].do /\ u.all = txn[p].all /\ u.left = txn[p].left \ {i}
        /\ u.at \in {"remove", "send"}
    BY <1>1, <1>3, ReplyFacts, NoticeFacts
  <2> HIDE DEF u
  <2>2. txn'[p] = u /\ txn'[q] = Idle /\ \A r \in Picos \ {p, q} : txn'[r] = txn[r]
    BY <1>1, <1>2 DEF Ends, u
  <2>3. QED BY <1>1, <1>3, <2>1, <2>2
<1>5. /\ Gone(p, i)' /\ ~Told(q, i)' /\ ~Told(q, i) /\ ~Settling(q, i) /\ ~Settling(p, i)
      /\ ~Heard(p, i)' /\ ~Heard(q, i)' /\ ~Splices(p, i)' /\ ~Splices(q, i)'
  BY <1>1, <1>4, IdleFacts DEF Gone, Told, Settling, Approving, Heard, Splices
<1>6. /\ \A kd : HasEvent(q, i, kd)' => HasEvent(q, i, kd)
      /\ HasEvent(q, i, "sky_intro") => HasEvent(q, i, "sky_intro")'
      /\ InOrder(q, i)' /\ Awaited(q, i)'
  BY <1>2, EventsShrink DEF Tidy, TypeInv
<1>7. \A r \in Picos \ {q} : queue'[r] = queue[r]
  BY DEF Shrinks
<1> HIDE DEF kind
<1>8. list[q][i] \in {"none", "outbound", "ended"}
  <2>1. CASE list[p][i] = "outbound"
    BY <1>1, <2>1 DEF NoticeOf, Named, Lists, kind
  <2>2. CASE list[p][i] = "inbound"
    <3>1. approver[i] # p
      BY <1>2, <1>5, <2>2 DEF Tidy
    <3>2. approver[i] # q
      BY <1>1, <2>2 DEF Firm, ListAt
    <3>3. QED BY <1>1, <1>2, <2>2, <3>1, <3>2 DEF Firm, ListAt
  <2>3. CASE list[p][i] = "established"
    <3>1. kind = "established_removal" /\ Named(kind) = "established"
      BY <1>1, <2>3 DEF NoticeOf, Named
    <3>2. approver[i] # NoPico
      BY <2>3 DEF Firm, ListAt
    <3>3. list[q][i] # "inbound"
      BY <1>1, <1>2, <1>5, <3>2 DEF Firm, ListAt, Tidy
    <3>4. QED BY <1>1, <3>1, <3>3 DEF Lists, kind
  <2>4. QED BY <1>1, <2>1, <2>2, <2>3
<1>9. list[p][i] = "outbound" /\ HasEvent(p, i, "sky_intro_response") => FALSE
  <2>1. SUFFICES ASSUME list[p][i] = "outbound", HasEvent(p, i, "sky_intro_response")
                 PROVE  FALSE
    OBVIOUS
  <2>2. approver[i] = q /\ ~Gone(q, i)
    BY <1>1, <1>2, <2>1 DEF Firm, EventAt, Agrees
  <2>3. list[q][i] \in {"inbound", "established"}
    BY <2>2 DEF Firm, ListAt, Gone
  <2>4. QED BY <1>8, <2>3
<1>10. i \in Held(p)' /\ (i \in Held(q)' <=> i \in Held(q))
  BY <1>1 DEF Held
<1>11. Tidy(p, i)'
  BY <1>2, <1>5, <1>7, <1>10, QueueSame DEF Tidy
<1>12. Tidy(q, i)'
  BY <1>2, <1>5, <1>6, <1>10 DEF Tidy
<1>13. Agrees(p, q, i)'
  <2>1. Gone(q, i)' \/ list'[q][i] \in {"none", "outbound"}
    BY <1>8 DEF Gone
  <2>2. QED BY <1>2, <1>5, <1>7, <1>9, <2>1, QueueSame DEF Agrees
<1>14. Agrees(q, p, i)'
  <2>1. ~HasEvent(q, i, "sky_intro_response")'
    BY <1>1, <1>6
  <2>2. ~(list'[q][i] = "outbound" /\ approver'[i] = p)
    BY <1>1, <1>2 DEF Agrees
  <2>3. QED BY <1>5, <2>1, <2>2 DEF Agrees
<1>15. /\ Types /\ PairAt(i) /\ \A r \in Picos : peer'[r][i] = peer[r][i]
       /\ \A r \in Picos \ {p, q} : About(r, i)' => About(r, i)
  BY <1>4 DEF TypeInv, Firm, About
<1>16. QED BY <1>1, <1>7, <1>11, <1>12, <1>13, <1>14, <1>15, CalmTwo

\* A failure, or the end of a mesh's engine, for a relationship that it does not meet.
LEMMA CalmFail ==
  ASSUME TypeInv, Types', PairInv, WaitInv, TxnInv, EventInv, NEW p \in Picos, NEW j \in Ids,
         GivesUp(p, j) \/ StopsWaiting(p, j) \/ Aborts(p, j), NEW i \in Ids, i # j
  PROVE  Steady(i) /\ SameEvents(i)
<1>0. Types /\ \A r \in Picos : txn[r] \in Txns /\ Shape(txn[r])
  BY DEF TypeInv, Types
<1>1. \A r \in Picos :
        /\ ~Heard(r, i) => Alike(txn[r], [txn[r] EXCEPT !.caller = NoPico], i)
        /\ Alike(txn[r], txn[r], i)
  BY <1>0, CallerFacts DEF Alike, Heard
<1>2. CASE GivesUp(p, j)
  <2>1. Alike(txn[p], AfterReply(txn[p], j), i)
    BY <1>0, <1>2, AlikeReply DEF GivesUp
  <2>2. Steady(i)
    BY <1>2, <2>1, SteadySet DEF GivesUp
  <2>3. QED BY <1>2, <2>2, EventsStay DEF GivesUp
<1>3. CASE StopsWaiting(p, j)
  <2>1. Alike(txn[p], AfterReply(txn[p], j), i)
    BY <1>0, <1>3, AlikeReply DEF StopsWaiting
  <2>2. \A r \in Picos : Alike(txn[r], txn'[r], i)
    <3>1. ASSUME NEW r \in Picos, txn[r].caller = p PROVE ~Heard(r, i)
      <4>1. \A s \in Picos : \A n \in 1 .. Len(queue[s]) : queue[s][n].caller # p
        BY <3>1, OnePlace
      <4>2. \A s \in Picos : DOMAIN queue[s] = 1 .. Len(queue[s])
        BY <1>0 DEF Types
      <4>3. \E s \in Picos : txn[s].caller = p /\ j \in txn[s].all
        BY <1>3, <4>1, <4>2 DEF StopsWaiting, WaitsIn
      <4>4. j \in txn[r].all
        BY <3>1, <4>3, OnePlace
      <4>5. QED BY <1>0, <4>4 DEF Heard, Shape
    <3>2. QED BY <1>1, <1>3, <2>1, <3>1 DEF StopsWaiting, Leaves
  <2>3. ASSUME NEW r \in Picos, NEW n \in 1 .. Len(queue[r]), queue[r][n].caller = p
        PROVE  queue[r][n].id = j
    <3>1. \A s \in Picos : txn[s].caller # p
      BY <2>3, OnePlace
    <3>2. PICK s \in Picos : \E m \in DOMAIN queue[s] :
            queue[s][m].caller = p /\ queue[s][m].id = j
      BY <1>3, <3>1 DEF StopsWaiting, WaitsIn
    <3>3. DOMAIN queue[s] = 1 .. Len(queue[s])
      BY <1>0 DEF Types
    <3>4. PICK m \in 1 .. Len(queue[s]) : queue[s][m].caller = p /\ queue[s][m].id = j
      BY <3>2, <3>3
    <3>5. p # NoPico
      BY SkyAssumption DEF SkyAssumption
    <3>6. r = s /\ n = m
      BY <2>3, <3>4, <3>5 DEF WaitInv
    <3>7. QED BY <3>4, <3>6
  <2>4. \A r \in Picos : \A n \in 1 .. Len(queue[r]) :
          queue[r][n].id = i => queue[r][n].caller \notin {p}
    BY <2>3
  <2>5. \A r \in Picos : Forgets(r, queue'[r], {p})
    BY <1>3 DEF StopsWaiting
  <2>6. QED BY <1>0, <2>2, <2>4, <2>5, SteadyBy, EventsForgotten
<1>4. CASE Aborts(p, j)
  <2>1. txn[p].at \in {"read", "settle"} /\ txn[p].all = {j} /\ Ends(p, txn[p].caller, j)
    BY <1>4 DEF Aborts
  <2>2. ~Settling(p, i) /\ txn[p].do # "cancel" /\ txn[p].at # "wait"
    BY <1>0, <2>1 DEF Settling, Approving, Shape, Steps
  <2>3. txn[p].caller \in Picos \union {NoPico}
    BY <1>0 DEF Txns
  <2>4. txn[p].caller \in Picos =>
          txn[txn[p].caller].do \in {"ask", "cancel"} /\ txn[txn[p].caller].at = "wait"
    BY SkyAssumption DEF WaitInv, SkyAssumption
  <2>5. Steady(i)
    BY <2>1, <2>2, <2>3, <2>4, SteadyEnds
  <2>6. Unawaited(p)
    BY <2>2, NotWaiting
  <2>7. \A r \in Picos : \A n \in 1 .. Len(queue[r]) :
          queue[r][n].id = i => queue[r][n].caller \notin {p}
    BY <2>6 DEF Unawaited
  <2>8. queue' = queue \/ \A r \in Picos : Forgets(r, queue'[r], {p})
    BY <1>4 DEF Aborts
  <2>9. QED BY <1>0, <2>5, <2>7, <2>8, EventsStay, EventsForgotten
<1>5. QED BY <1>2, <1>3, <1>4

LEMMA CalmCrash ==
  ASSUME TypeInv, Types', WaitInv, NEW P \in SUBSET Picos, CrashOf(P),
         NEW i \in Ids, i \notin upset'
  PROVE  Steady(i) /\ SameEvents(i)
<1>0. Types /\ \A r \in Picos : txn[r] \in Txns /\ Shape(txn[r])
  BY DEF TypeInv, Types
<1>1. \A r \in P : ~About(r, i) /\ ~Mentioned(r, i)
  BY DEF CrashOf, Mentioned
<1>2. ASSUME NEW r \in P PROVE Alike(txn[r], txn'[r], i)
  <2>1. txn'[r] = Idle
    BY DEF CrashOf
  <2>2. i \notin txn[r].all
    BY <1>1 DEF About
  <2>3. QED BY <2>1, <2>2, AlikeIdle
<1>3. ASSUME NEW r \in Picos \ P PROVE Alike(txn[r], txn'[r], i)
  <2>1. CASE \E j \in Ids : WaitsIn(r, j, P) /\ txn'[r] = AfterReply(txn[r], j)
    <3>1. PICK j \in Ids : WaitsIn(r, j, P) /\ txn'[r] = AfterReply(txn[r], j)
      BY <2>1
    <3>2. PICK s \in P : \/ txn[s].caller = r /\ j \in txn[s].all
                         \/ \E n \in 1 .. Len(queue[s]) : /\ queue[s][n].caller = r
                                                        /\ queue[s][n].id = j
      <4>1. \A s \in Picos : DOMAIN queue[s] = 1 .. Len(queue[s])
        BY <1>0 DEF Types
      <4>2. QED BY <3>1, <4>1 DEF WaitsIn
    <3>3. About(s, j) \/ Mentioned(s, j)
      BY <3>2 DEF About, Mentioned
    <3>4. i # j
      BY <1>1, <3>3
    <3>5. txn[r].do \in {"ask", "cancel"} /\ txn[r].at = "wait"
      BY <3>2, WaitersDo
    <3>6. QED BY <1>0, <3>1, <3>4, <3>5, AlikeReply
  <2>2. CASE txn'[r] = IF txn[r].caller \in P THEN [txn[r] EXCEPT !.caller = NoPico]
                       ELSE txn[r]
    <3>1. ASSUME NEW c \in P, txn[r].caller = c PROVE ~Heard(r, i)
      <4>1. c # NoPico
        BY SkyAssumption DEF SkyAssumption
      <4>2. \A j \in txn[r].all : j \in txn[c].left
        BY <3>1, <4>1 DEF WaitInv
      <4>3. i \notin txn[c].left
        BY <1>0, <1>1 DEF Shape, About
      <4>4. QED BY <4>2, <4>3 DEF Heard
    <3>2. QED BY <1>0, <2>2, <3>1, CallerFacts DEF Alike, Heard
  <2>3. QED BY <2>1, <2>2 DEF CrashOf
<1>4. ASSUME NEW r \in Picos, NEW n \in 1 .. Len(queue[r]), queue[r][n].id = i
      PROVE  queue[r][n].caller \notin P
  <2>1. SUFFICES ASSUME NEW c \in P, queue[r][n].caller = c PROVE FALSE
    OBVIOUS
  <2>2. c # NoPico
    BY SkyAssumption DEF SkyAssumption
  <2>3. i \in txn[c].left
    BY <1>4, <2>1, <2>2 DEF WaitInv
  <2>4. About(c, i)
    BY <1>0, <2>3 DEF Shape, About
  <2>5. QED BY <1>1, <2>4
<1>5. \A r \in Picos : \/ ~Mentioned(r, i) /\ Len(queue'[r]) = 0
                       \/ Forgets(r, queue'[r], P)
  BY <1>1 DEF CrashOf
<1>6. QED BY <1>0, <1>2, <1>3, <1>4, <1>5, SteadyBy, EventsForgotten

LEMMA CalmThrow ==
  ASSUME TypeInv, PairInv, WaitInv, NEW p \in Picos, NEW j \in Ids, Throw(p, j),
         NEW i \in Ids, i \notin upset'
  PROVE  Steady(i) /\ SameEvents(i)
<1>1. PICK c \in Picos \union {NoPico} : txn[p].caller = c
  BY DEF TypeInv, Types, Txns
<1>2. /\ j \in txn[p].all /\ queue' = queue /\ \A k \in txn[p].all : k \in upset'
      /\ \/ Ends(p, c, j)
         \/ /\ Both(p, c) /\ c \in Picos
            /\ \A k \in txn[c].all : k \in upset'
  BY <1>1, ThrowFacts
<1>3. i \notin txn[p].all /\ i # j
  BY <1>2
<1>4. CASE Ends(p, c, j)
  <2>1. c \in Picos => txn[c].do \in {"ask", "cancel"} /\ txn[c].at = "wait"
    BY <1>1, WaitersDo
  <2>2. ~Settling(p, i)
    BY <1>3 DEF Settling, Approving
  <2>3. Steady(i)
    BY <1>1, <1>3, <1>4, <2>1, <2>2, SteadyEnds
  <2>4. QED BY <1>2, <2>3, EventsStay
<1>5. CASE Both(p, c) /\ c \in Picos /\ \A k \in txn[c].all : k \in upset'
  <2>1. Alike(txn[p], Idle, i) /\ Alike(txn[c], Idle, i)
    BY <1>3, <1>5, AlikeIdle
  <2>2. \A r \in Picos : Alike(txn[r], txn[r], i)
    BY DEF Alike
  <2>3. \A r \in Picos : Alike(txn[r], txn'[r], i)
    BY <1>5, <2>1, <2>2 DEF Both
  <2>4. QED BY <1>2, <2>3, SteadyBy, EventsStay
<1>6. QED BY <1>2, <1>4, <1>5

LEMMA UpsetGrows ==
  ASSUME [Next]_vars
  PROVE  upset \subseteq upset'
<1>1. ASSUME NEW p \in Picos, Continue(p) \/ Serve(p) PROVE upset \subseteq upset'
  BY <1>1 DEF Continue, Serve, Introduce, crossPicoEvent, LinkRead, LinkWrite,
     addInboundSubscription, RemoveOwn, addInboundPendingFromSkyIntro, splice,
     addOutboundSubscriptionLayer2, Removed, establishSubscriptionIdentity, history
<1>2. ASSUME NEW p \in Picos, NEW i \in Ids, NEW lost \in BOOLEAN, Fail(p, i, lost)
      PROVE  upset \subseteq upset'
  BY <1>2 DEF Fail
<1>3. ASSUME NEW m \in Meshes, Crash(m) PROVE upset \subseteq upset'
  BY <1>3 DEF Crash
<1>4. ASSUME NEW p \in Picos, NEW i \in Ids, Throw(p, i) PROVE upset \subseteq upset'
  BY <1>4 DEF Throw
<1>5. QED BY <1>1, <1>2, <1>3, <1>4 DEF Next, vars, history, Ask, Approve, Cancel

\* A relationship that is neither met by a failure nor by a crossing stays calm.
LEMMA CalmStep ==
  ASSUME TypeInv, PairInv, WaitInv, TxnInv, CutInv, ListInv, EventInv, CalmInv,
         [Next]_vars, NEW j \in Ids, j \notin upset'
  PROVE  CalmAt(j)'
<1>0. /\ Types /\ Firm(j) /\ \A r \in Picos : txn[r] \in Txns /\ Shape(txn[r])
      /\ PairAt(j) /\ CalmAt(j) /\ j \notin upset
      /\ \A r \in Picos : Alike(txn[r], txn[r], j)
  <2>1. j \notin upset
    BY UpsetGrows
  <2>2. Firm(j) /\ PairAt(j) /\ CalmAt(j)
    BY <2>1 DEF Firm, PairInv, TxnInv, CutInv, ListInv, EventInv, CalmInv
  <2>3. QED BY <2>1, <2>2 DEF TypeInv, Types, Alike
<1>00. \A q \in Picos : LET c == txn[q].caller IN c \in Picos =>
         txn[c].do \in {"ask", "cancel"} /\ txn[c].at = "wait"
  BY WaitersDo
<1>1. ASSUME NEW p \in Picos, NEW q \in Picos, NEW i \in Ids, Ask(p, q, i) PROVE CalmAt(j)'
  <2> DEFINE t == Txn("ask", {i}, "record", NoPico)
  <2>1. /\ txn[p] = Idle /\ SetTxn(p, t) /\ queue' = queue /\ approver' = approver
        /\ Set2(list', list, p, i, "outbound") /\ Set2(peer', peer, p, i, q)
        /\ record' = record
    BY <1>1, AskFacts DEF history
  <2>2. t.do = "ask" /\ t.at = "record"
    BY DEF Txn
  <2> HIDE DEF t
  <2>3. CASE j = i
    BY <1>0, <1>1, <2>3, CalmAsk
  <2>4. CASE j # i
    <3>1. SameBus(j)
      BY <2>1, <2>4 DEF SameBus, SamePlace, Set2
    <3>2. Alike(txn[p], t, j)
      BY <2>1, <2>2, IdleFacts DEF Alike
    <3>3. QED BY <1>0, <2>1, <3>1, <3>2, SteadySet, EventsStay, CalmSame
  <2>5. QED BY <2>3, <2>4
<1>2. ASSUME NEW p \in Picos, NEW i \in Ids, Introduce(p, i) PROVE CalmAt(j)'
  <2> DEFINE t == [txn[p] EXCEPT !.at = "wait"]
             e == Event("sky_intro", i, p)
  <2>1. PICK q \in Picos : peer[p][i] = q
    BY <1>2, IntroduceFacts
  <2>2. /\ Asking(p, i) /\ txn[p].at = "send"
        /\ Types' /\ list' = list /\ approver' = approver
        /\ \/ SetTxn(p, Idle) /\ UNCHANGED <<record, queue, peer>>
           \/ /\ Set2(record', record, q, i, "linked") /\ Set2(peer', peer, q, i, p)
              /\ Grows(q, e, 1) /\ SetTxn(p, t)
    BY <1>2, <2>1, IntroduceFacts DEF history
  <2>3. CASE SetTxn(p, Idle) /\ UNCHANGED <<record, queue, peer>>
    <3>1. Alike(txn[p], Idle, j)
      BY <1>0, <2>2, IdleFacts DEF Alike, Asking
    <3>2. SameBus(j)
      BY <2>2, <2>3 DEF SameBus, SamePlace
    <3>3. QED BY <1>0, <2>3, <3>1, <3>2, SteadySet, EventsStay, CalmSame
  <2>4. CASE /\ Set2(record', record, q, i, "linked") /\ Set2(peer', peer, q, i, p)
             /\ Grows(q, e, 1) /\ SetTxn(p, t)
    <3>1. CASE j = i
      BY <1>0, <2>1, <2>2, <2>4, <3>1, CalmIntroduce
    <3>2. CASE j # i
      <4>1. e.id = i /\ t.do = "ask" /\ t.at = "wait"
        BY <1>0, <2>2, AtFacts DEF Ats, Event, Asking
      <4> HIDE DEF e, t
      <4>2. Alike(txn[p], t, j)
        BY <2>2, <4>1 DEF Alike, Asking
      <4>3. SameBus(j)
        BY <2>2, <2>4, <3>2 DEF SameBus, SamePlace, Set2
      <4>4. SameEvents(j)
        BY <1>0, <2>2, <2>4, <3>2, <4>1, EventsGrow
      <4>5. QED BY <1>0, <2>4, <4>2, <4>3, <4>4, SteadySet, CalmSame
    <3>3. QED BY <3>1, <3>2
  <2>5. QED BY <2>2, <2>3, <2>4
<1>3. ASSUME NEW q \in Picos, LinkRead(q) PROVE CalmAt(j)'
  <2> DEFINE t == [txn[q] EXCEPT !.at = "write"]
  <2>1. PICK i \in Ids : txn[q].all = {i}
    BY <1>3, Approvals DEF LinkRead
  <2>2. /\ UNCHANGED <<buses, record, queue, history>> /\ txn[q].at = "read"
        /\ Ends(q, txn[q].caller, i) \/ SetTxn(q, t)
    BY <1>3, <2>1, LinkReadFacts
  <2>3. txn[q].do \in {"accept", "approve"}
    BY <1>3, Approvals DEF LinkRead
  <2>4. Steady(j)
    <3>1. CASE Ends(q, txn[q].caller, i)
      <4>1. txn[q].caller \in Picos \union {NoPico}
        BY <1>0 DEF Txns
      <4>2. txn[q].caller \in Picos =>
              txn[txn[q].caller].do = "ask" /\ txn[txn[q].caller].at = "wait"
        BY <2>3, SkyAssumption DEF WaitInv, SkyAssumption
      <4>3. ~Settling(q, j) /\ txn[q].do # "cancel"
        BY <2>2, <2>3 DEF Settling
      <4>4. QED BY <3>1, <4>1, <4>2, <4>3, SteadyEnds
    <3>2. CASE SetTxn(q, t)
      <4>1. t.do = txn[q].do /\ t.at = "write"
        BY <1>0, AtFacts DEF Ats
      <4> HIDE DEF t
      <4>2. Alike(txn[q], t, j)
        BY <2>2, <2>3, <4>1 DEF Alike
      <4>3. QED BY <3>2, <4>2, SteadySet
    <3>3. QED BY <2>2, <3>1, <3>2
  <2>5. SameBus(j) /\ queue' = queue
    BY <2>2 DEF SameBus, SamePlace, buses, history
  <2>6. QED BY <1>0, <2>4, <2>5, EventsStay, CalmSame
<1>4. ASSUME NEW q \in Picos, LinkWrite(q) PROVE CalmAt(j)'
  <2> DEFINE t == [txn[q] EXCEPT !.at = "settle"]
  <2>1. PICK i \in Ids : txn[q].all = {i} /\ Approving(q, i)
    BY <1>4, Approvals DEF LinkWrite
  <2>2. PICK p \in Picos : peer[q][i] = p
    BY <1>4, <2>1, LinkWriteFacts
  <2>3. /\ Types' /\ SetTxn(q, t) /\ list' = list /\ peer' = peer /\ txn[q].at = "write"
        /\ \E v \in {"linked", "anew"} : Set2(record', record, p, i, v)
        /\ approver' = [approver EXCEPT ![i] = q]
        /\ \E k \in Nat \ {0} : Grows(p, Response(i), k)
    BY <1>4, <2>1, <2>2, LinkWriteFacts DEF buses
  <2>4. PICK k \in Nat \ {0} : Grows(p, Response(i), k)
    BY <2>3
  <2>5. approver'[i] = q /\ (j # i => approver'[j] = approver[j])
    BY <1>0, <2>3 DEF Types
  <2>6. CASE j = i
    <3>1. PICK v \in {"linked", "anew"} : Set2(record', record, p, i, v)
      BY <2>3
    <3>2. QED BY <1>0, <2>1, <2>2, <2>3, <2>4, <2>5, <2>6, <3>1, CalmLinkWrite
  <2>7. CASE j # i
    <3>1. Response(i).id = i
      BY DEF Response, Event
    <3>2. t.all = {i} /\ t.do = txn[q].do /\ t.at = "settle"
      BY <1>0, <2>1, AtFacts DEF Ats
    <3> HIDE DEF t
    <3>3. SameBus(j)
      BY <2>3, <2>5, <2>7 DEF SameBus, SamePlace, Set2
    <3>4. Alike(txn[q], t, j)
      BY <2>1, <2>7, <3>2 DEF Alike, Approving
    <3>5. SameEvents(j)
      BY <1>0, <2>3, <2>4, <2>7, <3>1, EventsGrow
    <3>6. QED BY <1>0, <2>3, <3>3, <3>4, <3>5, SteadySet, CalmSame
  <2>8. QED BY <2>6, <2>7
<1>5. ASSUME NEW q \in Picos, addInboundSubscription(q) PROVE CalmAt(j)'
  <2>1. PICK i \in Ids : txn[q].all = {i} /\ Approving(q, i)
    BY <1>5, Approvals DEF addInboundSubscription
  <2>2. /\ Ends(q, txn[q].caller, i) /\ txn[q].at = "settle"
        /\ Set2(list', list, q, i, "established") /\ UNCHANGED <<peer, record, queue>>
        /\ approver' = approver
    BY <1>5, <2>1, SettleFacts DEF history
  <2>3. CASE j = i
    BY <1>0, <2>1, <2>2, <2>3, CalmSettle DEF Settling
  <2>4. CASE j # i
    <3>1. SameBus(j)
      BY <2>2, <2>4 DEF SameBus, SamePlace, Set2
    <3>2. txn[q].caller \in Picos \union {NoPico}
      BY <1>0 DEF Txns
    <3>3. txn[q].caller \in Picos =>
            /\ txn[txn[q].caller].do \in {"ask", "cancel"}
            /\ txn[txn[q].caller].at = "wait"
      BY <1>00
    <3>4. ~Settling(q, j) /\ txn[q].do # "cancel"
      BY <2>1, <2>4 DEF Settling, Approving
    <3>5. Steady(j)
      BY <2>2, <2>4, <3>2, <3>3, <3>4, SteadyEnds
    <3>6. QED BY <1>0, <2>2, <3>1, <3>5, EventsStay, CalmSame
  <2>5. QED BY <2>3, <2>4
<1>6. ASSUME NEW p \in Picos, NEW i \in Ids, RemoveOwn(p, i) PROVE CalmAt(j)'
  <2> DEFINE t == Splicing(p, i)
  <2>1. /\ txn[p].do = "cancel" /\ txn[p].at = "remove" /\ txn[p].left = {}
        /\ SetTxn(p, t) /\ Set2(record', record, p, i, "none")
        /\ UNCHANGED <<buses, queue, history>>
    BY <1>6, RemoveOwnFacts
  <2>2. /\ t.do = txn[p].do /\ t.all = txn[p].all /\ t.left = {i} /\ t.at = "splice"
    BY SpliceTxns
  <2> HIDE DEF t
  <2>3. record'[p][i] = "none"
    BY <2>1 DEF Set2
  <2>4. Steady(j)
    <3>1. /\ Told(p, j)' <=> Told(p, j)
          /\ ~Settling(p, j) /\ ~Heard(p, j)'
          /\ Splices(p, j)' => record'[p][j] = "none"
      BY <2>1, <2>2, <2>3 DEF Told, Settling, Approving, Heard, Splices, SetTxn
    <3>2. \A r \in Picos \ {p} : txn'[r] = txn[r]
      BY <2>1 DEF SetTxn
    <3>3. QED BY <3>1, <3>2 DEF Steady, Told, Settling, Approving, Heard, Splices
  <2>5. \A r \in Picos : record'[r][j] = record[r][j] \/ record'[r][j] = "none"
    BY <2>1 DEF Set2
  <2>6. SamePlace(j) /\ queue' = queue
    BY <2>1 DEF SamePlace, buses, history
  <2>7. QED BY <1>0, <2>4, <2>5, <2>6, EventsStay, CalmKept
<1>7. ASSUME NEW q \in Picos, addInboundPendingFromSkyIntro(q) PROVE CalmAt(j)'
  <2> DEFINE e == queue[q][1]
  <2>1. PICK i \in Ids : e.id = i
    BY <1>7, PendingFacts
  <2>2. PICK c \in Picos \union {NoPico} : e.caller = c
    BY <1>7, PendingFacts
  <2>3. /\ Types' /\ Shrinks(q) /\ txn[q] = Idle /\ e.kind = "sky_intro"
        /\ Set2(list', list, q, i, "inbound") /\ UNCHANGED <<peer, record>>
        /\ approver' = approver /\ 1 \in 1 .. Len(queue[q])
        /\ Ends(q, c, i) \/ SetTxn(q, Txn("accept", {i}, "read", c))
    BY <1>7, <2>1, <2>2, PendingFacts DEF history
  <2>4. CASE j = i
    BY <1>0, <2>1, <2>2, <2>3, <2>4, CalmPending
  <2>5. CASE j # i
    <3>1. SameBus(j)
      BY <2>3, <2>5 DEF SameBus, SamePlace, Set2
    <3>2. SameEvents(j)
      BY <1>0, <2>1, <2>3, <2>5, EventsTaken
    <3>3. Steady(j)
      <4>1. CASE Ends(q, c, i)
        <5>1. c \in Picos => txn[c].do \in {"ask", "cancel"} /\ txn[c].at = "wait"
          BY <2>2, <2>3, WaitersDo
        <5>2. ~Settling(q, j) /\ txn[q].do # "cancel"
          BY <2>3, IdleFacts DEF Settling, Approving
        <5>3. QED BY <2>5, <4>1, <5>1, <5>2, SteadyEnds
      <4>2. CASE SetTxn(q, Txn("accept", {i}, "read", c))
        <5> DEFINE t == Txn("accept", {i}, "read", c)
        <5>1. t.do = "accept" /\ t.all = {i} /\ t.at = "read"
          BY DEF Txn
        <5> HIDE DEF t
        <5>2. Alike(txn[q], t, j)
          BY <2>3, <5>1, IdleFacts DEF Alike
        <5>3. SetTxn(q, t)
          BY <4>2 DEF t
        <5>4. QED BY <5>2, <5>3, SteadySet
      <4>3. QED BY <2>3, <4>1, <4>2
    <3>4. QED BY <1>0, <3>1, <3>2, <3>3, CalmSame
  <2>6. QED BY <2>4, <2>5
<1>8. ASSUME NEW p \in Picos, addOutboundSubscriptionLayer2(p) PROVE CalmAt(j)'
  <2> DEFINE e == queue[p][1]
  <2>1. PICK i : i = queue[p][1].id
    OBVIOUS
  <2> DEFINE t == Txn("confirm", {i}, "record", NoPico)
  <2>2. /\ Types' /\ Shrinks(p) /\ e.kind = "sky_intro_response" /\ i \in Ids
        /\ (list[p][i] = "outbound" => Set2(list', list, p, i, "established"))
        /\ (list[p][i] # "outbound" => list' = list)
        /\ UNCHANGED <<peer, record>> /\ approver' = approver
        /\ txn[p] = Idle /\ 1 \in 1 .. Len(queue[p])
        /\ \/ SetTxn(p, Idle)
           \/ list[p][i] = "outbound" /\ record[p][i] = "none" /\ SetTxn(p, t)
    <3>1. /\ Types' /\ Shrinks(p) /\ e.kind = "sky_intro_response" /\ i \in Ids
          /\ (list[p][i] = "outbound" => Set2(list', list, p, i, "established"))
          /\ (list[p][i] # "outbound" => list' = list)
          /\ UNCHANGED <<peer, record, history>>
          /\ txn[p] = Idle /\ 1 \in 1 .. Len(queue[p])
          /\ \/ SetTxn(p, Idle)
             \/ list[p][i] = "outbound" /\ record[p][i] = "none" /\ SetTxn(p, t)
      BY <1>8, <2>1, ConfirmFacts
    <3>2. QED BY <3>1 DEF history
  <2>3. t.do = "confirm" /\ t.all = {i} /\ t.at = "record"
    BY DEF Txn
  <2> HIDE DEF t
  <2>4. CASE j = i /\ list[p][i] = "outbound"
    <3>1. ~(list[p][i] = "outbound" /\ record[p][i] = "none")
      <4>1. <<p, j>> \notin cut
        BY <1>0 DEF Firm, CutAt
      <4>2. ~Between(p, j)
        BY <2>2, IdleFacts DEF Between
      <4>3. QED BY <1>0, <2>4, <4>1, <4>2 DEF Firm, ListAt, Loose
    <3>2. SetTxn(p, Idle)
      BY <2>2, <3>1
    <3>3. QED BY <1>0, <2>1, <2>2, <2>4, <3>2, CalmConfirm
  <2>5. CASE j # i \/ list[p][i] # "outbound"
    <3>1. SameBus(j)
      BY <2>2, <2>5 DEF SameBus, SamePlace, Set2
    <3>2. e.id # j \/ list[p][j] # "outbound"
      BY <2>1, <2>5
    <3>3. SameEvents(j)
      BY <1>0, <2>2, <3>2, EventsTaken
    <3>4. Steady(j)
      <4>1. CASE SetTxn(p, Idle)
        BY <1>0, <2>2, <4>1, SteadySet
      <4>2. CASE SetTxn(p, t)
        <5>1. Alike(txn[p], t, j)
          BY <2>2, <2>3, IdleFacts DEF Alike
        <5>2. QED BY <4>2, <5>1, SteadySet
      <4>3. QED BY <2>2, <4>1, <4>2
    <3>5. QED BY <1>0, <3>1, <3>3, <3>4, CalmSame
  <2>6. QED BY <2>4, <2>5
<1>9. ASSUME NEW q \in Picos, Removed(q) PROVE CalmAt(j)'
  <2> DEFINE e == queue[q][1]
  <2>1. PICK i : i = queue[q][1].id
    OBVIOUS
  <2>2. PICK c \in Picos \union {NoPico} : e.caller = c
    BY <1>9, <2>1, RemovedFacts
  <2> DEFINE t == Txn("told", {i}, "splice", c)
  <2>3. /\ Types' /\ Shrinks(q) /\ txn[q] = Idle /\ i \in Ids
        /\ list' = list /\ peer' = peer /\ approver' = approver
        /\ 1 \in 1 .. Len(queue[q]) /\ e.kind \in Removals
        /\ \/ /\ list[q][i] = Named(e.kind)
              /\ Set2(record', record, q, i, "none")
              /\ SetTxn(q, t)
           \/ /\ list[q][i] # Named(e.kind)
              /\ record' = record
              /\ Ends(q, c, i)
        /\ e.kind = "inbound_removal" /\ list[q][i] = "established" => i \in upset'
    <3>1. UNCHANGED <<home, buses, approver, cut, faults>>
      BY <1>9 DEF Removed
    <3>2. list' = list /\ peer' = peer /\ approver' = approver
      BY <3>1 DEF buses
    <3>3. /\ txn[q] = Idle /\ i \in Ids /\ 1 \in 1 .. Len(queue[q])
          /\ e.kind \in Removals /\ Types' /\ Shrinks(q)
      BY <1>9, <2>1, RemovedFacts
    <3>6. e.kind = "inbound_removal" /\ list[q][i] = "established" => i \in upset'
      <4>1. upset' = IF e.kind = "inbound_removal" /\ list[q][i] = "established"
                     THEN upset \union {i} ELSE upset
        <5>1. Head(queue[q]) = e
          BY <1>0, <3>3 DEF Types
        <5>2. QED BY <1>9, <2>1, <5>1 DEF Removed
      <4>2. QED BY <4>1
    <3>4. \/ /\ list[q][i] = Named(e.kind)
             /\ Set2(record', record, q, i, "none")
             /\ SetTxn(q, t)
          \/ /\ list[q][i] # Named(e.kind)
             /\ record' = record
             /\ Ends(q, c, i)
      BY <1>9, <2>1, <2>2, RemovedFacts
    <3>5. QED BY <3>2, <3>3, <3>4, <3>6
  <2>4. t.do = "told" /\ t.all = {i} /\ t.left = {i}
    BY DEF Txn
  <2>5. CASE /\ list[q][i] = Named(e.kind)
             /\ Set2(record', record, q, i, "none")
             /\ SetTxn(q, t)
    <3>1. CASE j = i
      BY <1>0, <2>1, <2>2, <2>3, <2>5, <3>1, CalmTold
    <3>2. CASE j # i
      <4> HIDE DEF t
      <4>1. SameBus(j)
        BY <2>3, <2>5, <3>2 DEF SameBus, SamePlace, Set2
      <4>2. SameEvents(j)
        BY <1>0, <2>1, <2>3, <3>2, EventsTaken
      <4>3. Alike(txn[q], t, j)
        BY <2>3, <2>4, <3>2, IdleFacts DEF Alike
      <4>4. QED BY <1>0, <2>5, <4>1, <4>2, <4>3, SteadySet, CalmSame
    <3>3. QED BY <3>1, <3>2
  <2>6. CASE list[q][i] # Named(e.kind) /\ record' = record /\ Ends(q, c, i)
    <3>1. CASE j = i
      <4>1. ~(e.kind = "inbound_removal" /\ list[q][i] = "established")
        BY <2>3, <3>1
      <4>2. QED BY <1>0, <2>1, <2>2, <2>3, <2>6, <3>1, <4>1, CalmUntold
    <3>2. CASE j # i
      <4>1. SameBus(j)
        BY <2>3, <2>6 DEF SameBus, SamePlace
      <4>2. SameEvents(j)
        BY <1>0, <2>1, <2>3, <3>2, EventsTaken
      <4>3. c \in Picos => txn[c].do \in {"ask", "cancel"} /\ txn[c].at = "wait"
        BY <2>2, <2>3, WaitersDo
      <4>4. ~Settling(q, j) /\ txn[q].do # "cancel"
        BY <2>3, IdleFacts DEF Settling, Approving
      <4>5. Steady(j)
        BY <2>6, <3>2, <4>3, <4>4, SteadyEnds
      <4>6. QED BY <1>0, <4>1, <4>2, <4>5, CalmSame
    <3>3. QED BY <3>1, <3>2
  <2>7. QED BY <2>3, <2>5, <2>6
<1>10. ASSUME NEW q \in Picos, NEW i \in Ids, Approve(q, i) PROVE CalmAt(j)'
  <2> DEFINE t == Txn("approve", {i}, "read", NoPico)
  <2>1. /\ SetTxn(q, t) /\ txn[q] = Idle
        /\ UNCHANGED <<buses, record, queue, history>>
    BY <1>10, ApproveFacts
  <2>2. SameBus(j) /\ queue' = queue /\ t.do = "approve" /\ t.at = "read"
    BY <2>1 DEF SameBus, SamePlace, buses, history, Txn
  <2> HIDE DEF t
  <2>3. Alike(txn[q], t, j)
    BY <2>1, <2>2, IdleFacts DEF Alike
  <2>4. QED BY <1>0, <2>1, <2>2, <2>3, SteadySet, EventsStay, CalmSame
<1>11. ASSUME NEW p \in Picos, NEW I \in SUBSET Ids, Cancel(p, I) PROVE CalmAt(j)'
  <2> DEFINE t == Txn("cancel", I, "send", NoPico)
  <2>1. /\ SetTxn(p, t) /\ txn[p] = Idle
        /\ UNCHANGED <<buses, record, queue, history>>
    BY <1>11, CancelFacts
  <2>2. SameBus(j) /\ queue' = queue /\ t.all = I /\ t.left = I
        /\ t.do = "cancel" /\ t.at = "send"
    BY <2>1 DEF SameBus, SamePlace, buses, history, Txn
  <2> HIDE DEF t
  <2>3. Alike(txn[p], t, j)
    BY <2>1, <2>2, IdleFacts DEF Alike
  <2>4. QED BY <1>0, <2>1, <2>2, <2>3, SteadySet, EventsStay, CalmSame
<1>12. ASSUME NEW p \in Picos, NEW i \in Ids, crossPicoEvent(p, i) PROVE CalmAt(j)'
  <2> DEFINE t == [txn[p] EXCEPT !.at = "wait"]
             u == AfterNotice(txn[p], i)
             e == Event(notice(p, i), i, p)
  <2>1. PICK q \in Picos : peer[p][i] = q
    BY <1>12, CrossFacts
  <2>2. /\ txn[p].do = "cancel" /\ txn[p].at = "send" /\ i \in txn[p].left /\ Types'
        /\ UNCHANGED <<buses, record, approver>>
        /\ \/ Grows(q, e, 1) /\ SetTxn(p, t)
           \/ ~Reaches(p, q, i) /\ SetTxn(p, u) /\ queue' = queue
           \/ SetTxn(p, Idle) /\ upset' = upset \union txn[p].all /\ queue' = queue
    BY <1>12, <2>1, CrossFacts
  <2>3. SameBus(j) /\ list' = list /\ peer' = peer /\ approver' = approver
    BY <2>2 DEF SameBus, SamePlace, buses
  <2>4. /\ t.do = txn[p].do /\ t.all = txn[p].all /\ t.left = txn[p].left
        /\ u.do = txn[p].do /\ u.all = txn[p].all /\ u.left = txn[p].left \ {i}
        /\ t.at = "wait" /\ u.at \in {"remove", "send"}
    BY <1>0, AtFacts, NoticeFacts DEF Ats
  <2>5. e.kind \in Removals /\ e.caller # NoPico
    BY SkyAssumption DEF Event, notice, Removals, SkyAssumption
  <2>6. CASE Grows(q, e, 1) /\ SetTxn(p, t)
    <3> HIDE DEF t, e
    <3>1. Alike(txn[p], t, j)
      BY <2>2, <2>4 DEF Alike
    <3>2. SameEvents(j)
      BY <1>0, <2>2, <2>5, <2>6, EventsGrow
    <3>3. QED BY <1>0, <2>3, <2>6, <3>1, <3>2, SteadySet, CalmSame
  <2>7. CASE ~Reaches(p, q, i) /\ SetTxn(p, u) /\ queue' = queue
    <3>1. CASE j = i
      BY <1>0, <2>1, <2>2, <2>3, <2>7, <3>1, CalmUndelivered
    <3>2. CASE j # i
      <4> HIDE DEF u
      <4>1. Alike(txn[p], u, j)
        BY <2>2, <2>4, <3>2 DEF Alike
      <4>2. QED BY <1>0, <2>3, <2>7, <4>1, SteadySet, EventsStay, CalmSame
    <3>3. QED BY <3>1, <3>2
  <2>8. CASE SetTxn(p, Idle) /\ upset' = upset \union txn[p].all /\ queue' = queue
    <3>1. Alike(txn[p], Idle, j)
      BY <2>8, AlikeIdle
    <3>2. QED BY <1>0, <2>3, <2>8, <3>1, SteadySet, EventsStay, CalmSame
  <2>9. QED BY <2>2, <2>6, <2>7, <2>8
<1>13. ASSUME NEW p \in Picos, NEW i \in Ids, NEW lost \in BOOLEAN, Fail(p, i, lost)
       PROVE  CalmAt(j)'
  <2>1. /\ Types' /\ UNCHANGED <<home, buses, record, approver>>
        /\ upset' = upset \union {i}
        /\ GivesUp(p, i) \/ StopsWaiting(p, i) \/ Aborts(p, i)
    BY <1>13, FailFacts
  <2>2. SameBus(j) /\ j # i
    BY <2>1 DEF SameBus, SamePlace, buses
  <2>3. Steady(j) /\ SameEvents(j)
    BY <2>1, <2>2, CalmFail
  <2>4. QED BY <1>0, <2>2, <2>3, CalmSame
<1>14. ASSUME NEW m \in Meshes, Crash(m) PROVE CalmAt(j)'
  <2>1. /\ Types' /\ UNCHANGED <<home, buses, record, approver>>
        /\ \E P \in SUBSET Picos : CrashOf(P)
    BY <1>14, CrashFacts
  <2>2. SameBus(j)
    BY <2>1 DEF SameBus, SamePlace, buses
  <2>3. Steady(j) /\ SameEvents(j)
    BY <2>1, CalmCrash
  <2>4. QED BY <1>0, <2>2, <2>3, CalmSame
<1>15. ASSUME NEW p \in Picos, NEW i \in Ids, splice(p, i) PROVE CalmAt(j)'
  <2> DEFINE t == Spliced(p, i)
  <2>1. /\ txn[p].do \in {"cancel", "told"} /\ txn[p].at = "splice"
        /\ txn[p].left = {i} /\ i \in txn[p].all
        /\ txn[p].do = "cancel" => txn[p].caller = NoPico
        /\ txn[p].do = "told" => txn[p].all = {i}
        /\ Set2(list', list, p, i, "ended")
        /\ \/ txn[p].all = {i} /\ Ends(p, txn[p].caller, i)
           \/ txn[p].do = "cancel" /\ txn[p].all # {i} /\ SetTxn(p, t)
        /\ UNCHANGED <<peer, record, queue>> /\ approver' = approver
    BY <1>15, SpliceFacts DEF history
  <2>2. /\ t.do = txn[p].do /\ t.all = txn[p].all \ {i} /\ t.left = {}
        /\ t.at = "remove"
    BY SpliceTxns
  <2> HIDE DEF t
  <2>3. NoPico \notin Picos
    BY SkyAssumption DEF SkyAssumption
  <2>4. CASE j = i /\ txn[p].do = "cancel"
    <3>1. Told(p, i) /\ Splices(p, i)
      BY <2>1, <2>4 DEF Told, Splices
    <3>2. /\ txn'[p].do \in {"nothing", "cancel"} /\ txn'[p].at # "splice"
          /\ \A r \in Picos \ {p} : txn'[r] = txn[r]
      <4>1. CASE Ends(p, txn[p].caller, i)
        BY <2>1, <2>3, <2>4, <4>1, IdleFacts DEF Ends
      <4>2. CASE SetTxn(p, t)
        BY <2>2, <2>4, <4>2 DEF SetTxn
      <4>3. QED BY <2>1, <4>1, <4>2
    <3>3. QED BY <1>0, <2>1, <2>4, <3>1, <3>2, CalmSpliceOwn
  <2>5. CASE j = i /\ txn[p].do = "told"
    <3>1. Heard(p, i) /\ Ends(p, txn[p].caller, i)
      BY <2>1, <2>5 DEF Heard
    <3>2. QED BY <1>0, <2>1, <2>5, <3>1, CalmSpliceTold
  <2>6. CASE j # i
    <3>1. SameBus(j)
      BY <2>1, <2>6 DEF SameBus, SamePlace, Set2
    <3>2. Steady(j)
      <4>1. CASE txn[p].all = {i} /\ Ends(p, txn[p].caller, i)
        <5>1. txn[p].caller \in Picos \union {NoPico}
          BY <1>0 DEF Txns
        <5>2. ~Settling(p, j) /\ j \notin txn[p].all
          BY <2>1, <2>6, <4>1 DEF Settling
        <5>3. QED BY <1>00, <2>6, <4>1, <5>1, <5>2, SteadyEnds
      <4>2. CASE txn[p].do = "cancel" /\ SetTxn(p, t)
        <5>1. Alike(txn[p], t, j)
          BY <2>1, <2>2, <2>6, <4>2 DEF Alike
        <5>2. QED BY <4>2, <5>1, SteadySet
      <4>3. QED BY <2>1, <4>1, <4>2
    <3>3. QED BY <1>0, <2>1, <3>1, <3>2, EventsStay, CalmSame
  <2>7. QED BY <2>1, <2>4, <2>5, <2>6
<1>16. ASSUME NEW p \in Picos, NEW i \in Ids, establishSubscriptionIdentity(p, i)
       PROVE  CalmAt(j)'
  <2> DEFINE t == [txn[p] EXCEPT !.at = "send"]
  <2>1. /\ txn[p].at = "record" /\ txn[p].all = {i} /\ txn[p].left = {i}
        /\ \/ /\ txn[p].do = "ask"
              /\ Set2(record', record, p, i, "half")
              /\ SetTxn(p, t)
           \/ /\ txn[p].do = "confirm"
              /\ Set2(record', record, p, i, "anew")
              /\ SetTxn(p, Idle)
        /\ UNCHANGED <<buses, queue, history>>
    BY <1>16, EstablishFacts
  <2>2. SamePlace(j) /\ queue' = queue
    BY <2>1 DEF SamePlace, buses, history
  <2>3. CASE /\ txn[p].do = "ask"
             /\ Set2(record', record, p, i, "half")
             /\ SetTxn(p, t)
    <3>1. t.do = "ask" /\ t.at = "send"
      BY <1>0, <2>3, AtFacts DEF Ats
    <3> HIDE DEF t
    <3>2. Alike(txn[p], t, j)
      BY <2>1, <2>3, <3>1 DEF Alike
    <3>3. Steady(j)
      BY <2>3, <3>2, SteadySet
    <3>4. j = i => j \in Held(p) /\ ~Splices(p, j)'
      <4>1. j = i => list[p][j] = "outbound"
        BY <1>0, <2>1, <2>3 DEF Firm, TxnAt, Asking
      <4>2. txn'[p].at # "splice"
        BY <2>3, <3>1 DEF SetTxn
      <4>3. QED BY <4>1, <4>2 DEF Held, Splices
    <3>5. \A r \in Picos : \/ record'[r][j] = record[r][j]
                           \/ j \in Held(r) /\ ~Splices(r, j)'
      BY <2>3, <3>4 DEF Set2
    <3>6. QED BY <1>0, <2>2, <3>3, <3>5, EventsStay, CalmKept
  <2>4. CASE /\ txn[p].do = "confirm"
             /\ Set2(record', record, p, i, "anew")
             /\ SetTxn(p, Idle)
    <3>1. j # i
      BY <1>0, <2>1, <2>4 DEF Firm, TxnAt, CutAt
    <3>2. SameBus(j)
      BY <2>2, <2>4, <3>1 DEF SameBus, Set2
    <3>3. Alike(txn[p], Idle, j)
      BY <2>1, <3>1, AlikeIdle
    <3>4. QED BY <1>0, <2>2, <2>4, <3>2, <3>3, SteadySet, EventsStay, CalmSame
  <2>5. QED BY <2>1, <2>3, <2>4
<1>17. ASSUME NEW p \in Picos, NEW i \in Ids, Throw(p, i) PROVE CalmAt(j)'
  <2>1. UNCHANGED <<buses, record, queue, approver>>
    BY <1>17 DEF Throw
  <2>2. SameBus(j)
    BY <2>1 DEF SameBus, SamePlace, buses
  <2>3. Steady(j) /\ SameEvents(j)
    BY <1>17, CalmThrow
  <2>4. QED BY <1>0, <2>2, <2>3, CalmSame
<1>18. CASE UNCHANGED vars
  <2>1. UNCHANGED <<list, peer, record, txn, queue, approver>>
    BY <1>18 DEF vars
  <2>2. SameBus(j)
    BY <2>1 DEF SameBus, SamePlace
  <2>3. Steady(j)
    BY <1>0, <2>1, SteadyBy
  <2>4. QED BY <1>0, <2>1, <2>2, <2>3, EventsStay, CalmSame
<1>19. QED
  BY <1>1, <1>2, <1>3, <1>4, <1>5, <1>6, <1>7, <1>8, <1>9, <1>10, <1>11, <1>12, <1>13,
     <1>14, <1>15, <1>16, <1>17, <1>18 DEF Next, Continue, Serve

-----------------------------------------------------------------------------
(* The invariant holds, and what follows from it.                           *)

LEMMA InitInv ==
  ASSUME Init
  PROVE  IInv
<1>1. /\ home \in Homes /\ faults = 0 /\ upset = {} /\ cut = {}
      /\ approver = [i \in Ids |-> NoPico]
      /\ list = [p \in Picos |-> [i \in Ids |-> "none"]]
      /\ peer = [p \in Picos |-> [i \in Ids |-> NoPico]]
      /\ record = [p \in Picos |-> [i \in Ids |-> "none"]]
      /\ txn = [p \in Picos |-> Idle] /\ queue = [p \in Picos |-> << >>]
  BY DEF Init
<1>2. NoPico \notin Picos /\ MaxFaults \in Nat
  BY SkyAssumption DEF SkyAssumption
<1>3. Idle \in Txns /\ Shape(Idle) /\ Idle.do = "nothing" /\ Idle.all = {}
      /\ Idle.caller = NoPico
  BY IdleFacts
<1>4. << >> \in Seq(Events) /\ Len(<< >>) = 0
  OBVIOUS
<1>5. \A p \in Picos : queue[p] \in Seq(Events) /\ Len(queue[p]) = 0 /\ txn[p] = Idle
  BY <1>1, <1>4, Zenon
<1>6. \A p \in Picos, i \in Ids : /\ list[p][i] = "none" /\ record[p][i] = "none"
                                  /\ peer[p][i] = NoPico /\ approver[i] = NoPico
  BY <1>1
<1>7. \A p \in Picos, i \in Ids : /\ ~Mentioned(p, i) /\ ~About(p, i) /\ ~Asking(p, i)
                                  /\ ~Approving(p, i) /\ txn[p].do = "nothing"
                                  /\ ~Splices(p, i) /\ txn[p].caller = NoPico
  BY <1>3, <1>5, IdleFacts DEF Mentioned, About, Asking, Approving, Splices
<1>8. \A p \in Picos, i \in Ids : /\ OneIntro(p, i) /\ InOrder(p, i) /\ Awaited(p, i)
                                  /\ \A kind : ~HasEvent(p, i, kind)
  BY <1>5 DEF OneIntro, InOrder, Awaited, HasEvent
<1>9. TypeInv /\ RestInv
  <2>1. list \in [Picos -> [Ids -> Lists]]
        /\ record \in [Picos -> [Ids -> Records]]
    BY <1>1 DEF Lists, Records
  <2>2. peer \in [Picos -> [Ids -> Picos \union {NoPico}]]
        /\ approver \in [Ids -> Picos \union {NoPico}]
    BY <1>1
  <2>3. txn \in [Picos -> Txns] /\ \A p \in Picos : Shape(txn[p])
    BY <1>1, <1>3
  <2>4. queue \in [Picos -> Seq(Events)]
    BY <1>1, <1>4
  <2>5. QED BY <1>1, <1>2, <2>1, <2>2, <2>3, <2>4 DEF TypeInv, Types, RestInv
<1>10. PairInv
  BY <1>2, <1>6, <1>7 DEF PairInv, PairAt
<1>11. WaitInv
  BY <1>3, <1>5 DEF WaitInv
<1>12. TxnInv
  BY <1>7 DEF TxnInv, TxnAt, Ending
<1>13. ListInv
  BY <1>2, <1>6 DEF ListInv, ListAt
<1>14. EventInv
  BY <1>8 DEF EventInv, EventAt
<1>15. CalmInv
  BY <1>2, <1>6, <1>7, <1>8 DEF CalmInv, CalmAt, Tidy, Heard
<1>16. CutInv
  BY <1>1, <1>6 DEF CutInv, CutAt
<1>17. QED BY <1>9, <1>10, <1>11, <1>12, <1>13, <1>14, <1>15, <1>16 DEF IInv

LEMMA RestStep ==
  ASSUME RestInv, [Next]_vars
  PROVE  RestInv'
<1>1. MaxFaults \in Nat
  BY SkyAssumption DEF SkyAssumption
<1>2. ASSUME NEW p \in Picos, Continue(p) \/ Serve(p) PROVE RestInv'
  BY <1>2 DEF RestInv, Continue, Serve, Introduce, crossPicoEvent, LinkRead, LinkWrite,
     addInboundSubscription, RemoveOwn, addInboundPendingFromSkyIntro, splice,
     addOutboundSubscriptionLayer2, Removed, establishSubscriptionIdentity, history
<1>3. ASSUME NEW p \in Picos, NEW i \in Ids, NEW lost \in BOOLEAN, Fail(p, i, lost)
      PROVE  RestInv'
  BY <1>1, <1>3 DEF Fail, RestInv
<1>4. ASSUME NEW m \in Meshes, Crash(m) PROVE RestInv'
  BY <1>1, <1>4 DEF Crash, RestInv
<1>5. ASSUME NEW p \in Picos, NEW i \in Ids, Throw(p, i) PROVE RestInv'
  BY <1>1, <1>5 DEF Throw, RestInv
<1>6. QED BY <1>2, <1>3, <1>4, <1>5 DEF Next, vars, history, Ask, Approve, Cancel, RestInv

LEMMA NextInv ==
  ASSUME IInv, [Next]_vars
  PROVE  IInv'
<1>1. /\ TypeInv /\ RestInv /\ PairInv /\ WaitInv /\ TxnInv /\ CutInv /\ ListInv
      /\ EventInv /\ CalmInv
  BY DEF IInv
<1>2. TypeInv' /\ RestInv' /\ WaitInv'
  BY <1>1, TypeStep, RestStep, WaitStep
<1>3. \A j \in Ids : Firm(j)'
  BY <1>1, FirmStep
<1>4. PairInv' /\ TxnInv' /\ CutInv' /\ ListInv' /\ EventInv'
  BY <1>3 DEF PairInv, TxnInv, CutInv, ListInv, EventInv, Firm
<1>5. CalmInv'
  BY <1>1, CalmStep DEF CalmInv
<1>6. QED BY <1>2, <1>4, <1>5 DEF IInv

\* The invariant is one of the specification, for any picos, meshes and failures: it
\* relates what each pico lists, keeps, runs and queues for a relationship.
THEOREM InvariantCorrect == Spec => []IInv
<1>1. Init => IInv
  BY InitInv
<1>2. IInv /\ [Next]_vars => IInv'
  BY NextInv
<1>3. QED BY <1>1, <1>2, PTL DEF Spec

\* Every transaction is at a step of its kind, is through with a part of what it is
\* about, and never waits for itself.
THEOREM TypeCorrect == Spec => []TypeOK
<1>1. ASSUME IInv PROVE TypeOK
  <2>1. TypeInv /\ RestInv /\ PairInv /\ WaitInv
    BY <1>1 DEF IInv
  <2>2. ASSUME NEW p \in Picos
        PROVE  /\ txn[p].do \in {"nothing", "ask", "accept", "approve", "confirm",
                                "cancel", "told"}
               /\ txn[p].at \in Steps(txn[p].do)
               /\ txn[p].left \subseteq txn[p].all /\ txn[p].all \subseteq Ids
               /\ txn[p].caller \in (Picos \ {p}) \union {NoPico}
    <3>1. txn[p] \in Txns /\ Shape(txn[p]) /\ txn[p].caller # p
      BY <2>1, Waiters
    <3>2. QED BY <3>1 DEF Txns, Dos, Shape
  <2>3. QED BY <2>1, <2>2 DEF TypeOK, TypeInv, Types, RestInv, Events, Records
<1>2. QED BY <1>1, InvariantCorrect, PTL

LEMMA QuietFacts ==
  ASSUME TypeInv, NEW i \in Ids, Quiet(i), NEW p \in Picos
  PROVE  /\ ~About(p, i) /\ \A kind : ~HasEvent(p, i, kind)
         /\ ~Settling(p, i) /\ (Gone(p, i) <=> list[p][i] = "ended")
<1>1. DOMAIN queue[p] = 1 .. Len(queue[p])
  BY DEF TypeInv, Types
<1>2. ~About(p, i) /\ \A kind : ~HasEvent(p, i, kind)
  BY <1>1 DEF Quiet, HasEvent
<1>3. QED BY <1>2 DEF About, Settling, Approving, Gone, Told

\* When nothing about it is on its way, both picos have a relationship in the list that
\* the other's implies, unless a failure met it or a withdrawal met its approval: what
\* the rules that wait for each other leave behind is never one-sided.
THEOREM AgreeCorrect == Spec => []AgreeAtRest
<1>1. ASSUME IInv PROVE AgreeAtRest
  <2>1. SUFFICES ASSUME NEW i \in Ids \ upset, Quiet(i), NEW p \in Picos
                 PROVE  LET q == peer[p][i] IN
                        /\ list[p][i] = "established" => list[q][i] = "established"
                        /\ list[p][i] = "inbound" => list[q][i] = "outbound"
    BY DEF AgreeAtRest
  <2>2. TypeInv /\ Firm(i) /\ CalmAt(i)
    BY <1>1 DEF IInv, Firm, PairInv, TxnInv, CutInv, ListInv, EventInv, CalmInv
  <2>3. CASE list[p][i] \in {"established", "inbound"}
    <3>1. PICK q \in Picos : peer[p][i] = q
      BY <2>2, <2>3 DEF Firm, PairAt, TypeInv, Types
    <3>2. /\ p # q /\ NoPico \notin Picos
          /\ Tidy(p, i) /\ Tidy(q, i) /\ Agrees(p, q, i) /\ Agrees(q, p, i)
          /\ approver[i] \in {p, q, NoPico} /\ (list[q][i] # "none" => peer[q][i] = p)
      BY <2>2, <3>1, CalmParts
    <3>3. /\ ~Settling(p, i) /\ ~Settling(q, i)
          /\ ~HasEvent(q, i, "sky_intro_response")
          /\ Gone(p, i) <=> list[p][i] = "ended"
          /\ Gone(q, i) <=> list[q][i] = "ended"
      BY <2>1, <2>2, QuietFacts
    <3>4. list[q][i] # "ended"
      BY <2>3, <3>2, <3>3 DEF Agrees
    <3>5. CASE list[p][i] = "established"
      <4>1. approver[i] \in {p, q}
        BY <2>2, <3>2, <3>5 DEF Firm, ListAt
      <4>2. CASE approver[i] = p
        <5>1. list[q][i] \in {"outbound", "established", "ended"}
          BY <2>2, <3>1, <4>2 DEF Firm, ListAt
        <5>2. list[q][i] # "outbound"
          BY <3>2, <3>3, <4>2 DEF Agrees
        <5>3. QED BY <3>1, <3>4, <3>5, <5>1, <5>2
      <4>3. CASE approver[i] = q
        <5>1. list[q][i] \in {"inbound", "established", "ended"}
          BY <2>2, <4>3 DEF Firm, ListAt
        <5>2. list[q][i] # "inbound"
          BY <3>2, <3>3, <4>3 DEF Tidy
        <5>3. QED BY <3>1, <3>4, <3>5, <5>1, <5>2
      <4>4. QED BY <4>1, <4>2, <4>3
    <3>6. CASE list[p][i] = "inbound"
      <4>1. list[q][i] \in {"outbound", "established", "ended"}
        BY <2>2, <3>1, <3>6 DEF Firm, ListAt
      <4>2. approver[i] # p
        BY <3>2, <3>3, <3>6 DEF Tidy
      <4>3. approver[i] # q
        BY <2>2, <3>2, <3>6, <4>1 DEF Firm, ListAt
      <4>4. list[q][i] # "established"
        BY <2>2, <3>2, <4>2, <4>3 DEF Firm, ListAt
      <4>5. QED BY <3>1, <3>4, <3>6, <4>1, <4>4
    <3>7. QED BY <2>3, <3>5, <3>6
  <2>4. QED BY <2>3
<1>2. QED BY <1>1, InvariantCorrect, PTL

\* A bus lacks its record only while its pico's transaction is between the writes of the
\* two, or where a failure came between them, whatever else fails; and at rest a record
\* that is left has its bus, and names the other pico's DID if that is established: no
\* late link brings back what teardownSubscription took away.
THEOREM RecordsCorrect == Spec => []RecordsMatchBuses
<1>1. ASSUME IInv PROVE RecordsMatchBuses
  <2>1. TypeInv /\ CutInv /\ ListInv /\ CalmInv
    BY <1>1 DEF IInv
  <2>2. ASSUME NEW p \in Picos, NEW i \in Held(p)
        PROVE  record[p][i] # "none" \/ Between(p, i) \/ <<p, i>> \in cut
    <3>1. i \in Ids /\ list[p][i] \in {"outbound", "inbound", "established"}
      BY DEF Held
    <3>2. record[p][i] # "none" \/ Loose(p, i)
      BY <2>1, <3>1 DEF ListInv, ListAt
    <3>3. QED BY <3>2 DEF Loose
  <2>3. ASSUME NEW i \in Ids \ upset, Quiet(i), NEW p \in Picos
        PROVE  /\ record[p][i] # "none" => i \in Held(p)
               /\ list[p][i] = "established" => record[p][i] = "linked"
    <3>1. record[p][i] # "none" => i \in Held(p)
      BY <2>1, <2>3, QuietFacts DEF CalmInv, CalmAt, Tidy
    <3>2. ~Loose(p, i)
      <4>1. <<p, i>> \notin cut
        BY <2>1 DEF CutInv, CutAt
      <4>2. ~About(p, i)
        BY <2>1, <2>3, QuietFacts
      <4>3. ~Between(p, i)
        BY <2>1, <4>2 DEF Between, About, TypeInv, Shape
      <4>4. QED BY <4>1, <4>3 DEF Loose
    <3>3. list[p][i] = "established" => record[p][i] = "linked"
      BY <2>1, <3>2 DEF ListInv, ListAt
    <3>4. QED BY <3>1, <3>3
  <2>4. QED BY <2>2, <2>3 DEF RecordsMatchBuses
<1>2. QED BY <1>1, InvariantCorrect, PTL

-----------------------------------------------------------------------------
(* The refinement: what a step does to where the picos stand.               *)

LEMMA StandsNow ==
  ASSUME NEW p \in Picos, NEW i \in Ids
  PROVE  /\ list[p][i] = "outbound" => stands[p][i] = "asked"
         /\ list[p][i] = "inbound" =>
              stands[p][i] = IF approver[i] = p THEN "established" ELSE "offered"
         /\ list[p][i] \notin {"outbound", "inbound"} => stands[p][i] = list[p][i]
BY DEF stands

LEMMA StandsNext ==
  ASSUME NEW p \in Picos, NEW i \in Ids
  PROVE  /\ list'[p][i] = "outbound" => stands'[p][i] = "asked"
         /\ list'[p][i] = "inbound" =>
              stands'[p][i] = IF approver'[i] = p THEN "established" ELSE "offered"
         /\ list'[p][i] \notin {"outbound", "inbound"} => stands'[p][i] = list'[p][i]
BY DEF stands

LEMMA StandsFunction ==
  /\ stands = [p \in Picos |-> [i \in Ids |-> stands[p][i]]]
  /\ stands' = [p \in Picos |-> [i \in Ids |-> stands'[p][i]]]
BY DEF stands

LEMMA StandsKept ==
  ASSUME NEW p \in Picos, NEW i \in Ids, list'[p][i] = list[p][i],
         list[p][i] = "inbound" => (approver'[i] = p <=> approver[i] = p)
  PROVE  stands'[p][i] = stands[p][i]
BY StandsNow, StandsNext

LEMMA StandsSame ==
  ASSUME \A p \in Picos, i \in Ids : stands'[p][i] = stands[p][i]
  PROVE  stands' = stands
<1>1. [p \in Picos |-> [i \in Ids |-> stands'[p][i]]]
        = [p \in Picos |-> [i \in Ids |-> stands[p][i]]]
  OBVIOUS
<1>2. QED BY <1>1, StandsFunction

LEMMA StandsMoves ==
  ASSUME NEW p \in Picos, NEW i \in Ids, NEW x, stands'[p][i] = x,
         \A r \in Picos, j \in Ids : r # p \/ j # i => stands'[r][j] = stands[r][j]
  PROVE  stands' = [stands EXCEPT ![p][i] = x]
<1>1. stands' = [r \in Picos |-> [j \in Ids |->
                   IF r = p /\ j = i THEN x ELSE stands[r][j]]]
  BY StandsFunction
<1>2. [stands EXCEPT ![p][i] = x]
        = [r \in Picos |-> [j \in Ids |-> IF r = p /\ j = i THEN x ELSE stands[r][j]]]
  BY StandsFunction
<1>3. QED BY <1>1, <1>2

LEMMA AskStep ==
  ASSUME IInv, NEW p \in Picos, NEW q \in Picos, NEW i \in Ids, Ask(p, q, i)
  PROVE  Promise!Ask(p, i)
<1>1. /\ \A r \in Picos : list[r][i] = "none"
      /\ Set2(list', list, p, i, "outbound") /\ approver' = approver
  BY AskFacts DEF IInv, history
<1>2. \A r \in Picos : stands[r][i] = "none"
  BY <1>1, StandsNow
<1>3. stands'[p][i] = "asked"
  BY <1>1, StandsNext DEF Set2
<1>4. \A r \in Picos, j \in Ids : r # p \/ j # i => stands'[r][j] = stands[r][j]
  BY <1>1, StandsKept DEF Set2
<1>5. stands' = [stands EXCEPT ![p][i] = "asked"]
  BY <1>3, <1>4, StandsMoves
<1>6. QED BY <1>1, <1>2, <1>5 DEF Promise!Ask

\* The first response of an approval is what makes it one.
LEMMA ApproveStep ==
  ASSUME IInv, NEW q \in Picos, LinkWrite(q)
  PROVE  (\E i \in Ids : Promise!Approve(q, i)) \/ UNCHANGED <<stands, approver>>
<1>1. TypeInv /\ PairInv /\ Types
  BY DEF IInv, TypeInv
<1>2. PICK i \in Ids : txn[q].all = {i} /\ Approving(q, i)
  BY <1>1, Approvals DEF LinkWrite
<1>3. PICK p \in Picos \ {q} : peer[q][i] = p
  BY <1>1, <1>2, LinkWriteFacts
<1>4. list' = list /\ approver' = [approver EXCEPT ![i] = q]
  BY <1>1, <1>2, LinkWriteFacts DEF buses
<1>5. Firm(i)
  BY DEF IInv, Firm, PairInv, TxnInv, CutInv, ListInv, EventInv
<1>6. list[q][i] = "inbound" /\ list[p][i] # "inbound"
  BY <1>2, <1>3, <1>5 DEF Firm, TxnAt, ListAt
<1>7. approver'[i] = q /\ \A j \in Ids \ {i} : approver'[j] = approver[j]
  BY <1>1, <1>4 DEF Types
<1>8. \A r \in Picos \ {p, q} : list[r][i] = "none"
  BY <1>1, <1>3, <1>5, PairOf DEF Firm, Blank
<1>9. \A r \in Picos, j \in Ids : r # q \/ j # i => stands'[r][j] = stands[r][j]
  BY <1>4, <1>6, <1>7, <1>8, StandsKept
<1>10. stands'[q][i] = "established"
  BY <1>4, <1>6, <1>7, StandsNext
<1>11. CASE approver[i] = q
  <2>1. stands'[q][i] = stands[q][i]
    BY <1>6, <1>10, <1>11, StandsNow
  <2>2. stands' = stands
    BY <1>9, <2>1, StandsSame
  <2>3. approver' = approver
    BY <1>1, <1>4, <1>11 DEF Types
  <2>4. QED BY <2>2, <2>3
<1>12. CASE approver[i] # q
  <2>1. stands[q][i] = "offered"
    BY <1>6, <1>12, StandsNow
  <2>2. stands' = [stands EXCEPT ![q][i] = "established"]
    BY <1>9, <1>10, StandsMoves
  <2>3. QED BY <1>4, <2>1, <2>2 DEF Promise!Approve
<1>13. QED BY <1>11, <1>12

LEMMA SettleStep ==
  ASSUME IInv, NEW q \in Picos, addInboundSubscription(q)
  PROVE  UNCHANGED <<stands, approver>>
<1>1. TypeInv /\ PairInv /\ WaitInv
  BY DEF IInv
<1>2. PICK i \in Ids : txn[q].all = {i} /\ Approving(q, i)
  BY <1>1, Approvals DEF addInboundSubscription
<1>3. /\ txn[q].at = "settle" /\ Set2(list', list, q, i, "established")
      /\ approver' = approver
  BY <1>1, <1>2, SettleFacts DEF history
<1>4. list[q][i] = "inbound" /\ approver[i] = q
  BY <1>2, <1>3 DEF IInv, TxnInv, TxnAt
<1>5. stands'[q][i] = stands[q][i]
  BY <1>3, <1>4, StandsNow, StandsNext DEF Set2
<1>6. \A r \in Picos, j \in Ids : r # q \/ j # i => stands'[r][j] = stands[r][j]
  BY <1>3, StandsKept DEF Set2
<1>7. QED BY <1>3, <1>5, <1>6, StandsSame

LEMMA HearStep ==
  ASSUME IInv, NEW q \in Picos, addInboundPendingFromSkyIntro(q)
  PROVE  \E i \in Ids : Promise!Hear(q, i)
<1>1. TypeInv /\ PairInv /\ WaitInv /\ Types
  BY DEF IInv, TypeInv
<1>2. PICK i \in Ids : queue[q][1].id = i
  BY <1>1, PendingFacts
<1>3. /\ 1 \in 1 .. Len(queue[q]) /\ queue[q][1].kind = "sky_intro"
      /\ Set2(list', list, q, i, "inbound") /\ approver' = approver
  BY <1>1, <1>2, PendingFacts DEF history
<1>4. PICK p \in Picos \ {q} : peer[q][i] = p
  BY <1>1, <1>2, PendingFacts
<1>5. Firm(i) /\ HasEvent(q, i, "sky_intro")
  BY <1>2, <1>3 DEF IInv, Firm, PairInv, TxnInv, CutInv, ListInv, EventInv, HasEvent
<1>6. /\ list[q][i] = "none" /\ list[p][i] \in {"outbound", "ended"}
      /\ approver[i] = NoPico
  BY <1>4, <1>5 DEF Firm, EventAt
<1>7. \A r \in Picos \ {p, q} : list[r][i] = "none"
  BY <1>1, <1>4, <1>5, PairOf DEF Firm, Blank
<1>8. /\ stands[q][i] = "none" /\ stands[p][i] # "none"
      /\ \A r \in Picos \ {p, q} : stands[r][i] = "none"
  BY <1>6, <1>7, StandsNow
<1>9. q # NoPico
  BY SkyAssumption DEF SkyAssumption
<1>10. stands'[q][i] = "offered"
  BY <1>3, <1>6, <1>9, StandsNext DEF Set2
<1>11. \A r \in Picos, j \in Ids : r # q \/ j # i => stands'[r][j] = stands[r][j]
  BY <1>3, StandsKept DEF Set2
<1>12. stands' = [stands EXCEPT ![q][i] = "offered"]
  BY <1>10, <1>11, StandsMoves
<1>13. QED BY <1>3, <1>8, <1>12 DEF Promise!Hear

LEMMA ConfirmStep ==
  ASSUME IInv, NEW p \in Picos, addOutboundSubscriptionLayer2(p)
  PROVE  (\E i \in Ids : Promise!Confirm(p, i)) \/ UNCHANGED <<stands, approver>>
<1>1. TypeInv /\ PairInv /\ WaitInv
  BY DEF IInv
<1>2. PICK i : i = queue[p][1].id
  OBVIOUS
<1>3. /\ i \in Ids /\ 1 \in 1 .. Len(queue[p]) /\ queue[p][1].kind = "sky_intro_response"
      /\ peer[p][i] \in Picos \ {p} /\ approver' = approver
      /\ (list[p][i] = "outbound" => Set2(list', list, p, i, "established"))
      /\ (list[p][i] # "outbound" => list' = list)
  <2> DEFINE e == queue[p][1]
             t == Txn("confirm", {i}, "record", NoPico)
  <2>1. /\ txn[p] = Idle /\ i \in Ids /\ 1 \in 1 .. Len(queue[p])
        /\ e.kind = "sky_intro_response" /\ e.caller = NoPico
        /\ peer[p][i] \in Picos \ {p}
        /\ Types'
        /\ (list[p][i] = "outbound" => Set2(list', list, p, i, "established"))
        /\ (list[p][i] # "outbound" => list' = list)
        /\ Shrinks(p)
        /\ \/ SetTxn(p, Idle) /\ (list[p][i] = "outbound" => record[p][i] # "none")
           \/ /\ list[p][i] = "outbound" /\ record[p][i] = "none"
              /\ SetTxn(p, t)
        /\ UNCHANGED <<peer, record, history>>
    BY <1>1, <1>2, ConfirmFacts
  <2>2. QED BY <2>1 DEF history
<1>4. CASE list[p][i] = "outbound"
  <2>1. HasEvent(p, i, "sky_intro_response")
    BY <1>2, <1>3 DEF HasEvent
  <2>2. approver[i] = peer[p][i]
    BY <1>3, <2>1 DEF IInv, EventInv, EventAt
  <2>3. approver[i] \notin {NoPico, p}
    BY <1>3, <2>2, SkyAssumption DEF SkyAssumption
  <2>4. stands[p][i] = "asked" /\ stands'[p][i] = "established"
    BY <1>3, <1>4, StandsNow, StandsNext DEF Set2
  <2>5. \A r \in Picos, j \in Ids : r # p \/ j # i => stands'[r][j] = stands[r][j]
    BY <1>3, <1>4, StandsKept DEF Set2
  <2>6. stands' = [stands EXCEPT ![p][i] = "established"]
    BY <1>3, <2>4, <2>5, StandsMoves
  <2>7. QED BY <1>3, <2>3, <2>4, <2>6 DEF Promise!Confirm
<1>5. CASE list[p][i] # "outbound"
  BY <1>3, <1>5, StandsKept, StandsSame
<1>6. QED BY <1>4, <1>5

\* A bus is taken out of its list.
LEMMA SpliceStep ==
  ASSUME IInv, NEW p \in Picos, NEW i \in Ids, splice(p, i)
  PROVE  Promise!End(p, {i})
<1>1. TypeInv /\ PairInv /\ WaitInv
  BY DEF IInv
<1>2. /\ txn[p].do \in {"cancel", "told"} /\ i \in txn[p].all
      /\ Set2(list', list, p, i, "ended") /\ approver' = approver
  BY <1>1, SpliceFacts DEF history
<1>3. list[p][i] \in {"outbound", "inbound", "established"}
  BY <1>2 DEF IInv, TxnInv, TxnAt, Ending, Held
<1>4. stands[p][i] \in {"asked", "offered", "established"}
  BY <1>3, StandsNow
<1>5. stands'[p][i] = "ended"
  BY <1>2, StandsNext DEF Set2
<1>6. \A r \in Picos, j \in Ids : r # p \/ j # i => stands'[r][j] = stands[r][j]
  BY <1>2, StandsKept DEF Set2
<1>7. stands' = [r \in Picos |-> [j \in Ids |->
                   IF r = p /\ j \in {i} THEN "ended" ELSE stands[r][j]]]
  BY <1>5, <1>6, StandsFunction
<1>8. [stands EXCEPT ![p] = [j \in Ids |-> IF j \in {i} THEN "ended" ELSE @[j]]]
        = [r \in Picos |-> [j \in Ids |->
             IF r = p /\ j \in {i} THEN "ended" ELSE stands[r][j]]]
  BY StandsFunction
<1>9. QED BY <1>2, <1>4, <1>7, <1>8 DEF Promise!End

LEMMA PromiseInit ==
  ASSUME Init
  PROVE  Promise!Init
<1>1. stands = [p \in Picos |-> [i \in Ids |-> "none"]]
  BY DEF Init, stands
<1>2. QED BY <1>1 DEF Init, Promise!Init

LEMMA PromiseNext ==
  ASSUME IInv, [Next]_vars
  PROVE  [Promise!Next]_<<stands, approver>>
<1>1. ASSUME UNCHANGED <<list, approver>> PROVE UNCHANGED <<stands, approver>>
  BY <1>1, StandsKept, StandsSame
<1>2. ASSUME NEW p \in Picos, NEW q \in Picos, NEW i \in Ids, Ask(p, q, i)
      PROVE  Promise!Next
  BY <1>2, AskStep DEF Promise!Next
<1>3. ASSUME NEW p \in Picos, LinkWrite(p)
      PROVE  Promise!Next \/ UNCHANGED <<stands, approver>>
  BY <1>3, ApproveStep DEF Promise!Next
<1>4. ASSUME NEW p \in Picos, addInboundSubscription(p)
      PROVE  UNCHANGED <<stands, approver>>
  BY <1>4, SettleStep
<1>5. ASSUME NEW p \in Picos, addInboundPendingFromSkyIntro(p) PROVE Promise!Next
  BY <1>5, HearStep DEF Promise!Next
<1>6. ASSUME NEW p \in Picos, addOutboundSubscriptionLayer2(p)
      PROVE  Promise!Next \/ UNCHANGED <<stands, approver>>
  BY <1>6, ConfirmStep DEF Promise!Next
<1>7. ASSUME NEW p \in Picos, NEW i \in Ids, splice(p, i) PROVE Promise!Next
  BY <1>7, SpliceStep DEF Promise!Next
<1>8. ASSUME NEW p \in Picos, NEW i \in Ids,
             \/ establishSubscriptionIdentity(p, i) \/ Introduce(p, i) \/ Throw(p, i)
             \/ crossPicoEvent(p, i) \/ RemoveOwn(p, i) \/ Approve(p, i)
      PROVE  UNCHANGED <<list, approver>>
  BY <1>8 DEF establishSubscriptionIdentity, Introduce, Throw, crossPicoEvent, RemoveOwn,
     Approve, buses, history
<1>9. ASSUME NEW p \in Picos, NEW I, Cancel(p, I) PROVE UNCHANGED <<list, approver>>
  BY <1>9 DEF Cancel, buses, history
<1>10. ASSUME NEW p \in Picos, NEW i \in Ids, NEW lost, Fail(p, i, lost)
       PROVE  UNCHANGED <<list, approver>>
  BY <1>10 DEF Fail, buses
<1>11. ASSUME NEW m, Crash(m) PROVE UNCHANGED <<list, approver>>
  BY <1>11 DEF Crash, buses
<1>12. ASSUME NEW p \in Picos, LinkRead(p) \/ Removed(p)
       PROVE  UNCHANGED <<list, approver>>
  BY <1>12 DEF LinkRead, Removed, buses, history
<1>13. CASE UNCHANGED vars
  BY <1>1, <1>13 DEF vars
<1>14. QED
  BY <1>1, <1>2, <1>3, <1>4, <1>5, <1>6, <1>7, <1>8, <1>9, <1>10, <1>11, <1>12, <1>13
     DEF Next, Continue, Serve

\* The rules for layer 2 implement the abstract relationship whatever fails, for any
\* picos and meshes: nobody is established without the other's approval, a third pico
\* never takes part, and no response or removal that comes late revives an end.
THEOREM PromiseKept == Spec => KeepsPromise
<1>1. Init => Promise!Init
  BY PromiseInit
<1>2. IInv /\ [Next]_vars => [Promise!Next]_<<stands, approver>>
  BY PromiseNext
<1>3. QED BY <1>1, <1>2, InvariantCorrect, PTL DEF Spec, KeepsPromise, Promise!Spec

================================================================================
