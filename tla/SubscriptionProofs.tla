-------------------------- MODULE SubscriptionProofs --------------------------
(***************************************************************************)
(* Proofs about Subscription for every set of picos, engines and            *)
(* relationships: types, one bus per channel, and that the rules implement  *)
(* the abstract Relationship, whatever events are lost, overtaken, repeated *)
(* or dropped by a crash; and, where none is lost or overtaken, that both   *)
(* sides agree once nothing is on its way.                                  *)
(***************************************************************************)
EXTENDS Subscription, TLAPS

NetType == [Picos -> [Ids -> Seq(Events)]]

-----------------------------------------------------------------------------
(* What is on its way after an event is taken out or others are sent.       *)

LEMMA ConcatFacts ==
  ASSUME NEW S, NEW a \in Seq(S), NEW b \in Seq(S)
  PROVE  /\ a \o b \in Seq(S)
         /\ Len(a \o b) = Len(a) + Len(b)
         /\ \A m \in 1 .. Len(a) + Len(b) :
              (a \o b)[m] = IF m <= Len(a) THEN a[m] ELSE b[m - Len(a)]
OBVIOUS

LEMMA RemoveAtFacts ==
  ASSUME NEW S, NEW s \in Seq(S), NEW k \in 1 .. Len(s)
  PROVE  /\ RemoveAt(s, k) \in Seq(S)
         /\ Len(RemoveAt(s, k)) = Len(s) - 1
         /\ \A m \in 1 .. Len(s) - 1 :
              RemoveAt(s, k)[m] = s[IF m < k THEN m ELSE m + 1]
<1>1. Len(s) \in Nat /\ k \in Int /\ k - 1 \in Int /\ k + 1 \in Int
  OBVIOUS
<1>2. SubSeq(s, 1, k - 1) \in Seq(S)
  OBVIOUS
<1>3. Len(SubSeq(s, 1, k - 1)) = k - 1
  BY <1>1
<1>4. \A m \in 1 .. k - 1 : SubSeq(s, 1, k - 1)[m] = s[m]
  BY <1>1
<1>5. SubSeq(s, k + 1, Len(s)) \in Seq(S)
  OBVIOUS
<1>6. Len(SubSeq(s, k + 1, Len(s))) = Len(s) - k
  BY <1>1
<1>7. \A m \in 1 .. Len(s) - k : SubSeq(s, k + 1, Len(s))[m] = s[k + m]
  BY <1>1
<1> DEFINE a == SubSeq(s, 1, k - 1)
           b == SubSeq(s, k + 1, Len(s))
<1> HIDE DEF a, b
<1>8. a \o b \in Seq(S) /\ Len(a \o b) = Len(s) - 1
  <2>1. a \o b \in Seq(S) /\ Len(a \o b) = Len(a) + Len(b)
    BY <1>2, <1>5, ConcatFacts, Zenon DEF a, b
  <2>2. Len(a) = k - 1 /\ Len(b) = Len(s) - k
    BY <1>3, <1>6 DEF a, b
  <2>3. QED BY <1>1, <2>1, <2>2
<1>9. ASSUME NEW m \in 1 .. Len(s) - 1
      PROVE  (a \o b)[m] = s[IF m < k THEN m ELSE m + 1]
  <2>1. Len(a) = k - 1 /\ Len(b) = Len(s) - k
    BY <1>3, <1>6 DEF a, b
  <2>2. m \in 1 .. Len(a) + Len(b)
    BY <1>1, <2>1
  <2>3. (a \o b)[m] = IF m <= Len(a) THEN a[m] ELSE b[m - Len(a)]
    BY <1>2, <1>5, <2>2, ConcatFacts, Zenon DEF a, b
  <2>4. CASE m < k
    <3>1. m \in 1 .. k - 1 /\ m <= Len(a)
      BY <1>1, <2>1, <2>4
    <3>2. QED BY <1>4, <2>3, <2>4, <3>1 DEF a
  <2>5. CASE ~(m < k)
    <3>1. /\ m - (k - 1) \in 1 .. Len(s) - k
          /\ k + (m - (k - 1)) = m + 1 /\ ~(m <= Len(a))
      BY <1>1, <2>1, <2>5
    <3>2. b[m - (k - 1)] = s[m + 1]
      BY <1>7, <3>1 DEF b
    <3>3. QED BY <2>1, <2>3, <2>5, <3>1, <3>2
  <2>6. QED BY <2>4, <2>5
<1>10. RemoveAt(s, k) = a \o b
  BY DEF RemoveAt, a, b
<1>11. QED BY <1>8, <1>9, <1>10, Zenon

\* Everything on its way after the k-th event is taken was on its way before.
Kept(n, p, i, k) ==
  \A q \in Picos, j \in Ids : \A m \in 1 .. Len(n[q][j]) :
    LET s == IF q = p /\ j = i /\ m >= k THEN m + 1 ELSE m
    IN /\ s \in 1 .. Len(net[q][j])
       /\ n[q][j][m] = net[q][j][s]
       /\ q = p /\ j = i => s # k

LEMMA TookFacts ==
  ASSUME net \in NetType, NEW p \in Picos, NEW i \in Ids,
         NEW k \in 1 .. Len(net[p][i])
  PROVE  Took(p, i, k) \in NetType /\ Kept(Took(p, i, k), p, i, k)
<1> DEFINE n == Took(p, i, k)
<1>1. net[p][i] \in Seq(Events) /\ Len(net[p][i]) \in Nat
  BY DEF NetType
<1>2. /\ n \in NetType
      /\ n[p][i] = RemoveAt(net[p][i], k)
      /\ \A q \in Picos, j \in Ids : q # p \/ j # i => n[q][j] = net[q][j]
  BY <1>1, RemoveAtFacts DEF NetType, Took
<1>3. ASSUME NEW q \in Picos, NEW j \in Ids, NEW m \in 1 .. Len(n[q][j])
      PROVE  LET s == IF q = p /\ j = i /\ m >= k THEN m + 1 ELSE m
             IN /\ s \in 1 .. Len(net[q][j])
                /\ n[q][j][m] = net[q][j][s]
                /\ q = p /\ j = i => s # k
  <2>1. CASE q = p /\ j = i
    <3>1. n[q][j] = RemoveAt(net[p][i], k)
      BY <1>2, <2>1
    <3>2. Len(n[q][j]) = Len(net[p][i]) - 1
      BY <1>1, <3>1, RemoveAtFacts
    <3>3. m \in 1 .. Len(net[p][i]) - 1
      BY <3>2
    <3>4. n[q][j][m] = net[p][i][IF m < k THEN m ELSE m + 1]
      BY <1>1, <3>1, <3>3, RemoveAtFacts, Zenon
    <3>5. QED BY <1>1, <2>1, <3>3, <3>4
  <2>2. CASE ~(q = p /\ j = i)
    BY <1>2, <2>2
  <2>3. QED BY <2>1, <2>2
<1>4. QED BY <1>2, <1>3 DEF Kept

\* What is on its way after events are sent was so before, or was sent.
Sent(n, o, q, i, events) ==
  \A r \in Picos, j \in Ids : \A m \in 1 .. Len(n[r][j]) :
    \/ m \in 1 .. Len(o[r][j]) /\ n[r][j][m] = o[r][j][m]
    \/ /\ r = q /\ j = i
       /\ m - Len(o[r][j]) \in 1 .. Len(events)
       /\ n[r][j][m] = events[m - Len(o[r][j])]

LEMMA SendFacts ==
  ASSUME NEW o \in NetType, NEW q, NEW i \in Ids, NEW events \in Seq(Events)
  PROVE  /\ SendTo(o, q, i, events) \in NetType
         /\ Sent(SendTo(o, q, i, events), o, q, i, events)
<1> DEFINE n == SendTo(o, q, i, events)
<1>0. \A r \in Picos : o[r][i] \o events \in Seq(Events)
  BY ConcatFacts DEF NetType
<1>1. /\ n \in NetType
      /\ \A r \in Picos, j \in Ids :
           n[r][j] = IF r = q /\ j = i THEN o[r][j] \o events ELSE o[r][j]
  BY <1>0 DEF NetType, SendTo
<1>2. ASSUME NEW r \in Picos, NEW j \in Ids, NEW m \in 1 .. Len(n[r][j])
      PROVE  \/ m \in 1 .. Len(o[r][j]) /\ n[r][j][m] = o[r][j][m]
             \/ /\ r = q /\ j = i
                /\ m - Len(o[r][j]) \in 1 .. Len(events)
                /\ n[r][j][m] = events[m - Len(o[r][j])]
  <2>1. o[r][j] \in Seq(Events) /\ Len(o[r][j]) \in Nat /\ Len(events) \in Nat
    BY DEF NetType
  <2>2. CASE r = q /\ j = i
    <3>1. /\ Len(n[r][j]) = Len(o[r][j]) + Len(events)
          /\ n[r][j][m] = IF m <= Len(o[r][j]) THEN o[r][j][m]
                          ELSE events[m - Len(o[r][j])]
      <4>1. n[r][j] = o[r][j] \o events
        BY <1>1, <2>2
      <4>2. Len(n[r][j]) = Len(o[r][j]) + Len(events)
        BY <2>1, <4>1
      <4>3. m \in 1 .. Len(o[r][j]) + Len(events)
        BY <4>2
      <4>4. QED BY <2>1, <4>1, <4>2, <4>3, ConcatFacts, Zenon
    <3>2. QED BY <2>1, <2>2, <3>1
  <2>3. CASE ~(r = q /\ j = i)
    BY <1>1, <2>3
  <2>4. QED BY <2>2, <2>3
<1>3. QED BY <1>1, <1>2 DEF Sent
-----------------------------------------------------------------------------
(* Types.                                                                   *)

Lists == [Picos -> [Ids -> Nat]]
Peers == [Picos -> [Ids -> Picos \union {NoPico}]]
Chans == [Picos -> [Ids -> {"none", "open", "deleted"}]]

\* TypeOK without what is on its way.
RestType ==
  /\ outbound \in Lists /\ inbound \in Lists /\ established \in Lists
  /\ peer \in Peers
  /\ chan \in Chans
  /\ auto \subseteq Picos
  /\ approver \in [Ids -> Picos \union {NoPico}]
  /\ upset \subseteq Ids
  /\ crashes \in Nat

More(f, p, i) == [f EXCEPT ![p][i] = @ + 1]
Fewer(f, p, i) == [f EXCEPT ![p][i] = @ - 1]
With(f, p, i, x) == [f EXCEPT ![p][i] = x]

LEMMA ListType ==
  ASSUME NEW f \in Lists, NEW p \in Picos, NEW i \in Ids
  PROVE  /\ More(f, p, i) \in Lists
         /\ f[p][i] > 0 => Fewer(f, p, i) \in Lists
BY DEF Lists, More, Fewer

LEMMA ChanType ==
  ASSUME NEW f \in Chans, NEW p \in Picos, NEW i \in Ids
  PROVE  With(f, p, i, "open") \in Chans /\ With(f, p, i, "deleted") \in Chans
BY DEF Chans, With

LEMMA PeerType ==
  ASSUME NEW f \in Peers, NEW p \in Picos, NEW i \in Ids, NEW q \in Picos
  PROVE  With(f, p, i, q) \in Peers
BY DEF Peers, With

LEMMA TypeSplit == TypeOK <=> RestType /\ net \in NetType
BY Zenon DEF TypeOK, RestType, NetType, Lists, Peers, Chans

LEMMA TypeSplitNext == TypeOK' <=> RestType' /\ net' \in NetType
BY Zenon DEF TypeOK, RestType, NetType, Lists, Peers, Chans

LEMMA EventType ==
  ASSUME TypeOK, NEW p \in Picos, NEW i \in Ids, NEW k \in 1 .. Len(net[p][i])
  PROVE  net[p][i][k] \in Events /\ net[p][i][k].from \in Picos
<1>1. net[p][i] \in Seq(Events)
  BY DEF TypeOK
<1>2. net[p][i][k] \in Events
  BY <1>1
<1>3. QED BY <1>2 DEF Events

LEMMA TookType ==
  ASSUME TypeOK, NEW p \in Picos, NEW i \in Ids, NEW k \in 1 .. Len(net[p][i])
  PROVE  Took(p, i, k) \in NetType /\ Kept(Took(p, i, k), p, i, k)
BY TookFacts DEF TypeOK, NetType

LEMMA AnswerType ==
  ASSUME NEW p \in Picos
  PROVE  Answer(p) \in Events /\ <<Answer(p)>> \in Seq(Events) /\ AutoAnswers(p) \in Seq(Events)
<1>1. Answer(p) \in Events
  BY DEF Answer, Event, Events, Kind
<1>2. QED BY <1>1 DEF AutoAnswers

LEMMA NoticeType ==
  ASSUME NEW p \in Picos, NEW i \in Ids
  PROVE  /\ Event(notice(p, i), p) \in Events
         /\ notice(p, i) \notin {"new_subscription_request",
                                  "outbound_pending_subscription_approved"}
BY DEF notice, Event, Events, Kind

LEMMA OvertookType ==
  ASSUME NEW p \in Picos, NEW i \in Ids, NEW k
  PROVE  overtook(p, i, k) \in SUBSET Ids
BY DEF overtook

LEMMA DropType ==
  ASSUME TypeOK, NEW p \in Picos, NEW I, Drop(p, I)
  PROVE  TypeOK'
<1>0. RestType
  BY TypeSplit
<1>1. \A list \in Lists : dropped(list, p, I) \in Lists
  BY DEF dropped, Lists
<1>2. net' \in NetType
  <2>1. \A q \in Picos, i \in Ids : Append(net[q][i], Event(notice(p, i), p)) \in Seq(Events)
    BY NoticeType DEF TypeOK
  <2>2. QED BY <2>1 DEF TypeOK, Drop, NetType
<1>3. chan' \in Chans
  BY DEF TypeOK, Drop, Chans
<1>4. RestType'
  BY <1>1, <1>3, <1>0 DEF RestType, Drop
<1>5. QED BY <1>2, <1>4, TypeSplitNext

LEMMA RemovedType ==
  ASSUME TypeOK, NEW p \in Picos, NEW i \in Ids, NEW k \in 1 .. Len(net[p][i]),
         removeInbound(p, i, k) \/ removeOutbound(p, i, k) \/ removeEstablished(p, i, k)
  PROVE  TypeOK'
<1>1. net' \in NetType
  BY TookType DEF removeInbound, removeOutbound, removeEstablished
<1>2. upset' \subseteq Ids
  BY OvertookType DEF TypeOK, removeInbound, removeOutbound, removeEstablished
<1>3. /\ outbound \in Lists /\ inbound \in Lists /\ established \in Lists
      /\ peer \in Peers /\ chan \in Chans /\ auto \subseteq Picos
      /\ approver \in [Ids -> Picos \union {NoPico}] /\ crashes \in Nat
  BY TypeSplit DEF RestType
<1>4. CASE removeInbound(p, i, k)
  <2>1. /\ UNCHANGED <<outbound, established, peer, auto, approver, crashes>>
        /\ \/ UNCHANGED <<inbound, chan>>
           \/ /\ inbound[p][i] > 0
              /\ inbound' = Fewer(inbound, p, i)
              /\ chan' = With(chan, p, i, "deleted")
    BY <1>4 DEF removeInbound, Removed, Fewer, With
  <2>2. inbound' \in Lists /\ chan' \in Chans
    BY <1>3, <2>1, ListType, ChanType, Zenon
  <2>3. RestType'
    BY <1>2, <1>3, <2>1, <2>2, Zenon DEF RestType
  <2>4. QED BY <1>1, <2>3, TypeSplitNext
<1>5. CASE removeOutbound(p, i, k)
  <2>1. /\ UNCHANGED <<inbound, established, peer, auto, approver, crashes>>
        /\ \/ UNCHANGED <<outbound, chan>>
           \/ /\ outbound[p][i] > 0
              /\ outbound' = Fewer(outbound, p, i)
              /\ chan' = With(chan, p, i, "deleted")
    BY <1>5 DEF removeOutbound, Removed, Fewer, With
  <2>2. outbound' \in Lists /\ chan' \in Chans
    BY <1>3, <2>1, ListType, ChanType, Zenon
  <2>3. RestType'
    BY <1>2, <1>3, <2>1, <2>2, Zenon DEF RestType
  <2>4. QED BY <1>1, <2>3, TypeSplitNext
<1>6. CASE removeEstablished(p, i, k)
  <2>1. /\ UNCHANGED <<outbound, inbound, peer, auto, approver, crashes>>
        /\ \/ UNCHANGED <<established, chan>>
           \/ /\ established[p][i] > 0
              /\ established' = Fewer(established, p, i)
              /\ chan' = With(chan, p, i, "deleted")
    BY <1>6 DEF removeEstablished, Removed, Fewer, With
  <2>2. established' \in Lists /\ chan' \in Chans
    BY <1>3, <2>1, ListType, ChanType, Zenon
  <2>3. RestType'
    BY <1>2, <1>3, <2>1, <2>2, Zenon DEF RestType
  <2>4. QED BY <1>1, <2>3, TypeSplitNext
<1>7. QED BY <1>4, <1>5, <1>6

LEMMA ReceiveType ==
  ASSUME TypeOK, NEW p \in Picos, NEW i \in Ids, NEW k \in 1 .. Len(net[p][i]),
         Receive(p, i, k)
  PROVE  TypeOK'
<1>1. Took(p, i, k) \in NetType
  BY TookType
<1>2. overtook(p, i, k) \in SUBSET Ids /\ net[p][i][k].from \in Picos
  BY OvertookType, EventType
<1>3. RestType
  BY TypeSplit
<1>4. CASE addInboundPendingSubscription(p, i, k)
  <2>1. net' \in NetType
    BY <1>1, <1>4, AnswerType, SendFacts DEF addInboundPendingSubscription
  <2>2. upset' \subseteq Ids
    BY <1>2, <1>4 DEF TypeOK, addInboundPendingSubscription
  <2>3. peer' \in Peers /\ chan' \in Chans
    <3>1. /\ peer' = With(peer, p, i, net[p][i][k].from)
          /\ chan' = With(chan, p, i, "open")
      BY <1>4 DEF addInboundPendingSubscription, With
    <3>2. peer \in Peers /\ chan \in Chans
      BY <1>3 DEF RestType
    <3>3. QED BY <1>2, <3>1, <3>2, PeerType, ChanType, Zenon
  <2>4. inbound' \in Lists /\ established' \in Lists
    <3>1. \/ UNCHANGED established /\ inbound' = More(inbound, p, i)
          \/ UNCHANGED inbound /\ established' = More(established, p, i)
      BY <1>4 DEF addInboundPendingSubscription, More
    <3>2. inbound \in Lists /\ established \in Lists
      BY <1>3 DEF RestType
    <3>3. QED BY <3>1, <3>2, ListType, Zenon
  <2>5. /\ approver' \in {approver, [approver EXCEPT ![i] = p]}
        /\ UNCHANGED <<outbound, auto, crashes>>
    BY <1>4 DEF addInboundPendingSubscription
  <2>6. approver' \in [Ids -> Picos \union {NoPico}]
    BY <1>3, <2>5 DEF RestType
  <2>7. RestType'
    BY <1>3, <2>2, <2>3, <2>4, <2>5, <2>6, Zenon DEF RestType
  <2>8. QED BY <2>1, <2>7, TypeSplitNext
<1>5. CASE addOutboundSubscription(p, i, k)
  <2>1. net' \in NetType
    BY <1>1, <1>5 DEF addOutboundSubscription
  <2>2. upset' \subseteq Ids
    BY <1>2, <1>5 DEF TypeOK, addOutboundSubscription
  <2>3. outbound' \in Lists /\ established' \in Lists
    <3>1. \/ UNCHANGED <<outbound, established>>
          \/ /\ outbound[p][i] > 0 /\ outbound' = Fewer(outbound, p, i)
             /\ established' = More(established, p, i)
      BY <1>5 DEF addOutboundSubscription, More, Fewer
    <3>2. outbound \in Lists /\ established \in Lists
      BY <1>3 DEF RestType
    <3>3. QED BY <3>1, <3>2, ListType, Zenon
  <2>4. UNCHANGED <<inbound, peer, chan, auto, approver, crashes>>
    BY <1>5 DEF addOutboundSubscription
  <2>5. RestType'
    BY <1>3, <2>2, <2>3, <2>4, Zenon DEF RestType
  <2>6. QED BY <2>1, <2>5, TypeSplitNext
<1>6. QED BY <1>4, <1>5, RemovedType DEF Receive

LEMMA AskType ==
  ASSUME TypeOK, NEW p \in Picos, NEW q \in Picos, NEW i \in Ids, createRxBus(p, q, i)
  PROVE  TypeOK'
<1>0. RestType
  BY TypeSplit
<1>1. <<Event("new_subscription_request", p)>> \in Seq(Events)
  BY DEF Event, Events, Kind
<1>2. net' \in NetType
  BY <1>1, SendFacts DEF TypeOK, createRxBus, NetType
<1>3. /\ outbound \in Lists /\ inbound \in Lists /\ established \in Lists
      /\ peer \in Peers /\ chan \in Chans /\ auto \subseteq Picos
      /\ approver \in [Ids -> Picos \union {NoPico}] /\ upset \subseteq Ids /\ crashes \in Nat
  BY <1>0 DEF RestType
<1>4. /\ outbound' = More(outbound, p, i) /\ peer' = With(peer, p, i, q)
      /\ chan' = With(chan, p, i, "open")
      /\ UNCHANGED <<inbound, established, auto, approver, upset, crashes>>
  BY DEF createRxBus, More, With
<1>5. outbound' \in Lists /\ peer' \in Peers /\ chan' \in Chans
  BY <1>3, <1>4, ListType, PeerType, ChanType, Zenon
<1>6. RestType'
  BY <1>3, <1>4, <1>5, Zenon DEF RestType
<1>7. QED BY <1>2, <1>6, TypeSplitNext

LEMMA ApproveType ==
  ASSUME TypeOK, NEW q \in Picos, NEW i \in Ids, approveInboundPendingSubscription(q, i)
  PROVE  TypeOK'
<1>0. RestType
  BY TypeSplit
<1>1. net' \in NetType
  BY AnswerType, SendFacts DEF TypeOK, approveInboundPendingSubscription, NetType
<1>2. /\ outbound \in Lists /\ inbound \in Lists /\ established \in Lists
      /\ peer \in Peers /\ chan \in Chans /\ auto \subseteq Picos
      /\ approver \in [Ids -> Picos \union {NoPico}] /\ upset \subseteq Ids /\ crashes \in Nat
  BY <1>0 DEF RestType
<1>3. /\ inbound[q][i] > 0 /\ inbound' = Fewer(inbound, q, i)
      /\ established' = More(established, q, i) /\ approver' = [approver EXCEPT ![i] = q]
      /\ UNCHANGED <<outbound, peer, chan, auto, upset, crashes>>
  BY DEF approveInboundPendingSubscription, More, Fewer
<1>4. inbound' \in Lists /\ established' \in Lists
  BY <1>2, <1>3, ListType, Zenon
<1>5. approver' \in [Ids -> Picos \union {NoPico}]
  BY <1>2, <1>3
<1>6. RestType'
  BY <1>2, <1>3, <1>4, <1>5, Zenon DEF RestType
<1>7. QED BY <1>1, <1>6, TypeSplitNext

LEMMA LoseType ==
  ASSUME TypeOK, NEW p \in Picos, NEW i \in Ids, NEW k, Lose(p, i, k)
  PROVE  TypeOK'
<1>0. RestType
  BY TypeSplit
<1>1. net' \in NetType
  BY TookType DEF Lose
<1>2. RestType'
  BY <1>0 DEF RestType, Lose, lists
<1>3. QED BY <1>1, <1>2, TypeSplitNext

LEMMA CrashType ==
  ASSUME TypeOK, NEW h, Crash(h)
  PROVE  TypeOK'
<1>0. RestType
  BY TypeSplit
<1>1. net' \in NetType
  BY DEF TypeOK, Crash, NetType
<1>2. RestType'
  BY <1>0 DEF RestType, Crash, lists
<1>3. QED BY <1>1, <1>2, TypeSplitNext

LEMMA InitType ==
  ASSUME SubscriptionAssumption, Init
  PROVE  TypeOK
BY DEF SubscriptionAssumption, Init, TypeOK

LEMMA NextType ==
  ASSUME TypeOK, [Next]_vars
  PROVE  TypeOK'
<1>1. CASE UNCHANGED vars
  BY <1>1 DEF TypeOK, vars, lists
<1>2. ASSUME NEW p \in Picos, autoAcceptConfigUpdate(p) PROVE TypeOK'
  BY <1>2 DEF TypeOK, autoAcceptConfigUpdate, lists
<1>3. ASSUME NEW p \in Picos, NEW i \in Ids, cancel(p, i) PROVE TypeOK'
  BY <1>3, DropType DEF cancel
<1>4. ASSUME NEW p \in Picos, cancel_all_subscriptions(p) PROVE TypeOK'
  BY <1>4, DropType DEF cancel_all_subscriptions
<1>5. QED
  BY <1>1, <1>2, <1>3, <1>4, AskType, ApproveType, ReceiveType, LoseType, CrashType
  DEF Next

\* Every variable of the rules' model keeps its type.
THEOREM TypeCorrect == Spec => []TypeOK
<1>1. Init => TypeOK
  BY InitType, SubscriptionAssumption
<1>2. TypeOK /\ [Next]_vars => TypeOK'
  BY NextType
<1>3. QED BY <1>1, <1>2, PTL DEF Spec

-----------------------------------------------------------------------------
(* No step but createRxBus puts a request on its way.                       *)

Request == "new_subscription_request"
Approval == "outbound_pending_subscription_approved"

Carries(n, q, j, m, kind) == m \in 1 .. Len(n[q][j]) /\ n[q][j][m].kind = kind

\* All events of this kind about j in n are in net, different ones as different ones.
OldAt(n, kind, j) ==
  \A q \in Picos :
    /\ \A m \in Nat : Carries(n, q, j, m, kind) =>
         \E s \in Nat : /\ Carries(net, q, j, s, kind)
                        /\ net[q][j][s].from = n[q][j][m].from
    /\ \A l, m \in Nat :
         Carries(n, q, j, l, kind) /\ Carries(n, q, j, m, kind) /\ l # m =>
         \E r, s \in Nat : Carries(net, q, j, r, kind) /\ Carries(net, q, j, s, kind) /\ r # s

Old(n, kind) == \A j \in Ids : OldAt(n, kind, j)

LEMMA LenType ==
  ASSUME NEW n \in NetType, NEW q \in Picos, NEW j \in Ids
  PROVE  Len(n[q][j]) \in Nat
<1>1. n[q][j] \in Seq(Events)
  BY DEF NetType
<1>2. QED BY <1>1

LEMMA SameOld ==
  ASSUME NEW kind
  PROVE  Old(net, kind)
BY DEF Old, OldAt

LEMMA TookOld ==
  ASSUME TypeOK, NEW p \in Picos, NEW i \in Ids, NEW k \in 1 .. Len(net[p][i]), NEW kind
  PROVE  Old(Took(p, i, k), kind)
<1> DEFINE n == Took(p, i, k)
<1> HIDE DEF n
<1>1. n \in NetType /\ Kept(n, p, i, k) /\ net \in NetType
  BY TookType, TypeSplit DEF n
<1>2. ASSUME NEW q \in Picos, NEW j \in Ids
      PROVE  \A m \in Nat : Carries(n, q, j, m, kind) =>
               LET s == IF q = p /\ j = i /\ m >= k THEN m + 1 ELSE m
               IN /\ s \in Nat /\ Carries(net, q, j, s, kind)
                  /\ net[q][j][s].from = n[q][j][m].from
  BY <1>1 DEF Kept, Carries
<1>3. ASSUME NEW q \in Picos, NEW j \in Ids, NEW l \in Nat, NEW m \in Nat,
             Carries(n, q, j, l, kind), Carries(n, q, j, m, kind), l # m
      PROVE  \E r, s \in Nat : Carries(net, q, j, r, kind) /\ Carries(net, q, j, s, kind) /\ r # s
  <2>1. PICK r, s : /\ r = IF q = p /\ j = i /\ l >= k THEN l + 1 ELSE l
                    /\ s = IF q = p /\ j = i /\ m >= k THEN m + 1 ELSE m
    OBVIOUS
  <2>2. r # s
    <3>1. k \in Int
      OBVIOUS
    <3>2. QED BY <1>3, <2>1, <3>1
  <2>3. r \in Nat /\ s \in Nat /\ Carries(net, q, j, r, kind) /\ Carries(net, q, j, s, kind)
    BY <1>2, <1>3, <2>1
  <2>4. QED BY <2>2, <2>3
<1>4. QED BY <1>2, <1>3 DEF Old, OldAt, n

LEMMA SendOld ==
  ASSUME net \in NetType, NEW o \in NetType, NEW q, NEW i \in Ids,
         NEW events \in Seq(Events), NEW kind, Old(o, kind),
         \A m \in 1 .. Len(events) : events[m].kind # kind
  PROVE  Old(SendTo(o, q, i, events), kind)
<1> DEFINE n == SendTo(o, q, i, events)
<1> HIDE DEF n
<1>1. Sent(n, o, q, i, events)
  BY SendFacts DEF n
<1>2. \A r \in Picos, j \in Ids : \A m \in Nat :
        Carries(n, r, j, m, kind) => Carries(o, r, j, m, kind) /\ n[r][j][m] = o[r][j][m]
  BY <1>1 DEF Sent, Carries
<1>3. QED BY <1>2 DEF Old, OldAt, n

\* Once a request is taken there is none about this relationship any more.
LEMMA TookRequest ==
  ASSUME TypeOK, RequestInv, NEW p \in Picos, NEW i \in Ids, NEW k \in 1 .. Len(net[p][i]),
         net[p][i][k].kind = Request
  PROVE  \A q \in Picos, m \in Nat : ~Carries(Took(p, i, k), q, i, m, Request)
<1> DEFINE n == Took(p, i, k)
<1> HIDE DEF n
<1>1. n \in NetType /\ Kept(n, p, i, k)
  BY TookType DEF n
<1>2. SUFFICES ASSUME NEW q \in Picos, NEW m \in Nat, Carries(n, q, i, m, Request)
               PROVE  FALSE
  BY DEF n
<1>3. PICK s \in 1 .. Len(net[q][i]) : net[q][i][s].kind = Request /\ (q = p => s # k)
  <2>1. PICK s : s = IF q = p /\ i = i /\ m >= k THEN m + 1 ELSE m
    OBVIOUS
  <2>2. s \in 1 .. Len(net[q][i]) /\ n[q][i][m] = net[q][i][s] /\ (q = p => s # k)
    BY <1>1, <1>2, <2>1 DEF Kept, Carries
  <2>3. QED BY <1>2, <2>2 DEF Carries
<1>4. Asks(p, i, k) /\ Asks(q, i, s)
  BY <1>3 DEF Asks, Request
<1>5. q = p /\ s = k
  BY <1>4 DEF RequestInv
<1>6. QED BY <1>3, <1>5

LEMMA SubsetOld ==
  ASSUME NEW n, NEW kind,
         \A q \in Picos, j \in Ids, m \in Nat : Carries(n, q, j, m, kind) =>
           Carries(net, q, j, m, kind) /\ n[q][j][m].from = net[q][j][m].from
  PROVE  Old(n, kind)
BY DEF Old, OldAt

LEMMA DropOld ==
  ASSUME TypeOK, NEW p \in Picos, NEW I, Drop(p, I), NEW kind \in {Request, Approval}
  PROVE  Old(net', kind)
<1>1. ASSUME NEW q \in Picos, NEW j \in Ids, NEW m \in Nat, Carries(net', q, j, m, kind)
      PROVE  Carries(net, q, j, m, kind) /\ net'[q][j][m].from = net[q][j][m].from
  <2>1. net[q][j] \in Seq(Events) /\ Len(net[q][j]) \in Nat
    BY DEF TypeOK
  <2>2. CASE net'[q][j] = net[q][j]
    BY <1>1, <2>2 DEF Carries
  <2>3. CASE net'[q][j] = Append(net[q][j], Event(notice(p, j), p))
    <3>1. m \in 1 .. Len(net[q][j]) + 1
      BY <1>1, <2>1, <2>3 DEF Carries
    <3>2. m # Len(net[q][j]) + 1
      <4>1. SUFFICES ASSUME m = Len(net[q][j]) + 1 PROVE FALSE
        OBVIOUS
      <4>2. net'[q][j][m] = Event(notice(p, j), p)
        BY <2>1, <2>3, <4>1
      <4>3. QED BY <1>1, <4>2, NoticeType DEF Carries, Event, Request, Approval
    <3>3. m \in 1 .. Len(net[q][j])
      BY <2>1, <3>1, <3>2
    <3>4. net'[q][j][m] = net[q][j][m]
      BY <2>1, <2>3, <3>3
    <3>5. QED BY <1>1, <3>3, <3>4 DEF Carries
  <2>4. QED
    BY <2>2, <2>3 DEF Drop
<1>2. QED BY <1>1, SubsetOld

LEMMA CrashOld ==
  ASSUME NEW h, Crash(h), NEW kind
  PROVE  Old(net', kind)
<1>1. ASSUME NEW q \in Picos, NEW j \in Ids, NEW m \in Nat, Carries(net', q, j, m, kind)
      PROVE  Carries(net, q, j, m, kind) /\ net'[q][j][m].from = net[q][j][m].from
  <2>1. net'[q][j] \in {net[q][j], << >>}
    BY DEF Crash
  <2>2. net'[q][j] # << >>
    BY <1>1 DEF Carries
  <2>3. QED BY <1>1, <2>1, <2>2 DEF Carries
<1>2. QED BY <1>1, SubsetOld

-----------------------------------------------------------------------------
(* What each step does to the lists, channels and peers, point by point.    *)

LEMMA MoreAt ==
  ASSUME NEW f \in Lists, NEW p \in Picos, NEW i \in Ids
  PROVE  /\ More(f, p, i)[p][i] = f[p][i] + 1
         /\ \A r \in Picos, j \in Ids : r # p \/ j # i => More(f, p, i)[r][j] = f[r][j]
BY DEF Lists, More

LEMMA FewerAt ==
  ASSUME NEW f \in Lists, NEW p \in Picos, NEW i \in Ids
  PROVE  /\ Fewer(f, p, i)[p][i] = f[p][i] - 1
         /\ \A r \in Picos, j \in Ids : r # p \/ j # i => Fewer(f, p, i)[r][j] = f[r][j]
BY DEF Lists, Fewer

LEMMA WithAt ==
  ASSUME NEW f, f \in Peers \/ f \in Chans, NEW p \in Picos, NEW i \in Ids, NEW x
  PROVE  /\ With(f, p, i, x)[p][i] = x
         /\ \A r \in Picos, j \in Ids : r # p \/ j # i => With(f, p, i, x)[r][j] = f[r][j]
BY DEF With, Peers, Chans

LEMMA ListAt ==
  ASSUME TypeOK, NEW p \in Picos, NEW i \in Ids
  PROVE  /\ outbound[p][i] \in Nat /\ inbound[p][i] \in Nat /\ established[p][i] \in Nat
         /\ chan[p][i] \in {"none", "open", "deleted"}
BY DEF TypeOK

\* Nothing but p's buses about I changes.
Elsewhere(p, I) ==
  \A r \in Picos, j \in Ids : r # p \/ j \notin I =>
    /\ outbound'[r][j] = outbound[r][j] /\ inbound'[r][j] = inbound[r][j]
    /\ established'[r][j] = established[r][j]
    /\ chan'[r][j] = chan[r][j] /\ peer'[r][j] = peer[r][j]

\* How many buses p's lists gain for i.
Gains(p, i, o, n, e) ==
  /\ outbound'[p][i] = outbound[p][i] + o
  /\ inbound'[p][i] = inbound[p][i] + n
  /\ established'[p][i] = established[p][i] + e

LEMMA GainsSum ==
  ASSUME TypeOK, NEW p \in Picos, NEW i \in Ids,
         NEW o \in Int, NEW n \in Int, NEW e \in Int, Gains(p, i, o, n, e)
  PROVE  outbound'[p][i] + inbound'[p][i] + established'[p][i]
           = outbound[p][i] + inbound[p][i] + established[p][i] + (o + n + e)
<1>1. outbound[p][i] \in Int /\ inbound[p][i] \in Int /\ established[p][i] \in Int
  BY ListAt
<1>2. QED BY <1>1 DEF Gains

LEMMA AskMoves ==
  ASSUME TypeOK, NEW p \in Picos, NEW q \in Picos, NEW i \in Ids, createRxBus(p, q, i)
  PROVE  /\ Elsewhere(p, {i}) /\ Gains(p, i, 1, 0, 0)
         /\ chan'[p][i] = "open" /\ peer'[p][i] = q
<1>1. /\ outbound' = More(outbound, p, i) /\ peer' = With(peer, p, i, q)
      /\ chan' = With(chan, p, i, "open") /\ inbound' = inbound /\ established' = established
  BY DEF createRxBus, More, With
<1>2. outbound \in Lists /\ peer \in Peers /\ chan \in Chans
  BY TypeSplit DEF RestType
<1>3. \A r \in Picos, j \in Ids : r # p \/ j # i =>
        outbound'[r][j] = outbound[r][j] /\ peer'[r][j] = peer[r][j] /\ chan'[r][j] = chan[r][j]
  BY <1>1, <1>2, MoreAt, WithAt
<1>4. outbound'[p][i] = outbound[p][i] + 1 /\ chan'[p][i] = "open" /\ peer'[p][i] = q
  BY <1>1, <1>2, MoreAt, WithAt
<1>5. QED BY <1>1, <1>3, <1>4, ListAt DEF Elsewhere, Gains

LEMMA HearMoves ==
  ASSUME TypeOK, NEW q \in Picos, NEW i \in Ids, NEW k \in 1 .. Len(net[q][i]),
         addInboundPendingSubscription(q, i, k)
  PROVE  /\ Elsewhere(q, {i})
         /\ chan'[q][i] = "open" /\ peer'[q][i] = net[q][i][k].from
         /\ \/ Gains(q, i, 0, 1, 0) /\ approver' = approver
            \/ Gains(q, i, 0, 0, 1) /\ approver' = [approver EXCEPT ![i] = q]
<1>1. /\ peer' = With(peer, q, i, net[q][i][k].from) /\ outbound' = outbound
      /\ chan' = With(chan, q, i, "open")
      /\ \/ inbound' = More(inbound, q, i) /\ established' = established /\ approver' = approver
         \/ /\ established' = More(established, q, i) /\ inbound' = inbound
            /\ approver' = [approver EXCEPT ![i] = q]
  BY DEF addInboundPendingSubscription, More, With
<1>2. inbound \in Lists /\ established \in Lists /\ peer \in Peers /\ chan \in Chans
  BY TypeSplit DEF RestType
<1>3. \A r \in Picos, j \in Ids : r # q \/ j # i =>
        peer'[r][j] = peer[r][j] /\ chan'[r][j] = chan[r][j]
  BY <1>1, <1>2, WithAt
<1>4. chan'[q][i] = "open" /\ peer'[q][i] = net[q][i][k].from
  BY <1>1, <1>2, WithAt
<1>5. CASE inbound' = More(inbound, q, i) /\ established' = established /\ approver' = approver
  BY <1>1, <1>2, <1>3, <1>4, <1>5, MoreAt, ListAt DEF Elsewhere, Gains
<1>6. CASE /\ established' = More(established, q, i) /\ inbound' = inbound
           /\ approver' = [approver EXCEPT ![i] = q]
  BY <1>1, <1>2, <1>3, <1>4, <1>6, MoreAt, ListAt DEF Elsewhere, Gains
<1>7. QED BY <1>1, <1>5, <1>6

LEMMA ApproveMoves ==
  ASSUME TypeOK, NEW q \in Picos, NEW i \in Ids, approveInboundPendingSubscription(q, i)
  PROVE  Elsewhere(q, {i}) /\ Gains(q, i, 0, -1, 1) /\ chan' = chan /\ peer' = peer
<1>1. /\ inbound' = Fewer(inbound, q, i) /\ established' = More(established, q, i)
      /\ UNCHANGED <<outbound, chan, peer>>
  BY DEF approveInboundPendingSubscription, More, Fewer
<1>2. inbound \in Lists /\ established \in Lists
  BY TypeSplit DEF RestType
<1>3. QED BY <1>1, <1>2, MoreAt, FewerAt, ListAt DEF Elsewhere, Gains

LEMMA ConfirmMoves ==
  ASSUME TypeOK, NEW p \in Picos, NEW i \in Ids, NEW k, addOutboundSubscription(p, i, k)
  PROVE  /\ Elsewhere(p, {i}) /\ chan' = chan /\ peer' = peer
         /\ \/ outbound[p][i] > 0 /\ Gains(p, i, -1, 0, 1)
            \/ UNCHANGED <<outbound, inbound, established>>
<1>1. /\ UNCHANGED <<inbound, chan, peer>>
      /\ \/ /\ outbound[p][i] > 0 /\ outbound' = Fewer(outbound, p, i)
            /\ established' = More(established, p, i)
         \/ UNCHANGED <<outbound, established>>
  BY DEF addOutboundSubscription, More, Fewer
<1>2. outbound \in Lists /\ established \in Lists
  BY TypeSplit DEF RestType
<1>3. CASE UNCHANGED <<outbound, established>>
  BY <1>1, <1>3 DEF Elsewhere
<1>4. CASE /\ outbound[p][i] > 0 /\ outbound' = Fewer(outbound, p, i)
           /\ established' = More(established, p, i)
  BY <1>1, <1>2, <1>4, MoreAt, FewerAt, ListAt DEF Elsewhere, Gains
<1>5. QED BY <1>1, <1>3, <1>4

LEMMA RemovedMoves ==
  ASSUME TypeOK, NEW p \in Picos, NEW i \in Ids, NEW k,
         removeInbound(p, i, k) \/ removeOutbound(p, i, k) \/ removeEstablished(p, i, k)
  PROVE  /\ Elsewhere(p, {i}) /\ peer' = peer /\ approver' = approver
         /\ \/ UNCHANGED <<outbound, inbound, established, chan>>
            \/ /\ chan'[p][i] = "deleted"
               /\ \/ outbound[p][i] > 0 /\ Gains(p, i, -1, 0, 0)
                  \/ inbound[p][i] > 0 /\ Gains(p, i, 0, -1, 0)
                  \/ established[p][i] > 0 /\ Gains(p, i, 0, 0, -1)
<1>1. outbound \in Lists /\ inbound \in Lists /\ established \in Lists /\ chan \in Chans
  BY TypeSplit DEF RestType
<1>2. CASE removeInbound(p, i, k)
  <2>1. /\ UNCHANGED <<outbound, established, peer, approver>>
        /\ \/ UNCHANGED <<inbound, chan>>
           \/ /\ inbound[p][i] > 0 /\ inbound' = Fewer(inbound, p, i)
              /\ chan' = With(chan, p, i, "deleted")
    BY <1>2 DEF removeInbound, Removed, Fewer, With
  <2>2. CASE UNCHANGED <<inbound, chan>>
    BY <2>1, <2>2 DEF Elsewhere
  <2>3. CASE /\ inbound[p][i] > 0 /\ inbound' = Fewer(inbound, p, i)
             /\ chan' = With(chan, p, i, "deleted")
    <3>1. inbound[p][i] > 0 /\ Gains(p, i, 0, -1, 0) /\ chan'[p][i] = "deleted"
      BY <1>1, <2>1, <2>3, FewerAt, WithAt, ListAt DEF Gains
    <3>2. Elsewhere(p, {i})
      BY <1>1, <2>1, <2>3, FewerAt, WithAt DEF Elsewhere
    <3>3. QED BY <2>1, <3>1, <3>2
  <2>4. QED BY <2>1, <2>2, <2>3
<1>3. CASE removeOutbound(p, i, k)
  <2>1. /\ UNCHANGED <<inbound, established, peer, approver>>
        /\ \/ UNCHANGED <<outbound, chan>>
           \/ /\ outbound[p][i] > 0 /\ outbound' = Fewer(outbound, p, i)
              /\ chan' = With(chan, p, i, "deleted")
    BY <1>3 DEF removeOutbound, Removed, Fewer, With
  <2>2. CASE UNCHANGED <<outbound, chan>>
    BY <2>1, <2>2 DEF Elsewhere
  <2>3. CASE /\ outbound[p][i] > 0 /\ outbound' = Fewer(outbound, p, i)
             /\ chan' = With(chan, p, i, "deleted")
    <3>1. outbound[p][i] > 0 /\ Gains(p, i, -1, 0, 0) /\ chan'[p][i] = "deleted"
      BY <1>1, <2>1, <2>3, FewerAt, WithAt, ListAt DEF Gains
    <3>2. Elsewhere(p, {i})
      BY <1>1, <2>1, <2>3, FewerAt, WithAt DEF Elsewhere
    <3>3. QED BY <2>1, <3>1, <3>2
  <2>4. QED BY <2>1, <2>2, <2>3
<1>4. CASE removeEstablished(p, i, k)
  <2>1. /\ UNCHANGED <<outbound, inbound, peer, approver>>
        /\ \/ UNCHANGED <<established, chan>>
           \/ /\ established[p][i] > 0 /\ established' = Fewer(established, p, i)
              /\ chan' = With(chan, p, i, "deleted")
    BY <1>4 DEF removeEstablished, Removed, Fewer, With
  <2>2. CASE UNCHANGED <<established, chan>>
    BY <2>1, <2>2 DEF Elsewhere
  <2>3. CASE /\ established[p][i] > 0 /\ established' = Fewer(established, p, i)
             /\ chan' = With(chan, p, i, "deleted")
    <3>1. established[p][i] > 0 /\ Gains(p, i, 0, 0, -1) /\ chan'[p][i] = "deleted"
      BY <1>1, <2>1, <2>3, FewerAt, WithAt, ListAt DEF Gains
    <3>2. Elsewhere(p, {i})
      BY <1>1, <2>1, <2>3, FewerAt, WithAt DEF Elsewhere
    <3>3. QED BY <2>1, <3>1, <3>2
  <2>4. QED BY <2>1, <2>2, <2>3
<1>5. QED BY <1>2, <1>3, <1>4

\* The length of a list for one relationship, once its bus is spliced out.
Spliced(n) == IF n > 0 THEN n - 1 ELSE n

LEMMA DroppedAt ==
  ASSUME NEW f \in Lists, NEW p \in Picos, NEW I
  PROVE  \A r \in Picos, j \in Ids :
           dropped(f, p, I)[r][j] = IF r = p /\ j \in I THEN Spliced(f[r][j]) ELSE f[r][j]
BY DEF Lists, dropped, Spliced

LEMMA DropMoves ==
  ASSUME TypeOK, NEW p \in Picos, NEW I, Drop(p, I)
  PROVE  /\ Elsewhere(p, I) /\ peer' = peer /\ approver' = approver
         /\ I \subseteq Held(p) /\ I \subseteq Ids
         /\ \A i \in I : /\ outbound'[p][i] = Spliced(outbound[p][i])
                         /\ inbound'[p][i] = Spliced(inbound[p][i])
                         /\ established'[p][i] = Spliced(established[p][i])
                         /\ chan'[p][i] = "deleted"
<1>1. /\ outbound' = dropped(outbound, p, I) /\ inbound' = dropped(inbound, p, I)
      /\ established' = dropped(established, p, I) /\ peer' = peer /\ approver' = approver
      /\ I \subseteq Held(p)
  BY DEF Drop
<1>2. outbound \in Lists /\ inbound \in Lists /\ established \in Lists /\ chan \in Chans
  BY TypeSplit DEF RestType
<1>3. I \subseteq Ids
  BY <1>1 DEF Held
<1>4. \A r \in Picos, j \in Ids :
        chan'[r][j] = IF r = p /\ j \in I THEN "deleted" ELSE chan[r][j]
  BY <1>2 DEF Drop, Chans
<1>5. \A r \in Picos, j \in Ids :
        outbound'[r][j] = IF r = p /\ j \in I THEN Spliced(outbound[r][j]) ELSE outbound[r][j]
  BY <1>1, <1>2, DroppedAt
<1>6. \A r \in Picos, j \in Ids :
        inbound'[r][j] = IF r = p /\ j \in I THEN Spliced(inbound[r][j]) ELSE inbound[r][j]
  BY <1>1, <1>2, DroppedAt
<1>7. \A r \in Picos, j \in Ids :
        established'[r][j] =
          IF r = p /\ j \in I THEN Spliced(established[r][j]) ELSE established[r][j]
  BY <1>1, <1>2, DroppedAt
<1>8. Elsewhere(p, I)
  BY <1>1, <1>4, <1>5, <1>6, <1>7 DEF Elsewhere
<1>9. QED BY <1>1, <1>3, <1>4, <1>5, <1>6, <1>7, <1>8

-----------------------------------------------------------------------------
(* Frames: what keeps each part of the invariant.                           *)

LEMMA NoBuses ==
  ASSUME NEW a \in Nat, NEW b \in Nat, NEW c \in Nat, a + b + c = 0
  PROVE  a = 0 /\ b = 0 /\ c = 0
OBVIOUS

LEMMA OneBusAt ==
  ASSUME TypeOK, OneBusPerChannel, NEW p \in Picos, NEW i \in Ids
  PROVE  /\ outbound[p][i] \in Nat /\ inbound[p][i] \in Nat /\ established[p][i] \in Nat
         /\ chan[p][i] \in {"none", "open", "deleted"}
         /\ chan[p][i] = "open" => outbound[p][i] + inbound[p][i] + established[p][i] = 1
         /\ chan[p][i] # "open" =>
              outbound[p][i] = 0 /\ inbound[p][i] = 0 /\ established[p][i] = 0
<1>1. outbound[p][i] + inbound[p][i] + established[p][i]
        = IF chan[p][i] = "open" THEN 1 ELSE 0
  BY DEF OneBusPerChannel
<1>2. /\ outbound[p][i] \in Nat /\ inbound[p][i] \in Nat /\ established[p][i] \in Nat
      /\ chan[p][i] \in {"none", "open", "deleted"}
  BY ListAt
<1>3. CASE chan[p][i] = "open"
  BY <1>1, <1>2, <1>3
<1>4. CASE chan[p][i] # "open"
  <2>1. outbound[p][i] + inbound[p][i] + established[p][i] = 0
    BY <1>1, <1>4
  <2>2. outbound[p][i] = 0 /\ inbound[p][i] = 0 /\ established[p][i] = 0
    BY <1>2, <2>1, NoBuses
  <2>3. QED BY <1>2, <1>4, <2>2
<1>5. QED BY <1>3, <1>4

LEMMA OneBusFrame ==
  ASSUME OneBusPerChannel, NEW p \in Picos, NEW I, Elsewhere(p, I),
         \A i \in I : outbound'[p][i] + inbound'[p][i] + established'[p][i]
                        = IF chan'[p][i] = "open" THEN 1 ELSE 0
  PROVE  OneBusPerChannel'
<1>1. ASSUME NEW r \in Picos, NEW i \in Ids
      PROVE  outbound'[r][i] + inbound'[r][i] + established'[r][i]
               = IF chan'[r][i] = "open" THEN 1 ELSE 0
  <2>1. CASE r = p /\ i \in I
    BY <2>1
  <2>2. CASE r # p \/ i \notin I
    <3>1. outbound[r][i] + inbound[r][i] + established[r][i]
            = IF chan[r][i] = "open" THEN 1 ELSE 0
      BY DEF OneBusPerChannel
    <3>2. QED BY <2>2, <3>1 DEF Elsewhere
  <2>3. QED BY <2>1, <2>2
<1>2. QED BY <1>1 DEF OneBusPerChannel

\* What RequestInv says of a request from p to q about j that is on its way.
LEMMA RequestSays ==
  ASSUME TypeOK, RequestInv, NEW q \in Picos, NEW j \in Ids, NEW k \in Nat,
         Carries(net, q, j, k, Request), NEW p, p = net[q][j][k].from
  PROVE  /\ p \in Picos \ {q} /\ approver[j] = NoPico /\ chan[p][j] # "none"
         /\ \A r \in Picos : inbound[r][j] = 0
         /\ \A r \in Picos : r # p => chan[r][j] = "none"
         /\ \A r \in Picos, m \in Nat : Carries(net, r, j, m, Request) => r = q /\ m = k
<1>1. k \in 1 .. Len(net[q][j]) /\ Asks(q, j, k)
  BY DEF Carries, Asks, Request
<1>2. p \in Picos
  BY <1>1, EventType
<1>3. /\ approver[j] = NoPico /\ p # q /\ chan[p][j] # "none"
      /\ \A r \in Picos : inbound[r][j] = 0
      /\ \A r \in Picos \ {p} : chan[r][j] = "none"
      /\ \A r \in Picos : \A m \in 1 .. Len(net[r][j]) : Asks(r, j, m) => r = q /\ m = k
  BY <1>1 DEF RequestInv, Unanswered
<1>4. \A r \in Picos, m \in Nat : Carries(net, r, j, m, Request) => r = q /\ m = k
  BY <1>3 DEF Carries, Asks, Request
<1>5. QED BY <1>2, <1>3, <1>4

\* And what suffices for it after a step.
LEMMA RequestNext ==
  ASSUME net' \in NetType,
         \A q \in Picos, j \in Ids, k \in Nat : Carries(net', q, j, k, Request) =>
           /\ approver'[j] = NoPico /\ net'[q][j][k].from # q
           /\ chan'[net'[q][j][k].from][j] # "none"
           /\ \A r \in Picos : inbound'[r][j] = 0
           /\ \A r \in Picos : r # net'[q][j][k].from => chan'[r][j] = "none"
           /\ \A r \in Picos, m \in Nat : Carries(net', r, j, m, Request) => r = q /\ m = k
  PROVE  RequestInv'
<1>1. ASSUME NEW q \in Picos, NEW j \in Ids, NEW k \in 1 .. Len(net'[q][j]), Asks(q, j, k)'
      PROVE  /\ Unanswered(j)' /\ net'[q][j][k].from # q
             /\ chan'[net'[q][j][k].from][j] # "none"
             /\ \A r \in Picos : inbound'[r][j] = 0
             /\ \A r \in Picos \ {net'[q][j][k].from} : chan'[r][j] = "none"
             /\ \A r \in Picos : \A m \in 1 .. Len(net'[r][j]) :
                  Asks(r, j, m)' => r = q /\ m = k
  <2>1. k \in Nat /\ Carries(net', q, j, k, Request)
    BY <1>1, LenType DEF Carries, Asks, Request
  <2>2. \A r \in Picos : \A m \in 1 .. Len(net'[r][j]) :
          Asks(r, j, m)' => m \in Nat /\ Carries(net', r, j, m, Request)
    BY LenType DEF Carries, Asks, Request
  <2>3. QED BY <2>1, <2>2 DEF Unanswered
<1>2. QED BY <1>1 DEF RequestInv

NoRequest(n, j) == \A q \in Picos, m \in Nat : ~Carries(n, q, j, m, Request)

\* A step that a request about j on its way does not notice.
Unnoticed(j) ==
  /\ approver'[j] = approver[j]
  /\ \A r \in Picos : /\ chan[r][j] = "none" <=> chan'[r][j] = "none"
                      /\ inbound[r][j] = 0 => inbound'[r][j] = 0

\* What RequestInv says of it afterwards.
Rightful(q, j, k) ==
  /\ approver'[j] = NoPico /\ net'[q][j][k].from # q
  /\ chan'[net'[q][j][k].from][j] # "none"
  /\ \A r \in Picos : inbound'[r][j] = 0
  /\ \A r \in Picos : r # net'[q][j][k].from => chan'[r][j] = "none"
  /\ \A r \in Picos, m \in Nat : Carries(net', r, j, m, Request) => r = q /\ m = k

LEMMA RequestAt ==
  ASSUME TypeOK, RequestInv, NEW q \in Picos, NEW j \in Ids, NEW k \in Nat,
         OldAt(net', Request, j), Unnoticed(j), Carries(net', q, j, k, Request)
  PROVE  Rightful(q, j, k)
<1>1. PICK s \in Nat : Carries(net, q, j, s, Request) /\ net[q][j][s].from = net'[q][j][k].from
  BY DEF OldAt
<1> DEFINE a == net'[q][j][k].from
<1> HIDE DEF a
<1>2. /\ a \in Picos \ {q} /\ approver[j] = NoPico /\ chan[a][j] # "none"
      /\ \A r \in Picos : inbound[r][j] = 0
      /\ \A r \in Picos : r # a => chan[r][j] = "none"
      /\ \A r \in Picos, m \in Nat : Carries(net, r, j, m, Request) => r = q /\ m = s
  BY <1>1, RequestSays DEF a
<1>3. approver'[j] = NoPico /\ \A r \in Picos : inbound'[r][j] = 0
  BY <1>2 DEF Unnoticed
<1>4. chan'[a][j] # "none" /\ \A r \in Picos : r # a => chan'[r][j] = "none"
  BY <1>2 DEF Unnoticed
<1>5. ASSUME NEW r \in Picos, NEW m \in Nat, Carries(net', r, j, m, Request)
      PROVE  r = q /\ m = k
  <2>1. r = q
    <3>1. PICK t \in Nat : Carries(net, r, j, t, Request)
      BY <1>5 DEF OldAt
    <3>2. QED BY <1>2, <3>1
  <2>2. ASSUME m # k PROVE FALSE
    <3>1. PICK t, u \in Nat :
            Carries(net, q, j, t, Request) /\ Carries(net, q, j, u, Request) /\ t # u
      BY <1>5, <2>1, <2>2 DEF OldAt
    <3>2. QED BY <1>2, <3>1
  <2>3. QED BY <2>1, <2>2
<1>6. QED BY <1>2, <1>3, <1>4, <1>5 DEF a, Rightful

LEMMA RequestFrame ==
  ASSUME TypeOK, RequestInv, net' \in NetType, Old(net', Request),
         \A j \in Ids : NoRequest(net', j) \/ Unnoticed(j)
  PROVE  RequestInv'
<1>1. ASSUME NEW q \in Picos, NEW j \in Ids, NEW k \in Nat, Carries(net', q, j, k, Request)
      PROVE  Rightful(q, j, k)
  <2>1. Unnoticed(j)
    BY <1>1 DEF NoRequest
  <2>2. OldAt(net', Request, j)
    BY DEF Old
  <2>3. QED BY <1>1, <2>1, <2>2, RequestAt
<1>2. QED BY <1>1, RequestNext DEF Rightful

\* A bus in q's inbound() was there before, or is there as it should be.
OldOffer(q, j) ==
  inbound[q][j] > 0 /\ peer'[q][j] = peer[q][j] /\ approver'[j] = approver[j]

GoodOffer(q, j) ==
  /\ approver'[j] = NoPico /\ peer'[q][j] \in Picos \ {q}
  /\ \A r \in Picos \ {q} : inbound'[r][j] = 0

LEMMA InboundFrame ==
  ASSUME TypeOK', InboundInv,
         \A q \in Picos, j \in Ids : inbound'[q][j] > 0 =>
           \/ GoodOffer(q, j)
           \/ /\ OldOffer(q, j)
              /\ \A r \in Picos : inbound'[r][j] > 0 => inbound[r][j] > 0
  PROVE  InboundInv'
<1>1. ASSUME NEW q \in Picos, NEW j \in Ids, OldOffer(q, j),
             \A r \in Picos : inbound'[r][j] > 0 => inbound[r][j] > 0
      PROVE  GoodOffer(q, j)
  <2>1. inbound[q][j] > 0 /\ peer'[q][j] = peer[q][j] /\ approver'[j] = approver[j]
    BY <1>1 DEF OldOffer
  <2>2. /\ approver[j] = NoPico /\ peer[q][j] \in Picos \ {q}
        /\ \A r \in Picos \ {q} : inbound[r][j] = 0
    BY <2>1 DEF InboundInv, Unanswered
  <2>3. ASSUME NEW r \in Picos \ {q} PROVE inbound'[r][j] = 0
    <3>1. inbound'[r][j] \in Nat
      BY DEF TypeOK
    <3>2. ~(inbound'[r][j] > 0)
      BY <1>1, <2>2
    <3>3. QED BY <3>1, <3>2
  <2>4. QED BY <2>1, <2>2, <2>3 DEF GoodOffer
<1>2. QED BY <1>1 DEF InboundInv, Unanswered, GoodOffer

LEMMA AnswerFrame ==
  ASSUME net \in NetType, net' \in NetType, AnswerInv,
         \A j \in Ids : approver'[j] = approver[j] \/ approver[j] = NoPico,
         \A p \in Picos, j \in Ids, m \in Nat : Carries(net', p, j, m, Approval) =>
           \/ \E s \in Nat : Carries(net, p, j, s, Approval)
           \/ approver'[j] \notin {NoPico, p}
  PROVE  AnswerInv'
<1>1. ASSUME NEW p \in Picos, NEW j \in Ids, NEW k \in 1 .. Len(net'[p][j]), Answers(p, j, k)'
      PROVE  approver'[j] \notin {NoPico, p}
  <2>1. k \in Nat /\ Carries(net', p, j, k, Approval)
    BY <1>1, LenType DEF Carries, Answers, Approval
  <2>2. ASSUME NEW s \in Nat, Carries(net, p, j, s, Approval)
        PROVE  approver[j] \notin {NoPico, p}
    BY <2>2 DEF AnswerInv, Carries, Answers, Approval
  <2>3. QED BY <2>1, <2>2
<1>2. QED BY <1>1 DEF AnswerInv

LEMMA ApproverFrame ==
  ASSUME ApproverInv,
         \A r \in Picos, j \in Ids : chan'[r][j] = "none" => chan[r][j] = "none",
         \A j \in Ids : approver'[j] = approver[j] \/ \E r \in Picos : chan'[r][j] # "none"
  PROVE  ApproverInv'
BY DEF ApproverInv, Unanswered

-----------------------------------------------------------------------------
(* The inductive invariant, step by step.                                   *)

Sound == OneBusPerChannel /\ PromiseInv
IInv == TypeOK /\ Sound

\* A step of p that neither asks, hears nor approves: it takes or sends no
\* request and no answer, and leaves p's open buses of I open or deletes them.
Plain(p, i) ==
  /\ chan[p][i] = "open" /\ chan'[p][i] # "none" /\ peer'[p][i] = peer[p][i]
  /\ inbound[p][i] = 0 => inbound'[p][i] = 0
  /\ outbound'[p][i] + inbound'[p][i] + established'[p][i]
       = IF chan'[p][i] = "open" THEN 1 ELSE 0

LEMMA PlainInv ==
  ASSUME IInv, TypeOK', NEW p \in Picos, NEW I, Elsewhere(p, I), approver' = approver,
         Old(net', Request), Old(net', Approval),
         \A i \in I : i \in Ids /\ Plain(p, i)
  PROVE  Sound'
<1>1. /\ TypeOK /\ OneBusPerChannel /\ RequestInv /\ InboundInv /\ AnswerInv /\ ApproverInv
      /\ net \in NetType /\ net' \in NetType
  BY TypeSplit, TypeSplitNext DEF IInv, Sound, PromiseInv
<1>2. OneBusPerChannel'
  BY <1>1, OneBusFrame DEF Plain
<1>3. RequestInv'
  <2>1. ASSUME NEW j \in Ids PROVE Unnoticed(j)
    <3>1. CASE j \in I
      BY <3>1 DEF Plain, Elsewhere, Unnoticed
    <3>2. CASE j \notin I
      BY <3>2 DEF Elsewhere, Unnoticed
    <3>3. QED BY <3>1, <3>2
  <2>2. QED BY <1>1, <2>1, RequestFrame
<1>4. InboundInv'
  <2>1. ASSUME NEW q \in Picos, NEW j \in Ids, inbound'[q][j] > 0
        PROVE  OldOffer(q, j)
    <3>1. CASE q = p /\ j \in I
      <4>1. inbound[p][j] # 0 /\ peer'[p][j] = peer[p][j]
        BY <2>1, <3>1 DEF Plain
      <4>2. inbound[p][j] \in Nat
        BY <1>1, ListAt
      <4>3. QED BY <3>1, <4>1, <4>2 DEF OldOffer
    <3>2. CASE q # p \/ j \notin I
      BY <2>1, <3>2 DEF Elsewhere, OldOffer
    <3>3. QED BY <3>1, <3>2
  <2>2. \A q \in Picos, j \in Ids : inbound'[q][j] > 0 => inbound[q][j] > 0
    BY <2>1 DEF OldOffer
  <2>3. QED BY <1>1, <2>1, <2>2, InboundFrame
<1>5. AnswerInv'
  <2>1. \A q \in Picos, j \in Ids, m \in Nat :
          Carries(net', q, j, m, Approval) => \E s \in Nat : Carries(net, q, j, s, Approval)
    BY DEF Old, OldAt
  <2>2. QED BY <1>1, <2>1, AnswerFrame
<1>6. ApproverInv'
  <2>1. \A r \in Picos, j \in Ids : chan'[r][j] = "none" => chan[r][j] = "none"
    BY DEF Plain, Elsewhere
  <2>2. QED BY <1>1, <2>1, ApproverFrame
<1>7. QED BY <1>2, <1>3, <1>4, <1>5, <1>6 DEF Sound, PromiseInv

\* A step that leaves every list, channel and peer alone.
LEMMA QuietInv ==
  ASSUME IInv, TypeOK', NEW p \in Picos,
         UNCHANGED <<outbound, inbound, established, chan, peer, approver>>,
         Old(net', Request), Old(net', Approval)
  PROVE  Sound'
<1>1. Elsewhere(p, {})
  BY DEF Elsewhere
<1>2. QED BY <1>1, PlainInv

LEMMA ConfirmInv ==
  ASSUME IInv, TypeOK', NEW p \in Picos, NEW i \in Ids, NEW k \in 1 .. Len(net[p][i]),
         addOutboundSubscription(p, i, k)
  PROVE  Sound'
<1>1. TypeOK /\ OneBusPerChannel
  BY DEF IInv, Sound
<1>2. Old(net', Request) /\ Old(net', Approval)
  BY <1>1, TookOld DEF addOutboundSubscription
<1>3. approver' = approver
  BY DEF addOutboundSubscription
<1>4. CASE UNCHANGED <<outbound, inbound, established>>
  BY <1>2, <1>4, QuietInv DEF addOutboundSubscription
<1>5. CASE outbound[p][i] > 0 /\ Gains(p, i, -1, 0, 1)
  <2>1. Elsewhere(p, {i}) /\ chan' = chan /\ peer' = peer
    BY <1>1, ConfirmMoves
  <2>2. chan[p][i] = "open" /\ outbound[p][i] + inbound[p][i] + established[p][i] = 1
    BY <1>1, <1>5, OneBusAt
  <2>3. outbound'[p][i] + inbound'[p][i] + established'[p][i]
          = outbound[p][i] + inbound[p][i] + established[p][i] + (-1 + 0 + 1)
    BY <1>1, <1>5, GainsSum
  <2>4. inbound[p][i] = 0 => inbound'[p][i] = 0
    BY <1>5 DEF Gains
  <2>5. Plain(p, i)
    BY <2>1, <2>2, <2>3, <2>4 DEF Plain
  <2>6. QED BY <1>2, <1>3, <2>1, <2>5, PlainInv
<1>6. QED BY <1>1, <1>4, <1>5, ConfirmMoves

LEMMA RemovedInv ==
  ASSUME IInv, TypeOK', NEW p \in Picos, NEW i \in Ids, NEW k \in 1 .. Len(net[p][i]),
         removeInbound(p, i, k) \/ removeOutbound(p, i, k) \/ removeEstablished(p, i, k)
  PROVE  Sound'
<1>1. TypeOK /\ OneBusPerChannel
  BY DEF IInv, Sound
<1>2. Old(net', Request) /\ Old(net', Approval)
  BY <1>1, TookOld DEF removeInbound, removeOutbound, removeEstablished
<1>3. /\ Elsewhere(p, {i}) /\ peer' = peer /\ approver' = approver
      /\ \/ UNCHANGED <<outbound, inbound, established, chan>>
         \/ /\ chan'[p][i] = "deleted"
            /\ \/ outbound[p][i] > 0 /\ Gains(p, i, -1, 0, 0)
               \/ inbound[p][i] > 0 /\ Gains(p, i, 0, -1, 0)
               \/ established[p][i] > 0 /\ Gains(p, i, 0, 0, -1)
  BY <1>1, RemovedMoves
<1>4. CASE UNCHANGED <<outbound, inbound, established, chan>>
  BY <1>2, <1>3, <1>4, QuietInv
<1>5. CASE /\ chan'[p][i] = "deleted"
           /\ \/ outbound[p][i] > 0 /\ Gains(p, i, -1, 0, 0)
              \/ inbound[p][i] > 0 /\ Gains(p, i, 0, -1, 0)
              \/ established[p][i] > 0 /\ Gains(p, i, 0, 0, -1)
  <2>1. chan[p][i] = "open"
    BY <1>1, <1>5, OneBusAt
  <2>2. outbound[p][i] + inbound[p][i] + established[p][i] = 1
    BY <1>1, <2>1, OneBusAt
  <2>3. outbound'[p][i] + inbound'[p][i] + established'[p][i] = 0
    <3>1. CASE Gains(p, i, -1, 0, 0)
      <4>1. outbound'[p][i] + inbound'[p][i] + established'[p][i]
              = outbound[p][i] + inbound[p][i] + established[p][i] + (-1 + 0 + 0)
        BY <1>1, <3>1, GainsSum
      <4>2. QED BY <2>2, <4>1
    <3>2. CASE Gains(p, i, 0, -1, 0)
      <4>1. outbound'[p][i] + inbound'[p][i] + established'[p][i]
              = outbound[p][i] + inbound[p][i] + established[p][i] + (0 + -1 + 0)
        BY <1>1, <3>2, GainsSum
      <4>2. QED BY <2>2, <4>1
    <3>3. CASE Gains(p, i, 0, 0, -1)
      <4>1. outbound'[p][i] + inbound'[p][i] + established'[p][i]
              = outbound[p][i] + inbound[p][i] + established[p][i] + (0 + 0 + -1)
        BY <1>1, <3>3, GainsSum
      <4>2. QED BY <2>2, <4>1
    <3>4. QED BY <1>5, <3>1, <3>2, <3>3
  <2>4. inbound[p][i] = 0 => inbound'[p][i] = 0
    BY <1>5 DEF Gains
  <2>5. Plain(p, i)
    BY <1>3, <1>5, <2>1, <2>3, <2>4 DEF Plain
  <2>6. QED BY <1>2, <1>3, <2>5, PlainInv
<1>6. QED BY <1>3, <1>4, <1>5

LEMMA DropInv ==
  ASSUME IInv, TypeOK', NEW p \in Picos, NEW I, Drop(p, I)
  PROVE  Sound'
<1>1. TypeOK /\ OneBusPerChannel
  BY DEF IInv, Sound
<1>2. Old(net', Request) /\ Old(net', Approval)
  BY <1>1, DropOld
<1>3. ASSUME NEW i \in I PROVE i \in Ids /\ Plain(p, i)
  <2>1. /\ i \in Ids /\ i \in Held(p) /\ peer' = peer
        /\ outbound'[p][i] = Spliced(outbound[p][i])
        /\ inbound'[p][i] = Spliced(inbound[p][i])
        /\ established'[p][i] = Spliced(established[p][i])
        /\ chan'[p][i] = "deleted"
    BY <1>1, DropMoves
  <2>2. chan[p][i] = "open"
    BY <1>1, <2>1, OneBusAt DEF Held
  <2>3. /\ outbound[p][i] \in Nat /\ inbound[p][i] \in Nat /\ established[p][i] \in Nat
        /\ outbound[p][i] + inbound[p][i] + established[p][i] = 1
    BY <1>1, <2>1, <2>2, OneBusAt
  <2>4. outbound'[p][i] = 0 /\ inbound'[p][i] = 0 /\ established'[p][i] = 0
    BY <2>1, <2>3 DEF Spliced
  <2>5. QED BY <2>1, <2>2, <2>4 DEF Plain
<1>4. Elsewhere(p, I) /\ approver' = approver
  BY <1>1, DropMoves
<1>5. QED BY <1>2, <1>3, <1>4, PlainInv

\* Where nobody has a channel there is no bus, no request and no approval.
LEMMA Nobody ==
  ASSUME IInv, NEW i \in Ids, \A r \in Picos : chan[r][i] = "none"
  PROVE  /\ NoRequest(net, i) /\ approver[i] = NoPico
         /\ \A r \in Picos : outbound[r][i] = 0 /\ inbound[r][i] = 0 /\ established[r][i] = 0
<1>1. TypeOK /\ OneBusPerChannel /\ RequestInv /\ ApproverInv
  BY DEF IInv, Sound, PromiseInv
<1>2. ASSUME NEW q \in Picos, NEW m \in Nat, Carries(net, q, i, m, Request) PROVE FALSE
  BY <1>1, <1>2, RequestSays
<1>3. approver[i] = NoPico
  BY <1>1 DEF ApproverInv, Unanswered
<1>4. \A r \in Picos : outbound[r][i] = 0 /\ inbound[r][i] = 0 /\ established[r][i] = 0
  BY <1>1, OneBusAt
<1>5. QED BY <1>2, <1>3, <1>4 DEF NoRequest

\* What n, events sent to q about i after o, has of one kind is in o or was sent.
Added(n, o, q, i, events, kind) ==
  \A r \in Picos, j \in Ids, m \in Nat : Carries(n, r, j, m, kind) =>
    \/ Carries(o, r, j, m, kind) /\ n[r][j][m] = o[r][j][m]
    \/ /\ r = q /\ j = i /\ m - Len(o[r][j]) \in 1 .. Len(events)
       /\ n[r][j][m] = events[m - Len(o[r][j])]
       /\ events[m - Len(o[r][j])].kind = kind

LEMMA SendAdds ==
  ASSUME NEW o \in NetType, NEW q, NEW i \in Ids, NEW events \in Seq(Events), NEW kind
  PROVE  Added(SendTo(o, q, i, events), o, q, i, events, kind)
<1> DEFINE n == SendTo(o, q, i, events)
<1>1. Sent(n, o, q, i, events)
  BY SendFacts
<1> HIDE DEF n
<1>2. Added(n, o, q, i, events, kind)
  BY <1>1 DEF Sent, Carries, Added
<1>3. QED BY <1>2 DEF n

LEMMA AskInv ==
  ASSUME IInv, TypeOK', NEW p \in Picos, NEW q \in Picos, NEW i \in Ids, createRxBus(p, q, i)
  PROVE  Sound'
<1> DEFINE e == Event("new_subscription_request", p)
<1>1. /\ TypeOK /\ OneBusPerChannel /\ RequestInv /\ InboundInv /\ AnswerInv /\ ApproverInv
      /\ net \in NetType /\ net' \in NetType
  BY TypeSplit, TypeSplitNext DEF IInv, Sound, PromiseInv
<1>2. /\ p # q /\ approver' = approver /\ inbound' = inbound
      /\ \A r \in Picos : chan[r][i] = "none"
      /\ net' = SendTo(net, q, i, <<e>>)
  BY DEF createRxBus
<1>3. /\ NoRequest(net, i) /\ approver[i] = NoPico
      /\ \A r \in Picos : outbound[r][i] = 0 /\ inbound[r][i] = 0 /\ established[r][i] = 0
  BY <1>2, Nobody
<1>4. /\ Elsewhere(p, {i}) /\ Gains(p, i, 1, 0, 0)
      /\ chan'[p][i] = "open" /\ peer'[p][i] = q
  BY <1>1, AskMoves
<1>5. <<e>> \in Seq(Events) /\ e.kind = Request /\ e.from = p
  BY DEF Event, Events, Kind, Request
<1> HIDE DEF e
<1>6. \A r \in Picos, j \in Ids, m \in Nat, kind \in {Request, Approval} :
        Carries(net', r, j, m, kind) =>
          \/ Carries(net, r, j, m, kind) /\ net'[r][j][m] = net[r][j][m]
          \/ /\ kind = Request /\ r = q /\ j = i /\ m = Len(net[r][j]) + 1
             /\ net'[r][j][m].from = p
  <2>1. SUFFICES ASSUME NEW r \in Picos, NEW j \in Ids, NEW m \in Nat,
                        NEW kind \in {Request, Approval}, Carries(net', r, j, m, kind),
                        ~(Carries(net, r, j, m, kind) /\ net'[r][j][m] = net[r][j][m])
                 PROVE  /\ kind = Request /\ r = q /\ j = i /\ m = Len(net[r][j]) + 1
                        /\ net'[r][j][m].from = p
    OBVIOUS
  <2>2. Added(net', net, q, i, <<e>>, kind)
    BY <1>1, <1>2, <1>5, SendAdds, Zenon
  <2>3. /\ r = q /\ j = i /\ m - Len(net[r][j]) \in 1 .. Len(<<e>>)
        /\ net'[r][j][m] = <<e>>[m - Len(net[r][j])]
        /\ <<e>>[m - Len(net[r][j])].kind = kind
    BY <2>1, <2>2 DEF Added
  <2>4. Len(net[r][j]) \in Nat
    BY <1>1, LenType
  <2>5. m - Len(net[r][j]) = 1
    BY <2>3, <2>4
  <2>6. <<e>>[1] = e
    OBVIOUS
  <2>7. QED BY <1>5, <2>3, <2>4, <2>5, <2>6
<1>7. OneBusPerChannel'
  <2>1. outbound'[p][i] + inbound'[p][i] + established'[p][i] = 1
    BY <1>3, <1>4 DEF Gains
  <2>2. QED BY <1>1, <1>4, <2>1, OneBusFrame
<1>8. RequestInv'
  <2>1. ASSUME NEW r \in Picos, NEW j \in Ids, NEW k \in Nat, Carries(net', r, j, k, Request)
        PROVE  Rightful(r, j, k)
    <3>1. CASE j # i
      <4>1. OldAt(net', Request, j)
        BY <1>6, <3>1 DEF OldAt
      <4>2. Unnoticed(j)
        BY <1>2, <1>4, <3>1 DEF Unnoticed, Elsewhere
      <4>3. QED BY <1>1, <2>1, <4>1, <4>2, RequestAt
    <3>2. CASE j = i
      <4>1. \A t \in Picos, m \in Nat : Carries(net', t, i, m, Request) =>
              t = q /\ m = Len(net[q][i]) + 1 /\ net'[t][i][m].from = p
        BY <1>3, <1>6 DEF NoRequest
      <4>2. \A t \in Picos : t # p => chan'[t][i] = "none"
        BY <1>2, <1>4 DEF Elsewhere
      <4>3. r = q /\ k = Len(net[q][i]) + 1 /\ net'[r][i][k].from = p
        BY <2>1, <3>2, <4>1
      <4>4. approver'[i] = NoPico /\ \A t \in Picos : inbound'[t][i] = 0
        BY <1>2, <1>3
      <4>5. QED BY <1>2, <1>4, <3>2, <4>1, <4>2, <4>3, <4>4 DEF Rightful
    <3>3. QED BY <3>1, <3>2
  <2>2. QED BY <1>1, <2>1, RequestNext DEF Rightful
<1>9. InboundInv'
  <2>1. ASSUME NEW r \in Picos, NEW j \in Ids, inbound'[r][j] > 0 PROVE OldOffer(r, j)
    <3>1. j # i
      BY <1>2, <1>3, <2>1
    <3>2. QED BY <1>2, <1>4, <2>1, <3>1 DEF Elsewhere, OldOffer
  <2>2. \A r \in Picos, j \in Ids : inbound'[r][j] > 0 => inbound[r][j] > 0
    BY <1>2
  <2>3. QED BY <1>1, <2>1, <2>2, InboundFrame
<1>10. AnswerInv'
  <2>1. \A r \in Picos, j \in Ids, m \in Nat :
          Carries(net', r, j, m, Approval) => \E s \in Nat : Carries(net, r, j, s, Approval)
    BY <1>6 DEF Request, Approval
  <2>2. QED BY <1>1, <1>2, <2>1, AnswerFrame
<1>11. ApproverInv'
  <2>1. \A r \in Picos, j \in Ids : chan'[r][j] = "none" => chan[r][j] = "none"
    BY <1>4 DEF Elsewhere
  <2>2. QED BY <1>1, <1>2, <2>1, ApproverFrame
<1>12. QED BY <1>7, <1>8, <1>9, <1>10, <1>11 DEF Sound, PromiseInv

LEMMA AnswerKind ==
  ASSUME NEW q \in Picos, NEW events \in {<<Answer(q)>>, AutoAnswers(q)}, NEW m \in 1 .. Len(events)
  PROVE  events[m].kind = Approval
<1>1. Answer(q).kind = Approval
  BY DEF Answer, Event, Approval
<1>2. CASE events = <<Answer(q)>>
  <2>1. m = 1
    BY <1>2
  <2>2. QED BY <1>1, <1>2, <2>1
<1>3. CASE events = AutoAnswers(q)
  <2>1. events = <<Answer(q), Answer(q), Answer(q), Answer(q)>>
    BY <1>3 DEF AutoAnswers
  <2> HIDE DEF Answer
  <2>2. m \in {1, 2, 3, 4}
    BY <2>1
  <2>3. QED BY <1>1, <2>1, <2>2
<1>4. QED BY <1>2, <1>3

\* n has no more requests than o, and no more answers but about i to p.
AnswersOnly(n, o, p, i) ==
  /\ Old(n, Request)
  /\ \A j \in Ids : NoRequest(o, j) => NoRequest(n, j)
  /\ \A r \in Picos, j \in Ids, m \in Nat : Carries(n, r, j, m, Approval) =>
       (\E s \in Nat : Carries(net, r, j, s, Approval)) \/ (r = p /\ j = i)

LEMMA AnswersSent ==
  ASSUME TypeOK, NEW o \in NetType, Old(o, Request), Old(o, Approval),
         NEW p, NEW i \in Ids, NEW q \in Picos, NEW events \in {<<Answer(q)>>, AutoAnswers(q)}
  PROVE  AnswersOnly(SendTo(o, p, i, events), o, p, i)
<1> DEFINE n == SendTo(o, p, i, events)
<1>1. net \in NetType /\ events \in Seq(Events)
  BY TypeSplit, AnswerType
<1>2. \A m \in 1 .. Len(events) : events[m].kind = Approval /\ events[m].kind # Request
  BY AnswerKind DEF Approval, Request
<1>3. Old(n, Request)
  BY <1>1, <1>2, SendOld
<1>4. Added(n, o, p, i, events, Request) /\ Added(n, o, p, i, events, Approval)
  BY <1>1, SendAdds
<1> HIDE DEF n
<1>5. ASSUME NEW j \in Ids, NoRequest(o, j), NEW r \in Picos, NEW m \in Nat,
             Carries(n, r, j, m, Request)
      PROVE  FALSE
  <2>1. m - Len(o[r][j]) \in 1 .. Len(events) /\ events[m - Len(o[r][j])].kind = Request
    BY <1>4, <1>5 DEF Added, NoRequest
  <2>2. QED BY <1>2, <2>1
<1>6. ASSUME NEW r \in Picos, NEW j \in Ids, NEW m \in Nat, Carries(n, r, j, m, Approval),
             r # p \/ j # i
      PROVE  \E s \in Nat : Carries(net, r, j, s, Approval)
  <2>1. Carries(o, r, j, m, Approval)
    BY <1>4, <1>6 DEF Added
  <2>2. QED BY <2>1 DEF Old, OldAt
<1>7. \A j \in Ids : NoRequest(o, j) => NoRequest(n, j)
  BY <1>5 DEF NoRequest
<1>8. AnswersOnly(n, o, p, i)
  BY <1>3, <1>6, <1>7 DEF AnswersOnly
<1>9. QED BY <1>8 DEF n

LEMMA ApproveInv ==
  ASSUME IInv, TypeOK', NEW q \in Picos, NEW i \in Ids, approveInboundPendingSubscription(q, i)
  PROVE  Sound'
<1>1. /\ TypeOK /\ OneBusPerChannel /\ RequestInv /\ InboundInv /\ AnswerInv /\ ApproverInv
      /\ net \in NetType /\ net' \in NetType
  BY TypeSplit, TypeSplitNext DEF IInv, Sound, PromiseInv
<1>2. /\ inbound[q][i] > 0 /\ approver' = [approver EXCEPT ![i] = q]
      /\ net' = SendTo(net, peer[q][i], i, <<Answer(q)>>)
  BY DEF approveInboundPendingSubscription
<1>3. /\ approver[i] = NoPico /\ peer[q][i] \in Picos \ {q}
      /\ \A r \in Picos \ {q} : inbound[r][i] = 0
  BY <1>1, <1>2 DEF InboundInv, Unanswered
<1>4. Elsewhere(q, {i}) /\ Gains(q, i, 0, -1, 1) /\ chan' = chan /\ peer' = peer
  BY <1>1, ApproveMoves
<1>5. chan[q][i] = "open" /\ outbound[q][i] + inbound[q][i] + established[q][i] = 1
  BY <1>1, <1>2, OneBusAt
<1>6. \A j \in Ids : j # i => approver'[j] = approver[j]
  BY <1>1, <1>2 DEF TypeOK
<1>7. approver'[i] = q
  BY <1>1, <1>2 DEF TypeOK
<1>8. NoRequest(net, i)
  <2>1. ASSUME NEW r \in Picos, NEW m \in Nat, Carries(net, r, i, m, Request)
        PROVE  inbound[q][i] = 0
    BY <1>1, <2>1, RequestSays
  <2>2. QED BY <1>2, <2>1 DEF NoRequest
<1>9. /\ Old(net', Request) /\ NoRequest(net', i)
      /\ \A r \in Picos, j \in Ids, m \in Nat : Carries(net', r, j, m, Approval) =>
           (\E s \in Nat : Carries(net, r, j, s, Approval)) \/ (r = peer[q][i] /\ j = i)
  <2>1. Old(net, Request) /\ Old(net, Approval)
    BY SameOld
  <2>2. <<Answer(q)>> \in {<<Answer(q)>>, AutoAnswers(q)}
    OBVIOUS
  <2>3. AnswersOnly(SendTo(net, peer[q][i], i, <<Answer(q)>>), net, peer[q][i], i)
    BY <1>1, <2>1, <2>2, AnswersSent, Zenon
  <2>4. AnswersOnly(net', net, peer[q][i], i)
    BY <1>2, <2>3
  <2>5. QED BY <1>8, <2>4 DEF AnswersOnly
<1>10. OneBusPerChannel'
  <2>1. outbound'[q][i] + inbound'[q][i] + established'[q][i]
          = outbound[q][i] + inbound[q][i] + established[q][i] + (0 + -1 + 1)
    BY <1>1, <1>4, GainsSum
  <2>2. outbound'[q][i] + inbound'[q][i] + established'[q][i] = 1
    BY <1>5, <2>1
  <2>3. QED BY <1>1, <1>4, <1>5, <2>2, OneBusFrame
<1>11. RequestInv'
  <2>1. \A j \in Ids : j # i => Unnoticed(j)
    BY <1>4, <1>6 DEF Unnoticed, Elsewhere
  <2>2. QED BY <1>1, <1>9, <2>1, RequestFrame
<1>12. InboundInv'
  <2>1. inbound'[q][i] = 0
    BY <1>1, <1>2, <1>4, <1>5, ListAt DEF Gains
  <2>2. \A r \in Picos : inbound'[r][i] = 0
    BY <1>3, <1>4, <2>1 DEF Elsewhere
  <2>3. \A r \in Picos, j \in Ids : inbound'[r][j] > 0 => inbound[r][j] > 0 /\ j # i
    BY <1>4, <2>2 DEF Elsewhere
  <2>4. \A r \in Picos, j \in Ids : inbound'[r][j] > 0 => OldOffer(r, j)
    BY <1>4, <1>6, <2>3 DEF OldOffer
  <2>5. QED BY <1>1, <2>3, <2>4, InboundFrame
<1>13. AnswerInv'
  <2>1. \A j \in Ids : approver'[j] = approver[j] \/ approver[j] = NoPico
    BY <1>3, <1>6
  <2>2. approver'[i] \notin {NoPico, peer[q][i]}
    BY <1>3, <1>7, SubscriptionAssumption DEF SubscriptionAssumption
  <2>3. \A r \in Picos, j \in Ids, m \in Nat : Carries(net', r, j, m, Approval) =>
          (\E s \in Nat : Carries(net, r, j, s, Approval)) \/ approver'[j] \notin {NoPico, r}
    BY <1>9, <2>2
  <2>4. QED BY <1>1, <2>1, <2>3, AnswerFrame
<1>14. ApproverInv'
  <2>1. \A j \in Ids : approver'[j] = approver[j] \/ \E r \in Picos : chan'[r][j] # "none"
    BY <1>4, <1>5, <1>6
  <2>2. QED BY <1>1, <1>4, <2>1, ApproverFrame
<1>15. QED BY <1>10, <1>11, <1>12, <1>13, <1>14 DEF Sound, PromiseInv

LEMMA HearInv ==
  ASSUME IInv, TypeOK', NEW q \in Picos, NEW i \in Ids, NEW k \in 1 .. Len(net[q][i]),
         addInboundPendingSubscription(q, i, k)
  PROVE  Sound'
<1> DEFINE p == net[q][i][k].from
<1> HIDE DEF p
<1>1. /\ TypeOK /\ OneBusPerChannel /\ RequestInv /\ InboundInv /\ AnswerInv /\ ApproverInv
      /\ net \in NetType /\ net' \in NetType /\ Took(q, i, k) \in NetType
  BY TypeSplit, TypeSplitNext, TookType DEF IInv, Sound, PromiseInv
<1>2. k \in Nat /\ Carries(net, q, i, k, Request)
  BY <1>1, LenType DEF addInboundPendingSubscription, Carries, Request
<1>3. /\ p \in Picos \ {q} /\ approver[i] = NoPico
      /\ \A r \in Picos : inbound[r][i] = 0
      /\ \A r \in Picos : r # p => chan[r][i] = "none"
  BY <1>1, <1>2, RequestSays DEF p
<1>4. chan[q][i] = "none"
  BY <1>3
<1>5. outbound[q][i] = 0 /\ inbound[q][i] = 0 /\ established[q][i] = 0
  BY <1>1, <1>4, OneBusAt
<1>6. /\ Elsewhere(q, {i}) /\ chan'[q][i] = "open" /\ peer'[q][i] = p
      /\ \/ Gains(q, i, 0, 1, 0) /\ approver' = approver
         \/ Gains(q, i, 0, 0, 1) /\ approver' = [approver EXCEPT ![i] = q]
  <2>1. TypeOK
    BY <1>1
  <2> QED BY <2>1, HearMoves, ZenonT(30) DEF p
<1>7. /\ \A j \in Ids : j # i => approver'[j] = approver[j]
      /\ approver'[i] \in {NoPico, q}
  BY <1>1, <1>3, <1>6 DEF TypeOK
<1>8. /\ Old(Took(q, i, k), Request) /\ Old(Took(q, i, k), Approval)
      /\ NoRequest(Took(q, i, k), i)
  BY <1>1, <1>2, TookOld, TookRequest DEF NoRequest, Carries
<1>9. /\ Old(net', Request) /\ NoRequest(net', i)
      /\ \A r \in Picos, j \in Ids, m \in Nat : Carries(net', r, j, m, Approval) =>
           \/ \E s \in Nat : Carries(net, r, j, s, Approval)
           \/ r = p /\ j = i /\ approver'[i] = q
  <2>1. CASE q \notin auto
    <3>1. net' = Took(q, i, k)
      BY <2>1 DEF addInboundPendingSubscription
    <3>2. QED BY <1>8, <3>1 DEF Old, OldAt
  <2>2. CASE q \in auto
    <3>1. net' = SendTo(Took(q, i, k), p, i, AutoAnswers(q)) /\ approver'[i] = q
      BY <1>1, <2>2 DEF addInboundPendingSubscription, p, TypeOK
    <3>2. AutoAnswers(q) \in {<<Answer(q)>>, AutoAnswers(q)}
      OBVIOUS
    <3>3. AnswersOnly(SendTo(Took(q, i, k), p, i, AutoAnswers(q)), Took(q, i, k), p, i)
      BY <1>1, <1>8, <3>2, AnswersSent, Zenon
    <3>4. AnswersOnly(net', Took(q, i, k), p, i)
      BY <3>1, <3>3
    <3>5. QED BY <1>8, <3>1, <3>4 DEF AnswersOnly
  <2>3. QED BY <2>1, <2>2
<1>10. OneBusPerChannel'
  <2>1. outbound'[q][i] + inbound'[q][i] + established'[q][i] = 1
    BY <1>5, <1>6 DEF Gains
  <2>2. QED BY <1>1, <1>6, <2>1, OneBusFrame
<1>11. RequestInv'
  <2>1. \A j \in Ids : j # i => Unnoticed(j)
    BY <1>6, <1>7 DEF Unnoticed, Elsewhere
  <2>2. QED BY <1>1, <1>9, <2>1, RequestFrame
<1>12. InboundInv'
  <2>1. \A r \in Picos \ {q} : inbound'[r][i] = 0
    BY <1>3, <1>6 DEF Elsewhere
  <2>2. ASSUME NEW r \in Picos, inbound'[r][i] > 0 PROVE GoodOffer(r, i)
    <3>1. r = q
      BY <2>1, <2>2
    <3>2. approver'[i] = NoPico
      BY <1>3, <1>5, <1>6, <2>2, <3>1 DEF Gains
    <3>3. QED BY <1>3, <1>6, <2>1, <3>1, <3>2 DEF GoodOffer
  <2>3. \A r \in Picos, j \in Ids : j # i /\ inbound'[r][j] > 0 =>
          OldOffer(r, j) /\ inbound[r][j] > 0
    BY <1>6, <1>7 DEF Elsewhere, OldOffer
  <2>4. \A r \in Picos, j \in Ids : inbound'[r][j] > 0 =>
          \/ GoodOffer(r, j)
          \/ OldOffer(r, j) /\ j # i
    BY <2>2, <2>3
  <2>5. QED BY <1>1, <2>3, <2>4, InboundFrame
<1>13. AnswerInv'
  <2>1. \A j \in Ids : approver'[j] = approver[j] \/ approver[j] = NoPico
    BY <1>3, <1>7
  <2>2. q \notin {NoPico, p}
    BY <1>3, SubscriptionAssumption DEF SubscriptionAssumption
  <2>3. \A r \in Picos, j \in Ids, m \in Nat : Carries(net', r, j, m, Approval) =>
          (\E s \in Nat : Carries(net, r, j, s, Approval)) \/ approver'[j] \notin {NoPico, r}
    BY <1>9, <2>2
  <2>4. QED BY <1>1, <2>1, <2>3, AnswerFrame
<1>14. ApproverInv'
  <2>1. \A r \in Picos, j \in Ids : chan'[r][j] = "none" => chan[r][j] = "none"
    BY <1>6 DEF Elsewhere
  <2>2. \A j \in Ids : approver'[j] = approver[j] \/ \E r \in Picos : chan'[r][j] # "none"
    BY <1>6, <1>7
  <2>3. QED BY <1>1, <2>1, <2>2, ApproverFrame
<1>15. QED BY <1>10, <1>11, <1>12, <1>13, <1>14 DEF Sound, PromiseInv

LEMMA InitInv ==
  ASSUME SubscriptionAssumption, Init
  PROVE  IInv
<1>1. TypeOK
  BY InitType
<1>2. OneBusPerChannel
  BY DEF Init, OneBusPerChannel
<1>3. \A p \in Picos, i \in Ids : net[p][i] = << >>
  BY DEF Init
<1>4. RequestInv /\ AnswerInv
  BY <1>3 DEF RequestInv, AnswerInv
<1>5. InboundInv /\ ApproverInv
  BY DEF Init, InboundInv, ApproverInv, Unanswered
<1>6. QED BY <1>1, <1>2, <1>4, <1>5 DEF IInv, Sound, PromiseInv

LEMMA StutterInv ==
  ASSUME IInv, UNCHANGED vars
  PROVE  Sound'
BY DEF IInv, Sound, vars, lists, OneBusPerChannel, PromiseInv, RequestInv, InboundInv,
       AnswerInv, ApproverInv, Asks, Answers, Unanswered

LEMMA LoseInv ==
  ASSUME IInv, TypeOK', NEW p \in Picos, NEW i \in Ids, NEW k, Lose(p, i, k)
  PROVE  Sound'
<1>1. Old(net', Request) /\ Old(net', Approval)
  BY TookOld DEF Lose, IInv
<1>2. UNCHANGED <<outbound, inbound, established, chan, peer, approver>>
  BY DEF Lose, lists
<1>3. QED BY <1>1, <1>2, QuietInv

LEMMA CrashInv ==
  ASSUME IInv, TypeOK', NEW p \in Picos, Crash(HostOf[p])
  PROVE  Sound'
<1>1. Old(net', Request) /\ Old(net', Approval)
  BY CrashOld
<1>2. UNCHANGED <<outbound, inbound, established, chan, peer, approver>>
  BY DEF Crash, lists
<1>3. QED BY <1>1, <1>2, QuietInv

LEMMA ConfigInv ==
  ASSUME IInv, TypeOK', NEW p \in Picos, autoAcceptConfigUpdate(p)
  PROVE  Sound'
<1>1. net' = net /\ UNCHANGED <<outbound, inbound, established, chan, peer, approver>>
  BY DEF autoAcceptConfigUpdate, lists
<1>2. Old(net', Request) /\ Old(net', Approval)
  BY <1>1, SameOld
<1>3. QED BY <1>1, <1>2, QuietInv

LEMMA NextInv ==
  ASSUME IInv, [Next]_vars
  PROVE  IInv'
<1>1. TypeOK'
  BY NextType DEF IInv
<1>2. ASSUME NEW p \in Picos, NEW i \in Ids, NEW k \in 1 .. Len(net[p][i]), Receive(p, i, k)
      PROVE  Sound'
  BY <1>1, <1>2, HearInv, ConfirmInv, RemovedInv DEF Receive
<1>3. ASSUME NEW p \in Picos, NEW i \in Ids, cancel(p, i) PROVE Sound'
  BY <1>1, <1>3, DropInv DEF cancel
<1>4. ASSUME NEW p \in Picos, cancel_all_subscriptions(p) PROVE Sound'
  BY <1>1, <1>4, DropInv DEF cancel_all_subscriptions
<1>5. ASSUME NEW p \in Picos, NEW q \in Picos, NEW i \in Ids, createRxBus(p, q, i) PROVE Sound'
  BY <1>1, <1>5, AskInv
<1>6. ASSUME NEW p \in Picos, NEW i \in Ids, approveInboundPendingSubscription(p, i) PROVE Sound'
  BY <1>1, <1>6, ApproveInv
<1>7. ASSUME NEW p \in Picos, NEW i \in Ids, NEW k \in 1 .. Len(net[p][i]), Lose(p, i, k)
      PROVE  Sound'
  BY <1>1, <1>7, LoseInv
<1>8. Sound'
  BY <1>1, <1>2, <1>3, <1>4, <1>5, <1>6, <1>7, ConfigInv, CrashInv, StutterInv DEF Next
<1>9. QED BY <1>1, <1>8 DEF IInv

LEMMA AlwaysInv == Spec => []IInv
<1>1. Init => IInv
  BY InitInv, SubscriptionAssumption
<1>2. IInv /\ [Next]_vars => IInv'
  BY NextInv
<1>3. QED BY <1>1, <1>2, PTL DEF Spec

\* A relationship is in one of a pico's lists, once, exactly as long as the pico
\* has its channel, however often an answer comes and whatever gets lost.
THEOREM OneBusCorrect == Spec => []OneBusPerChannel
<1>1. IInv => OneBusPerChannel
  BY DEF IInv, Sound
<1>2. QED BY <1>1, AlwaysInv, PTL

\* Requests, pending buses, answers and approvals stay in step, for any picos,
\* engines and relationships.
THEOREM PromiseCorrect == Spec => []PromiseInv
<1>1. IInv => PromiseInv
  BY DEF IInv, Sound
<1>2. QED BY <1>1, AlwaysInv, PTL

-----------------------------------------------------------------------------
(* The rules implement the abstract relationship.                           *)

Stand(e, n, o, c) ==
  CASE e > 0 -> "established"
    [] n > 0 -> "offered"
    [] o > 0 -> "asked"
    [] c = "none" -> "none"
    [] OTHER -> "ended"

LEMMA SideAt ==
  ASSUME NEW p \in Picos, NEW i \in Ids
  PROVE  /\ side[p][i] = Stand(established[p][i], inbound[p][i], outbound[p][i], chan[p][i])
         /\ side'[p][i] = Stand(established'[p][i], inbound'[p][i], outbound'[p][i], chan'[p][i])
BY DEF side, Stand

LEMMA StandIs ==
  ASSUME NEW e \in Nat, NEW n \in Nat, NEW o \in Nat, NEW c \in {"none", "open", "deleted"},
         o + n + e = IF c = "open" THEN 1 ELSE 0
  PROVE  /\ e > 0 => Stand(e, n, o, c) = "established"
         /\ n > 0 => Stand(e, n, o, c) = "offered"
         /\ o > 0 => Stand(e, n, o, c) = "asked"
         /\ c = "none" => Stand(e, n, o, c) = "none"
         /\ c = "deleted" => Stand(e, n, o, c) = "ended"
<1>1. CASE c = "open"
  BY <1>1 DEF Stand
<1>2. CASE c # "open"
  <2>1. e = 0 /\ n = 0 /\ o = 0
    BY <1>2, NoBuses
  <2>2. QED BY <1>2, <2>1 DEF Stand
<1>3. QED BY <1>1, <1>2

LEMMA SideNow ==
  ASSUME TypeOK, OneBusPerChannel, NEW p \in Picos, NEW i \in Ids
  PROVE  /\ established[p][i] > 0 => side[p][i] = "established"
         /\ inbound[p][i] > 0 => side[p][i] = "offered"
         /\ outbound[p][i] > 0 => side[p][i] = "asked"
         /\ chan[p][i] = "none" => side[p][i] = "none"
         /\ chan[p][i] = "deleted" => side[p][i] = "ended"
<1> DEFINE e == established[p][i]
           n == inbound[p][i]
           o == outbound[p][i]
           c == chan[p][i]
<1>1. e \in Nat /\ n \in Nat /\ o \in Nat /\ c \in {"none", "open", "deleted"}
  BY DEF TypeOK
<1>2. o + n + e = IF c = "open" THEN 1 ELSE 0
  BY DEF OneBusPerChannel
<1>3. side[p][i] = Stand(e, n, o, c)
  BY SideAt
<1> HIDE DEF e, n, o, c
<1>4. /\ e > 0 => Stand(e, n, o, c) = "established"
      /\ n > 0 => Stand(e, n, o, c) = "offered"
      /\ o > 0 => Stand(e, n, o, c) = "asked"
      /\ c = "none" => Stand(e, n, o, c) = "none"
      /\ c = "deleted" => Stand(e, n, o, c) = "ended"
  BY <1>1, <1>2, StandIs
<1>5. QED BY <1>3, <1>4 DEF e, n, o, c

LEMMA SideNext ==
  ASSUME TypeOK', OneBusPerChannel', NEW p \in Picos, NEW i \in Ids
  PROVE  /\ established'[p][i] > 0 => side'[p][i] = "established"
         /\ inbound'[p][i] > 0 => side'[p][i] = "offered"
         /\ outbound'[p][i] > 0 => side'[p][i] = "asked"
         /\ chan'[p][i] = "none" => side'[p][i] = "none"
         /\ chan'[p][i] = "deleted" => side'[p][i] = "ended"
<1> DEFINE e == established'[p][i]
           n == inbound'[p][i]
           o == outbound'[p][i]
           c == chan'[p][i]
<1>1. e \in Nat /\ n \in Nat /\ o \in Nat /\ c \in {"none", "open", "deleted"}
  BY DEF TypeOK
<1>2. o + n + e = IF c = "open" THEN 1 ELSE 0
  BY DEF OneBusPerChannel
<1>3. side'[p][i] = Stand(e, n, o, c)
  BY SideAt
<1> HIDE DEF e, n, o, c
<1>4. /\ e > 0 => Stand(e, n, o, c) = "established"
      /\ n > 0 => Stand(e, n, o, c) = "offered"
      /\ o > 0 => Stand(e, n, o, c) = "asked"
      /\ c = "none" => Stand(e, n, o, c) = "none"
      /\ c = "deleted" => Stand(e, n, o, c) = "ended"
  BY <1>1, <1>2, StandIs
<1>5. QED BY <1>3, <1>4 DEF e, n, o, c

LEMMA SideFunction ==
  /\ side = [p \in Picos |-> [i \in Ids |-> side[p][i]]]
  /\ side' = [p \in Picos |-> [i \in Ids |-> side'[p][i]]]
BY DEF side

LEMMA SideElsewhere ==
  ASSUME NEW p \in Picos, NEW I, Elsewhere(p, I)
  PROVE  \A r \in Picos, j \in Ids : r # p \/ j \notin I => side'[r][j] = side[r][j]
BY SideAt DEF Elsewhere

LEMMA SideMoves ==
  ASSUME NEW p \in Picos, NEW i \in Ids, Elsewhere(p, {i}), NEW x, side'[p][i] = x
  PROVE  side' = [side EXCEPT ![p][i] = x]
<1>1. \A r \in Picos, j \in Ids : side'[r][j] = IF r = p /\ j = i THEN x ELSE side[r][j]
  BY SideElsewhere
<1>2. side' = [r \in Picos |-> [j \in Ids |-> IF r = p /\ j = i THEN x ELSE side[r][j]]]
  BY <1>1, SideFunction
<1>3. [side EXCEPT ![p][i] = x]
        = [r \in Picos |-> [j \in Ids |-> IF r = p /\ j = i THEN x ELSE side[r][j]]]
  BY SideFunction
<1>4. QED BY <1>2, <1>3

LEMMA SideEnds ==
  ASSUME NEW p \in Picos, NEW I, Elsewhere(p, I), \A i \in I : side'[p][i] = "ended"
  PROVE  side' = [side EXCEPT ![p] = [i \in Ids |-> IF i \in I THEN "ended" ELSE @[i]]]
<1>1. \A r \in Picos, j \in Ids :
        side'[r][j] = IF r = p /\ j \in I THEN "ended" ELSE side[r][j]
  BY SideElsewhere
<1>2. side' = [r \in Picos |-> [j \in Ids |->
                 IF r = p /\ j \in I THEN "ended" ELSE side[r][j]]]
  BY <1>1, SideFunction
<1>3. [side EXCEPT ![p] = [i \in Ids |-> IF i \in I THEN "ended" ELSE @[i]]]
        = [r \in Picos |-> [j \in Ids |->
                 IF r = p /\ j \in I THEN "ended" ELSE side[r][j]]]
  BY SideFunction
<1>4. QED BY <1>2, <1>3

LEMMA SideSame ==
  ASSUME UNCHANGED <<outbound, inbound, established, chan>>
  PROVE  side' = side
BY DEF side

LEMMA AskStep ==
  ASSUME IInv, IInv', NEW p \in Picos, NEW q \in Picos, NEW i \in Ids, createRxBus(p, q, i)
  PROVE  Promise!Ask(p, i)
<1>1. /\ TypeOK /\ OneBusPerChannel /\ TypeOK' /\ OneBusPerChannel'
      /\ approver' = approver /\ \A r \in Picos : chan[r][i] = "none"
  BY DEF IInv, Sound, createRxBus
<1>2. \A r \in Picos : side[r][i] = "none"
  BY <1>1, SideNow
<1>3. outbound[p][i] = 0 /\ Elsewhere(p, {i}) /\ Gains(p, i, 1, 0, 0)
  BY <1>1, AskMoves, OneBusAt
<1>4. side'[p][i] = "asked"
  BY <1>1, <1>3, SideNext DEF Gains
<1>5. side' = [side EXCEPT ![p][i] = "asked"]
  BY <1>3, <1>4, SideMoves
<1>6. QED BY <1>1, <1>2, <1>5 DEF Promise!Ask

LEMMA HearStep ==
  ASSUME IInv, IInv', NEW q \in Picos, NEW i \in Ids, NEW k \in 1 .. Len(net[q][i]),
         addInboundPendingSubscription(q, i, k)
  PROVE  Promise!Hear(q, i)
<1> DEFINE p == net[q][i][k].from
<1> HIDE DEF p
<1>1. /\ TypeOK /\ OneBusPerChannel /\ RequestInv /\ net \in NetType
      /\ TypeOK' /\ OneBusPerChannel'
  BY TypeSplit DEF IInv, Sound, PromiseInv
<1>2. k \in Nat /\ Carries(net, q, i, k, Request)
  BY <1>1, LenType DEF addInboundPendingSubscription, Carries, Request
<1>3. /\ p \in Picos \ {q} /\ chan[p][i] # "none"
      /\ \A r \in Picos : r # p => chan[r][i] = "none"
  BY <1>1, <1>2, RequestSays DEF p
<1>4. inbound[q][i] = 0 /\ established[q][i] = 0
  BY <1>1, <1>3, OneBusAt
<1>5. \A r \in Picos \ {p} : side[r][i] = "none"
  BY <1>1, <1>3, SideNow
<1>6. side[p][i] # "none"
  <2>1. chan[p][i] = "deleted" => side[p][i] = "ended"
    BY <1>1, <1>3, SideNow
  <2>2. chan[p][i] = "open" => side[p][i] \in {"established", "offered", "asked"}
    <3>1. /\ outbound[p][i] \in Nat /\ inbound[p][i] \in Nat /\ established[p][i] \in Nat
          /\ chan[p][i] = "open" => outbound[p][i] + inbound[p][i] + established[p][i] = 1
      BY <1>1, <1>3, OneBusAt
    <3>2. chan[p][i] = "open" =>
            outbound[p][i] > 0 \/ inbound[p][i] > 0 \/ established[p][i] > 0
      BY <3>1
    <3>3. QED BY <1>1, <1>3, <3>2, SideNow
  <2>3. chan[p][i] \in {"open", "deleted"}
    BY <1>1, <1>3, ListAt
  <2>4. QED BY <2>1, <2>2, <2>3
<1>7. Elsewhere(q, {i})
  BY <1>1, HearMoves
<1>8. CASE Gains(q, i, 0, 1, 0) /\ approver' = approver
  <2>1. side'[q][i] = "offered"
    BY <1>1, <1>4, <1>8, SideNext DEF Gains
  <2>2. side' = [side EXCEPT ![q][i] = "offered"]
    BY <1>7, <2>1, SideMoves
  <2>3. QED BY <1>3, <1>5, <1>6, <1>8, <2>2 DEF Promise!Hear
<1>9. CASE Gains(q, i, 0, 0, 1) /\ approver' = [approver EXCEPT ![i] = q]
  <2>1. side'[q][i] = "established"
    BY <1>1, <1>4, <1>9, SideNext DEF Gains
  <2>2. side' = [side EXCEPT ![q][i] = "established"]
    BY <1>7, <2>1, SideMoves
  <2>3. QED BY <1>3, <1>5, <1>6, <1>9, <2>2 DEF Promise!Hear
<1>10. QED BY <1>1, <1>8, <1>9, HearMoves

LEMMA ApproveStep ==
  ASSUME IInv, IInv', NEW q \in Picos, NEW i \in Ids, approveInboundPendingSubscription(q, i)
  PROVE  Promise!Approve(q, i)
<1>1. /\ TypeOK /\ OneBusPerChannel /\ TypeOK' /\ OneBusPerChannel'
      /\ inbound[q][i] > 0 /\ approver' = [approver EXCEPT ![i] = q]
  BY DEF IInv, Sound, approveInboundPendingSubscription
<1>2. side[q][i] = "offered"
  BY <1>1, SideNow
<1>3. Elsewhere(q, {i}) /\ Gains(q, i, 0, -1, 1) /\ established[q][i] \in Nat
  BY <1>1, ApproveMoves, ListAt
<1>4. side'[q][i] = "established"
  <2>1. established'[q][i] > 0
    BY <1>3 DEF Gains
  <2>2. QED BY <1>1, <2>1, SideNext
<1>5. side' = [side EXCEPT ![q][i] = "established"]
  BY <1>3, <1>4, SideMoves
<1>6. QED BY <1>1, <1>2, <1>5 DEF Promise!Approve

LEMMA ConfirmStep ==
  ASSUME IInv, IInv', NEW p \in Picos, NEW i \in Ids, NEW k \in 1 .. Len(net[p][i]),
         addOutboundSubscription(p, i, k)
  PROVE  Promise!Confirm(p, i) \/ UNCHANGED <<side, approver>>
<1>1. /\ TypeOK /\ OneBusPerChannel /\ AnswerInv /\ TypeOK' /\ OneBusPerChannel'
      /\ approver' = approver /\ Answers(p, i, k)
  BY DEF IInv, Sound, PromiseInv, addOutboundSubscription, Answers
<1>2. /\ Elsewhere(p, {i}) /\ chan' = chan
      /\ \/ outbound[p][i] > 0 /\ Gains(p, i, -1, 0, 1)
         \/ UNCHANGED <<outbound, inbound, established>>
  BY <1>1, ConfirmMoves
<1>3. CASE outbound[p][i] > 0 /\ Gains(p, i, -1, 0, 1)
  <2>1. side[p][i] = "asked"
    BY <1>1, <1>3, SideNow
  <2>2. established[p][i] \in Nat
    BY <1>1, ListAt
  <2>3. established'[p][i] > 0
    BY <1>3, <2>2 DEF Gains
  <2>4. side' = [side EXCEPT ![p][i] = "established"]
    BY <1>1, <1>2, <2>3, SideNext, SideMoves
  <2>5. approver[i] \notin {NoPico, p}
    BY <1>1 DEF AnswerInv
  <2>6. QED BY <1>1, <2>1, <2>4, <2>5 DEF Promise!Confirm
<1>4. CASE UNCHANGED <<outbound, inbound, established>>
  BY <1>1, <1>2, <1>4, SideSame
<1>5. QED BY <1>2, <1>3, <1>4

LEMMA RemovedStep ==
  ASSUME IInv, IInv', NEW p \in Picos, NEW i \in Ids, NEW k,
         removeInbound(p, i, k) \/ removeOutbound(p, i, k) \/ removeEstablished(p, i, k)
  PROVE  Promise!End(p, {i}) \/ UNCHANGED <<side, approver>>
<1>1. TypeOK /\ OneBusPerChannel /\ TypeOK' /\ OneBusPerChannel'
  BY DEF IInv, Sound
<1>2. /\ Elsewhere(p, {i}) /\ approver' = approver
      /\ \/ UNCHANGED <<outbound, inbound, established, chan>>
         \/ /\ chan'[p][i] = "deleted"
            /\ outbound[p][i] > 0 \/ inbound[p][i] > 0 \/ established[p][i] > 0
  BY <1>1, RemovedMoves
<1>3. CASE UNCHANGED <<outbound, inbound, established, chan>>
  BY <1>2, <1>3, SideSame
<1>4. CASE /\ chan'[p][i] = "deleted"
           /\ outbound[p][i] > 0 \/ inbound[p][i] > 0 \/ established[p][i] > 0
  <2>1. side'[p][i] = "ended"
    BY <1>1, <1>4, SideNext
  <2>2. side[p][i] \in {"asked", "offered", "established"}
    BY <1>1, <1>4, SideNow
  <2>3. side' = [side EXCEPT ![p] = [j \in Ids |-> IF j \in {i} THEN "ended" ELSE @[j]]]
    BY <1>2, <2>1, SideEnds
  <2>4. QED BY <1>2, <2>2, <2>3 DEF Promise!End
<1>5. QED BY <1>2, <1>3, <1>4

LEMMA DropStep ==
  ASSUME IInv, IInv', NEW p \in Picos, NEW I, Drop(p, I)
  PROVE  Promise!End(p, I) /\ I \in SUBSET Ids
<1>1. TypeOK /\ OneBusPerChannel /\ TypeOK' /\ OneBusPerChannel'
  BY DEF IInv, Sound
<1>2. Elsewhere(p, I) /\ approver' = approver /\ I \subseteq Ids
  BY <1>1, DropMoves
<1>3. ASSUME NEW i \in I
      PROVE  side'[p][i] = "ended" /\ side[p][i] \in {"asked", "offered", "established"}
  <2>1. i \in Ids /\ i \in Held(p) /\ chan'[p][i] = "deleted"
    BY <1>1, DropMoves
  <2>2. /\ outbound[p][i] \in Nat /\ inbound[p][i] \in Nat /\ established[p][i] \in Nat
        /\ outbound[p][i] + inbound[p][i] + established[p][i] > 0
    BY <1>1, <2>1, ListAt DEF Held
  <2>3. outbound[p][i] > 0 \/ inbound[p][i] > 0 \/ established[p][i] > 0
    BY <2>2
  <2>4. QED BY <1>1, <2>1, <2>3, SideNow, SideNext
<1>4. side' = [side EXCEPT ![p] = [i \in Ids |-> IF i \in I THEN "ended" ELSE @[i]]]
  BY <1>2, <1>3, SideEnds
<1>5. QED BY <1>2, <1>3, <1>4 DEF Promise!End

LEMMA OtherStep ==
  ASSUME \/ \E p \in Picos, i \in Ids, k \in Nat : Lose(p, i, k)
         \/ \E p \in Picos : autoAcceptConfigUpdate(p) \/ Crash(HostOf[p])
         \/ UNCHANGED vars
  PROVE  UNCHANGED <<side, approver>>
<1>1. UNCHANGED <<outbound, inbound, established, chan, approver>>
  BY DEF Lose, autoAcceptConfigUpdate, Crash, vars, lists
<1>2. QED BY <1>1, SideSame

LEMMA PromiseNext ==
  ASSUME IInv, IInv', [Next]_vars
  PROVE  [Promise!Next]_<<side, approver>>
<1>1. net \in NetType
  BY TypeSplit DEF IInv
<1>2. ASSUME NEW p \in Picos, NEW i \in Ids, NEW k \in 1 .. Len(net[p][i]), Receive(p, i, k)
      PROVE  \/ Promise!Hear(p, i) \/ Promise!Confirm(p, i) \/ Promise!End(p, {i})
             \/ UNCHANGED <<side, approver>>
  BY <1>2, HearStep, ConfirmStep, RemovedStep DEF Receive
<1>3. ASSUME NEW p \in Picos, NEW i \in Ids, cancel(p, i)
      PROVE  \E I \in SUBSET Ids : Promise!End(p, I)
  BY <1>3, DropStep DEF cancel
<1>4. ASSUME NEW p \in Picos, cancel_all_subscriptions(p)
      PROVE  \E I \in SUBSET Ids : Promise!End(p, I)
  BY <1>4, DropStep DEF cancel_all_subscriptions
<1>5. ASSUME NEW p \in Picos, NEW i \in Ids, NEW k \in 1 .. Len(net[p][i]), Lose(p, i, k)
      PROVE  UNCHANGED <<side, approver>>
  <2>1. k \in Nat
    BY <1>1, LenType
  <2>2. QED BY <1>5, <2>1, OtherStep
<1>6. QED
  BY <1>2, <1>3, <1>4, <1>5, AskStep, ApproveStep, OtherStep DEF Next, Promise!Next

LEMMA PromiseInit ==
  ASSUME Init
  PROVE  Promise!Init
<1>1. side = [p \in Picos |-> [i \in Ids |-> "none"]]
  BY DEF Init, side
<1>2. QED BY <1>1 DEF Init, Promise!Init

\* The rules implement the abstract relationship whatever is lost, overtaken or
\* repeated: each pico asks, hears, approves, confirms and ends as Relationship
\* says, for any picos, engines and relationships.
THEOREM PromiseKept == Spec => KeepsPromise
<1>1. Init => Promise!Init
  BY PromiseInit
<1>2. IInv /\ IInv' /\ [Next]_vars => [Promise!Next]_<<side, approver>>
  BY PromiseNext
<1>3. QED BY <1>1, <1>2, AlwaysInv, PTL DEF Spec, KeepsPromise, Promise!Spec

-----------------------------------------------------------------------------
(* Both sides agree at rest.  Unless an event is lost or overtaken, what is *)
(* on its way about a relationship is received in order, and the sides of   *)
(* the asker a and of the asked q determine it, up to repeated answers.     *)

OnlyAnswers(s) == \A k \in 1 .. Len(s) : s[k].kind = Approval
Withdrawn(s, kind) ==
  /\ Len(s) > 0 /\ s[Len(s)].kind = kind
  /\ \A k \in 1 .. Len(s) - 1 : s[k].kind = Approval

\* na and nq are what is on its way to a and q, sa and sq their sides.
Phase(sa, sq, na, nq, a) ==
  \/ /\ sq = "none" /\ Len(na) = 0 /\ Len(nq) > 0 /\ nq[1] = Event(Request, a)
     /\ \/ sa = "asked" /\ Len(nq) = 1
        \/ sa = "ended" /\ Len(nq) = 2 /\ nq[2].kind = "inbound_removal"
  \/ /\ sq = "offered" /\ Len(na) = 0
     /\ \/ sa = "asked" /\ Len(nq) = 0
        \/ sa = "ended" /\ Len(nq) = 1 /\ nq[1].kind = "inbound_removal"
  \/ /\ sq = "established" /\ OnlyAnswers(na)
     /\ \/ sa = "asked" /\ Len(nq) = 0 /\ Len(na) > 0
        \/ sa = "established" /\ Len(nq) = 0
        \/ /\ sa = "ended" /\ Len(nq) = 1
           /\ nq[1].kind \in {"inbound_removal", "established_removal"}
  \/ /\ sq = "ended"
     /\ \/ /\ sa = "asked" /\ Len(nq) = 0
           /\ \/ Len(na) = 1 /\ na[1].kind = "outbound_removal"
              \/ Len(na) > 1 /\ Withdrawn(na, "established_removal")
        \/ sa = "established" /\ Len(nq) = 0 /\ Withdrawn(na, "established_removal")
        \/ sa = "ended"

Pair(a, q, i) ==
  /\ a # q /\ peer[a][i] = q /\ (side[q][i] # "none" => peer[q][i] = a)
  /\ \A r \in Picos \ {a, q} : side[r][i] = "none" /\ Len(net[r][i]) = 0

Fresh(i) == \A p \in Picos : side[p][i] = "none" /\ Len(net[p][i]) = 0

AgreeAt(i) ==
  \/ Fresh(i)
  \/ \E a, q \in Picos : /\ Pair(a, q, i)
                         /\ Phase(side[a][i], side[q][i], net[a][i], net[q][i], a)

AgreeInv == \A i \in Ids \ upset : AgreeAt(i)

\* The first event of s is taken, or events are added.
Advanced(s, t) ==
  /\ Len(s) > 0 /\ Len(t) = Len(s) - 1
  /\ \A m \in 1 .. Len(t) : t[m] = s[m + 1]
Grown(s, t, events) ==
  /\ Len(t) = Len(s) + Len(events)
  /\ \A m \in 1 .. Len(t) : t[m] = IF m <= Len(s) THEN s[m] ELSE events[m - Len(s)]

LEMMA HearPhase ==
  ASSUME NEW na \in Seq(Events), NEW nq \in Seq(Events), NEW sa, NEW a,
         Phase(sa, "none", na, nq, a), NEW t \in Seq(Events), Advanced(nq, t)
  PROVE  /\ nq[1] = Event(Request, a) /\ Len(na) = 0
         /\ Phase(sa, "offered", na, t, a)
         /\ \A x \in Seq(Events) : OnlyAnswers(x) /\ Len(x) > 0 =>
              Phase(sa, "established", x, t, a)
BY DEF Phase, Advanced

LEMMA ApprovePhase ==
  ASSUME NEW na \in Seq(Events), NEW nq \in Seq(Events), NEW sa, NEW a,
         Phase(sa, "offered", na, nq, a), NEW t \in Seq(Events),
         Len(t) = Len(na) + 1, t[Len(na) + 1].kind = Approval
  PROVE  Phase(sa, "established", t, nq, a)
<1>1. Len(na) = 0 /\ Len(t) = 1 /\ t[1].kind = Approval BY DEF Phase
<1>2. OnlyAnswers(t) BY <1>1 DEF OnlyAnswers
<1> QED BY <1>1, <1>2 DEF Phase

LEMMA ConfirmPhase ==
  ASSUME NEW na \in Seq(Events), NEW nq \in Seq(Events), NEW sa, NEW sq, NEW a,
         Phase(sa, sq, na, nq, a), NEW t \in Seq(Events), Advanced(na, t),
         na[1].kind = Approval
  PROVE  Phase(IF sa = "asked" THEN "established" ELSE sa, sq, t, nq, a)
<1>1. Len(na) \in Nat /\ Len(t) \in Nat OBVIOUS
<1>2. OnlyAnswers(na) => OnlyAnswers(t)
  BY <1>1 DEF OnlyAnswers, Advanced
<1>3. Withdrawn(na, "established_removal") => Withdrawn(t, "established_removal")
  BY <1>1 DEF Withdrawn, Advanced, Approval
<1>4. Len(na) > 0 BY DEF Advanced
<1> QED BY <1>1, <1>2, <1>3, <1>4 DEF Phase, Approval

Removal == {"inbound_removal", "outbound_removal", "established_removal"}

LEMMA HeadOfAsker ==
  ASSUME NEW na \in Seq(Events), NEW nq \in Seq(Events), NEW sa, NEW sq, NEW a,
         Phase(sa, sq, na, nq, a), Len(na) > 0, na[1].kind \in Removal
  PROVE  /\ sq = "ended"
         /\ \/ sa = "ended"
            \/ sa = "asked" /\ na[1].kind = "outbound_removal"
            \/ sa = "established" /\ na[1].kind = "established_removal"
<1>1. Len(na) \in Nat OBVIOUS
<1>2. ~OnlyAnswers(na) BY <1>1 DEF OnlyAnswers, Approval, Removal
<1>3. Withdrawn(na, "established_removal") =>
        Len(na) = 1 /\ na[1].kind = "established_removal"
  <2>1. na[1].kind # Approval BY DEF Approval, Removal
  <2>2. Withdrawn(na, "established_removal") => Len(na) - 1 < 1
    BY <1>1, <2>1 DEF Withdrawn
  <2>3. Withdrawn(na, "established_removal") =>
          Len(na) > 0 /\ na[Len(na)].kind = "established_removal"
    BY DEF Withdrawn
  <2>4. ASSUME Withdrawn(na, "established_removal") PROVE Len(na) = 1
    <3>1. Len(na) > 0 /\ Len(na) - 1 < 1 BY <2>2, <2>3, <2>4
    <3>2. \A n \in Nat : n > 0 /\ n - 1 < 1 => n = 1 OBVIOUS
    <3> QED BY <1>1, <3>1, <3>2, Zenon
  <2> QED BY <2>3, <2>4
<1>4. sq # "none" /\ sq # "offered" /\ sq # "established"
  BY <1>2 DEF Phase
<1>5. /\ sq = "ended"
      /\ \/ sa = "asked" /\ Len(na) = 1 /\ na[1].kind = "outbound_removal"
         \/ sa = "asked" /\ Len(na) > 1 /\ Withdrawn(na, "established_removal")
         \/ sa = "established" /\ Withdrawn(na, "established_removal")
         \/ sa = "ended"
  BY <1>4 DEF Phase
<1>6. ~(Len(na) > 1 /\ Withdrawn(na, "established_removal")) BY <1>1, <1>3
<1> QED BY <1>3, <1>5, <1>6

LEMMA HeadOfAsked ==
  ASSUME NEW na \in Seq(Events), NEW nq \in Seq(Events), NEW sa, NEW sq, NEW a,
         Phase(sa, sq, na, nq, a), Len(nq) > 0, nq[1].kind # Request
  PROVE  /\ sa = "ended" /\ sq \in {"offered", "established", "ended"}
         /\ sq = "offered" => nq[1].kind = "inbound_removal"
         /\ sq = "established" => nq[1].kind \in {"inbound_removal", "established_removal"}
BY DEF Phase, Event

LEMMA AskerEnds ==
  ASSUME NEW na \in Seq(Events), NEW nq \in Seq(Events), NEW sa, NEW sq, NEW a,
         Phase(sa, sq, na, nq, a), NEW t \in Seq(Events), NEW e, Grown(nq, t, <<e>>),
         sa \in {"asked", "established"},
         e.kind = IF sa = "asked" THEN "inbound_removal" ELSE "established_removal"
  PROVE  Phase("ended", sq, na, t, a)
<1>1. Len(nq) \in Nat /\ Len(t) = Len(nq) + 1 BY DEF Grown
<1>2. t[Len(nq) + 1] = e /\ \A m \in 1 .. Len(nq) : t[m] = nq[m]
  BY <1>1 DEF Grown
<1> QED BY <1>1, <1>2 DEF Phase

LEMMA AskedEnds ==
  ASSUME NEW na \in Seq(Events), NEW nq \in Seq(Events), NEW sa, NEW sq, NEW a,
         Phase(sa, sq, na, nq, a), NEW t \in Seq(Events), NEW e, Grown(na, t, <<e>>),
         sq \in {"offered", "established"},
         e.kind = IF sq = "offered" THEN "outbound_removal" ELSE "established_removal"
  PROVE  Phase(sa, "ended", t, nq, a)
<1>1. Len(na) \in Nat /\ Len(t) = Len(na) + 1 BY DEF Grown
<1>2. t[Len(na) + 1] = e /\ \A m \in 1 .. Len(na) : t[m] = na[m]
  BY <1>1 DEF Grown
<1>3. OnlyAnswers(na) /\ sq = "established" => Withdrawn(t, "established_removal")
  BY <1>1, <1>2 DEF OnlyAnswers, Withdrawn
<1>4. Len(na) = 0 => t[1] = e BY <1>1, <1>2
<1> QED BY <1>1, <1>3, <1>4 DEF Phase

LEMMA PhaseSides ==
  ASSUME NEW sa, NEW sq, NEW na, NEW nq, NEW a, Phase(sa, sq, na, nq, a)
  PROVE  /\ sa \in {"asked", "established", "ended"}
         /\ sq \in {"none", "offered", "established", "ended"}
BY DEF Phase

LEMMA PhaseOver ==
  ASSUME NEW na, NEW nq, NEW a
  PROVE  Phase("ended", "ended", na, nq, a)
BY DEF Phase

-----------------------------------------------------------------------------
(* What a step does to the sides and to what is on its way.                 *)

LEMMA SideIff ==
  ASSUME TypeOK, OneBusPerChannel, NEW p \in Picos, NEW i \in Ids
  PROVE  /\ side[p][i] = "asked" <=> outbound[p][i] > 0
         /\ side[p][i] = "offered" <=> inbound[p][i] > 0
         /\ side[p][i] = "established" <=> established[p][i] > 0
         /\ side[p][i] = "none" <=> chan[p][i] = "none"
         /\ side[p][i] = "ended" <=> chan[p][i] = "deleted"
<1>1. /\ outbound[p][i] \in Nat /\ inbound[p][i] \in Nat /\ established[p][i] \in Nat
      /\ chan[p][i] \in {"none", "open", "deleted"}
      /\ chan[p][i] = "open" => outbound[p][i] + inbound[p][i] + established[p][i] = 1
      /\ chan[p][i] # "open" =>
           outbound[p][i] = 0 /\ inbound[p][i] = 0 /\ established[p][i] = 0
  BY OneBusAt
<1>2. /\ established[p][i] > 0 => side[p][i] = "established"
      /\ inbound[p][i] > 0 => side[p][i] = "offered"
      /\ outbound[p][i] > 0 => side[p][i] = "asked"
      /\ chan[p][i] = "none" => side[p][i] = "none"
      /\ chan[p][i] = "deleted" => side[p][i] = "ended"
  BY SideNow
<1>3. \/ outbound[p][i] > 0 \/ inbound[p][i] > 0 \/ established[p][i] > 0
      \/ chan[p][i] \in {"none", "deleted"}
  BY <1>1
<1>4. /\ chan[p][i] \in {"none", "deleted"} =>
           ~(outbound[p][i] > 0) /\ ~(inbound[p][i] > 0) /\ ~(established[p][i] > 0)
      /\ outbound[p][i] > 0 => ~(inbound[p][i] > 0) /\ ~(established[p][i] > 0)
      /\ inbound[p][i] > 0 => ~(established[p][i] > 0)
  BY <1>1
<1> QED BY <1>2, <1>3, <1>4

\* A step about other relationships than j.
Untouched(j) ==
  \A r \in Picos : /\ side'[r][j] = side[r][j] /\ peer'[r][j] = peer[r][j]
                   /\ net'[r][j] = net[r][j]

LEMMA UntouchedAgree ==
  ASSUME NEW j \in Ids, AgreeAt(j), Untouched(j)
  PROVE  AgreeAt(j)'
<1>1. Fresh(j) => Fresh(j)' BY DEF Untouched, Fresh
<1>2. \A a, q \in Picos :
        Pair(a, q, j) /\ Phase(side[a][j], side[q][j], net[a][j], net[q][j], a) =>
          Pair(a, q, j)' /\ Phase(side'[a][j], side'[q][j], net'[a][j], net'[q][j], a)
  BY DEF Untouched, Pair
<1> QED BY <1>1, <1>2 DEF AgreeAt

LEMMA NetAt ==
  ASSUME net \in NetType, NEW p \in Picos, NEW i \in Ids
  PROVE  net[p][i] \in Seq(Events) /\ Len(net[p][i]) \in Nat
<1>1. net[p][i] \in Seq(Events) BY DEF NetType
<1> QED BY <1>1

\* An event that overtakes none of another kind may as well be the first.
LEMMA TookHead ==
  ASSUME net \in NetType, NEW p \in Picos, NEW i \in Ids, NEW k \in 1 .. Len(net[p][i]),
         i \notin overtook(p, i, k)
  PROVE  /\ net[p][i][1] = net[p][i][k]
         /\ Advanced(net[p][i], Took(p, i, k)[p][i])
         /\ \A r \in Picos, j \in Ids : r # p \/ j # i => Took(p, i, k)[r][j] = net[r][j]
<1> DEFINE s == net[p][i]
           t == Took(p, i, k)[p][i]
<1>1. s \in Seq(Events) /\ Len(s) \in Nat /\ k \in 1 .. Len(s) BY NetAt
<1>2. \A j \in 1 .. k - 1 : s[j] = s[k] BY DEF overtook
<1>3. /\ t = RemoveAt(s, k)
      /\ \A r \in Picos, j \in Ids : r # p \/ j # i => Took(p, i, k)[r][j] = net[r][j]
  BY DEF NetType, Took
<1> HIDE DEF s, t
<1>4. /\ Len(t) = Len(s) - 1
      /\ \A m \in 1 .. Len(s) - 1 : t[m] = s[IF m < k THEN m ELSE m + 1]
  BY <1>1, <1>3, RemoveAtFacts
<1>5. s[1] = s[k]
  <2>1. CASE k = 1 BY <2>1
  <2>2. CASE k # 1
    <3>1. 1 \in 1 .. k - 1 BY <1>1, <2>2
    <3> QED BY <1>2, <3>1
  <2> QED BY <2>1, <2>2
<1>6. ASSUME NEW m \in 1 .. Len(t) PROVE t[m] = s[m + 1]
  <2>1. m \in 1 .. Len(s) - 1 BY <1>4
  <2>2. CASE m < k
    <3>1. t[m] = s[m] BY <1>4, <2>1, <2>2
    <3>2. s[m] = s[k]
      <4>1. m \in 1 .. k - 1 BY <1>1, <2>1, <2>2
      <4> QED BY <1>2, <4>1
    <3>3. s[m + 1] = s[k]
      <4>1. CASE m + 1 = k BY <4>1
      <4>2. CASE m + 1 # k
        <5>1. m + 1 \in 1 .. k - 1 BY <1>1, <2>1, <2>2, <4>2
        <5> QED BY <1>2, <5>1
      <4> QED BY <4>1, <4>2
    <3> QED BY <3>1, <3>2, <3>3
  <2>3. CASE ~(m < k) BY <1>4, <2>1, <2>3
  <2> QED BY <2>2, <2>3
<1>7. Len(s) > 0 BY <1>1
<1> QED BY <1>3, <1>4, <1>5, <1>6, <1>7 DEF Advanced, s, t

LEMMA SendGrows ==
  ASSUME NEW o \in NetType, NEW q \in Picos, NEW i \in Ids, NEW events \in Seq(Events)
  PROVE  /\ Grown(o[q][i], SendTo(o, q, i, events)[q][i], events)
         /\ \A r \in Picos, j \in Ids : r # q \/ j # i =>
              SendTo(o, q, i, events)[r][j] = o[r][j]
<1>1. o[q][i] \in Seq(Events) BY DEF NetType
<1>2. /\ SendTo(o, q, i, events)[q][i] = o[q][i] \o events
      /\ \A r \in Picos, j \in Ids : r # q \/ j # i =>
           SendTo(o, q, i, events)[r][j] = o[r][j]
  BY DEF NetType, SendTo
<1>3. Grown(o[q][i], o[q][i] \o events, events)
  BY <1>1, ConcatFacts DEF Grown
<1> QED BY <1>2, <1>3

LEMMA Engaged ==
  ASSUME NEW i \in Ids, AgreeAt(i), NEW p \in Picos,
         Len(net[p][i]) > 0 \/ side[p][i] # "none"
  PROVE  \E a, q \in Picos : /\ Pair(a, q, i) /\ p \in {a, q}
                             /\ Phase(side[a][i], side[q][i], net[a][i], net[q][i], a)
<1>1. ~Fresh(i)
  <2>1. SUFFICES ASSUME Fresh(i) PROVE FALSE OBVIOUS
  <2>2. side[p][i] = "none" /\ Len(net[p][i]) = 0 BY <2>1 DEF Fresh
  <2> QED BY <2>2
<1>2. PICK a \in Picos, q \in Picos :
        Pair(a, q, i) /\ Phase(side[a][i], side[q][i], net[a][i], net[q][i], a)
  BY <1>1 DEF AgreeAt
<1>3. p \in {a, q}
  <2>1. SUFFICES ASSUME p \in Picos \ {a, q} PROVE FALSE OBVIOUS
  <2>2. side[p][i] = "none" /\ Len(net[p][i]) = 0 BY <1>2, <2>1 DEF Pair
  <2> QED BY <2>2
<1> QED BY <1>2, <1>3

LEMMA PhaseMoves ==
  ASSUME NEW i \in Ids, NEW a \in Picos, NEW q \in Picos, Pair(a, q, i),
         \A r \in Picos : r # a /\ r # q =>
           side'[r][i] = side[r][i] /\ net'[r][i] = net[r][i],
         peer'[a][i] = q, side'[q][i] # "none" => peer'[q][i] = a,
         Phase(side'[a][i], side'[q][i], net'[a][i], net'[q][i], a)
  PROVE  AgreeAt(i)'
<1>1. Pair(a, q, i)' BY DEF Pair
<1> QED BY <1>1 DEF AgreeAt

LEMMA SidesElsewhere ==
  ASSUME NEW p \in Picos, NEW i \in Ids, Elsewhere(p, {i})
  PROVE  /\ \A r \in Picos : r # p => side'[r][i] = side[r][i] /\ peer'[r][i] = peer[r][i]
         /\ \A j \in Ids : j # i => \A r \in Picos :
              side'[r][j] = side[r][j] /\ peer'[r][j] = peer[r][j]
<1>1. \A r \in Picos, j \in Ids : r # p \/ j \notin {i} => side'[r][j] = side[r][j]
  BY SideElsewhere
<1>2. \A r \in Picos, j \in Ids : r # p \/ j \notin {i} => peer'[r][j] = peer[r][j]
  BY DEF Elsewhere
<1> QED BY <1>1, <1>2

LEMMA AgreeAsk ==
  ASSUME IInv, IInv', NEW p \in Picos, NEW q \in Picos, NEW i \in Ids, createRxBus(p, q, i),
         AgreeAt(i)
  PROVE  AgreeAt(i)'
<1> DEFINE ask == <<Event(Request, p)>>
<1>1. /\ TypeOK /\ OneBusPerChannel /\ net \in NetType /\ p # q
      /\ net' = SendTo(net, q, i, ask) /\ ask \in Seq(Events)
  <2>1. Event(Request, p) \in Events BY DEF Event, Events, Kind, Request
  <2> QED BY <2>1, TypeSplit DEF IInv, Sound, createRxBus, Request
<1>2. /\ \A r \in Picos : side[r][i] = "none"
      /\ side' = [side EXCEPT ![p][i] = "asked"]
  BY AskStep DEF Promise!Ask
<1>3. Elsewhere(p, {i}) /\ peer'[p][i] = q
  BY <1>1, AskMoves
<1>4. /\ side'[p][i] = "asked"
      /\ \A r \in Picos : r # p => side'[r][i] = "none"
  <2>1. side'[p][i] = "asked" BY <1>2, SideFunction
  <2> QED BY <1>2, <1>3, <2>1, SidesElsewhere
<1>5. Fresh(i)
  <2>1. \A a \in Picos : side[a][i] \notin {"asked", "established", "ended"}
    BY <1>2
  <2> QED BY <2>1, PhaseSides DEF AgreeAt
<1>6. /\ Grown(net[q][i], net'[q][i], ask)
      /\ \A r \in Picos, j \in Ids : r # q \/ j # i => net'[r][j] = net[r][j]
  <2> HIDE DEF ask
  <2>1. /\ Grown(net[q][i], SendTo(net, q, i, ask)[q][i], ask)
        /\ \A r \in Picos, j \in Ids : r # q \/ j # i =>
             SendTo(net, q, i, ask)[r][j] = net[r][j]
    <3>1. net \in NetType /\ ask \in Seq(Events)
      BY <1>1
    <3> QED BY <3>1, SendGrows, ZenonT(30)
  <2> QED BY <1>1, <2>1, Zenon
<1>7. Len(net'[q][i]) = 1 /\ net'[q][i][1] = Event(Request, p)
  <2>1. Len(net[q][i]) = 0 /\ Len(ask) = 1 /\ ask[1] = Event(Request, p)
    BY <1>5 DEF Fresh
  <2> HIDE DEF ask
  <2>2. Len(net'[q][i]) = 1 BY <1>6, <2>1 DEF Grown
  <2>3. 1 \in 1 .. Len(net'[q][i]) BY <2>2
  <2> QED BY <1>6, <2>1, <2>2, <2>3 DEF Grown
<1>8. \A r \in Picos : r # q => Len(net'[r][i]) = 0
  BY <1>5, <1>6 DEF Fresh
<1>9. Phase(side'[p][i], side'[q][i], net'[p][i], net'[q][i], p)
  BY <1>1, <1>4, <1>7, <1>8 DEF Phase
<1>10. Pair(p, q, i)'
  BY <1>1, <1>3, <1>4, <1>8 DEF Pair
<1> QED BY <1>9, <1>10 DEF AgreeAt

LEMMA AgreeApprove ==
  ASSUME IInv, IInv', NEW p \in Picos, NEW i \in Ids, approveInboundPendingSubscription(p, i),
         AgreeAt(i)
  PROVE  AgreeAt(i)'
<1>1. /\ TypeOK /\ OneBusPerChannel /\ net \in NetType /\ inbound[p][i] > 0
      /\ net' = SendTo(net, peer[p][i], i, <<Answer(p)>>)
  BY TypeSplit DEF IInv, Sound, approveInboundPendingSubscription
<1>2. side[p][i] = "offered" /\ side' = [side EXCEPT ![p][i] = "established"]
  BY ApproveStep DEF Promise!Approve
<1>3. Elsewhere(p, {i}) /\ peer' = peer
  BY <1>1, ApproveMoves
<1>4. /\ side'[p][i] = "established"
      /\ \A r \in Picos : r # p => side'[r][i] = side[r][i]
  BY <1>2, <1>3, SideFunction, SidesElsewhere
<1>5. PICK a \in Picos, q \in Picos :
        /\ Pair(a, q, i) /\ p \in {a, q}
        /\ Phase(side[a][i], side[q][i], net[a][i], net[q][i], a)
  BY <1>2, Engaged
<1>6. p = q /\ peer[p][i] = a /\ a # q /\ peer[a][i] = q
  BY <1>2, <1>5, PhaseSides DEF Pair
<1>7. /\ Grown(net[a][i], net'[a][i], <<Answer(p)>>)
      /\ \A r \in Picos, j \in Ids : r # a \/ j # i => net'[r][j] = net[r][j]
  <2> DEFINE answer == <<Answer(p)>>
  <2>1. net' = SendTo(net, a, i, answer) BY <1>1, <1>6
  <2>2. answer \in Seq(Events) BY AnswerType
  <2> HIDE DEF answer
  <2>3. net \in NetType BY <1>1
  <2>4. /\ Grown(net[a][i], SendTo(net, a, i, answer)[a][i], answer)
        /\ \A r \in Picos, j \in Ids : r # a \/ j # i =>
             SendTo(net, a, i, answer)[r][j] = net[r][j]
    BY <2>2, <2>3, SendGrows
  <2> QED BY <2>1, <2>4, Zenon DEF answer
<1>8. net[a][i] \in Seq(Events) /\ net[q][i] \in Seq(Events) /\ net'[a][i] \in Seq(Events)
  BY <1>1, NetAt, TypeSplitNext DEF IInv, NetType
<1>9. Len(net'[a][i]) = Len(net[a][i]) + 1 /\ net'[a][i][Len(net[a][i]) + 1].kind = Approval
  <2>1. Len(<<Answer(p)>>) = 1 /\ <<Answer(p)>>[1].kind = Approval
    BY DEF Answer, Event, Approval
  <2>2. Len(net[a][i]) \in Nat /\ Len(net'[a][i]) = Len(net[a][i]) + 1
    <3>1. Len(net[a][i]) \in Nat
      BY <1>8
    <3> QED BY <1>7, <2>1, <3>1 DEF Grown
  <2>3. net'[a][i][Len(net[a][i]) + 1] = <<Answer(p)>>[1]
    <3> DEFINE n == Len(net[a][i]) + 1
    <3>1. net'[a][i][n] = IF n <= Len(net[a][i]) THEN net[a][i][n]
                          ELSE <<Answer(p)>>[n - Len(net[a][i])]
      <4>1. \A m \in 1 .. Len(net'[a][i]) :
              net'[a][i][m] = IF m <= Len(net[a][i]) THEN net[a][i][m]
                              ELSE <<Answer(p)>>[m - Len(net[a][i])]
        BY <1>7 DEF Grown
      <4>2. n \in 1 .. Len(net'[a][i])
        BY <2>2
      <4> HIDE DEF n
      <4> QED BY <4>1, <4>2
    <3>2. ~(n <= Len(net[a][i])) /\ n - Len(net[a][i]) = 1
      BY <2>2
    <3> HIDE DEF n
    <3>3. net'[a][i][n] = <<Answer(p)>>[1]
      BY <3>1, <3>2
    <3> QED BY <3>3 DEF n
  <2> QED BY <2>1, <2>2, <2>3
<1>10. Phase(side'[a][i], side'[q][i], net'[a][i], net'[q][i], a)
  <2>1. Phase(side[a][i], "offered", net[a][i], net[q][i], a)
    BY <1>2, <1>5, <1>6
  <2>2. Phase(side[a][i], "established", net'[a][i], net[q][i], a)
    BY <1>8, <1>9, <2>1, ApprovePhase
  <2> QED BY <1>4, <1>6, <1>7, <2>2
<1> QED BY <1>3, <1>4, <1>5, <1>6, <1>7, <1>10, PhaseMoves

LEMMA AgreeHear ==
  ASSUME IInv, IInv', NEW p \in Picos, NEW i \in Ids, NEW k \in 1 .. Len(net[p][i]),
         addInboundPendingSubscription(p, i, k), AgreeAt(i), i \notin upset'
  PROVE  AgreeAt(i)'
<1>1. /\ TypeOK /\ OneBusPerChannel /\ RequestInv /\ net \in NetType
      /\ TypeOK' /\ OneBusPerChannel'
  BY TypeSplit DEF IInv, Sound, PromiseInv
<1>2. k \in Nat /\ Carries(net, p, i, k, Request)
  BY <1>1, LenType DEF addInboundPendingSubscription, Carries, Request
<1>3. side[p][i] = "none" /\ inbound[p][i] = 0 /\ established[p][i] = 0
  <2>1. chan[p][i] = "none" BY <1>1, <1>2, RequestSays
  <2> QED BY <1>1, <2>1, SideIff, OneBusAt
<1>4. PICK a \in Picos, q \in Picos :
        /\ Pair(a, q, i) /\ p \in {a, q}
        /\ Phase(side[a][i], side[q][i], net[a][i], net[q][i], a)
  <2>1. Len(net[p][i]) > 0 BY <1>1, NetAt
  <2> QED BY <2>1, Engaged
<1>5. p = q /\ side[q][i] = "none" /\ a # q /\ peer[a][i] = q
  BY <1>3, <1>4, PhaseSides DEF Pair
<1>6. /\ net[p][i][1] = net[p][i][k]
      /\ Advanced(net[p][i], Took(p, i, k)[p][i])
      /\ \A r \in Picos, j \in Ids : r # p \/ j # i => Took(p, i, k)[r][j] = net[r][j]
  <2>1. i \notin overtook(p, i, k) BY DEF addInboundPendingSubscription
  <2> QED BY <1>1, <2>1, TookHead
<1>7. net[a][i] \in Seq(Events) /\ net[q][i] \in Seq(Events) /\ Took(p, i, k) \in NetType
  BY <1>1, NetAt, TookType
<1>8. Took(p, i, k)[p][i] \in Seq(Events) BY <1>7 DEF NetType
<1>9. /\ net[p][i][k].from = a /\ Len(net[a][i]) = 0
      /\ Phase(side[a][i], "offered", net[a][i], Took(p, i, k)[p][i], a)
      /\ \A x \in Seq(Events) : OnlyAnswers(x) /\ Len(x) > 0 =>
           Phase(side[a][i], "established", x, Took(p, i, k)[p][i], a)
  <2>1. Phase(side[a][i], "none", net[a][i], net[q][i], a) BY <1>4, <1>5
  <2>2. /\ net[q][i][1] = Event(Request, a) /\ Len(net[a][i]) = 0
        /\ Phase(side[a][i], "offered", net[a][i], Took(p, i, k)[p][i], a)
        /\ \A x \in Seq(Events) : OnlyAnswers(x) /\ Len(x) > 0 =>
             Phase(side[a][i], "established", x, Took(p, i, k)[p][i], a)
    BY <1>5, <1>6, <1>7, <1>8, <2>1, HearPhase
  <2> QED BY <1>5, <1>6, <2>2 DEF Event
<1>10. /\ peer'[p][i] = a /\ Elsewhere(p, {i})
       /\ Gains(p, i, 0, 1, 0) \/ Gains(p, i, 0, 0, 1)
  <2>1. /\ Elsewhere(p, {i}) /\ peer'[p][i] = net[p][i][k].from
        /\ \/ Gains(p, i, 0, 1, 0) /\ approver' = approver
           \/ Gains(p, i, 0, 0, 1) /\ approver' = [approver EXCEPT ![i] = p]
    <3>1. TypeOK
      BY <1>1
    <3> QED BY <3>1, HearMoves, ZenonT(30)
  <2> QED BY <1>9, <2>1, Zenon
<1>11. \A r \in Picos : r # p => side'[r][i] = side[r][i] /\ peer'[r][i] = peer[r][i]
  BY <1>10, SidesElsewhere
<1>12. CASE UNCHANGED established /\ net' = Took(p, i, k)
  <2>1. inbound'[p][i] > 0 BY <1>3, <1>10, <1>12 DEF Gains
  <2>2. side'[p][i] = "offered" BY <1>1, <2>1, SideNext
  <2>3. Phase(side'[a][i], side'[q][i], net'[a][i], net'[q][i], a)
    BY <1>5, <1>6, <1>9, <1>11, <1>12, <2>2
  <2> QED BY <1>4, <1>5, <1>6, <1>10, <1>11, <1>12, <2>3, PhaseMoves
<1>13. CASE UNCHANGED inbound /\ net' = SendTo(Took(p, i, k), a, i, AutoAnswers(p))
  <2>1. established'[p][i] > 0 BY <1>3, <1>10, <1>13 DEF Gains
  <2>2. side'[p][i] = "established" BY <1>1, <2>1, SideNext
  <2>3. /\ Grown(Took(p, i, k)[a][i], net'[a][i], AutoAnswers(p))
        /\ \A r \in Picos, j \in Ids : r # a \/ j # i => net'[r][j] = Took(p, i, k)[r][j]
    BY <1>7, <1>13, SendGrows, AnswerType
  <2>4. Took(p, i, k)[a][i] = net[a][i] /\ net'[a][i] \in Seq(Events)
    BY <1>5, <1>6, <1>1, NetAt, TypeSplitNext DEF NetType
  <2>5. OnlyAnswers(net'[a][i]) /\ Len(net'[a][i]) > 0
    <3>1. Len(AutoAnswers(p)) = 4 /\ \A m \in 1 .. 4 : AutoAnswers(p)[m].kind = Approval
      BY DEF AutoAnswers, Answer, Event, Approval
    <3>2. /\ Len(net'[a][i]) = 4
          /\ \A m \in 1 .. 4 : net'[a][i][m] = AutoAnswers(p)[m]
      <4> DEFINE sent == AutoAnswers(p)
      <4>1. Len(sent) = 4 /\ Grown(net[a][i], net'[a][i], sent) BY <2>3, <2>4, <3>1
      <4> HIDE DEF sent
      <4>2. Len(net'[a][i]) = 4 BY <1>9, <4>1 DEF Grown
      <4>3. \A m \in 1 .. 4 : net'[a][i][m] = sent[m]
        BY <1>9, <4>1, <4>2 DEF Grown
      <4> QED BY <4>2, <4>3 DEF sent
    <3> QED BY <3>1, <3>2 DEF OnlyAnswers
  <2>6. Phase(side'[a][i], side'[q][i], net'[a][i], net'[q][i], a)
    BY <1>5, <1>9, <1>11, <2>2, <2>3, <2>4, <2>5
  <2> QED BY <1>4, <1>5, <1>6, <1>10, <1>11, <2>3, <2>6, PhaseMoves
<1> QED BY <1>9, <1>12, <1>13 DEF addInboundPendingSubscription

LEMMA TookUntouched ==
  ASSUME TypeOK, NEW p \in Picos, NEW i \in Ids, NEW k \in 1 .. Len(net[p][i]),
         net' = Took(p, i, k), Elsewhere(p, {i})
  PROVE  \A j \in Ids : j # i => Untouched(j)
<1>1. \A r \in Picos, j \in Ids : j # i => Took(p, i, k)[r][j] = net[r][j]
  BY DEF Took, TypeOK
<1>2. \A j \in Ids : j # i => \A r \in Picos :
        side'[r][j] = side[r][j] /\ peer'[r][j] = peer[r][j]
  BY SidesElsewhere
<1> QED BY <1>1, <1>2 DEF Untouched

LEMMA HearUntouched ==
  ASSUME IInv, NEW p \in Picos, NEW i \in Ids, NEW k \in 1 .. Len(net[p][i]),
         addInboundPendingSubscription(p, i, k)
  PROVE  \A j \in Ids : j # i => Untouched(j)
<1>1. TypeOK /\ Elsewhere(p, {i}) BY HearMoves DEF IInv
<1>2. \A r \in Picos, j \in Ids : j # i => Took(p, i, k)[r][j] = net[r][j]
  BY <1>1 DEF Took, TypeOK
<1>3. \A r \in Picos, j \in Ids : j # i => net'[r][j] = net[r][j]
  <2>1. Took(p, i, k) \in NetType BY <1>1, TookType
  <2>2. \A q, events : \A r \in Picos, j \in Ids : j # i =>
          SendTo(Took(p, i, k), q, i, events)[r][j] = Took(p, i, k)[r][j]
    BY <2>1 DEF SendTo, NetType
  <2>3. \/ net' = Took(p, i, k)
        \/ net' = SendTo(Took(p, i, k), net[p][i][k].from, i, AutoAnswers(p))
    BY DEF addInboundPendingSubscription
  <2> QED BY <1>2, <2>2, <2>3
<1>4. \A j \in Ids : j # i => \A r \in Picos :
        side'[r][j] = side[r][j] /\ peer'[r][j] = peer[r][j]
  BY <1>1, SidesElsewhere
<1> QED BY <1>3, <1>4 DEF Untouched

LEMMA AgreeConfirm ==
  ASSUME IInv, IInv', NEW p \in Picos, NEW i \in Ids, NEW k \in 1 .. Len(net[p][i]),
         addOutboundSubscription(p, i, k), AgreeAt(i), i \notin upset'
  PROVE  AgreeAt(i)'
<1>1. /\ TypeOK /\ OneBusPerChannel /\ net \in NetType /\ TypeOK' /\ OneBusPerChannel'
      /\ net' = Took(p, i, k) /\ net[p][i][k].kind = Approval /\ i \notin overtook(p, i, k)
  BY TypeSplit DEF IInv, Sound, addOutboundSubscription, Approval
<1>2. /\ Elsewhere(p, {i}) /\ peer' = peer
      /\ \/ outbound[p][i] > 0 /\ Gains(p, i, -1, 0, 1)
         \/ UNCHANGED <<outbound, inbound, established, chan>> /\ outbound[p][i] = 0
  <2>1. CASE outbound[p][i] > 0
    <3>1. /\ outbound' = Fewer(outbound, p, i) /\ established' = More(established, p, i)
          /\ inbound' = inbound
      BY <2>1 DEF addOutboundSubscription, Fewer, More
    <3>2. outbound \in Lists /\ established \in Lists BY <1>1, TypeSplit DEF RestType
    <3>3. Gains(p, i, -1, 0, 1) BY <1>1, <3>1, <3>2, FewerAt, MoreAt, ListAt DEF Gains
    <3> QED BY <1>1, <2>1, <3>3, ConfirmMoves
  <2>2. CASE outbound[p][i] = 0
    <3>1. Elsewhere(p, {i}) /\ peer' = peer BY <1>1, ConfirmMoves
    <3>2. UNCHANGED <<outbound, inbound, established, chan>>
      BY <2>2 DEF addOutboundSubscription
    <3> QED BY <2>2, <3>1, <3>2
  <2> QED BY <1>1, <2>1, <2>2, ListAt
<1>3. side'[p][i] = IF side[p][i] = "asked" THEN "established" ELSE side[p][i]
  <2>1. CASE outbound[p][i] > 0 /\ Gains(p, i, -1, 0, 1)
    <3>1. established[p][i] \in Nat BY <1>1, ListAt
    <3>2. established'[p][i] > 0 BY <2>1, <3>1 DEF Gains
    <3> QED BY <1>1, <2>1, <3>2, SideNext, SideNow
  <2>2. CASE UNCHANGED <<outbound, inbound, established, chan>> /\ outbound[p][i] = 0
    <3>1. side' = side BY <2>2, SideSame
    <3>2. side[p][i] # "asked" BY <1>1, <2>2, SideIff
    <3> QED BY <3>1, <3>2
  <2> QED BY <1>2, <2>1, <2>2
<1>4. \A r \in Picos : r # p => side'[r][i] = side[r][i]
  BY <1>2, SidesElsewhere
<1>5. /\ net[p][i][1].kind = Approval /\ Advanced(net[p][i], net'[p][i])
      /\ \A r \in Picos : r # p => net'[r][i] = net[r][i]
  BY <1>1, TookHead
<1>6. Len(net[p][i]) > 0 BY <1>1, NetAt
<1>7. PICK a \in Picos, q \in Picos :
        /\ Pair(a, q, i) /\ p \in {a, q}
        /\ Phase(side[a][i], side[q][i], net[a][i], net[q][i], a)
  BY <1>6, Engaged
<1>8. /\ a # q /\ peer[a][i] = q /\ (side[q][i] # "none" => peer[q][i] = a)
      /\ net[a][i] \in Seq(Events) /\ net[q][i] \in Seq(Events) /\ net'[p][i] \in Seq(Events)
  BY <1>1, <1>7, NetAt, TypeSplitNext DEF Pair, NetType
<1>9. Phase(side'[a][i], side'[q][i], net'[a][i], net'[q][i], a) /\ (p = q => side[q][i] # "none")
  <2>1. CASE p = a
    <3>1. Phase(IF side[a][i] = "asked" THEN "established" ELSE side[a][i],
                side[q][i], net'[a][i], net[q][i], a)
      BY <1>5, <1>7, <1>8, <2>1, ConfirmPhase
    <3> QED BY <1>3, <1>4, <1>5, <1>8, <2>1, <3>1
  <2>2. CASE p = q
    <3>1. side[a][i] = "ended" /\ side[q][i] = "ended"
      BY <1>5, <1>6, <1>7, <1>8, <2>2, HeadOfAsked DEF Approval, Request
    <3>2. side'[a][i] = "ended" /\ side'[q][i] = "ended"
      BY <1>3, <1>4, <1>8, <2>2, <3>1
    <3> QED BY <3>1, <3>2, PhaseOver
  <2> QED BY <1>7, <2>1, <2>2
<1>10. side'[q][i] # "none" => side[q][i] # "none"
  BY <1>4, <1>7, <1>8, <1>9
<1> QED BY <1>2, <1>4, <1>5, <1>7, <1>8, <1>9, <1>10, PhaseMoves

\* A removal ends the side that it names, and finds nothing to remove otherwise.
Hits(kind, s) ==
  \/ kind = "inbound_removal" /\ s = "offered"
  \/ kind = "outbound_removal" /\ s = "asked"
  \/ kind = "established_removal" /\ s = "established"

LEMMA RemovedEffect ==
  ASSUME IInv, IInv', NEW p \in Picos, NEW i \in Ids, NEW k \in 1 .. Len(net[p][i]),
         removeInbound(p, i, k) \/ removeOutbound(p, i, k) \/ removeEstablished(p, i, k)
  PROVE  /\ net' = Took(p, i, k) /\ peer' = peer /\ Elsewhere(p, {i})
         /\ net[p][i][k].kind \in Removal
         /\ overtook(p, i, k) \subseteq upset'
         /\ net[p][i][k].kind = "inbound_removal" /\ side[p][i] = "established" => i \in upset'
         /\ side'[p][i] = IF Hits(net[p][i][k].kind, side[p][i]) THEN "ended" ELSE side[p][i]
<1>1. TypeOK /\ OneBusPerChannel /\ TypeOK' /\ OneBusPerChannel' BY DEF IInv, Sound
<1>2. peer' = peer /\ Elsewhere(p, {i}) BY <1>1, RemovedMoves
<1>3. /\ net' = Took(p, i, k) /\ overtook(p, i, k) \subseteq upset'
      /\ net[p][i][k].kind \in Removal
  BY DEF removeInbound, removeOutbound, removeEstablished, Removal
<1>4. net[p][i][k].kind = "inbound_removal" /\ side[p][i] = "established" => i \in upset'
  <2>1. side[p][i] = "established" => established[p][i] > 0 BY <1>1, SideIff
  <2> QED BY <2>1 DEF removeInbound, removeOutbound, removeEstablished
<1>5. chan \in Chans BY TypeSplit DEF IInv, RestType
<1>6. chan' = [chan EXCEPT ![p][i] = "deleted"] => side'[p][i] = "ended"
  <2>1. chan' = [chan EXCEPT ![p][i] = "deleted"] => chan'[p][i] = "deleted"
    BY <1>5 DEF Chans
  <2> QED BY <1>1, <2>1, SideNext
<1>7. outbound[p][i] \in Nat /\ inbound[p][i] \in Nat /\ established[p][i] \in Nat
  BY <1>1, ListAt
<1>8. CASE removeInbound(p, i, k)
  <2>1. CASE inbound[p][i] > 0 /\ chan' = [chan EXCEPT ![p][i] = "deleted"]
    <3>1. Hits(net[p][i][k].kind, side[p][i])
      BY <1>1, <1>8, <2>1, SideIff DEF Hits, removeInbound
    <3> QED BY <1>2, <1>3, <1>4, <1>6, <2>1, <3>1
  <2>2. CASE inbound[p][i] = 0 /\ UNCHANGED <<inbound, chan>>
    <3>1. ~Hits(net[p][i][k].kind, side[p][i])
      BY <1>1, <1>8, <2>2, SideIff DEF Hits, removeInbound
    <3>2. side'[p][i] = side[p][i] BY <1>8, <2>2, SideSame DEF removeInbound
    <3> QED BY <1>2, <1>3, <1>4, <3>1, <3>2
  <2> QED BY <1>8, <2>1, <2>2 DEF removeInbound, Removed
<1>9. CASE removeOutbound(p, i, k)
  <2>1. CASE outbound[p][i] > 0 /\ chan' = [chan EXCEPT ![p][i] = "deleted"]
    <3>1. Hits(net[p][i][k].kind, side[p][i])
      BY <1>1, <1>9, <2>1, SideIff DEF Hits, removeOutbound
    <3> QED BY <1>2, <1>3, <1>4, <1>6, <2>1, <3>1
  <2>2. CASE outbound[p][i] = 0 /\ UNCHANGED <<outbound, chan>>
    <3>1. ~Hits(net[p][i][k].kind, side[p][i])
      BY <1>1, <1>9, <2>2, SideIff DEF Hits, removeOutbound
    <3>2. side'[p][i] = side[p][i] BY <1>9, <2>2, SideSame DEF removeOutbound
    <3> QED BY <1>2, <1>3, <1>4, <3>1, <3>2
  <2> QED BY <1>9, <2>1, <2>2 DEF removeOutbound, Removed
<1>10. CASE removeEstablished(p, i, k)
  <2>1. CASE established[p][i] > 0 /\ chan' = [chan EXCEPT ![p][i] = "deleted"]
    <3>1. Hits(net[p][i][k].kind, side[p][i])
      BY <1>1, <1>10, <2>1, SideIff DEF Hits, removeEstablished
    <3> QED BY <1>2, <1>3, <1>4, <1>6, <2>1, <3>1
  <2>2. CASE established[p][i] = 0 /\ UNCHANGED <<established, chan>>
    <3>1. ~Hits(net[p][i][k].kind, side[p][i])
      BY <1>1, <1>10, <2>2, SideIff DEF Hits, removeEstablished
    <3>2. side'[p][i] = side[p][i] BY <1>10, <2>2, SideSame DEF removeEstablished
    <3> QED BY <1>2, <1>3, <1>4, <3>1, <3>2
  <2> QED BY <1>10, <2>1, <2>2 DEF removeEstablished, Removed
<1> QED BY <1>8, <1>9, <1>10

LEMMA AgreeRemoved ==
  ASSUME IInv, IInv', NEW p \in Picos, NEW i \in Ids, NEW k \in 1 .. Len(net[p][i]),
         removeInbound(p, i, k) \/ removeOutbound(p, i, k) \/ removeEstablished(p, i, k),
         AgreeAt(i), i \notin upset'
  PROVE  AgreeAt(i)'
<1>1. /\ net \in NetType /\ net' \in NetType /\ net' = Took(p, i, k) /\ peer' = peer
      /\ Elsewhere(p, {i}) /\ net[p][i][k].kind \in Removal
      /\ i \notin overtook(p, i, k)
      /\ ~(net[p][i][k].kind = "inbound_removal" /\ side[p][i] = "established")
      /\ side'[p][i] = IF Hits(net[p][i][k].kind, side[p][i]) THEN "ended" ELSE side[p][i]
  <2>1. net \in NetType /\ net' \in NetType BY TypeSplit, TypeSplitNext DEF IInv
  <2> QED BY <2>1, RemovedEffect
<1>2. \A r \in Picos : r # p => side'[r][i] = side[r][i]
  BY <1>1, SidesElsewhere
<1>3. /\ net[p][i][1] = net[p][i][k] /\ Advanced(net[p][i], net'[p][i])
      /\ \A r \in Picos : r # p => net'[r][i] = net[r][i]
  BY <1>1, TookHead
<1>4. Len(net[p][i]) > 0 BY <1>1, NetAt
<1>5. PICK a \in Picos, q \in Picos :
        /\ Pair(a, q, i) /\ p \in {a, q}
        /\ Phase(side[a][i], side[q][i], net[a][i], net[q][i], a)
  BY <1>4, Engaged
<1>6. /\ a # q /\ peer[a][i] = q /\ (side[q][i] # "none" => peer[q][i] = a)
      /\ net[a][i] \in Seq(Events) /\ net[q][i] \in Seq(Events)
  BY <1>1, <1>5, NetAt DEF Pair
<1>7. side'[a][i] = "ended" /\ side'[q][i] = "ended" /\ side[q][i] # "none"
  <2>1. CASE p = a
    <3>1. /\ side[q][i] = "ended"
          /\ \/ side[a][i] = "ended"
             \/ side[a][i] = "asked" /\ net[a][i][1].kind = "outbound_removal"
             \/ side[a][i] = "established" /\ net[a][i][1].kind = "established_removal"
      BY <1>1, <1>3, <1>4, <1>5, <1>6, <2>1, HeadOfAsker
    <3> QED BY <1>1, <1>2, <1>3, <1>6, <2>1, <3>1 DEF Hits
  <2>2. CASE p = q
    <3>1. net[q][i][1].kind # Request BY <1>1, <1>3, <2>2 DEF Removal, Request
    <3>2. /\ side[a][i] = "ended" /\ side[q][i] \in {"offered", "established", "ended"}
          /\ side[q][i] = "offered" => net[q][i][1].kind = "inbound_removal"
          /\ side[q][i] = "established" =>
               net[q][i][1].kind \in {"inbound_removal", "established_removal"}
      BY <1>4, <1>5, <1>6, <2>2, <3>1, HeadOfAsked
    <3> QED BY <1>1, <1>2, <1>3, <1>6, <2>2, <3>2 DEF Hits
  <2> QED BY <1>5, <2>1, <2>2
<1>8. Phase(side'[a][i], side'[q][i], net'[a][i], net'[q][i], a)
  BY <1>7, PhaseOver
<1> QED BY <1>1, <1>2, <1>3, <1>5, <1>6, <1>7, <1>8, PhaseMoves

LEMMA DropEffect ==
  ASSUME IInv, IInv', NEW p \in Picos, NEW I, Drop(p, I)
  PROVE  /\ I \subseteq Ids /\ peer' = peer
         /\ \A r \in Picos, j \in Ids :
              side'[r][j] = IF r = p /\ j \in I THEN "ended" ELSE side[r][j]
         /\ \A r \in Picos, j \in Ids :
              net'[r][j] = IF j \in I /\ peer[p][j] = r
                           THEN Append(net[r][j], Event(notice(p, j), p)) ELSE net[r][j]
         /\ \A j \in I : /\ side[p][j] \in {"asked", "offered", "established"}
                         /\ notice(p, j) = CASE side[p][j] = "asked" -> "inbound_removal"
                                             [] side[p][j] = "offered" -> "outbound_removal"
                                             [] OTHER -> "established_removal"
<1>1. TypeOK /\ OneBusPerChannel BY DEF IInv, Sound
<1>2. /\ I \subseteq Ids /\ peer' = peer
      /\ side' = [side EXCEPT ![p] = [i \in Ids |-> IF i \in I THEN "ended" ELSE @[i]]]
      /\ \A j \in I : side[p][j] \in {"asked", "offered", "established"}
  BY DropStep DEF Promise!End, Drop
<1>3. \A r \in Picos, j \in Ids :
        side'[r][j] = IF r = p /\ j \in I THEN "ended" ELSE side[r][j]
  BY <1>2, SideFunction
<1>4. \A r \in Picos, j \in Ids :
        net'[r][j] = IF j \in I /\ peer[p][j] = r
                     THEN Append(net[r][j], Event(notice(p, j), p)) ELSE net[r][j]
  BY DEF Drop
<1>5. \A j \in I : notice(p, j) = CASE side[p][j] = "asked" -> "inbound_removal"
                                    [] side[p][j] = "offered" -> "outbound_removal"
                                    [] OTHER -> "established_removal"
  BY <1>1, <1>2, SideIff DEF notice
<1> QED BY <1>2, <1>3, <1>4, <1>5

LEMMA AppendGrows ==
  ASSUME NEW s \in Seq(Events), NEW e \in Events
  PROVE  Grown(s, Append(s, e), <<e>>)
BY DEF Grown

LEMMA AgreeDrop ==
  ASSUME IInv, IInv', NEW p \in Picos, NEW I, Drop(p, I), NEW i \in Ids, AgreeAt(i)
  PROVE  AgreeAt(i)'
<1>1. /\ net \in NetType /\ net' \in NetType /\ peer' = peer
      /\ \A r \in Picos, j \in Ids :
           side'[r][j] = IF r = p /\ j \in I THEN "ended" ELSE side[r][j]
      /\ \A r \in Picos, j \in Ids :
           net'[r][j] = IF j \in I /\ peer[p][j] = r
                        THEN Append(net[r][j], Event(notice(p, j), p)) ELSE net[r][j]
  BY DropEffect, TypeSplit, TypeSplitNext DEF IInv
<1>2. CASE i \notin I
  <2>1. Untouched(i) BY <1>1, <1>2 DEF Untouched
  <2> QED BY <2>1, UntouchedAgree
<1>3. CASE i \in I
  <2> DEFINE e == Event(notice(p, i), p)
  <2>1. /\ side[p][i] \in {"asked", "offered", "established"} /\ e \in Events
        /\ e.kind = CASE side[p][i] = "asked" -> "inbound_removal"
                      [] side[p][i] = "offered" -> "outbound_removal"
                      [] OTHER -> "established_removal"
    <3>1. e.kind = notice(p, i) BY DEF Event
    <3> HIDE DEF e
    <3>2. e \in Events BY NoticeType DEF e
    <3> QED BY <1>3, <3>1, <3>2, DropEffect
  <2>2. PICK a \in Picos, q \in Picos :
          /\ Pair(a, q, i) /\ p \in {a, q}
          /\ Phase(side[a][i], side[q][i], net[a][i], net[q][i], a)
    BY <2>1, Engaged
  <2>3. /\ a # q /\ peer[a][i] = q /\ (side[q][i] # "none" => peer[q][i] = a)
        /\ net[a][i] \in Seq(Events) /\ net[q][i] \in Seq(Events)
        /\ net'[a][i] \in Seq(Events) /\ net'[q][i] \in Seq(Events)
    BY <1>1, <2>2, NetAt DEF Pair, NetType
  <2> HIDE DEF e
  <2>4. \/ /\ side[q][i] # "none"
           /\ Phase(side'[a][i], side'[q][i], net'[a][i], net'[q][i], a)
        \/ p = a
    <3>1. CASE p = q
      <4>1. side[q][i] \in {"offered", "established"} /\ peer[q][i] = a
        BY <2>1, <2>2, <2>3, <3>1, PhaseSides
      <4>2. Grown(net[a][i], net'[a][i], <<e>>)
        BY <1>1, <1>3, <2>1, <2>3, <3>1, <4>1, AppendGrows DEF e
      <4>3. e.kind = IF side[q][i] = "offered" THEN "outbound_removal" ELSE "established_removal"
        BY <2>1, <3>1, <4>1
      <4>4. Phase(side[a][i], "ended", net'[a][i], net[q][i], a)
        BY <2>2, <2>3, <4>1, <4>2, <4>3, AskedEnds
      <4>5. side'[a][i] = side[a][i] /\ side'[q][i] = "ended" /\ net'[q][i] = net[q][i]
        BY <1>1, <1>3, <2>3, <3>1, <4>1
      <4> QED BY <4>1, <4>4, <4>5
    <3> QED BY <2>2, <3>1
  <2>5. p = a => Phase(side'[a][i], side'[q][i], net'[a][i], net'[q][i], a)
    <3>1. SUFFICES ASSUME p = a
                   PROVE  Phase(side'[a][i], side'[q][i], net'[a][i], net'[q][i], a)
      OBVIOUS
    <3>2. side[a][i] \in {"asked", "established"}
      BY <2>1, <2>2, <3>1, PhaseSides
    <3>3. Grown(net[q][i], net'[q][i], <<e>>)
      BY <1>1, <1>3, <2>1, <2>3, <3>1, AppendGrows DEF e
    <3>4. e.kind = IF side[a][i] = "asked" THEN "inbound_removal" ELSE "established_removal"
      BY <2>1, <3>1, <3>2
    <3>5. Phase("ended", side[q][i], net[a][i], net'[q][i], a)
      BY <2>2, <2>3, <3>2, <3>3, <3>4, AskerEnds
    <3>6. side'[q][i] = side[q][i] /\ side'[a][i] = "ended" /\ net'[a][i] = net[a][i]
      BY <1>1, <1>3, <2>3, <3>1
    <3> QED BY <3>5, <3>6
  <2>6. side'[q][i] # "none" => side[q][i] # "none"
    BY <1>1, <2>3, <2>4
  <2>7. \A r \in Picos : r # a /\ r # q =>
          side'[r][i] = side[r][i] /\ net'[r][i] = net[r][i]
    <3>1. peer[p][i] \in {a, q}
      <4>1. p = q => side[q][i] # "none" BY <2>1
      <4> QED BY <2>2, <2>3, <4>1
    <3> QED BY <1>1, <2>2, <3>1
  <2> QED BY <1>1, <2>2, <2>3, <2>4, <2>5, <2>6, <2>7, PhaseMoves
<1> QED BY <1>2, <1>3

\* The invariant holds of a relationship that no event about was lost or overtaken.
LEMMA AgreeNext ==
  ASSUME IInv, IInv', AgreeInv, [Next]_vars
  PROVE  AgreeInv'
<1> SUFFICES ASSUME NEW j \in Ids, j \notin upset' PROVE AgreeAt(j)'
  BY DEF AgreeInv
<1>1. TypeOK /\ net \in NetType BY TypeSplit DEF IInv
<1>2. upset \subseteq upset' => AgreeAt(j) BY DEF AgreeInv
<1>3. UNCHANGED <<side, peer>> /\ (\A r \in Picos : net'[r][j] = net[r][j]) /\ AgreeAt(j)
        => AgreeAt(j)'
  BY UntouchedAgree DEF Untouched
<1>4. ASSUME NEW p \in Picos, NEW q \in Picos, NEW i \in Ids, createRxBus(p, q, i)
      PROVE  AgreeAt(j)'
  <2>1. AgreeAt(j) BY <1>2, <1>4 DEF createRxBus
  <2>2. CASE j = i BY <1>4, <2>1, <2>2, AgreeAsk
  <2>3. CASE j # i
    <3>1. Untouched(j)
      <4>1. /\ net' = SendTo(net, q, i, <<Event("new_subscription_request", p)>>)
            /\ Elsewhere(p, {i})
        BY <1>1, <1>4, AskMoves DEF createRxBus
      <4>2. \A r \in Picos : net'[r][j] = net[r][j]
        BY <1>1, <2>3, <4>1 DEF SendTo, NetType
      <4> QED BY <2>3, <4>1, <4>2, SidesElsewhere DEF Untouched
    <3> QED BY <2>1, <3>1, UntouchedAgree
  <2> QED BY <2>2, <2>3
<1>5. ASSUME NEW p \in Picos, NEW i \in Ids, approveInboundPendingSubscription(p, i)
      PROVE  AgreeAt(j)'
  <2>1. AgreeAt(j) BY <1>2, <1>5 DEF approveInboundPendingSubscription
  <2>2. CASE j = i BY <1>5, <2>1, <2>2, AgreeApprove
  <2>3. CASE j # i
    <3>1. Untouched(j)
      <4>1. /\ net' = SendTo(net, peer[p][i], i, <<Answer(p)>>)
            /\ Elsewhere(p, {i})
        BY <1>1, <1>5, ApproveMoves DEF approveInboundPendingSubscription
      <4>2. \A r \in Picos : net'[r][j] = net[r][j]
        BY <1>1, <2>3, <4>1 DEF SendTo, NetType
      <4> QED BY <2>3, <4>1, <4>2, SidesElsewhere DEF Untouched
    <3> QED BY <2>1, <3>1, UntouchedAgree
  <2> QED BY <2>2, <2>3
<1>6. ASSUME NEW p \in Picos, NEW I, Drop(p, I) PROVE AgreeAt(j)'
  BY <1>2, <1>6, AgreeDrop DEF Drop
<1>7. ASSUME NEW p \in Picos, NEW i \in Ids, NEW k \in 1 .. Len(net[p][i]), Receive(p, i, k)
      PROVE  AgreeAt(j)'
  <2>1. AgreeAt(j)
    BY <1>2, <1>7 DEF Receive, addInboundPendingSubscription, addOutboundSubscription,
                      removeInbound, removeOutbound, removeEstablished
  <2>2. CASE j = i BY <1>7, <2>1, <2>2, AgreeHear, AgreeConfirm, AgreeRemoved DEF Receive
  <2>3. CASE j # i
    <3>1. \/ addInboundPendingSubscription(p, i, k)
          \/ net' = Took(p, i, k) /\ Elsewhere(p, {i})
      BY <1>1, <1>7, ConfirmMoves, RemovedEffect DEF Receive, addOutboundSubscription
    <3>2. Untouched(j) BY <1>1, <2>3, <3>1, HearUntouched, TookUntouched
    <3> QED BY <2>1, <3>2, UntouchedAgree
  <2> QED BY <2>2, <2>3
<1>8. ASSUME NEW p \in Picos, NEW i \in Ids, NEW k \in 1 .. Len(net[p][i]), Lose(p, i, k)
      PROVE  AgreeAt(j)'
  <2>1. AgreeAt(j) /\ j # i BY <1>2, <1>8 DEF Lose
  <2>2. \A r \in Picos : net'[r][j] = net[r][j]
    BY <1>1, <1>8, <2>1 DEF Lose, Took, NetType
  <2>3. UNCHANGED <<side, peer>> BY <1>8, SideSame DEF Lose, lists
  <2> QED BY <1>3, <2>1, <2>2, <2>3
<1>9. ASSUME NEW h, Crash(h) PROVE AgreeAt(j)'
  <2>1. AgreeAt(j) BY <1>2, <1>9 DEF Crash
  <2>2. \A r \in Picos : net'[r][j] = net[r][j]
    BY <1>9 DEF Crash
  <2>3. UNCHANGED <<side, peer>> BY <1>9, SideSame DEF Crash, lists
  <2> QED BY <1>3, <2>1, <2>2, <2>3
<1>10. ASSUME NEW p \in Picos, autoAcceptConfigUpdate(p) PROVE AgreeAt(j)'
  <2>1. AgreeAt(j) /\ net' = net BY <1>2, <1>10 DEF autoAcceptConfigUpdate
  <2>2. UNCHANGED <<side, peer>> BY <1>10, SideSame DEF autoAcceptConfigUpdate, lists
  <2> QED BY <1>3, <2>1, <2>2
<1>11. CASE UNCHANGED vars
  <2>1. AgreeAt(j) /\ net' = net BY <1>2, <1>11 DEF vars
  <2>2. UNCHANGED <<side, peer>> BY <1>11, SideSame DEF vars, lists
  <2> QED BY <1>3, <2>1, <2>2
<1> QED BY <1>4, <1>5, <1>6, <1>7, <1>8, <1>9, <1>10, <1>11
         DEF Next, cancel, cancel_all_subscriptions

LEMMA AgreeInit ==
  ASSUME Init
  PROVE  AgreeInv
<1>1. \A p \in Picos, i \in Ids : side[p][i] = "none" /\ net[p][i] = << >>
  BY DEF Init, side
<1> QED BY <1>1 DEF AgreeInv, AgreeAt, Fresh

LEMMA Agrees ==
  ASSUME IInv, NEW i \in Ids, AgreeAt(i), Quiet(i)
  PROVE  Agree(i)
<1>1. TypeOK /\ OneBusPerChannel BY DEF IInv, Sound
<1>2. \A p \in Picos : Len(net[p][i]) = 0 BY DEF Quiet
<1> SUFFICES ASSUME NEW p \in Picos, chan[p][i] = "open"
             PROVE  \E r \in Picos \ {p} :
                      /\ peer[p][i] = r /\ peer[r][i] = p /\ chan[r][i] = "open"
                      /\ established[p][i] > 0 <=> established[r][i] > 0
  BY DEF Agree
<1>3. /\ side[p][i] \notin {"none", "ended"}
      /\ \A r \in Picos : side[r][i] = "established" <=> established[r][i] > 0
      /\ \A r \in Picos : side[r][i] \notin {"none", "ended"} => chan[r][i] = "open"
  <2>1. \A r \in Picos : chan[r][i] \in {"none", "open", "deleted"} BY <1>1, ListAt
  <2> QED BY <1>1, <2>1, SideIff
<1>4. PICK a \in Picos, q \in Picos :
        /\ Pair(a, q, i) /\ p \in {a, q}
        /\ Phase(side[a][i], side[q][i], net[a][i], net[q][i], a)
  BY <1>3, Engaged
<1>5. \/ side[a][i] = "asked" /\ side[q][i] = "offered"
      \/ side[a][i] = "established" /\ side[q][i] = "established"
      \/ side[a][i] = "ended" /\ side[q][i] = "ended"
  BY <1>2, <1>4 DEF Phase, Withdrawn
<1>6. side[a][i] # "ended" BY <1>3, <1>4, <1>5
<1>7. /\ a # q /\ peer[a][i] = q /\ peer[q][i] = a
      /\ chan[a][i] = "open" /\ chan[q][i] = "open"
      /\ established[a][i] > 0 <=> established[q][i] > 0
  BY <1>3, <1>4, <1>5, <1>6 DEF Pair
<1> QED BY <1>4, <1>7

\* When nothing is on its way two picos agree on their relationship, for any
\* picos, engines and crashes, unless an event about it was lost or overtaken or
\* a withdrawal met an approval.
THEOREM AgreeCorrect == Spec => []AgreeAtRest
<1>1. Init => AgreeInv BY AgreeInit
<1>2. IInv /\ IInv' /\ AgreeInv /\ [Next]_vars => AgreeInv' BY AgreeNext
<1>3. IInv /\ AgreeInv => AgreeAtRest BY Agrees DEF AgreeInv, AgreeAtRest
<1> QED BY <1>1, <1>2, <1>3, AlwaysInv, PTL DEF Spec
=============================================================================
