----------------------------- MODULE Subscription -----------------------------
(***************************************************************************)
(* ECI-based relationships between picos, io.picolabs.subscription: the     *)
(* request over the other pico's well-known channel, its approval by hand   *)
(* or by an auto-accept configuration, and its end from either side.        *)
(*                                                                          *)
(* One action is one transaction of one pico: an event and everything it    *)
(* raises.  Between picos of one engine events wait in the receiver's       *)
(* transaction queue, in order; between engines they are HTTP requests that *)
(* nobody waits for, so they overtake each other or get lost.  Events about *)
(* different relationships do not touch each other's state, so the order is *)
(* kept per receiver and relationship.                                      *)
(***************************************************************************)
EXTENDS Integers, Sequences, SequencesExt

CONSTANTS
  Picos,
  Ids,        \* relationship identifiers, fresh ones of random:uuid()
  NoPico,
  HostOf,     \* HostOf[p]: the engine that runs p
  MaxCrashes  \* bound of the number of engine crashes

ASSUME SubscriptionAssumption ==
  /\ NoPico \notin Picos
  /\ MaxCrashes \in Nat

VARIABLES
  outbound,     \* ent:outbound; outbound[p][i]: the number of p's buses with Id i
  inbound,      \* ent:inbound
  established,  \* ent:established
  peer,         \* peer[p][i]: the pico at the other end (wellKnown_Tx or Tx) of p's bus
  chan,         \* chan[p][i]: the Rx channel that p made for i
  net,          \* net[p][i]: events about i on their way to p
  auto,         \* picos whose autoAcceptConfig matches every request
  approver,     \* history: the pico that approved i
  upset,        \* history: relationships with a lost or overtaken event, or a
                \* withdrawal that arrived after the approval
  crashes

lists == <<outbound, inbound, established>>
vars == <<lists, peer, chan, net, auto, approver, upset, crashes>>

Kind == {"new_subscription_request", "outbound_pending_subscription_approved",
         "inbound_removal", "outbound_removal", "established_removal"}
Event(kind, from) == [kind |-> kind, from |-> from]
Events == [kind : Kind, from : Picos]

\* event:send of a sequence of events to q, each about i.
SendTo(n, q, i, events) == [n EXCEPT ![q][i] = @ \o events]

\* The k-th event on its way to p about i is the next that p may receive.
Arrives(p, i, k) ==
  /\ k \in 1 .. Len(net[p][i])
  /\ k = 1 \/ HostOf[net[p][i][k].from] # HostOf[p]

Took(p, i, k) == [net EXCEPT ![p][i] = RemoveAt(@, k)]
overtook(p, i, k) ==
  IF \E j \in 1 .. k - 1 : net[p][i][j] # net[p][i][k] THEN {i} ELSE {}

-----------------------------------------------------------------------------
(* Forming a relationship.                                                  *)

\* createRxBus and requestSubscription: p asks q.
createRxBus(p, q, i) ==
  /\ p # q
  /\ \A r \in Picos : chan[r][i] = "none"
  /\ outbound' = [outbound EXCEPT ![p][i] = @ + 1]
  /\ peer' = [peer EXCEPT ![p][i] = q]
  /\ chan' = [chan EXCEPT ![p][i] = "open"]
  /\ net' = SendTo(net, q, i, <<Event("new_subscription_request", p)>>)
  /\ UNCHANGED <<inbound, established, auto, approver, upset, crashes>>

\* Events raised in a transaction are run in the order in which they were raised:
\* both *_pending_*_added events run autoAccept and each raises both
\* pending_*_approval events, so an accepted request is answered four times.
AnswerMisnamed(p) ==  \* mutant: the API event of the approving pico
  Event("inbound_pending_subscription_approved", p)
Answer(p) == Event("outbound_pending_subscription_approved", p)
AutoAnswers(p) == <<Answer(p), Answer(p), Answer(p), Answer(p)>>

\* addInboundPendingSubscription and, where it matches, autoAccept with
\* approveInboundPendingSubscription and addInboundSubscription.
addInboundPendingSubscription(q, i, k) ==
  LET p == net[q][i][k].from IN
  /\ net[q][i][k].kind = "new_subscription_request"
  /\ peer' = [peer EXCEPT ![q][i] = p]
  /\ chan' = [chan EXCEPT ![q][i] = "open"]
  /\ \/ /\ q \notin auto
        /\ inbound' = [inbound EXCEPT ![q][i] = @ + 1]
        /\ net' = Took(q, i, k)
        /\ UNCHANGED <<established, approver>>
     \/ /\ q \in auto
        /\ established' = [established EXCEPT ![q][i] = @ + 1]
        /\ approver' = [approver EXCEPT ![i] = q]
        /\ net' = SendTo(Took(q, i, k), p, i, AutoAnswers(q))
        /\ UNCHANGED inbound
  /\ upset' = upset \union overtook(q, i, k)
  /\ UNCHANGED <<outbound, auto, crashes>>

\* approveInboundPendingSubscription and addInboundSubscription, by hand.
approveInboundPendingSubscription(q, i) ==
  /\ inbound[q][i] > 0
  /\ inbound' = [inbound EXCEPT ![q][i] = @ - 1]
  /\ established' = [established EXCEPT ![q][i] = @ + 1]
  /\ approver' = [approver EXCEPT ![i] = q]
  /\ net' = SendTo(net, peer[q][i], i, <<Answer(q)>>)
  /\ UNCHANGED <<outbound, peer, chan, auto, upset, crashes>>

addOutboundAnyway(p, i, k) ==  \* mutant: an answer counts although no bus waits
  /\ net[p][i][k].kind = "outbound_pending_subscription_approved"
  /\ outbound' = [outbound EXCEPT ![p][i] = 0]
  /\ established' = [established EXCEPT ![p][i] = @ + 1]
  /\ net' = Took(p, i, k)
  /\ upset' = upset \union overtook(p, i, k)
  /\ UNCHANGED <<inbound, peer, chan, auto, approver, crashes>>

\* addOutboundSubscription: only the first answer finds the bus in outbound.
addOutboundSubscription(p, i, k) ==
  /\ net[p][i][k].kind = "outbound_pending_subscription_approved"
  /\ \/ /\ outbound[p][i] > 0
        /\ outbound' = [outbound EXCEPT ![p][i] = @ - 1]
        /\ established' = [established EXCEPT ![p][i] = @ + 1]
     \/ /\ outbound[p][i] = 0
        /\ UNCHANGED <<outbound, established>>
  /\ net' = Took(p, i, k)
  /\ upset' = upset \union overtook(p, i, k)
  /\ UNCHANGED <<inbound, peer, chan, auto, approver, crashes>>

-----------------------------------------------------------------------------
(* Ending a relationship.                                                   *)

Held(p) == {i \in Ids : outbound[p][i] + inbound[p][i] + established[p][i] > 0}

noticeToAsker(p, i) ==  \* mutant: every pending bus is taken for an inbound one
  IF established[p][i] > 0 THEN "established_removal" ELSE "outbound_removal"

\* What cancelOutbound, cancelInbound and cancelEstablished send.
notice(p, i) ==
  CASE outbound[p][i] > 0 -> "inbound_removal"
    [] inbound[p][i] > 0 -> "outbound_removal"
    [] OTHER -> "established_removal"

droppedAlways(list, p, I) ==  \* mutant: no look at the index before splice
  [list EXCEPT ![p] = [i \in Ids |-> IF i \in I THEN @[i] - 1 ELSE @[i]]]

dropped(list, p, I) ==
  [list EXCEPT ![p] = [i \in Ids |-> IF i \in I /\ @[i] > 0 THEN @[i] - 1 ELSE @[i]]]

DropKept(p, I) ==  \* mutant of Drop: an established bus stays in its list
  /\ I # {} /\ I \subseteq Held(p)
  /\ outbound' = dropped(outbound, p, I)
  /\ inbound' = dropped(inbound, p, I)
  /\ chan' = [chan EXCEPT ![p] = [i \in Ids |-> IF i \in I THEN "deleted" ELSE @[i]]]
  /\ net' = [q \in Picos |-> [i \in Ids |->
       IF i \in I /\ peer[p][i] = q THEN Append(net[q][i], Event(notice(p, i), p))
       ELSE net[q][i]]]
  /\ UNCHANGED <<established, peer, auto, approver, upset, crashes>>

\* p tells the others and removes its own buses and channels: removeOutbound,
\* removeInbound and removeEstablished run on the event that p itself raises.
Drop(p, I) ==
  /\ I # {} /\ I \subseteq Held(p)
  /\ outbound' = dropped(outbound, p, I)
  /\ inbound' = dropped(inbound, p, I)
  /\ established' = dropped(established, p, I)
  /\ chan' = [chan EXCEPT ![p] = [i \in Ids |-> IF i \in I THEN "deleted" ELSE @[i]]]
  /\ net' = [q \in Picos |-> [i \in Ids |->
       IF i \in I /\ peer[p][i] = q THEN Append(net[q][i], Event(notice(p, i), p))
       ELSE net[q][i]]]
  /\ UNCHANGED <<peer, auto, approver, upset, crashes>>

cancel(p, i) == Drop(p, {i})

\* cancel_all_subscriptions.
cancel_all_subscriptions(p) == Drop(p, Held(p))

\* A removal by the other side finds the bus in the list it names, or nothing.
Removed(list, p, i) ==
  \/ /\ list[p][i] > 0
     /\ list' = [list EXCEPT ![p][i] = @ - 1]
     /\ chan' = [chan EXCEPT ![p][i] = "deleted"]
  \/ /\ list[p][i] = 0
     /\ UNCHANGED <<list, chan>>

removeInbound(p, i, k) ==
  /\ net[p][i][k].kind = "inbound_removal"
  /\ Removed(inbound, p, i)
  /\ net' = Took(p, i, k)
  /\ upset' = upset \union overtook(p, i, k)
                \union (IF established[p][i] > 0 THEN {i} ELSE {})
  /\ UNCHANGED <<outbound, established, peer, auto, approver, crashes>>

removeOutbound(p, i, k) ==
  /\ net[p][i][k].kind = "outbound_removal"
  /\ Removed(outbound, p, i)
  /\ net' = Took(p, i, k)
  /\ upset' = upset \union overtook(p, i, k)
  /\ UNCHANGED <<inbound, established, peer, auto, approver, crashes>>

removeEstablished(p, i, k) ==
  /\ net[p][i][k].kind = "established_removal"
  /\ Removed(established, p, i)
  /\ net' = Took(p, i, k)
  /\ upset' = upset \union overtook(p, i, k)
  /\ UNCHANGED <<outbound, inbound, peer, auto, approver, crashes>>

-----------------------------------------------------------------------------

autoAcceptConfigUpdate(p) ==
  /\ auto' = IF p \in auto THEN auto \ {p} ELSE auto \union {p}
  /\ UNCHANGED <<lists, peer, chan, net, approver, upset, crashes>>

Receive(p, i, k) ==
  /\ Arrives(p, i, k)
  /\ \/ addInboundPendingSubscription(p, i, k)
     \/ addOutboundSubscription(p, i, k)
     \/ removeInbound(p, i, k)
     \/ removeOutbound(p, i, k)
     \/ removeEstablished(p, i, k)

\* A request between two engines fails; event:send only logs it.
Lose(p, i, k) ==
  /\ k \in 1 .. Len(net[p][i])
  /\ HostOf[net[p][i][k].from] # HostOf[p]
  /\ net' = Took(p, i, k)
  /\ upset' = upset \union {i}
  /\ UNCHANGED <<lists, peer, chan, auto, approver, crashes>>

\* An engine stops: the transaction queues of its picos are in memory only.
Queued(p, i) == Len(net[p][i]) > 0 /\ HostOf[net[p][i][1].from] = HostOf[p]

Crash(h) ==
  /\ crashes < MaxCrashes
  /\ crashes' = crashes + 1
  /\ net' = [p \in Picos |-> [i \in Ids |->
       IF HostOf[p] = h /\ Queued(p, i) THEN << >> ELSE net[p][i]]]
  /\ upset' = upset \union
       {i \in Ids : \E p \in Picos : HostOf[p] = h /\ Queued(p, i)}
  /\ UNCHANGED <<lists, peer, chan, auto, approver>>

Init ==
  /\ outbound = [p \in Picos |-> [i \in Ids |-> 0]]
  /\ inbound = outbound /\ established = outbound
  /\ peer = [p \in Picos |-> [i \in Ids |-> NoPico]]
  /\ chan = [p \in Picos |-> [i \in Ids |-> "none"]]
  /\ net = [p \in Picos |-> [i \in Ids |-> << >>]]
  /\ auto = {}
  /\ approver = [i \in Ids |-> NoPico]
  /\ upset = {}
  /\ crashes = 0

Next ==
  \/ \E p, q \in Picos, i \in Ids : createRxBus(p, q, i)
  \/ \E p \in Picos, i \in Ids : approveInboundPendingSubscription(p, i) \/ cancel(p, i)
  \/ \E p \in Picos : cancel_all_subscriptions(p) \/ autoAcceptConfigUpdate(p)
  \/ \E p \in Picos, i \in Ids : \E k \in 1 .. Len(net[p][i]) :
        Receive(p, i, k) \/ Lose(p, i, k)
  \/ \E p \in Picos : Crash(HostOf[p])

\* The oldest event on its way is received in the end, or lost.
Fairness == \A p \in Picos, i \in Ids : WF_vars(Receive(p, i, 1))

Spec == Init /\ [][Next]_vars
FairSpec == Spec /\ Fairness

-----------------------------------------------------------------------------
(* Properties.                                                              *)

\* Every variable has its type.
TypeOK ==
  /\ outbound \in [Picos -> [Ids -> Nat]]
  /\ inbound \in [Picos -> [Ids -> Nat]]
  /\ established \in [Picos -> [Ids -> Nat]]
  /\ peer \in [Picos -> [Ids -> Picos \union {NoPico}]]
  /\ chan \in [Picos -> [Ids -> {"none", "open", "deleted"}]]
  /\ net \in [Picos -> [Ids -> Seq(Events)]]
  /\ auto \subseteq Picos
  /\ approver \in [Ids -> Picos \union {NoPico}]
  /\ upset \subseteq Ids
  /\ crashes \in Nat

\* A relationship is in at most one of a pico's lists, once, and is there just
\* as long as its Rx channel exists, although an accepted request is answered
\* four times and the answers may arrive after the end.
OneBusPerChannel ==
  \A p \in Picos, i \in Ids :
    outbound[p][i] + inbound[p][i] + established[p][i]
      = IF chan[p][i] = "open" THEN 1 ELSE 0

Quiet(i) == \A p \in Picos : net[p][i] = << >>

\* The other end of an open relationship is open too, and both count it as
\* established or neither does.
Agree(i) ==
  \A p \in Picos : chan[p][i] = "open" =>
    \E q \in Picos \ {p} :
      /\ peer[p][i] = q /\ peer[q][i] = p /\ chan[q][i] = "open"
      /\ established[p][i] > 0 <=> established[q][i] > 0

\* When no event is on its way the two picos agree on the relationship, unless
\* an event was lost or overtaken or a withdrawal met an approval.
AgreeAtRest == \A i \in Ids \ upset : Quiet(i) => Agree(i)

\* An end reaches the other pico, under the same proviso.
EndReachesBoth ==
  \A p \in Picos, i \in Ids :
    chan[p][i] = "deleted" ~> i \in upset \/ \A q \in Picos : chan[q][i] # "open"

\* An approval reaches the pico that asked, unless either ends the relationship.
ApprovalReachesBoth ==
  \A p \in Picos, i \in Ids :
    established[p][i] > 0 ~>
      \/ i \in upset
      \/ \E q \in Picos : chan[q][i] = "deleted"
      \/ \A q \in Picos : chan[q][i] = "open" => established[q][i] > 0

\* Where p stands by its lists; a pico that made a channel is through once
\* no list holds the relationship.
side == [p \in Picos |-> [i \in Ids |->
  CASE established[p][i] > 0 -> "established"
    [] inbound[p][i] > 0 -> "offered"
    [] outbound[p][i] > 0 -> "asked"
    [] chan[p][i] = "none" -> "none"
    [] OTHER -> "ended"]]

\* Why the rules keep the promise.  A request on its way is the only one, and
\* only the pico that sent it has to do with the relationship; a pico with a
\* bus in inbound() is the only one, and nobody has approved; an answer on its
\* way was sent by the pico that approved, to another one.
Asks(q, i, k) == net[q][i][k].kind = "new_subscription_request"
Answers(p, i, k) == net[p][i][k].kind = "outbound_pending_subscription_approved"

Unanswered(i) == approver[i] = NoPico

RequestInv == \A q \in Picos, i \in Ids : \A k \in 1 .. Len(net[q][i]) : Asks(q, i, k) =>
  /\ Unanswered(i) /\ net[q][i][k].from # q /\ chan[net[q][i][k].from][i] # "none"
  /\ \A r \in Picos : inbound[r][i] = 0
  /\ \A r \in Picos \ {net[q][i][k].from} : chan[r][i] = "none"
  /\ \A r \in Picos : \A m \in 1 .. Len(net[r][i]) : Asks(r, i, m) => r = q /\ m = k

InboundInv == \A q \in Picos, i \in Ids : inbound[q][i] > 0 =>
  /\ Unanswered(i) /\ peer[q][i] \in Picos \ {q}
  /\ \A r \in Picos \ {q} : inbound[r][i] = 0

AnswerInv == \A p \in Picos, i \in Ids : \A k \in 1 .. Len(net[p][i]) :
  Answers(p, i, k) => approver[i] \notin {NoPico, p}

ApproverInv == \A i \in Ids :
  (\A r \in Picos : chan[r][i] = "none") => Unanswered(i)

PromiseInv == RequestInv /\ InboundInv /\ AnswerInv /\ ApproverInv

Promise == INSTANCE Relationship WITH
  Picos <- Picos, Ids <- Ids, NoPico <- NoPico, side <- side, approver <- approver

\* The rules implement the abstract relationship whatever is lost, overtaken or
\* repeated: nobody is established without the other's approval, and no late
\* answer revives a relationship that has ended.
KeepsPromise == Promise!Spec
=============================================================================
