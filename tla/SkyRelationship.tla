---------------------------- MODULE SkyRelationship ----------------------------
(***************************************************************************)
(* Layer 2 relationships: the rules of io.picolabs.subscription that act    *)
(* for buses marked layer2, and the identity service below them, which      *)
(* keeps a record with a pairwise did:peer on either side and carries the   *)
(* SKY messages.                                                            *)
(*                                                                          *)
(* Unlike the ECI-based rules these wait for each other: a transaction that *)
(* introduces, or tells of an end, stays open until the other pico has      *)
(* handled the event.  A pico runs one transaction at a time and queues the *)
(* rest.  In one mesh the events are handed over inside the engine; between *)
(* meshes they are DIDComm messages over HTTP, which may fail.              *)
(***************************************************************************)
EXTENDS Integers, Sequences

CONSTANTS
  Picos,
  Ids,       \* relationship identifiers, fresh ones of random:uuid()
  NoPico,
  Meshes,    \* of picos; each on an engine of its own
  Homes,     \* the placements of the picos to look at
  Requests,  \* who may ask whom for what: <<p, q, i>>, since p makes i up
  Repeats,   \* bound of the repeated responses, four in the code
  MaxFaults  \* bound of the number of failed requests and engine crashes

ASSUME SkyAssumption ==
  /\ NoPico \notin Picos
  /\ Homes \subseteq [Picos -> Meshes]
  /\ Repeats \in 1 .. 4
  /\ MaxFaults \in Nat

VARIABLES
  home,      \* home[p]: the mesh of p, which never changes
  list,      \* list[p][i]: which of ent:outbound, inbound, established holds i
  peer,      \* peer[p][i]: the pico at the other end, by did:webvh or did:peer
  record,    \* record[p][i]: p's peer subscription; linked once it names the peer's DID,
             \* anew if it was made again with a DID that the peer does not know
  txn,       \* txn[p]: the transaction that p is running
  queue,     \* queue[p]: events that wait for p's current transaction
  approver,  \* history: the pico that approved i
  upset,     \* history: relationships met by a failure, or by a withdrawal
             \* that found its request approved
  cut,       \* history: <<p, i>> where a failure came between the writes of p's
             \* record and of p's bus
  faults

vars == <<home, list, peer, record, txn, queue, approver, upset, cut, faults>>
buses == <<list, peer>>
history == <<home, approver, upset, cut, faults>>

Lists == {"none", "outbound", "inbound", "established", "ended"}
Kinds == {"sky_intro", "sky_intro_response", "inbound_removal",
          "outbound_removal", "established_removal"}

\* An event about i, and the pico whose transaction waits for it (pf.eventWait) or nobody.
Event(kind, i, caller) == [kind |-> kind, id |-> i, caller |-> caller]

\* A transaction: what it does, about all, the ids that still have to be told,
\* its next step, and the pico that waits for it.
Txn(do, I, at, caller) ==
  [do |-> do, all |-> I, left |-> I, at |-> at, caller |-> caller]
Idle == Txn("nothing", {}, "idle", NoPico)
About(p, i) == i \in txn[p].all

\* The transaction of a pico that has got its reply about i, or knows it failed.
AfterIntro(t) == Idle
AfterNotice(t, i) ==
  [t EXCEPT !.left = @ \ {i}, !.at = IF t.left = {i} THEN "remove" ELSE "send"]
AfterReply(t, i) == IF t.do = "ask" THEN AfterIntro(t) ELSE AfterNotice(t, i)

\* The transaction ts[p] is over and what waited for it goes on.
Over(ts, p, i) ==
  LET c == ts[p].caller
      done == [ts EXCEPT ![p] = Idle] IN
  IF c = NoPico THEN done ELSE [done EXCEPT ![c] = AfterReply(@, i)]

Away(p, i) == home[peer[p][i]] # home[p]

\* The transaction ts[p] fails, and with it one that waits for it, unless that is
\* of another mesh: there the removal is swallowed.
Failed(ts, p, i) ==
  LET c == ts[p].caller
      done == [ts EXCEPT ![p] = Idle] IN
  IF c = NoPico THEN done
  ELSE [done EXCEPT ![c] = IF Away(c, i) THEN AfterReply(@, i) ELSE Idle]

\* All that is left undone when txn becomes ts.
Undone(ts) == UNION {txn[r].all : r \in {r \in Picos : ts[r] = Idle}}

\* p's transaction is between the writes of its record and of its bus.
Between(p, i) == i \in txn[p].left /\ txn[p].at \in {"record", "splice"}

\* p takes the first event of its queue, one of these kinds.
Takes(p, kinds) ==
  /\ txn[p] = Idle
  /\ queue[p] # << >>
  /\ Head(queue[p]).kind \in kinds
Serving(p) == [txn EXCEPT ![p].caller = Head(queue[p]).caller]

Held(p) == {i \in Ids : list[p][i] \in {"outbound", "inbound", "established"}}

-----------------------------------------------------------------------------
(* Forming a relationship.                                                  *)

\* createRxBusLayer2: p asks q, and puts its bus into outbound().
Ask(p, q, i) ==
  /\ p # q /\ <<p, q, i>> \in Requests
  /\ txn[p] = Idle
  /\ \A r \in Picos : list[r][i] = "none"
  /\ list' = [list EXCEPT ![p][i] = "outbound"]
  /\ peer' = [peer EXCEPT ![p][i] = q]
  /\ txn' = [txn EXCEPT ![p] = Txn("ask", {i}, "record", NoPico)]
  /\ UNCHANGED <<record, queue, history>>

\* The record of a bus that has none, with a new did:peer.  sendLayer2Intro's names
\* q by its did:webvh only; establish_layer2_subscription_identity makes another
\* one where an end was cut off and the bus is established after all.
establishSubscriptionIdentity(p, i) ==
  /\ txn[p].at = "record" /\ i \in txn[p].left
  /\ IF txn[p].do = "ask"
     THEN /\ record' = [record EXCEPT ![p][i] = "half"]
          /\ txn' = [txn EXCEPT ![p].at = "send"]
     ELSE /\ record' = [record EXCEPT ![p][i] = "anew"]
          /\ txn' = Over(txn, p, i)
  /\ UNCHANGED <<buses, queue, history>>

\* handleSkyIntroAtIngress, outside q's transactions.  A pico that takes no
\* public introductions answers with an error, which ends the transaction.
Introduce(p, i) ==
  LET q == peer[p][i] IN
  /\ txn[p].do = "ask" /\ txn[p].at = "send" /\ i \in txn[p].left
  /\ \/ /\ txn' = [txn EXCEPT ![p] = AfterIntro(@)]
        /\ UNCHANGED <<record, queue>>
        /\ UNCHANGED peer
     \/ /\ record' = [record EXCEPT ![q][i] = "linked"]
        /\ peer' = [peer EXCEPT ![q][i] = p]
        /\ queue' = [queue EXCEPT ![q] = Append(@, Event("sky_intro", i, p))]
        /\ txn' = [txn EXCEPT ![p].at = "wait"]
  /\ UNCHANGED <<list, history>>

\* The response needs q's own record, and has the asking pico's linked:
\* linkRemotePeer reads that ...
LinkRead(q) ==
  /\ txn[q].at = "read"
  /\ \A i \in txn[q].all :
       txn' = IF "none" \in {record[q][i], record[peer[q][i]][i]}
              THEN Over(txn, q, i)  \* unknown subscription: the approval fails
              ELSE [txn EXCEPT ![q].at = "write"]
  /\ UNCHANGED <<buses, record, queue, history>>

\* An accepted introduction is answered four times: both *_pending_*_added
\* events run autoAccept, and each raises both *_pending_*_approval events.
Responses(q, i) ==
  LET response == Event("sky_intro_response", i, NoPico) IN
  IF txn[q].do = "accept" THEN [n \in 1 .. Repeats |-> response] ELSE <<response>>

LinkWriteWaits(q) ==  \* mutant: the response waits for the asking pico's transaction
  /\ txn[q].at = "write"
  /\ \A i \in txn[q].all : LET p == peer[q][i] IN
       /\ txn[p] = Idle
       /\ record' = [record EXCEPT ![p][i] = "linked"]
       /\ queue' = [queue EXCEPT ![p] = @ \o Responses(q, i)]
       /\ approver' = [approver EXCEPT ![i] = q]
  /\ txn' = [txn EXCEPT ![q].at = "settle"]
  /\ UNCHANGED <<home, buses, upset, cut, faults>>

\* ... and writes it back, and the response is queued without waiting, since
\* the asking pico may still be in the transaction that asked.  What was read keeps
\* the DID it has, and replaces a record made anew meanwhile.
LinkWrite(q) ==
  /\ txn[q].at = "write"
  /\ \A i \in txn[q].all : LET p == peer[q][i] IN
       /\ \E r \in {"linked"} \union ({record[p][i]} \intersect {"anew"}) :
            record' = [record EXCEPT ![p][i] = r]
       /\ queue' = [queue EXCEPT ![p] = @ \o Responses(q, i)]
       /\ approver' = [approver EXCEPT ![i] = q]
  /\ txn' = [txn EXCEPT ![q].at = "settle"]
  /\ UNCHANGED <<home, buses, upset, cut, faults>>

\* addInboundSubscription, the last step of an approval.
addInboundSubscription(q) ==
  /\ txn[q].at = "settle"
  /\ \A i \in txn[q].all :
       /\ list' = [list EXCEPT ![q][i] = "established"]
       /\ txn' = Over(txn, q, i)
  /\ UNCHANGED <<peer, record, queue, history>>

\* addInboundPendingFromSkyIntro and, where it matches, autoAccept.
addInboundPendingFromSkyIntro(q) ==
  LET e == Head(queue[q]) IN
  /\ Takes(q, {"sky_intro"})
  /\ list' = [list EXCEPT ![q][e.id] = "inbound"]
  /\ queue' = [queue EXCEPT ![q] = Tail(@)]
  /\ \/ txn' = Over(Serving(q), q, e.id)
     \/ txn' = [txn EXCEPT ![q] = Txn("accept", {e.id}, "read", e.caller)]
  /\ UNCHANGED <<peer, record, history>>

\* approveInboundPendingSubscriptionLayer2, by hand.
Approve(q, i) ==
  /\ txn[q] = Idle
  /\ list[q][i] = "inbound"
  /\ txn' = [txn EXCEPT ![q] = Txn("approve", {i}, "read", NoPico)]
  /\ UNCHANGED <<buses, record, queue, history>>

addOutboundAnyway(p) ==  \* mutant: no look whether the bus is still in outbound()
  LET e == Head(queue[p]) IN
  /\ Takes(p, {"sky_intro_response"})
  /\ list' = [list EXCEPT ![p][e.id] = "established"]
  /\ queue' = [queue EXCEPT ![p] = Tail(@)]
  /\ txn' = Over(Serving(p), p, e.id)
  /\ UNCHANGED <<peer, record, history>>

\* addOutboundSubscriptionLayer2: the first response finds the bus in outbound().
addOutboundSubscriptionLayer2(p) ==
  LET e == Head(queue[p])
      found == list[p][e.id] = "outbound" IN
  /\ Takes(p, {"sky_intro_response"})
  /\ list' = IF found THEN [list EXCEPT ![p][e.id] = "established"] ELSE list
  /\ queue' = [queue EXCEPT ![p] = Tail(@)]
  /\ txn' = IF found /\ record[p][e.id] = "none"
            THEN [txn EXCEPT ![p] = Txn("confirm", {e.id}, "record", e.caller)]
            ELSE Over(Serving(p), p, e.id)
  /\ UNCHANGED <<peer, record, history>>

-----------------------------------------------------------------------------
(* Ending relationships: one of them, or all.                               *)

\* cancelEstablishedLayer2, cancelInboundLayer2, cancelOutboundLayer2 for one
\* relationship, cancel_all_subscriptions for all that p has.
Cancel(p, I) ==
  /\ txn[p] = Idle
  /\ I # {} /\ I \subseteq Held(p)
  /\ I = Held(p) \/ \E i \in Ids : I = {i}
  /\ txn' = [txn EXCEPT ![p] = Txn("cancel", I, "send", NoPico)]
  /\ UNCHANGED <<buses, record, queue, history>>

noticeToAsker(p, i) ==  \* mutant: a bus that is not established is taken for inbound
  IF list[p][i] = "established" THEN "established_removal" ELSE "outbound_removal"

notice(p, i) ==
  CASE list[p][i] = "outbound" -> "inbound_removal"
    [] list[p][i] = "inbound" -> "outbound_removal"
    [] OTHER -> "established_removal"

\* crossPicoEvent: inside a mesh the other pico's record, or its inbound bus, gives
\* the channel; a DIDComm message is only let in if the other pico's record names
\* the sender's did:peer.
Reaches(p, q, i) ==
  IF home[p] = home[q] THEN record[q][i] # "none" \/ list[q][i] = "inbound"
  ELSE record[q][i] = "linked" /\ record[p][i] # "anew"

\* What crossPicoEvent throws on: no record of its own, or a bus at the other pico
\* whose record is gone and whose channel may be.
Throws(p, q, i) ==
  \/ record[p][i] = "none"
  \/ home[p] = home[q] /\ record[q][i] = "none" /\ list[q][i] = "inbound"

\* The rule calls crossPicoEvent before it raises the removal of its own bus.
\* A removal that cannot be delivered is swallowed.
crossPicoEvent(p, i) ==
  LET q == peer[p][i] IN
  /\ txn[p].do = "cancel" /\ txn[p].at = "send" /\ i \in txn[p].left
  /\ \/ /\ record[p][i] # "none" /\ Reaches(p, q, i)
        /\ queue' = [queue EXCEPT ![q] = Append(@, Event(notice(p, i), i, p))]
        /\ txn' = [txn EXCEPT ![p].at = "wait"]
        /\ UNCHANGED upset
     \/ /\ record[p][i] # "none" /\ ~Reaches(p, q, i)
        /\ txn' = [txn EXCEPT ![p] = AfterNotice(@, i)]
        /\ UNCHANGED <<queue, upset>>
     \/ /\ Throws(p, q, i)
        /\ txn' = [txn EXCEPT ![p] = Idle]
        /\ upset' = upset \union txn[p].all
        /\ UNCHANGED queue
  /\ UNCHANGED <<home, buses, record, approver, cut, faults>>

\* removeOutbound, removeInbound and removeEstablished look for the bus in the list
\* that the event names.
Named(kind) ==
  CASE kind = "inbound_removal" -> "inbound"
    [] kind = "outbound_removal" -> "outbound"
    [] OTHER -> "established"

KeepRecord(p, i) == UNCHANGED record  \* mutant: no teardownSubscription

\* Their prelude, before they delete the bus's channel.
teardownSubscription(p, i) == record' = [record EXCEPT ![p][i] = "none"]

Removed(q) ==
  LET e == Head(queue[q])
      meets == e.kind = "inbound_removal" /\ list[q][e.id] = "established" IN
  /\ Takes(q, {"inbound_removal", "outbound_removal", "established_removal"})
  /\ \/ /\ list[q][e.id] = Named(e.kind)
        /\ teardownSubscription(q, e.id)
        /\ txn' = [txn EXCEPT ![q] = Txn("told", {e.id}, "splice", e.caller)]
     \/ /\ list[q][e.id] # Named(e.kind)
        /\ txn' = Over(Serving(q), q, e.id)
        /\ UNCHANGED record
  /\ queue' = [queue EXCEPT ![q] = Tail(@)]
  /\ upset' = IF meets THEN upset \union {e.id} ELSE upset
  /\ UNCHANGED <<home, buses, approver, cut, faults>>

\* The removals that a cancellation raises are handled once all notices are sent.
RemoveOwn(p, i) ==
  /\ txn[p].at = "remove" /\ i \in txn[p].all
  /\ teardownSubscription(p, i)
  /\ txn' = [txn EXCEPT ![p].left = {i}, ![p].at = "splice"]
  /\ UNCHANGED <<buses, queue, history>>

\* wrangler:deleteChannel has returned, and the bus is taken out of its list.
splice(p, i) ==
  /\ txn[p].at = "splice" /\ i \in txn[p].left
  /\ list' = [list EXCEPT ![p][i] = "ended"]
  /\ txn' = IF txn[p].all = {i} THEN Over(txn, p, i)
            ELSE [txn EXCEPT ![p].all = @ \ {i}, ![p].left = {}, ![p].at = "remove"]
  /\ UNCHANGED <<peer, record, queue, history>>

-----------------------------------------------------------------------------
(* Failures.                                                                *)

\* Nobody of P waits any more.
ForgetQueued(P) ==
  [q \in Picos |-> [n \in DOMAIN queue[q] |->
     IF queue[q][n].caller \in P THEN [queue[q][n] EXCEPT !.caller = NoPico]
     ELSE queue[q][n]]]
ForgetServed(P) ==
  [q \in Picos |->
     IF txn[q].caller \in P THEN [txn[q] EXCEPT !.caller = NoPico] ELSE txn[q]]

\* q waits for one of P with its event about i.
WaitsIn(q, i, P) == \E r \in P :
  \/ txn[r].caller = q /\ i \in txn[r].all
  \/ \E n \in DOMAIN queue[r] : queue[r][n].caller = q /\ queue[r][n].id = i

\* A request about i to another mesh fails, before it was handled or after: an
\* introduction and a response then fail the transaction, a removal does not.
Fail(p, i, lost) ==
  /\ faults < MaxFaults
  /\ faults' = faults + 1
  /\ i \in txn[p].left /\ Away(p, i)
  /\ txn[p].at \in IF lost THEN {"send", "read"} ELSE {"wait", "settle"}
  /\ txn[p].at = "wait" => WaitsIn(p, i, Picos)
  /\ queue' = IF lost THEN queue ELSE ForgetQueued({p})
  /\ LET ts == IF lost THEN txn ELSE ForgetServed({p}) IN
       txn' = IF txn[p].do \in {"accept", "approve"} THEN Over(ts, p, i)
              ELSE [ts EXCEPT ![p] = AfterReply(@, i)]
  /\ upset' = upset \union {i}
  /\ UNCHANGED <<home, buses, record, approver, cut>>

\* The store of records fails, or wrangler:deleteChannel throws.
Throw(p, i) ==
  LET ts == Failed(txn, p, i) IN
  /\ faults < MaxFaults
  /\ faults' = faults + 1
  /\ Between(p, i)
  /\ txn' = ts
  /\ upset' = upset \union Undone(ts)
  /\ cut' = cut \union {<<p, i>>}
  /\ UNCHANGED <<home, buses, record, queue, approver>>

\* The engine of mesh m stops: transactions and queues are in memory only.
Crash(m) ==
  LET P == {p \in Picos : home[p] = m}
      lost(i) == \E p \in P : About(p, i) \/ \E n \in DOMAIN queue[p] : queue[p][n].id = i IN
  /\ faults < MaxFaults
  /\ faults' = faults + 1
  /\ queue' = [q \in Picos |-> IF q \in P THEN << >> ELSE ForgetQueued(P)[q]]
  /\ txn' = [q \in Picos |->
       IF q \in P THEN Idle
       ELSE IF \E i \in Ids : WaitsIn(q, i, P)
            THEN AfterReply(txn[q], CHOOSE i \in Ids : WaitsIn(q, i, P))
            ELSE ForgetServed(P)[q]]
  /\ upset' = upset \union {i \in Ids : lost(i)}
  /\ cut' = cut \union {c \in P \X Ids : Between(c[1], c[2])}
  /\ UNCHANGED <<home, buses, record, approver>>

Init ==
  /\ home \in Homes
  /\ list = [p \in Picos |-> [i \in Ids |-> "none"]]
  /\ peer = [p \in Picos |-> [i \in Ids |-> NoPico]]
  /\ record = [p \in Picos |-> [i \in Ids |-> "none"]]
  /\ txn = [p \in Picos |-> Idle]
  /\ queue = [p \in Picos |-> << >>]
  /\ approver = [i \in Ids |-> NoPico]
  /\ upset = {}
  /\ cut = {}
  /\ faults = 0

\* p goes on with its transaction ...
Continue(p) ==
  \/ \E i \in Ids : establishSubscriptionIdentity(p, i) \/ Introduce(p, i)
  \/ LinkRead(p) \/ LinkWrite(p) \/ addInboundSubscription(p)
  \/ \E i \in Ids : crossPicoEvent(p, i) \/ RemoveOwn(p, i) \/ splice(p, i)

\* ... or starts one for the event that has waited longest.
Serve(p) ==
  addInboundPendingFromSkyIntro(p) \/ addOutboundSubscriptionLayer2(p) \/ Removed(p)

Next ==
  \/ \E p, q \in Picos, i \in Ids : Ask(p, q, i)
  \/ \E p \in Picos, i \in Ids : Approve(p, i)
  \/ \E p \in Picos, I \in SUBSET Ids : Cancel(p, I)
  \/ \E p \in Picos : Continue(p) \/ Serve(p)
  \/ \E p \in Picos, i \in Ids, lost \in BOOLEAN : Fail(p, i, lost)
  \/ \E p \in Picos, i \in Ids : Throw(p, i)
  \/ \E m \in Meshes : Crash(m)

Spec == Init /\ [][Next]_vars
\* A transaction goes on, and the requests that users make, which are not kept
\* in queue, take their turn in the same first-in first-out queue: they cannot
\* keep an event waiting for ever.
FairSpec == Spec /\ \A p \in Picos : WF_vars(Continue(p)) /\ SF_vars(Serve(p))

-----------------------------------------------------------------------------
(* Properties.                                                              *)

Steps(do) ==
  CASE do = "ask" -> {"record", "send", "wait"}
    [] do = "confirm" -> {"record"}
    [] do = "cancel" -> {"send", "wait", "remove", "splice"}
    [] do = "told" -> {"splice"}
    [] do \in {"accept", "approve"} -> {"read", "write", "settle"}
    [] OTHER -> {"idle"}

\* Every variable has its type, and a transaction is at a step of its kind.
TypeOK ==
  /\ home \in Homes
  /\ list \in [Picos -> [Ids -> Lists]]
  /\ peer \in [Picos -> [Ids -> Picos \union {NoPico}]]
  /\ record \in [Picos -> [Ids -> {"none", "half", "linked", "anew"}]]
  /\ \A p \in Picos :
       /\ txn[p].do \in {"nothing", "ask", "accept", "approve", "confirm", "cancel", "told"}
       /\ txn[p].at \in Steps(txn[p].do)
       /\ txn[p].left \subseteq txn[p].all /\ txn[p].all \subseteq Ids
       /\ txn[p].caller \in (Picos \ {p}) \union {NoPico}
  /\ queue \in [Picos -> Seq([kind : Kinds, id : Ids, caller : Picos \union {NoPico}])]
  /\ approver \in [Ids -> Picos \union {NoPico}]
  /\ upset \subseteq Ids
  /\ cut \subseteq Picos \X Ids
  /\ faults \in 0 .. MaxFaults

Quiet(i) == \A p \in Picos :
  ~About(p, i) /\ \A n \in DOMAIN queue[p] : queue[p][n].id # i

\* When nothing about it is on its way, the two picos agree on whether a
\* relationship is established, and a request that is listed as inbound is still
\* wanted, unless a failure met it or a withdrawal met its approval.
AgreeAtRest ==
  \A i \in Ids \ upset : Quiet(i) => \A p \in Picos : LET q == peer[p][i] IN
    /\ list[p][i] = "established" => list[q][i] = "established"
    /\ list[p][i] = "inbound" => list[q][i] = "outbound"

\* establishSubscriptionIdentity, linkRemotePeer and teardownSubscription: a bus
\* lacks its record only while its pico's transaction is between the writes of the
\* two, or where it failed there, whatever else failed.  At rest a record has a bus,
\* and names the other pico if that is established: linking does not bring back a
\* record that was torn down.
RecordsMatchBuses ==
  /\ \A p \in Picos : \A i \in Held(p) :
       record[p][i] # "none" \/ Between(p, i) \/ <<p, i>> \in cut
  /\ \A i \in Ids \ upset : Quiet(i) => \A p \in Picos :
       /\ record[p][i] # "none" => i \in Held(p)
       /\ list[p][i] = "established" => record[p][i] = "linked"

\* p's transaction waits for q's queue or for q's transaction.
WaitsFor(p, q) ==
  \/ txn[q].caller = p
  \/ \E n \in DOMAIN queue[q] : queue[q][n].caller = p

\* p is among picos whose requests wait for each other, or waits for them.
Crossed(p) == \E P \in SUBSET Picos : p \in P /\ \A q \in P :
  /\ txn[q].do \in {"ask", "cancel"}
  /\ \E r \in P : WaitsFor(q, r)

\* Every transaction ends, unless picos that ask or tell each other at the same
\* time have come to wait for each other; in particular an approval never waits
\* for the transaction that asked.
TransactionsEnd ==
  \A p \in Picos : txn[p] # Idle ~> txn[p] = Idle \/ Crossed(p)

\* Where p stands: an approval counts from the moment its response is sent.
stands == [p \in Picos |-> [i \in Ids |->
  CASE list[p][i] = "outbound" -> "asked"
    [] list[p][i] = "inbound" -> IF approver[i] = p THEN "established" ELSE "offered"
    [] OTHER -> list[p][i]]]

Promise == INSTANCE Relationship WITH
  Picos <- Picos, Ids <- Ids, NoPico <- NoPico, side <- stands, approver <- approver

\* Layer 2 implements the abstract relationship whatever fails: nobody is
\* established without the other's approval, and no response revives an end.
KeepsPromise == Promise!Spec
=============================================================================
