----------------------------- MODULE PortableMove -----------------------------
(***************************************************************************)
(* The relationships of a subtree of picos that is copied to another       *)
(* engine with its identities (identity/portableMove.ts): the export        *)
(* upgrades ECI-based relationships to DID-based ones, the import copies    *)
(* lists and records, and the peers of the root are told to follow it.      *)
(*                                                                         *)
(* A relationship has three ends: the donor, that is the exported pico, its *)
(* copy, and the peer, a pico outside the subtree.  Every pico has a        *)
(* did:webvh, and no peer is in the mesh of the copy.                       *)
(***************************************************************************)
EXTENDS Naturals, FiniteSets

CONSTANTS
  Rels,
  Members, Root,  \* the exported picos
  Peers,
  Of, With,       \* the member and the peer of each relationship
  Near,           \* peers on the exporting engine
  Here,           \* peers on the importing engine
  Nobody

ASSUME PortableMoveAssumption ==
  /\ Root \in Members /\ Nobody \notin Members \union Peers \union Rels
  /\ Of \in [Rels -> Members] /\ With \in [Rels -> Peers]
  /\ Near \subseteq Peers /\ Here \subseteq Peers /\ Near \intersect Here = {}

VARIABLES
  bus,      \* bus[e][i]: the list that i is in at end e, established ones by kind
  record,   \* record[e][i]: the identity service's record of i at end e
  to,       \* to[i]: where the peer's record says the other pico is
  shown,    \* shown[i]: where the peer's bus says it is
  told,     \* webvh_peer_rotated events in the peers' transaction queues
  blob,     \* what the export has read of each relationship
  move,     \* how far the move is
  history   \* the relationships' own course, and which of them met the move

vars == <<bus, record, to, shown, told, blob, move, history>>
ends == <<bus, record, to, shown, told>>

Ends == {"donor", "copy", "peer"}
Requests == {"outbound", "inbound"}
Established == {"eci", "did", "both"}  \* "both": it is in a list of requests too
Records == {"none", "half", "linked"}  \* a half record lacks the other's did:peer
Steps == {"peers", "upgrade", "upgradePeer", "records", "ent", "sync", "relocate",
          "notify", "link", "refresh", "done", "failed"}

OfMember(m) == {i \in Rels : Of[i] = m}
OfPeer(p) == {i \in Rels : With[i] = p}
On(e, i) == bus[e][i] \in Established

\* ent:established of a pico, and the lists after it is written back whole.
Listed(e, I) == [i \in {j \in I : On(e, j)} |-> bus[e][i]]
Stored(e, I, list) ==
  [bus EXCEPT ![e] = [i \in Rels |->
     IF i \in DOMAIN list THEN list[i]
     ELSE IF i \in I /\ On(e, i) THEN "none" ELSE bus[e][i]]]

Lists == UNION {[I -> {"eci", "did"}] : I \in SUBSET Rels}

\* establishSubscriptionIdentity: there is a record, if only a half one.
WithRecords(e, I) ==
  [record EXCEPT ![e] = [i \in Rels |->
     IF i \in I /\ record[e][i] = "none" THEN "half" ELSE record[e][i]]]

AsDid(list, I) == [i \in DOMAIN list |-> IF i \in I THEN "did" ELSE list[i]]

-----------------------------------------------------------------------------
(* prepareSubtreeRelationshipsForPortableExport, pico by pico.             *)

Between == move.at = "peers" /\ move.peers = {}

\* ECI-based relationships whose other channel is a pico's of this engine.
Upgradable(list) == {i \in DOMAIN list : list[i] = "eci" /\ With[i] \in Near}

ReadDonor(m) ==
  LET list == Listed("donor", OfMember(m)) IN
  /\ Between /\ m \notin move.done
  /\ move' = IF Upgradable(list) = {} THEN [move EXCEPT !.done = @ \union {m}]
             ELSE [move EXCEPT !.at = "upgrade", !.pico = m, !.snap = list]
  /\ UNCHANGED <<ends, blob, history>>

\* upgradeEstablishedList, and the write of the list that was read.
UpgradeDonor ==
  LET U == Upgradable(move.snap) IN
  /\ move.at = "upgrade"
  /\ record' = WithRecords("donor", U)
  /\ bus' = Stored("donor", OfMember(move.pico), AsDid(move.snap, U))
  /\ move' = [move EXCEPT !.at = "peers", !.peers = {With[i] : i \in U},
                          !.done = @ \union {move.pico}]
  /\ UNCHANGED <<to, shown, told, blob, history>>

\* upgradeReciprocalBuses, for the relationships with the member just upgraded.
Reciprocal(list) == {i \in DOMAIN list : list[i] = "eci" /\ Of[i] = move.pico}

ReadPeer(p) ==
  LET list == Listed("peer", OfPeer(p)) IN
  /\ move.at = "peers" /\ p \in move.peers
  /\ move' = IF Reciprocal(list) = {} THEN [move EXCEPT !.peers = @ \ {p}]
             ELSE [move EXCEPT !.at = "upgradePeer", !.peer = p, !.snap = list]
  /\ UNCHANGED <<ends, blob, history>>

LinkedPeerOnly(I) ==  \* mutant: only the peer learns the other's did:peer
  LET J == {i \in I : record["donor"][i] # "none"} IN
  [e \in Ends |-> [i \in Rels |->
     IF e = "peer" /\ i \in J THEN "linked" ELSE WithRecords("peer", I)[e][i]]]

Linked(I) ==  \* linkRemotePeer on both picos, if the member still has its record
  LET J == {i \in I : record["donor"][i] # "none"} IN
  [e \in Ends |-> [i \in Rels |->
     IF e # "copy" /\ i \in J THEN "linked" ELSE WithRecords("peer", I)[e][i]]]

UpgradePeerOnly ==  \* mutant: the member's relationships are written, no others
  LET U == Reciprocal(move.snap) IN
  /\ move.at = "upgradePeer"
  /\ record' = Linked(U)
  /\ bus' = Stored("peer", OfPeer(move.peer), [i \in U |-> "did"])
  /\ move' = [move EXCEPT !.at = "peers", !.peers = @ \ {move.peer}]
  /\ UNCHANGED <<to, shown, told, blob, history>>

UpgradePeer ==
  LET U == Reciprocal(move.snap) IN
  /\ move.at = "upgradePeer"
  /\ record' = Linked(U)
  /\ bus' = Stored("peer", OfPeer(move.peer), AsDid(move.snap, U))
  /\ move' = [move EXCEPT !.at = "peers", !.peers = @ \ {move.peer}]
  /\ UNCHANGED <<to, shown, told, blob, history>>

-----------------------------------------------------------------------------
(* exportSubtree reads the records of each pico, then its variables; the    *)
(* import stores both under the copies, which nobody else knows as yet.     *)

exportNodeIdentity(m) ==
  /\ \/ Between /\ move.done = Members
        /\ move' = [move EXCEPT !.at = "ent", !.pico = m, !.done = {}]
     \/ move.at = "records" /\ m \notin move.done
        /\ move' = [move EXCEPT !.at = "ent", !.pico = m]
  /\ blob' = [blob EXCEPT !.record = [i \in Rels |->
                IF Of[i] = m THEN record["donor"][i] ELSE @[i]]]
  /\ UNCHANGED <<ends, history>>

exportEnt ==
  /\ move.at = "ent"
  /\ blob' = [blob EXCEPT !.bus = [i \in Rels |->
                IF Of[i] = move.pico THEN bus["donor"][i] ELSE @[i]]]
  /\ move' = [move EXCEPT !.at = "records", !.done = @ \union {move.pico}]
  /\ UNCHANGED <<ends, history>>

importNodes ==
  /\ move.at = "records" /\ move.done = Members
  /\ bus' = [bus EXCEPT !["copy"] = blob.bus]
  /\ record' = [record EXCEPT !["copy"] = blob.record]
  /\ move' = [move EXCEPT !.at = "sync"]
  /\ UNCHANGED <<to, shown, told, blob, history>>

\* syncLayer2EstablishedFromIdentity: every record gets an established bus.
syncLayer2EstablishedFromIdentity ==
  /\ move.at = "sync"
  /\ bus' = [bus EXCEPT !["copy"] = [i \in Rels |->
       IF record["copy"][i] = "none" THEN @[i]
       ELSE IF @[i] \in Requests THEN "both" ELSE "did"]]
  /\ move' = [move EXCEPT !.at = "relocate"]
  /\ UNCHANGED <<record, to, shown, told, blob, history>>

-----------------------------------------------------------------------------
(* finalizePortableImport: new addresses for all copies, then notices for   *)
(* the relationships of the root, one after the other.                      *)

relocateFirst ==  \* mutant: the notices stop after the first
  /\ move.at = "relocate"
  /\ \E I \in SUBSET {i \in OfMember(Root) : record["copy"][i] = "linked"} :
       /\ Cardinality(I) <= 1
       /\ move' = [move EXCEPT !.at = "notify", !.left = I, !.done = {}]
  /\ UNCHANGED <<ends, blob, history>>

relocateWebvhDid ==
  /\ move.at = "relocate"
  /\ move' = [move EXCEPT !.at = "notify", !.done = {},
                !.left = {i \in OfMember(Root) : record["copy"][i] = "linked"}]
  /\ UNCHANGED <<ends, blob, history>>

\* handleSkyRotateAtIngress up to linkRemotePeer's read.  A notice that fails, or
\* whose sender the peer does not know any more, is only logged.
notifyPeer(i) ==
  /\ move.at = "notify" /\ i \in move.left
  /\ \/ /\ record["peer"][i] = "linked"
        /\ move' = [move EXCEPT !.at = "link", !.rel = i]
        /\ UNCHANGED history
     \/ /\ record["peer"][i] # "linked"
        /\ move' = [move EXCEPT !.left = @ \ {i}]
        /\ UNCHANGED history
     \/ /\ move' = [move EXCEPT !.left = @ \ {i}]
        /\ history' = [history EXCEPT !.lost = @ \union {i}]
  /\ UNCHANGED <<ends, blob>>

handleSkyRotateAtIngress ==
  LET i == move.rel IN
  /\ move.at = "link"
  /\ record' = [record EXCEPT !["peer"][i] = "linked"]
  /\ to' = [to EXCEPT ![i] = "copy"]
  /\ told' = told \union {i}
  /\ move' = [move EXCEPT !.at = "notify", !.left = @ \ {i}]
  /\ UNCHANGED <<bus, shown, blob, history>>

\* patchEstablishedBusesForMovedRoot: a bus names the root by DID, or a pico of the
\* subtree by a channel that has a new identifier now.
Patched(list) == {i \in DOMAIN list :
  shown[i] = "donor" /\ (list[i] = "eci" \/ Of[i] = Root)}

\* refreshLocalPeersOfMovedRoot.
ReadHere(p) ==
  LET list == Listed("peer", OfPeer(p)) IN
  /\ move.at = "notify" /\ move.left = {} /\ p \in Here \ move.done
  /\ move' = IF Patched(list) = {} THEN [move EXCEPT !.done = @ \union {p}]
             ELSE [move EXCEPT !.at = "refresh", !.peer = p, !.snap = list]
  /\ UNCHANGED <<ends, blob, history>>

\* A new channel goes with the old host, where nobody knows it.
refreshLocalPeersOfMovedRoot ==
  /\ move.at = "refresh"
  /\ bus' = Stored("peer", OfPeer(move.peer), move.snap)
  /\ shown' = [i \in Rels |->
       IF i \notin Patched(move.snap) THEN shown[i]
       ELSE IF move.snap[i] = "eci" THEN "nowhere" ELSE "copy"]
  /\ move' = [move EXCEPT !.at = "notify", !.done = @ \union {move.peer}]
  /\ UNCHANGED <<record, to, told, blob, history>>

Finish ==
  /\ move.at = "notify" /\ move.left = {} /\ move.done = Here
  /\ move' = [move EXCEPT !.at = "done"]
  /\ UNCHANGED <<ends, blob, history>>

\* Any other await of the export or the import may reject; nothing is undone.
Fail ==
  /\ move.at \notin {"done", "failed"}
  /\ move' = [move EXCEPT !.at = "failed"]
  /\ UNCHANGED <<ends, blob, history>>

-----------------------------------------------------------------------------
(* What the picos do meanwhile, one transaction at a time.                 *)

\* What the mover has read and not yet written back, or not yet read in full.
InHand ==
  CASE move.at \in {"upgrade", "ent"} -> OfMember(move.pico)
    [] move.at \in {"upgradePeer", "refresh"} -> OfPeer(move.peer)
    [] move.at = "link" -> {move.rel}
    [] OTHER -> {}

\* The relationships that the export has read.
Read ==
  CASE move.at \in {"peers", "upgrade", "upgradePeer"} -> {}
    [] move.at \in {"records", "ent"} -> {i \in Rels : Of[i] \in move.done}
    [] OTHER -> Rels

\* i takes its course at the ends E, to state s.
Course(i, E, s) ==
  history' = [history EXCEPT
    !.own = [e \in {"donor", "peer"} |->
               IF e \in E THEN [@[e] EXCEPT ![i] = s] ELSE @[e]],
    !.raced = @ \union ({i} \intersect InHand),
    !.late = @ \union ({i} \intersect Read)]

\* removeEstablished at the ends E.
Remove(i, E) ==
  /\ bus' = [e \in Ends |-> IF e \in E THEN [bus[e] EXCEPT ![i] = "none"] ELSE bus[e]]
  /\ record' = [e \in Ends |-> IF e \in E THEN [record[e] EXCEPT ![i] = "none"]
                               ELSE record[e]]
  /\ Course(i, E, "ended")
  /\ UNCHANGED <<to, shown, told, blob, move>>

\* A removal by DIDComm arrives where the records name each other.
Hears(from, at, i) ==
  /\ On(at, i)
  /\ bus[from][i] = "did" => record[from][i] = "linked" /\ record[at][i] = "linked"

\* cancelEstablished and cancelEstablishedLayer2.
PeerEnds(i) ==
  LET at == IF bus["peer"][i] = "eci" THEN shown[i] ELSE to[i] IN
  /\ bus["peer"][i] \in {"eci", "did"}
  /\ bus["peer"][i] = "did" => record["peer"][i] # "none"
  /\ Remove(i, {"peer"} \union {e \in Ends : e = at /\ Hears("peer", e, i)})

DonorEnds(i) ==
  /\ bus["donor"][i] \in {"eci", "did"}
  /\ bus["donor"][i] = "did" => record["donor"][i] # "none"
  /\ Remove(i, {"donor"} \union {e \in {"peer"} : Hears("donor", e, i)})

\* A pending request is approved, by the pico that has it in inbound().
Approve(i) ==
  /\ {bus["donor"][i], bus["peer"][i]} = Requests /\ to[i] = "donor"
  /\ bus' = [bus EXCEPT !["donor"][i] = "did", !["peer"][i] = "did"]
  /\ record' = [record EXCEPT !["donor"][i] = "linked", !["peer"][i] = "linked"]
  /\ Course(i, {"donor", "peer"}, "established")
  /\ UNCHANGED <<to, shown, told, blob, move>>

apply_webvh_peer_rotation(i) ==
  /\ i \in told
  /\ told' = told \ {i}
  /\ bus' = IF On("peer", i) THEN [bus EXCEPT !["peer"][i] = "did"] ELSE bus
  /\ shown' = IF On("peer", i) THEN [shown EXCEPT ![i] = "copy"] ELSE shown
  /\ UNCHANGED <<record, to, blob, move, history>>

-----------------------------------------------------------------------------
\* A relationship by ECI, one by DID, or a request by DID from either side.
Start(kind) ==
  CASE kind = "eci" -> [bus |-> [donor |-> "eci", peer |-> "eci"],
                        record |-> [donor |-> "none", peer |-> "none"]]
    [] kind = "did" -> [bus |-> [donor |-> "did", peer |-> "did"],
                        record |-> [donor |-> "linked", peer |-> "linked"]]
    [] kind = "asks" -> [bus |-> [donor |-> "outbound", peer |-> "inbound"],
                         record |-> [donor |-> "half", peer |-> "linked"]]
    [] kind = "asked" -> [bus |-> [donor |-> "inbound", peer |-> "outbound"],
                          record |-> [donor |-> "linked", peer |-> "half"]]

Init ==
  /\ \E kind \in [Rels -> {"eci", "did", "asks", "asked"}] :
       LET Side(e, f) == IF e = "copy" THEN [i \in Rels |-> "none"]
                         ELSE [i \in Rels |-> Start(kind[i])[f][e]] IN
       /\ bus = [e \in Ends |-> Side(e, "bus")]
       /\ record = [e \in Ends |-> Side(e, "record")]
       /\ history = [own |-> [e \in {"donor", "peer"} |-> [i \in Rels |->
                       IF kind[i] \in {"eci", "did"} THEN "established" ELSE "asked"]],
                     raced |-> {}, late |-> {}, lost |-> {}]
  /\ to = [i \in Rels |-> "donor"]
  /\ shown = [i \in Rels |-> "donor"]
  /\ told = {}
  /\ blob = [bus |-> [i \in Rels |-> "none"], record |-> [i \in Rels |-> "none"]]
  /\ move = [at |-> "peers", pico |-> Nobody, peer |-> Nobody, rel |-> Nobody,
             done |-> {}, peers |-> {}, left |-> {}, snap |-> [i \in {} |-> "none"]]

Export ==
  \/ UpgradeDonor \/ UpgradePeer \/ exportEnt
  \/ \E m \in Members : ReadDonor(m) \/ exportNodeIdentity(m)
  \/ \E p \in Peers : ReadPeer(p)

Import ==
  \/ importNodes \/ syncLayer2EstablishedFromIdentity \/ relocateWebvhDid
  \/ handleSkyRotateAtIngress \/ refreshLocalPeersOfMovedRoot \/ Finish
  \/ \E i \in Rels : notifyPeer(i)
  \/ \E p \in Here : ReadHere(p)

Next ==
  \/ Export \/ Import \/ Fail
  \/ \E i \in Rels : PeerEnds(i) \/ DonorEnds(i) \/ Approve(i)
  \/ \E i \in Rels : apply_webvh_peer_rotation(i)

Spec == Init /\ [][Next]_vars

-----------------------------------------------------------------------------
\* Every variable has its type; only a copy's relationship is in two lists.
TypeOK ==
  /\ bus \in [Ends -> [Rels -> {"none"} \union Requests \union Established]]
  /\ \A i \in Rels : "both" \notin {bus["donor"][i], bus["peer"][i]}
  /\ record \in [Ends -> [Rels -> Records]]
  /\ to \in [Rels -> {"donor", "copy"}]
  /\ shown \in [Rels -> {"donor", "copy", "nowhere"}]
  /\ told \subseteq Rels
  /\ blob \in [bus : [Rels -> {"none"} \union Requests \union {"eci", "did"}],
               record : [Rels -> Records]]
  /\ move \in [at : Steps, pico : Members \union {Nobody}, peer : Peers \union {Nobody},
               rel : Rels \union {Nobody}, done : SUBSET (Members \union Peers),
               peers : SUBSET Peers, left : SUBSET Rels, snap : Lists]
  /\ history \in [own : [{"donor", "peer"} -> [Rels -> {"asked", "established", "ended"}]],
                  raced : SUBSET Rels, late : SUBSET Rels, lost : SUBSET Rels]

\* The export and the import write lists of running picos back: whatever other
\* relationships do meanwhile, each pico's established list is what its own events
\* made it, and a relationship by DID has its record.  Only a relationship that
\* itself changed between the read and the write may be lost or come back.
KeepsLists ==
  \A e \in {"donor", "peer"}, i \in Rels \ history.raced :
    /\ On(e, i) <=> history.own[e][i] = "established"
    /\ bus[e][i] = "did" => record[e][i] # "none"

\* The picos' relationships as the export found them.
Carried == {i \in Rels \ (history.raced \union history.late) :
  \A e \in {"donor", "peer"} : history.own[e][i] = "established"}

\* What was established at the export is established at the copy, and by DID
\* with a record that lets it talk to the peer, if it was by DID or its peer was on
\* the exporting engine.
CopyIsConnected ==
  move.at \in {"relocate", "notify", "link", "refresh", "done"} =>
    \A i \in Carried :
      /\ On("copy", i)
      /\ With[i] \in Near => bus["copy"][i] = "did"
      /\ bus["copy"][i] = "did" => record["copy"][i] = "linked"

\* After the move every peer that the root had a relationship by DID with
\* addresses the copy, unless its notice failed.
PeersFollowRoot ==
  move.at = "done" => \A i \in (Carried \intersect OfMember(Root)) \ history.lost :
    bus["copy"][i] = "did" =>
      /\ to[i] = "copy"
      /\ shown[i] = "copy" \/ i \in told

=============================================================================
