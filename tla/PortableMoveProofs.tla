-------------------------- MODULE PortableMoveProofs --------------------------
(***************************************************************************)
(* Proofs about PortableMove for every subtree, peers and relationships,    *)
(* whatever these do while they are moved and wherever the move fails:      *)
(* types, the lists of running picos are what their own events made them,   *)
(* the copy is connected, and the root's peers follow it.                   *)
(***************************************************************************)
EXTENDS PortableMove, TLAPS

Exporting == move.at \in {"peers", "upgrade", "upgradePeer"}
Reading == move.at \in {"records", "ent"}
Imported == move.at \in {"relocate", "notify", "link", "refresh", "done"}

\* Both ends have the relationship, by their own events.
Both(i) == history.own["donor"][i] = "established" /\ history.own["peer"][i] = "established"

\* The list that was read is the list that end e has of i, or was until i took its
\* turn among the peers that follow the root.
SnapIs(e, i) ==
  /\ i \in DOMAIN move.snap <=> On(e, i)
  /\ i \in DOMAIN move.snap => move.snap[i] = bus[e][i]

\* Where the move is and what it works on.
MoveInv ==
  /\ move.peers \subseteq Near
  /\ move.at = "upgrade" =>
       /\ move.pico \in Members \ move.done /\ move.peers = {}
       /\ DOMAIN move.snap \subseteq OfMember(move.pico)
  /\ move.at = "upgradePeer" =>
       /\ move.pico \in move.done /\ move.peer \in move.peers
       /\ DOMAIN move.snap \subseteq OfPeer(move.peer)
  /\ move.at = "peers" /\ move.peers # {} => move.pico \in move.done
  /\ move.at = "ent" => move.pico \in Members \ move.done
  /\ move.at = "link" => move.rel \in Rels
  /\ move.at = "refresh" => /\ move.peer \in Here
                            /\ DOMAIN move.snap \subseteq OfPeer(move.peer)
  /\ told # {} => move.at \in {"notify", "link", "refresh", "done", "failed"}
  /\ move.at = "done" => move.left = {}

\* What the mover may rely on of a relationship that did not change in its hands.
Owns(i) ==
  \A e \in {"donor", "peer"} :
    /\ On(e, i) <=> history.own[e][i] = "established"
    /\ bus[e][i] = "did" => record[e][i] # "none"
Snaps(i) ==
  /\ move.at = "upgrade" /\ Of[i] = move.pico => SnapIs("donor", i)
  /\ move.at = "upgradePeer" /\ With[i] = move.peer => SnapIs("peer", i)
  /\ move.at = "refresh" /\ With[i] = move.peer =>
       /\ i \in DOMAIN move.snap <=> On("peer", i)
       /\ i \in DOMAIN move.snap /\ move.snap[i] = "did" => bus["peer"][i] = "did"
Tells(i) == i \in told /\ On("peer", i) => record["peer"][i] # "none"
ListInv(i) == i \notin history.raced => Owns(i) /\ Snaps(i) /\ Tells(i)

\* A relationship is by ECI at both ends, or by DID and linked, or its peer is next.
ByEci(i) == /\ bus["donor"][i] = "eci" /\ bus["peer"][i] = "eci" /\ record["donor"][i] = "none"
            /\ With[i] \in Near => Exporting /\ Of[i] \notin move.done
ByDid(i) == /\ bus["donor"][i] = "did" /\ bus["peer"][i] = "did"
            /\ record["donor"][i] = "linked" /\ record["peer"][i] = "linked"
Halfway(i) == /\ bus["donor"][i] = "did" /\ bus["peer"][i] = "eci" /\ record["donor"][i] # "none"
              /\ Of[i] = move.pico /\ With[i] \in move.peers
              /\ move.at \in {"peers", "upgradePeer"}
LinkInv(i) == i \notin history.raced /\ Both(i) /\ (Exporting \/ Reading) =>
  ByEci(i) \/ ByDid(i) \/ Halfway(i)

\* A list with b and the record r of i are fit for the copy.
Fit(i, b, r) ==
  /\ b \in {"eci", "did"}
  /\ With[i] \in Near => b = "did"
  /\ b = "did" => r = "linked" /\ record["peer"][i] = "linked"
  /\ b = "eci" => r = "none"
Kept(i) == i \notin history.raced \union history.late /\ Both(i)
CopyInv(i) == Kept(i) =>
  /\ move.at = "ent" /\ Of[i] = move.pico => blob.record[i] = record["donor"][i]
  /\ Reading /\ Of[i] \in move.done => Fit(i, blob.bus[i], blob.record[i])
  /\ move.at = "sync" \/ Imported => Fit(i, bus["copy"][i], record["copy"][i])

\* A peer that has not heard of the move will.
NoticeInv(i) ==
  /\ Kept(i) /\ i \notin history.lost /\ Of[i] = Root /\ bus["copy"][i] = "did"
  /\ Imported /\ move.at # "relocate"
  => \/ i \in move.left
     \/ to[i] = "copy" /\ (shown[i] = "copy" \/ i \in told)

-----------------------------------------------------------------------------
(* Types, and what the operators on lists and records do to each end.       *)

Buses == {"none"} \union Requests \union Established
Owned == {"asked", "established", "ended"}
MoveType == [at : Steps, pico : Members \union {Nobody}, peer : Peers \union {Nobody},
             rel : Rels \union {Nobody}, done : SUBSET (Members \union Peers),
             peers : SUBSET Peers, left : SUBSET Rels, snap : Lists]

\* The parts of TypeOK, for the steps that change one of them.
BusType == /\ bus \in [Ends -> [Rels -> Buses]]
           /\ \A i \in Rels : bus["donor"][i] # "both" /\ bus["peer"][i] # "both"
RecordType == record \in [Ends -> [Rels -> Records]]
NoteType == /\ to \in [Rels -> {"donor", "copy"}]
            /\ shown \in [Rels -> {"donor", "copy", "nowhere"}]
            /\ told \subseteq Rels
BlobType == blob \in [bus : [Rels -> {"none"} \union Requests \union {"eci", "did"}],
                      record : [Rels -> Records]]
HistoryType == history \in [own : [{"donor", "peer"} -> [Rels -> Owned]],
                            raced : SUBSET Rels, late : SUBSET Rels, lost : SUBSET Rels]

LEMMA TypeParts ==
  TypeOK <=> /\ BusType /\ RecordType /\ NoteType /\ BlobType
             /\ move \in MoveType /\ HistoryType
BY DEF TypeOK, BusType, RecordType, NoteType, BlobType, MoveType, HistoryType, Buses, Owned

LEMMA TypeNext ==
  BusType' /\ RecordType' /\ NoteType' /\ BlobType' /\ move' \in MoveType /\ HistoryType'
    => TypeOK'
BY DEF TypeOK, BusType, RecordType, NoteType, BlobType, MoveType, HistoryType, Buses, Owned

LEMMA Kinds ==
  /\ Buses = {"none", "outbound", "inbound", "eci", "did", "both"}
  /\ Ends = {"donor", "copy", "peer"} /\ Records = {"none", "half", "linked"}
BY DEF Buses, Requests, Established, Ends, Records

LEMMA ListedFacts ==
  ASSUME BusType, NEW e \in {"donor", "peer"}, NEW I \in SUBSET Rels
  PROVE  /\ Listed(e, I) \in Lists
         /\ DOMAIN Listed(e, I) = {j \in I : On(e, j)}
         /\ \A j \in DOMAIN Listed(e, I) : Listed(e, I)[j] = bus[e][j]
<1> DEFINE D == {j \in I : On(e, j)}
<1>1. \A j \in D : bus[e][j] \in {"eci", "did"}
  BY DEF BusType, On, Established
<1>2. Listed(e, I) = [j \in D |-> bus[e][j]]
  BY DEF Listed
<1>3. Listed(e, I) \in [D -> {"eci", "did"}] /\ D \in SUBSET Rels
  BY <1>1, <1>2
<1> QED BY <1>2, <1>3 DEF Lists

LEMMA ListType ==
  ASSUME NEW list \in Lists
  PROVE  /\ DOMAIN list \subseteq Rels
         /\ \A i \in DOMAIN list : list[i] \in {"eci", "did"}
BY DEF Lists

\* What becomes of each relationship when the list of end e is stored.
LEMMA StoredFacts ==
  ASSUME BusType, NEW e \in {"donor", "peer"}, NEW I \in SUBSET Rels, NEW list,
         \A i \in DOMAIN list : list[i] \in {"eci", "did"},
         bus' = Stored(e, I, list)
  PROVE  /\ BusType'
         /\ \A f \in Ends \ {e} : bus'[f] = bus[f]
         /\ \A i \in Rels : bus'[e][i] =
              IF i \in DOMAIN list THEN list[i]
              ELSE IF i \in I /\ On(e, i) THEN "none" ELSE bus[e][i]
<1>1. e \in Ends
  BY Kinds
<1>2. bus' = [bus EXCEPT ![e] = [i \in Rels |->
                IF i \in DOMAIN list THEN list[i]
                ELSE IF i \in I /\ On(e, i) THEN "none" ELSE bus[e][i]]]
  BY DEF Stored
<1>3. \A f \in Ends \ {e} : bus'[f] = bus[f]
  BY <1>2 DEF BusType
<1>4. bus'[e] = [i \in Rels |->
                IF i \in DOMAIN list THEN list[i]
                ELSE IF i \in I /\ On(e, i) THEN "none" ELSE bus[e][i]]
  BY <1>1, <1>2 DEF BusType
<1>5. \A i \in Rels : bus'[e][i] \in Buses /\ bus'[e][i] # "both"
  BY <1>4, <1>1, Kinds DEF BusType
<1>6. bus'[e] \in [Rels -> Buses]
  BY <1>4, <1>5
<1>7. bus' \in [Ends -> [Rels -> Buses]]
  BY <1>2, <1>3, <1>6 DEF BusType
<1>8. BusType'
  BY <1>3, <1>5, <1>7, Kinds DEF BusType
<1> QED BY <1>3, <1>4, <1>8

LEMMA WithRecordsFacts ==
  ASSUME RecordType, NEW e \in Ends, NEW I
  PROVE  /\ WithRecords(e, I) \in [Ends -> [Rels -> Records]]
         /\ \A f \in Ends, i \in Rels : WithRecords(e, I)[f][i] =
              IF f = e /\ i \in I /\ record[e][i] = "none" THEN "half" ELSE record[f][i]
BY Kinds DEF RecordType, WithRecords

LEMMA LinkedFacts ==
  ASSUME RecordType, NEW I, record' = Linked(I)
  PROVE  /\ RecordType'
         /\ \A i \in Rels : record'["copy"][i] = record["copy"][i]
         /\ \A i \in Rels \ I : record'["donor"][i] = record["donor"][i]
                                /\ record'["peer"][i] = record["peer"][i]
         /\ \A i \in Rels \intersect I :
              /\ record["donor"][i] # "none" =>
                   record'["donor"][i] = "linked" /\ record'["peer"][i] = "linked"
              /\ record["donor"][i] = "none" => record'["donor"][i] = record["donor"][i]
              /\ record'["peer"][i] # "none"
<1>1. \A f \in Ends, i \in Rels : WithRecords("peer", I)[f][i] =
        IF f = "peer" /\ i \in I /\ record["peer"][i] = "none" THEN "half" ELSE record[f][i]
  BY WithRecordsFacts, Kinds
<1>2. \A f \in Ends, i \in Rels : record'[f][i] =
        IF f # "copy" /\ i \in I /\ record["donor"][i] # "none" THEN "linked"
        ELSE WithRecords("peer", I)[f][i]
  BY DEF Linked
<1>3. \A f \in Ends, i \in Rels : record'[f][i] \in Records
  BY <1>1, <1>2, Kinds DEF RecordType
<1>4. RecordType'
  BY <1>3 DEF Linked, RecordType
<1>5. "donor" \in Ends /\ "peer" \in Ends /\ "copy" \in Ends
  BY Kinds
<1> QED BY <1>1, <1>2, <1>4, <1>5

LEMMA AsDidFacts ==
  ASSUME NEW list \in Lists, NEW I
  PROVE  /\ DOMAIN AsDid(list, I) = DOMAIN list
         /\ \A i \in DOMAIN list : AsDid(list, I)[i] = IF i \in I THEN "did" ELSE list[i]
         /\ \A i \in DOMAIN list : AsDid(list, I)[i] \in {"eci", "did"}
BY DEF AsDid, Lists

LEMMA CourseFacts ==
  ASSUME HistoryType, NEW j \in Rels, NEW E, NEW s \in Owned, Course(j, E, s)
  PROVE  /\ HistoryType'
         /\ \A e \in {"donor", "peer"}, i \in Rels : history'.own[e][i] =
              IF e \in E /\ i = j THEN s ELSE history.own[e][i]
         /\ history'.raced = history.raced \union ({j} \intersect InHand)
         /\ history'.late = history.late \union ({j} \intersect Read)
         /\ history'.lost = history.lost
<1> DEFINE own == [e \in {"donor", "peer"} |->
                     IF e \in E THEN [history.own[e] EXCEPT ![j] = s] ELSE history.own[e]]
           R == {j} \intersect InHand
           L == {j} \intersect Read
<1>1. R \subseteq Rels /\ L \subseteq Rels
  OBVIOUS
<1>2. own \in [{"donor", "peer"} -> [Rels -> Owned]]
  BY DEF HistoryType
<1>3. \A e \in {"donor", "peer"}, i \in Rels : own[e][i] =
        IF e \in E /\ i = j THEN s ELSE history.own[e][i]
  BY DEF HistoryType
<1>4. history' = [history EXCEPT !.own = own, !.raced = @ \union R, !.late = @ \union L]
  BY DEF Course, HistoryType
<1> HIDE DEF own, R, L
<1>5. /\ history'.own = own /\ history'.raced = history.raced \union R
      /\ history'.late = history.late \union L /\ history'.lost = history.lost
  BY <1>4 DEF HistoryType
<1>6. HistoryType'
  BY <1>1, <1>2, <1>4 DEF HistoryType
<1> QED BY <1>3, <1>5, <1>6 DEF R, L

LEMMA RemoveFacts ==
  ASSUME TypeOK, NEW j \in Rels, NEW E, Remove(j, E)
  PROVE  /\ BusType' /\ RecordType'
         /\ \A f \in Ends, i \in Rels :
              /\ bus'[f][i] = IF f \in E /\ i = j THEN "none" ELSE bus[f][i]
              /\ record'[f][i] = IF f \in E /\ i = j THEN "none" ELSE record[f][i]
         /\ Course(j, E, "ended")
         /\ UNCHANGED <<to, shown, told, blob, move>>
<1>t. BusType /\ RecordType
  BY TypeParts
<1>1. \A f \in Ends, i \in Rels :
        bus'[f][i] = IF f \in E /\ i = j THEN "none" ELSE bus[f][i]
  BY <1>t DEF Remove, BusType
<1>2. \A f \in Ends, i \in Rels :
        record'[f][i] = IF f \in E /\ i = j THEN "none" ELSE record[f][i]
  BY <1>t DEF Remove, RecordType
<1>3. \A f \in Ends, i \in Rels : bus'[f][i] \in Buses /\ record'[f][i] \in Records
  BY <1>t, <1>1, <1>2, Kinds DEF BusType, RecordType
<1>4. bus' \in [Ends -> [Rels -> Buses]]
  BY <1>t, <1>3, Kinds DEF Remove, BusType
<1>5. RecordType'
  BY <1>t, <1>3, Kinds DEF Remove, RecordType
<1>6. BusType'
  BY <1>t, <1>1, <1>4, Kinds DEF BusType
<1> QED BY <1>1, <1>2, <1>5, <1>6 DEF Remove

LEMMA ApproveFacts ==
  ASSUME TypeOK, NEW j \in Rels, Approve(j)
  PROVE  /\ BusType' /\ RecordType'
         /\ \A f \in Ends, i \in Rels :
              /\ bus'[f][i] = IF f # "copy" /\ i = j THEN "did" ELSE bus[f][i]
              /\ record'[f][i] = IF f # "copy" /\ i = j THEN "linked" ELSE record[f][i]
         /\ Course(j, {"donor", "peer"}, "established")
         /\ UNCHANGED <<to, shown, told, blob, move>>
<1>t. BusType /\ RecordType
  BY TypeParts
<1>1. \A f \in Ends, i \in Rels :
        bus'[f][i] = IF f # "copy" /\ i = j THEN "did" ELSE bus[f][i]
  BY <1>t, Kinds DEF Approve, BusType
<1>2. \A f \in Ends, i \in Rels :
        record'[f][i] = IF f # "copy" /\ i = j THEN "linked" ELSE record[f][i]
  BY <1>t, Kinds DEF Approve, RecordType
<1>4. bus' \in [Ends -> [Rels -> Buses]]
  BY <1>t, Kinds DEF Approve, BusType
<1>5. RecordType'
  BY <1>t, Kinds DEF Approve, RecordType
<1>6. BusType'
  BY <1>t, <1>1, <1>4, Kinds DEF BusType
<1> QED BY <1>1, <1>2, <1>5, <1>6 DEF Approve

LEMMA RotationFacts ==
  ASSUME TypeOK, NEW j \in Rels, apply_webvh_peer_rotation(j)
  PROVE  /\ BusType' /\ NoteType'
         /\ bus'["donor"] = bus["donor"] /\ bus'["copy"] = bus["copy"]
         /\ \A i \in Rels : bus'["peer"][i] =
              IF i = j /\ On("peer", j) THEN "did" ELSE bus["peer"][i]
         /\ \A i \in Rels : shown'[i] = IF i = j /\ On("peer", j) THEN "copy" ELSE shown[i]
         /\ j \in told /\ told' = told \ {j}
         /\ UNCHANGED <<record, to, blob, move, history>>
<1>t. BusType /\ NoteType
  BY TypeParts
<1>1. /\ bus'["donor"] = bus["donor"] /\ bus'["copy"] = bus["copy"]
      /\ \A i \in Rels : bus'["peer"][i] =
           IF i = j /\ On("peer", j) THEN "did" ELSE bus["peer"][i]
  BY <1>t, Kinds DEF apply_webvh_peer_rotation, BusType
<1>2. /\ \A i \in Rels : shown'[i] = IF i = j /\ On("peer", j) THEN "copy" ELSE shown[i]
      /\ NoteType'
  BY <1>t DEF apply_webvh_peer_rotation, NoteType
<1>3. bus' \in [Ends -> [Rels -> Buses]]
  BY <1>t, Kinds DEF apply_webvh_peer_rotation, BusType
<1>4. BusType'
  BY <1>t, <1>1, <1>3 DEF BusType
<1> QED BY <1>1, <1>2, <1>4 DEF apply_webvh_peer_rotation

LEMMA OfFacts ==
  /\ \A m : OfMember(m) \in SUBSET Rels /\ OfPeer(m) \in SUBSET Rels
  /\ \A i \in Rels : Of[i] \in Members /\ With[i] \in Peers
BY PortableMoveAssumption DEF PortableMoveAssumption, OfMember, OfPeer

LEMMA TypeInit == Init => TypeOK
<1> SUFFICES ASSUME Init PROVE TypeOK
  OBVIOUS
<1> PICK kind \in [Rels -> {"eci", "did", "asks", "asked"}] :
      LET Side(e, f) == IF e = "copy" THEN [i \in Rels |-> "none"]
                        ELSE [i \in Rels |-> Start(kind[i])[f][e]] IN
      /\ bus = [e \in Ends |-> Side(e, "bus")]
      /\ record = [e \in Ends |-> Side(e, "record")]
      /\ history = [own |-> [e \in {"donor", "peer"} |-> [i \in Rels |->
                      IF kind[i] \in {"eci", "did"} THEN "established" ELSE "asked"]],
                    raced |-> {}, late |-> {}, lost |-> {}]
  BY DEF Init
<1>1. \A i \in Rels : \A e \in {"donor", "peer"} :
        /\ Start(kind[i]).bus[e] \in {"outbound", "inbound", "eci", "did"}
        /\ Start(kind[i]).record[e] \in Records
  BY DEF Start, Records
<1>2. \A i \in Rels : /\ bus["copy"][i] = "none" /\ record["copy"][i] = "none"
                      /\ \A e \in {"donor", "peer"} : /\ bus[e][i] = Start(kind[i]).bus[e]
                                                      /\ record[e][i] = Start(kind[i]).record[e]
  BY Kinds
<1>3. \A e \in Ends, i \in Rels : bus[e][i] \in Buses /\ record[e][i] \in Records
  BY <1>1, <1>2, Kinds
<1>4. BusType
  BY <1>1, <1>2, <1>3, Kinds DEF BusType
<1>5. RecordType
  BY <1>3 DEF RecordType
<1>6. HistoryType
  BY DEF HistoryType, Owned
<1>7. NoteType /\ BlobType
  BY DEF Init, NoteType, BlobType, Records
<1>8. [i \in {} |-> "none"] \in Lists
  <2>1. [i \in {} |-> "none"] \in [{} -> {"eci", "did"}]
    OBVIOUS
  <2> QED BY <2>1 DEF Lists
<1>9. move \in MoveType
  BY <1>8 DEF Init, MoveType, Steps
<1> QED BY <1>4, <1>5, <1>6, <1>7, <1>9, TypeParts

\* The steps of the export and the import that change the move only.
LEMMA MoveOnly ==
  ASSUME TypeOK, UNCHANGED <<ends, blob, history>>, move' \in MoveType
  PROVE  TypeOK'
BY TypeParts, TypeNext DEF BusType, RecordType, NoteType, BlobType, HistoryType, ends

LEMMA TypeExport ==
  ASSUME TypeOK, MoveInv, Export
  PROVE  TypeOK'
<1>t. BusType /\ RecordType /\ NoteType /\ BlobType /\ move \in MoveType /\ HistoryType
  BY TypeParts
<1>l. move.snap \in Lists /\ \A i \in DOMAIN move.snap : move.snap[i] \in {"eci", "did"}
  BY <1>t, ListType DEF MoveType
<1>1. ASSUME NEW m \in Members, ReadDonor(m) PROVE TypeOK'
  <2>1. Listed("donor", OfMember(m)) \in Lists
    BY <1>t, ListedFacts, OfFacts
  <2>2. move' \in MoveType
    BY <1>1, <1>t, <2>1 DEF ReadDonor, MoveType, Steps
  <2> QED BY <1>1, <2>2, MoveOnly DEF ReadDonor
<1>2. ASSUME UpgradeDonor PROVE TypeOK'
  <2> DEFINE U == Upgradable(move.snap)
  <2>1. BusType'
    BY <1>2, <1>t, <1>l, OfFacts, AsDidFacts, StoredFacts DEF UpgradeDonor
  <2>2. RecordType'
    BY <1>2, <1>t, WithRecordsFacts, Kinds DEF UpgradeDonor, RecordType
  <2>3. U \subseteq Rels
    BY <1>l, ListType DEF Upgradable
  <2>4. {With[i] : i \in U} \subseteq Peers
    BY <2>3, OfFacts
  <2>5. move.pico \in Members
    BY <1>2 DEF UpgradeDonor, MoveInv
  <2>6. move' = [move EXCEPT !.at = "peers", !.peers = {With[i] : i \in U},
                             !.done = @ \union {move.pico}]
    BY <1>2 DEF UpgradeDonor
  <2>7. move' \in MoveType
    <3> HIDE DEF U
    <3> QED BY <2>4, <2>5, <2>6, <1>t DEF MoveType, Steps
  <2>8. UNCHANGED <<to, shown, told, blob, history>>
    BY <1>2 DEF UpgradeDonor
  <2>9. NoteType' /\ BlobType' /\ HistoryType'
    BY <2>8, <1>t DEF NoteType, BlobType, HistoryType
  <2> QED BY <2>1, <2>2, <2>7, <2>9, TypeNext
<1>3. ASSUME NEW p \in Peers, ReadPeer(p) PROVE TypeOK'
  <2>1. Listed("peer", OfPeer(p)) \in Lists
    BY <1>t, ListedFacts, OfFacts
  <2>2. move' \in MoveType
    BY <1>3, <1>t, <2>1 DEF ReadPeer, MoveType, Steps
  <2> QED BY <1>3, <2>2, MoveOnly DEF ReadPeer
<1>4. ASSUME UpgradePeer PROVE TypeOK'
  <2>1. BusType'
    BY <1>4, <1>t, <1>l, OfFacts, AsDidFacts, StoredFacts DEF UpgradePeer
  <2>2. RecordType'
    BY <1>4, <1>t, LinkedFacts DEF UpgradePeer
  <2>3. move' \in MoveType
    BY <1>4, <1>t DEF UpgradePeer, MoveType, Steps
  <2>4. UNCHANGED <<to, shown, told, blob, history>>
    BY <1>4 DEF UpgradePeer
  <2>5. NoteType' /\ BlobType' /\ HistoryType'
    BY <2>4, <1>t DEF NoteType, BlobType, HistoryType
  <2> QED BY <2>1, <2>2, <2>3, <2>5, TypeNext
<1>5. ASSUME NEW m \in Members, exportNodeIdentity(m) PROVE TypeOK'
  <2>1. move' \in MoveType
    <3>1. "ent" \in Steps
      BY DEF Steps
    <3>2. \/ move' = [move EXCEPT !.at = "ent", !.pico = m, !.done = {}]
          \/ move' = [move EXCEPT !.at = "ent", !.pico = m]
      BY <1>5 DEF exportNodeIdentity
    <3> QED BY <1>t, <3>1, <3>2 DEF MoveType
  <2>2. BlobType'
    BY <1>5, <1>t, Kinds DEF exportNodeIdentity, BlobType, RecordType
  <2>3. UNCHANGED <<ends, history>>
    BY <1>5 DEF exportNodeIdentity
  <2> QED BY <2>1, <2>2, <2>3, <1>t, TypeNext
          DEF BusType, RecordType, NoteType, HistoryType, ends
<1>6. ASSUME exportEnt PROVE TypeOK'
  <2>1. move.pico \in Members
    BY <1>6 DEF exportEnt, MoveInv
  <2>2. move' \in MoveType
    BY <1>6, <1>t, <2>1 DEF exportEnt, MoveType, Steps
  <2>3. \A i \in Rels : bus["donor"][i] \in {"none"} \union Requests \union {"eci", "did"}
    BY <1>t, Kinds DEF BusType, Requests
  <2>4. BlobType'
    BY <1>6, <1>t, <2>3 DEF exportEnt, BlobType
  <2>5. UNCHANGED <<ends, history>>
    BY <1>6 DEF exportEnt
  <2> QED BY <2>2, <2>4, <2>5, <1>t, TypeNext
          DEF BusType, RecordType, NoteType, HistoryType, ends
<1> QED BY <1>1, <1>2, <1>3, <1>4, <1>5, <1>6 DEF Export

\* The copies' lists and records change, those of running picos do not.
LEMMA CopyType ==
  ASSUME BusType, RecordType, NEW B, NEW R,
         \A i \in Rels : B[i] \in Buses, \A i \in Rels : R[i] \in Records,
         B = [i \in Rels |-> B[i]], R = [i \in Rels |-> R[i]],
         bus' = [bus EXCEPT !["copy"] = B], record' = [record EXCEPT !["copy"] = R]
  PROVE  /\ BusType' /\ RecordType' /\ bus'["copy"] = B /\ record'["copy"] = R
         /\ \A e \in {"donor", "peer"} : bus'[e] = bus[e] /\ record'[e] = record[e]
<1>1. B \in [Rels -> Buses] /\ R \in [Rels -> Records]
  OBVIOUS
<1>2. bus' \in [Ends -> [Rels -> Buses]] /\ record' \in [Ends -> [Rels -> Records]]
  BY <1>1 DEF BusType, RecordType
<1>3. bus'["copy"] = B /\ record'["copy"] = R
  BY Kinds DEF BusType, RecordType
<1>4. \A e \in {"donor", "peer"} : bus'[e] = bus[e] /\ record'[e] = record[e]
  BY Kinds DEF BusType, RecordType
<1> QED BY <1>2, <1>3, <1>4 DEF BusType, RecordType

LEMMA TypeImport ==
  ASSUME TypeOK, MoveInv, Import
  PROVE  TypeOK'
<1>t. BusType /\ RecordType /\ NoteType /\ BlobType /\ move \in MoveType /\ HistoryType
  BY TypeParts
<1>l. move.snap \in Lists /\ \A i \in DOMAIN move.snap : move.snap[i] \in {"eci", "did"}
  BY <1>t, ListType DEF MoveType
<1>h. Here \subseteq Peers
  BY PortableMoveAssumption DEF PortableMoveAssumption
<1>1. ASSUME importNodes PROVE TypeOK'
  <2>1. \A i \in Rels : blob.bus[i] \in Buses /\ blob.record[i] \in Records
    BY <1>t, Kinds DEF BlobType, Requests
  <2>2. blob.bus = [i \in Rels |-> blob.bus[i]] /\ blob.record = [i \in Rels |-> blob.record[i]]
    BY <1>t DEF BlobType
  <2>3. BusType' /\ RecordType'
    BY <1>1, <1>t, <2>1, <2>2, CopyType DEF importNodes
  <2>4. move' \in MoveType
    BY <1>1, <1>t DEF importNodes, MoveType, Steps
  <2>5. UNCHANGED <<to, shown, told, blob, history>>
    BY <1>1 DEF importNodes
  <2>6. NoteType' /\ BlobType' /\ HistoryType'
    BY <2>5, <1>t DEF NoteType, BlobType, HistoryType
  <2> QED BY <2>3, <2>4, <2>6, TypeNext
<1>2. ASSUME syncLayer2EstablishedFromIdentity PROVE TypeOK'
  <2> DEFINE B == [i \in Rels |->
         IF record["copy"][i] = "none" THEN bus["copy"][i]
         ELSE IF bus["copy"][i] \in Requests THEN "both" ELSE "did"]
  <2>1. bus' = [bus EXCEPT !["copy"] = B] /\ record' = record
    BY <1>2, <1>t, Kinds DEF syncLayer2EstablishedFromIdentity, BusType
  <2>2. B \in [Rels -> Buses]
    BY <1>t, Kinds DEF BusType
  <2> HIDE DEF B
  <2>3. BusType' /\ RecordType'
    BY <2>1, <2>2, <1>t, Kinds DEF BusType, RecordType
  <2>4. move' \in MoveType
    BY <1>2, <1>t DEF syncLayer2EstablishedFromIdentity, MoveType, Steps
  <2>5. UNCHANGED <<to, shown, told, blob, history>>
    BY <1>2 DEF syncLayer2EstablishedFromIdentity
  <2>6. NoteType' /\ BlobType' /\ HistoryType'
    BY <2>5, <1>t DEF NoteType, BlobType, HistoryType
  <2> QED BY <2>3, <2>4, <2>6, TypeNext
<1>3. ASSUME relocateWebvhDid PROVE TypeOK'
  <2>1. move' \in MoveType
    BY <1>3, <1>t, OfFacts DEF relocateWebvhDid, MoveType, Steps
  <2> QED BY <1>3, <2>1, MoveOnly DEF relocateWebvhDid
<1>4. ASSUME NEW i \in Rels, notifyPeer(i) PROVE TypeOK'
  <2>1. move' \in MoveType
    BY <1>4, <1>t DEF notifyPeer, MoveType, Steps
  <2>2. HistoryType'
    BY <1>4, <1>t DEF notifyPeer, HistoryType
  <2>3. UNCHANGED <<ends, blob>>
    BY <1>4 DEF notifyPeer
  <2> QED BY <2>1, <2>2, <2>3, <1>t, TypeNext
          DEF BusType, RecordType, NoteType, BlobType, ends
<1>5. ASSUME handleSkyRotateAtIngress PROVE TypeOK'
  <2>1. move.rel \in Rels
    BY <1>5 DEF handleSkyRotateAtIngress, MoveInv
  <2>2. move' \in MoveType
    BY <1>5, <1>t DEF handleSkyRotateAtIngress, MoveType, Steps
  <2>3. RecordType'
    BY <1>5, <1>t, <2>1, Kinds DEF handleSkyRotateAtIngress, RecordType
  <2>4. NoteType'
    BY <1>5, <1>t, <2>1 DEF handleSkyRotateAtIngress, NoteType
  <2>5. UNCHANGED <<bus, blob, history>>
    BY <1>5 DEF handleSkyRotateAtIngress
  <2> QED BY <2>2, <2>3, <2>4, <2>5, <1>t, TypeNext DEF BusType, BlobType, HistoryType
<1>6. ASSUME NEW p \in Here, ReadHere(p) PROVE TypeOK'
  <2>1. Listed("peer", OfPeer(p)) \in Lists
    BY <1>t, ListedFacts, OfFacts
  <2>2. move' \in MoveType
    BY <1>6, <1>h, <1>t, <2>1 DEF ReadHere, MoveType, Steps
  <2> QED BY <1>6, <2>2, MoveOnly DEF ReadHere
<1>7. ASSUME refreshLocalPeersOfMovedRoot PROVE TypeOK'
  <2>1. BusType'
    BY <1>7, <1>t, <1>l, OfFacts, StoredFacts DEF refreshLocalPeersOfMovedRoot
  <2>2. move.peer \in Peers
    BY <1>7, <1>h DEF refreshLocalPeersOfMovedRoot, MoveInv
  <2>3. move' \in MoveType
    BY <1>7, <1>t, <2>2 DEF refreshLocalPeersOfMovedRoot, MoveType, Steps
  <2>4. NoteType'
    BY <1>7, <1>t DEF refreshLocalPeersOfMovedRoot, NoteType
  <2>5. UNCHANGED <<record, blob, history>>
    BY <1>7 DEF refreshLocalPeersOfMovedRoot
  <2> QED BY <2>1, <2>3, <2>4, <2>5, <1>t, TypeNext DEF RecordType, BlobType, HistoryType
<1>8. ASSUME Finish PROVE TypeOK'
  <2>1. move' \in MoveType
    BY <1>8, <1>t DEF Finish, MoveType, Steps
  <2> QED BY <1>8, <2>1, MoveOnly DEF Finish
<1> QED BY <1>1, <1>2, <1>3, <1>4, <1>5, <1>6, <1>7, <1>8 DEF Import

LEMMA TypePicos ==
  ASSUME TypeOK, NEW j \in Rels,
         PeerEnds(j) \/ DonorEnds(j) \/ Approve(j) \/ apply_webvh_peer_rotation(j)
  PROVE  TypeOK'
<1>t. BusType /\ RecordType /\ NoteType /\ BlobType /\ move \in MoveType /\ HistoryType
  BY TypeParts
<1>1. ASSUME NEW E, Remove(j, E) PROVE TypeOK'
  <2>1. BusType' /\ RecordType' /\ UNCHANGED <<to, shown, told, blob, move>>
    BY <1>1, RemoveFacts
  <2>2. HistoryType'
    BY <1>1, <1>t, RemoveFacts, CourseFacts DEF Owned
  <2> QED BY <2>1, <2>2, <1>t, TypeNext DEF NoteType, BlobType
<1>2. ASSUME Approve(j) PROVE TypeOK'
  <2>1. BusType' /\ RecordType' /\ UNCHANGED <<to, shown, told, blob, move>>
    BY <1>2, ApproveFacts
  <2>2. HistoryType'
    BY <1>2, <1>t, ApproveFacts, CourseFacts DEF Owned
  <2> QED BY <2>1, <2>2, <1>t, TypeNext DEF NoteType, BlobType
<1>3. ASSUME apply_webvh_peer_rotation(j) PROVE TypeOK'
  <2>1. BusType' /\ NoteType' /\ UNCHANGED <<record, blob, move, history>>
    BY <1>3, RotationFacts
  <2> QED BY <2>1, <1>t, TypeNext DEF RecordType, BlobType, HistoryType
<1>4. PeerEnds(j) \/ DonorEnds(j) => \E E \in SUBSET Ends : Remove(j, E)
  BY Kinds DEF PeerEnds, DonorEnds
<1> QED BY <1>1, <1>2, <1>3, <1>4

-----------------------------------------------------------------------------
(* Where the move is.                                                       *)

LEMMA MoveStep == TypeOK /\ MoveInv /\ [Next]_vars => MoveInv'
<1> SUFFICES ASSUME TypeOK, MoveInv, [Next]_vars PROVE MoveInv'
  OBVIOUS
<1>t. BusType /\ NoteType /\ move \in MoveType
  BY TypeParts
<1>l. \A I \in SUBSET Rels, e \in {"donor", "peer"} : DOMAIN Listed(e, I) \subseteq I
  BY <1>t, ListedFacts
<1>o. \A m : OfMember(m) \in SUBSET Rels /\ OfPeer(m) \in SUBSET Rels
  BY OfFacts
<1>1. CASE UNCHANGED <<move, told>>
  BY <1>1 DEF MoveInv
<1>2. ASSUME NEW m \in Members, ReadDonor(m) PROVE MoveInv'
  BY <1>2, <1>t, <1>l, <1>o DEF ReadDonor, Between, MoveInv, MoveType, ends
<1>3. ASSUME UpgradeDonor PROVE MoveInv'
  <2>1. Upgradable(move.snap) \subseteq {i \in Rels : With[i] \in Near}
    BY <1>t, ListType DEF Upgradable, MoveType
  <2>2. {With[i] : i \in Upgradable(move.snap)} \subseteq Near
    BY <2>1
  <2> QED BY <1>3, <1>t, <2>2 DEF UpgradeDonor, MoveInv, MoveType
<1>4. ASSUME NEW p \in Peers, ReadPeer(p) PROVE MoveInv'
  BY <1>4, <1>t, <1>l, <1>o DEF ReadPeer, MoveInv, MoveType, ends
<1>5. ASSUME UpgradePeer PROVE MoveInv'
  BY <1>5, <1>t DEF UpgradePeer, MoveInv, MoveType
<1>6. ASSUME NEW m \in Members, exportNodeIdentity(m) PROVE MoveInv'
  BY <1>6, <1>t DEF exportNodeIdentity, Between, MoveInv, MoveType, ends
<1>7. ASSUME exportEnt PROVE MoveInv'
  BY <1>7, <1>t DEF exportEnt, MoveInv, MoveType, ends
<1>8. ASSUME importNodes \/ syncLayer2EstablishedFromIdentity \/ relocateWebvhDid \/ Finish \/ Fail
      PROVE  MoveInv'
  <2>1. /\ told' = told
        /\ \/ move.at = "records" /\ move' = [move EXCEPT !.at = "sync"]
           \/ move.at = "sync" /\ move' = [move EXCEPT !.at = "relocate"]
           \/ move' = [move EXCEPT !.at = "notify", !.done = {},
                         !.left = {i \in OfMember(Root) : record["copy"][i] = "linked"}]
           \/ move.left = {} /\ move' = [move EXCEPT !.at = "done"]
           \/ move' = [move EXCEPT !.at = "failed"]
    BY <1>8 DEF importNodes, syncLayer2EstablishedFromIdentity, relocateWebvhDid, Finish, Fail,
                ends
  <2>2. /\ move'.peers = move.peers
        /\ move'.at \in {"sync", "relocate", "notify", "done", "failed"}
        /\ move'.at \in {"sync", "relocate"} => move.at \in {"records", "sync"}
        /\ move'.at = "done" => move'.left = {}
    BY <1>t, <2>1 DEF MoveType
  <2> QED BY <2>1, <2>2 DEF MoveInv
<1>9. ASSUME NEW i \in Rels, notifyPeer(i) PROVE MoveInv'
  BY <1>9, <1>t DEF notifyPeer, MoveInv, MoveType, ends
<1>10. ASSUME handleSkyRotateAtIngress PROVE MoveInv'
  BY <1>10, <1>t DEF handleSkyRotateAtIngress, MoveInv, MoveType
<1>11. ASSUME NEW p \in Here, ReadHere(p) PROVE MoveInv'
  BY <1>11, <1>t, <1>l, <1>o DEF ReadHere, MoveInv, MoveType, ends
<1>12. ASSUME refreshLocalPeersOfMovedRoot PROVE MoveInv'
  BY <1>12, <1>t DEF refreshLocalPeersOfMovedRoot, MoveInv, MoveType
<1>13. ASSUME NEW j \in Rels, PeerEnds(j) \/ DonorEnds(j) \/ Approve(j) PROVE MoveInv'
  BY <1>13, <1>1 DEF PeerEnds, DonorEnds, Remove, Approve
<1>14. ASSUME NEW j \in Rels, apply_webvh_peer_rotation(j) PROVE MoveInv'
  BY <1>14, <1>t DEF apply_webvh_peer_rotation, MoveInv, MoveType
<1>15. CASE UNCHANGED vars
  BY <1>15, <1>1 DEF vars
<1> QED BY <1>2, <1>3, <1>4, <1>5, <1>6, <1>7, <1>8, <1>9, <1>10, <1>11, <1>12, <1>13, <1>14,
           <1>15 DEF Next, Export, Import

-----------------------------------------------------------------------------
(* The lists of running picos.                                              *)

LEMMA InHandFacts ==
  /\ move.at \in {"upgrade", "ent"} => InHand = OfMember(move.pico)
  /\ move.at \in {"upgradePeer", "refresh"} => InHand = OfPeer(move.peer)
  /\ move.at = "link" => InHand = {move.rel}
BY DEF InHand

LEMMA ReadFacts ==
  /\ move.at \in {"records", "ent"} => Read = {i \in Rels : Of[i] \in move.done}
  /\ move.at \notin {"peers", "upgrade", "upgradePeer", "records", "ent"} => Read = Rels
BY DEF Read

\* A step that leaves i and the move's snapshot alone.
LEMMA ListSame ==
  ASSUME NEW i \in Rels, Owns(i), Snaps(i), Tells(i),
         \A e \in {"donor", "peer"} : /\ bus'[e][i] = bus[e][i]
                                      /\ record'[e][i] = record[e][i]
                                      /\ history'.own[e][i] = history.own[e][i],
         i \in told' => i \in told,
         \/ move' = move
         \/ move'.at \notin {"upgrade", "upgradePeer", "refresh"}
  PROVE  Owns(i)' /\ Snaps(i)' /\ Tells(i)'
BY DEF Owns, Snaps, Tells, On, SnapIs

LEMMA ListExport ==
  ASSUME TypeOK, MoveInv, Export, NEW i \in Rels, Owns(i), Snaps(i), Tells(i)
  PROVE  Owns(i)' /\ Snaps(i)' /\ Tells(i)'
<1>t. BusType /\ RecordType /\ NoteType /\ BlobType /\ move \in MoveType /\ HistoryType
  BY TypeParts
<1>l. /\ move.snap \in Lists /\ DOMAIN move.snap \subseteq Rels
      /\ \A k \in DOMAIN move.snap : move.snap[k] \in {"eci", "did"}
  BY <1>t, ListType DEF MoveType
<1>o. \A m : OfMember(m) \in SUBSET Rels /\ OfPeer(m) \in SUBSET Rels
  BY OfFacts
<1>h. UNCHANGED <<told, history>>
  BY DEF Export, ReadDonor, UpgradeDonor, ReadPeer, UpgradePeer, exportNodeIdentity, exportEnt, ends
<1>n. told = {} \/ move.at \notin {"peers", "upgrade", "upgradePeer"}
  BY DEF MoveInv
<1>1. ASSUME NEW m \in Members, ReadDonor(m) PROVE Owns(i)' /\ Snaps(i)' /\ Tells(i)'
  <2> DEFINE list == Listed("donor", OfMember(m))
  <2>1. UNCHANGED ends BY <1>1 DEF ReadDonor
  <2>2. Owns(i)' /\ Tells(i)'
    BY <2>1, <1>h DEF Owns, Tells, On, ends
  <2>3. DOMAIN list = {k \in OfMember(m) : On("donor", k)}
        /\ \A k \in DOMAIN list : list[k] = bus["donor"][k]
    BY <1>t, <1>o, ListedFacts
  <2>4. \/ move'.at = "peers"
        \/ move'.at = "upgrade" /\ move'.pico = m /\ move'.snap = list
    BY <1>1, <1>t DEF ReadDonor, Between, MoveType
  <2> HIDE DEF list
  <2>5. Snaps(i)'
    BY <2>1, <2>3, <2>4 DEF Snaps, SnapIs, On, ends, OfMember
  <2> QED BY <2>2, <2>5
<1>2. ASSUME UpgradeDonor PROVE Owns(i)' /\ Snaps(i)' /\ Tells(i)'
  <2> DEFINE U == Upgradable(move.snap)
             list == AsDid(move.snap, U)
  <2>1. /\ DOMAIN list = DOMAIN move.snap
        /\ \A k \in DOMAIN list : list[k] = IF k \in U THEN "did" ELSE move.snap[k]
        /\ \A k \in DOMAIN list : list[k] \in {"eci", "did"}
    BY <1>l, AsDidFacts
  <2>2. bus' = Stored("donor", OfMember(move.pico), list)
    BY <1>2 DEF UpgradeDonor
  <2> HIDE DEF list
  <2>3. /\ bus'["peer"] = bus["peer"]
        /\ bus'["donor"][i] = IF i \in DOMAIN list THEN list[i]
             ELSE IF i \in OfMember(move.pico) /\ On("donor", i) THEN "none" ELSE bus["donor"][i]
    BY <1>t, <1>o, <2>1, <2>2, StoredFacts, Kinds
  <2>4. /\ record'["peer"][i] = record["peer"][i]
        /\ record'["donor"][i] = IF i \in U /\ record["donor"][i] = "none" THEN "half"
                                 ELSE record["donor"][i]
    BY <1>2, <1>t, WithRecordsFacts, Kinds DEF UpgradeDonor
  <2>5. Of[i] = move.pico => SnapIs("donor", i)
    BY <1>2 DEF UpgradeDonor, Snaps
  <2>6. i \in DOMAIN move.snap => Of[i] = move.pico
    BY <1>2 DEF UpgradeDonor, MoveInv, OfMember
  <2>7. i \in OfMember(move.pico) <=> Of[i] = move.pico
    BY DEF OfMember
  <2>8. Owns(i)'
    BY <2>1, <2>3, <2>4, <2>5, <2>6, <2>7, <1>l, <1>h DEF Owns, SnapIs, On, Established
  <2>9. move'.at = "peers" /\ told' = {}
    BY <1>2, <1>t, <1>h, <1>n DEF UpgradeDonor, MoveType
  <2> QED BY <2>8, <2>9 DEF Snaps, Tells
<1>3. ASSUME NEW p \in Peers, ReadPeer(p) PROVE Owns(i)' /\ Snaps(i)' /\ Tells(i)'
  <2> DEFINE list == Listed("peer", OfPeer(p))
  <2>1. UNCHANGED ends BY <1>3 DEF ReadPeer
  <2>2. Owns(i)' /\ Tells(i)'
    BY <2>1, <1>h DEF Owns, Tells, On, ends
  <2>3. DOMAIN list = {k \in OfPeer(p) : On("peer", k)}
        /\ \A k \in DOMAIN list : list[k] = bus["peer"][k]
    BY <1>t, <1>o, ListedFacts
  <2>4. \/ move'.at = "peers"
        \/ move'.at = "upgradePeer" /\ move'.peer = p /\ move'.snap = list
    BY <1>3, <1>t DEF ReadPeer, MoveType
  <2> HIDE DEF list
  <2>5. Snaps(i)'
    BY <2>1, <2>3, <2>4 DEF Snaps, SnapIs, On, ends, OfPeer
  <2> QED BY <2>2, <2>5
<1>4. ASSUME UpgradePeer PROVE Owns(i)' /\ Snaps(i)' /\ Tells(i)'
  <2> DEFINE U == Reciprocal(move.snap)
             list == AsDid(move.snap, U)
  <2>1. /\ DOMAIN list = DOMAIN move.snap
        /\ \A k \in DOMAIN list : list[k] = IF k \in U THEN "did" ELSE move.snap[k]
        /\ \A k \in DOMAIN list : list[k] \in {"eci", "did"}
    BY <1>l, AsDidFacts
  <2>2. bus' = Stored("peer", OfPeer(move.peer), list) /\ record' = Linked(U)
    BY <1>4 DEF UpgradePeer
  <2> HIDE DEF list, U
  <2>3. /\ bus'["donor"] = bus["donor"]
        /\ bus'["peer"][i] = IF i \in DOMAIN list THEN list[i]
             ELSE IF i \in OfPeer(move.peer) /\ On("peer", i) THEN "none" ELSE bus["peer"][i]
    BY <1>t, <1>o, <2>1, <2>2, StoredFacts, Kinds
  <2>4. /\ i \in U => record'["peer"][i] # "none"
        /\ i \notin U => record'["peer"][i] = record["peer"][i]
        /\ record["donor"][i] # "none" => record'["donor"][i] # "none"
    BY <1>t, <2>2, LinkedFacts
  <2>5. With[i] = move.peer => SnapIs("peer", i)
    BY <1>4 DEF UpgradePeer, Snaps
  <2>6. i \in DOMAIN move.snap => With[i] = move.peer
    BY <1>4 DEF UpgradePeer, MoveInv, OfPeer
  <2>7. i \in OfPeer(move.peer) <=> With[i] = move.peer
    BY DEF OfPeer
  <2>8. Owns(i)'
    BY <2>1, <2>3, <2>4, <2>5, <2>6, <2>7, <1>l, <1>h DEF Owns, SnapIs, On, Established
  <2>9. move'.at = "peers" /\ told' = {}
    BY <1>4, <1>t, <1>h, <1>n DEF UpgradePeer, MoveType
  <2> QED BY <2>8, <2>9 DEF Snaps, Tells
<1>5. ASSUME NEW m \in Members, exportNodeIdentity(m) PROVE Owns(i)' /\ Snaps(i)' /\ Tells(i)'
  <2>1. UNCHANGED ends /\ move'.at = "ent"
    BY <1>5, <1>t DEF exportNodeIdentity, MoveType
  <2> QED BY <2>1, <1>h, ListSame DEF ends
<1>6. ASSUME exportEnt PROVE Owns(i)' /\ Snaps(i)' /\ Tells(i)'
  <2>1. UNCHANGED ends /\ move'.at = "records"
    BY <1>6, <1>t DEF exportEnt, MoveType
  <2> QED BY <2>1, <1>h, ListSame DEF ends
<1> QED BY <1>1, <1>2, <1>3, <1>4, <1>5, <1>6 DEF Export

\* What the copies' lists and records become leaves those of running picos alone.
LEMMA CopyFacts ==
  ASSUME TypeOK, importNodes \/ syncLayer2EstablishedFromIdentity
  PROVE  /\ \A e \in {"donor", "peer"} : bus'[e] = bus[e] /\ record'[e] = record[e]
         /\ UNCHANGED <<to, shown, told, blob, history>>
         /\ \A i \in Rels :
              IF importNodes
              THEN /\ bus'["copy"][i] = blob.bus[i] /\ record'["copy"][i] = blob.record[i]
              ELSE /\ record'["copy"][i] = record["copy"][i]
                   /\ bus'["copy"][i] =
                        IF record["copy"][i] = "none" THEN bus["copy"][i]
                        ELSE IF bus["copy"][i] \in Requests THEN "both" ELSE "did"
<1>t. BusType /\ RecordType
  BY TypeParts
<1>1. CASE importNodes
  BY <1>1, <1>t, Kinds DEF importNodes, BusType, RecordType
<1>2. CASE syncLayer2EstablishedFromIdentity
  <2>1. ~importNodes
    BY <1>2 DEF importNodes, syncLayer2EstablishedFromIdentity
  <2> QED BY <1>2, <2>1, <1>t, Kinds DEF syncLayer2EstablishedFromIdentity, BusType, RecordType
<1> QED BY <1>1, <1>2

LEMMA ListImport ==
  ASSUME TypeOK, MoveInv, Import, NEW i \in Rels, Owns(i), Snaps(i), Tells(i)
  PROVE  Owns(i)' /\ Snaps(i)' /\ Tells(i)'
<1>t. BusType /\ RecordType /\ NoteType /\ BlobType /\ move \in MoveType /\ HistoryType
  BY TypeParts
<1>l. /\ move.snap \in Lists /\ DOMAIN move.snap \subseteq Rels
      /\ \A k \in DOMAIN move.snap : move.snap[k] \in {"eci", "did"}
  BY <1>t, ListType DEF MoveType
<1>o. \A m : OfMember(m) \in SUBSET Rels /\ OfPeer(m) \in SUBSET Rels
  BY OfFacts
<1>1. ASSUME importNodes \/ syncLayer2EstablishedFromIdentity
      PROVE  Owns(i)' /\ Snaps(i)' /\ Tells(i)'
  <2>1. move'.at \in {"sync", "relocate"}
    BY <1>1, <1>t DEF importNodes, syncLayer2EstablishedFromIdentity, MoveType
  <2>2. /\ \A e \in {"donor", "peer"} : bus'[e] = bus[e] /\ record'[e] = record[e]
        /\ UNCHANGED <<to, shown, told, blob, history>>
    BY <1>1, CopyFacts
  <2> QED BY <2>1, <2>2, ListSame
<1>2. ASSUME relocateWebvhDid \/ Finish PROVE Owns(i)' /\ Snaps(i)' /\ Tells(i)'
  <2>1. UNCHANGED <<ends, history>> /\ move'.at \in {"notify", "done"}
    BY <1>2, <1>t DEF relocateWebvhDid, Finish, MoveType
  <2> QED BY <2>1, ListSame DEF ends
<1>3. ASSUME NEW k \in Rels, notifyPeer(k) PROVE Owns(i)' /\ Snaps(i)' /\ Tells(i)'
  <2>1. UNCHANGED ends /\ move'.at \in {"notify", "link"} /\ history'.own = history.own
    BY <1>3, <1>t DEF notifyPeer, MoveType, HistoryType
  <2> QED BY <2>1, ListSame DEF ends
<1>4. ASSUME handleSkyRotateAtIngress PROVE Owns(i)' /\ Snaps(i)' /\ Tells(i)'
  <2>1. UNCHANGED <<bus, history>> /\ move'.at = "notify" /\ told' = told \union {move.rel}
    BY <1>4, <1>t DEF handleSkyRotateAtIngress, MoveType
  <2>2. /\ record'["donor"][i] = record["donor"][i]
        /\ record'["peer"][i] = IF i = move.rel THEN "linked" ELSE record["peer"][i]
    BY <1>4, <1>t, Kinds DEF handleSkyRotateAtIngress, RecordType
  <2>3. Owns(i)' /\ Tells(i)'
    BY <2>1, <2>2 DEF Owns, Tells, On
  <2> QED BY <2>1, <2>3 DEF Snaps
<1>5. ASSUME NEW p \in Here, ReadHere(p) PROVE Owns(i)' /\ Snaps(i)' /\ Tells(i)'
  <2> DEFINE list == Listed("peer", OfPeer(p))
  <2>1. UNCHANGED <<ends, history>> BY <1>5 DEF ReadHere
  <2>2. Owns(i)' /\ Tells(i)'
    BY <2>1 DEF Owns, Tells, On, ends
  <2>3. DOMAIN list = {k \in OfPeer(p) : On("peer", k)}
        /\ \A k \in DOMAIN list : list[k] = bus["peer"][k]
    BY <1>t, <1>o, ListedFacts
  <2>4. \/ move'.at = "notify"
        \/ move'.at = "refresh" /\ move'.peer = p /\ move'.snap = list
    BY <1>5, <1>t DEF ReadHere, MoveType
  <2> HIDE DEF list
  <2>5. Snaps(i)'
    BY <2>1, <2>3, <2>4 DEF Snaps, On, ends, OfPeer
  <2> QED BY <2>2, <2>5
<1>6. ASSUME refreshLocalPeersOfMovedRoot PROVE Owns(i)' /\ Snaps(i)' /\ Tells(i)'
  <2> DEFINE list == move.snap
  <2>1. bus' = Stored("peer", OfPeer(move.peer), list)
    BY <1>6 DEF refreshLocalPeersOfMovedRoot
  <2>2. /\ bus'["donor"] = bus["donor"]
        /\ bus'["peer"][i] = IF i \in DOMAIN list THEN list[i]
             ELSE IF i \in OfPeer(move.peer) /\ On("peer", i) THEN "none" ELSE bus["peer"][i]
    BY <1>t, <1>o, <1>l, <2>1, StoredFacts, Kinds
  <2>3. UNCHANGED <<record, told, history>> /\ move'.at = "notify"
    BY <1>6, <1>t DEF refreshLocalPeersOfMovedRoot, MoveType
  <2>4. With[i] = move.peer => /\ i \in DOMAIN list <=> On("peer", i)
                               /\ i \in DOMAIN list /\ list[i] = "did" => bus["peer"][i] = "did"
    BY <1>6 DEF refreshLocalPeersOfMovedRoot, Snaps
  <2>5. i \in DOMAIN list => With[i] = move.peer
    BY <1>6 DEF refreshLocalPeersOfMovedRoot, MoveInv, OfPeer
  <2>6. i \in OfPeer(move.peer) <=> With[i] = move.peer
    BY DEF OfPeer
  <2>7. On("peer", i)' <=> On("peer", i)
    BY <2>2, <2>4, <2>5, <2>6, <1>l DEF On, Established
  <2>8. bus'["peer"][i] = "did" => bus["peer"][i] = "did"
    BY <2>2, <2>4, <2>5
  <2>9. Owns(i)' /\ Tells(i)'
    BY <2>2, <2>3, <2>7, <2>8 DEF Owns, Tells, On
  <2> QED BY <2>3, <2>9 DEF Snaps
<1> QED BY <1>1, <1>2, <1>3, <1>4, <1>5, <1>6 DEF Import

\* An event about i in the mover's hands makes i raced; any other leaves the
\* snapshot to be what it was.
LEMMA ListPicos ==
  ASSUME TypeOK, MoveInv, NEW i \in Rels, ListInv(i), NEW j \in Rels,
         PeerEnds(j) \/ DonorEnds(j) \/ Approve(j)
  PROVE  ListInv(i)'
<1>t. BusType /\ RecordType /\ HistoryType
  BY TypeParts
<1>1. ASSUME NEW E, NEW s \in Owned, Course(j, E, s), UNCHANGED <<told, move>>,
             s = "ended" \/ s = "established",
             \A e \in {"donor", "peer"}, k \in Rels :
               /\ bus'[e][k] = IF e \in E /\ k = j THEN IF s = "ended" THEN "none" ELSE "did"
                               ELSE bus[e][k]
               /\ record'[e][k] = IF e \in E /\ k = j
                                  THEN IF s = "ended" THEN "none" ELSE "linked"
                                  ELSE record[e][k]
      PROVE  ListInv(i)'
  <2> SUFFICES ASSUME i \notin history'.raced PROVE Owns(i)' /\ Snaps(i)' /\ Tells(i)'
    BY DEF ListInv
  <2>1. /\ \A e \in {"donor", "peer"} : history'.own[e][i] =
              IF e \in E /\ i = j THEN s ELSE history.own[e][i]
        /\ history'.raced = history.raced \union ({j} \intersect InHand)
    BY <1>1, <1>t, CourseFacts
  <2>2. Owns(i) /\ Snaps(i) /\ Tells(i)
    BY <2>1 DEF ListInv
  <2>3. CASE i # j
    BY <1>1, <2>1, <2>2, <2>3, ListSame
  <2>4. CASE i = j
    <3>1. Owns(i)'
      BY <1>1, <2>1, <2>2, <2>4 DEF Owns, On, Established
    <3>2. Tells(i)'
      BY <1>1, <2>2, <2>4 DEF Tells, On, Established
    <3>3. Snaps(i)'
      BY <1>1, <2>1, <2>4, InHandFacts DEF Snaps, OfMember, OfPeer
    <3> QED BY <3>1, <3>2, <3>3
  <2> QED BY <2>3, <2>4
<1>2. ASSUME NEW E, Remove(j, E) PROVE ListInv(i)'
  BY <1>2, <1>1, RemoveFacts, Kinds DEF Owned
<1>3. ASSUME Approve(j) PROVE ListInv(i)'
  BY <1>3, <1>1, ApproveFacts, Kinds DEF Owned
<1> QED BY <1>2, <1>3 DEF PeerEnds, DonorEnds

LEMMA ListRotation ==
  ASSUME TypeOK, MoveInv, NEW i \in Rels, ListInv(i), NEW j \in Rels,
         apply_webvh_peer_rotation(j)
  PROVE  ListInv(i)'
<1>1. /\ bus'["donor"] = bus["donor"]
      /\ bus'["peer"][i] = IF i = j /\ On("peer", j) THEN "did" ELSE bus["peer"][i]
      /\ j \in told /\ told' = told \ {j}
      /\ UNCHANGED <<record, move, history>>
  BY RotationFacts
<1>2. move.at \notin {"upgrade", "upgradePeer"}
  BY <1>1 DEF MoveInv
<1>3. On("peer", i)' <=> On("peer", i)
  BY <1>1 DEF On, Established
<1> SUFFICES ASSUME i \notin history'.raced PROVE Owns(i)' /\ Snaps(i)' /\ Tells(i)'
  BY DEF ListInv
<1>4. Owns(i) /\ Snaps(i) /\ Tells(i)
  BY <1>1 DEF ListInv
<1>5. Owns(i)'
  BY <1>1, <1>3, <1>4 DEF Owns, Tells, On
<1>6. Snaps(i)'
  BY <1>1, <1>2, <1>3, <1>4 DEF Snaps
<1>7. Tells(i)'
  BY <1>1, <1>3, <1>4 DEF Tells
<1> QED BY <1>5, <1>6, <1>7

LEMMA ListStep ==
  TypeOK /\ MoveInv /\ (\A i \in Rels : ListInv(i)) /\ [Next]_vars => (\A i \in Rels : ListInv(i))'
<1> SUFFICES ASSUME TypeOK, MoveInv, \A i \in Rels : ListInv(i), [Next]_vars, NEW i \in Rels
             PROVE  ListInv(i)'
  OBVIOUS
<1>t. HistoryType /\ move \in MoveType
  BY TypeParts
<1>1. CASE Export
  <2>1. history' = history
    BY <1>1 DEF Export, ReadDonor, UpgradeDonor, ReadPeer, UpgradePeer, exportNodeIdentity, exportEnt
  <2> QED BY <1>1, <2>1, ListExport DEF ListInv
<1>2. CASE Import
  <2>1. history'.raced = history.raced
    BY <1>2, <1>t DEF Import, importNodes, syncLayer2EstablishedFromIdentity, relocateWebvhDid,
         notifyPeer, handleSkyRotateAtIngress, ReadHere, refreshLocalPeersOfMovedRoot, Finish,
         HistoryType
  <2> QED BY <1>2, <2>1, ListImport DEF ListInv
<1>3. CASE Fail \/ UNCHANGED vars
  <2>1. UNCHANGED <<ends, history>> /\ (move' = move \/ move'.at = "failed")
    BY <1>3, <1>t DEF Fail, vars, ends, MoveType
  <2> QED BY <2>1, ListSame DEF ListInv, ends
<1>4. CASE \E j \in Rels : PeerEnds(j) \/ DonorEnds(j) \/ Approve(j)
  BY <1>4, ListPicos
<1>5. CASE \E j \in Rels : apply_webvh_peer_rotation(j)
  BY <1>5, ListRotation
<1> QED BY <1>1, <1>2, <1>3, <1>4, <1>5 DEF Next

-----------------------------------------------------------------------------
(* Both ends of a relationship while the export is at work.                 *)

LinkExport(i) == ByEci(i) \/ ByDid(i) \/ Halfway(i)

LEMMA LinkDonor ==
  ASSUME TypeOK, MoveInv, UpgradeDonor, NEW i \in Rels, Owns(i), Snaps(i), Both(i),
         ByEci(i) \/ ByDid(i)
  PROVE  LinkExport(i)'
<1> DEFINE U == Upgradable(move.snap)
           list == AsDid(move.snap, U)
<1>t. BusType /\ RecordType /\ move \in MoveType
  BY TypeParts
<1>l. /\ move.snap \in Lists /\ DOMAIN move.snap \subseteq Rels
      /\ \A k \in DOMAIN move.snap : move.snap[k] \in {"eci", "did"}
  BY <1>t, ListType DEF MoveType
<1>1. /\ DOMAIN list = DOMAIN move.snap
      /\ \A k \in DOMAIN list : list[k] = IF k \in U THEN "did" ELSE move.snap[k]
      /\ \A k \in DOMAIN list : list[k] \in {"eci", "did"}
  BY <1>l, AsDidFacts
<1>2. bus' = Stored("donor", OfMember(move.pico), list)
  BY DEF UpgradeDonor
<1>3. U = {k \in DOMAIN move.snap : move.snap[k] = "eci" /\ With[k] \in Near}
  BY DEF Upgradable
<1>4. record' = WithRecords("donor", U)
  BY DEF UpgradeDonor
<1>5. move' = [move EXCEPT !.at = "peers", !.peers = {With[k] : k \in U},
                           !.done = @ \union {move.pico}]
  BY DEF UpgradeDonor
<1> HIDE DEF list, U
<1>6. /\ bus'["peer"] = bus["peer"]
      /\ bus'["donor"][i] = IF i \in DOMAIN list THEN list[i]
           ELSE IF i \in OfMember(move.pico) /\ On("donor", i) THEN "none" ELSE bus["donor"][i]
  BY <1>t, <1>1, <1>2, OfFacts, StoredFacts, Kinds
<1>7. /\ record'["peer"][i] = record["peer"][i]
      /\ record'["donor"][i] = IF i \in U /\ record["donor"][i] = "none" THEN "half"
                               ELSE record["donor"][i]
  BY <1>4, <1>t, WithRecordsFacts, Kinds
<1>8. /\ move'.at = "peers" /\ move'.pico = move.pico
      /\ move'.peers = {With[k] : k \in U} /\ move'.done = move.done \union {move.pico}
  BY <1>5, <1>t DEF MoveType
<1>9. Of[i] = move.pico => SnapIs("donor", i)
  BY DEF UpgradeDonor, Snaps
<1>10. i \in DOMAIN move.snap => Of[i] = move.pico
  BY DEF UpgradeDonor, MoveInv, OfMember
<1>11. Exporting'
  BY <1>8 DEF Exporting
<1>12. On("donor", i)
  BY DEF Owns, Both
<1>13. CASE i \in U
  <2>1. bus["donor"][i] = "eci"
    BY <1>13, <1>3, <1>9, <1>10 DEF SnapIs
  <2>2. ByEci(i)
    BY <2>1 DEF ByDid
  <2>3. bus'["donor"][i] = "did"
    BY <1>13, <1>1, <1>3, <1>6
  <2>4. With[i] \in move'.peers
    BY <1>13, <1>8
  <2>5. Halfway(i)'
    BY <1>3, <1>6, <1>7, <1>8, <1>10, <1>13, <2>2, <2>3, <2>4 DEF Halfway, ByEci
  <2> QED BY <2>5 DEF LinkExport
<1>14. CASE i \notin U
  <2>1. bus'["donor"][i] = bus["donor"][i]
    BY <1>14, <1>1, <1>6, <1>9, <1>10, <1>12 DEF SnapIs, OfMember
  <2>2. CASE ByDid(i)
    BY <2>1, <2>2, <1>6, <1>7, <1>14 DEF ByDid, LinkExport
  <2>3. CASE ByEci(i)
    <3>1. With[i] \in Near => Of[i] \notin move.done /\ Of[i] # move.pico
      BY <2>3, <1>3, <1>9, <1>12, <1>14 DEF ByEci, SnapIs
    <3>2. With[i] \in Near => Of[i] \notin move'.done
      BY <3>1, <1>8
    <3>3. ByEci(i)'
      BY <2>1, <2>3, <3>2, <1>6, <1>7, <1>11, <1>14 DEF ByEci
    <3> QED BY <3>3 DEF LinkExport
  <2> QED BY <2>2, <2>3
<1> QED BY <1>13, <1>14

LEMMA LinkPeer ==
  ASSUME TypeOK, MoveInv, UpgradePeer, NEW i \in Rels, Owns(i), Snaps(i), Both(i),
         LinkExport(i)
  PROVE  LinkExport(i)'
<1> DEFINE U == Reciprocal(move.snap)
           list == AsDid(move.snap, U)
<1>t. BusType /\ RecordType /\ move \in MoveType
  BY TypeParts
<1>l. /\ move.snap \in Lists /\ DOMAIN move.snap \subseteq Rels
      /\ \A k \in DOMAIN move.snap : move.snap[k] \in {"eci", "did"}
  BY <1>t, ListType DEF MoveType
<1>1. /\ DOMAIN list = DOMAIN move.snap
      /\ \A k \in DOMAIN list : list[k] = IF k \in U THEN "did" ELSE move.snap[k]
      /\ \A k \in DOMAIN list : list[k] \in {"eci", "did"}
  BY <1>l, AsDidFacts
<1>2. bus' = Stored("peer", OfPeer(move.peer), list) /\ record' = Linked(U)
  BY DEF UpgradePeer
<1>3. U = {k \in DOMAIN move.snap : move.snap[k] = "eci" /\ Of[k] = move.pico}
  BY DEF Reciprocal
<1>5. move' = [move EXCEPT !.at = "peers", !.peers = @ \ {move.peer}]
  BY DEF UpgradePeer
<1> HIDE DEF list, U
<1>6. /\ bus'["donor"] = bus["donor"]
      /\ bus'["peer"][i] = IF i \in DOMAIN list THEN list[i]
           ELSE IF i \in OfPeer(move.peer) /\ On("peer", i) THEN "none" ELSE bus["peer"][i]
  BY <1>t, <1>1, <1>2, OfFacts, StoredFacts, Kinds
<1>7. /\ i \notin U => /\ record'["donor"][i] = record["donor"][i]
                       /\ record'["peer"][i] = record["peer"][i]
      /\ i \in U /\ record["donor"][i] # "none" =>
           record'["donor"][i] = "linked" /\ record'["peer"][i] = "linked"
  BY <1>2, <1>t, LinkedFacts
<1>8. /\ move'.at = "peers" /\ move'.pico = move.pico
      /\ move'.peers = move.peers \ {move.peer} /\ move'.done = move.done
  BY <1>5, <1>t DEF MoveType
<1>9. With[i] = move.peer => SnapIs("peer", i)
  BY DEF UpgradePeer, Snaps
<1>10. i \in DOMAIN move.snap => With[i] = move.peer
  BY DEF UpgradePeer, MoveInv, OfPeer
<1>11. Exporting' /\ move.pico \in move.done /\ move.peer \in Near
  BY <1>8 DEF Exporting, UpgradePeer, MoveInv
<1>12. On("peer", i)
  BY DEF Owns, Both
<1>13. CASE i \in U
  <2>1. bus["peer"][i] = "eci" /\ Of[i] = move.pico /\ With[i] \in Near
    BY <1>13, <1>3, <1>9, <1>10, <1>11 DEF SnapIs
  <2>2. Halfway(i)
    BY <2>1, <1>11 DEF LinkExport, ByDid, ByEci
  <2>3. bus'["peer"][i] = "did"
    BY <1>13, <1>1, <1>3, <1>6
  <2>4. ByDid(i)'
    BY <1>6, <1>7, <1>13, <2>2, <2>3 DEF Halfway, ByDid
  <2> QED BY <2>4 DEF LinkExport
<1>14. CASE i \notin U
  <2>1. bus'["peer"][i] = bus["peer"][i]
    BY <1>14, <1>1, <1>6, <1>9, <1>10, <1>12 DEF SnapIs, OfPeer
  <2>2. CASE ByDid(i)
    BY <2>1, <2>2, <1>6, <1>7, <1>14 DEF ByDid, LinkExport
  <2>3. CASE ByEci(i)
    <3>1. ByEci(i)'
      BY <2>1, <2>3, <1>6, <1>7, <1>8, <1>11, <1>14 DEF ByEci
    <3> QED BY <3>1 DEF LinkExport
  <2>4. CASE Halfway(i)
    <3>1. With[i] # move.peer
      BY <2>4, <1>3, <1>9, <1>12, <1>14 DEF Halfway, SnapIs
    <3>2. Halfway(i)'
      BY <2>1, <2>4, <3>1, <1>6, <1>7, <1>8, <1>14 DEF Halfway
    <3> QED BY <3>2 DEF LinkExport
  <2> QED BY <2>2, <2>3, <2>4 DEF LinkExport
<1> QED BY <1>13, <1>14

LEMMA LinkStep ==
  ASSUME TypeOK, MoveInv, [Next]_vars, NEW i \in Rels, ListInv(i), LinkInv(i)
  PROVE  LinkInv(i)'
<1> SUFFICES ASSUME i \notin history'.raced, Both(i)', Exporting' \/ Reading'
             PROVE  LinkExport(i)'
  BY DEF LinkInv, LinkExport
<1>t. BusType /\ RecordType /\ move \in MoveType /\ HistoryType
  BY TypeParts
<1>i. i \notin history.raced /\ Both(i) /\ (Exporting \/ Reading) =>
        Owns(i) /\ Snaps(i) /\ LinkExport(i)
  BY DEF ListInv, LinkInv, LinkExport
<1>s. ASSUME history' = history, move'.at \in {"peers", "upgrade", "upgradePeer", "records", "ent"} =>
               move.at \in {"peers", "upgrade", "upgradePeer", "records", "ent"}
      PROVE  Owns(i) /\ Snaps(i) /\ LinkExport(i) /\ Both(i) /\ (Exporting \/ Reading)
  BY <1>s, <1>i DEF Both, Exporting, Reading
<1>1. ASSUME NEW m \in Members, ReadDonor(m) PROVE LinkExport(i)'
  <2> DEFINE list == Listed("donor", OfMember(m))
  <2>1. UNCHANGED <<ends, history>> /\ move.at = "peers" /\ move.peers = {}
    BY <1>1 DEF ReadDonor, Between
  <2>2. ByEci(i) \/ ByDid(i)
    BY <1>s, <2>1 DEF LinkExport, Halfway
  <2>3. DOMAIN list = {k \in OfMember(m) : On("donor", k)}
        /\ \A k \in DOMAIN list : list[k] = bus["donor"][k]
    BY <1>t, OfFacts, ListedFacts
  <2>4. \/ /\ move'.at = "peers" /\ move'.done = move.done \union {m}
           /\ Upgradable(list) = {}
        \/ move'.at = "upgrade" /\ move'.done = move.done
    <3>1. move' = IF Upgradable(list) = {} THEN [move EXCEPT !.done = @ \union {m}]
                  ELSE [move EXCEPT !.at = "upgrade", !.pico = m, !.snap = list]
      BY <1>1 DEF ReadDonor
    <3> HIDE DEF list
    <3> QED BY <3>1, <2>1, <1>t DEF MoveType
  <2>5. Exporting'
    BY <2>4 DEF Exporting
  <2>6. CASE ByDid(i)
    BY <2>1, <2>6 DEF ByDid, LinkExport, ends
  <2>7. CASE ByEci(i)
    <3>1. On("donor", i)
      BY <2>7 DEF ByEci, On, Established
    <3>2. Upgradable(list) = {} /\ With[i] \in Near => Of[i] # m
      BY <2>3, <2>7, <3>1 DEF Upgradable, ByEci, OfMember
    <3>3. With[i] \in Near => Of[i] \notin move'.done
      BY <2>4, <2>7, <3>2 DEF ByEci
    <3> QED BY <2>1, <2>5, <2>7, <3>3 DEF ByEci, LinkExport, ends
  <2> QED BY <2>2, <2>6, <2>7
<1>2. ASSUME UpgradeDonor PROVE LinkExport(i)'
  <2>1. history' = history /\ move.at = "upgrade"
    BY <1>2 DEF UpgradeDonor
  <2>2. Owns(i) /\ Snaps(i) /\ LinkExport(i) /\ Both(i)
    BY <2>1, <1>s
  <2> QED BY <1>2, <2>1, <2>2, LinkDonor DEF LinkExport, Halfway
<1>3. ASSUME NEW p \in Peers, ReadPeer(p) PROVE LinkExport(i)'
  <2> DEFINE list == Listed("peer", OfPeer(p))
  <2>1. UNCHANGED <<ends, history>> /\ move.at = "peers"
    BY <1>3 DEF ReadPeer
  <2>2. LinkExport(i)
    BY <1>s, <2>1
  <2>3. DOMAIN list = {k \in OfPeer(p) : On("peer", k)}
        /\ \A k \in DOMAIN list : list[k] = bus["peer"][k]
    BY <1>t, OfFacts, ListedFacts
  <2>4. /\ move'.done = move.done /\ move'.pico = move.pico
        /\ \/ move'.at = "peers" /\ move'.peers = move.peers \ {p} /\ Reciprocal(list) = {}
           \/ move'.at = "upgradePeer" /\ move'.peers = move.peers
    BY <1>3, <1>t DEF ReadPeer, MoveType
  <2>5. Exporting'
    BY <2>4 DEF Exporting
  <2>6. CASE ByDid(i)
    BY <2>1, <2>6 DEF ByDid, LinkExport, ends
  <2>7. CASE ByEci(i)
    BY <2>1, <2>4, <2>5, <2>7 DEF ByEci, LinkExport, ends
  <2>8. CASE Halfway(i)
    <3>1. On("peer", i)
      BY <2>8 DEF Halfway, On, Established
    <3>2. Reciprocal(list) = {} => With[i] # p
      BY <2>3, <2>8, <3>1 DEF Reciprocal, Halfway, OfPeer
    <3> QED BY <2>1, <2>4, <2>8, <3>2 DEF Halfway, LinkExport, ends
  <2> QED BY <2>2, <2>6, <2>7, <2>8 DEF LinkExport
<1>4. ASSUME UpgradePeer PROVE LinkExport(i)'
  <2>1. history' = history /\ move.at = "upgradePeer"
    BY <1>4 DEF UpgradePeer
  <2>2. Owns(i) /\ Snaps(i) /\ LinkExport(i) /\ Both(i)
    BY <2>1, <1>s
  <2> QED BY <1>4, <2>2, LinkPeer
<1>5. ASSUME NEW m \in Members, exportNodeIdentity(m) PROVE LinkExport(i)'
  <2>1. UNCHANGED <<ends, history>> /\ move'.at = "ent"
    BY <1>5, <1>t DEF exportNodeIdentity, MoveType
  <2>2. \/ move.at = "records"
        \/ move.at = "peers" /\ move.peers = {} /\ move.done = Members
    BY <1>5 DEF exportNodeIdentity, Between
  <2>3. ByEci(i) \/ ByDid(i)
    BY <1>s, <2>1, <2>2 DEF LinkExport, Halfway
  <2>4. ByEci(i) => With[i] \notin Near
    BY <2>2, OfFacts DEF ByEci, Exporting
  <2> QED BY <2>1, <2>3, <2>4 DEF ByEci, ByDid, LinkExport, ends
<1>6. ASSUME exportEnt PROVE LinkExport(i)'
  <2>1. UNCHANGED <<ends, history>> /\ move'.at = "records" /\ move.at = "ent"
    BY <1>6, <1>t DEF exportEnt, MoveType
  <2>3. ByEci(i) \/ ByDid(i)
    BY <1>s, <2>1 DEF LinkExport, Halfway
  <2>4. ByEci(i) => With[i] \notin Near
    BY <2>1 DEF ByEci, Exporting
  <2> QED BY <2>1, <2>3, <2>4 DEF ByEci, ByDid, LinkExport, ends
<1>7. CASE Import \/ Fail
  <2> DEFINE Past == move'.at \notin {"peers", "upgrade", "upgradePeer", "records", "ent"}
  <2>1. importNodes \/ syncLayer2EstablishedFromIdentity \/ relocateWebvhDid => Past
    BY <1>t DEF importNodes, syncLayer2EstablishedFromIdentity, relocateWebvhDid, MoveType
  <2>2. (\E j \in Rels : notifyPeer(j)) \/ handleSkyRotateAtIngress => Past
    BY <1>t DEF notifyPeer, handleSkyRotateAtIngress, MoveType
  <2>3. (\E p \in Here : ReadHere(p)) \/ refreshLocalPeersOfMovedRoot => Past
    BY <1>t DEF ReadHere, refreshLocalPeersOfMovedRoot, MoveType
  <2>4. Finish \/ Fail => Past
    BY <1>t DEF Finish, Fail, MoveType
  <2>5. Past
    <3> HIDE DEF Past
    <3> QED BY <1>7, <2>1, <2>2, <2>3, <2>4 DEF Import
  <2> QED BY <2>5 DEF Exporting, Reading
<1>9. ASSUME NEW j \in Rels, PeerEnds(j) \/ DonorEnds(j) PROVE LinkExport(i)'
  <2>1. PICK E : Remove(j, E) /\ E \intersect {"donor", "peer"} # {}
    BY <1>9 DEF PeerEnds, DonorEnds
  <2>2. /\ Course(j, E, "ended") /\ UNCHANGED move
        /\ \A e \in Ends : i # j => bus'[e][i] = bus[e][i] /\ record'[e][i] = record[e][i]
    BY <2>1, RemoveFacts
  <2>3. i # j => \A e \in {"donor", "peer"} : bus'[e][i] = bus[e][i]
                                               /\ record'[e][i] = record[e][i]
    BY <2>2, Kinds
  <2>4. "ended" \in Owned
    BY DEF Owned
  <2>5. /\ \A e \in {"donor", "peer"} : history'.own[e][i] =
              IF e \in E /\ i = j THEN "ended" ELSE history.own[e][i]
        /\ history.raced \subseteq history'.raced
    BY <2>2, <2>4, <1>t, CourseFacts
  <2>6. i # j
    BY <2>1, <2>5 DEF Both
  <2>7. LinkExport(i)
    BY <2>2, <2>5, <2>6, <1>i DEF Both, Exporting, Reading
  <2> QED BY <2>2, <2>3, <2>6, <2>7 DEF LinkExport, ByEci, ByDid, Halfway, Exporting
<1>10. ASSUME NEW j \in Rels, Approve(j) PROVE LinkExport(i)'
  <2>1. i = j => ByDid(i)'
    BY <1>10, ApproveFacts, Kinds DEF ByDid
  <2>2. /\ Course(j, {"donor", "peer"}, "established") /\ UNCHANGED move
        /\ \A e \in Ends : i # j => bus'[e][i] = bus[e][i] /\ record'[e][i] = record[e][i]
    BY <1>10, ApproveFacts
  <2>3. i # j => \A e \in {"donor", "peer"} : bus'[e][i] = bus[e][i]
                                               /\ record'[e][i] = record[e][i]
    BY <2>2, Kinds
  <2>4. "established" \in Owned
    BY DEF Owned
  <2>5. /\ i # j => \A e \in {"donor", "peer"} : history'.own[e][i] = history.own[e][i]
        /\ history.raced \subseteq history'.raced
    BY <2>2, <2>4, <1>t, CourseFacts
  <2>6. i # j => LinkExport(i)
    BY <2>2, <2>5, <1>i DEF Both, Exporting, Reading
  <2>7. i # j => LinkExport(i)'
    BY <2>2, <2>3, <2>6 DEF LinkExport, ByEci, ByDid, Halfway, Exporting
  <2> QED BY <2>1, <2>7 DEF LinkExport
<1>11. ASSUME NEW j \in Rels, apply_webvh_peer_rotation(j) PROVE LinkExport(i)'
  <2>1. j \in told /\ move' = move
    BY <1>11 DEF apply_webvh_peer_rotation
  <2> QED BY <2>1 DEF MoveInv, Exporting, Reading
<1>12. CASE UNCHANGED vars
  BY <1>12, <1>i DEF vars, LinkExport, ByEci, ByDid, Halfway, Both, Exporting, Reading
<1> QED BY <1>1, <1>2, <1>3, <1>4, <1>5, <1>6, <1>7, <1>9, <1>10, <1>11, <1>12
        DEF Next, Export

-----------------------------------------------------------------------------
(* The copies.                                                              *)

CopyParts(i) ==
  /\ move.at = "ent" /\ Of[i] = move.pico => blob.record[i] = record["donor"][i]
  /\ Reading /\ Of[i] \in move.done => Fit(i, blob.bus[i], blob.record[i])
  /\ move.at = "sync" \/ Imported => Fit(i, bus["copy"][i], record["copy"][i])

LEMMA CopyExport ==
  ASSUME TypeOK, MoveInv, Export, NEW i \in Rels, LinkInv(i), Kept(i), CopyParts(i)
  PROVE  CopyParts(i)'
<1>t. BlobType /\ move \in MoveType
  BY TypeParts
<1>1. ASSUME (\E m \in Members : ReadDonor(m)) \/ UpgradeDonor \/ (\E p \in Peers : ReadPeer(p))
               \/ UpgradePeer
      PROVE  CopyParts(i)'
  <2>1. move'.at \in {"peers", "upgrade", "upgradePeer"}
    BY <1>1, <1>t DEF ReadDonor, UpgradeDonor, ReadPeer, UpgradePeer, Between, MoveType
  <2> QED BY <2>1 DEF CopyParts, Reading, Imported
<1>2. ASSUME NEW m \in Members, exportNodeIdentity(m) PROVE CopyParts(i)'
  <2>1. UNCHANGED ends
    BY <1>2 DEF exportNodeIdentity
  <2>2. /\ blob'.bus[i] = blob.bus[i]
        /\ blob'.record[i] = IF Of[i] = m THEN record["donor"][i] ELSE blob.record[i]
    BY <1>2, <1>t DEF exportNodeIdentity, BlobType
  <2>3. /\ move'.at = "ent" /\ move'.pico = m
        /\ move'.done = {} \/ (move'.done = move.done /\ m \notin move.done /\ move.at = "records")
    BY <1>2, <1>t DEF exportNodeIdentity, MoveType
  <2>4. (move.at = "ent" /\ Of[i] = move.pico => blob.record[i] = record["donor"][i])'
    BY <2>1, <2>2, <2>3 DEF ends
  <2>5. (Reading /\ Of[i] \in move.done => Fit(i, blob.bus[i], blob.record[i]))'
    BY <2>1, <2>2, <2>3 DEF CopyParts, Reading, Fit, ends
  <2> QED BY <2>3, <2>4, <2>5 DEF CopyParts, Imported
<1>3. ASSUME exportEnt PROVE CopyParts(i)'
  <2>1. UNCHANGED ends /\ move.at = "ent"
    BY <1>3 DEF exportEnt
  <2>2. /\ blob'.record[i] = blob.record[i]
        /\ blob'.bus[i] = IF Of[i] = move.pico THEN bus["donor"][i] ELSE blob.bus[i]
    BY <1>3, <1>t DEF exportEnt, BlobType
  <2>3. move'.at = "records" /\ move'.done = move.done \union {move.pico}
    BY <1>3, <1>t DEF exportEnt, MoveType
  <2>4. CASE Of[i] = move.pico
    <3>1. ByEci(i) \/ ByDid(i)
      BY <2>1 DEF LinkInv, Kept, Reading, Halfway
    <3>2. blob'.record[i] = record["donor"][i] /\ blob'.bus[i] = bus["donor"][i]
      BY <2>1, <2>2, <2>4 DEF CopyParts
    <3>3. With[i] \in Near => ByDid(i)
      BY <2>1, <3>1 DEF ByEci, Exporting
    <3>4. Fit(i, blob.bus[i], blob.record[i])'
      BY <2>1, <3>1, <3>2, <3>3 DEF Fit, ByEci, ByDid, ends
    <3> QED BY <2>3, <3>4 DEF CopyParts, Imported
  <2>5. CASE Of[i] # move.pico
    <3>1. Of[i] \in move'.done => Fit(i, blob.bus[i], blob.record[i])
      BY <2>1, <2>3, <2>5 DEF CopyParts, Reading
    <3>2. Of[i] \in move'.done => Fit(i, blob.bus[i], blob.record[i])'
      BY <2>1, <2>2, <2>5, <3>1 DEF Fit, ends
    <3> QED BY <2>3, <3>2 DEF CopyParts, Imported
  <2> QED BY <2>4, <2>5
<1> QED BY <1>1, <1>2, <1>3 DEF Export

LEMMA CopyImport ==
  ASSUME TypeOK, MoveInv, Import, NEW i \in Rels, CopyParts(i)
  PROVE  CopyParts(i)'
<1>t. RecordType /\ BusType /\ BlobType /\ move \in MoveType
  BY TypeParts
<1>1. ASSUME importNodes PROVE CopyParts(i)'
  <2>1. move'.at = "sync" /\ move.at = "records" /\ move.done = Members
    BY <1>1, <1>t DEF importNodes, MoveType
  <2>2. Fit(i, blob.bus[i], blob.record[i])
    BY <2>1, OfFacts DEF CopyParts, Reading
  <2>3. /\ bus'["copy"][i] = blob.bus[i] /\ record'["copy"][i] = blob.record[i]
        /\ record'["peer"] = record["peer"]
    BY <1>1, CopyFacts
  <2>4. Fit(i, bus["copy"][i], record["copy"][i])'
    BY <2>2, <2>3 DEF Fit
  <2> QED BY <2>1, <2>4 DEF CopyParts, Reading
<1>2. ASSUME syncLayer2EstablishedFromIdentity PROVE CopyParts(i)'
  <2>1. move'.at = "relocate" /\ move.at = "sync"
    BY <1>2, <1>t DEF syncLayer2EstablishedFromIdentity, MoveType
  <2>2. Fit(i, bus["copy"][i], record["copy"][i])
    BY <2>1 DEF CopyParts
  <2>3. ~importNodes
    BY <2>1 DEF importNodes
  <2>4. /\ record'["copy"][i] = record["copy"][i] /\ record'["peer"] = record["peer"]
        /\ bus'["copy"][i] =
             IF record["copy"][i] = "none" THEN bus["copy"][i]
             ELSE IF bus["copy"][i] \in Requests THEN "both" ELSE "did"
    BY <1>2, <2>3, CopyFacts
  <2>5. bus'["copy"][i] = bus["copy"][i]
    BY <2>2, <2>4 DEF Fit, Requests
  <2>6. Fit(i, bus["copy"][i], record["copy"][i])'
    BY <2>2, <2>4, <2>5 DEF Fit
  <2> QED BY <2>1, <2>6 DEF CopyParts, Reading
<1>3. ASSUME \/ relocateWebvhDid \/ handleSkyRotateAtIngress \/ refreshLocalPeersOfMovedRoot
             \/ Finish \/ (\E k \in Rels : notifyPeer(k)) \/ (\E p \in Here : ReadHere(p))
      PROVE  CopyParts(i)'
  <2>1. Imported /\ Imported' /\ ~Reading'
    BY <1>3, <1>t DEF relocateWebvhDid, handleSkyRotateAtIngress, refreshLocalPeersOfMovedRoot,
         Finish, notifyPeer, ReadHere, MoveType, Imported, Reading
  <2>2. Fit(i, bus["copy"][i], record["copy"][i])
    BY <2>1 DEF CopyParts
  <2>3. CASE handleSkyRotateAtIngress
    <3>1. /\ bus' = bus /\ record'["copy"][i] = record["copy"][i]
          /\ record["peer"][i] = "linked" => record'["peer"][i] = "linked"
      BY <2>3, <1>t, Kinds DEF handleSkyRotateAtIngress, RecordType
    <3>2. Fit(i, bus["copy"][i], record["copy"][i])'
      BY <2>2, <3>1 DEF Fit
    <3> QED BY <2>1, <3>2 DEF CopyParts, Imported, Reading
  <2>4. CASE refreshLocalPeersOfMovedRoot
    <3>1. record' = record
      BY <2>4 DEF refreshLocalPeersOfMovedRoot
    <3>2. bus'["copy"][i] = bus["copy"][i]
      BY <2>4, <1>t, Kinds DEF refreshLocalPeersOfMovedRoot, Stored, BusType
    <3>3. Fit(i, bus["copy"][i], record["copy"][i])'
      BY <2>2, <3>1, <3>2 DEF Fit
    <3> QED BY <2>1, <3>3 DEF CopyParts, Imported, Reading
  <2>5. CASE UNCHANGED ends
    <3>1. Fit(i, bus["copy"][i], record["copy"][i])'
      BY <2>2, <2>5 DEF Fit, ends
    <3> QED BY <2>1, <3>1 DEF CopyParts, Imported, Reading
  <2> QED BY <1>3, <2>3, <2>4, <2>5 DEF relocateWebvhDid, Finish, notifyPeer, ReadHere
<1> QED BY <1>1, <1>2, <1>3 DEF Import

\* An event about i that was read already, or is being read, takes it out.
LEMMA CopyPicos ==
  ASSUME TypeOK, NEW i \in Rels, CopyInv(i), NEW j \in Rels,
         PeerEnds(j) \/ DonorEnds(j) \/ Approve(j)
  PROVE  CopyInv(i)'
<1>t. BusType /\ RecordType /\ HistoryType /\ move \in MoveType
  BY TypeParts
<1>1. PICK E \in SUBSET Ends, s \in Owned :
        /\ Course(j, E, s) /\ UNCHANGED <<blob, move>>
        /\ \A e \in Ends : i # j => bus'[e][i] = bus[e][i] /\ record'[e][i] = record[e][i]
  <2>1. ASSUME NEW E, Remove(j, E)
        PROVE  /\ Course(j, E, "ended") /\ UNCHANGED <<blob, move>>
               /\ \A e \in Ends : i # j => bus'[e][i] = bus[e][i] /\ record'[e][i] = record[e][i]
    BY <2>1, RemoveFacts
  <2>2. ASSUME Approve(j)
        PROVE  /\ Course(j, {"donor", "peer"}, "established") /\ UNCHANGED <<blob, move>>
               /\ \A e \in Ends : i # j => bus'[e][i] = bus[e][i] /\ record'[e][i] = record[e][i]
    BY <2>2, ApproveFacts
  <2>3. PeerEnds(j) \/ DonorEnds(j) => \E E \in SUBSET Ends : Remove(j, E)
    BY Kinds DEF PeerEnds, DonorEnds
  <2>4. "ended" \in Owned /\ "established" \in Owned /\ {"donor", "peer"} \in SUBSET Ends
    BY Kinds DEF Owned
  <2> QED BY <2>1, <2>2, <2>3, <2>4
<1>2. /\ \A e \in {"donor", "peer"} : i # j => history'.own[e][i] = history.own[e][i]
      /\ history'.raced = history.raced \union ({j} \intersect InHand)
      /\ history'.late = history.late \union ({j} \intersect Read)
  BY <1>1, <1>t, CourseFacts
<1> SUFFICES ASSUME Kept(i)' PROVE CopyParts(i)'
  BY DEF CopyInv, CopyParts
<1>3. CASE i # j
  <2>1. Kept(i)
    BY <1>2, <1>3 DEF Kept, Both
  <2>2. /\ bus'["copy"][i] = bus["copy"][i] /\ record'["copy"][i] = record["copy"][i]
        /\ record'["donor"][i] = record["donor"][i] /\ record'["peer"][i] = record["peer"][i]
    BY <1>1, <1>3, Kinds
  <2> QED BY <1>1, <2>1, <2>2 DEF CopyInv, CopyParts, Fit, Reading, Imported
<1>4. CASE i = j
  <2>1. i \notin InHand /\ i \notin Read
    BY <1>2, <1>4 DEF Kept
  <2>2. ~(move.at = "ent" /\ Of[i] = move.pico)
    BY <2>1, InHandFacts DEF OfMember
  <2>3. ~(Reading /\ Of[i] \in move.done)
    BY <2>1, ReadFacts DEF Reading
  <2>4. ~(move.at = "sync" \/ Imported)
    BY <2>1, ReadFacts DEF Imported
  <2>5. move' = move
    BY <1>1
  <2> QED BY <2>2, <2>3, <2>4, <2>5 DEF CopyParts, Reading, Imported
<1> QED BY <1>3, <1>4

LEMMA CopyStep ==
  ASSUME TypeOK, MoveInv, [Next]_vars, NEW i \in Rels, LinkInv(i), CopyInv(i)
  PROVE  CopyInv(i)'
<1>t. BusType /\ move \in MoveType /\ HistoryType
  BY TypeParts
<1>1. CASE Export
  <2>1. history' = history
    BY <1>1 DEF Export, ReadDonor, UpgradeDonor, ReadPeer, UpgradePeer, exportNodeIdentity, exportEnt
  <2>2. Kept(i)' => Kept(i)
    BY <2>1 DEF Kept, Both
  <2> QED BY <1>1, <2>2, CopyExport DEF CopyInv, CopyParts
<1>2. CASE Import
  <2>1. /\ history'.raced = history.raced /\ history'.late = history.late
        /\ history'.own = history.own
    BY <1>2, <1>t DEF Import, importNodes, syncLayer2EstablishedFromIdentity, relocateWebvhDid,
         notifyPeer, handleSkyRotateAtIngress, ReadHere, refreshLocalPeersOfMovedRoot, Finish,
         HistoryType
  <2>2. Kept(i)' => Kept(i)
    BY <2>1 DEF Kept, Both
  <2> QED BY <1>2, <2>2, CopyImport DEF CopyInv, CopyParts
<1>3. CASE Fail
  <2>1. move'.at = "failed"
    BY <1>3, <1>t DEF Fail, MoveType
  <2> QED BY <2>1 DEF CopyInv, Reading, Imported
<1>4. CASE \E j \in Rels : PeerEnds(j) \/ DonorEnds(j) \/ Approve(j)
  BY <1>4, CopyPicos
<1>5. CASE \E j \in Rels : apply_webvh_peer_rotation(j)
  <2>1. /\ bus'["copy"] = bus["copy"] /\ UNCHANGED <<record, blob, move, history>>
    BY <1>5, RotationFacts
  <2> QED BY <2>1 DEF CopyInv, Kept, Both, Fit, Reading, Imported
<1>6. CASE UNCHANGED vars
  BY <1>6 DEF vars, CopyInv, Kept, Both, Fit, Reading, Imported
<1> QED BY <1>1, <1>2, <1>3, <1>4, <1>5, <1>6 DEF Next

-----------------------------------------------------------------------------
(* The peers of the root.                                                   *)

Followed(i) == i \in move.left \/ (to[i] = "copy" /\ (shown[i] = "copy" \/ i \in told))
Noticed(i) == /\ Kept(i) /\ i \notin history.lost /\ Of[i] = Root /\ bus["copy"][i] = "did"
              /\ Imported /\ move.at # "relocate"

LEMMA NoticeImport ==
  ASSUME TypeOK, MoveInv, Import, NEW i \in Rels, CopyInv(i), NoticeInv(i), Noticed(i)'
  PROVE  Followed(i)'
<1>t. BusType /\ NoteType /\ move \in MoveType /\ HistoryType
  BY TypeParts
<1>k. Kept(i) /\ i \notin history.lost
  <2>1. /\ history'.raced = history.raced /\ history'.late = history.late
        /\ history'.own = history.own /\ history.lost \subseteq history'.lost
    <3> DEFINE Grows == /\ history'.raced = history.raced /\ history'.late = history.late
                        /\ history'.own = history.own /\ history.lost \subseteq history'.lost
    <3>1. importNodes \/ syncLayer2EstablishedFromIdentity \/ relocateWebvhDid => history' = history
      BY DEF importNodes, syncLayer2EstablishedFromIdentity, relocateWebvhDid
    <3>2. (\E j \in Rels : notifyPeer(j)) \/ handleSkyRotateAtIngress => Grows
      BY <1>t DEF notifyPeer, handleSkyRotateAtIngress, HistoryType
    <3>3. (\E p \in Here : ReadHere(p)) \/ refreshLocalPeersOfMovedRoot \/ Finish => Grows
      BY <1>t DEF ReadHere, refreshLocalPeersOfMovedRoot, Finish, HistoryType
    <3> QED BY <3>1, <3>2, <3>3 DEF Import
  <2> QED BY <2>1 DEF Noticed, Kept, Both
<1>n. ASSUME bus'["copy"][i] = bus["copy"][i], Imported, move.at # "relocate"
      PROVE  Followed(i) /\ Fit(i, bus["copy"][i], record["copy"][i])
  BY <1>n, <1>k DEF NoticeInv, CopyInv, Noticed, Followed
<1>1. ASSUME importNodes \/ syncLayer2EstablishedFromIdentity PROVE FALSE
  <2>1. move'.at \in {"sync", "relocate"}
    BY <1>1, <1>t DEF importNodes, syncLayer2EstablishedFromIdentity, MoveType
  <2> QED BY <2>1 DEF Noticed, Imported
<1>2. ASSUME relocateWebvhDid PROVE Followed(i)'
  <2>1. /\ move.at = "relocate" /\ UNCHANGED ends
        /\ move'.left = {k \in OfMember(Root) : record["copy"][k] = "linked"}
    BY <1>2, <1>t DEF relocateWebvhDid, MoveType
  <2>2. bus["copy"][i] = "did" /\ Of[i] = Root
    BY <2>1 DEF Noticed, ends
  <2>3. record["copy"][i] = "linked"
    BY <1>k, <2>1, <2>2 DEF CopyInv, Fit, Imported
  <2> QED BY <2>1, <2>2, <2>3 DEF Followed, OfMember
<1>3. ASSUME NEW k \in Rels, notifyPeer(k) PROVE Followed(i)'
  <2>1. UNCHANGED ends /\ move.at = "notify"
    BY <1>3 DEF notifyPeer
  <2>2. Followed(i) /\ Fit(i, bus["copy"][i], record["copy"][i])
    BY <2>1, <1>n DEF Imported, ends
  <2>3. record["peer"][i] = "linked"
    BY <2>1, <2>2 DEF Fit, Noticed, ends
  <2>4. move'.left = move.left
        \/ (move'.left = move.left \ {k} /\ (record["peer"][k] # "linked" \/ k \in history'.lost))
    <3>1. CASE move' = [move EXCEPT !.at = "link", !.rel = k]
      BY <3>1, <1>t DEF MoveType
    <3>2. CASE record["peer"][k] # "linked" /\ move' = [move EXCEPT !.left = @ \ {k}]
      BY <3>2, <1>t DEF MoveType
    <3>3. CASE /\ move' = [move EXCEPT !.left = @ \ {k}]
               /\ history' = [history EXCEPT !.lost = @ \union {k}]
      <4>1. move'.left = move.left \ {k}
        BY <3>3, <1>t DEF MoveType
      <4>2. k \in history'.lost
        BY <3>3, <1>t DEF HistoryType
      <4> QED BY <4>1, <4>2
    <3> QED BY <1>3, <3>1, <3>2, <3>3 DEF notifyPeer
  <2>5. i \in move.left => i \in move'.left
    BY <2>3, <2>4 DEF Noticed
  <2> QED BY <2>1, <2>2, <2>5 DEF Followed, ends
<1>4. ASSUME handleSkyRotateAtIngress PROVE Followed(i)'
  <2>1. /\ bus' = bus /\ shown' = shown /\ move.at = "link"
        /\ to' = [to EXCEPT ![move.rel] = "copy"]
        /\ told' = told \union {move.rel}
        /\ move'.left = move.left \ {move.rel}
    BY <1>4, <1>t DEF handleSkyRotateAtIngress, MoveType
  <2>2. Followed(i)
    BY <2>1, <1>n DEF Imported
  <2>3. to'[i] = IF i = move.rel THEN "copy" ELSE to[i]
    BY <2>1, <1>t DEF NoteType
  <2> QED BY <2>1, <2>2, <2>3 DEF Followed
<1>5. ASSUME Finish \/ \E p \in Here : ReadHere(p) PROVE Followed(i)'
  <2>1. UNCHANGED ends /\ move.at = "notify" /\ move'.left = move.left
    BY <1>5, <1>t DEF Finish, ReadHere, MoveType
  <2>2. Followed(i)
    BY <2>1, <1>n DEF Imported, ends
  <2> QED BY <2>1, <2>2 DEF Followed, ends
<1>6. ASSUME refreshLocalPeersOfMovedRoot PROVE Followed(i)'
  <2>1. UNCHANGED <<to, told>> /\ move.at = "refresh" /\ move'.left = move.left
    BY <1>6, <1>t DEF refreshLocalPeersOfMovedRoot, MoveType
  <2>2. bus'["copy"][i] = bus["copy"][i]
    BY <1>6, <1>t, Kinds DEF refreshLocalPeersOfMovedRoot, Stored, BusType
  <2>3. shown[i] = "copy" => shown'[i] = "copy"
    BY <1>6 DEF refreshLocalPeersOfMovedRoot, Patched
  <2>4. Followed(i)
    BY <2>1, <2>2, <1>n DEF Imported
  <2> QED BY <2>1, <2>3, <2>4 DEF Followed
<1> QED BY <1>1, <1>2, <1>3, <1>4, <1>5, <1>6 DEF Import

LEMMA NoticeStep ==
  ASSUME TypeOK, MoveInv, [Next]_vars, NEW i \in Rels, ListInv(i), CopyInv(i), NoticeInv(i)
  PROVE  NoticeInv(i)'
<1> SUFFICES ASSUME Noticed(i)' PROVE Followed(i)'
  BY DEF Noticed, Followed, NoticeInv
<1>t. BusType /\ RecordType /\ move \in MoveType /\ HistoryType
  BY TypeParts
<1>n. Noticed(i) => Followed(i)
  BY DEF Noticed, Followed, NoticeInv
<1>1. CASE Export \/ Fail
  <2>1. move'.at \in {"peers", "upgrade", "upgradePeer", "records", "ent", "failed"}
    BY <1>1, <1>t DEF Export, ReadDonor, UpgradeDonor, ReadPeer, UpgradePeer, exportNodeIdentity,
         exportEnt, Between, Fail, MoveType
  <2> QED BY <2>1 DEF Noticed, Imported
<1>2. CASE Import
  BY <1>2, NoticeImport
<1>3. ASSUME NEW j \in Rels, PeerEnds(j) \/ DonorEnds(j) \/ Approve(j) PROVE Followed(i)'
  <2>1. PICK E \in SUBSET Ends, s \in Owned :
          /\ Course(j, E, s) /\ UNCHANGED <<to, shown, told, move>>
          /\ i # j => bus'["copy"][i] = bus["copy"][i]
    <3>1. ASSUME NEW E, Remove(j, E)
          PROVE  /\ Course(j, E, "ended") /\ UNCHANGED <<to, shown, told, move>>
                 /\ i # j => bus'["copy"][i] = bus["copy"][i]
      BY <3>1, RemoveFacts, Kinds
    <3>2. ASSUME Approve(j)
          PROVE  /\ Course(j, {"donor", "peer"}, "established")
                 /\ UNCHANGED <<to, shown, told, move>>
                 /\ i # j => bus'["copy"][i] = bus["copy"][i]
      BY <3>2, ApproveFacts, Kinds
    <3>3. PeerEnds(j) \/ DonorEnds(j) => \E E \in SUBSET Ends : Remove(j, E)
      BY Kinds DEF PeerEnds, DonorEnds
    <3>4. "ended" \in Owned /\ "established" \in Owned /\ {"donor", "peer"} \in SUBSET Ends
      BY Kinds DEF Owned
    <3> QED BY <1>3, <3>1, <3>2, <3>3, <3>4
  <2>2. /\ \A e \in {"donor", "peer"} : i # j => history'.own[e][i] = history.own[e][i]
        /\ history'.raced = history.raced \union ({j} \intersect InHand)
        /\ history'.late = history.late \union ({j} \intersect Read)
        /\ history'.lost = history.lost
    BY <2>1, <1>t, CourseFacts
  <2>3. i # j
    BY <2>1, <2>2, ReadFacts DEF Noticed, Kept, Imported
  <2>4. Noticed(i)
    BY <2>1, <2>2, <2>3 DEF Noticed, Kept, Both, Imported
  <2> QED BY <2>1, <2>4, <1>n DEF Followed
<1>4. ASSUME NEW j \in Rels, apply_webvh_peer_rotation(j) PROVE Followed(i)'
  <2>1. /\ bus'["copy"] = bus["copy"] /\ told' = told \ {j}
        /\ shown'[i] = IF i = j /\ On("peer", j) THEN "copy" ELSE shown[i]
        /\ UNCHANGED <<record, to, blob, move, history>>
    BY <1>4, RotationFacts
  <2>2. Noticed(i)
    BY <2>1 DEF Noticed, Kept, Both, Imported
  <2>3. On("peer", i)
    BY <2>2 DEF Noticed, Kept, Both, ListInv, Owns
  <2> QED BY <2>1, <2>2, <2>3, <1>n DEF Followed
<1>5. CASE UNCHANGED vars
  BY <1>5, <1>n DEF vars, Noticed, Kept, Both, Imported, Followed
<1> QED BY <1>1, <1>2, <1>3, <1>4, <1>5 DEF Next

-----------------------------------------------------------------------------
(* Theorems.                                                                *)

MoveIInv == TypeOK /\ MoveInv
  /\ \A i \in Rels : ListInv(i) /\ LinkInv(i) /\ CopyInv(i) /\ NoticeInv(i)

LEMMA InitInv == Init => MoveIInv
<1> SUFFICES ASSUME Init PROVE MoveIInv
  OBVIOUS
<1> PICK kind \in [Rels -> {"eci", "did", "asks", "asked"}] :
      LET Side(e, f) == IF e = "copy" THEN [i \in Rels |-> "none"]
                        ELSE [i \in Rels |-> Start(kind[i])[f][e]] IN
      /\ bus = [e \in Ends |-> Side(e, "bus")]
      /\ record = [e \in Ends |-> Side(e, "record")]
      /\ history = [own |-> [e \in {"donor", "peer"} |-> [i \in Rels |->
                      IF kind[i] \in {"eci", "did"} THEN "established" ELSE "asked"]],
                    raced |-> {}, late |-> {}, lost |-> {}]
  BY DEF Init
<1>1. /\ move.at = "peers" /\ move.peers = {} /\ move.done = {} /\ told = {}
  BY DEF Init
<1>2. MoveInv
  BY <1>1 DEF MoveInv
<1> SUFFICES ASSUME NEW i \in Rels
             PROVE  ListInv(i) /\ LinkInv(i) /\ CopyInv(i) /\ NoticeInv(i)
  BY <1>2, TypeInit DEF MoveIInv
<1>3. \A e \in {"donor", "peer"} :
        /\ bus[e][i] = Start(kind[i]).bus[e] /\ record[e][i] = Start(kind[i]).record[e]
        /\ history.own[e][i] = IF kind[i] \in {"eci", "did"} THEN "established" ELSE "asked"
  BY Kinds
<1>4. Owns(i)
  <2>1. kind[i] \in {"eci", "did"} => \A e \in {"donor", "peer"} :
          /\ bus[e][i] = kind[i] /\ history.own[e][i] = "established"
          /\ record[e][i] = IF kind[i] = "did" THEN "linked" ELSE "none"
    BY <1>3 DEF Start
  <2>2. kind[i] \in {"asks", "asked"} => \A e \in {"donor", "peer"} :
          bus[e][i] \in {"outbound", "inbound"} /\ history.own[e][i] = "asked"
    BY <1>3 DEF Start
  <2> QED BY <2>1, <2>2 DEF Owns, On, Established
<1>5. ListInv(i)
  BY <1>1, <1>4 DEF ListInv, Snaps, Tells
<1>6. Both(i) => kind[i] \in {"eci", "did"}
  BY <1>3 DEF Both
<1>7. kind[i] = "eci" => ByEci(i)
  BY <1>1, <1>3 DEF ByEci, Start, Exporting
<1>8. kind[i] = "did" => ByDid(i)
  BY <1>3 DEF ByDid, Start
<1>9. LinkInv(i)
  BY <1>6, <1>7, <1>8 DEF LinkInv
<1>10. CopyInv(i) /\ NoticeInv(i)
  BY <1>1 DEF CopyInv, NoticeInv, Reading, Imported
<1> QED BY <1>5, <1>9, <1>10

LEMMA TypeStep == TypeOK /\ MoveInv /\ [Next]_vars => TypeOK'
<1> SUFFICES ASSUME TypeOK, MoveInv, [Next]_vars PROVE TypeOK'
  OBVIOUS
<1>1. CASE Fail
  <2>1. move' \in MoveType
    BY <1>1, TypeParts DEF Fail, MoveType, Steps
  <2> QED BY <1>1, <2>1, MoveOnly DEF Fail
<1>2. CASE UNCHANGED vars
  <2>1. move' \in MoveType
    BY <1>2, TypeParts DEF vars
  <2> QED BY <1>2, <2>1, MoveOnly DEF vars, ends
<1> QED BY <1>1, <1>2, TypeExport, TypeImport, TypePicos DEF Next

LEMMA InvStep == MoveIInv /\ [Next]_vars => MoveIInv'
<1> SUFFICES ASSUME MoveIInv, [Next]_vars PROVE MoveIInv'
  OBVIOUS
<1>1. TypeOK /\ MoveInv /\ \A i \in Rels : ListInv(i) /\ LinkInv(i) /\ CopyInv(i) /\ NoticeInv(i)
  BY DEF MoveIInv
<1>2. TypeOK' /\ MoveInv'
  BY <1>1, TypeStep, MoveStep
<1>3. (\A i \in Rels : ListInv(i))'
  BY <1>1, ListStep
<1>4. \A i \in Rels : LinkInv(i)' /\ CopyInv(i)' /\ NoticeInv(i)'
  BY <1>1, LinkStep, CopyStep, NoticeStep
<1> QED BY <1>2, <1>3, <1>4 DEF MoveIInv

LEMMA Invariant == Spec => []MoveIInv
BY InitInv, InvStep, PTL DEF Spec

\* Every variable of the move always has its type.
THEOREM TypeCorrect == Spec => []TypeOK
<1>1. MoveIInv => TypeOK
  BY DEF MoveIInv
<1> QED BY <1>1, Invariant, PTL

\* What the export and the import write back into the lists of running picos is
\* what their own events made of these, unless a relationship itself changed meanwhile.
THEOREM ListsCorrect == Spec => []KeepsLists
<1>1. MoveIInv => KeepsLists
  BY DEF MoveIInv, ListInv, Owns, KeepsLists
<1> QED BY <1>1, Invariant, PTL

\* What was established when it was exported is so at the copy, by DID with a record
\* that lets it talk to the peer, wherever the export could make it so.
THEOREM ConnectedCorrect == Spec => []CopyIsConnected
<1>1. MoveIInv => CopyIsConnected
  <2> SUFFICES ASSUME MoveIInv, Imported, NEW i \in Carried
               PROVE  /\ On("copy", i)
                      /\ With[i] \in Near => bus["copy"][i] = "did"
                      /\ bus["copy"][i] = "did" => record["copy"][i] = "linked"
    BY DEF CopyIsConnected, Imported
  <2>1. i \in Rels /\ Kept(i)
    BY DEF Carried, Kept, Both
  <2>2. Fit(i, bus["copy"][i], record["copy"][i])
    BY <2>1 DEF MoveIInv, CopyInv
  <2> QED BY <2>2 DEF Fit, On, Established
<1> QED BY <1>1, Invariant, PTL

\* After the move the root's peers by DID address the copy, or will when their next
\* event has run, unless their notice failed.
THEOREM FollowCorrect == Spec => []PeersFollowRoot
<1>1. MoveIInv => PeersFollowRoot
  <2> SUFFICES ASSUME MoveIInv, move.at = "done", NEW i \in Carried, Of[i] = Root,
                      i \notin history.lost, bus["copy"][i] = "did"
               PROVE  to[i] = "copy" /\ (shown[i] = "copy" \/ i \in told)
    BY DEF PeersFollowRoot, OfMember
  <2>1. i \in Rels /\ Kept(i)
    BY DEF Carried, Kept, Both
  <2>2. NoticeInv(i) /\ MoveInv
    BY <2>1 DEF MoveIInv
  <2> QED BY <2>1, <2>2 DEF NoticeInv, MoveInv, Imported
<1> QED BY <1>1, Invariant, PTL
=============================================================================
