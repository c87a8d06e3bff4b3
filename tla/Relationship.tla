----------------------------- MODULE Relationship -----------------------------
(***************************************************************************)
(* What two picos may rely on when they form a relationship: who asks, who  *)
(* approves and that an end is final, whatever happens to the events        *)
(* between them.                                                            *)
(***************************************************************************)
CONSTANTS
  Picos,
  Ids,    \* relationship identifiers
  NoPico

VARIABLES
  side,     \* side[p][i]: where pico p stands in relationship i
  approver  \* approver[i]: the pico that approved i

Side == {"none", "asked", "offered", "established", "ended"}

Init ==
  /\ side = [p \in Picos |-> [i \in Ids |-> "none"]]
  /\ approver = [i \in Ids |-> NoPico]

\* Nobody has heard of i; p asks for it.
Ask(p, i) ==
  /\ \A q \in Picos : side[q][i] = "none"
  /\ side' = [side EXCEPT ![p][i] = "asked"]
  /\ UNCHANGED approver

\* q hears of i from the one pico that has to do with it; no third one ever does.
Hear(q, i) ==
  /\ side[q][i] = "none"
  /\ \E p \in Picos \ {q} :
       /\ side[p][i] # "none"
       /\ \A r \in Picos \ {p, q} : side[r][i] = "none"
  /\ \/ /\ side' = [side EXCEPT ![q][i] = "offered"]
        /\ UNCHANGED approver
     \/ /\ side' = [side EXCEPT ![q][i] = "established"]
        /\ approver' = [approver EXCEPT ![i] = q]

Approve(q, i) ==
  /\ side[q][i] = "offered"
  /\ side' = [side EXCEPT ![q][i] = "established"]
  /\ approver' = [approver EXCEPT ![i] = q]

\* The pico that asked counts i as established only once another approved it.
Confirm(p, i) ==
  /\ side[p][i] = "asked"
  /\ approver[i] \notin {NoPico, p}
  /\ side' = [side EXCEPT ![p][i] = "established"]
  /\ UNCHANGED approver

\* p is through with some of its relationships, for good.
End(p, I) ==
  /\ \A i \in I : side[p][i] \in {"asked", "offered", "established"}
  /\ side' = [side EXCEPT ![p] =
                [i \in Ids |-> IF i \in I THEN "ended" ELSE @[i]]]
  /\ UNCHANGED approver

Next ==
  \E p \in Picos :
    \/ \E i \in Ids : Ask(p, i) \/ Hear(p, i) \/ Approve(p, i) \/ Confirm(p, i)
    \/ \E I \in SUBSET Ids : End(p, I)

Spec == Init /\ [][Next]_<<side, approver>>
=============================================================================
