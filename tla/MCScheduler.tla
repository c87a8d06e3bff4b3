----------------------------- MODULE MCScheduler -----------------------------
(* Instances of Scheduler for TLC: at jobs a1 and a2, repeat job r1.       *)
EXTENDS Scheduler

CONSTANTS p1, p2, a1, a2, r1

\* One pico whose ruleset schedules everything.
HomeP1 == [j \in Jobs |-> p1]
DueApart == [j \in Jobs |-> IF j = a1 THEN 1 ELSE 2]

\* Bound: there is one export, of at jobs only and of a pico between its own schedule
\* calls, and nothing is removed or crashes after it.
Bounded == pack'.src # NoPico =>
  /\ crashes' = 0 /\ r1 \notin used'
  /\ \A p \in Picos, j \in Jobs : txn'[p].op # "clear" /\ ~Remove(p, j)
  /\ pack.src # NoPico => UNCHANGED pack
  /\ \A p \in Picos : Export(p) => txn[p] = IdleTxn

MCSpec == Init /\ [][Next /\ Bounded]_vars /\ Fairness
=============================================================================
