--------------------------- MODULE SchedulerProofs ---------------------------
(***************************************************************************)
(* Proofs about Scheduler for every set of picos and jobs, every due time  *)
(* and every choice of Ops: type correctness; an armed timer is set for    *)
(* the earliest future; without imports, an `at` job is raised at most     *)
(* once in each life of the process; the indexes agree while job ids are   *)
(* unique; a deletion leaves no indexed job of the pico in memory.         *)
(***************************************************************************)
EXTENDS Scheduler, TLAPS

\* The part of TypeOK that is about the Scheduler object.
MemType ==
  /\ futures \subseteq Entry /\ live \subseteq Entry /\ unseen \subseteq Entry
  /\ timer \in Int
  /\ crons \in Schedule /\ jobPicoId \in Schedule
  /\ jobsByPicoId \in [Picos -> SUBSET Jobs]

LEMMA UpdateType ==
  ASSUME SchedulerAssumption, NEW F \in SUBSET Entry, update(F)
  PROVE  timer' \in Int
BY DEF SchedulerAssumption, update, NoTimer, Entry

LEMMA EntriesType ==
  ASSUME NEW s \in Schedule
  PROVE  Entries(s) \in SUBSET Entry
BY DEF Schedule, Entries, Stored, Entry

LEMMA AddType ==
  ASSUME SchedulerAssumption, MemType, NEW s \in Schedule, addScheduledEvents(s)
  PROVE  MemType'
<1>1. futures' \in SUBSET Entry /\ live' \in SUBSET Entry /\ unseen' \in SUBSET Entry
  BY EntriesType DEF MemType, addScheduledEvents
<1>2. timer' \in Int
  BY <1>1, UpdateType DEF MemType, addScheduledEvents
<1>3. crons' \in Schedule /\ jobPicoId' \in Schedule
  BY DEF MemType, addScheduledEvents, registerJobs, Schedule
<1>4. jobsByPicoId' \in [Picos -> SUBSET Jobs]
  BY DEF MemType, addScheduledEvents, registerJobs, Indexed, Stored
<1>5. QED BY <1>1, <1>2, <1>3, <1>4 DEF MemType

LEMMA RemoveType ==
  ASSUME SchedulerAssumption, MemType, NEW S, remove(S)
  PROVE  MemType'
<1>1. futures' \in SUBSET Entry /\ live' \in SUBSET Entry /\ unseen' \in SUBSET Entry
  BY DEF MemType, remove
<1>2. timer' \in Int
  BY <1>1, UpdateType DEF MemType, remove
<1>3. crons' \in Schedule /\ jobPicoId' \in Schedule
  BY DEF MemType, remove, Schedule
<1>4. jobsByPicoId' \in [Picos -> SUBSET Jobs]
  BY DEF MemType, remove
<1>5. QED BY <1>1, <1>2, <1>3, <1>4 DEF MemType

LEMMA IdleTypes ==
  /\ NoSchedule \in Schedule
  /\ IdleTxn \in TxnState
  /\ IdleHandler \in HandlerState
BY DEF NoSchedule, Schedule, IdleTxn, TxnState, IdleHandler, HandlerState

LEMMA StartedType ==
  ASSUME handler \in [Entry -> HandlerState], NEW due
  PROVE  Started(due) \in [Entry -> HandlerState]
BY IdleTypes DEF Started, HandlerState

LEMMA TypeInit == SchedulerAssumption /\ Init => TypeOK
BY IdleTypes DEF Init, TypeOK, SchedulerAssumption, Entry, NoTimer, IdleTxn

\* Every step keeps the types: one case per action.
LEMMA TypeStep ==
  ASSUME SchedulerAssumption, TypeOK, [Next]_vars
  PROVE  TypeOK'
<1> USE IdleTypes
<1>m. MemType BY DEF TypeOK, MemType
<1>1. ASSUME NEW p \in Picos, NEW j \in Jobs, AddRead(p, j) PROVE TypeOK'
  BY <1>1 DEF AddRead, TypeOK, world, mem, TxnState, Serving
<1>2. ASSUME NEW p \in Picos, AddPut(p) \/ AddArm(p) PROVE TypeOK'
  <2>1. txn[p].job \in Jobs /\ txn[p].seen \in Schedule
    BY <1>2 DEF AddPut, AddArm, TypeOK, TxnState
  <2>2. CASE AddPut(p)
    <3>1. [txn[p].seen EXCEPT ![txn[p].job] = To[txn[p].job]] \in Schedule
      BY <2>1 DEF Schedule, SchedulerAssumption
    <3>2. txn' \in [Picos -> TxnState] /\ (\A q \in Picos : txn'[q].job = txn[q].job)
      BY <2>2 DEF AddPut, TypeOK, TxnState
    <3>3. \A q \in Picos : q # p => txn'[q] = txn[q]
      BY <2>2 DEF AddPut, TypeOK
    <3>4. QED BY <2>1, <2>2, <3>1, <3>2, <3>3 DEF AddPut, TypeOK, world, mem
  <2>3. CASE AddArm(p)
    <3>1. [NoSchedule EXCEPT ![txn[p].job] = To[txn[p].job]] \in Schedule
      BY <2>1 DEF Schedule, SchedulerAssumption
    <3>2. MemType' BY <1>m, <2>3, <3>1, AddType DEF AddArm
    <3>3. QED BY <2>3, <3>2 DEF AddArm, TypeOK, MemType, world, IdleTxn
  <2>4. QED BY <1>2, <2>2, <2>3
<1>3. ASSUME NEW p \in Picos, NEW j \in Jobs, Remove(p, j) PROVE TypeOK'
  <2>1. MemType' BY <1>m, <1>3, RemoveType DEF Remove
  <2>2. QED BY <1>3, <2>1 DEF Remove, TypeOK, MemType, world
<1>4. ASSUME NEW p \in Picos, ClearRead(p) PROVE TypeOK'
  BY <1>4 DEF ClearRead, TypeOK, world, mem, TxnState
<1>5. ASSUME NEW p \in Picos, ClearWrite(p) PROVE TypeOK'
  <2>1. MemType' BY <1>m, <1>5, RemoveType DEF ClearWrite
  <2>2. QED BY <1>5, <2>1 DEF ClearWrite, TypeOK, MemType, world, IdleTxn
<1>6. ASSUME OnTime PROVE TypeOK'
  <2>1. handler' \in [Entry -> HandlerState]
    BY <1>6, StartedType DEF OnTime, TypeOK
  <2>2. QED BY <1>6, <2>1 DEF OnTime, TypeOK, world, NoTimer
<1>7. ASSUME NEW e \in Entry, AtRead(e) PROVE TypeOK'
  <2>1. ent[e[2]] \in Schedule BY DEF TypeOK, Entry
  <2>2. QED BY <1>7, <2>1 DEF AtRead, TypeOK, world, mem, HandlerState
<1>8. ASSUME NEW e \in Entry, AtWrite(e) PROVE TypeOK'
  <2>1. Omit(handler[e].seen, e[1]) \in Schedule
    BY DEF TypeOK, HandlerState, Omit, Schedule
  <2>2. QED BY <1>8, <2>1 DEF AtWrite, TypeOK, world, mem, HandlerState, Entry
<1>9. ASSUME NEW e \in Entry, AtRaise(e) PROVE TypeOK'
  BY <1>9 DEF AtRaise, TypeOK, world, mem
<1>10. ASSUME NEW e \in Entry, CronFire(e) PROVE TypeOK'
  <2>1. CASE Resolves(e[2])
    BY <1>10, <2>1 DEF CronFire, TypeOK, world, mem, HandlerState
  <2>2. CASE ~Resolves(e[2])
    <3>1. MemType' BY <1>m, <1>10, <2>2, RemoveType DEF CronFire
    <3>2. QED BY <1>10, <2>2, <3>1 DEF CronFire, TypeOK, MemType, world
  <2>3. QED BY <2>1, <2>2
<1>11. ASSUME NEW e \in Entry, CronRead(e) PROVE TypeOK'
  <2>1. MemType' BY <1>m, <1>11, RemoveType DEF CronRead, mem, MemType
  <2>2. QED BY <1>11, <2>1 DEF CronRead, TypeOK, MemType, world
<1>12. ASSUME NEW p \in Picos, DeletePico(p) PROVE TypeOK'
  <2>1. MemType' BY <1>m, <1>12, RemoveType DEF DeletePico
  <2>2. QED BY <1>12, <2>1 DEF DeletePico, TypeOK, MemType
<1>13. ASSUME NEW p \in Picos, Export(p) PROVE TypeOK'
  BY <1>13 DEF Export, TypeOK, mem
<1>14. ASSUME NEW q \in Picos, ImportSubtree(q) PROVE TypeOK'
  <2>1. [j \in Jobs |-> IF pack.sched[j] = pack.src THEN q ELSE pack.sched[j]]
          \in Schedule
    BY DEF TypeOK, Schedule
  <2>2. QED BY <1>14, <2>1 DEF ImportSubtree, TypeOK, mem
<1>15. ASSUME NEW q \in Picos, Reload(q) PROVE TypeOK'
  <2>1. MemType' BY <1>m, <1>15, AddType DEF Reload, TypeOK
  <2>2. QED BY <1>15, <2>1 DEF Reload, TypeOK, MemType
<1>16. ASSUME NEW p \in Picos, ImportRulesetState(p) PROVE TypeOK'
  BY <1>16 DEF ImportRulesetState, TypeOK, mem, world
<1>17. ASSUME NEW p \in Picos, Load(p) PROVE TypeOK'
  <2>1. MemType' BY <1>m, <1>17, AddType DEF Load, TypeOK
  <2>2. QED BY <1>17, <2>1 DEF Load, TypeOK, MemType
<1>18. CASE Tick
  BY <1>18 DEF Tick, TypeOK, mem
<1>19. CASE Crash
  BY <1>19 DEF Crash, TypeOK, NoTimer, IdleTxn
<1>20. CASE StartFramework
  BY <1>20 DEF StartFramework, TypeOK, mem
<1>21. CASE FrameworkStarted
  BY <1>21 DEF FrameworkStarted, TypeOK, mem
<1>22. CASE UNCHANGED vars
  BY <1>22 DEF vars, world, mem, TypeOK
<1>23. QED
  BY <1>1, <1>2, <1>3, <1>4, <1>5, <1>6, <1>7, <1>8, <1>9, <1>10, <1>11, <1>12,
     <1>13, <1>14, <1>15, <1>16, <1>17, <1>18, <1>19, <1>20, <1>21, <1>22
  DEF Next, RuleActions, Handlers, LifeCycle

\* Every reachable state of the schedule module is well typed: a `_schedule`
\* is always a map from ids to targets, whatever handler wrote it last.
THEOREM TypeCorrect == Spec => []TypeOK
<1>1. Init => TypeOK BY SchedulerAssumption, TypeInit
<1>2. TypeOK /\ [Next]_vars => TypeOK' BY SchedulerAssumption, TypeStep
<1>3. QED BY <1>1, <1>2, PTL DEF Spec

-----------------------------------------------------------------------------
(* The timer.                                                              *)

LEMMA UpdateEarliest ==
  ASSUME SchedulerAssumption, futures' \in SUBSET Entry, update(futures')
  PROVE  TimerIsEarliest'
BY DEF update, TimerIsEarliest

\* Adding futures, and removing some of them, re-arms the timer if it has to.
LEMMA AddEarliest ==
  ASSUME SchedulerAssumption, MemType, NEW s \in Schedule, addScheduledEvents(s),
         TimerIsEarliest
  PROVE  TimerIsEarliest'
<1>1. futures' \in SUBSET Entry
  BY AddType DEF MemType
<1>2. CASE {e \in Entries(s) : e[1] \in AtJobs} = {}
  BY <1>2 DEF addScheduledEvents, TimerIsEarliest
<1>3. CASE {e \in Entries(s) : e[1] \in AtJobs} # {}
  <2>1. update(futures') BY <1>3 DEF addScheduledEvents
  <2>2. QED BY <1>1, <2>1, UpdateEarliest
<1>4. QED BY <1>2, <1>3

LEMMA RemoveEarliest ==
  ASSUME SchedulerAssumption, MemType, NEW S, remove(S), TimerIsEarliest
  PROVE  TimerIsEarliest'
<1> DEFINE dropped == {e \in futures : e[1] \in S /\ crons[e[1]] = NoPico}
<1>1. futures' \in SUBSET Entry
  BY RemoveType DEF MemType
<1>2. CASE dropped = {}
  BY <1>2 DEF remove, TimerIsEarliest
<1>3. CASE dropped # {}
  <2>1. update(futures') BY <1>3 DEF remove
  <2>2. QED BY <1>1, <2>1, UpdateEarliest
<1>4. QED BY <1>2, <1>3

\* A step that leaves the futures and the timer alone keeps the property.
LEMMA TimerFrame ==
  ASSUME TimerIsEarliest, UNCHANGED <<futures, timer>>
  PROVE  TimerIsEarliest'
BY DEF TimerIsEarliest

LEMMA TimerStep ==
  ASSUME SchedulerAssumption, TypeOK, TimerIsEarliest, [Next]_vars
  PROVE  TimerIsEarliest'
<1>m. MemType BY DEF TypeOK, MemType
<1>1. ASSUME NEW p \in Picos, RuleActions(p) PROVE TimerIsEarliest'
  <2>1. ASSUME NEW j \in Jobs, AddRead(p, j) PROVE TimerIsEarliest'
    BY <2>1, TimerFrame DEF AddRead, mem
  <2>2. CASE AddPut(p) \/ AddArm(p)
    <3>1. [NoSchedule EXCEPT ![txn[p].job] = To[txn[p].job]] \in Schedule
      BY <2>2 DEF AddPut, AddArm, TypeOK, Schedule, NoSchedule, SchedulerAssumption
    <3>2. AddPut(p) => UNCHANGED <<futures, timer>> BY DEF AddPut, mem
    <3>3. AddArm(p) => TimerIsEarliest' BY <1>m, <3>1, AddEarliest DEF AddArm
    <3>4. QED BY <2>2, <3>2, <3>3, TimerFrame
  <2>3. ASSUME NEW j \in Jobs, Remove(p, j) PROVE TimerIsEarliest'
    BY <1>m, <2>3, RemoveEarliest DEF Remove
  <2>4. CASE ClearRead(p)
    BY <2>4, TimerFrame DEF ClearRead, mem
  <2>5. CASE ClearWrite(p)
    BY <1>m, <2>5, RemoveEarliest DEF ClearWrite
  <2>6. QED BY <1>1, <2>1, <2>2, <2>3, <2>4, <2>5 DEF RuleActions
<1>2. ASSUME NEW p \in Picos, LifeCycle(p) PROVE TimerIsEarliest'
  <2>1. CASE DeletePico(p)
    BY <1>m, <2>1, RemoveEarliest DEF DeletePico
  <2>2. CASE Export(p) \/ ImportSubtree(p) \/ ImportRulesetState(p)
    BY <2>2, TimerFrame DEF Export, ImportSubtree, ImportRulesetState, mem
  <2>3. CASE Reload(p)
    BY <1>m, <2>3, AddEarliest DEF Reload, TypeOK
  <2>4. CASE Load(p)
    BY <1>m, <2>4, AddEarliest DEF Load, TypeOK
  <2>5. QED BY <1>2, <2>1, <2>2, <2>3, <2>4 DEF LifeCycle
<1>3. ASSUME NEW e \in Entry, Handlers(e) PROVE TimerIsEarliest'
  <2>1. CASE AtRead(e) \/ AtWrite(e) \/ AtRaise(e)
    BY <2>1, TimerFrame DEF AtRead, AtWrite, AtRaise, mem
  <2>2. CASE CronFire(e)
    BY <1>m, <2>2, TimerFrame, RemoveEarliest DEF CronFire, mem
  <2>3. CASE CronRead(e)
    BY <1>m, <2>3, TimerFrame, RemoveEarliest DEF CronRead, mem
  <2>4. QED BY <1>3, <2>1, <2>2, <2>3 DEF Handlers
<1>4. CASE OnTime
  BY <1>4 DEF OnTime, TimerIsEarliest
<1>5. CASE Crash
  BY <1>5 DEF Crash, TimerIsEarliest
<1>6. CASE Tick \/ StartFramework \/ FrameworkStarted \/ UNCHANGED vars
  BY <1>6, TimerFrame DEF Tick, StartFramework, FrameworkStarted, vars, mem
<1>7. QED BY <1>1, <1>2, <1>3, <1>4, <1>5, <1>6 DEF Next

\* Whatever mix of addFuture, remove, cancelForPico, onTime, reload and restart
\* ran, an armed timer is set for the earliest of the futures.
THEOREM TimerCorrect == Spec => []TimerIsEarliest
<1>1. Init => TimerIsEarliest BY DEF Init, TimerIsEarliest
<1>2. TypeOK /\ TimerIsEarliest /\ [Next]_vars => TimerIsEarliest'
  BY SchedulerAssumption, TimerStep
<1>3. QED BY <1>1, <1>2, TypeCorrect, PTL DEF Spec

-----------------------------------------------------------------------------
(* At most once per life of the process, without imports.                  *)

NoImports == Ops \intersect {"import", "importState"} = {}

\* What remove() does to the futures and handles, for any set of ids.
LEMMA RemoveShrinks ==
  ASSUME NEW S, remove(S)
  PROVE  futures' \subseteq futures /\ live' \subseteq live
BY DEF remove

\* What addScheduledEvents does to them.
LEMMA AddGrows ==
  ASSUME NEW s, addScheduledEvents(s)
  PROVE  /\ futures' = futures \union {e \in Entries(s) : e[1] \in AtJobs}
         /\ live' = live \union {e \in Entries(s) : e[1] \notin AtJobs}
BY DEF addScheduledEvents

LEMMA OnceInit == SchedulerAssumption /\ Init => OnceInv
BY DEF Init, OnceInv, SchedulerAssumption, InMemory, Unarmed, Adding, Homed,
       Stored, NoSchedule, IdleHandler, IdleTxn, Entry

\* Steps that only shrink the memory, or leave it, and start no schedule call.
LEMMA OnceShrink ==
  ASSUME TypeOK, OnceInv,
         futures' \subseteq futures, live' \subseteq live,
         UNCHANGED <<boot, pending, used, raised, reloading, handler>>,
         \A p \in Picos : txn'[p] = txn[p] \/ txn'[p] = IdleTxn,
         \A p \in Picos : ent'[p] = ent[p] \/ ent'[p] = NoSchedule
  PROVE  OnceInv'
<1>1. \A j \in Jobs : Unarmed(j)' => Unarmed(j)
  BY DEF Unarmed, Adding, IdleTxn, TypeOK
<1>2. \A e \in Entry : InMemory(e)' => InMemory(e)
  BY DEF InMemory
<1>3. \A e \in futures' : e[1] \in AtJobs /\ handler'[e].pc = "idle"
  BY DEF OnceInv
<1>4. \A e \in live' : e[1] \notin AtJobs
  BY DEF OnceInv
<1>5. \A e \in Entry :
       /\ handler'[e].pc \in {"found", "written"} => e[1] \in AtJobs
       /\ raised'[e] <= 1
       /\ InMemory(e)' => raised'[e] = 0
       /\ Unarmed(e[1])' => ~InMemory(e)' /\ raised'[e] = 0
       /\ Homed(handler[e].seen, e[2])'
  BY <1>1, <1>2 DEF OnceInv, Entry, Homed
<1>6. \A p \in Picos :
       /\ Homed(ent[p], p)' /\ Homed(txn[p].seen, p)'
       /\ txn'[p].op # "idle" => boot' = "up"
       /\ \A j \in Jobs : Adding(p, j)' => Home[j] = p /\ j \in used'
  BY DEF OnceInv, Homed, Stored, IdleTxn, NoSchedule, Adding
<1>7. QED BY <1>3, <1>4, <1>5, <1>6 DEF OnceInv

LEMMA OnceStep ==
  ASSUME SchedulerAssumption, NoImports, TypeOK, OnceInv, [Next]_vars
  PROVE  OnceInv'
<1>1. ASSUME NEW p \in Picos, NEW j \in Jobs, AddRead(p, j) PROVE OnceInv'
  <2>1. /\ used' = used \union {j} /\ j \notin used /\ Home[j] = p
        /\ txn' = [txn EXCEPT ![p] = [op |-> "add", job |-> j, seen |-> ent[p]]]
        /\ boot = "up" /\ txn[p] = IdleTxn
        /\ UNCHANGED <<futures, live, boot, pending, ent, raised, reloading, handler>>
    BY <1>1 DEF AddRead, Serving, world, mem
  <2>2. \A k \in Jobs : Unarmed(k)' => Unarmed(k)
    BY <2>1 DEF Unarmed, Adding, TypeOK
  <2>3. \A e \in Entry : InMemory(e)' <=> InMemory(e)
    BY <2>1 DEF InMemory
  <2>4. \A e \in Entry : Homed(handler[e].seen, e[2])'
    BY <2>1 DEF OnceInv, Homed
  <2>5. \A q \in Picos : Homed(ent[q], q)' /\ Homed(txn[q].seen, q)'
    BY <2>1 DEF OnceInv, Homed, TypeOK
  <2>6. \A q \in Picos : txn'[q].op # "idle" => boot' = "up"
    BY <2>1 DEF OnceInv, TypeOK
  <2>7. \A q \in Picos, k \in Jobs : Adding(q, k)' => Home[k] = q /\ k \in used'
    BY <2>1 DEF OnceInv, TypeOK, Adding
  <2>8. QED BY <2>1, <2>2, <2>3, <2>4, <2>5, <2>6, <2>7 DEF OnceInv, Entry
<1>2. ASSUME NEW p \in Picos, AddArm(p) PROVE OnceInv'
  <2> DEFINE j == txn[p].job
             e0 == <<j, To[j]>>
             s == [NoSchedule EXCEPT ![j] = To[j]]
  <2>1. /\ Adding(p, j) /\ j \in Jobs /\ Home[j] = p /\ j \in used
        /\ To[j] \in Picos /\ e0 \in Entry /\ boot = "up" /\ pending = {}
    BY <1>2 DEF AddArm, Adding, OnceInv, TypeOK, SchedulerAssumption, Entry
  <2>2. Entries(s) = {e0}
    BY <2>1 DEF Entries, Stored, NoSchedule, SchedulerAssumption
  <2>3. /\ futures' = IF j \in AtJobs THEN futures \union {e0} ELSE futures
        /\ live' = IF j \in AtJobs THEN live ELSE live \union {e0}
    <3>1. addScheduledEvents(s) BY <1>2 DEF AddArm
    <3>2. /\ futures' = futures \union {e \in Entries(s) : e[1] \in AtJobs}
          /\ live' = live \union {e \in Entries(s) : e[1] \notin AtJobs}
      BY <3>1, AddGrows
    <3> HIDE DEF s, e0, j
    <3>3. \A e \in Entries(s) : e = e0 BY <2>2
    <3>4. e0 \in Entries(s) /\ e0[1] = j BY <2>2 DEF e0
    <3>5. CASE j \in AtJobs BY <3>2, <3>3, <3>4, <3>5
    <3>6. CASE j \notin AtJobs BY <3>2, <3>3, <3>4, <3>6
    <3>7. QED BY <3>5, <3>6
  <2>4. /\ txn' = [txn EXCEPT ![p] = IdleTxn]
        /\ UNCHANGED <<boot, pending, ent, used, raised, reloading, handler>>
    BY <1>2 DEF AddArm, world
  <2>5. \A k \in Jobs : Unarmed(k)' => Unarmed(k) /\ k # j
    <3>1. ASSUME NEW k \in Jobs, NEW q \in Picos, Adding(q, k)'
          PROVE  Adding(q, k) /\ k # j
      BY <2>1, <2>4, <3>1 DEF Adding, IdleTxn, TypeOK, OnceInv
    <3>2. QED BY <2>1, <2>4, <3>1 DEF Unarmed
  <2>6. ~InMemory(e0) /\ raised[e0] = 0
    BY <2>1 DEF OnceInv, Unarmed, Entry
  <2>7. \A e \in Entry : InMemory(e)' => InMemory(e) \/ e = e0
    BY <2>3, <2>4 DEF InMemory
  <2>8. /\ \A e \in futures' : e[1] \in AtJobs /\ handler'[e].pc = "idle"
        /\ \A e \in live' : e[1] \notin AtJobs
    BY <2>3, <2>4, <2>6 DEF OnceInv, InMemory
  <2>9. \A e \in Entry :
          /\ handler'[e].pc \in {"found", "written"} => e[1] \in AtJobs
          /\ raised'[e] <= 1
          /\ InMemory(e)' => raised'[e] = 0
          /\ Homed(handler[e].seen, e[2])'
    BY <2>4, <2>6, <2>7 DEF OnceInv, Homed
  <2>10. \A e \in Entry : Unarmed(e[1])' => ~InMemory(e)' /\ raised'[e] = 0
    BY <2>4, <2>5, <2>7 DEF OnceInv, Entry
  <2>11. \A q \in Picos : Homed(ent[q], q)' /\ Homed(txn[q].seen, q)'
    BY <2>4 DEF OnceInv, Homed, Stored, IdleTxn, NoSchedule, TypeOK
  <2>12. \A q \in Picos :
          /\ txn'[q].op # "idle" => boot' = "up"
          /\ \A k \in Jobs : Adding(q, k)' => Home[k] = q /\ k \in used'
    BY <2>1, <2>4 DEF OnceInv, Adding, IdleTxn, TypeOK
  <2>13. QED BY <2>1, <2>4, <2>8, <2>9, <2>10, <2>11, <2>12 DEF OnceInv
<1>17. ASSUME NEW p \in Picos, AddPut(p) PROVE OnceInv'
  <2> DEFINE j == txn[p].job
  <2>1. /\ txn[p].op = "add" /\ txn' = [txn EXCEPT ![p].op = "arm"]
        /\ ent' = [ent EXCEPT ![p] = [txn[p].seen EXCEPT ![j] = To[j]]]
        /\ UNCHANGED <<futures, live, boot, pending, used, raised, reloading, handler>>
    BY <1>17 DEF AddPut, world, mem
  <2>2. j \in Jobs /\ Home[j] = p /\ j \in used /\ txn[p].seen \in Schedule
    BY <2>1 DEF TypeOK, TxnState, OnceInv, Adding
  <2>3. \A q \in Picos : /\ txn'[q].job = txn[q].job /\ txn'[q].seen = txn[q].seen
                         /\ txn'[q].op # "idle" <=> txn[q].op # "idle"
                         /\ txn'[q].op \in {"add", "arm"} <=> txn[q].op \in {"add", "arm"}
    BY <2>1 DEF TypeOK, TxnState
  <2>4. \A q \in Picos, k \in Jobs : Adding(q, k)' <=> Adding(q, k)
    BY <2>3 DEF Adding
  <2>5. \A k \in Jobs : Unarmed(k)' <=> Unarmed(k)
    BY <2>1, <2>4 DEF Unarmed
  <2>6. \A e \in Entry : InMemory(e)' <=> InMemory(e)
    BY <2>1 DEF InMemory
  <2>7. Homed([txn[p].seen EXCEPT ![j] = To[j]], p)
    <3>1. Homed(txn[p].seen, p) BY DEF OnceInv
    <3> QED BY <2>2, <3>1 DEF Homed, Stored, Schedule
  <2>8. \A q \in Picos : Homed(ent[q], q)' /\ Homed(txn[q].seen, q)'
    <3>1. ent'[p] = [txn[p].seen EXCEPT ![j] = To[j]] /\ used' = used
      BY <2>1 DEF TypeOK
    <3>2. \A q \in Picos \ {p} : ent'[q] = ent[q]
      BY <2>1 DEF TypeOK
    <3>3. \A q \in Picos : Homed(ent[q], q) /\ Homed(txn[q].seen, q)
      BY DEF OnceInv
    <3> HIDE DEF j
    <3>4. Homed(ent'[p], p) BY <2>7, <3>1
    <3>5. \A q \in Picos : Homed(ent'[q], q) /\ Homed(txn'[q].seen, q)
      BY <2>3, <3>2, <3>3, <3>4
    <3> QED BY <3>1, <3>5 DEF Homed, Stored
  <2>9. \A e \in Entry : Homed(handler[e].seen, e[2])'
    BY <2>1 DEF OnceInv, Homed
  <2>10. \A q \in Picos : /\ txn'[q].op # "idle" => boot' = "up"
                          /\ \A k \in Jobs : Adding(q, k)' => Home[k] = q /\ k \in used'
    BY <2>1, <2>3, <2>4 DEF OnceInv
  <2> QED BY <2>1, <2>5, <2>6, <2>8, <2>9, <2>10 DEF OnceInv, Entry
<1>3. ASSUME NEW p \in Picos, NEW j \in Jobs, Remove(p, j) PROVE OnceInv'
  <2>1. futures' \subseteq futures /\ live' \subseteq live
    BY <1>3, RemoveShrinks DEF Remove
  <2>2. QED BY <1>3, <2>1, OnceShrink DEF Remove, world, TypeOK
<1>4. ASSUME NEW p \in Picos, ClearRead(p) PROVE OnceInv'
  <2>1. /\ txn' = [txn EXCEPT ![p] = [op |-> "clear", job |-> NoJob, seen |-> ent[p]]]
        /\ boot = "up"
        /\ UNCHANGED <<futures, live, boot, pending, used, ent, raised, reloading, handler>>
    BY <1>4 DEF ClearRead, Serving, world, mem
  <2>2. \A k \in Jobs : Unarmed(k)' => Unarmed(k)
    BY <2>1 DEF Unarmed, Adding, TypeOK
  <2>3. \A e \in Entry : InMemory(e)' <=> InMemory(e)
    BY <2>1 DEF InMemory
  <2>4. \A e \in Entry : Homed(handler[e].seen, e[2])'
    BY <2>1 DEF OnceInv, Homed
  <2>5. \A q \in Picos : /\ Homed(ent[q], q)' /\ Homed(txn[q].seen, q)'
                         /\ txn'[q].op # "idle" => boot' = "up"
                         /\ \A k \in Jobs : Adding(q, k)' => Home[k] = q /\ k \in used'
    BY <2>1 DEF OnceInv, Homed, TypeOK, Adding
  <2>6. QED BY <2>1, <2>2, <2>3, <2>4, <2>5 DEF OnceInv, Entry
<1>5. ASSUME NEW p \in Picos, ClearWrite(p) PROVE OnceInv'
  <2>1. futures' \subseteq futures /\ live' \subseteq live
    BY <1>5, RemoveShrinks DEF ClearWrite
  <2>2. QED BY <1>5, <2>1, OnceShrink DEF ClearWrite, world, TypeOK
<1>6. ASSUME OnTime PROVE OnceInv'
  <2> DEFINE due == {e \in futures : Due[e[1]] <= now}
  <2>1. /\ futures' = futures \ due /\ handler' = Started(due)
        /\ UNCHANGED <<live, boot, pending, used, ent, txn, raised, reloading>>
    BY <1>6 DEF OnTime, world
  <2>2. \A k \in Jobs : Unarmed(k)' <=> Unarmed(k)
    BY <2>1 DEF Unarmed, Adding
  <2>3. \A e \in Entry : \/ handler'[e] = handler[e]
                         \/ /\ e \in due /\ handler'[e].pc = "reading"
                            /\ handler'[e].seen = NoSchedule
    BY <2>1 DEF Started
  <2>4. \A e \in Entry : InMemory(e)' => InMemory(e)
    BY <2>1, <2>3 DEF InMemory, OnceInv
  <2>5. \A e \in Entry : Homed(handler[e].seen, e[2])'
    BY <2>1, <2>3 DEF OnceInv, Homed, Stored, NoSchedule
  <2>6. \A e \in futures' : e[1] \in AtJobs /\ handler'[e].pc = "idle"
    BY <2>1, <2>3 DEF OnceInv, TypeOK
  <2>7. \A q \in Picos : /\ Homed(ent[q], q)' /\ Homed(txn[q].seen, q)'
                         /\ txn'[q].op # "idle" => boot' = "up"
                         /\ \A k \in Jobs : Adding(q, k)' => Home[k] = q /\ k \in used'
    BY <2>1 DEF OnceInv, Homed, Adding
  <2>8. \A e \in Entry : handler'[e].pc \in {"found", "written"} => e[1] \in AtJobs
    BY <2>3 DEF OnceInv
  <2>9. QED BY <2>1, <2>2, <2>4, <2>5, <2>6, <2>7, <2>8 DEF OnceInv, Entry
<1>7. ASSUME NEW e \in Entry, AtRead(e) \/ AtWrite(e) \/ AtRaise(e) PROVE OnceInv'
  <2>1. UNCHANGED <<futures, live, boot, pending, used, txn, reloading>>
    BY <1>7 DEF AtRead, AtWrite, AtRaise, world, mem
  <2>2. handler[e].pc # "idle" /\ e[1] \in AtJobs
    BY <1>7 DEF AtRead, AtWrite, AtRaise, OnceInv
  <2>3. InMemory(e) /\ e \notin futures /\ raised[e] = 0
    BY <2>2 DEF InMemory, OnceInv
  <2>4. \A k \in Jobs : Unarmed(k)' <=> Unarmed(k)
    BY <2>1 DEF Unarmed, Adding
  <2>5. \A f \in Entry \ {e} : handler'[f] = handler[f] /\ raised'[f] = raised[f]
    BY <1>7 DEF AtRead, AtWrite, AtRaise, TypeOK
  <2>6. raised'[e] <= 1 /\ (handler'[e].pc # "idle" => raised'[e] = raised[e])
    BY <1>7, <2>3 DEF AtRead, AtWrite, AtRaise, TypeOK, IdleHandler
  <2>7. \A f \in Entry : InMemory(f)' => InMemory(f)
    BY <2>1, <2>3, <2>5 DEF InMemory
  <2>8. ~Unarmed(e[1])
    BY <2>3 DEF OnceInv
  <2>9. \A q \in Picos : Homed(ent[q], q)'
    <3>1. CASE AtRead(e) \/ AtRaise(e)
      BY <2>1, <3>1 DEF AtRead, AtRaise, OnceInv, Homed
    <3>2. CASE AtWrite(e)
      <4>1. handler[e].seen \in Schedule /\ Homed(handler[e].seen, e[2])
        BY DEF TypeOK, HandlerState, OnceInv
      <4>2. Homed(Omit(handler[e].seen, e[1]), e[2])
        BY <4>1 DEF Homed, Omit, Stored, Schedule
      <4>3. QED BY <2>1, <3>2, <4>2 DEF AtWrite, OnceInv, Homed, TypeOK
    <3>3. QED BY <1>7, <3>1, <3>2
  <2>10. Homed(handler[e].seen, e[2])'
    BY <1>7, <2>1 DEF AtRead, AtWrite, AtRaise, OnceInv, Homed, IdleHandler,
                      NoSchedule, Stored, TypeOK, Entry
  <2>11. \A f \in Entry :
          /\ handler'[f].pc \in {"found", "written"} => f[1] \in AtJobs
          /\ raised'[f] <= 1
          /\ InMemory(f)' => raised'[f] = 0
          /\ Unarmed(f[1])' => ~InMemory(f)' /\ raised'[f] = 0
          /\ Homed(handler[f].seen, f[2])'
    <3>1. ASSUME NEW f \in Entry, f # e
          PROVE  /\ handler'[f].pc \in {"found", "written"} => f[1] \in AtJobs
                 /\ raised'[f] <= 1
                 /\ InMemory(f)' => raised'[f] = 0
                 /\ Unarmed(f[1])' => ~InMemory(f)' /\ raised'[f] = 0
                 /\ Homed(handler[f].seen, f[2])'
      BY <2>1, <2>4, <2>5, <2>7, <3>1 DEF OnceInv, Homed, Entry
    <3>2. InMemory(e)' => handler'[e].pc # "idle"
      BY <2>1, <2>3 DEF InMemory
    <3>3. ~Unarmed(e[1])'
      BY <2>4, <2>8 DEF Entry
    <3>4. QED BY <2>1, <2>2, <2>3, <2>6, <2>10, <3>1, <3>2, <3>3
  <2>12. \A q \in Picos : /\ Homed(txn[q].seen, q)'
                          /\ txn'[q].op # "idle" => boot' = "up"
                          /\ \A k \in Jobs : Adding(q, k)' => Home[k] = q /\ k \in used'
    BY <2>1 DEF OnceInv, Homed, Adding
  <2>13. \A f \in futures' : f[1] \in AtJobs /\ handler'[f].pc = "idle"
    BY <2>1, <2>3, <2>5 DEF OnceInv, TypeOK
  <2>14. QED BY <2>1, <2>9, <2>11, <2>12, <2>13 DEF OnceInv
<1>8. ASSUME NEW e \in Entry, CronFire(e) \/ CronRead(e) PROVE OnceInv'
  <2>1. futures' \subseteq futures /\ live' \subseteq live
    BY <1>8, RemoveShrinks DEF CronFire, CronRead, mem
  <2>2. UNCHANGED <<boot, pending, used, ent, txn, raised, reloading>>
    BY <1>8 DEF CronFire, CronRead, world
  <2>3. e[1] \notin AtJobs
    BY <1>8 DEF CronFire, CronRead, OnceInv
  <2>4. /\ \A f \in Entry \ {e} : handler'[f] = handler[f]
        /\ handler'[e] = handler[e] \/ handler'[e].pc \in {"idle", "reading"}
        /\ handler'[e].seen = handler[e].seen \/ handler'[e].seen = NoSchedule
    BY <1>8 DEF CronFire, CronRead, TypeOK, IdleHandler
  <2>5. \A k \in Jobs : Unarmed(k)' <=> Unarmed(k)
    BY <2>2 DEF Unarmed, Adding
  <2>6. \A f \in Entry : InMemory(f)' => InMemory(f)
    BY <2>1, <2>3, <2>4 DEF InMemory
  <2>7. \A f \in Entry :
          /\ handler'[f].pc \in {"found", "written"} => f[1] \in AtJobs
          /\ Homed(handler[f].seen, f[2])'
    BY <2>2, <2>4 DEF OnceInv, Homed, Stored, NoSchedule
  <2>8. \A q \in Picos : /\ Homed(ent[q], q)' /\ Homed(txn[q].seen, q)'
                         /\ txn'[q].op # "idle" => boot' = "up"
                         /\ \A k \in Jobs : Adding(q, k)' => Home[k] = q /\ k \in used'
    BY <2>2 DEF OnceInv, Homed, Adding
  <2>9. \A f \in futures' : f[1] \in AtJobs /\ handler'[f].pc = "idle"
    BY <2>1, <2>3, <2>4 DEF OnceInv, TypeOK
  <2>10. QED BY <2>1, <2>2, <2>5, <2>6, <2>7, <2>8, <2>9 DEF OnceInv, Entry
<1>9. ASSUME NEW p \in Picos, DeletePico(p) PROVE OnceInv'
  <2>1. futures' \subseteq futures /\ live' \subseteq live
    BY <1>9, RemoveShrinks DEF DeletePico
  <2>2. QED BY <1>9, <2>1, OnceShrink DEF DeletePico, TypeOK
<1>10. ASSUME NEW p \in Picos, Export(p) PROVE FALSE
  BY <1>10 DEF Export, NoImports
<1>11. ASSUME NEW p \in Picos, ImportSubtree(p) \/ ImportRulesetState(p) PROVE FALSE
  BY <1>11 DEF ImportSubtree, ImportRulesetState, NoImports
<1>12. ASSUME NEW p \in Picos, Reload(p) PROVE FALSE
  BY <1>12 DEF Reload, OnceInv
<1>13. ASSUME NEW p \in Picos, Load(p) PROVE OnceInv'
  <2>1. /\ boot = "loading" /\ p \in pending /\ pending' = pending \ {p}
        /\ UNCHANGED <<boot, used, ent, txn, handler, raised, reloading>>
    BY <1>13 DEF Load
  <2>2. /\ futures' = futures \union {e \in Entries(ent[p]) : e[1] \in AtJobs}
        /\ live' = live \union {e \in Entries(ent[p]) : e[1] \notin AtJobs}
    BY <1>13, AddGrows DEF Load
  <2>3. \A e \in Entries(ent[p]) : /\ e \in Entry /\ e[1] \in Jobs
                                   /\ Home[e[1]] = p /\ e[1] \in used
    BY EntriesType DEF OnceInv, TypeOK, Homed, Entries, Entry
  <2>4. \A q \in Picos, k \in Jobs : ~Adding(q, k)
    BY <2>1 DEF OnceInv, Adding
  <2>5. \A k \in Jobs : Unarmed(k)' => Unarmed(k) /\ (Home[k] # p \/ k \notin used)
    BY <2>1, <2>4 DEF Unarmed, Adding
  <2>6. \A e \in Entries(ent[p]) : ~InMemory(e) /\ raised[e] = 0
    BY <2>1, <2>3 DEF OnceInv, Unarmed
  <2>7. \A e \in Entry : InMemory(e)' => InMemory(e) \/ e \in Entries(ent[p])
    BY <2>1, <2>2 DEF InMemory
  <2>8. /\ \A e \in futures' : e[1] \in AtJobs /\ handler'[e].pc = "idle"
        /\ \A e \in live' : e[1] \notin AtJobs
    BY <2>1, <2>2, <2>6 DEF OnceInv, InMemory
  <2>9. \A e \in Entry :
          /\ handler'[e].pc \in {"found", "written"} => e[1] \in AtJobs
          /\ raised'[e] <= 1
          /\ InMemory(e)' => raised'[e] = 0
          /\ Homed(handler[e].seen, e[2])'
    BY <2>1, <2>6, <2>7 DEF OnceInv, Homed
  <2>10. \A e \in Entry : Unarmed(e[1])' => ~InMemory(e)' /\ raised'[e] = 0
    BY <2>1, <2>3, <2>5, <2>7 DEF OnceInv, Entry
  <2>11. \A q \in Picos : /\ Homed(ent[q], q)' /\ Homed(txn[q].seen, q)'
                          /\ txn'[q].op # "idle" => boot' = "up"
                          /\ \A k \in Jobs : Adding(q, k)' => Home[k] = q /\ k \in used'
    BY <2>1 DEF OnceInv, Homed, Adding
  <2>12. QED BY <2>1, <2>8, <2>9, <2>10, <2>11 DEF OnceInv
<1>14. CASE Crash
  <2>1. /\ boot' = "loading" /\ futures' = {} /\ live' = {}
        /\ raised' = [e \in Entry |-> 0]
        /\ txn' = [p \in Picos |-> IdleTxn] /\ handler' = [e \in Entry |-> IdleHandler]
        /\ reloading' = {} /\ UNCHANGED <<ent, used>>
    BY <1>14 DEF Crash
  <2>2. \A e \in Entry : ~InMemory(e)' /\ raised'[e] = 0
    BY <2>1 DEF InMemory, IdleHandler, OnceInv
  <2>3. \A e \in Entry : Homed(handler[e].seen, e[2])'
    BY <2>1 DEF Homed, Stored, NoSchedule, IdleHandler
  <2>4. \A p \in Picos : /\ Homed(ent[p], p)' /\ Homed(txn[p].seen, p)'
                         /\ txn'[p].op = "idle"
                         /\ \A j \in Jobs : ~Adding(p, j)'
    BY <2>1 DEF OnceInv, Homed, Stored, NoSchedule, IdleTxn, Adding
  <2>5. \A e \in Entry : handler'[e].pc = "idle"
    BY <2>1 DEF IdleHandler
  <2>6. QED BY <2>1, <2>2, <2>3, <2>4, <2>5 DEF OnceInv
<1>15. CASE Tick \/ StartFramework \/ FrameworkStarted \/ UNCHANGED vars
  <2>1. /\ UNCHANGED <<futures, live, pending, used, ent, txn, handler, raised, reloading>>
        /\ boot' = boot \/ (pending = {} /\ boot # "up")
    BY <1>15 DEF Tick, StartFramework, FrameworkStarted, vars, world, mem, OnceInv
  <2>2. \A k \in Jobs : Unarmed(k)' <=> Unarmed(k)
    BY <2>1 DEF Unarmed, Adding
  <2>3. \A e \in Entry : InMemory(e)' <=> InMemory(e)
    BY <2>1 DEF InMemory
  <2>4. QED BY <2>1, <2>2, <2>3 DEF OnceInv, Homed, Adding, Entry
<1>16. QED
  BY <1>1, <1>2, <1>3, <1>4, <1>5, <1>6, <1>7, <1>8, <1>9, <1>10, <1>11, <1>12,
     <1>13, <1>14, <1>15, <1>17 DEF Next, RuleActions, Handlers, LifeCycle

\* In an engine that imports nothing, each life of the process raises the event
\* of an `at` job at most once, though the handlers of two due jobs may put each
\* other's entry back into `_schedule`: a life has the job in memory only once.
THEOREM AtMostOncePerLifeCorrect == NoImports => (Spec => []AtMostOncePerLife)
<1> SUFFICES ASSUME NoImports PROVE Spec => []AtMostOncePerLife
  OBVIOUS
<1>1. Init => OnceInv BY SchedulerAssumption, OnceInit
<1>2. TypeOK /\ OnceInv /\ [Next]_vars => OnceInv'
  BY SchedulerAssumption, OnceStep
<1>3. OnceInv => AtMostOncePerLife BY DEF OnceInv, AtMostOncePerLife
<1>4. QED BY <1>1, <1>2, <1>3, TypeCorrect, PTL DEF Spec

-----------------------------------------------------------------------------
(* The indexes of the Scheduler.                                           *)

\* A stored schedule sends a job's event where the rule that scheduled it asked.
Targets(s) == \A j \in Jobs : s[j] \in {NoPico, To[j]}

\* The maps of the Scheduler know a job under the pico of its event only.
Agree ==
  /\ \A j \in Jobs : jobPicoId[j] \in {NoPico, To[j]}
  /\ \A p \in Picos, j \in Jobs : jobPicoId[j] = p <=> j \in jobsByPicoId[p]
  /\ \A e \in live : e[2] = To[e[1]] /\ crons[e[1]] = e[2]

\* Why the indexes agree: while nothing is exported no job id has two targets,
\* in the database, in memory or in what a suspended call has read.
IndexInv == IdsAreUnique =>
  /\ Agree
  /\ reloading = {}
  /\ \A p \in Picos : Targets(ent[p]) /\ Targets(txn[p].seen)
  /\ \A e \in Entry : Targets(handler[e].seen)

LEMMA AddAgree ==
  ASSUME SchedulerAssumption, MemType, Agree, NEW s \in Schedule, Targets(s),
         addScheduledEvents(s)
  PROVE  Agree'
<1>1. \A j \in Jobs : jobPicoId'[j] = IF j \in Indexed(s) THEN s[j] ELSE jobPicoId[j]
  BY DEF addScheduledEvents, registerJobs
<1>2. \A p \in Picos :
        jobsByPicoId'[p] = jobsByPicoId[p] \union {j \in Indexed(s) : s[j] = p}
  BY DEF addScheduledEvents, registerJobs
<1>3. \A j \in Jobs : crons'[j] = IF j \in Stored(s) \ AtJobs THEN s[j] ELSE crons[j]
  BY DEF addScheduledEvents
<1>4. \A e \in live' : e \in live \/ (e \in Entries(s) /\ e[1] \notin AtJobs)
  BY DEF addScheduledEvents
<1>5. \A j \in Indexed(s) : j \in Jobs /\ s[j] = To[j]
  BY DEF Indexed, Stored, Targets
<1>6. \A e \in Entries(s) : e[1] \in Stored(s) /\ e[2] = To[e[1]] /\ e[2] = s[e[1]]
  BY DEF Entries, Stored, Targets
<1>7. \A j \in Stored(s) : j \in Jobs /\ s[j] = To[j]
  BY DEF Stored, Targets
<1>8. \A j \in Jobs : jobPicoId'[j] \in {NoPico, To[j]}
  BY <1>1, <1>5 DEF Agree
<1>9. ASSUME NEW p \in Picos, NEW j \in Jobs
      PROVE  jobPicoId'[j] = p <=> j \in jobsByPicoId'[p]
  <2>1. CASE j \in Indexed(s)
    <3>1. jobPicoId'[j] = To[j] BY <1>1, <1>5, <2>1
    <3>2. j \in jobsByPicoId[p] => p = To[j] BY DEF Agree, SchedulerAssumption
    <3> QED BY <1>2, <1>5, <2>1, <3>1, <3>2
  <2>2. CASE j \notin Indexed(s) BY <1>1, <1>2, <2>2 DEF Agree
  <2> QED BY <2>1, <2>2
<1>10. \A e \in live' : e[2] = To[e[1]] /\ crons'[e[1]] = e[2]
  <2>1. \A e \in live : e[1] \in Jobs BY DEF MemType, Entry
  <2> QED BY <1>3, <1>4, <1>6, <1>7, <2>1 DEF Agree
<1> QED BY <1>8, <1>9, <1>10 DEF Agree

LEMMA RemoveAgree ==
  ASSUME SchedulerAssumption, MemType, Agree, NEW S, remove(S)
  PROVE  Agree'
<1>1. \A j \in Jobs : jobPicoId'[j] = IF j \in S THEN NoPico ELSE jobPicoId[j]
  BY DEF remove
<1>2. \A p \in Picos : jobsByPicoId'[p] = jobsByPicoId[p] \ {j \in S : jobPicoId[j] = p}
  BY DEF remove
<1>3. \A j \in Jobs : crons'[j] = IF j \in S THEN NoPico ELSE crons[j]
  BY DEF remove
<1>4. live' = live \ {e \in live : e[1] \in S /\ crons[e[1]] = e[2]}
  BY DEF remove
<1>5. \A p \in Picos, j \in Jobs : jobPicoId'[j] = p <=> j \in jobsByPicoId'[p]
  BY <1>1, <1>2 DEF Agree, SchedulerAssumption
<1>6. \A e \in live' : e \in live /\ e[1] \in Jobs /\ e[1] \notin S
  BY <1>4 DEF Agree, MemType, Entry
<1> QED BY <1>1, <1>3, <1>5, <1>6 DEF Agree

LEMMA IndexInit == SchedulerAssumption /\ Init => IndexInv
BY DEF Init, IndexInv, Agree, Targets, NoSchedule, IdleTxn, IdleHandler, SchedulerAssumption

LEMMA IndexStep ==
  ASSUME SchedulerAssumption, TypeOK, IndexInv, [Next]_vars
  PROVE  IndexInv'
<1>m. MemType BY DEF TypeOK, MemType
<1>0. /\ Targets(NoSchedule) /\ NoSchedule \in Schedule
      /\ Targets(IdleTxn.seen) /\ Targets(IdleHandler.seen)
  BY IdleTypes DEF Targets, NoSchedule, IdleTxn, IdleHandler
<1>1. SUFFICES ASSUME IdsAreUnique' PROVE IndexInv'
  BY DEF IndexInv
<1>2. IdsAreUnique /\ UNCHANGED pack /\ ~(\E p \in Picos : Export(p))
  <2>1. \A p \in Picos : ~Export(p)
    BY <1>1 DEF Export, IdsAreUnique, SchedulerAssumption
  <2>2. UNCHANGED pack
    BY <2>1 DEF Next, RuleActions, Handlers, LifeCycle, vars, world, AddRead, AddPut, AddArm,
       Remove, ClearRead, ClearWrite, OnTime, AtRead, AtWrite, AtRaise, CronFire, CronRead,
       Tick, DeletePico, ImportSubtree, Reload, ImportRulesetState, Crash, Load,
       StartFramework, FrameworkStarted
  <2> QED BY <1>1, <2>1, <2>2 DEF IdsAreUnique
<1>3. /\ Agree /\ reloading = {}
      /\ \A p \in Picos : Targets(ent[p]) /\ Targets(txn[p].seen)
      /\ \A e \in Entry : Targets(handler[e].seen)
  BY <1>2 DEF IndexInv
<1> DEFINE Told == /\ reloading = {}
                   /\ \A p \in Picos : Targets(ent[p]) /\ Targets(txn[p].seen)
                   /\ \A e \in Entry : Targets(handler[e].seen)
<1>4. SUFFICES Agree' /\ Told'
  BY DEF IndexInv
<1>5. UNCHANGED mem => Agree'
  BY <1>3 DEF mem, Agree
<1>6. ASSUME NEW p \in Picos, RuleActions(p) PROVE Agree' /\ Told'
  <2>1. ASSUME NEW j \in Jobs, AddRead(p, j) PROVE Agree' /\ Told'
    BY <1>3, <1>5, <2>1 DEF AddRead, world, TypeOK
  <2>2. CASE AddPut(p) \/ AddArm(p)
    <3> DEFINE j == txn[p].job
    <3>1. j \in Jobs BY <2>2 DEF AddPut, AddArm, TypeOK
    <3>2. /\ [NoSchedule EXCEPT ![j] = To[j]] \in Schedule
          /\ Targets([NoSchedule EXCEPT ![j] = To[j]])
      BY <3>1 DEF Schedule, NoSchedule, Targets, SchedulerAssumption
    <3>3. Targets([txn[p].seen EXCEPT ![j] = To[j]])
      <4>1. txn[p].seen \in Schedule BY DEF TypeOK, TxnState
      <4> QED BY <1>3, <3>1, <4>1 DEF Targets, Schedule
    <3>4. CASE AddPut(p)
      <4>1. \A q \in Picos : txn'[q].seen = txn[q].seen
        BY <3>4 DEF AddPut, TypeOK, TxnState
      <4>2. \A q \in Picos : Targets(ent[q])'
        BY <1>3, <3>3, <3>4 DEF AddPut, TypeOK, Targets
      <4> QED BY <1>3, <1>5, <3>4, <4>1, <4>2 DEF AddPut, world, Targets
    <3>5. CASE AddArm(p)
      <4>1. Agree' BY <1>3, <1>m, <3>2, <3>5, AddAgree DEF AddArm
      <4> QED BY <1>0, <1>3, <3>5, <4>1 DEF AddArm, world, TypeOK
    <3> QED BY <2>2, <3>4, <3>5
  <2>3. ASSUME NEW j \in Jobs, Remove(p, j) PROVE Agree' /\ Told'
    <3>1. Agree' BY <1>3, <1>m, <2>3, RemoveAgree DEF Remove
    <3> QED BY <1>0, <1>3, <2>3, <3>1 DEF Remove, world, TypeOK
  <2>4. CASE ClearRead(p)
    BY <1>3, <1>5, <2>4 DEF ClearRead, world, TypeOK
  <2>5. CASE ClearWrite(p)
    <3>1. Agree' BY <1>3, <1>m, <2>5, RemoveAgree DEF ClearWrite
    <3> QED BY <1>0, <1>3, <2>5, <3>1 DEF ClearWrite, world, TypeOK
  <2> QED BY <1>6, <2>1, <2>2, <2>3, <2>4, <2>5 DEF RuleActions
<1>7. ASSUME NEW p \in Picos, LifeCycle(p) PROVE Agree' /\ Told'
  <2>1. CASE DeletePico(p)
    <3>1. Agree' BY <1>3, <1>m, <2>1, RemoveAgree DEF DeletePico
    <3> QED BY <1>0, <1>3, <2>1, <3>1 DEF DeletePico, TypeOK
  <2>2. CASE Load(p)
    <3>1. Agree' BY <1>3, <1>m, <2>2, AddAgree DEF Load, TypeOK
    <3> QED BY <1>3, <2>2, <3>1 DEF Load
  <2>3. ~ImportSubtree(p) /\ ~ImportRulesetState(p) /\ ~Reload(p)
    BY <1>2, <1>3 DEF ImportSubtree, ImportRulesetState, Reload, IdsAreUnique
  <2> QED BY <1>2, <1>7, <2>1, <2>2, <2>3 DEF LifeCycle
<1>8. ASSUME NEW e \in Entry, Handlers(e) PROVE Agree' /\ Told'
  <2>1. e[2] \in Picos BY DEF Entry
  <2>2. CASE AtRead(e)
    BY <1>0, <1>3, <1>5, <2>1, <2>2 DEF AtRead, world, TypeOK
  <2>3. CASE AtWrite(e)
    <3>1. Targets(Omit(handler[e].seen, e[1]))
      BY <1>3 DEF Targets, Omit, TypeOK, HandlerState, Schedule
    <3> QED BY <1>0, <1>3, <1>5, <2>1, <2>3, <3>1 DEF AtWrite, world, TypeOK
  <2>4. CASE AtRaise(e)
    BY <1>0, <1>3, <1>5, <2>4 DEF AtRaise, world, TypeOK
  <2>5. CASE CronFire(e)
    <3>1. Agree' BY <1>3, <1>5, <1>m, <2>5, RemoveAgree DEF CronFire
    <3> QED BY <1>0, <1>3, <2>5, <3>1 DEF CronFire, world, TypeOK
  <2>6. CASE CronRead(e)
    <3>1. Agree' BY <1>3, <1>5, <1>m, <2>6, RemoveAgree DEF CronRead
    <3> QED BY <1>0, <1>3, <2>6, <3>1 DEF CronRead, world, TypeOK
  <2> QED BY <1>8, <2>2, <2>3, <2>4, <2>5, <2>6 DEF Handlers
<1>9. CASE OnTime
  <2>1. Agree' BY <1>3, <1>9 DEF OnTime, Agree
  <2>2. \A e \in Entry : handler'[e] = handler[e] \/ handler'[e].seen = NoSchedule
    BY <1>9 DEF OnTime, Started
  <2> QED BY <1>0, <1>3, <1>9, <2>1, <2>2 DEF OnTime, world
<1>10. CASE Crash
  <2>1. Agree' BY <1>10 DEF Crash, Agree, NoSchedule, SchedulerAssumption
  <2> QED BY <1>0, <1>3, <1>10, <2>1 DEF Crash, world
<1>11. CASE Tick \/ StartFramework \/ FrameworkStarted \/ UNCHANGED vars
  BY <1>3, <1>5, <1>11 DEF Tick, StartFramework, FrameworkStarted, vars, world
<1> QED BY <1>6, <1>7, <1>8, <1>9, <1>10, <1>11 DEF Next

\* As long as job ids are unique, jobPicoId and jobsByPicoId are inverses of each
\* other and every running cron handle is the one kept under its id, whatever
\* handlers, removals, deletions and restarts came in between.
THEOREM IndexesCorrect == Spec => []IndexesAgree
<1>1. Init => IndexInv BY SchedulerAssumption, IndexInit
<1>2. TypeOK /\ IndexInv /\ [Next]_vars => IndexInv'
  BY SchedulerAssumption, IndexStep
<1>3. IndexInv => IndexesAgree BY DEF IndexInv, Agree, IndexesAgree
<1> QED BY <1>1, <1>2, <1>3, TypeCorrect, PTL DEF Spec

-----------------------------------------------------------------------------
(* Deletion.                                                               *)

\* The rules of a pico schedule events for their own pico.
OwnJobs == \A j \in Jobs : To[j] = Home[j]

\* No import brings the id of a cron in a second time: crons has one handle per id.
OneHandlePerId == "import" \notin Ops \/ AtJobs = Jobs

\* The jobs of s go to picos that were born and, without imports, to the pico
\* whose rule scheduled them.
Placed(s) == \A j \in Jobs : /\ s[j] \notin unborn
                             /\ "import" \notin Ops => s[j] \in {NoPico, Home[j]}

\* cancelForPico finds the job of e under its pico, which exists.
Covered(e) == e[2] \in alive /\ e[1] \in jobsByPicoId[e[2]]

\* What is in memory is covered unless its look-up failed, and in the right one of
\* the two collections; a cron handle is the one kept under its id.
CoverMem ==
  /\ \A e \in futures \union live : /\ Covered(e) \/ e \in unseen
                                    /\ e[2] \notin unborn \union reloading
  /\ \A e \in futures : e[1] \in AtJobs
  /\ \A e \in live : /\ e[1] \notin AtJobs
                     /\ crons[e[1]] = e[2]
                     /\ "import" \notin Ops => e[2] = Home[e[1]]
  /\ \A j \in AtJobs : crons[j] = NoPico

\* Calls and handlers run for picos that were born and loaded, imports bring jobs
\* of the new pico only, and all that may become a `_schedule` is Placed.
CoverCalls ==
  /\ \A p \in Picos : txn[p].op # "idle" => boot = "up" /\ p \notin unborn \union reloading
  /\ \A p \in Picos : txn[p].op \in {"add", "arm"} => Home[txn[p].job] = p
  /\ \A e \in Entry : handler[e].pc # "idle" => e[2] \notin unborn \union reloading
  /\ unborn \intersect (alive \union outliving \union reloading) = {}
  /\ reloading # {} => boot = "up" /\ "import" \in Ops
  /\ \A q \in reloading, j \in Jobs : ent[q][j] \in {NoPico, q}
  /\ pack.src \notin unborn /\ Placed(pack.sched)
  /\ pack.src # NoPico => \A j \in Jobs : pack.sched[j] \in {NoPico, pack.src}
  /\ \A p \in Picos : Placed(ent[p]) /\ Placed(txn[p].seen)
  /\ \A e \in Entry : Placed(handler[e].seen)

\* Why a deletion reaches all jobs of the pico that an index could hold.
CoverInv == CoverMem /\ CoverCalls

LEMMA RemoveCover ==
  ASSUME SchedulerAssumption, MemType, CoverMem, NEW S, remove(S),
         UNCHANGED <<unborn, reloading>>,
         \A e \in futures \union live : e[1] \notin S => e[2] \in alive' \/ e \in unseen
  PROVE  CoverMem'
<1>1. \A p \in Picos : jobsByPicoId'[p] = jobsByPicoId[p] \ {j \in S : jobPicoId[j] = p}
  BY DEF remove
<1>2. \A j \in Jobs : crons'[j] = IF j \in S THEN NoPico ELSE crons[j]
  BY DEF remove
<1>3. \A e \in live' : e \in live /\ e[1] \notin S
  BY DEF remove, CoverMem
<1>4. \A e \in futures' : e \in futures /\ e[1] \notin S
  BY DEF remove, CoverMem
<1>5. \A e \in futures \union live : e[1] \in Jobs /\ e[2] \in Picos
  BY DEF MemType, Entry
<1>6. UNCHANGED unseen BY DEF remove
<1>7. \A e \in futures' \union live' : /\ Covered(e)' \/ e \in unseen'
                                       /\ e[2] \notin unborn' \union reloading'
  BY <1>1, <1>3, <1>4, <1>5, <1>6 DEF CoverMem, Covered
<1>8. \A e \in live' : crons'[e[1]] = e[2] /\ ("import" \notin Ops => e[2] = Home[e[1]])
  BY <1>2, <1>3, <1>5 DEF CoverMem
<1>9. \A j \in AtJobs : crons'[j] = NoPico
  BY <1>2 DEF CoverMem, SchedulerAssumption
<1> QED BY <1>3, <1>4, <1>7, <1>8, <1>9 DEF CoverMem

LEMMA AddCover ==
  ASSUME SchedulerAssumption, OneHandlePerId, MemType, CoverMem,
         NEW s \in Schedule, addScheduledEvents(s),
         UNCHANGED <<alive, unborn>>, reloading' \subseteq reloading,
         Placed(s), \A j \in Stored(s) : s[j] \notin reloading'
  PROVE  CoverMem'
<1>1. \A p \in Picos :
        jobsByPicoId'[p] = jobsByPicoId[p] \union {j \in Indexed(s) : s[j] = p}
  BY DEF addScheduledEvents, registerJobs
<1>2. \A j \in Jobs : crons'[j] = IF j \in Stored(s) \ AtJobs THEN s[j] ELSE crons[j]
  BY DEF addScheduledEvents
<1>3. /\ \A e \in futures' : e \in futures \/ (e \in Entries(s) /\ e[1] \in AtJobs)
      /\ \A e \in live' : e \in live \/ (e \in Entries(s) /\ e[1] \notin AtJobs)
      /\ unseen' = unseen \union {e \in Entries(s) : e[1] \notin Indexed(s)}
  BY DEF addScheduledEvents
<1>4. \A e \in Entries(s) : e[1] \in Stored(s) /\ e[2] = s[e[1]]
  BY DEF Entries
<1>5. \A j \in Stored(s) : /\ j \in Jobs /\ s[j] \in Picos /\ s[j] # NoPico
                           /\ j \in Indexed(s) => s[j] \in alive
  BY DEF Stored, Schedule, Indexed
<1>6. \A e \in futures \union live : e[1] \in Jobs /\ e[2] \in Picos
  BY DEF MemType, Entry
<1>7. \A e \in Entries(s) : /\ Covered(e)' \/ e \in unseen'
                            /\ e[2] \notin unborn' \union reloading'
  <2>1. ASSUME NEW e \in Entries(s), e[1] \in Indexed(s)
        PROVE  e[2] \in alive /\ e[1] \in jobsByPicoId'[e[2]]
    BY <1>1, <1>4, <1>5, <2>1
  <2>2. \A e \in Entries(s) : e[1] \notin Indexed(s) => e \in unseen'
    BY <1>3
  <2>3. \A e \in Entries(s) : e[2] \notin unborn /\ e[2] \notin reloading'
    BY <1>4, <1>5 DEF Placed
  <2>4. alive' = alive /\ unborn' = unborn
    OBVIOUS
  <2> QED BY <2>1, <2>2, <2>3, <2>4 DEF Covered
<1>8. \A e \in futures \union live : /\ Covered(e) => Covered(e)'
                                     /\ e[2] \notin unborn' \union reloading'
  BY <1>1, <1>6 DEF Covered, CoverMem
<1>9. \A e \in futures' \union live' : /\ Covered(e)' \/ e \in unseen'
                                       /\ e[2] \notin unborn' \union reloading'
  BY <1>3, <1>7, <1>8 DEF CoverMem
<1>10. \A j \in Stored(s) \ AtJobs : "import" \notin Ops /\ s[j] = Home[j]
  <2>1. ASSUME NEW j \in Stored(s) \ AtJobs PROVE "import" \notin Ops
    BY <1>5, <2>1 DEF OneHandlePerId
  <2>2. Placed(s) OBVIOUS
  <2>3. ASSUME NEW j \in Stored(s) \ AtJobs PROVE s[j] = Home[j]
    BY <1>5, <2>1, <2>2 DEF Placed
  <2> QED BY <2>1, <2>3
<1>11. \A e \in live' : crons'[e[1]] = e[2] /\ ("import" \notin Ops => e[2] = Home[e[1]])
  <2>1. ASSUME NEW e \in live, e[1] \notin Stored(s) \ AtJobs
        PROVE  crons'[e[1]] = e[2] /\ ("import" \notin Ops => e[2] = Home[e[1]])
    BY <1>2, <1>6, <2>1 DEF CoverMem
  <2>2. ASSUME NEW e \in live, e[1] \in Stored(s) \ AtJobs
        PROVE  crons'[e[1]] = e[2] /\ ("import" \notin Ops => e[2] = Home[e[1]])
    BY <1>2, <1>5, <1>10, <2>2 DEF CoverMem
  <2>3. ASSUME NEW e \in Entries(s), e[1] \notin AtJobs
        PROVE  crons'[e[1]] = e[2] /\ ("import" \notin Ops => e[2] = Home[e[1]])
    BY <1>2, <1>4, <1>5, <1>10, <2>3
  <2> QED BY <1>3, <2>1, <2>2, <2>3
<1>12. \A j \in AtJobs : crons'[j] = NoPico
  BY <1>2 DEF CoverMem, SchedulerAssumption
<1> QED BY <1>3, <1>9, <1>11, <1>12 DEF CoverMem

LEMMA CoverFrame ==
  ASSUME CoverMem, UNCHANGED <<mem, alive, unborn, reloading>>
  PROVE  CoverMem'
BY DEF CoverMem, Covered, mem

LEMMA NothingPlaced ==
  ASSUME SchedulerAssumption, unborn \subseteq Picos
  PROVE  Placed(NoSchedule) /\ Placed(IdleTxn.seen) /\ Placed(IdleHandler.seen)
BY DEF SchedulerAssumption, Placed, NoSchedule, IdleTxn, IdleHandler

LEMMA CoverInit == SchedulerAssumption /\ Init => CoverInv
<1> SUFFICES ASSUME SchedulerAssumption, Init PROVE CoverInv
  OBVIOUS
<1>1. Placed(NoSchedule) /\ Placed(IdleTxn.seen) /\ Placed(IdleHandler.seen)
  BY NothingPlaced DEF Init
<1>2. CoverMem BY DEF Init, CoverMem, NoSchedule, SchedulerAssumption
<1>3. CoverCalls BY <1>1 DEF Init, CoverCalls, IdleTxn, IdleHandler, SchedulerAssumption
<1> QED BY <1>2, <1>3 DEF CoverInv

LEMMA CoverRules ==
  ASSUME SchedulerAssumption, OwnJobs, OneHandlePerId, TypeOK, MemType,
         CoverMem, CoverCalls, NEW p \in Picos, RuleActions(p)
  PROVE  CoverMem' /\ CoverCalls'
<1>0. Placed(NoSchedule) /\ Placed(IdleTxn.seen)
  BY NothingPlaced DEF TypeOK
<1>w. UNCHANGED <<world, handler>>
  BY DEF RuleActions, AddRead, AddPut, AddArm, Remove, ClearRead, ClearWrite
<1>s. Serving(p) => boot = "up" /\ p \notin unborn \union reloading
  BY DEF Serving, CoverCalls
<1>1. CASE (\E j \in Jobs : AddRead(p, j)) \/ ClearRead(p)
  <2>1. Serving(p) /\ UNCHANGED <<mem, ent>>
    BY <1>1 DEF AddRead, ClearRead
  <2>2. CoverMem' BY <1>w, <2>1, CoverFrame DEF world
  <2>3. \A q \in Picos : /\ q # p => txn'[q] = txn[q]
                         /\ Placed(txn'[q].seen)
                         /\ txn'[q].op \in {"add", "arm"} => Home[txn'[q].job] = q
    BY <1>1 DEF AddRead, ClearRead, TypeOK, CoverCalls
  <2> QED BY <1>s, <1>w, <2>1, <2>2, <2>3 DEF world, CoverCalls, Placed
<1>2. CASE AddPut(p) \/ AddArm(p)
  <2> DEFINE j == txn[p].job
  <2>1. /\ j \in Jobs /\ Home[j] = p /\ To[j] = p /\ p \notin unborn \union reloading
        /\ boot = "up" /\ txn[p].seen \in Schedule
    BY <1>2 DEF AddPut, AddArm, TypeOK, TxnState, CoverCalls, OwnJobs
  <2>2. ASSUME NEW s \in Schedule, Placed(s) PROVE Placed([s EXCEPT ![j] = To[j]])
    BY <2>1, <2>2 DEF Placed, Schedule
  <2>3. CASE AddPut(p)
    <3>1. CoverMem' BY <1>w, <2>3, CoverFrame DEF AddPut, world
    <3>2. \A q \in Picos : Placed(ent'[q])
      BY <2>1, <2>2, <2>3 DEF AddPut, TypeOK, CoverCalls
    <3>3. \A q \in reloading : ent'[q] = ent[q]
      BY <2>1, <2>3 DEF AddPut, TypeOK
    <3>4. \A q \in Picos : /\ txn'[q].seen = txn[q].seen /\ txn'[q].job = txn[q].job
                           /\ txn'[q].op # "idle" => txn[q].op # "idle"
                           /\ txn'[q].op \in {"add", "arm"} => txn[q].op \in {"add", "arm"}
      BY <2>3 DEF AddPut, TypeOK, TxnState
    <3> HIDE DEF j
    <3> QED BY <1>w, <3>1, <3>2, <3>3, <3>4 DEF world, CoverCalls, Placed
  <2>4. CASE AddArm(p)
    <3> DEFINE s == [NoSchedule EXCEPT ![j] = To[j]]
    <3>1. s \in Schedule /\ Placed(s) BY <1>0, <2>1, <2>2 DEF Schedule, NoSchedule
    <3>2. \A k \in Stored(s) : s[k] = p
      BY <2>1 DEF Stored, NoSchedule
    <3>3. addScheduledEvents(s) /\ UNCHANGED <<alive, unborn, reloading>>
      BY <1>w, <2>4 DEF AddArm, world
    <3> HIDE DEF s
    <3>4. CoverMem' BY <2>1, <3>1, <3>2, <3>3, AddCover
    <3>5. \A q \in Picos : txn'[q] = txn[q] \/ txn'[q] = IdleTxn
      BY <2>4 DEF AddArm, TypeOK
    <3> QED BY <1>0, <1>w, <2>4, <3>4, <3>5 DEF AddArm, world, IdleTxn, CoverCalls, Placed
  <2> QED BY <1>2, <2>3, <2>4
<1>3. CASE (\E j \in Jobs : Remove(p, j)) \/ ClearWrite(p)
  <2>1. PICK S : remove(S) BY <1>3 DEF Remove, ClearWrite
  <2>2. CoverMem' BY <1>w, <2>1, RemoveCover DEF world, CoverMem, Covered
  <2>3. p \notin reloading
    BY <1>3, <1>s DEF Remove, ClearWrite, CoverCalls
  <2>4. /\ \A q \in Picos : ent'[q] = ent[q] \/ ent'[q] = NoSchedule
        /\ \A q \in reloading : ent'[q] = ent[q]
    BY <1>3, <2>3 DEF Remove, ClearWrite, TypeOK
  <2>5. \A q \in Picos : txn'[q] = txn[q] \/ txn'[q] = IdleTxn
    BY <1>3 DEF Remove, ClearWrite, TypeOK
  <2>6. \A q \in Picos : Placed(ent'[q]) /\ Placed(txn'[q].seen)
    BY <1>0, <2>4, <2>5 DEF CoverCalls
  <2>7. \A q \in Picos :
          /\ txn'[q].op # "idle" => boot = "up" /\ q \notin unborn \union reloading
          /\ txn'[q].op \in {"add", "arm"} => Home[txn'[q].job] = q
    BY <2>5 DEF IdleTxn, CoverCalls
  <2> QED BY <1>w, <2>2, <2>4, <2>6, <2>7 DEF world, CoverCalls, Placed
<1> QED BY <1>1, <1>2, <1>3 DEF RuleActions

LEMMA CoverLifeCycle ==
  ASSUME SchedulerAssumption, OneHandlePerId, TypeOK, MemType, CoverMem, CoverCalls,
         NEW p \in Picos, LifeCycle(p)
  PROVE  CoverMem' /\ CoverCalls'
<1>0. Placed(NoSchedule) BY NothingPlaced DEF TypeOK
<1>1. CASE DeletePico(p)
  <2>1. /\ alive' = alive \ {p} /\ remove(jobsByPicoId[p]) /\ p \in alive
        /\ outliving' = outliving \union {p} /\ ent' = [ent EXCEPT ![p] = NoSchedule]
        /\ UNCHANGED <<boot, unborn, reloading, txn, handler, pack>>
    BY <1>1 DEF DeletePico
  <2>2. \A e \in futures \union live :
          e[1] \notin jobsByPicoId[p] => e[2] \in alive' \/ e \in unseen
    BY <2>1 DEF CoverMem, Covered
  <2>3. CoverMem' BY <2>1, <2>2, RemoveCover
  <2>4. \A q \in Picos : ent'[q] = ent[q] \/ ent'[q] = NoSchedule
    BY <2>1 DEF TypeOK
  <2>5. \A q \in reloading, j \in Jobs : ent'[q][j] \in {NoPico, q}
    BY <2>4 DEF CoverCalls, NoSchedule, TypeOK
  <2>6. \A q \in Picos : Placed(ent'[q]) BY <1>0, <2>4 DEF CoverCalls
  <2>7. unborn \intersect (alive' \union outliving' \union reloading) = {}
    BY <2>1 DEF CoverCalls
  <2> QED BY <2>1, <2>3, <2>5, <2>6, <2>7 DEF CoverCalls, Placed
<1>2. CASE Export(p)
  <2>1. CoverMem' BY <1>2, CoverFrame DEF Export
  <2>2. \A j \in Jobs : ent[p][j] \in {NoPico, p}
    BY <1>2 DEF Export, Stored
  <2>3. p \notin unborn BY <1>2 DEF Export, CoverCalls
  <2>4. pack' = [src |-> p, sched |-> ent[p]] BY <1>2 DEF Export
  <2> QED BY <1>2, <2>1, <2>2, <2>3, <2>4 DEF Export, CoverCalls, Placed
<1>3. CASE ImportSubtree(p)
  <2>1. /\ p \notin alive \union outliving \union reloading /\ p \in unborn
        /\ boot = "up" /\ pack.src # NoPico
    BY <1>3 DEF ImportSubtree, CoverCalls
  <2>2. /\ alive' = alive \union {p} /\ reloading' = reloading \union {p}
        /\ unborn' = unborn \ {p} /\ "import" \in Ops
        /\ UNCHANGED <<mem, boot, outliving, txn, handler, pack>>
    BY <1>3 DEF ImportSubtree
  <2>3. \A e \in futures \union live : e[2] # p
    BY <2>1 DEF CoverMem
  <2>4. CoverMem' BY <2>2, <2>3 DEF CoverMem, Covered, mem
  <2>5. \A j \in Jobs : ent'[p][j] \in {NoPico, p}
    BY <1>3, <2>1 DEF ImportSubtree, TypeOK, CoverCalls
  <2>6. \A q \in Picos \ {p} : ent'[q] = ent[q]
    BY <1>3 DEF ImportSubtree, TypeOK
  <2>7. ASSUME NEW t, Placed(t) PROVE Placed(t)'
    BY <2>2, <2>7 DEF Placed
  <2>8. Placed(ent[p])'
    BY <2>2, <2>5 DEF Placed, SchedulerAssumption, TypeOK
  <2>9. \A q \in Picos : /\ Placed(ent[q])' /\ Placed(txn[q].seen)'
                         /\ txn'[q].op # "idle" => q \notin unborn' \union reloading'
    BY <2>1, <2>2, <2>6, <2>8 DEF CoverCalls, Placed
  <2>10. \A e \in Entry : /\ Placed(handler[e].seen)'
                          /\ handler'[e].pc # "idle" => e[2] \notin unborn' \union reloading'
    BY <2>1, <2>2 DEF CoverCalls, Placed
  <2>11. Placed(pack.sched)' /\ pack'.src \notin unborn'
    BY <2>2 DEF CoverCalls, Placed
  <2>12. \A q \in reloading', j \in Jobs : ent'[q][j] \in {NoPico, q}
    BY <2>2, <2>5, <2>6 DEF CoverCalls, TypeOK
  <2> QED BY <2>1, <2>2, <2>4, <2>9, <2>10, <2>11, <2>12 DEF CoverCalls
<1>4. CASE Reload(p)
  <2>1. /\ p \in reloading /\ boot = "up" /\ addScheduledEvents(ent[p])
        /\ reloading' = reloading \ {p}
        /\ UNCHANGED <<boot, alive, outliving, unborn, ent, txn, handler, pack>>
    BY <1>4 DEF Reload
  <2>2. ent[p] \in Schedule /\ Placed(ent[p])
    BY DEF TypeOK, CoverCalls
  <2>3. \A j \in Stored(ent[p]) : ent[p][j] = p
    BY <2>1 DEF Stored, CoverCalls
  <2>4. CoverMem' BY <2>1, <2>2, <2>3, AddCover
  <2> QED BY <2>1, <2>4 DEF CoverCalls, Placed
<1>5. CASE ImportRulesetState(p)
  <2>1. CoverMem' BY <1>5, CoverFrame DEF ImportRulesetState, world
  <2>2. \A q \in reloading : ent'[q] = ent[q]
    BY <1>5 DEF ImportRulesetState, Serving, TypeOK
  <2>3. \A q \in Picos : ent'[q] = ent[q] \/ ent'[q] = pack.sched
    BY <1>5 DEF ImportRulesetState, TypeOK
  <2>4. \A q \in Picos : Placed(ent'[q])
    BY <2>3 DEF CoverCalls
  <2> QED BY <1>5, <2>1, <2>2, <2>4 DEF ImportRulesetState, world, CoverCalls, Placed
<1>6. CASE Load(p)
  <2>1. /\ reloading = {} /\ addScheduledEvents(ent[p])
        /\ UNCHANGED <<boot, alive, outliving, unborn, ent, txn, handler, pack, reloading>>
    BY <1>6 DEF Load, CoverCalls
  <2>2. ent[p] \in Schedule /\ Placed(ent[p])
    BY DEF TypeOK, CoverCalls
  <2>3. CoverMem' BY <2>1, <2>2, AddCover
  <2> QED BY <2>1, <2>3 DEF CoverCalls, Placed
<1> QED BY <1>1, <1>2, <1>3, <1>4, <1>5, <1>6 DEF LifeCycle

LEMMA CoverHandlers ==
  ASSUME SchedulerAssumption, TypeOK, MemType, CoverMem, CoverCalls,
         NEW e \in Entry, Handlers(e)
  PROVE  CoverMem' /\ CoverCalls'
<1>0. Placed(NoSchedule) BY NothingPlaced DEF TypeOK
<1>1. e[2] \in Picos BY DEF Entry
<1>2. UNCHANGED <<world, used, txn>>
  BY DEF Handlers, AtRead, AtWrite, AtRaise, CronFire, CronRead
<1>3. CoverMem'
  <2>1. ASSUME remove({e[1]}) PROVE CoverMem'
    BY <1>2, <2>1, RemoveCover DEF world, CoverMem, Covered
  <2> QED BY <1>2, <2>1, CoverFrame
          DEF Handlers, AtRead, AtWrite, AtRaise, CronFire, CronRead, world
<1>4. \A f \in Entry : handler'[f].pc # "idle" => f[2] \notin unborn \union reloading
  <2>1. \A f \in Entry \ {e} : handler'[f] = handler[f]
    BY DEF Handlers, AtRead, AtWrite, AtRaise, CronFire, CronRead, TypeOK
  <2>2. e \in live \/ handler[e].pc # "idle"
    BY DEF Handlers, AtRead, AtWrite, AtRaise, CronFire, CronRead
  <2>3. e[2] \notin unborn \union reloading
    BY <2>2 DEF CoverMem, CoverCalls
  <2> QED BY <2>1, <2>3
          DEF CoverCalls
<1>5. \A q \in reloading : ent'[q] = ent[q]
  <2>1. AtWrite(e) => e[2] \notin reloading
    BY DEF AtWrite, CoverCalls
  <2> QED BY <2>1 DEF Handlers, AtRead, AtWrite, AtRaise, CronFire, CronRead, TypeOK
<1>6. \A q \in Picos : Placed(ent'[q])
  <2>1. Placed(Omit(handler[e].seen, e[1]))
    <3>1. handler[e].seen \in Schedule BY DEF TypeOK, HandlerState
    <3>2. unborn \subseteq Picos BY DEF TypeOK
    <3>3. Placed(handler[e].seen) BY DEF CoverCalls
    <3> QED BY <3>1, <3>2, <3>3 DEF Placed, Omit, Schedule, SchedulerAssumption
  <2>2. \A q \in Picos : ent'[q] = ent[q] \/ ent'[q] = Omit(handler[e].seen, e[1])
    BY DEF Handlers, AtRead, AtWrite, AtRaise, CronFire, CronRead, TypeOK
  <2> QED BY <2>1, <2>2 DEF CoverCalls
<1>7. \A f \in Entry : Placed(handler'[f].seen)
  <2>1. \A f \in Entry : \/ handler'[f].seen = handler[f].seen
                         \/ handler'[f].seen = NoSchedule
                         \/ handler'[f].seen = ent[e[2]]
    BY DEF Handlers, AtRead, AtWrite, AtRaise, CronFire, CronRead, TypeOK, IdleHandler
  <2> QED BY <1>0, <1>1, <2>1 DEF CoverCalls
<1> QED BY <1>2, <1>3, <1>4, <1>5, <1>6, <1>7 DEF world, CoverCalls, Placed

LEMMA CoverStep ==
  ASSUME SchedulerAssumption, OwnJobs, OneHandlePerId, TypeOK, CoverInv, [Next]_vars
  PROVE  CoverInv'
<1>m. MemType BY DEF TypeOK, MemType
<1>c. CoverMem /\ CoverCalls BY DEF CoverInv
<1>0. Placed(NoSchedule) /\ Placed(IdleTxn.seen) /\ Placed(IdleHandler.seen)
  BY NothingPlaced DEF TypeOK
<1>1. SUFFICES CoverMem' /\ CoverCalls'
  BY DEF CoverInv
<1>2. ASSUME NEW p \in Picos, RuleActions(p) PROVE CoverMem' /\ CoverCalls'
  BY <1>m, <1>c, <1>2, CoverRules
<1>3. ASSUME NEW p \in Picos, LifeCycle(p) PROVE CoverMem' /\ CoverCalls'
  BY <1>m, <1>c, <1>3, CoverLifeCycle
<1>4. ASSUME NEW e \in Entry, Handlers(e) PROVE CoverMem' /\ CoverCalls'
  BY <1>m, <1>c, <1>4, CoverHandlers
<1>5. CASE OnTime
  <2>1. CoverMem' BY <1>c, <1>5 DEF OnTime, world, CoverMem, Covered
  <2>2. \A e \in Entry : \/ handler'[e] = handler[e]
                         \/ e \in futures /\ handler'[e].seen = NoSchedule
    BY <1>5 DEF OnTime, Started
  <2>3. \A e \in Entry : /\ handler'[e].pc # "idle" => e[2] \notin unborn \union reloading
                         /\ Placed(handler'[e].seen)
    BY <1>0, <1>c, <2>2 DEF CoverMem, CoverCalls
  <2> QED BY <1>c, <1>5, <2>1, <2>3 DEF OnTime, world, CoverCalls, Placed
<1>6. CASE Crash
  <2>1. CoverMem' BY <1>6 DEF Crash, CoverMem, NoSchedule
  <2>2. /\ txn' = [p \in Picos |-> IdleTxn] /\ handler' = [e \in Entry |-> IdleHandler]
        /\ reloading' = {} /\ outliving' = {} /\ UNCHANGED <<alive, unborn, ent, pack>>
    BY <1>6 DEF Crash
  <2>3. \A p \in Picos : txn'[p].op = "idle" /\ Placed(txn'[p].seen)
    BY <1>0, <2>2 DEF IdleTxn
  <2>4. \A e \in Entry : handler'[e].pc = "idle" /\ Placed(handler'[e].seen)
    BY <1>0, <2>2 DEF IdleHandler
  <2>5. unborn' \intersect (alive' \union outliving' \union reloading') = {}
    BY <1>c, <2>2 DEF CoverCalls
  <2> QED BY <1>c, <2>1, <2>2, <2>3, <2>4, <2>5 DEF CoverCalls, Placed
<1>7. CASE Tick \/ StartFramework \/ FrameworkStarted \/ UNCHANGED vars
  <2>1. /\ UNCHANGED <<mem, alive, outliving, unborn, ent, txn, handler, reloading, pack>>
        /\ boot = "up" => boot' = "up"
    BY <1>7 DEF Tick, StartFramework, FrameworkStarted, vars, world
  <2>2. CoverMem' BY <1>c, <2>1, CoverFrame
  <2> QED BY <1>c, <2>1, <2>2 DEF CoverCalls, Placed
<1> QED BY <1>2, <1>3, <1>4, <1>5, <1>6, <1>7 DEF Next

\* While the rules of a pico schedule events for their own pico, and no import
\* brings the id of a cron in twice, a deletion takes all jobs of the pico out of
\* memory that were armed while its ECI could be looked up: in every life of the
\* process, and however the pico's own schedule calls, due handlers, exports,
\* imports and restarts interleave with the deletion.
THEOREM DeletionCorrect == OwnJobs /\ OneHandlePerId => (Spec => []DeletedPicoHasNoJobs)
<1> SUFFICES ASSUME OwnJobs, OneHandlePerId PROVE Spec => []DeletedPicoHasNoJobs
  OBVIOUS
<1>1. Init => CoverInv BY SchedulerAssumption, CoverInit
<1>2. TypeOK /\ CoverInv /\ [Next]_vars => CoverInv'
  BY SchedulerAssumption, CoverStep
<1>3. CoverInv => DeletedPicoHasNoJobs
  BY DEF CoverInv, CoverMem, Covered, DeletedPicoHasNoJobs
<1> QED BY <1>1, <1>2, <1>3, TypeCorrect, PTL DEF Spec
=============================================================================
