------------------------------ MODULE Scheduler ------------------------------
(***************************************************************************)
(* The KRL `schedule` module of pico-engine-core: the process-wide         *)
(* Scheduler (futures, one timer, cron handles, job-to-pico index), the    *)
(* `_schedule` entity variable in which every pico persists its jobs, the  *)
(* handlers that run when a job comes due, and the life cycle around them: *)
(* start-up, crash, deletion of a pico and import of an exported pico.     *)
(*                                                                         *)
(* JavaScript runs one continuation at a time, so the code between two     *)
(* awaits is one action.  A `schedule` action of a rule runs inside a      *)
(* transaction of its pico, and a pico runs one transaction at a time      *)
(* (pico-framework's queue); the handlers of due jobs run outside any      *)
(* transaction (schedule.ts:185 and :202).                                 *)
(***************************************************************************)
EXTENDS Integers, FiniteSets

CONSTANTS
  Picos,        \* picos, those an import may create included
  FirstPicos,   \* the picos that exist at the start
  NoPico,
  Jobs,         \* job ids; an id is a cuid, so a job's attributes are fixed
  NoJob,
  AtJobs,       \* jobs of `schedule .. at`; the others are `.. repeat`
  Home,         \* Home[j]: the pico whose rule schedules j
  To,           \* To[j]: the pico that owns the ECI of j's event
  Due,          \* Due[j]: the time of an `at` job
  MaxTime,      \* bound of the clock
  MaxCrashes,   \* bound of the number of crashes
  Ops           \* the operations the users of this instance call

AllOps == {"add", "remove", "clear", "delete", "import", "importState", "crash"}

ASSUME SchedulerAssumption ==
  /\ FirstPicos \subseteq Picos
  /\ NoPico \notin Picos
  /\ NoJob \notin Jobs
  /\ AtJobs \subseteq Jobs
  /\ Home \in [Jobs -> Picos]
  /\ To \in [Jobs -> Picos]
  /\ Due \in [Jobs -> Nat]
  /\ MaxTime \in Nat
  /\ MaxCrashes \in Nat
  /\ Ops \subseteq AllOps

VARIABLES
  now,          \* the clock
  boot,         \* "loading": the module's start(); "starting": framework start
  pending,      \* picos whose `_schedule` the start-up has yet to load
  alive,        \* picos that exist, so that their ECIs resolve
  outliving,    \* picos deleted in this life: their last transaction may still run
  unborn,       \* picos that no import has created yet
  ent,          \* ent[p]: the persisted `_schedule` of p
  used,         \* ids handed out by cuid()
  futures,      \* Scheduler.futures: in-memory `at` entries <<id, pico>>
  timer,        \* when currTimeout fires
  crons,        \* Scheduler.crons: the pico of the handle kept for an id
  live,         \* cron handles that node-schedule still runs
  jobPicoId,    \* Scheduler.jobPicoId
  jobsByPicoId, \* Scheduler.jobsByPicoId
  txn,          \* txn[p]: the suspended schedule call of p's transaction
  handler,      \* handler[e]: the suspended handler of in-memory entry e
  raised,       \* raised[e]: how often entry e raised its event in this life
  unseen,       \* history: entries put in memory in this life while the look-up
                \* of their ECI failed, so that no index holds them
  pack,         \* an export blob that holds a `_schedule`
  reloading,    \* imported picos whose jobs are not yet re-armed
  crashes

mem == <<futures, timer, crons, live, jobPicoId, jobsByPicoId, unseen>>
world == <<now, boot, pending, alive, outliving, unborn, pack, reloading, crashes>>
vars == <<world, ent, used, mem, txn, handler, raised>>

NoTimer == -1
Entry == Jobs \X Picos

\* A stored `_schedule`: the pico each job's event goes to, NoPico if absent.
Schedule == [Jobs -> Picos \union {NoPico}]
NoSchedule == [j \in Jobs |-> NoPico]
OmitEntry(s, j) == [k \in DOMAIN s \ {j} |-> s[k]]  \* mutant of Omit
Omit(s, j) == [s EXCEPT ![j] = NoPico]
Stored(s) == {j \in Jobs : s[j] # NoPico}
Entries(s) == {<<j, s[j]>> : j \in Stored(s)}

IdleTxn == [op |-> "idle", job |-> NoJob, seen |-> NoSchedule]
IdleHandler == [pc |-> "idle", seen |-> NoSchedule]

-----------------------------------------------------------------------------
(* The Scheduler class.  Each operator is one method, as a change of mem.  *)

\* update(): forget the timer, then arm it for the first of the futures.
update(fs) ==
  \/ fs = {} /\ timer' = NoTimer
  \/ \E e \in fs : /\ \A f \in fs : Due[e[1]] <= Due[f[1]]
                   /\ timer' = Due[e[1]]

\* registerJob(channelPicoId(eci), id) for every job of s.  The lookup of the
\* channel fails, and nothing is indexed, until the framework has started.
Indexed(s) == {j \in Stored(s) : boot = "up" /\ s[j] \in alive}
registerJobs(s) ==
  /\ jobPicoId' = [j \in Jobs |-> IF j \in Indexed(s) THEN s[j] ELSE jobPicoId[j]]
  /\ jobsByPicoId' =
       [p \in Picos |-> jobsByPicoId[p] \union {j \in Indexed(s) : s[j] = p}]

\* addScheduledEvent for every job of s: addFuture or addCron.
addScheduledEvents(s) ==
  LET ats == {e \in Entries(s) : e[1] \in AtJobs}
      repeats == Entries(s) \ ats
  IN /\ registerJobs(s)
     /\ futures' = futures \union ats
     /\ IF ats = {} THEN UNCHANGED timer ELSE update(futures')
     /\ crons' = [j \in Jobs |-> IF j \in Stored(s) \ AtJobs THEN s[j] ELSE crons[j]]
     /\ live' = live \union repeats
     /\ unseen' = unseen \union {e \in Entries(s) : e[1] \notin Indexed(s)}

removeUnindexed(S) ==  \* mutant of remove: the index keeps the job
  LET dropped == {e \in futures : e[1] \in S /\ crons[e[1]] = NoPico}
  IN /\ jobPicoId' = [j \in Jobs |-> IF j \in S THEN NoPico ELSE jobPicoId[j]]
     /\ crons' = [j \in Jobs |-> IF j \in S THEN NoPico ELSE crons[j]]
     /\ live' = live \ {e \in live : e[1] \in S /\ crons[e[1]] = e[2]}
     /\ futures' = futures \ dropped
     /\ IF dropped = {} THEN UNCHANGED timer ELSE update(futures')
     /\ UNCHANGED <<jobsByPicoId, unseen>>

removeNoUpdate(S) ==  \* mutant of remove: the timer is left as it was
  LET dropped == {e \in futures : e[1] \in S /\ crons[e[1]] = NoPico}
  IN /\ jobPicoId' = [j \in Jobs |-> IF j \in S THEN NoPico ELSE jobPicoId[j]]
     /\ jobsByPicoId' =
          [p \in Picos |-> jobsByPicoId[p] \ {j \in S : jobPicoId[j] = p}]
     /\ crons' = [j \in Jobs |-> IF j \in S THEN NoPico ELSE crons[j]]
     /\ live' = live \ {e \in live : e[1] \in S /\ crons[e[1]] = e[2]}
     /\ futures' = futures \ dropped
     /\ UNCHANGED <<timer, unseen>>

\* remove(id) for every id of S: one cron handle, or else the futures.
remove(S) ==
  LET dropped == {e \in futures : e[1] \in S /\ crons[e[1]] = NoPico}
  IN /\ jobPicoId' = [j \in Jobs |-> IF j \in S THEN NoPico ELSE jobPicoId[j]]
     /\ jobsByPicoId' =
          [p \in Picos |-> jobsByPicoId[p] \ {j \in S : jobPicoId[j] = p}]
     /\ crons' = [j \in Jobs |-> IF j \in S THEN NoPico ELSE crons[j]]
     /\ live' = live \ {e \in live : e[1] \in S /\ crons[e[1]] = e[2]}
     /\ futures' = futures \ dropped
     /\ IF dropped = {} THEN UNCHANGED timer ELSE update(futures')
     /\ UNCHANGED unseen

-----------------------------------------------------------------------------
(* The KRL actions, inside a transaction of pico p.                        *)

\* A transaction of p may make its next schedule call.  The framework starts no
\* transaction of a deleted pico, but nothing stops the one that was running.
Serving(p) == /\ boot = "up" /\ p \in alive \union outliving
              /\ txn[p] = IdleTxn /\ p \notin reloading

\* schedule:at and schedule:repeat up to `await getEnt` of addToSchedule.
AddRead(p, j) ==
  /\ "add" \in Ops /\ Serving(p)
  /\ Home[j] = p /\ j \notin used
  /\ used' = used \union {j}
  /\ txn' = [txn EXCEPT ![p] = [op |-> "add", job |-> j, seen |-> ent[p]]]
  /\ UNCHANGED <<world, ent, mem, handler, raised>>

\* Its `await putEnt` of what it read and the new job, ...
AddPut(p) ==
  /\ txn[p].op = "add"
  /\ ent' = [ent EXCEPT ![p] = [txn[p].seen EXCEPT ![txn[p].job] = To[txn[p].job]]]
  /\ txn' = [txn EXCEPT ![p].op = "arm"]
  /\ UNCHANGED <<world, used, mem, handler, raised>>

\* ... and addScheduledEvent, also when p has been deleted in between.
AddArm(p) ==
  /\ txn[p].op = "arm"
  /\ addScheduledEvents([NoSchedule EXCEPT ![txn[p].job] = To[txn[p].job]])
  /\ txn' = [txn EXCEPT ![p] = IdleTxn]
  /\ UNCHANGED <<world, ent, used, handler, raised>>

\* schedule:remove(id).  getEnt is not awaited: _.omit of the Promise is the
\* empty object, which replaces the stored schedule.
Remove(p, j) ==
  /\ "remove" \in Ops /\ Serving(p) /\ j \in used
  /\ ent' = [ent EXCEPT ![p] = NoSchedule]
  /\ remove({j})
  /\ UNCHANGED <<world, used, txn, handler, raised>>

\* schedule:clear() up to its `await getEnt`, and from delEnt on.
ClearRead(p) ==
  /\ "clear" \in Ops /\ Serving(p)
  /\ txn' = [txn EXCEPT ![p] = [op |-> "clear", job |-> NoJob, seen |-> ent[p]]]
  /\ UNCHANGED <<world, ent, used, mem, handler, raised>>

ClearWrite(p) ==
  /\ txn[p].op = "clear"
  /\ ent' = [ent EXCEPT ![p] = NoSchedule]
  /\ remove(Stored(txn[p].seen))
  /\ txn' = [txn EXCEPT ![p] = IdleTxn]
  /\ UNCHANGED <<world, used, handler, raised>>

-----------------------------------------------------------------------------
(* Timers and the handlers of due jobs, outside any transaction.           *)

Resolves(p) == boot = "up" /\ p \in alive

Started(due) ==
  [e \in Entry |-> IF e \in due /\ Resolves(e[2])
                   THEN [pc |-> "reading", seen |-> NoSchedule] ELSE handler[e]]

OnTimeKept ==  \* mutant of OnTime: the filter drops nothing
  LET due == {e \in futures : Due[e[1]] <= now}
  IN /\ timer # NoTimer /\ timer <= now
     /\ handler' = Started(due)
     /\ UNCHANGED <<world, ent, used, mem, txn, raised>>

OnTimeStrict ==  \* mutant of OnTime: a job due right now is not due yet
  LET due == {e \in futures : Due[e[1]] < now}
  IN /\ timer # NoTimer /\ timer <= now
     /\ futures' = futures \ due
     /\ timer' = NoTimer
     /\ handler' = Started(due)
     /\ UNCHANGED <<world, ent, used, crons, live, jobPicoId, jobsByPicoId, unseen>>
     /\ UNCHANGED <<txn, raised>>

\* onTime(): run and drop what is due.  It does not call update().
OnTime ==
  LET due == {e \in futures : Due[e[1]] <= now}
  IN /\ timer # NoTimer /\ timer <= now
     /\ futures' = futures \ due
     /\ timer' = NoTimer
     /\ handler' = Started(due)
     /\ UNCHANGED <<world, ent, used, crons, live, jobPicoId, jobsByPicoId, unseen>>
     /\ UNCHANGED <<txn, raised>>

\* The `at` handler: after `await getEnt` ...
AtRead(e) ==
  /\ e[1] \in AtJobs /\ handler[e].pc = "reading"
  /\ handler' = [handler EXCEPT ![e] =
       IF ent[e[2]][e[1]] = NoPico THEN IdleHandler
       ELSE [pc |-> "found", seen |-> ent[e[2]]]]
  /\ UNCHANGED <<world, ent, used, mem, txn, raised>>

\* ... its putEnt of the schedule it read, less its own job ...
AtWrite(e) ==
  /\ e[1] \in AtJobs /\ handler[e].pc = "found"
  /\ ent' = [ent EXCEPT ![e[2]] = Omit(handler[e].seen, e[1])]
  /\ handler' = [handler EXCEPT ![e] = [pc |-> "written", seen |-> NoSchedule]]
  /\ UNCHANGED <<world, used, mem, txn, raised>>

\* ... and pico.event, which a deleted pico rejects.
AtRaise(e) ==
  /\ handler[e].pc = "written"
  /\ raised' = [raised EXCEPT ![e] = IF e[2] \in alive THEN @ + 1 ELSE @]
  /\ handler' = [handler EXCEPT ![e] = IdleHandler]
  /\ UNCHANGED <<world, ent, used, mem, txn>>

\* A tick of a cron: look the pico up, and drop the job if that fails.
CronFire(e) ==
  /\ e \in live /\ handler[e].pc = "idle"
  /\ \/ /\ Resolves(e[2])
        /\ handler' = [handler EXCEPT ![e] = [pc |-> "reading", seen |-> NoSchedule]]
        /\ UNCHANGED mem
     \/ /\ ~Resolves(e[2])
        /\ remove({e[1]})
        /\ UNCHANGED handler
  /\ UNCHANGED <<world, ent, used, txn, raised>>

CronReadKept(e) ==  \* mutant of CronRead: a job that is gone keeps its handle
  /\ e[1] \notin AtJobs /\ handler[e].pc = "reading"
  /\ handler' = [handler EXCEPT ![e] = IdleHandler]
  /\ UNCHANGED <<world, ent, used, mem, txn, raised>>

\* The `repeat` handler after `await getEnt`: raise, or drop the job.
CronRead(e) ==
  /\ e[1] \notin AtJobs /\ handler[e].pc = "reading"
  /\ \/ ent[e[2]][e[1]] # NoPico /\ UNCHANGED mem
     \/ ent[e[2]][e[1]] = NoPico /\ remove({e[1]})
  /\ handler' = [handler EXCEPT ![e] = IdleHandler]
  /\ UNCHANGED <<world, ent, used, txn, raised>>

Tick ==
  /\ now < MaxTime
  /\ now' = now + 1
  /\ UNCHANGED <<boot, pending, alive, outliving, unborn, pack, reloading, crashes>>
  /\ UNCHANGED <<ent, used, mem, txn, handler, raised>>

-----------------------------------------------------------------------------
(* Deletion, export and import of picos, crash and start-up.               *)

DeletePicoOnly(p) ==  \* mutant of DeletePico: no cancelForPico
  /\ "delete" \in Ops /\ boot = "up" /\ p \in alive
  /\ alive' = alive \ {p} /\ outliving' = outliving \union {p}
  /\ ent' = [ent EXCEPT ![p] = NoSchedule]
  /\ UNCHANGED <<now, boot, pending, unborn, pack, reloading, crashes>>
  /\ UNCHANGED <<used, mem, txn, handler, raised>>

\* A transaction of p's parent deletes p, whatever p's own transaction, handlers
\* or import have under way: the framework drops its entity variables and reports
\* picoDeleted, on which cancelForPico removes the jobs indexed under p.
DeletePico(p) ==
  /\ "delete" \in Ops /\ boot = "up" /\ p \in alive
  /\ alive' = alive \ {p} /\ outliving' = outliving \union {p}
  /\ ent' = [ent EXCEPT ![p] = NoSchedule]
  /\ remove(jobsByPicoId[p])
  /\ UNCHANGED <<now, boot, pending, unborn, pack, reloading, crashes>>
  /\ UNCHANGED <<used, txn, handler, raised>>

\* Export of p, ruleset state by p's own transaction or subtree by an ancestor's.
\* Bound: only of a schedule whose events all go to p.
Export(p) ==
  /\ Ops \intersect {"import", "importState"} # {}
  /\ boot = "up" /\ p \in alive \ reloading
  /\ \A j \in Stored(ent[p]) : ent[p][j] = p
  /\ pack' = [src |-> p, sched |-> ent[p]]
  /\ UNCHANGED <<now, boot, pending, alive, outliving, unborn, reloading, crashes>>
  /\ UNCHANGED <<ent, used, mem, txn, handler, raised>>

\* Subtree import as a new pico q: entity variables are written with ECIs
\* remapped to q; job ids stay.
ImportSubtree(q) ==
  /\ "import" \in Ops /\ boot = "up"
  /\ q \in unborn /\ pack.src # NoPico
  /\ unborn' = unborn \ {q}
  /\ alive' = alive \union {q}
  /\ ent' = [ent EXCEPT ![q] = [j \in Jobs |->
                IF pack.sched[j] = pack.src THEN q ELSE pack.sched[j]]]
  /\ reloading' = reloading \union {q}
  /\ UNCHANGED <<now, boot, pending, outliving, pack, crashes>>
  /\ UNCHANGED <<used, mem, txn, handler, raised>>

\* reloadSchedulesForPico, called once the import has written everything.
Reload(q) ==
  /\ q \in reloading /\ boot = "up"
  /\ addScheduledEvents(ent[q])
  /\ reloading' = reloading \ {q}
  /\ UNCHANGED <<now, boot, pending, alive, outliving, unborn, pack, crashes>>
  /\ UNCHANGED <<ent, used, txn, handler, raised>>

\* ctx:importRulesetState into pico p: every entity variable of the blob is
\* put, `_schedule` included; no job is armed or dropped in memory.
ImportRulesetState(p) ==
  /\ "importState" \in Ops /\ Serving(p) /\ pack.src # NoPico
  /\ ent' = [ent EXCEPT ![p] = pack.sched]
  /\ UNCHANGED <<world, used, mem, txn, handler, raised>>

\* The process stops; what is not in the database is gone.
Crash ==
  /\ "crash" \in Ops /\ crashes < MaxCrashes
  /\ crashes' = crashes + 1
  /\ boot' = "loading"
  /\ pending' = {p \in Picos : Stored(ent[p]) # {}}
  /\ futures' = {} /\ timer' = NoTimer
  /\ crons' = NoSchedule /\ live' = {}
  /\ jobPicoId' = NoSchedule /\ jobsByPicoId' = [p \in Picos |-> {}]
  /\ unseen' = {} /\ raised' = [e \in Entry |-> 0]
  /\ txn' = [p \in Picos |-> IdleTxn]
  /\ handler' = [e \in Entry |-> IdleHandler]
  /\ reloading' = {} /\ outliving' = {}
  /\ UNCHANGED <<now, alive, unborn, ent, used, pack>>

\* start(): the jobs of one `_schedule` entity variable of the database.
Load(p) ==
  /\ boot = "loading" /\ p \in pending
  /\ addScheduledEvents(ent[p])
  /\ pending' = pending \ {p}
  /\ UNCHANGED <<now, boot, alive, outliving, unborn, pack, reloading, crashes>>
  /\ UNCHANGED <<ent, used, txn, handler, raised>>

\* PicoEngineCore.start(): the modules first, then the framework.
StartFramework ==
  /\ boot = "loading" /\ pending = {} /\ boot' = "starting"
  /\ UNCHANGED <<now, pending, alive, outliving, unborn, pack, reloading, crashes>>
  /\ UNCHANGED <<ent, used, mem, txn, handler, raised>>

FrameworkStarted ==
  /\ boot = "starting" /\ boot' = "up"
  /\ UNCHANGED <<now, pending, alive, outliving, unborn, pack, reloading, crashes>>
  /\ UNCHANGED <<ent, used, mem, txn, handler, raised>>

-----------------------------------------------------------------------------
Init ==
  /\ now = 0
  /\ boot = "up" /\ pending = {}
  /\ alive = FirstPicos /\ outliving = {} /\ unborn = Picos \ FirstPicos
  /\ ent = [p \in Picos |-> NoSchedule]
  /\ used = {}
  /\ futures = {} /\ timer = NoTimer
  /\ crons = NoSchedule /\ live = {}
  /\ jobPicoId = NoSchedule /\ jobsByPicoId = [p \in Picos |-> {}]
  /\ txn = [p \in Picos |-> IdleTxn]
  /\ handler = [e \in Entry |-> IdleHandler]
  /\ raised = [e \in Entry |-> 0] /\ unseen = {}
  /\ pack = [src |-> NoPico, sched |-> NoSchedule]
  /\ reloading = {}
  /\ crashes = 0

RuleActions(p) ==
  \/ \E j \in Jobs : AddRead(p, j)
  \/ AddPut(p)
  \/ AddArm(p)
  \/ \E j \in Jobs : Remove(p, j)
  \/ ClearRead(p)
  \/ ClearWrite(p)

Handlers(e) == AtRead(e) \/ AtWrite(e) \/ AtRaise(e) \/ CronFire(e) \/ CronRead(e)

LifeCycle(p) ==
  \/ DeletePico(p)
  \/ Export(p)
  \/ ImportSubtree(p)
  \/ Reload(p)
  \/ ImportRulesetState(p)
  \/ Load(p)

Next ==
  \/ \E p \in Picos : RuleActions(p) \/ LifeCycle(p)
  \/ \E e \in Entry : Handlers(e)
  \/ OnTime
  \/ Tick
  \/ Crash
  \/ StartFramework
  \/ FrameworkStarted

Spec == Init /\ [][Next]_vars

\* The event loop runs what is ready: time passes, timers and crons fire, and
\* a started continuation is resumed (of these steps of p, one is under way at a
\* time).  Nothing obliges a user to call anything.
Fairness ==
  /\ WF_vars(Tick) /\ WF_vars(OnTime) /\ WF_vars(StartFramework \/ FrameworkStarted)
  /\ \A e \in Entry : WF_vars(Handlers(e))
  /\ \A p \in Picos : /\ WF_vars(AddPut(p) \/ AddArm(p) \/ ClearWrite(p))
                      /\ WF_vars(Reload(p) \/ Load(p))

-----------------------------------------------------------------------------
(* Properties.                                                             *)

TxnState == [op : {"idle", "add", "arm", "clear"}, job : Jobs \union {NoJob}, seen : Schedule]
HandlerState == [pc : {"idle", "reading", "found", "written"}, seen : Schedule]

\* Every variable has its type.
TypeOK ==
  /\ now \in Nat /\ crashes \in Nat
  /\ boot \in {"loading", "starting", "up"}
  /\ pending \subseteq Picos /\ alive \subseteq Picos /\ outliving \subseteq Picos
  /\ unborn \subseteq Picos /\ reloading \subseteq Picos
  /\ ent \in [Picos -> Schedule]
  /\ used \subseteq Jobs
  /\ futures \subseteq Entry /\ live \subseteq Entry /\ unseen \subseteq Entry
  /\ timer \in Int
  /\ crons \in Schedule /\ jobPicoId \in Schedule
  /\ jobsByPicoId \in [Picos -> SUBSET Jobs]
  /\ txn \in [Picos -> TxnState]
  /\ \A p \in Picos : txn[p].op \in {"add", "arm"} => txn[p].job \in Jobs
  /\ handler \in [Entry -> HandlerState]
  /\ raised \in [Entry -> Nat]
  /\ pack \in [src : Picos \union {NoPico}, sched : Schedule]

\* An armed timer is never later than any job it has to run: whatever mix of
\* addFuture, remove, cancelForPico, onTime and reload came before, currTimeout
\* is set for the earliest of the futures (Scheduler.update).
TimerIsEarliest ==
  timer # NoTimer =>
    /\ \A e \in futures : timer <= Due[e[1]]
    /\ \E e \in futures : timer = Due[e[1]]

\* One life of the process raises the event of an `at` job at most once, also
\* when two due handlers overwrite each other's schedule and put a job that
\* has run back into `_schedule` (schedule.ts:186-190), and when this life has
\* loaded a job that an earlier one put back.
AtMostOncePerLife == \A e \in Entry : raised[e] <= 1

\* Why AtMostOncePerLife holds, as an invariant that is inductive without
\* imports.  An entry in memory waits or is being handled, never both, and
\* still has its raise of this life to come; a job that this life has not armed
\* yet (its id unused, its addToSchedule suspended, its pico not loaded) is not
\* in memory; schedules hold only used ids of their own pico's rules.
InMemory(e) == e[1] \in AtJobs /\ (e \in futures \/ handler[e].pc # "idle")
Adding(p, j) == txn[p].op \in {"add", "arm"} /\ txn[p].job = j
Unarmed(j) == j \notin used \/ Home[j] \in pending \/ \E p \in Picos : Adding(p, j)
Homed(s, p) == \A j \in Stored(s) : Home[j] = p /\ j \in used
OnceInv ==
  /\ \A e \in futures : e[1] \in AtJobs /\ handler[e].pc = "idle"
  /\ \A e \in live : e[1] \notin AtJobs
  /\ \A e \in Entry :
       /\ handler[e].pc \in {"found", "written"} => e[1] \in AtJobs
       /\ raised[e] <= 1
       /\ InMemory(e) => raised[e] = 0
       /\ Unarmed(e[1]) => ~InMemory(e) /\ raised[e] = 0
       /\ Homed(handler[e].seen, e[2])
  /\ \A p \in Picos :
       /\ Homed(ent[p], p) /\ Homed(txn[p].seen, p)
       /\ txn[p].op # "idle" => boot = "up"
       /\ \A j \in Jobs : Adding(p, j) => Home[j] = p /\ j \in used
  /\ pending # {} => boot = "loading"
  /\ reloading = {}

\* Nothing has been exported yet, so no job id can be that of jobs of two picos.
IdsAreUnique == pack.src = NoPico

\* As long as job ids are unique, jobPicoId and jobsByPicoId are inverses of each
\* other, and every cron handle that runs is the one kept under its id, so that
\* remove() can reach all of a pico's jobs.
IndexesAgree == IdsAreUnique =>
  /\ \A p \in Picos, j \in Jobs : jobPicoId[j] = p <=> j \in jobsByPicoId[p]
  /\ \A e \in live : crons[e[1]] = e[2]

\* No job in memory belongs to a deleted pico, in any life of the process:
\* cancelForPico took them all, but for those whose ECI could not be looked up
\* when they were armed.  That is so for every job that start() loads, before the
\* framework has started, and for one whose addToSchedule was suspended while its
\* pico was deleted.
DeletedPicoHasNoJobs ==
  \A e \in futures \union live : e[2] \in alive \/ e \in unseen

\* onTime has run an earlier job and armed no timer for e (schedule.ts:152).
Stranded(e) == timer = NoTimer /\ \E j \in used \intersect AtJobs : Due[j] < Due[e[1]]

\* A future is run (or removed) eventually: it does not sit in memory forever,
\* but for one that is due later than another one was, unless an import has
\* brought the same id in a second time.
EveryFutureRuns ==
  \A e \in AtJobs \X Picos : e \in futures ~> e \notin futures \/ Stranded(e) \/ ~IdsAreUnique

\* A cron whose job is gone from the schedule does not tick forever: the next
\* tick finds no job and removes the handle (schedule.ts:210-212).
StaleCronStops ==
  \A e \in (Jobs \ AtJobs) \X Picos : []<>(e \notin live \/ ent[e[2]][e[1]] # NoPico)
=============================================================================
