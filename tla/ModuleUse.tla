------------------------------ MODULE ModuleUse ------------------------------
(***************************************************************************)
(* The modules of one pico's rulesets (CorePico) on top of the ruleset     *)
(* registry: `use module` while a ruleset initialises, installation and    *)
(* uninstallation, and the refresh of every user of a module when a new    *)
(* version of it enters the cache.                                         *)
(*                                                                         *)
(* An initialisation is a thread: a stack of frames, one per ruleset being *)
(* initialised, each inside the one that uses it.  All threads of the pico *)
(* share the one moduleInitStack.                                          *)
(***************************************************************************)
EXTENDS RulesetRegistry, Sequences, SequencesExt

CONSTANT Threads  \* bound of the initialisations in progress at once

ASSUME ThreadAssumption == Threads # {}

VARIABLES
  inst,       \* the pico's installed rulesets
  uninit,     \* installed rulesets that the start-up has yet to initialise
  bound,      \* CorePico.dependencies: bound[user][mod] is the version in use
  initStack,  \* CorePico.moduleInitStack
  thread,     \* the initialisations in progress
  disturbed  \* history: a `use` was refused, or was in progress when another began,
              \* a ruleset was cached or one was uninstalled

useVars == <<inst, uninit, bound, initStack, thread, disturbed>>
allVars == <<vars, useVars>>

Unbound == [m \in Urls |-> NoVersion]
Frame(u, n, todo) == [rid |-> u, ver |-> n, todo |-> todo]
InitFrame(u, n) == Frame(u, n, Uses[u][n])
IdleThread == [kind |-> "idle", frames |-> << >>]
Idle == {t \in Threads : thread[t] = IdleThread}

Running(kind) == \E t \in Threads : thread[t].kind = kind
Serving == uninit = {} /\ ~Running("startup")
\* Some thread is between the start and the end of a `use`.
Busy(ts) == \E t \in ts : Len(thread[t].frames) > 1

-----------------------------------------------------------------------------
(* CorePico.use.                                                           *)

poppedOnSuccess(k) == initStack  \* mutant: the pop is not in a `finally`

\* The thread ends, by an error or normally: use() pops its entries off the
\* shared stack from the top.
popped(k) == SubSeq(initStack, 1, Len(initStack) - k)

\* use(d) in the innermost frame of t, up to `await ruleset.init`.
UseStart(t) ==
  LET frames == thread[t].frames IN
  /\ frames # << >>
  /\ \E d \in Last(frames).todo :
       LET rest == [frames EXCEPT ![Len(frames)].todo = @ \ {d}]
           found == d \in inst /\ cache[d] # NoVersion
           cycle == Contains(initStack, d)
       IN \/ /\ found /\ ~cycle
             /\ initStack' = Append(initStack, d)
             /\ thread' = [thread EXCEPT ![t].frames =
                             Append(rest, InitFrame(d, cache[d]))]
             /\ disturbed' = (disturbed \/ Busy(Threads \ {t}))
          \/ /\ ~found \/ cycle  \* throws through every use of the thread
             /\ initStack' = popped(Len(frames) - 1)
             /\ thread' = [thread EXCEPT ![t] = IdleThread]
             /\ disturbed' = TRUE
  /\ UNCHANGED <<vars, inst, uninit, bound>>

\* use() after its module has initialised.
UseEnd(t) ==
  LET frames == thread[t].frames
      user == frames[Len(frames) - 1].rid
      mod == Last(frames)
  IN /\ Len(frames) > 1 /\ mod.todo = {}
     /\ initStack' = Front(initStack)
     /\ bound' = [bound EXCEPT ![user][mod.rid] = mod.ver]
     /\ thread' = [thread EXCEPT ![t].frames = Front(frames)]
     /\ UNCHANGED <<vars, inst, uninit, disturbed>>

\* The outermost initialisation of t is over.
InitEnd(t) ==
  LET root == thread[t].frames[1].rid IN
  /\ Len(thread[t].frames) = 1 /\ thread[t].frames[1].todo = {}
  /\ inst' = IF thread[t].kind = "install" THEN inst \union {root} ELSE inst
  /\ thread' = [thread EXCEPT ![t] = IdleThread]
  /\ UNCHANGED <<vars, uninit, bound, initStack, disturbed>>

-----------------------------------------------------------------------------
(* ctx:install and ctx:uninstall, one transaction at a time.               *)

Install(t, u) ==
  /\ Serving /\ ~Running("install") /\ t \in Idle
  /\ u \notin inst /\ cache[u] # NoVersion
  /\ thread' = [thread EXCEPT ![t] =
                  [kind |-> "install", frames |-> <<InitFrame(u, cache[u])>>]]
  /\ UNCHANGED <<vars, inst, uninit, bound, initStack, disturbed>>

whoUses(m) == {u \in Urls : bound[u][m] # NoVersion}

UninstallAnyway(u) ==  \* mutant of Uninstall: whoUses is not asked
  /\ Serving /\ ~Running("install")
  /\ u \in inst
  /\ bound' = [bound EXCEPT ![u] = Unbound]
  /\ inst' = inst \ {u}
  /\ disturbed' = (disturbed \/ Busy(Threads))
  /\ UNCHANGED <<vars, uninit, initStack, thread>>

Uninstall(u) ==
  /\ Serving /\ ~Running("install")
  /\ u \in inst /\ whoUses(u) = {}
  /\ bound' = [bound EXCEPT ![u] = Unbound]
  /\ inst' = inst \ {u}
  /\ disturbed' = (disturbed \/ Busy(Threads))
  /\ UNCHANGED <<vars, uninit, initStack, thread>>

-----------------------------------------------------------------------------
(* A ruleset enters the cache; start-up.                                   *)

OnRulesetLoadedOnly(u, n) ==  \* mutant: users of u are not refreshed
  /\ IF u \in inst /\ Serving
     THEN \E t \in Idle : thread' = [thread EXCEPT ![t] =
            [kind |-> "reinit", frames |-> <<InitFrame(u, n)>>]]
     ELSE UNCHANGED thread
  /\ disturbed' = (disturbed \/ Busy(Threads))
  /\ UNCHANGED <<inst, uninit, bound, initStack>>

\* PicoEngineCore.onRulesetLoaded: the framework initialises the ruleset again
\* where it is installed, and every user bound to another version of it calls
\* use(u).  Those calls run one after the other up to their first await, so
\* the first to find u off the stack puts it there and the others throw.
OnRulesetLoaded(u, n) ==
  LET users == {w \in Urls : bound[w][u] \notin {NoVersion, n}}
      reinit == [kind |-> "reinit", frames |-> <<InitFrame(u, n)>>]
      reuse(w) == [kind |-> "reuse",
                   frames |-> <<Frame(w, NoVersion, {}), InitFrame(u, n)>>]
      ends == \/ users = {} \/ u \notin inst \/ Contains(initStack, u)
      started == IF u \in inst /\ Serving THEN {reinit} ELSE {}
  IN /\ IF ends
        THEN /\ \E f \in [started -> Idle] :
                   thread' = [t \in Threads |->
                      IF \E s \in started : f[s] = t THEN reinit ELSE thread[t]]
             /\ UNCHANGED initStack
        ELSE /\ \E w \in users : \E t \in Idle, f \in [started -> Idle] :
                   /\ \A s \in started : f[s] # t
                   /\ thread' = [k \in Threads |->
                        IF k = t THEN reuse(w)
                        ELSE IF \E s \in started : f[s] = k THEN reinit
                        ELSE thread[k]]
             /\ initStack' = Append(initStack, u)
     /\ disturbed' = (disturbed \/ Busy(Threads) \/ \E v, w \in users : v # w)
     /\ UNCHANGED <<inst, uninit, bound>>

\* PicoFramework.start loads every installed ruleset, then initialises them.
Startup(t, u) ==
  /\ u \in uninit /\ ~Running("startup") /\ t \in Idle
  /\ \A w \in inst : cache[w] # NoVersion
  /\ uninit' = uninit \ {u}
  /\ thread' = [thread EXCEPT ![t] =
                  [kind |-> "startup", frames |-> <<InitFrame(u, cache[u])>>]]
  /\ UNCHANGED <<vars, inst, bound, initStack, disturbed>>

RestartPico ==
  /\ uninit' = inst
  /\ bound' = [u \in Urls |-> Unbound]
  /\ initStack' = << >>
  /\ thread' = [t \in Threads |-> IdleThread]
  /\ disturbed' = FALSE
  /\ UNCHANGED inst

UseInit ==
  /\ inst = {} /\ uninit = {}
  /\ bound = [u \in Urls |-> Unbound]
  /\ initStack = << >>
  /\ thread = [t \in Threads |-> IdleThread]
  /\ disturbed = FALSE

RegistryStep ==
  /\ \/ \E j \in Jobs, u \in Urls :
          \/ StartLoad(j, u) /\ (Serving \/ u \in inst)
          \/ Asks(j, u) /\ Serving
     \/ \E j \in Jobs : Continues(j)
     \/ \E u \in Urls : Publish(u)
  /\ UNCHANGED useVars

UseNext ==
  \/ RegistryStep
  \/ \E j \in Jobs : Cached(j) /\ OnRulesetLoaded(job[j].url, job[j].ver)
  \/ Restart /\ RestartPico
  \/ \E t \in Threads : UseStart(t) \/ UseEnd(t) \/ InitEnd(t)
  \/ \E t \in Threads, u \in Urls : Install(t, u) \/ Startup(t, u)
  \/ \E u \in Urls : Uninstall(u)

UseSpec == Init /\ UseInit /\ [][UseNext]_allVars

-----------------------------------------------------------------------------
(* Properties.                                                             *)

FrameState == [rid : Urls, ver : Version \union {NoVersion}, todo : SUBSET Urls]
ThreadState == [kind : {"idle", "install", "startup", "reinit", "reuse"},
                frames : Seq(FrameState)]

\* Every variable has its type.
UseTypeOK ==
  /\ TypeOK
  /\ inst \subseteq Urls /\ uninit \subseteq inst
  /\ bound \in [Urls -> Slot]
  /\ initStack \in Seq(Urls)
  /\ thread \in [Threads -> ThreadState]
  /\ \A t \in Threads : thread[t].kind = "idle" \/ thread[t].frames = << >>
                          => thread[t] = IdleThread
  /\ disturbed \in BOOLEAN

\* The uses in progress: every frame that is inside another one.
Open == UNION {{t} \X (2 .. Len(thread[t].frames)) : t \in Threads}

\* The shared stack of modules holds one entry per `use` in progress, though
\* calls end in another order than they began: a stale entry would refuse its
\* module to every ruleset of the pico for good (CorePico.use).
StackIsUses == Len(initStack) = Cardinality(Open)

\* A module that an installed ruleset is bound to is installed: uninstall asks
\* whoUses, and no initialisation that could still bind it ran meanwhile.
UsedIsInstalled ==
  ~disturbed => \A u \in inst, m \in Urls : bound[u][m] # NoVersion => m \in inst

AtRest == Serving /\ \A t \in Threads : thread[t] = IdleThread

\* At rest every module of the pico is bound in its cached version, at least
\* unless a `use` was refused, or was in progress when another began, a ruleset
\* was cached or one was uninstalled (CorePico.onRulesetLoaded).
ModulesCurrent ==
  AtRest /\ ~disturbed =>
     \A u \in inst, m \in Urls : bound[u][m] \in {NoVersion, cache[m]}

=============================================================================
