--------------------------- MODULE RulesetRegistry ---------------------------
(***************************************************************************)
(* The ruleset registry of pico-engine-core: the cache of compiled         *)
(* rulesets by URL, the loader's database behind it, and the asynchronous  *)
(* load, flush and registerInline calls that move a ruleset from its       *)
(* source through compilation and module-dependency validation into both.  *)
(*                                                                         *)
(* One action is the code between two awaits.  A URL stands for the rid of *)
(* the ruleset it serves.  pMemoize only merges calls made within 100 ms   *)
(* of each other; a run that takes longer does not keep a second one from  *)
(* starting, so every started call here is a run of its own.               *)
(***************************************************************************)
EXTENDS Integers, FiniteSets

CONSTANTS
  Urls,        \* ruleset URLs
  MaxVersion,  \* bound of the number of versions of a ruleset
  Latest,      \* Latest[u]: the last version that u's author publishes
  Uses,        \* Uses[u][n]: the modules that version n at u declares
  Jobs,        \* calls that may be in progress at once
  NoUrl,
  MaxRestarts  \* bound of the number of restarts

NoVersion == 0
Version == 1 .. MaxVersion

ASSUME RegistryAssumption ==
  /\ MaxVersion \in Nat \ {0}
  /\ Latest \in [Urls -> Version]
  /\ Uses \in [Urls -> [Version -> SUBSET Urls]]
  /\ NoUrl \notin Urls
  /\ MaxRestarts \in Nat

VARIABLES
  source,   \* source[u]: the version that u serves
  cache,    \* RulesetRegistry.rulesetCache
  disk,     \* the loader's saved rulesets
  job,      \* the calls in progress
  raced,    \* history: calls of this life that another one met past validation
  restarts

vars == <<source, cache, disk, job, raced, restarts>>

Slot == [Urls -> Version \union {NoVersion}]
IdleJob == [pc |-> "idle", url |-> NoUrl, ver |-> NoVersion]

\* The module graph of the cached rulesets.
Graph(c) == [u \in Urls |-> IF c[u] = NoVersion THEN {} ELSE Uses[u][c[u]]]

\* findCycle: a finite graph has a cycle iff some non-empty set of nodes has a
\* successor of each of its nodes.
Acyclic(g) ==
  \A S \in SUBSET Urls : S # {} => \E u \in S : g[u] \intersect S = {}

\* validateModuleDependencies
validNoCycle(c, u, n) ==  \* mutant: modules are looked up, cycles are not
  \A d \in Uses[u][n] \ {u} : c[d] # NoVersion
valid(c, u, n) ==
  /\ \A d \in Uses[u][n] \ {u} : c[d] # NoVersion
  /\ Acyclic(Graph([c EXCEPT ![u] = n]))

-----------------------------------------------------------------------------
(* The steps of a call.                                                    *)

Pending(j) == job[j].pc \in {"saving", "saved", "loaded"}

\* The call goes on to write; raced remembers whether another one does, too.
enter(j, rec) ==
  /\ job' = [job EXCEPT ![j] = rec]
  /\ raced' = raced \union {k \in Jobs \ {j} : Pending(k)}

\* loadBase: a cached ruleset is returned; otherwise ask the loader.
StartLoad(j, u) ==
  /\ job[j].pc = "idle" /\ cache[u] = NoVersion
  /\ job' = [job EXCEPT ![j] = [pc |-> "attempting", url |-> u, ver |-> NoVersion]]
  /\ UNCHANGED <<source, cache, disk, raced, restarts>>

AttemptedAlways(j) ==  \* mutant: a URL that was never saved counts as found
  LET u == job[j].url IN
  /\ job[j].pc = "attempting"
  /\ enter(j, [pc |-> "loaded", url |-> u, ver |-> disk[u]])
  /\ UNCHANGED <<source, cache, disk, restarts>>

\* attemptLoad found a saved ruleset, or loadBase goes on to flush.
Attempted(j) ==
  LET u == job[j].url IN
  /\ job[j].pc = "attempting"
  /\ \/ /\ disk[u] # NoVersion
        /\ enter(j, [pc |-> "loaded", url |-> u, ver |-> disk[u]])
     \/ /\ disk[u] = NoVersion
        /\ job' = [job EXCEPT ![j] = [pc |-> "fetching", url |-> u, ver |-> NoVersion]]
        /\ UNCHANGED raced
  /\ UNCHANGED <<source, cache, disk, restarts>>

\* flushBase: ask for the source.
StartFlush(j, u) ==
  /\ job[j].pc = "idle"
  /\ job' = [job EXCEPT ![j] = [pc |-> "fetching", url |-> u, ver |-> NoVersion]]
  /\ UNCHANGED <<source, cache, disk, raced, restarts>>

\* flushBase after fetchKrl: done if the cache holds this hash, else compile.
Fetched(j) ==
  LET u == job[j].url IN
  /\ job[j].pc = "fetching"
  /\ job' = [job EXCEPT ![j] =
       IF cache[u] = source[u] THEN IdleJob
       ELSE [pc |-> "compiling", url |-> u, ver |-> source[u]]]
  /\ UNCHANGED <<source, cache, disk, raced, restarts>>

\* registerInline: the source comes with the call, as version n of u.
StartInline(j, u, n) ==
  /\ job[j].pc = "idle" /\ cache[u] # n
  /\ job' = [job EXCEPT ![j] = [pc |-> "compiling", url |-> u, ver |-> n]]
  /\ UNCHANGED <<source, cache, disk, raced, restarts>>

\* flushBase and registerInline after compileAndLoad: validate against the
\* cache of this moment and start to save, or throw.
Compiled(j) ==
  LET u == job[j].url  n == job[j].ver IN
  /\ job[j].pc = "compiling"
  /\ \/ /\ valid(cache, u, n)
        /\ enter(j, [pc |-> "saving", url |-> u, ver |-> n])
     \/ /\ ~valid(cache, u, n)
        /\ job' = [job EXCEPT ![j] = IdleJob]
        /\ UNCHANGED raced
  /\ UNCHANGED <<source, cache, disk, restarts>>

\* regLoader.save reaches the database.
Put(j) ==
  LET u == job[j].url  n == job[j].ver IN
  /\ job[j].pc = "saving"
  /\ disk' = [disk EXCEPT ![u] = n]
  /\ job' = [job EXCEPT ![j] = [pc |-> "saved", url |-> u, ver |-> n]]
  /\ UNCHANGED <<source, cache, raced, restarts>>

CachedFirst(j) ==  \* mutant of Cached: the cache does not wait for the save
  /\ job[j].pc \in {"saving", "saved", "loaded"}
  /\ cache' = [cache EXCEPT ![job[j].url] = job[j].ver]
  /\ job' = [job EXCEPT ![j] = IdleJob]
  /\ UNCHANGED <<source, disk, raced, restarts>>

\* setCachedRuleset.
Cached(j) ==
  /\ job[j].pc \in {"saved", "loaded"}
  /\ cache' = [cache EXCEPT ![job[j].url] = job[j].ver]
  /\ job' = [job EXCEPT ![j] = IdleJob]
  /\ UNCHANGED <<source, disk, raced, restarts>>

\* The source cannot be fetched, does not compile, or cannot be saved.
Fail(j) ==
  /\ job[j].pc \in {"attempting", "fetching", "compiling", "saving"}
  /\ job' = [job EXCEPT ![j] = IdleJob]
  /\ UNCHANGED <<source, cache, disk, raced, restarts>>

\* The author publishes the next version at u.
Publish(u) ==
  /\ source[u] < Latest[u]
  /\ source' = [source EXCEPT ![u] = @ + 1]
  /\ UNCHANGED <<cache, disk, job, raced, restarts>>

\* The process ends, orderly or not, and another begins.
Restart ==
  /\ restarts < MaxRestarts
  /\ restarts' = restarts + 1
  /\ cache' = [u \in Urls |-> NoVersion]
  /\ job' = [j \in Jobs |-> IdleJob]
  /\ raced' = {}
  /\ UNCHANGED <<source, disk>>

Init ==
  /\ source = [u \in Urls |-> 1]
  /\ cache = [u \in Urls |-> NoVersion]
  /\ disk = [u \in Urls |-> NoVersion]
  /\ job = [j \in Jobs |-> IdleJob]
  /\ raced = {}
  /\ restarts = 0

\* A caller asks for u to be flushed or registered.
Asks(j, u) ==
  \/ StartFlush(j, u)
  \/ \E n \in 1 .. Latest[u] : StartInline(j, u, n)

\* The steps of a call up to the one that changes the cache.
Continues(j) ==
  \/ Attempted(j)
  \/ Fetched(j)
  \/ Compiled(j)
  \/ Put(j)
  \/ Fail(j)

Next ==
  \/ \E j \in Jobs, u \in Urls : StartLoad(j, u) \/ Asks(j, u)
  \/ \E j \in Jobs : Continues(j) \/ Cached(j)
  \/ \E u \in Urls : Publish(u)
  \/ Restart

Spec == Init /\ [][Next]_vars

-----------------------------------------------------------------------------
(* Properties.                                                             *)

Job ==
  {IdleJob}
    \union [pc : {"attempting", "fetching"}, url : Urls, ver : {NoVersion}]
    \union [pc : {"compiling", "saving", "saved", "loaded"}, url : Urls, ver : Version]

\* Every variable has its type; a call knows its URL and, once it compiles, its
\* version.
TypeOK ==
  /\ source \in [Urls -> Version]
  /\ cache \in Slot /\ disk \in Slot
  /\ job \in [Jobs -> Job]
  /\ raced \subseteq Jobs
  /\ restarts \in Nat

\* What the database holds can be started again: every module that a saved
\* ruleset declares is saved too, whatever failed or crashed between a save
\* and its cache update (flushBase saves before it caches, and validates
\* against what is cached).
DiskClosed ==
  \A u \in Urls : disk[u] # NoVersion =>
     \A d \in Uses[u][disk[u]] : disk[d] # NoVersion

\* Unless two calls of this life overlapped between validation and cache
\* update, a cached ruleset is the saved one, so a restart does not change the
\* version that runs.
CacheIsSaved ==
  raced = {} => \A u \in Urls :
     \/ cache[u] \in {NoVersion, disk[u]}
     \/ \E j \in Jobs : job[j].pc = "saved" /\ job[j].url = u

\* In the first life of the process, unless two calls overlapped between
\* validation and cache update, no cycle of modules gets into the cache.
AcyclicUnlessRaced == raced = {} /\ restarts = 0 => Acyclic(Graph(cache))

\* Why the three hold.  A call that is past validation has its modules saved;
\* unless two calls overlapped, what it saved or loaded is what the database
\* holds, and in the first life the cache differs from the database only
\* between a call's save and its cache update.
Saving(j) == job[j].pc \in {"saving", "saved"}
Written(j) == job[j].pc \in {"saved", "loaded"}
SavedBy(j, u) == job[j].pc = "saved" /\ job[j].url = u
ModulesSaved(j) ==
  \A d \in Uses[job[j].url][job[j].ver] \ {job[j].url} : disk[d] # NoVersion

OneAtATime ==
  /\ \A j, k \in Jobs : Pending(j) /\ Pending(k) => j = k
  /\ \A j \in Jobs : Written(j) => job[j].ver = disk[job[j].url]

FirstLife ==
  /\ \A u \in Urls : disk[u] = cache[u] \/ \E j \in Jobs : SavedBy(j, u)
  /\ Acyclic(Graph(cache))
  /\ \A j \in Jobs : Pending(j) =>
       Acyclic(Graph([cache EXCEPT ![job[j].url] = job[j].ver]))

SavedInv ==
  /\ DiskClosed
  /\ \A u \in Urls : cache[u] # NoVersion => disk[u] # NoVersion
  /\ \A j \in Jobs : Saving(j) => ModulesSaved(j)
  /\ \A j \in Jobs : Written(j) => disk[job[j].url] # NoVersion

RaceInv ==
  /\ raced = {} => OneAtATime
  /\ CacheIsSaved
  /\ raced = {} /\ restarts = 0 => FirstLife

=============================================================================
