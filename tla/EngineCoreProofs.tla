--------------------------- MODULE EngineCoreProofs ---------------------------
(***************************************************************************)
(* Proofs about pico-engine-core: RulesetRegistry, for any URLs, module      *)
(* graphs and calls; ModuleUse above it, for any initialisations too; and    *)
(* SchemaNotify, for any picos, flushes and notifications.  Types; what is   *)
(* saved is closed under modules and what is cached is saved; one stack      *)
(* entry per use in progress; bound modules are installed and current; and   *)
(* every pico hears of a new schema.                                         *)
(***************************************************************************)
EXTENDS ModuleUse, SchemaNotify, FiniteSetTheorems, TLAPS

(***************************************************************************)
(* Types.                                                                  *)
(***************************************************************************)

\* The records that the actions assign to a call are calls.
LEMMA IsJob ==
  /\ IdleJob \in Job
  /\ \A u \in Urls : [pc |-> "attempting", url |-> u, ver |-> NoVersion] \in Job
  /\ \A u \in Urls : [pc |-> "fetching", url |-> u, ver |-> NoVersion] \in Job
  /\ \A u \in Urls, n \in Version :
       \A s \in {"compiling", "saving", "saved", "loaded"} :
         [pc |-> s, url |-> u, ver |-> n] \in Job
  BY DEF Job

\* A call in progress has a URL, and from compilation on a version.
LEMMA JobFields ==
  ASSUME NEW r \in Job
  PROVE /\ r.pc # "idle" => r.url \in Urls
        /\ r.pc \in {"compiling", "saving", "saved", "loaded"} => r.ver \in Version
  BY DEF Job, IdleJob

\* Versions are positive, so none of them is NoVersion.
LEMMA Versions == 1 \in Version /\ NoVersion \notin Version
  BY RegistryAssumption DEF RegistryAssumption, Version, NoVersion

LEMMA TypeInit == Init => TypeOK
<1> SUFFICES ASSUME Init PROVE TypeOK
  OBVIOUS
<1>1. source \in [Urls -> Version] BY Versions DEF Init
<1>2. cache \in Slot /\ disk \in Slot BY DEF Init, Slot
<1>3. job \in [Jobs -> Job] BY IsJob DEF Init
<1>4. raced \subseteq Jobs BY DEF Init
<1>5. restarts \in Nat BY DEF Init
<1> QED BY <1>1, <1>2, <1>3, <1>4, <1>5 DEF TypeOK

LEMMA TypeStep == TypeOK /\ [Next]_vars => TypeOK'
<1> SUFFICES ASSUME TypeOK, [Next]_vars PROVE TypeOK'
  OBVIOUS
<1> DEFINE Rest == /\ source \in [Urls -> Version]
                   /\ cache \in Slot /\ disk \in Slot
                   /\ job \in [Jobs -> Job]
                   /\ raced \subseteq Jobs
                   /\ restarts \in Nat
<1>2. Rest BY DEF TypeOK
<1>3. ASSUME NEW j \in Jobs, NEW u \in Urls, StartLoad(j, u) PROVE Rest'
  BY <1>2, <1>3, IsJob DEF StartLoad
<1>4. ASSUME NEW j \in Jobs, NEW u \in Urls, Asks(j, u) PROVE Rest'
  <2>1. CASE StartFlush(j, u) BY <1>2, <2>1, IsJob DEF StartFlush
  <2>2. ASSUME NEW n \in 1 .. Latest[u], StartInline(j, u, n) PROVE Rest'
    <3>1. n \in Version BY RegistryAssumption DEF RegistryAssumption, Version
    <3> QED BY <1>2, <2>2, <3>1, IsJob DEF StartInline
  <2> QED BY <1>4, <2>1, <2>2 DEF Asks
<1>5. ASSUME NEW j \in Jobs, Continues(j) PROVE Rest'
  <2> job[j] \in Job BY <1>2
  <2> DEFINE u == job[j].url  n == job[j].ver
  <2>1. CASE Attempted(j)
    <3>1. u \in Urls BY <2>1, JobFields DEF Attempted
    <3>2. disk[u] # NoVersion => disk[u] \in Version BY <1>2, <3>1 DEF Slot
    <3> QED BY <1>2, <2>1, <3>1, <3>2, IsJob DEF Attempted, enter
  <2>2. CASE Fetched(j)
    <3>1. u \in Urls /\ source[u] \in Version BY <1>2, <2>2, JobFields DEF Fetched
    <3> QED BY <1>2, <2>2, <3>1, IsJob DEF Fetched
  <2>3. CASE Compiled(j)
    <3>1. u \in Urls /\ n \in Version BY <2>3, JobFields DEF Compiled
    <3> QED BY <1>2, <2>3, <3>1, IsJob DEF Compiled, enter
  <2>4. CASE Put(j)
    <3>1. u \in Urls /\ n \in Version BY <2>4, JobFields DEF Put
    <3>2. disk' \in Slot BY <1>2, <2>4, <3>1 DEF Put, Slot
    <3> QED BY <1>2, <2>4, <3>1, <3>2, IsJob DEF Put
  <2>5. CASE Fail(j) BY <1>2, <2>5, IsJob DEF Fail
  <2> QED BY <1>5, <2>1, <2>2, <2>3, <2>4, <2>5 DEF Continues
<1>6. ASSUME NEW j \in Jobs, Cached(j) PROVE Rest'
  <2> job[j] \in Job BY <1>2
  <2>1. job[j].url \in Urls /\ job[j].ver \in Version BY <1>6, JobFields DEF Cached
  <2>2. cache' \in Slot BY <1>2, <1>6, <2>1 DEF Cached, Slot
  <2> QED BY <1>2, <1>6, <2>2, IsJob DEF Cached
<1>7. ASSUME NEW u \in Urls, Publish(u) PROVE Rest'
  <2>1. source[u] \in Version /\ Latest[u] \in Version
    BY <1>2, RegistryAssumption DEF RegistryAssumption
  <2>2. source[u] < Latest[u] BY <1>7 DEF Publish
  <2>3. \A m, n \in Version : m < n => m + 1 \in Version
    BY RegistryAssumption DEF RegistryAssumption, Version
  <2>4. source[u] + 1 \in Version BY <2>1, <2>2, <2>3
  <2> QED BY <1>2, <1>7, <2>4 DEF Publish
<1>8. ASSUME Restart PROVE Rest' BY <1>2, <1>8, IsJob DEF Restart, Slot
<1>9. ASSUME UNCHANGED vars PROVE Rest' BY <1>2, <1>9 DEF vars
<1>10. Rest' BY <1>3, <1>4, <1>5, <1>6, <1>7, <1>8, <1>9 DEF Next
<1> QED BY <1>10 DEF TypeOK

\* Every reachable state of the registry is well typed.
THEOREM TypeCorrect == Spec => []TypeOK
<1>1. Init => TypeOK BY TypeInit
<1>2. TypeOK /\ [Next]_vars => TypeOK' BY TypeStep
<1> QED BY <1>1, <1>2, PTL DEF Spec

(***************************************************************************)
(* The database stays closed.                                              *)
(***************************************************************************)

\* A step gives at most one call a new state, and forgets nothing on disk.
LEMMA SavedInit == Init => SavedInv
  BY DEF Init, SavedInv, DiskClosed, IdleJob, Saving, Written

LEMMA SavedStep == TypeOK /\ SavedInv /\ [Next]_vars => SavedInv'
<1> SUFFICES ASSUME TypeOK, SavedInv, [Next]_vars PROVE SavedInv'
  OBVIOUS
<1> USE DEF SavedInv, DiskClosed, Saving, Written, ModulesSaved
<1>1. ASSUME NEW j \in Jobs, NEW u \in Urls, StartLoad(j, u) PROVE SavedInv'
  BY <1>1 DEF StartLoad, TypeOK
<1>2. ASSUME NEW j \in Jobs, NEW u \in Urls, Asks(j, u) PROVE SavedInv'
  BY <1>2 DEF Asks, StartFlush, StartInline, TypeOK
<1>3. ASSUME NEW j \in Jobs, Continues(j) PROVE SavedInv'
  <2>1. CASE Attempted(j) BY <2>1 DEF Attempted, enter, TypeOK
  <2>2. CASE Fetched(j) BY <2>2 DEF Fetched, IdleJob, TypeOK
  <2>3. CASE Compiled(j)
    <3> DEFINE u == job[j].url  n == job[j].ver
    <3>1. job[j] \in Job /\ u \in Urls /\ n \in Version
      BY <2>3, JobFields DEF Compiled, TypeOK
    <3>2. Uses[u][n] \subseteq Urls
      BY <3>1, RegistryAssumption DEF RegistryAssumption
    <3>3. CASE valid(cache, u, n)
      <4>1. \A d \in Uses[u][n] \ {u} : disk[d] # NoVersion
        BY <3>2, <3>3 DEF valid
      <4>2. /\ job' = [job EXCEPT ![j] = [pc |-> "saving", url |-> u, ver |-> n]]
            /\ UNCHANGED <<cache, disk>>
        BY <2>3, <3>3 DEF Compiled, enter
      <4> QED BY <4>1, <4>2 DEF TypeOK
    <3>4. CASE ~valid(cache, u, n)
      BY <2>3, <3>4 DEF Compiled, IdleJob, TypeOK
    <3> QED BY <3>3, <3>4
  <2>4. CASE Put(j)
    <3> DEFINE u == job[j].url  n == job[j].ver
    <3>1. job[j] \in Job /\ u \in Urls /\ n \in Version
      BY <2>4, JobFields DEF Put, TypeOK
    <3>2. /\ disk' = [disk EXCEPT ![u] = n]
          /\ job' = [job EXCEPT ![j] = [pc |-> "saved", url |-> u, ver |-> n]]
          /\ UNCHANGED cache
      BY <2>4 DEF Put
    <3>3. \A w : disk[w] # NoVersion => disk'[w] # NoVersion
      BY <3>1, <3>2, Versions DEF TypeOK, Slot
    <3>4. disk'[u] = n /\ n # NoVersion BY <3>1, <3>2, Versions DEF TypeOK, Slot
    <3>5. \A d \in Uses[u][n] \ {u} : disk'[d] # NoVersion
      BY <2>4, <3>3 DEF Put
    <3>6. DiskClosed' BY <3>2, <3>3, <3>4, <3>5 DEF TypeOK, Slot
    <3>7. \A k \in Jobs : Saving(k)' => ModulesSaved(k)'
      BY <3>2, <3>3, <3>5 DEF TypeOK
    <3>8. \A k \in Jobs : Written(k)' => disk'[job'[k].url] # NoVersion
      BY <3>2, <3>3, <3>4 DEF TypeOK
    <3> QED BY <3>2, <3>3, <3>6, <3>7, <3>8
  <2>5. CASE Fail(j) BY <2>5 DEF Fail, IdleJob, TypeOK
  <2> QED BY <1>3, <2>1, <2>2, <2>3, <2>4, <2>5 DEF Continues
<1>4. ASSUME NEW j \in Jobs, Cached(j) PROVE SavedInv'
  BY <1>4 DEF Cached, IdleJob, TypeOK
<1>5. ASSUME NEW u \in Urls, Publish(u) PROVE SavedInv'
  BY <1>5 DEF Publish
<1>6. ASSUME Restart PROVE SavedInv'
  BY <1>6 DEF Restart, IdleJob, TypeOK
<1>7. ASSUME UNCHANGED vars PROVE SavedInv'
  BY <1>7 DEF vars
<1> QED BY <1>1, <1>2, <1>3, <1>4, <1>5, <1>6, <1>7 DEF Next

\* Every module that a saved ruleset declares is saved, too, through any
\* failures, restarts and overlapping calls.
THEOREM DiskClosedCorrect == Spec => []DiskClosed
<1>1. Init => TypeOK /\ SavedInv BY TypeInit, SavedInit
<1>2. TypeOK /\ SavedInv /\ [Next]_vars => (TypeOK /\ SavedInv)'
  BY TypeStep, SavedStep
<1>3. SavedInv => DiskClosed BY DEF SavedInv
<1> QED BY <1>1, <1>2, <1>3, PTL DEF Spec

(***************************************************************************)
(* Without overlap the cache is what is saved, and acyclic.                *)
(***************************************************************************)

LEMMA RaceInit == Init => RaceInv
<1> SUFFICES ASSUME Init PROVE RaceInv
  OBVIOUS
<1>1. Graph(cache) = [u \in Urls |-> {}] BY DEF Init, Graph
<1>2. Acyclic(Graph(cache)) BY <1>1 DEF Acyclic
<1>3. \A j \in Jobs : ~Pending(j) /\ ~Written(j)
  BY DEF Init, IdleJob, Pending, Written
<1>4. \A u \in Urls : disk[u] = cache[u] /\ cache[u] = NoVersion BY DEF Init
<1> QED BY <1>2, <1>3, <1>4 DEF RaceInv, OneAtATime, CacheIsSaved, FirstLife

\* A step that takes no call into or out of the writing part keeps RaceInv.
LEMMA RaceQuiet ==
  ASSUME RaceInv, UNCHANGED <<cache, disk, raced, restarts>>,
         \A k \in Jobs : Pending(k)' => job'[k] = job[k],
         \A k \in Jobs : job[k].pc = "saved" => job'[k] = job[k]
  PROVE  RaceInv'
<1>1. \A k \in Jobs : /\ Pending(k)' => Pending(k) /\ job'[k] = job[k]
                      /\ Written(k)' => Written(k) /\ job'[k] = job[k]
                      /\ \A u \in Urls : SavedBy(k, u) => SavedBy(k, u)'
  BY DEF Pending, Written, SavedBy
<1>2. (raced = {} => OneAtATime)'
  BY <1>1 DEF RaceInv, OneAtATime
<1>3. CacheIsSaved'
  BY <1>1 DEF RaceInv, CacheIsSaved, SavedBy
<1>4. (raced = {} /\ restarts = 0 => FirstLife)'
  BY <1>1 DEF RaceInv, FirstLife
<1> QED BY <1>2, <1>3, <1>4 DEF RaceInv

\* So does one that takes a single call into it, unless another one is there.
LEMMA RaceEnter ==
  ASSUME TypeOK, RaceInv, NEW j \in Jobs, NEW r \in Job,
         ~Pending(j), enter(j, r),
         UNCHANGED <<cache, disk, restarts>>,
         r.pc \in {"saving", "loaded"},
         r.pc = "loaded" => r.ver = disk[r.url],
         r.pc = "saving" => Acyclic(Graph([cache EXCEPT ![r.url] = r.ver]))
  PROVE  RaceInv'
<1> DEFINE Alone == \A k \in Jobs \ {j} : ~Pending(k)
<1>1. raced' = {} => raced = {} /\ Alone BY DEF enter
<1>2. /\ job'[j] = r
      /\ \A k \in Jobs \ {j} : job'[k] = job[k]
  BY DEF enter, TypeOK
<1>3. Alone => \A k \in Jobs : Pending(k)' => k = j
  BY <1>2 DEF Pending
<1>4. \A k \in Jobs : Written(k)' => Pending(k)'
  BY DEF Pending, Written
<1>5. raced' = {} => OneAtATime'
  BY <1>1, <1>2, <1>3, <1>4 DEF OneAtATime, Written
<1>6. CacheIsSaved'
  BY <1>1, <1>2 DEF RaceInv, CacheIsSaved, Pending
<1>7. ASSUME raced' = {}, restarts' = 0 PROVE FirstLife'
  <2>1. raced = {} /\ restarts = 0 /\ FirstLife /\ Alone
    BY <1>1, <1>7 DEF RaceInv
  <2>2. \A k \in Jobs : job[k].pc # "saved"
    BY <2>1 DEF Pending
  <2>3. \A u \in Urls : disk[u] = cache[u]
    BY <2>1, <2>2 DEF FirstLife, SavedBy
  <2>4. r.url \in Urls BY JobFields
  <2>5. cache = [cache EXCEPT ![r.url] = cache[r.url]]
    BY <2>4 DEF TypeOK, Slot
  <2>6. Acyclic(Graph([cache EXCEPT ![r.url] = r.ver]))
    BY <2>1, <2>3, <2>4, <2>5 DEF FirstLife
  <2>7. \A k \in Jobs : Pending(k)' =>
          Acyclic(Graph([cache EXCEPT ![job'[k].url] = job'[k].ver]))
    BY <1>2, <1>3, <2>1, <2>6
  <2> QED BY <2>1, <2>3, <2>7 DEF FirstLife
<1> QED BY <1>5, <1>6, <1>7 DEF RaceInv

\* The save of the only call past validation.
LEMMA RacePut ==
  ASSUME TypeOK, RaceInv, NEW j \in Jobs, Put(j)
  PROVE  RaceInv'
<1> DEFINE u == job[j].url  n == job[j].ver
<1>1. job[j] \in Job /\ u \in Urls /\ n \in Version
  BY JobFields DEF Put, TypeOK
<1>2. /\ disk'[u] = n
      /\ \A w \in Urls \ {u} : disk'[w] = disk[w]
      /\ job'[j] = [pc |-> "saved", url |-> u, ver |-> n]
      /\ \A k \in Jobs \ {j} : job'[k] = job[k]
      /\ UNCHANGED <<cache, raced, restarts>>
  BY <1>1 DEF Put, TypeOK, Slot
<1>3. job[j].pc = "saving" /\ Pending(j) BY DEF Put, Pending
<1>4. CASE raced = {}
  <2>1. \A k \in Jobs \ {j} : ~Pending(k)
    BY <1>3, <1>4 DEF RaceInv, OneAtATime
  <2>2. \A k \in Jobs : Pending(k)' => k = j
    BY <1>2, <2>1 DEF Pending
  <2>3. \A w \in Urls, k \in Jobs : ~SavedBy(k, w)
    BY <1>3, <2>1 DEF Pending, SavedBy
  <2>4. SavedBy(j, u)' BY <1>2 DEF SavedBy
  <2>5. OneAtATime'
    BY <1>2, <2>2 DEF OneAtATime, Written, Pending
  <2>6. CacheIsSaved'
    BY <1>1, <1>2, <1>4, <2>3, <2>4 DEF RaceInv, CacheIsSaved, SavedBy
  <2>7. ASSUME restarts = 0 PROVE FirstLife'
    <3>1. FirstLife BY <1>4, <2>7 DEF RaceInv
    <3>2. \A w \in Urls : disk'[w] = cache'[w] \/ \E k \in Jobs : SavedBy(k, w)'
      BY <1>1, <1>2, <2>3, <2>4, <3>1 DEF FirstLife
    <3>3. \A k \in Jobs : Pending(k)' => 
            Acyclic(Graph([cache EXCEPT ![job'[k].url] = job'[k].ver]))
      BY <1>2, <1>3, <2>2, <3>1 DEF FirstLife
    <3> QED BY <1>2, <3>1, <3>2, <3>3 DEF FirstLife
  <2> QED BY <1>2, <2>5, <2>6, <2>7 DEF RaceInv
<1>5. CASE raced # {}
  BY <1>2, <1>5 DEF RaceInv, CacheIsSaved
<1> QED BY <1>4, <1>5

\* The cache update of the only call past validation.
LEMMA RaceCached ==
  ASSUME TypeOK, RaceInv, NEW j \in Jobs, Cached(j)
  PROVE  RaceInv'
<1> DEFINE u == job[j].url  n == job[j].ver
<1>1. job[j] \in Job /\ u \in Urls /\ n \in Version
  BY JobFields DEF Cached, TypeOK
<1>2. /\ cache' = [cache EXCEPT ![u] = n]
      /\ cache'[u] = n
      /\ \A w \in Urls \ {u} : cache'[w] = cache[w]
      /\ job'[j] = IdleJob
      /\ \A k \in Jobs \ {j} : job'[k] = job[k]
      /\ UNCHANGED <<disk, raced, restarts>>
  BY <1>1 DEF Cached, TypeOK, Slot
<1>3. Pending(j) /\ Written(j) BY DEF Cached, Pending, Written
<1>4. CASE raced = {}
  <2>1. \A k \in Jobs \ {j} : ~Pending(k)
    BY <1>3, <1>4 DEF RaceInv, OneAtATime
  <2>2. \A k \in Jobs : ~Pending(k)' /\ ~Written(k)'
    BY <1>2, <2>1 DEF Pending, Written, IdleJob
  <2>3. \A w \in Urls \ {u}, k \in Jobs : ~SavedBy(k, w)
    BY <2>1 DEF Pending, SavedBy
  <2>4. disk[u] = n BY <1>3, <1>4 DEF RaceInv, OneAtATime
  <2>5. OneAtATime' BY <2>2 DEF OneAtATime
  <2>6. CacheIsSaved'
    BY <1>2, <1>4, <2>3, <2>4 DEF RaceInv, CacheIsSaved, SavedBy
  <2>7. ASSUME restarts = 0 PROVE FirstLife'
    <3>1. FirstLife BY <1>4, <2>7 DEF RaceInv
    <3>2. \A w \in Urls : disk'[w] = cache'[w]
      BY <1>2, <2>3, <2>4, <3>1 DEF FirstLife
    <3>3. Acyclic(Graph(cache'))
      BY <1>2, <1>3, <3>1 DEF FirstLife
    <3> QED BY <2>2, <3>2, <3>3 DEF FirstLife, Graph, Acyclic
  <2> QED BY <1>2, <2>5, <2>6, <2>7 DEF RaceInv
<1>5. CASE raced # {}
  BY <1>2, <1>5 DEF RaceInv, CacheIsSaved
<1> QED BY <1>4, <1>5

LEMMA RaceStep == TypeOK /\ RaceInv /\ [Next]_vars => RaceInv'
<1> SUFFICES ASSUME TypeOK, RaceInv, [Next]_vars PROVE RaceInv'
  OBVIOUS
<1>1. ASSUME NEW j \in Jobs, NEW u \in Urls, StartLoad(j, u) PROVE RaceInv'
  BY <1>1, RaceQuiet DEF StartLoad, TypeOK, Pending
<1>2. ASSUME NEW j \in Jobs, NEW u \in Urls, Asks(j, u) PROVE RaceInv'
  BY <1>2, RaceQuiet DEF Asks, StartFlush, StartInline, TypeOK, Pending
<1>3. ASSUME NEW j \in Jobs, Continues(j) PROVE RaceInv'
  <2> DEFINE u == job[j].url  n == job[j].ver
  <2> job[j] \in Job BY DEF TypeOK
  <2>1. CASE Attempted(j)
    <3>1. u \in Urls /\ ~Pending(j)
      BY <2>1, JobFields DEF Attempted, Pending
    <3>2. CASE disk[u] # NoVersion
      <4> DEFINE r == [pc |-> "loaded", url |-> u, ver |-> disk[u]]
      <4>1. r \in Job BY <3>1, <3>2, IsJob DEF TypeOK, Slot
      <4> QED BY <2>1, <3>1, <3>2, <4>1, RaceEnter DEF Attempted
    <3>3. CASE disk[u] = NoVersion
      BY <2>1, <3>3, RaceQuiet DEF Attempted, TypeOK, Pending
    <3> QED BY <3>2, <3>3
  <2>2. CASE Fetched(j)
    BY <2>2, RaceQuiet DEF Fetched, IdleJob, TypeOK, Pending
  <2>3. CASE Compiled(j)
    <3>1. u \in Urls /\ n \in Version /\ ~Pending(j)
      BY <2>3, JobFields DEF Compiled, Pending
    <3>2. CASE valid(cache, u, n)
      <4> DEFINE r == [pc |-> "saving", url |-> u, ver |-> n]
      <4>1. r \in Job BY <3>1, IsJob
      <4>2. Acyclic(Graph([cache EXCEPT ![r.url] = r.ver])) BY <3>2 DEF valid
      <4> QED BY <2>3, <3>1, <3>2, <4>1, <4>2, RaceEnter DEF Compiled
    <3>3. CASE ~valid(cache, u, n)
      BY <2>3, <3>3, RaceQuiet DEF Compiled, IdleJob, TypeOK, Pending
    <3> QED BY <3>2, <3>3
  <2>4. CASE Put(j) BY <2>4, RacePut
  <2>5. CASE Fail(j)
    BY <2>5, RaceQuiet DEF Fail, IdleJob, TypeOK, Pending
  <2> QED BY <1>3, <2>1, <2>2, <2>3, <2>4, <2>5 DEF Continues
<1>4. ASSUME NEW j \in Jobs, Cached(j) PROVE RaceInv'
  BY <1>4, RaceCached
<1>5. ASSUME NEW u \in Urls, Publish(u) PROVE RaceInv'
  BY <1>5, RaceQuiet DEF Publish
<1>6. ASSUME Restart PROVE RaceInv'
  <2>1. \A k \in Jobs : ~Pending(k)' /\ ~Written(k)'
    BY <1>6 DEF Restart, Pending, Written, IdleJob
  <2>2. restarts' # 0 /\ \A u \in Urls : cache'[u] = NoVersion
    BY <1>6 DEF Restart, TypeOK
  <2> QED BY <2>1, <2>2 DEF RaceInv, OneAtATime, CacheIsSaved
<1>7. ASSUME UNCHANGED vars PROVE RaceInv'
  BY <1>7, RaceQuiet DEF vars
<1> QED BY <1>1, <1>2, <1>3, <1>4, <1>5, <1>6, <1>7 DEF Next

LEMMA RaceCorrect == Spec => [](TypeOK /\ RaceInv)
<1>1. Init => TypeOK /\ RaceInv BY TypeInit, RaceInit
<1>2. TypeOK /\ RaceInv /\ [Next]_vars => (TypeOK /\ RaceInv)'
  BY TypeStep, RaceStep
<1> QED BY <1>1, <1>2, PTL DEF Spec

\* Unless two calls of one life overlapped between validation and cache update,
\* what is cached is what a restart would load.
THEOREM CacheIsSavedCorrect == Spec => []CacheIsSaved
<1>1. RaceInv => CacheIsSaved BY DEF RaceInv
<1> QED BY <1>1, RaceCorrect, PTL

\* Unless two calls of the first life overlapped so, no cycle of modules gets
\* into the cache.
THEOREM UnracedCorrect == Spec => []AcyclicUnlessRaced
<1>1. RaceInv => AcyclicUnlessRaced BY DEF RaceInv, FirstLife, AcyclicUnlessRaced
<1> QED BY <1>1, RaceCorrect, PTL

-----------------------------------------------------------------------------
(***************************************************************************)
(* Module use.                                                             *)
(***************************************************************************)

Depth(t) == Len(thread[t].frames)

\* Why the bindings are right while nothing disturbs a use: at most one thread
\* is inside a use, and the modules of its frames stay installed and cached; what
\* is bound in another than the cached version is about to be bound again by the
\* outermost use of that thread.
Refreshes(t, u, m) ==
  /\ Depth(t) > 1
  /\ thread[t].frames[1].rid = u /\ thread[t].frames[2].rid = m
BindInv == ~disturbed =>
  /\ \A u, m \in Urls : bound[u][m] # NoVersion => m \in inst
  /\ \A t \in Threads : \A k \in 2 .. Depth(t) :
       /\ thread[t].frames[k].rid \in inst
       /\ thread[t].frames[k].ver = cache[thread[t].frames[k].rid]
  /\ \A s, t \in Threads : Depth(s) > 1 /\ Depth(t) > 1 => s = t
  /\ \A u, m \in Urls : \/ bound[u][m] \in {NoVersion, cache[m]}
                        \/ \E t \in Threads : Refreshes(t, u, m)

-----------------------------------------------------------------------------
(* Sequences of frames, and what a step does to the threads.               *)

LEMMA FrontFacts ==
  ASSUME NEW S, NEW s \in Seq(S), Len(s) > 0
  PROVE  /\ Front(s) \in Seq(S) /\ Len(Front(s)) = Len(s) - 1
         /\ \A k \in 1 .. Len(s) - 1 : Front(s)[k] = s[k]
<1> DEFINE n == Len(s) - 1
<1>1. n \in Nat /\ n \in 0 .. Len(s)
  OBVIOUS
<1>2. n = Len(s) - 1
  OBVIOUS
<1> HIDE DEF n
<1>3. SubSeq(s, 1, n) \in Seq(S) /\ Len(SubSeq(s, 1, n)) = n
  BY <1>1
<1>4. \A k \in 1 .. n : SubSeq(s, 1, n)[k] = s[k]
  BY <1>1
<1>5. Front(s) = SubSeq(s, 1, n) BY <1>2 DEF Front
<1> QED BY <1>2, <1>3, <1>4, <1>5

LEMMA FrameType ==
  ASSUME RegistryAssumption, NEW u \in Urls, NEW n \in Version
  PROVE  /\ InitFrame(u, n) \in FrameState
         /\ InitFrame(u, n).rid = u /\ InitFrame(u, n).ver = n
         /\ <<InitFrame(u, n)>> \in Seq(FrameState)
<1>1. Uses[u][n] \in SUBSET Urls BY DEF RegistryAssumption
<1>2. InitFrame(u, n) \in FrameState BY <1>1 DEF InitFrame, Frame, FrameState
<1> QED BY <1>2 DEF InitFrame, Frame

LEMMA CacheType ==
  ASSUME TypeOK, NEW u \in Urls, cache[u] # NoVersion
  PROVE  cache[u] \in Version
BY DEF TypeOK, Slot

LEMMA IdleFacts ==
  /\ IdleThread \in ThreadState
  /\ IdleThread.frames = << >> /\ Len(IdleThread.frames) = 0
BY DEF IdleThread, ThreadState

\* A use takes its module off the list of the innermost frame and puts a frame on top.
Pushed(fs, gs, x) ==
  /\ gs \in Seq(FrameState) /\ Len(gs) = Len(fs) + 1
  /\ \A k \in 1 .. Len(fs) : gs[k].rid = fs[k].rid /\ gs[k].ver = fs[k].ver
  /\ gs[Len(fs) + 1] = x

LEMMA PushFacts ==
  ASSUME NEW fs \in Seq(FrameState), Len(fs) > 0, NEW d, NEW x \in FrameState
  PROVE  Pushed(fs, Append([fs EXCEPT ![Len(fs)].todo = @ \ {d}], x), x)
<1> DEFINE n == Len(fs)
           g == [fs[n] EXCEPT !.todo = @ \ {d}]
           rest == [fs EXCEPT ![n] = g]
<1>1. n \in Nat /\ n \in 1 .. n /\ fs[n] \in FrameState
  OBVIOUS
<1>2. g \in FrameState /\ g.rid = fs[n].rid /\ g.ver = fs[n].ver
  BY <1>1 DEF FrameState
<1>3. [fs EXCEPT ![Len(fs)].todo = @ \ {d}] = rest
  BY <1>1
<1> HIDE DEF g
<1>4. rest \in Seq(FrameState) /\ Len(rest) = n
  BY <1>1, <1>2
<1>5. \A k \in 1 .. n : rest[k] = IF k = n THEN g ELSE fs[k]
  BY <1>1
<1>6. \A k \in 1 .. n : rest[k].rid = fs[k].rid /\ rest[k].ver = fs[k].ver
  BY <1>2, <1>5
<1> HIDE DEF rest, n
<1>7. /\ Append(rest, x) \in Seq(FrameState) /\ Len(Append(rest, x)) = n + 1
      /\ \A k \in 1 .. n : Append(rest, x)[k] = rest[k]
      /\ Append(rest, x)[n + 1] = x
  BY <1>4
<1>8. Pushed(fs, Append(rest, x), x)
  BY <1>6, <1>7 DEF Pushed, n
<1> QED BY <1>3, <1>8

\* Only thread t has other frames than before.
Becomes(t, fs) ==
  /\ thread' \in [Threads -> ThreadState]
  /\ thread'[t].frames = fs /\ thread'[t].kind = thread[t].kind
  /\ \A s \in Threads \ {t} : thread'[s] = thread[s]

LEMMA Changed ==
  ASSUME UseTypeOK, NEW t \in Threads, NEW fs \in Seq(FrameState),
         thread' = [thread EXCEPT ![t].frames = fs]
  PROVE  Becomes(t, fs)
<1>1. thread[t] \in ThreadState BY DEF UseTypeOK
<1>2. thread' = [thread EXCEPT ![t] = [thread[t] EXCEPT !.frames = fs]]
  BY DEF UseTypeOK
<1>3. [thread[t] EXCEPT !.frames = fs] \in ThreadState BY <1>1 DEF ThreadState
<1>4. /\ [thread[t] EXCEPT !.frames = fs].frames = fs
      /\ [thread[t] EXCEPT !.frames = fs].kind = thread[t].kind
  BY <1>1 DEF ThreadState
<1> QED BY <1>2, <1>3, <1>4 DEF UseTypeOK, Becomes

LEMMA Frames ==
  ASSUME UseTypeOK, NEW t \in Threads
  PROVE  /\ thread[t].frames \in Seq(FrameState) /\ Depth(t) \in Nat
         /\ \A k \in 1 .. Depth(t) : thread[t].frames[k] \in FrameState
         /\ thread[t].frames # << >> => Depth(t) > 0 /\ thread[t].kind # "idle"
         /\ thread[t] = IdleThread => Depth(t) = 0
BY IdleFacts DEF UseTypeOK, ThreadState, Depth

Enters(t, d) ==
  /\ d \in inst /\ cache[d] # NoVersion
  /\ initStack' = Append(initStack, d)
  /\ Becomes(t, thread'[t].frames)
  /\ Pushed(thread[t].frames, thread'[t].frames, InitFrame(d, cache[d]))
  /\ disturbed' = (disturbed \/ Busy(Threads \ {t}))
Refused(t) ==
  /\ initStack' = popped(Depth(t) - 1)
  /\ thread' = [thread EXCEPT ![t] = IdleThread]
  /\ disturbed' = TRUE

LEMMA UseStartEffect ==
  ASSUME RegistryAssumption, UseTypeOK, NEW t \in Threads, UseStart(t)
  PROVE  /\ Depth(t) > 0 /\ thread[t].kind # "idle"
         /\ Refused(t) \/ \E d \in Urls : Enters(t, d)
<1> DEFINE fs == thread[t].frames
<1>1. fs \in Seq(FrameState) /\ fs # << >> /\ Depth(t) > 0 /\ thread[t].kind # "idle"
  BY Frames DEF UseStart
<1>2. PICK d \in Last(fs).todo :
        LET rest == [fs EXCEPT ![Len(fs)].todo = @ \ {d}]
            found == d \in inst /\ cache[d] # NoVersion
            cycle == Contains(initStack, d)
        IN \/ /\ found /\ ~cycle
              /\ initStack' = Append(initStack, d)
              /\ thread' = [thread EXCEPT ![t].frames =
                              Append(rest, InitFrame(d, cache[d]))]
              /\ disturbed' = (disturbed \/ Busy(Threads \ {t}))
           \/ /\ ~found \/ cycle
              /\ initStack' = popped(Len(fs) - 1)
              /\ thread' = [thread EXCEPT ![t] = IdleThread]
              /\ disturbed' = TRUE
  BY DEF UseStart
<1>3. CASE Refused(t) BY <1>1, <1>3
<1>4. CASE ~Refused(t)
  <2> DEFINE rest == [fs EXCEPT ![Len(fs)].todo = @ \ {d}]
             x == InitFrame(d, cache[d])
  <2>1. /\ d \in inst /\ cache[d] # NoVersion
        /\ initStack' = Append(initStack, d)
        /\ thread' = [thread EXCEPT ![t].frames = Append(rest, x)]
        /\ disturbed' = (disturbed \/ Busy(Threads \ {t}))
    BY <1>2, <1>4 DEF Refused, Depth
  <2>2. d \in Urls BY <2>1 DEF UseTypeOK
  <2>3. x \in FrameState BY <2>1, <2>2, CacheType, FrameType DEF UseTypeOK
  <2>4. Pushed(fs, Append(rest, x), x) BY <1>1, <2>3, PushFacts DEF Depth
  <2>5. Becomes(t, Append(rest, x)) BY <2>1, <2>4, Changed DEF Pushed
  <2> HIDE DEF rest, x, fs
  <2>6. thread'[t].frames = Append(rest, x) BY <2>5 DEF Becomes
  <2>7. Becomes(t, thread'[t].frames) BY <2>5, <2>6
  <2>8. Enters(t, d) BY <2>1, <2>4, <2>6, <2>7 DEF Enters, fs, x
  <2> QED BY <1>1, <2>2, <2>8
<1> QED BY <1>3, <1>4

Binds(t) ==
  /\ initStack' = Front(initStack)
  /\ bound' = [bound EXCEPT ![thread[t].frames[Depth(t) - 1].rid]
                               [thread[t].frames[Depth(t)].rid] = thread[t].frames[Depth(t)].ver]
  /\ Becomes(t, Front(thread[t].frames))

LEMMA UseEndEffect ==
  ASSUME UseTypeOK, NEW t \in Threads, UseEnd(t)
  PROVE  Depth(t) > 1 /\ thread[t].kind # "idle" /\ Binds(t)
<1>1. thread[t].frames \in Seq(FrameState) /\ Depth(t) > 1
  BY Frames DEF UseEnd, Depth
<1>2. thread[t].kind # "idle" BY <1>1, Frames DEF Depth
<1>3. Front(thread[t].frames) \in Seq(FrameState) BY <1>1, FrontFacts DEF Depth
<1>4. Becomes(t, Front(thread[t].frames)) BY <1>3, Changed DEF UseEnd
<1> QED BY <1>1, <1>2, <1>4 DEF UseEnd, Binds, Last, Depth

LEMMA InitEndEffect ==
  ASSUME UseTypeOK, NEW t \in Threads, InitEnd(t)
  PROVE  /\ Depth(t) = 1
         /\ thread' = [thread EXCEPT ![t] = IdleThread]
         /\ inst \subseteq inst' /\ inst' \subseteq Urls
<1>1. Depth(t) = 1 BY DEF InitEnd, Depth
<1>2. thread[t].frames[1] \in FrameState BY <1>1, Frames
<1>3. thread[t].frames[1].rid \in Urls BY <1>2 DEF FrameState
<1> QED BY <1>1, <1>3 DEF InitEnd, UseTypeOK

\* An idle thread begins the initialisation of u, in no use.
Reinit(u, n) == [kind |-> "reinit", frames |-> <<InitFrame(u, n)>>]
Reuse(w, u, n) == [kind |-> "reuse",
                   frames |-> <<Frame(w, NoVersion, {}), InitFrame(u, n)>>]
Users(u, n) == {w \in Urls : bound[w][u] \notin {NoVersion, n}}
SameOrReinit(t, u, n) ==
  thread'[t] = thread[t] \/ (thread[t] = IdleThread /\ thread'[t] = Reinit(u, n))

LEMMA StartFacts ==
  ASSUME RegistryAssumption, NEW w \in Urls, NEW u \in Urls, NEW n \in Version
  PROVE  /\ Reinit(u, n) \in ThreadState
         /\ Reinit(u, n).kind = "reinit" /\ Reinit(u, n).frames # << >>
         /\ Len(Reinit(u, n).frames) = 1
         /\ Reuse(w, u, n) \in ThreadState
         /\ Reuse(w, u, n).kind = "reuse" /\ Reuse(w, u, n).frames # << >>
         /\ Len(Reuse(w, u, n).frames) = 2
         /\ Reuse(w, u, n).frames[1].rid = w
         /\ Reuse(w, u, n).frames[2].rid = u /\ Reuse(w, u, n).frames[2].ver = n
<1>1. InitFrame(u, n) \in FrameState /\ InitFrame(u, n).rid = u /\ InitFrame(u, n).ver = n
  BY FrameType
<1>2. Frame(w, NoVersion, {}) \in FrameState /\ Frame(w, NoVersion, {}).rid = w
  BY DEF Frame, FrameState
<1> HIDE DEF InitFrame, Frame
<1> QED BY <1>1, <1>2 DEF Reinit, Reuse, ThreadState

Refreshed(u, n, w, t) ==
  /\ w \in Users(u, n) /\ u \in inst
  /\ thread[t] = IdleThread /\ thread'[t] = Reuse(w, u, n)
  /\ \A s \in Threads \ {t} : SameOrReinit(s, u, n)
  /\ initStack' = Append(initStack, u)
Unrefreshed(u, n) ==
  /\ Users(u, n) = {} \/ u \notin inst \/ Contains(initStack, u)
  /\ \A s \in Threads : SameOrReinit(s, u, n)
  /\ UNCHANGED initStack

LEMMA LoadedEffect ==
  ASSUME RegistryAssumption, UseTypeOK, NEW u \in Urls, NEW n \in Version,
         OnRulesetLoaded(u, n)
  PROVE  /\ thread' \in [Threads -> ThreadState]
         /\ Unrefreshed(u, n) \/ \E w \in Urls, t \in Threads : Refreshed(u, n, w, t)
<1> DEFINE started == IF u \in inst /\ Serving THEN {Reinit(u, n)} ELSE {}
           ends == \/ Users(u, n) = {} \/ u \notin inst \/ Contains(initStack, u)
<1>1. CASE ends
  <2>1. PICK f \in [started -> Idle] :
          thread' = [t \in Threads |-> IF \E s \in started : f[s] = t
                                       THEN Reinit(u, n) ELSE thread[t]]
    BY <1>1 DEF OnRulesetLoaded, Users, Reinit
  <2>2. \A t \in Threads : SameOrReinit(t, u, n)
    BY <2>1 DEF SameOrReinit, Idle
  <2>3. thread' \in [Threads -> ThreadState]
    BY <2>1, StartFacts DEF UseTypeOK
  <2>4. UNCHANGED initStack BY <1>1 DEF OnRulesetLoaded, Users
  <2> QED BY <1>1, <2>2, <2>3, <2>4 DEF Unrefreshed
<1>2. CASE ~ends
  <2>1. PICK w \in Users(u, n), t \in Idle, f \in [started -> Idle] :
          /\ \A s \in started : f[s] # t
          /\ thread' = [k \in Threads |->
                          IF k = t THEN Reuse(w, u, n)
                          ELSE IF \E s \in started : f[s] = k THEN Reinit(u, n)
                          ELSE thread[k]]
    BY <1>2 DEF OnRulesetLoaded, Users, Reinit, Reuse
  <2>2. w \in Urls /\ t \in Threads /\ thread[t] = IdleThread BY DEF Users, Idle
  <2>3. \A k \in Threads \ {t} : SameOrReinit(k, u, n)
    BY <2>1 DEF SameOrReinit, Idle
  <2>4. thread' \in [Threads -> ThreadState]
    BY <2>1, <2>2, StartFacts DEF UseTypeOK
  <2>5. initStack' = Append(initStack, u) BY <1>2 DEF OnRulesetLoaded, Users
  <2> QED BY <1>2, <2>1, <2>2, <2>3, <2>4, <2>5 DEF Refreshed
<1> QED BY <1>1, <1>2

-----------------------------------------------------------------------------
(* Types.                                                                  *)

LEMMA UseTypeInit == Init /\ UseInit => UseTypeOK
<1> SUFFICES ASSUME Init, UseInit PROVE UseTypeOK
  OBVIOUS
<1>1. TypeOK BY TypeInit
<1>2. bound \in [Urls -> Slot] BY DEF UseInit, Unbound, Slot
<1>3. /\ inst = {} /\ uninit = {} /\ initStack = << >> /\ disturbed = FALSE
      /\ thread = [t \in Threads |-> IdleThread]
  BY DEF UseInit
<1>4. initStack \in Seq(Urls) BY <1>3
<1>5. /\ thread \in [Threads -> ThreadState]
      /\ \A t \in Threads : thread[t] = IdleThread
  BY <1>3, IdleFacts
<1> QED BY <1>1, <1>2, <1>3, <1>4, <1>5 DEF UseTypeOK

\* The threads are well typed after one of them has begun, ended or changed.
LEMMA ThreadTypes ==
  ASSUME UseTypeOK, thread' \in [Threads -> ThreadState],
         \A t \in Threads : \/ thread'[t] = thread[t] \/ thread'[t] = IdleThread
                            \/ thread'[t].kind # "idle" /\ thread'[t].frames # << >>
  PROVE  \A t \in Threads : thread'[t].kind = "idle" \/ thread'[t].frames = << >>
                              => thread'[t] = IdleThread
BY DEF UseTypeOK

\* Every step of the registry is one of those that RulesetRegistry knows.
LEMMA RegistryNext ==
  ASSUME UseNext PROVE [Next]_vars
BY DEF UseNext, RegistryStep, Next, UseStart, UseEnd, InitEnd, Install, Startup, Uninstall

LEMMA UseTypeStep ==
  ASSUME RegistryAssumption, UseTypeOK, [UseNext]_allVars
  PROVE  UseTypeOK'
<1>1. TypeOK'
  <2>1. [Next]_vars BY RegistryNext DEF allVars
  <2> QED BY <2>1, TypeStep DEF UseTypeOK
<1> DEFINE Rest == /\ inst \subseteq Urls /\ uninit \subseteq inst
                   /\ bound \in [Urls -> Slot]
                   /\ initStack \in Seq(Urls)
                   /\ thread \in [Threads -> ThreadState]
                   /\ \A t \in Threads : thread[t].kind = "idle" \/ thread[t].frames = << >>
                                           => thread[t] = IdleThread
                   /\ disturbed \in BOOLEAN
<1>2. SUFFICES Rest' BY <1>1 DEF UseTypeOK
<1>3. Rest BY DEF UseTypeOK
<1>4. UNCHANGED useVars => Rest' BY <1>3 DEF useVars
<1>5. CASE RegistryStep BY <1>4, <1>5 DEF RegistryStep
<1>6. ASSUME NEW j \in Jobs, Cached(j), OnRulesetLoaded(job[j].url, job[j].ver) PROVE Rest'
  <2> DEFINE u == job[j].url
             n == job[j].ver
  <2>1. u \in Urls /\ n \in Version
    BY <1>6, JobFields DEF Cached, UseTypeOK, TypeOK
  <2> HIDE DEF u, n
  <2>2. OnRulesetLoaded(u, n) BY <1>6 DEF u, n
  <2>3. /\ thread' \in [Threads -> ThreadState]
        /\ Unrefreshed(u, n) \/ \E w \in Urls, t \in Threads : Refreshed(u, n, w, t)
    BY <2>1, <2>2, LoadedEffect
  <2>4. \A t \in Threads : \/ thread'[t] = thread[t]
                           \/ thread'[t].kind # "idle" /\ thread'[t].frames # << >>
    BY <2>1, <2>3, StartFacts DEF Unrefreshed, Refreshed, SameOrReinit
  <2>5. initStack' \in Seq(Urls)
    <3>1. Append(initStack, u) \in Seq(Urls) BY <1>3, <2>1
    <3> QED BY <1>3, <2>3, <3>1 DEF Unrefreshed, Refreshed
  <2>6. UNCHANGED <<inst, uninit, bound>> /\ disturbed' \in BOOLEAN
    BY <2>2 DEF OnRulesetLoaded
  <2> QED BY <1>3, <2>3, <2>4, <2>5, <2>6, ThreadTypes
<1>7. CASE Restart /\ RestartPico
  <2>1. bound' \in [Urls -> Slot] BY <1>7 DEF RestartPico, Unbound, Slot
  <2>2. initStack' \in Seq(Urls) BY <1>7 DEF RestartPico
  <2> QED BY <1>3, <1>7, <2>1, <2>2, IdleFacts DEF RestartPico
<1>8. ASSUME NEW t \in Threads, UseStart(t) PROVE Rest'
  <2>1. Depth(t) > 0 /\ thread[t].kind # "idle" /\ Depth(t) \in Nat
    BY <1>8, UseStartEffect, Frames
  <2>2. UNCHANGED <<inst, uninit, bound>> BY <1>8 DEF UseStart
  <2>3. CASE Refused(t)
    <3>1. initStack' \in Seq(Urls)
      <4> DEFINE m == Len(initStack) - (Depth(t) - 1)
      <4>1. initStack \in Seq(Urls) /\ m \in Int /\ m <= Len(initStack)
        BY <1>3, <2>1
      <4> HIDE DEF m
      <4>2. SubSeq(initStack, 1, m) \in Seq(Urls) BY <4>1
      <4> QED BY <2>3, <4>2 DEF Refused, popped, m
    <3>2. /\ thread' \in [Threads -> ThreadState]
          /\ \A s \in Threads : thread'[s] = thread[s] \/ thread'[s] = IdleThread
      BY <1>3, <2>3, IdleFacts DEF Refused
    <3> QED BY <1>3, <2>2, <2>3, <3>1, <3>2, ThreadTypes DEF Refused
  <2>4. ASSUME NEW d \in Urls, Enters(t, d) PROVE Rest'
    <3>1. initStack' \in Seq(Urls) BY <1>3, <2>4 DEF Enters
    <3>2. thread'[t].frames # << >>
      BY <2>1, <2>4 DEF Enters, Pushed, Depth
    <3>3. /\ thread' \in [Threads -> ThreadState]
          /\ \A s \in Threads : \/ thread'[s] = thread[s]
                                \/ thread'[s].kind # "idle" /\ thread'[s].frames # << >>
      BY <2>1, <2>4, <3>2 DEF Enters, Becomes
    <3>4. disturbed' \in BOOLEAN BY <2>4 DEF Enters
    <3> QED BY <1>3, <2>2, <3>1, <3>3, <3>4, ThreadTypes
  <2> QED BY <1>8, <2>3, <2>4, UseStartEffect
<1>9. ASSUME NEW t \in Threads, UseEnd(t) PROVE Rest'
  <2> DEFINE fs == thread[t].frames
  <2>1. Depth(t) > 1 /\ thread[t].kind # "idle" /\ Binds(t) BY <1>9, UseEndEffect
  <2>2. UNCHANGED <<inst, uninit, disturbed>> BY <1>9 DEF UseEnd
  <2>3. fs \in Seq(FrameState) /\ Depth(t) \in Nat /\ Len(fs) = Depth(t)
    BY Frames DEF Depth
  <2>4. initStack' \in Seq(Urls) BY <1>3, <2>1 DEF Binds, Front
  <2>5. /\ fs[Depth(t)] \in FrameState /\ fs[Depth(t) - 1] \in FrameState
    BY <2>1, <2>3
  <2>6. bound' \in [Urls -> Slot]
    BY <1>3, <2>1, <2>5 DEF Binds, Slot, FrameState
  <2>7. Front(fs) # << >> BY <2>1, <2>3, FrontFacts
  <2>8. /\ thread' \in [Threads -> ThreadState]
        /\ \A s \in Threads : \/ thread'[s] = thread[s]
                              \/ thread'[s].kind # "idle" /\ thread'[s].frames # << >>
    BY <2>1, <2>7 DEF Binds, Becomes
  <2> QED BY <1>3, <2>2, <2>4, <2>6, <2>8, ThreadTypes
<1>10. ASSUME NEW t \in Threads, InitEnd(t) PROVE Rest'
  <2>1. /\ thread' = [thread EXCEPT ![t] = IdleThread]
        /\ inst \subseteq inst' /\ inst' \subseteq Urls
    BY <1>10, InitEndEffect
  <2> QED BY <1>3, <1>10, <2>1, IdleFacts, ThreadTypes DEF InitEnd
<1>11. ASSUME NEW t \in Threads, NEW u \in Urls, Install(t, u) \/ Startup(t, u) PROVE Rest'
  <2>1. /\ cache[u] # NoVersion /\ uninit' \subseteq uninit
        /\ UNCHANGED <<inst, bound, initStack, disturbed>>
    BY <1>3, <1>11 DEF Install, Startup
  <2>2. \E k \in {"install", "startup"} :
          thread' = [thread EXCEPT ![t] = [kind |-> k, frames |-> <<InitFrame(u, cache[u])>>]]
    BY <1>11 DEF Install, Startup
  <2>3. <<InitFrame(u, cache[u])>> \in Seq(FrameState)
    BY <2>1, CacheType, FrameType DEF UseTypeOK
  <2>4. \A k \in {"install", "startup"} :
          [kind |-> k, frames |-> <<InitFrame(u, cache[u])>>] \in ThreadState
    BY <2>3 DEF ThreadState
  <2>5. /\ thread' \in [Threads -> ThreadState]
        /\ \A s \in Threads : \/ thread'[s] = thread[s]
                              \/ thread'[s].kind # "idle" /\ thread'[s].frames # << >>
    BY <1>3, <2>2, <2>4
  <2> QED BY <1>3, <2>1, <2>5, ThreadTypes
<1>12. ASSUME NEW u \in Urls, Uninstall(u) PROVE Rest'
  <2>1. bound' \in [Urls -> Slot] BY <1>3, <1>12 DEF Uninstall, Unbound, Slot
  <2>2. uninit = {} /\ inst' \subseteq inst BY <1>12 DEF Uninstall, Serving
  <2> QED BY <1>3, <1>12, <2>1, <2>2 DEF Uninstall
<1>13. CASE UNCHANGED allVars BY <1>4, <1>13 DEF allVars
<1> QED BY <1>5, <1>6, <1>7, <1>8, <1>9, <1>10, <1>11, <1>12, <1>13 DEF UseNext

\* Every reachable state of a pico's rulesets, bindings, stack and initialisations
\* is well typed, on top of any registry.
THEOREM UseTypeCorrect == UseSpec => []UseTypeOK
<1>1. Init /\ UseInit => UseTypeOK BY UseTypeInit
<1>2. UseTypeOK /\ [UseNext]_allVars => UseTypeOK' BY RegistryAssumption, UseTypeStep
<1> QED BY <1>1, <1>2, PTL DEF UseSpec

-----------------------------------------------------------------------------
(* The stack has one entry per use in progress.                            *)

OpenOf(th) == UNION {{t} \X (2 .. Len(th[t].frames)) : t \in Threads}

LEMMA OpenMembers ==
  ASSUME NEW th
  PROVE  \A x : x \in OpenOf(th) <=>
           \E t \in Threads : \E k \in 2 .. Len(th[t].frames) : x = <<t, k>>
BY DEF OpenOf

StackInv == StackIsUses /\ IsFiniteSet(Open)

LEMMA StackSame ==
  ASSUME StackInv, \A t \in Threads : (2 .. Depth(t))' = 2 .. Depth(t),
         Len(initStack') = Len(initStack)
  PROVE  StackInv'
<1>1. OpenOf(thread') = OpenOf(thread) BY DEF OpenOf, Depth
<1>2. Open' = Open BY <1>1 DEF OpenOf, Open
<1> QED BY <1>2 DEF StackInv, StackIsUses

LEMMA StackGrows ==
  ASSUME StackInv, NEW t \in Threads, NEW n \in Nat, n > 1,
         Depth(t) \in Nat, Depth(t)' = n, n = Depth(t) + 1 \/ (n = 2 /\ Depth(t) = 0),
         \A s \in Threads \ {t} : (2 .. Depth(s))' = 2 .. Depth(s),
         Len(initStack') = Len(initStack) + 1
  PROVE  StackInv'
<1>1. (2 .. Depth(t))' = (2 .. Depth(t)) \union {n} /\ n \notin 2 .. Depth(t)
  OBVIOUS
<1>2. OpenOf(thread') = OpenOf(thread) \union {<<t, n>>}
  BY <1>1, OpenMembers DEF Depth
<1>3. <<t, n>> \notin OpenOf(thread) BY <1>1, OpenMembers DEF Depth
<1>4. Open = OpenOf(thread) /\ Open' = OpenOf(thread') BY DEF Open, OpenOf
<1> QED BY <1>2, <1>3, <1>4, FS_AddElement DEF StackInv, StackIsUses

LEMMA StackShrinks ==
  ASSUME StackInv, NEW t \in Threads, Depth(t) \in Nat, Depth(t) > 1,
         Depth(t)' = Depth(t) - 1,
         \A s \in Threads \ {t} : (2 .. Depth(s))' = 2 .. Depth(s),
         Len(initStack') = Len(initStack) - 1
  PROVE  StackInv'
<1>1. (2 .. Depth(t))' = (2 .. Depth(t)) \ {Depth(t)} /\ Depth(t) \in 2 .. Depth(t)
  OBVIOUS
<1>2. OpenOf(thread') = OpenOf(thread) \ {<<t, Depth(t)>>}
  <2>1. \A r \in Threads : \A k :
          k \in (2 .. Depth(r))' <=> k \in 2 .. Depth(r) /\ ~(r = t /\ k = Depth(t))
    BY <1>1
  <2>2. \A x : x \in OpenOf(thread') <=>
          \E r \in Threads : \E k \in (2 .. Depth(r))' : x = <<r, k>>
    BY OpenMembers DEF Depth
  <2>3. \A x : x \in OpenOf(thread) <=>
          \E r \in Threads : \E k \in 2 .. Depth(r) : x = <<r, k>>
    BY OpenMembers DEF Depth
  <2> QED BY <2>1, <2>2, <2>3
<1>3. <<t, Depth(t)>> \in OpenOf(thread) BY <1>1, OpenMembers DEF Depth
<1>4. Open = OpenOf(thread) /\ Open' = OpenOf(thread') BY DEF Open, OpenOf
<1> QED BY <1>2, <1>3, <1>4, FS_RemoveElement DEF StackInv, StackIsUses

\* A thread that ends has its own entries on the stack, and takes as many off.
LEMMA StackPopped ==
  ASSUME StackInv, NEW t \in Threads, Depth(t) \in Nat, Depth(t) > 0,
         initStack \in Seq(Urls), initStack' = popped(Depth(t) - 1), Depth(t)' = 0,
         \A s \in Threads \ {t} : (2 .. Depth(s))' = 2 .. Depth(s)
  PROVE  StackInv'
<1> DEFINE mine == {t} \X (2 .. Depth(t))
           n == Depth(t) - 1
<1>1. Open = OpenOf(thread) /\ Open' = OpenOf(thread') BY DEF Open, OpenOf
<1>2. (2 .. Depth(t))' = {} OBVIOUS
<1>3. mine \subseteq Open BY <1>1, OpenMembers DEF Depth
<1>4. Open' = Open \ mine
  <2>1. \A s \in Threads : (2 .. Depth(s))' = IF s = t THEN {} ELSE 2 .. Depth(s)
    BY <1>2
  <2>2. \A x : x \in OpenOf(thread') <=>
          \E s \in Threads \ {t} : \E k \in 2 .. Depth(s) : x = <<s, k>>
    BY <2>1, OpenMembers DEF Depth
  <2>3. \A x : x \in OpenOf(thread) <=>
          \E s \in Threads : \E k \in 2 .. Depth(s) : x = <<s, k>>
    BY OpenMembers DEF Depth
  <2> QED BY <1>1, <2>2, <2>3
<1>5. Cardinality(mine) = n
  <2>1. IsFiniteSet({t}) /\ Cardinality({t}) = 1 BY FS_Singleton
  <2>2. IsFiniteSet(2 .. Depth(t)) /\ Cardinality(2 .. Depth(t)) = n BY FS_Interval
  <2>3. Cardinality(mine) = Cardinality({t}) * Cardinality(2 .. Depth(t))
    BY <2>1, <2>2, FS_Product
  <2> QED BY <2>1, <2>2, <2>3
<1>6. Open \intersect mine = mine BY <1>3
<1>7. IsFiniteSet(Open') /\ Cardinality(Open') = Cardinality(Open) - n
  <2> HIDE DEF mine, n
  <2>1. /\ IsFiniteSet(Open \ mine)
        /\ Cardinality(Open \ mine) = Cardinality(Open) - Cardinality(Open \intersect mine)
    BY FS_Difference DEF StackInv
  <2> QED BY <1>4, <1>5, <1>6, <2>1
<1>8. n <= Cardinality(Open) BY <1>3, <1>5, FS_Subset DEF StackInv
<1>9. Len(initStack) \in Nat /\ Len(initStack) = Cardinality(Open)
  BY DEF StackInv, StackIsUses
<1>10. Len(initStack') = Len(initStack) - n
  <2> DEFINE m == Len(initStack) - n
  <2>1. m \in Nat /\ m <= Len(initStack) BY <1>8, <1>9
  <2>2. initStack' = SubSeq(initStack, 1, m) BY DEF popped
  <2> HIDE DEF m, n
  <2>3. Len(SubSeq(initStack, 1, m)) = m BY <2>1
  <2> QED BY <2>2, <2>3 DEF m
<1> QED BY <1>7, <1>9, <1>10 DEF StackInv, StackIsUses

LEMMA StackInit == UseInit => StackInv
<1> SUFFICES ASSUME UseInit PROVE StackInv
  OBVIOUS
<1>1. \A t \in Threads : 2 .. Len(thread[t].frames) = {}
  BY IdleFacts DEF UseInit
<1>2. Open = {} BY <1>1 DEF Open
<1>3. Len(initStack) = 0 BY DEF UseInit
<1> QED BY <1>2, <1>3, FS_EmptySet DEF StackInv, StackIsUses

LEMMA StackStep ==
  ASSUME RegistryAssumption, UseTypeOK, StackInv, [UseNext]_allVars
  PROVE  StackInv'
<1>1. UNCHANGED useVars => StackInv'
  BY DEF useVars, StackInv, StackIsUses, Open
<1>2. CASE RegistryStep BY <1>1, <1>2 DEF RegistryStep
<1>3. ASSUME NEW j \in Jobs, Cached(j), OnRulesetLoaded(job[j].url, job[j].ver)
      PROVE  StackInv'
  <2> DEFINE u == job[j].url
             n == job[j].ver
  <2>1. u \in Urls /\ n \in Version
    BY <1>3, JobFields DEF Cached, UseTypeOK, TypeOK
  <2> HIDE DEF u, n
  <2>2. OnRulesetLoaded(u, n) BY <1>3 DEF u, n
  <2>3. \A s \in Threads : SameOrReinit(s, u, n) => (2 .. Depth(s))' = 2 .. Depth(s)
    <3>1. ASSUME NEW s \in Threads, thread[s] = IdleThread, thread'[s] = Reinit(u, n)
          PROVE  (2 .. Depth(s))' = 2 .. Depth(s)
      <4>1. Depth(s) = 0 /\ Depth(s)' = 1
        BY <2>1, <3>1, IdleFacts, StartFacts DEF Depth
      <4> QED BY <4>1
    <3> QED BY <3>1 DEF SameOrReinit, Depth
  <2>4. CASE Unrefreshed(u, n) BY <2>3, <2>4, StackSame DEF Unrefreshed
  <2>5. ASSUME NEW w \in Urls, NEW t \in Threads, Refreshed(u, n, w, t) PROVE StackInv'
    <3>1. Depth(t) = 0 /\ Depth(t)' = 2
      BY <2>1, <2>5, IdleFacts, StartFacts DEF Refreshed, Depth
    <3>2. Len(initStack') = Len(initStack) + 1
      BY <2>1, <2>5 DEF Refreshed, UseTypeOK
    <3>3. \A s \in Threads \ {t} : (2 .. Depth(s))' = 2 .. Depth(s)
      BY <2>3, <2>5 DEF Refreshed
    <3> QED BY <3>1, <3>2, <3>3, StackGrows
  <2> QED BY <2>1, <2>2, <2>4, <2>5, LoadedEffect
<1>4. CASE Restart /\ RestartPico
  <2>1. \A t \in Threads : 2 .. Len(thread'[t].frames) = {}
    BY <1>4, IdleFacts DEF RestartPico
  <2>2. Open' = {} BY <2>1 DEF Open
  <2>3. Len(initStack') = 0 BY <1>4 DEF RestartPico
  <2> QED BY <2>2, <2>3, FS_EmptySet DEF StackInv, StackIsUses
<1>5. ASSUME NEW t \in Threads, UseStart(t) PROVE StackInv'
  <2>1. Depth(t) > 0 /\ Depth(t) \in Nat /\ initStack \in Seq(Urls)
    BY <1>5, UseStartEffect, Frames DEF UseTypeOK
  <2>2. CASE Refused(t)
    <3>1. Depth(t)' = 0 /\ \A s \in Threads \ {t} : Depth(s)' = Depth(s)
      BY <2>2, IdleFacts DEF Refused, Depth, UseTypeOK
    <3> QED BY <2>1, <2>2, <3>1, StackPopped DEF Refused
  <2>3. ASSUME NEW d \in Urls, Enters(t, d) PROVE StackInv'
    <3>1. Depth(t)' = Depth(t) + 1 /\ \A s \in Threads \ {t} : Depth(s)' = Depth(s)
      BY <2>3 DEF Enters, Becomes, Pushed, Depth
    <3>2. Len(initStack') = Len(initStack) + 1 BY <2>1, <2>3 DEF Enters
    <3> QED BY <2>1, <3>1, <3>2, StackGrows
  <2> QED BY <1>5, <2>2, <2>3, UseStartEffect
<1>6. ASSUME NEW t \in Threads, UseEnd(t) PROVE StackInv'
  <2>1. Depth(t) > 1 /\ Depth(t) \in Nat /\ Binds(t) BY <1>6, UseEndEffect, Frames
  <2>2. Len(Front(thread[t].frames)) = Depth(t) - 1
    BY <2>1, Frames, FrontFacts DEF Depth
  <2>3. Depth(t)' = Depth(t) - 1 /\ \A s \in Threads \ {t} : Depth(s)' = Depth(s)
    BY <2>1, <2>2 DEF Binds, Becomes, Depth
  <2>4. initStack \in Seq(Urls) /\ Len(initStack) > 0
    <3>1. <<t, Depth(t)>> \in Open
      BY <2>1, OpenMembers DEF Open, OpenOf, Depth
    <3> QED BY <3>1, FS_EmptySet, FS_CardinalityType DEF StackInv, StackIsUses, UseTypeOK
  <2>5. Len(initStack') = Len(initStack) - 1 BY <2>1, <2>4, FrontFacts DEF Binds
  <2> QED BY <2>1, <2>3, <2>5, StackShrinks
<1>7. ASSUME NEW t \in Threads, InitEnd(t) PROVE StackInv'
  <2>1. Depth(t) = 1 /\ Depth(t)' = 0 /\ \A s \in Threads \ {t} : Depth(s)' = Depth(s)
    BY <1>7, InitEndEffect, IdleFacts DEF Depth, UseTypeOK
  <2> QED BY <1>7, <2>1, StackSame DEF InitEnd
<1>8. ASSUME NEW t \in Threads, NEW u \in Urls, Install(t, u) \/ Startup(t, u)
      PROVE  StackInv'
  <2>1. Depth(t) = 0 /\ Depth(t)' = 1 /\ \A s \in Threads \ {t} : Depth(s)' = Depth(s)
    BY <1>8, IdleFacts DEF Install, Startup, Idle, Depth, UseTypeOK
  <2> QED BY <1>8, <2>1, StackSame DEF Install, Startup
<1>9. ASSUME NEW u \in Urls, Uninstall(u) PROVE StackInv'
  BY <1>9, StackSame DEF Uninstall, Depth
<1>10. CASE UNCHANGED allVars BY <1>1, <1>10 DEF allVars
<1> QED BY <1>2, <1>3, <1>4, <1>5, <1>6, <1>7, <1>8, <1>9, <1>10 DEF UseNext

\* The shared stack has one entry for every use in progress, in however many
\* initialisations, and whatever order they end in.
THEOREM StackCorrect == UseSpec => []StackIsUses
<1>1. Init /\ UseInit => StackInv BY StackInit
<1>2. UseTypeOK /\ StackInv /\ [UseNext]_allVars => StackInv'
  BY RegistryAssumption, StackStep
<1>3. StackInv => StackIsUses BY DEF StackInv
<1> QED BY <1>1, <1>2, <1>3, UseTypeCorrect, PTL DEF UseSpec

-----------------------------------------------------------------------------
(* What is bound is installed and current.                                 *)

LEMMA BusyFacts ==
  ASSUME UseTypeOK, NEW S \in SUBSET Threads, ~Busy(S)
  PROVE  \A t \in S : Depth(t) <= 1
BY Frames DEF Busy, Depth

LEMMA NoUseNoStack ==
  ASSUME UseTypeOK, StackInv, \A t \in Threads : Depth(t) <= 1
  PROVE  initStack = << >>
<1>1. \A t \in Threads : Depth(t) \in Nat BY Frames
<1>2. \A t \in Threads : 2 .. Len(thread[t].frames) = {} BY <1>1 DEF Depth
<1>3. Open = {} BY <1>2 DEF Open
<1> QED BY <1>3, FS_EmptySet DEF StackInv, StackIsUses, UseTypeOK

\* A step that starts or ends no use, and changes no binding and no cache entry.
LEMMA BindQuiet ==
  ASSUME UseTypeOK, BindInv, UNCHANGED <<bound, cache>>, inst \subseteq inst',
         disturbed => disturbed',
         \A t \in Threads : \/ thread'[t].frames = thread[t].frames
                            \/ Depth(t) \in {0, 1} /\ Depth(t)' \in {0, 1}
  PROVE  BindInv'
<1> SUFFICES ASSUME ~disturbed' PROVE BindInv'
  BY DEF BindInv
<1>1. \A t \in Threads : Depth(t) > 1 \/ Depth(t)' > 1 =>
         Depth(t)' = Depth(t) /\ thread'[t].frames = thread[t].frames
  <2>1. ASSUME NEW t \in Threads, Depth(t) > 1 \/ Depth(t)' > 1
        PROVE  Depth(t)' = Depth(t) /\ thread'[t].frames = thread[t].frames
    <3>1. CASE thread'[t].frames = thread[t].frames BY <3>1 DEF Depth
    <3>2. CASE Depth(t) \in {0, 1} /\ Depth(t)' \in {0, 1} BY <2>1, <3>2
    <3> QED BY <3>1, <3>2
  <2> QED BY <2>1
<1>2. \A u, m \in Urls, t \in Threads : Refreshes(t, u, m) => Refreshes(t, u, m)'
  BY <1>1 DEF Refreshes
<1>3. \A t \in Threads : \A k \in (2 .. Depth(t))' :
        k \in 2 .. Depth(t) /\ thread'[t].frames = thread[t].frames
  <2>1. ASSUME NEW t \in Threads, NEW k \in (2 .. Depth(t))' PROVE Depth(t)' > 1
    <3>1. thread'[t].frames = thread[t].frames \/ Depth(t)' \in {0, 1} OBVIOUS
    <3>2. thread'[t].frames = thread[t].frames => Depth(t)' = Depth(t) BY DEF Depth
    <3> QED BY <2>1, <3>1, <3>2, Frames
  <2> QED BY <1>1, <2>1
<1> QED BY <1>1, <1>2, <1>3 DEF BindInv

\* The indices of a stack with one more frame.
LEMMA OneMore ==
  ASSUME NEW n \in Nat, NEW k \in 2 .. n + 1
  PROVE  k \in 2 .. n \/ k = n + 1
OBVIOUS

LEMMA BindEnters ==
  ASSUME RegistryAssumption, UseTypeOK, BindInv, NEW t \in Threads, NEW d \in Urls, Depth(t) > 0,
         Enters(t, d), UNCHANGED <<bound, cache, inst>>
  PROVE  BindInv'
<1> SUFFICES ASSUME ~disturbed' PROVE BindInv'
  BY DEF BindInv
<1>1. ~disturbed /\ \A s \in Threads \ {t} : Depth(s) <= 1
  BY BusyFacts DEF Enters
<1>2. /\ Depth(t)' = Depth(t) + 1 /\ Depth(t) \in Nat
      /\ \A k \in 1 .. Depth(t) : /\ thread'[t].frames[k].rid = thread[t].frames[k].rid
                                  /\ thread'[t].frames[k].ver = thread[t].frames[k].ver
      /\ thread'[t].frames[Depth(t) + 1] = InitFrame(d, cache[d])
      /\ \A s \in Threads \ {t} : thread'[s] = thread[s]
  BY Frames DEF Enters, Becomes, Pushed, Depth
<1>3. InitFrame(d, cache[d]).rid = d /\ InitFrame(d, cache[d]).ver = cache[d] /\ d \in inst
  BY CacheType, FrameType DEF Enters, UseTypeOK
<1>4. \A s \in Threads \ {t} : Depth(s)' <= 1 /\ Depth(s)' \in Nat
  BY <1>1, <1>2, Frames DEF Depth
<1>5. \A k \in (2 .. Depth(t))' : /\ thread'[t].frames[k].rid \in inst
                                  /\ thread'[t].frames[k].ver = cache[thread'[t].frames[k].rid]
  <2>1. \A k \in 2 .. Depth(t) : /\ thread[t].frames[k].rid \in inst
                                 /\ thread[t].frames[k].ver = cache[thread[t].frames[k].rid]
    BY <1>1 DEF BindInv
  <2>2. \A k \in (2 .. Depth(t))' : k \in 2 .. Depth(t) \/ k = Depth(t) + 1
    <3>1. Depth(t)' = Depth(t) + 1 /\ Depth(t) \in Nat BY <1>2
    <3> SUFFICES ASSUME NEW k \in 2 .. Depth(t)' PROVE k \in 2 .. Depth(t) \/ k = Depth(t) + 1
      OBVIOUS
    <3>2. k \in 2 .. Depth(t) + 1 BY <3>1
    <3> QED BY <3>1, <3>2, OneMore
  <2> QED BY <1>2, <1>3, <2>1, <2>2
<1>6. \A u, m \in Urls, s \in Threads : Refreshes(s, u, m) => Refreshes(s, u, m)'
  <2>1. \A s \in Threads : Depth(s) \in Nat BY Frames
  <2>2. ASSUME NEW u \in Urls, NEW m \in Urls, NEW s \in Threads, Refreshes(s, u, m)
        PROVE  Refreshes(s, u, m)'
    <3>1. s = t /\ Depth(t) > 1 BY <1>1, <2>1, <2>2 DEF Refreshes
    <3>2. 1 \in 1 .. Depth(t) /\ 2 \in 1 .. Depth(t) BY <1>2, <3>1
    <3> QED BY <1>2, <2>2, <3>1, <3>2 DEF Refreshes
  <2> QED BY <2>2
<1>7. \A s \in Threads : \A k \in (2 .. Depth(s))' : s = t
  BY <1>4
<1>8. /\ \A u, m \in Urls : bound'[u][m] # NoVersion => m \in inst'
      /\ \A u, m \in Urls : \/ bound'[u][m] \in {NoVersion, cache'[m]}
                            \/ \E s \in Threads : Refreshes(s, u, m)'
  BY <1>1, <1>6 DEF BindInv
<1>9. \A r, s \in Threads : Depth(r)' > 1 /\ Depth(s)' > 1 => r = s
  BY <1>4
<1> QED BY <1>5, <1>7, <1>8, <1>9 DEF BindInv

LEMMA BindBinds ==
  ASSUME UseTypeOK, BindInv, NEW t \in Threads, Depth(t) > 1, Binds(t),
         UNCHANGED <<inst, cache, disturbed>>
  PROVE  BindInv'
<1> SUFFICES ASSUME ~disturbed PROVE BindInv'
  BY DEF BindInv
<1> DEFINE fs == thread[t].frames
           n == Depth(t)
           user == fs[n - 1].rid
           mod == fs[n].rid
<1>1. n \in Nat /\ Len(fs) = n /\ fs \in Seq(FrameState) BY Frames DEF Depth
<1>2. /\ Depth(t)' = n - 1
      /\ \A k \in 1 .. n - 1 : thread'[t].frames[k] = fs[k]
      /\ \A s \in Threads \ {t} : thread'[s] = thread[s] /\ Depth(s)' = Depth(s)
  BY <1>1, FrontFacts DEF Binds, Becomes, Depth
<1>3. user \in Urls /\ mod \in Urls
  <2>1. fs[n] \in FrameState /\ fs[n - 1] \in FrameState BY <1>1
  <2> QED BY <2>1 DEF FrameState
<1>4. mod \in inst /\ fs[n].ver = cache[mod]
  BY <1>1 DEF BindInv
<1>5. \A u, m \in Urls : bound'[u][m] = IF u = user /\ m = mod THEN cache[mod] ELSE bound[u][m]
  <2>1. bound' = [bound EXCEPT ![user][mod] = fs[n].ver] BY DEF Binds
  <2>2. bound \in [Urls -> Slot] BY DEF UseTypeOK
  <2> QED BY <1>3, <1>4, <2>1, <2>2 DEF Slot
<1>6. \A s \in Threads : Depth(s) > 1 => s = t BY DEF BindInv
<1>7. \A u, m \in Urls : bound'[u][m] # NoVersion => m \in inst
  BY <1>4, <1>5 DEF BindInv
<1>8. \A s \in Threads : \A k \in (2 .. Depth(s))' :
        k \in 2 .. Depth(s) /\ thread'[s].frames[k] = thread[s].frames[k]
  <2> SUFFICES ASSUME NEW s \in Threads, NEW k \in 2 .. Depth(s)'
               PROVE  k \in 2 .. Depth(s) /\ thread'[s].frames[k] = thread[s].frames[k]
    OBVIOUS
  <2>1. CASE s # t
    BY <1>2, <2>1
  <2>2. CASE s = t
    <3>1. n \in Nat /\ Depth(s)' = n - 1 /\ Depth(s) = n
      BY <1>1, <1>2, <2>2
    <3>2. k \in 1 .. n - 1 /\ k \in 2 .. n
      BY <3>1
    <3> QED BY <1>2, <2>2, <3>1, <3>2
  <2> QED BY <2>1, <2>2
<1>9. \A s \in Threads : \A k \in (2 .. Depth(s))' :
        /\ thread'[s].frames[k].rid \in inst
        /\ thread'[s].frames[k].ver = cache[thread'[s].frames[k].rid]
  BY <1>8 DEF BindInv
<1>10. \A s \in Threads : Depth(s)' > 1 => Depth(s) > 1
  BY <1>1, <1>2
<1>11. ASSUME NEW u \in Urls, NEW m \in Urls, bound'[u][m] \notin {NoVersion, cache[m]}
       PROVE  \E s \in Threads : Refreshes(s, u, m)'
  <2>1. ~(u = user /\ m = mod) /\ bound[u][m] \notin {NoVersion, cache[m]}
    BY <1>5, <1>11
  <2>2. Refreshes(t, u, m)
    <3>1. PICK s \in Threads : Refreshes(s, u, m) BY <2>1 DEF BindInv
    <3> QED BY <1>6, <3>1 DEF Refreshes
  <2>3. fs[1].rid = u /\ fs[2].rid = m BY <2>2 DEF Refreshes
  <2>4. n # 2 BY <2>1, <2>3
  <2>5. n - 1 > 1 BY <1>1, <2>4
  <2>6. thread'[t].frames[1] = fs[1] /\ thread'[t].frames[2] = fs[2]
    BY <1>1, <1>2, <2>5
  <2> QED BY <1>2, <2>3, <2>5, <2>6 DEF Refreshes
<1>12. \A r, s \in Threads : Depth(r)' > 1 /\ Depth(s)' > 1 => r = s
  BY <1>6, <1>10
<1> QED BY <1>7, <1>9, <1>11, <1>12 DEF BindInv

LEMMA BindLoaded ==
  ASSUME RegistryAssumption, UseTypeOK, StackInv, BindInv,
         NEW u \in Urls, NEW n \in Version, OnRulesetLoaded(u, n),
         cache' = [cache EXCEPT ![u] = n]
  PROVE  BindInv'
<1> SUFFICES ASSUME ~disturbed' PROVE BindInv'
  BY DEF BindInv
<1>1. /\ ~disturbed /\ ~Busy(Threads) /\ UNCHANGED <<inst, uninit, bound>>
      /\ \A v, w \in Users(u, n) : v = w
  BY DEF OnRulesetLoaded, Users
<1>2. \A t \in Threads : Depth(t) <= 1 /\ Depth(t) \in Nat BY <1>1, BusyFacts, Frames
<1>3. initStack = << >> BY <1>2, NoUseNoStack
<1>4. ~Contains(initStack, u) BY <1>3 DEF Contains
<1>5. \A w \in Users(u, n) : u \in inst
  BY <1>1 DEF Users, BindInv
<1>6. \A v, m \in Urls : cache'[m] = IF m = u THEN n ELSE cache[m]
  BY DEF UseTypeOK, TypeOK, Slot
<1>7. \A v, m \in Urls : bound[v][m] \in {NoVersion, cache[m]}
  BY <1>1, <1>2 DEF BindInv, Refreshes
<1>8. \A v, m \in Urls : bound'[v][m] \in {NoVersion, cache'[m]} \/ (m = u /\ v \in Users(u, n))
  BY <1>1, <1>6, <1>7 DEF Users
<1>9. \A v, m \in Urls : bound'[v][m] # NoVersion => m \in inst'
  BY <1>1 DEF BindInv
<1>10. \A t \in Threads : SameOrReinit(t, u, n) => Depth(t)' <= 1 /\ Depth(t)' \in Nat
  <2>1. ASSUME NEW t \in Threads, SameOrReinit(t, u, n)
        PROVE  Depth(t)' <= 1 /\ Depth(t)' \in Nat
    <3>1. CASE thread'[t] = thread[t]
      <4>1. Depth(t)' = Depth(t) BY <3>1 DEF Depth
      <4> QED BY <1>2, <4>1
    <3>2. CASE thread'[t] = Reinit(u, n)
      <4>1. Depth(t)' = 1 BY <3>2, StartFacts DEF Depth
      <4> QED BY <4>1
    <3> QED BY <2>1, <3>1, <3>2 DEF SameOrReinit
  <2> QED BY <2>1
<1>11. CASE Unrefreshed(u, n)
  <2>1. Users(u, n) = {} BY <1>4, <1>5, <1>11 DEF Unrefreshed
  <2>2. \A t \in Threads : Depth(t)' <= 1 /\ Depth(t)' \in Nat
    BY <1>10, <1>11 DEF Unrefreshed
  <2> QED BY <1>8, <1>9, <2>1, <2>2 DEF BindInv
<1>12. ASSUME NEW w \in Urls, NEW t \in Threads, Refreshed(u, n, w, t) PROVE BindInv'
  <2>1. /\ thread'[t] = Reuse(w, u, n) /\ w \in Users(u, n) /\ u \in inst
        /\ \A s \in Threads \ {t} : SameOrReinit(s, u, n)
    BY <1>12 DEF Refreshed
  <2>2. /\ Depth(t)' = 2 /\ thread'[t].frames[1].rid = w
        /\ thread'[t].frames[2].rid = u /\ thread'[t].frames[2].ver = n
    BY <2>1, StartFacts DEF Depth
  <2>3. \A s \in Threads \ {t} : Depth(s)' <= 1 /\ Depth(s)' \in Nat
    BY <1>10, <2>1
  <2>4. \A s \in Threads : \A k \in (2 .. Depth(s))' : s = t /\ k = 2
    BY <2>2, <2>3
  <2>5. \A s \in Threads : \A k \in (2 .. Depth(s))' :
          /\ thread'[s].frames[k].rid \in inst'
          /\ thread'[s].frames[k].ver = cache'[thread'[s].frames[k].rid]
    BY <1>1, <1>6, <2>1, <2>2, <2>4
  <2>6. \A r, s \in Threads : Depth(r)' > 1 /\ Depth(s)' > 1 => r = s
    BY <2>3
  <2>7. Refreshes(t, w, u)' BY <2>2 DEF Refreshes
  <2>8. \A v, m \in Urls : \/ bound'[v][m] \in {NoVersion, cache'[m]}
                           \/ \E s \in Threads : Refreshes(s, v, m)'
    BY <1>1, <1>8, <2>1, <2>7
  <2> QED BY <1>9, <2>5, <2>6, <2>8 DEF BindInv
<1> QED BY <1>11, <1>12, LoadedEffect

LEMMA BindInit == UseInit => BindInv
BY IdleFacts DEF UseInit, BindInv, Depth, Unbound

LEMMA BindStep ==
  ASSUME RegistryAssumption, UseTypeOK, StackInv, BindInv, [UseNext]_allVars
  PROVE  BindInv'
<1>1. UNCHANGED useVars /\ UNCHANGED cache => BindInv'
  BY BindQuiet DEF useVars
<1>2. CASE RegistryStep
  <2>1. UNCHANGED cache
    BY <1>2 DEF RegistryStep, StartLoad, Asks, StartFlush, StartInline, Continues, Attempted,
                Fetched, Compiled, Put, Fail, Publish, enter
  <2> QED BY <1>1, <1>2, <2>1 DEF RegistryStep
<1>3. ASSUME NEW j \in Jobs, Cached(j), OnRulesetLoaded(job[j].url, job[j].ver)
      PROVE  BindInv'
  <2>1. job[j].url \in Urls /\ job[j].ver \in Version
    BY <1>3, JobFields DEF Cached, UseTypeOK, TypeOK
  <2>2. cache' = [cache EXCEPT ![job[j].url] = job[j].ver] BY <1>3 DEF Cached
  <2> QED BY <1>3, <2>1, <2>2, BindLoaded
<1>4. CASE Restart /\ RestartPico
  <2>1. \A t \in Threads : Depth(t)' = 0 BY <1>4, IdleFacts DEF RestartPico, Depth
  <2>2. \A u, m \in Urls : bound'[u][m] = NoVersion BY <1>4 DEF RestartPico, Unbound
  <2> QED BY <2>1, <2>2 DEF BindInv
<1>5. ASSUME NEW t \in Threads, UseStart(t) PROVE BindInv'
  <2>1. CASE Refused(t) BY <2>1 DEF Refused, BindInv
  <2>2. ASSUME NEW d \in Urls, Enters(t, d) PROVE BindInv'
    <3>1. UNCHANGED <<bound, cache, inst>> BY <1>5 DEF UseStart, vars
    <3> QED BY <1>5, <2>2, <3>1, BindEnters, UseStartEffect
  <2> QED BY <1>5, <2>1, <2>2, UseStartEffect
<1>6. ASSUME NEW t \in Threads, UseEnd(t) PROVE BindInv'
  <2>1. UNCHANGED <<inst, cache, disturbed>> BY <1>6 DEF UseEnd, vars
  <2> QED BY <1>6, <2>1, BindBinds, UseEndEffect
<1>7. ASSUME NEW t \in Threads, InitEnd(t) PROVE BindInv'
  <2>1. /\ Depth(t) = 1 /\ thread' = [thread EXCEPT ![t] = IdleThread]
        /\ inst \subseteq inst'
    BY <1>7, InitEndEffect
  <2>2. \A s \in Threads : \/ thread'[s].frames = thread[s].frames
                           \/ Depth(s) \in {0, 1} /\ Depth(s)' \in {0, 1}
    <3>1. thread'[t] = IdleThread /\ \A s \in Threads \ {t} : thread'[s] = thread[s]
      BY <2>1 DEF UseTypeOK
    <3>2. Depth(t)' = 0 BY <3>1, IdleFacts DEF Depth
    <3> QED BY <2>1, <3>1, <3>2
  <2> QED BY <1>7, <2>1, <2>2, BindQuiet DEF InitEnd, vars
<1>8. ASSUME NEW t \in Threads, NEW u \in Urls, Install(t, u) \/ Startup(t, u)
      PROVE  BindInv'
  <2>1. \A s \in Threads : \/ thread'[s].frames = thread[s].frames
                           \/ Depth(s) \in {0, 1} /\ Depth(s)' \in {0, 1}
    <3>1. thread[t] = IdleThread /\ \A s \in Threads \ {t} : thread'[s] = thread[s]
      BY <1>8 DEF Install, Startup, Idle, UseTypeOK
    <3>2. Depth(t) = 0 /\ Depth(t)' = 1
      BY <1>8, <3>1, IdleFacts DEF Install, Startup, Depth, UseTypeOK
    <3> QED BY <3>1, <3>2
  <2> QED BY <1>8, <2>1, BindQuiet DEF Install, Startup, vars
<1>9. ASSUME NEW u \in Urls, Uninstall(u) PROVE BindInv'
  <2> SUFFICES ASSUME ~disturbed' PROVE BindInv'
    BY DEF BindInv
  <2>1. ~disturbed /\ ~Busy(Threads) /\ inst' = inst \ {u} /\ UNCHANGED <<cache, thread>>
    BY <1>9 DEF Uninstall, vars
  <2>2. \A t \in Threads : /\ Depth(t) <= 1 /\ Depth(t) \in Nat
                            /\ Depth(t)' <= 1 /\ Depth(t)' \in Nat
    BY <2>1, BusyFacts, Frames DEF Depth
  <2>3. \A v, m \in Urls : bound'[v][m] = IF v = u THEN NoVersion ELSE bound[v][m]
    BY <1>9 DEF Uninstall, Unbound, UseTypeOK
  <2>4. \A v \in Urls : bound[v][u] = NoVersion BY <1>9 DEF Uninstall, whoUses
  <2>5. \A v, m \in Urls : bound'[v][m] # NoVersion => m \in inst'
    BY <2>1, <2>3, <2>4 DEF BindInv
  <2>6. \A v, m \in Urls : bound'[v][m] \in {NoVersion, cache'[m]}
    <3>1. \A t \in Threads : ~(Depth(t) > 1) BY <2>2
    <3>2. \A v, m \in Urls : bound[v][m] \in {NoVersion, cache[m]}
      BY <2>1, <3>1 DEF BindInv, Refreshes
    <3> QED BY <2>1, <2>3, <3>2
  <2> QED BY <2>2, <2>5, <2>6 DEF BindInv
<1>10. CASE UNCHANGED allVars BY <1>1, <1>10 DEF allVars, vars
<1> QED BY <1>2, <1>3, <1>4, <1>5, <1>6, <1>7, <1>8, <1>9, <1>10 DEF UseNext

LEMMA BindCorrect == UseSpec => [](UseTypeOK /\ BindInv)
<1>1. Init /\ UseInit => UseTypeOK /\ StackInv /\ BindInv
  BY UseTypeInit, StackInit, BindInit
<1>2. UseTypeOK /\ StackInv /\ BindInv /\ [UseNext]_allVars =>
        (UseTypeOK /\ StackInv /\ BindInv)'
  BY RegistryAssumption, UseTypeStep, StackStep, BindStep
<1> QED BY <1>1, <1>2, PTL DEF UseSpec

\* A module that a ruleset of the pico is bound to is installed, unless an
\* initialisation was refused or met by another one, a load or an uninstallation.
THEOREM UsedCorrect == UseSpec => []UsedIsInstalled
<1>1. UseTypeOK /\ BindInv => UsedIsInstalled BY DEF BindInv, UsedIsInstalled, UseTypeOK
<1> QED BY <1>1, BindCorrect, PTL

\* At rest every module is bound in its cached version, under the same proviso.
THEOREM CurrentCorrect == UseSpec => []ModulesCurrent
<1>1. UseTypeOK /\ BindInv => ModulesCurrent
  BY IdleFacts DEF BindInv, ModulesCurrent, AtRest, Refreshes, Depth, UseTypeOK
<1> QED BY <1>1, BindCorrect, PTL

(***************************************************************************)
(* Schema notification: types.                                             *)
(***************************************************************************)

\* A run or registration under way is about a ruleset, with content once it compiles.
RunOK(r) ==
  /\ r.at # "idle" => r.ruleset \in Rulesets
  /\ r.at = "compiling" => r.content \in Contents
RunInv == (\A r \in Runs : RunOK(run[r])) /\ RunOK(inline)

LEMMA SchemaType ==
  ASSUME NotifyTypeOK, NEW p \in Picos, NEW c \in [Rulesets -> Contents]
  PROVE  Schema(p, c) \in Schemas
BY SchemaNotifyAssumption DEF NotifyTypeOK, Schema, Schemas, SchemaNotifyAssumption

LEMMA RunFacts ==
  /\ NoRun \in RunType /\ RunOK(NoRun) /\ NoRun.at = "idle"
  /\ \A u \in Rulesets : LET r == [at |-> "fetching", ruleset |-> u, content |-> Nothing] IN
       r \in RunType /\ RunOK(r)
  /\ \A u \in Rulesets, c \in Contents :
       LET r == [at |-> "compiling", ruleset |-> u, content |-> c] IN
       r \in RunType /\ RunOK(r)
  /\ \A r \in RunType, c \in Contents : RunOK(r) =>
       /\ [r EXCEPT !.at = "done", !.content = c] \in RunType
       /\ r.at # "idle" => RunOK([r EXCEPT !.at = "done", !.content = c])
BY DEF NoRun, RunType, RunOK

\* Where a pico's call is none there is none of its kinds.
LEMMA CallFacts ==
  /\ NoCall.op = "none"
  /\ \A c \in CallType : c.op \in {"flush", "install", "uninstall"} /\ c.ruleset \in Rulesets
BY DEF NoCall, CallType

LEMMA BeginFacts ==
  ASSUME NotifyTypeOK, NEW p \in Picos, NEW u \in Rulesets,
         NEW op \in {"flush", "install", "uninstall"}, NEW r \in Runs \union {Nothing}
  PROVE  LET c == Begin(p, op, u, r) IN
         /\ c \in CallType /\ c.op = op /\ c.ruleset = u
         /\ c.before = Schema(p, cached)
<1>1. Schema(p, cached) \in Schemas /\ cached[u] \in Contents
  BY SchemaType DEF NotifyTypeOK
<1>2. QED BY <1>1 DEF Begin, CallType

LEMMA AnsweredFacts ==
  ASSUME NotifyTypeOK, RunInv, NEW r \in Runs, NEW c \in Contents, run[r].at # "idle",
         Answered(r, c)
  PROVE  run' \in [Runs -> RunType] /\ \A s \in Runs : RunOK(run'[s])
<1> DEFINE d == [run[r] EXCEPT !.at = "done", !.content = c]
<1>1. d \in RunType /\ RunOK(d) /\ NoRun \in RunType /\ RunOK(NoRun)
  BY RunFacts DEF RunInv, NotifyTypeOK
<1> HIDE DEF d
<1>2. run' = [run EXCEPT ![r] = IF memo[run[r].ruleset] = r THEN d ELSE NoRun]
  BY DEF Answered, d
<1>3. QED BY <1>1, <1>2 DEF RunInv, NotifyTypeOK

LEMMA StartsFacts ==
  ASSUME NotifyTypeOK, RunInv, NEW r \in Runs, NEW u \in Rulesets, Starts(r, u)
  PROVE  /\ run' \in [Runs -> RunType] /\ \A s \in Runs : RunOK(run'[s])
         /\ memo' \in [Rulesets -> Runs \union {Nothing}]
<1> DEFINE d == [at |-> "fetching", ruleset |-> u, content |-> Nothing]
<1>1. d \in RunType /\ RunOK(d)
  BY RunFacts
<1> HIDE DEF d
<1>2. run' = [run EXCEPT ![r] = d] /\ memo' = [memo EXCEPT ![u] = r]
  BY DEF Starts, d
<1>3. QED BY <1>1, <1>2 DEF RunInv, NotifyTypeOK

\* The picos that a flush resumes, and which of them it tells.
SameContent(P, content) == {p \in P : call[p].old = content}
ToTell(P, content, c) ==
  {p \in P \ SameContent(P, content) : Schema(p, c) # call[p].before}

\* Who has not missed anything afterwards has been told what was to be told.
LEMMA TellFacts ==
  ASSUME NotifyTypeOK, NEW schemas, DOMAIN schemas \subseteq Picos,
         \A p \in DOMAIN schemas : schemas[p] \in Schemas, Tell(schemas)
  PROVE  /\ known' \in [Picos -> Schemas] /\ missed' \subseteq Picos
         /\ \A p \in Picos \ missed' :
              /\ known'[p] = IF p \in DOMAIN schemas THEN schemas[p] ELSE known[p]
              /\ p \in missed => p \in DOMAIN schemas
<1>1. PICK lost \in SUBSET DOMAIN schemas :
        /\ known' = [p \in Picos |->
                       IF p \in DOMAIN schemas \ lost THEN schemas[p] ELSE known[p]]
        /\ missed' = (missed \ DOMAIN schemas) \union lost
  BY DEF Tell
<1>2. QED BY <1>1 DEF NotifyTypeOK

LEMMA ResumeFacts ==
  ASSUME NotifyTypeOK, NEW P \in SUBSET Picos, NEW content,
         NEW c \in [Rulesets -> Contents], Resume(P, content, c)
  PROVE  LET C == ToTell(P, content, c) IN
         /\ known' \in [Picos -> Schemas]
         /\ \A p \in Picos \ missed' :
              /\ known'[p] = IF p \in C THEN Schema(p, c) ELSE known[p]
              /\ p \in missed => p \in C
         /\ missed' \subseteq Picos
         /\ slot' = IF \E p \in P : call[p].old = content THEN Nobody ELSE slot
         /\ call' \in [Picos -> CallType \union {NoCall}]
         /\ \A p \in Picos : call'[p] = IF p \in P THEN NoCall ELSE call[p]
<1> DEFINE C == ToTell(P, content, c)
<1>1. C \in SUBSET Picos /\ \A p \in C : Schema(p, c) \in Schemas
  BY SchemaType DEF ToTell
<1>2. Tell([p \in C |-> Schema(p, c)])
  BY DEF Resume, ToTell, SameContent
<1>3. /\ known' \in [Picos -> Schemas]
      /\ \A p \in Picos \ missed' :
           /\ known'[p] = IF p \in C THEN Schema(p, c) ELSE known[p]
           /\ p \in missed => p \in C
      /\ missed' \subseteq Picos
  <2> DEFINE s == [p \in C |-> Schema(p, c)]
  <2>1. DOMAIN s = C /\ \A p \in C : s[p] = Schema(p, c)
    OBVIOUS
  <2> HIDE DEF s
  <2>2. Tell(s) BY <1>2 DEF s
  <2>3. QED BY <1>1, <2>1, <2>2, TellFacts
<1>4. slot' = IF \E p \in P : call[p].old = content THEN Nobody ELSE slot
  BY DEF Resume
<1>5. call' = [p \in Picos |-> IF p \in P THEN NoCall ELSE call[p]]
  BY DEF Resume
<1>6. /\ call' \in [Picos -> CallType \union {NoCall}]
      /\ \A p \in Picos : call'[p] = IF p \in P THEN NoCall ELSE call[p]
  BY <1>5 DEF NotifyTypeOK
<1>7. QED BY <1>3, <1>4, <1>6

LEMMA SetFacts ==
  ASSUME NotifyTypeOK, NEW u \in Rulesets, NEW content \in Contents, NEW P \in SUBSET Picos,
         setCachedRuleset(u, content, P)
  PROVE  LET c == [cached EXCEPT ![u] = content] IN
         /\ c \in [Rulesets -> Contents] /\ cached' = c
         /\ \A v \in Rulesets : c[v] = IF v = u THEN content ELSE cached[v]
         /\ DOMAIN snapshots' = {p \in Picos : u \in uses[p]}
         /\ \A p \in DOMAIN snapshots' : snapshots'[p] = Schema(p, cached)
         /\ immediates' \in Seq(Rulesets) /\ Len(immediates') = Len(immediates) + 1
         /\ \A k \in 1 .. Len(immediates) : immediates'[k] = immediates[k]
         /\ immediates'[Len(immediates) + 1] = u
         /\ Resume(P, content, c)
         /\ own' = (slot' # Nobody /\ (own \/ (slot' \in P /\ immediates = <<>>)))
BY DEF setCachedRuleset, NotifyTypeOK

LEMMA NotifyTypeInit == NotifyInit => NotifyTypeOK /\ RunInv
<1> SUFFICES ASSUME NotifyInit PROVE NotifyTypeOK /\ RunInv
  OBVIOUS
<1>1. NoRun \in RunType /\ RunOK(NoRun) /\ Contents # {} /\ First \in Contents
      /\ SchemaOf \in [Contents -> Nat] /\ MaxCalls \in Nat /\ MaxPublished \in Nat
  BY RunFacts, SchemaNotifyAssumption DEF SchemaNotifyAssumption
<1>2. /\ served \in [Rulesets -> Contents] /\ cached \in [Rulesets -> Contents]
      /\ uses \in [Picos -> SUBSET Rulesets]
  BY <1>1 DEF NotifyInit
<1>3. \A p \in Picos : Schema(p, cached) \in Schemas
  BY <1>1, <1>2 DEF Schema, Schemas
<1>4. known \in [Picos -> Schemas]
  BY <1>3 DEF NotifyInit
<1>5. run \in [Runs -> RunType] /\ inline \in RunType /\ RunInv
  BY <1>1 DEF NotifyInit, RunInv
<1>9. memo \in [Rulesets -> Runs \union {Nothing}]
  BY DEF NotifyInit
<1>10. call \in [Picos -> CallType \union {NoCall}]
  BY DEF NotifyInit
<1>6. /\ slot \in Picos \union {Nobody} /\ own = FALSE /\ snapshots = NoSnapshots
      /\ immediates = << >> /\ telling = {} /\ missed = {}
  BY DEF NotifyInit
<1>7. count \in [calls : 0 .. MaxCalls, published : 0 .. MaxPublished]
  BY <1>1 DEF NotifyInit
<1>8. DOMAIN NoSnapshots \subseteq Picos
  BY DEF NoSnapshots
<1>11. own \in BOOLEAN
  BY <1>6
<1>12. DOMAIN snapshots \subseteq Picos /\ immediates \in Seq(Rulesets)
       /\ \A t \in telling : t.ruleset \in Rulesets /\ t.left \subseteq Picos
  BY <1>6, <1>8
<1>13. slot \in Picos \union {Nobody} /\ missed \subseteq Picos
  BY <1>6
<1>14. QED BY <1>2, <1>4, <1>5, <1>7, <1>9, <1>10, <1>11, <1>12, <1>13 DEF NotifyTypeOK

\* What a call from outside changes of the counts.
LEMMA CallsType ==
  ASSUME NotifyTypeOK, Calls
  PROVE  count' \in [calls : 0 .. MaxCalls, published : 0 .. MaxPublished]
<1>1. MaxCalls \in Nat /\ count.calls \in 0 .. MaxCalls /\ count.published \in 0 .. MaxPublished
      /\ count.calls < MaxCalls /\ count' = [count EXCEPT !.calls = @ + 1]
      /\ count = [calls |-> count.calls, published |-> count.published]
  BY SchemaNotifyAssumption DEF NotifyTypeOK, Calls, SchemaNotifyAssumption
<1>2. count' = [calls |-> count.calls + 1, published |-> count.published]
  BY <1>1
<1>3. count.calls + 1 \in 0 .. MaxCalls
  BY <1>1
<1>4. QED BY <1>1, <1>2, <1>3

\* By the groups of variables that actions change.
Counted == count' \in [calls : 0 .. MaxCalls, published : 0 .. MaxPublished]
RegistryOK ==
  /\ served \in [Rulesets -> Contents] /\ cached \in [Rulesets -> Contents]
  /\ run \in [Runs -> RunType] /\ inline \in RunType
  /\ memo \in [Rulesets -> Runs \union {Nothing}]
  /\ RunInv
PicosOK ==
  /\ uses \in [Picos -> SUBSET Rulesets] /\ known \in [Picos -> Schemas]
  /\ call \in [Picos -> CallType \union {NoCall}]
  /\ missed \subseteq Picos
SlotsOK ==
  /\ slot \in Picos \union {Nobody} /\ own \in BOOLEAN
  /\ DOMAIN snapshots \subseteq Picos /\ immediates \in Seq(Rulesets)
  /\ \A t \in telling : t.ruleset \in Rulesets /\ t.left \subseteq Picos

LEMMA Groups ==
  /\ NotifyTypeOK /\ RunInv <=>
       RegistryOK /\ PicosOK /\ SlotsOK
       /\ count \in [calls : 0 .. MaxCalls, published : 0 .. MaxPublished]
  /\ NotifyTypeOK' /\ RunInv' <=> RegistryOK' /\ PicosOK' /\ SlotsOK' /\ Counted
BY DEF NotifyTypeOK, RegistryOK, PicosOK, SlotsOK, Counted

LEMMA QuietGroups ==
  ASSUME NotifyTypeOK, RunInv
  PROVE  /\ UNCHANGED <<served, cached, run, memo, inline>> => RegistryOK'
         /\ UNCHANGED <<uses, call, known, missed>> => PicosOK'
         /\ UNCHANGED <<slot, own, snapshots, immediates, telling>> => SlotsOK'
         /\ UNCHANGED count => Counted
         /\ Calls => Counted
<1>1. RegistryOK /\ PicosOK /\ SlotsOK
  BY Groups
<1>2. UNCHANGED <<served, cached, run, memo, inline>> => RegistryOK'
  BY <1>1 DEF RegistryOK, RunInv
<1>3. UNCHANGED <<uses, call, known, missed>> => PicosOK'
  BY <1>1 DEF PicosOK
<1>4. UNCHANGED <<slot, own, snapshots, immediates, telling>> => SlotsOK'
  BY <1>1 DEF SlotsOK
<1>5. UNCHANGED count => Counted
  BY DEF Counted, NotifyTypeOK
<1>6. Calls => Counted
  BY CallsType DEF Counted
<1>7. QED BY <1>2, <1>3, <1>4, <1>5, <1>6

\* The picos go on with their calls.
LEMMA ResumeTypes ==
  ASSUME NotifyTypeOK, RunInv, NEW P \in SUBSET Picos, NEW content,
         NEW c \in [Rulesets -> Contents], Resume(P, content, c), uses' = uses
  PROVE  PicosOK' /\ slot' \in Picos \union {Nobody}
<1>1. PicosOK'
  BY ResumeFacts DEF PicosOK, NotifyTypeOK
<1>2. slot' \in Picos \union {Nobody}
  BY ResumeFacts DEF NotifyTypeOK
<1>3. QED BY <1>1, <1>2

\* The picos that wait go on after new content.
LEMMA SetTypes ==
  ASSUME NotifyTypeOK, RunInv, NEW u \in Rulesets, NEW content \in Contents,
         NEW P \in SUBSET Picos, setCachedRuleset(u, content, P), UNCHANGED <<uses, telling>>
  PROVE  PicosOK' /\ SlotsOK' /\ cached' \in [Rulesets -> Contents]
<1> DEFINE c == [cached EXCEPT ![u] = content]
<1>1. /\ c \in [Rulesets -> Contents] /\ cached' = c /\ Resume(P, content, c)
      /\ DOMAIN snapshots' \subseteq Picos /\ immediates' \in Seq(Rulesets)
      /\ own' \in BOOLEAN
  BY SetFacts
<1> HIDE DEF c
<1>2. PicosOK' /\ slot' \in Picos \union {Nobody}
  BY <1>1, ResumeTypes
<1>3. SlotsOK'
  BY <1>1, <1>2 DEF SlotsOK, NotifyTypeOK
<1>4. QED BY <1>1, <1>2, <1>3

LEMMA NotifyTypeStep ==
  ASSUME NotifyTypeOK, RunInv, [NotifyNext]_notifyVars
  PROVE  NotifyTypeOK' /\ RunInv'
<1> SUFFICES RegistryOK' /\ PicosOK' /\ SlotsOK' /\ Counted
  BY Groups
<1> USE DEF loading, slots, news, notices
<1>1. ASSUME NEW r \in Runs, FlushFetched(r)
      PROVE  RegistryOK' /\ PicosOK' /\ SlotsOK' /\ Counted
  <2> DEFINE u == run[r].ruleset
  <2>1. u \in Rulesets /\ run[r].at = "fetching" /\ run[r].at # "idle" /\ run[r] \in RunType
        /\ cached[u] \in Contents /\ served[u] \in Contents
    BY <1>1 DEF FlushFetched, RunInv, RunOK, NotifyTypeOK
  <2>2. Counted /\ UNCHANGED <<served, cached, uses, memo, inline, snapshots, immediates, telling>>
    BY <1>1, QuietGroups DEF FlushFetched
  <2>3. CASE served[u] # cached[u]
    <3> DEFINE d == [at |-> "compiling", ruleset |-> u, content |-> served[u]]
    <3>1. d \in RunType /\ RunOK(d)
      BY <2>1, RunFacts
    <3>2. run' = [run EXCEPT ![r] = d] /\ UNCHANGED <<known, missed, call, slot, own>>
      BY <1>1, <2>3 DEF FlushFetched
    <3> HIDE DEF d, u
    <3>3. RegistryOK'
      BY <2>2, <3>1, <3>2 DEF RegistryOK, RunInv, NotifyTypeOK
    <3>4. QED BY <2>2, <3>2, <3>3, QuietGroups
  <2>4. CASE served[u] = cached[u]
    <3>1. Answered(r, cached[u]) /\ Resume(Waiting(r), cached[u], cached)
          /\ own' = (own /\ slot' # Nobody)
      BY <1>1, <2>4 DEF FlushFetched
    <3>2. Waiting(r) \in SUBSET Picos
      BY DEF Waiting
    <3>3. PicosOK' /\ slot' \in Picos \union {Nobody}
      BY <2>2, <3>1, <3>2, ResumeTypes DEF NotifyTypeOK
    <3>4. RegistryOK'
      BY <2>1, <2>2, <3>1, AnsweredFacts DEF RegistryOK, RunInv, NotifyTypeOK
    <3>5. SlotsOK'
      BY <2>2, <3>1, <3>3 DEF SlotsOK, NotifyTypeOK
    <3>6. QED BY <2>2, <3>3, <3>4, <3>5
  <2>5. QED BY <2>3, <2>4
<1>2. ASSUME NEW r \in Runs, Flushed(r)
      PROVE  RegistryOK' /\ PicosOK' /\ SlotsOK' /\ Counted
  <2>1. /\ run[r].at # "idle" /\ run[r].ruleset \in Rulesets /\ run[r].content \in Contents
        /\ Waiting(r) \in SUBSET Picos
        /\ setCachedRuleset(run[r].ruleset, run[r].content, Waiting(r))
        /\ Answered(r, run[r].content)
        /\ UNCHANGED <<served, uses, memo, inline, telling, count>>
    BY <1>2 DEF Flushed, RunInv, RunOK, Waiting
  <2>2. PicosOK' /\ SlotsOK' /\ cached' \in [Rulesets -> Contents]
    BY <2>1, SetTypes
  <2>3. RegistryOK'
    BY <2>1, <2>2, AnsweredFacts DEF RegistryOK, RunInv, NotifyTypeOK
  <2>4. QED BY <2>1, <2>2, <2>3, QuietGroups
<1>3. ASSUME NEW r \in Runs, FlushFails(r)
      PROVE  RegistryOK' /\ PicosOK' /\ SlotsOK' /\ Counted
  <2>1. run' = [run EXCEPT ![r] = NoRun]
        /\ memo' = [memo EXCEPT ![run[r].ruleset] = IF @ = r THEN Nothing ELSE @]
        /\ call' = [p \in Picos |-> IF p \in Waiting(r) THEN NoCall ELSE call[p]]
        /\ UNCHANGED <<served, cached, uses, inline, slots, news, notices, count>>
    BY <1>3 DEF FlushFails
  <2>2. RegistryOK'
    BY <2>1, RunFacts DEF RegistryOK, RunInv, NotifyTypeOK
  <2>3. PicosOK'
    BY <2>1 DEF PicosOK, NotifyTypeOK
  <2>4. QED BY <2>1, <2>2, <2>3, QuietGroups
<1>4. ASSUME NEW u \in Rulesets, Forget(u)
      PROVE  RegistryOK' /\ PicosOK' /\ SlotsOK' /\ Counted
  <2>1. /\ memo' = [memo EXCEPT ![u] = Nothing]
        /\ run' = [run EXCEPT ![memo[u]] = IF @.at = "done" THEN NoRun ELSE @]
        /\ UNCHANGED <<served, cached, uses, inline, call, slots, news, notices, count>>
    BY <1>4 DEF Forget
  <2>2. RegistryOK'
    BY <2>1, RunFacts DEF RegistryOK, RunInv, NotifyTypeOK
  <2>3. QED BY <2>1, <2>2, QuietGroups
<1>5. ASSUME NEW u \in Rulesets, NEW r \in Runs, flush(r, u)
      PROVE  RegistryOK' /\ PicosOK' /\ SlotsOK' /\ Counted
  <2>1. RegistryOK'
    BY <1>5, StartsFacts DEF flush, RegistryOK, RunInv, NotifyTypeOK
  <2>2. QED BY <1>5, <2>1, QuietGroups DEF flush
<1>6. ASSUME NEW u \in Rulesets, NEW c \in Contents, registerInline(u, c)
      PROVE  RegistryOK' /\ PicosOK' /\ SlotsOK' /\ Counted
  <2>1. RegistryOK'
    BY <1>6, RunFacts DEF registerInline, RegistryOK, RunInv, NotifyTypeOK
  <2>2. QED BY <1>6, <2>1, QuietGroups DEF registerInline
<1>7. ASSUME NEW u \in Rulesets, NEW c \in Contents, Serve(u, c)
      PROVE  RegistryOK' /\ PicosOK' /\ SlotsOK' /\ Counted
  <2>1. RegistryOK'
    BY <1>7 DEF Serve, RegistryOK, RunInv, NotifyTypeOK
  <2>2. Counted
    <3>1. MaxPublished \in Nat /\ count.calls \in 0 .. MaxCalls
          /\ count.published \in 0 .. MaxPublished /\ count.published < MaxPublished
          /\ count' = [calls |-> count.calls, published |-> count.published + 1]
      BY <1>7, SchemaNotifyAssumption DEF Serve, NotifyTypeOK, SchemaNotifyAssumption
    <3>2. count.published + 1 \in 0 .. MaxPublished
      BY <3>1
    <3>3. QED BY <3>1, <3>2 DEF Counted
  <2>3. QED BY <1>7, <2>1, <2>2, QuietGroups DEF Serve
<1>8. ASSUME Registered
      PROVE  RegistryOK' /\ PicosOK' /\ SlotsOK' /\ Counted
  <2>1. /\ inline.ruleset \in Rulesets /\ inline.content \in Contents
        /\ setCachedRuleset(inline.ruleset, inline.content, {})
        /\ inline' = NoRun /\ UNCHANGED <<served, uses, run, memo, telling, count>>
    BY <1>8 DEF Registered, RunInv, RunOK
  <2>2. PicosOK' /\ SlotsOK' /\ cached' \in [Rulesets -> Contents]
    BY <2>1, SetTypes
  <2>3. RegistryOK'
    BY <2>1, <2>2, RunFacts DEF RegistryOK, RunInv, NotifyTypeOK
  <2>4. QED BY <2>1, <2>2, <2>3, QuietGroups
<1>9. ASSUME onRulesetContentUpdated
      PROVE  RegistryOK' /\ PicosOK' /\ SlotsOK' /\ Counted
  <2>1. RegistryOK' /\ Counted
    BY <1>9, QuietGroups DEF onRulesetContentUpdated
  <2>2. PicosOK'
    BY <1>9 DEF onRulesetContentUpdated, PicosOK, PassOver, NotifyTypeOK
  <2>3. immediates' \in Seq(Rulesets) /\ Head(immediates) \in Rulesets
    BY <1>9 DEF onRulesetContentUpdated, NotifyTypeOK
  <2>4. Taken.ruleset \in Rulesets /\ Taken.left \subseteq Picos
    BY <2>3 DEF Taken
  <2>5. SlotsOK'
    BY <1>9, <2>3, <2>4 DEF onRulesetContentUpdated, SlotsOK, NotifyTypeOK, NoSnapshots
  <2>6. QED BY <2>1, <2>2, <2>5
<1>10. ASSUME NEW p \in Picos, NEW u \in Rulesets, ctxFlush(p, u)
       PROVE  RegistryOK' /\ PicosOK' /\ SlotsOK' /\ Counted
  <2>1. /\ Calls /\ own' = FALSE
        /\ UNCHANGED <<served, cached, uses, inline, snapshots, news, notices>>
        /\ \/ \E r \in Runs :
                /\ Starts(r, u) /\ slot' = p
                /\ call' = [call EXCEPT ![p] = Begin(p, "flush", u, r)]
           \/ /\ slot' = p /\ UNCHANGED <<run, memo>>
              /\ call' = [call EXCEPT ![p] = Begin(p, "flush", u, memo[u])]
           \/ slot' \in {p, Nobody} /\ UNCHANGED <<call, run, memo>>
    BY <1>10 DEF ctxFlush
  <2>2. memo[u] \in Runs \union {Nothing}
    BY DEF NotifyTypeOK
  <2>3. \A r \in Runs \union {Nothing} : Begin(p, "flush", u, r) \in CallType
    BY BeginFacts
  <2>4. call' \in [Picos -> CallType \union {NoCall}]
    BY <2>1, <2>2, <2>3 DEF NotifyTypeOK
  <2>5. PicosOK'
    BY <2>1, <2>4 DEF PicosOK, NotifyTypeOK
  <2>6. RegistryOK'
    BY <2>1, StartsFacts, QuietGroups DEF RegistryOK, RunInv, NotifyTypeOK
  <2>7. SlotsOK'
    BY <2>1 DEF SlotsOK, NotifyTypeOK
  <2>8. QED BY <2>1, <2>5, <2>6, <2>7, QuietGroups
<1>11. ASSUME NEW p \in Picos, NEW u \in Rulesets, ctxInstall(p, u) \/ ctxUninstall(p, u)
       PROVE  RegistryOK' /\ PicosOK' /\ SlotsOK' /\ Counted
  <2>1. /\ Calls /\ UNCHANGED <<served, cached, uses, loading, slots, news, notices>>
        /\ \E op \in {"install", "uninstall"} :
             call' = [call EXCEPT ![p] = Begin(p, op, u, Nothing)]
    BY <1>11 DEF ctxInstall, ctxUninstall
  <2>2. \A op \in {"install", "uninstall"} : Begin(p, op, u, Nothing) \in CallType
    BY BeginFacts
  <2>3. PicosOK'
    BY <2>1, <2>2 DEF PicosOK, NotifyTypeOK
  <2>4. QED BY <2>1, <2>3, QuietGroups
<1>12. ASSUME NEW p \in Picos, Installed(p)
       PROVE  RegistryOK' /\ PicosOK' /\ SlotsOK' /\ Counted
  <2> DEFINE u == call[p].ruleset
             now == IF call[p].op = "install" THEN uses[p] \union {u} ELSE uses[p] \ {u}
             after == {<<v, SchemaOf[cached[v]]>> : v \in now}
             P == {p} \ {r \in {p} : after = call[r].before}
  <2>1. /\ call[p].op \in {"install", "uninstall"}
        /\ uses' = [uses EXCEPT ![p] = now] /\ Tell([q \in P |-> after])
        /\ call' = [call EXCEPT ![p] = NoCall]
        /\ UNCHANGED <<served, cached, loading, slots, notices, count>>
    BY <1>12 DEF Installed
  <2>2. u \in Rulesets /\ now \in SUBSET Rulesets
    BY <2>1, CallFacts DEF NotifyTypeOK
  <2>3. after \in Schemas
    BY <2>2, SchemaNotifyAssumption DEF NotifyTypeOK, Schemas, SchemaNotifyAssumption
  <2> HIDE DEF now, after, P
  <2>4. known' \in [Picos -> Schemas] /\ missed' \subseteq Picos
    <3>1. P \subseteq {p} BY DEF P
    <3>2. QED BY <2>1, <2>3, <3>1, TellFacts
  <2>5. PicosOK'
    BY <2>1, <2>2, <2>4 DEF PicosOK, NotifyTypeOK
  <2>6. QED BY <2>1, <2>5, QuietGroups
<1>13. ASSUME NEW t \in telling, NEW p \in Picos, notify(t, p)
       PROVE  RegistryOK' /\ PicosOK' /\ SlotsOK' /\ Counted
  <2>1. RegistryOK' /\ Counted
    BY <1>13, QuietGroups DEF notify
  <2>2. Schema(p, cached) \in Schemas
    BY SchemaType DEF NotifyTypeOK
  <2>3. PicosOK'
    <3>1. CASE Tell([q \in {p} |-> Schema(p, cached)])
      <4>1. known' \in [Picos -> Schemas] /\ missed' \subseteq Picos
        BY <2>2, <3>1, TellFacts
      <4>2. QED BY <1>13, <4>1 DEF notify, PicosOK, NotifyTypeOK
    <3>2. CASE UNCHANGED news
      BY <1>13, <3>2 DEF notify, news, PicosOK, NotifyTypeOK
    <3>3. QED BY <1>13, <3>1, <3>2 DEF notify
  <2>4. \A v \in telling' : v.ruleset \in Rulesets /\ v.left \subseteq Picos
    <3> DEFINE w == [t EXCEPT !.left = @ \ {p}]
    <3>1. \A v \in telling' : v \in telling \/ v = w
      BY <1>13 DEF notify
    <3>2. w.ruleset \in Rulesets /\ w.left \subseteq Picos
      BY DEF NotifyTypeOK
    <3>3. QED BY <3>1, <3>2 DEF NotifyTypeOK
  <2>5. SlotsOK'
    BY <1>13, <2>4 DEF notify, SlotsOK, NotifyTypeOK
  <2>6. QED BY <2>1, <2>3, <2>5
<1>14. ASSUME UNCHANGED notifyVars
       PROVE  RegistryOK' /\ PicosOK' /\ SlotsOK' /\ Counted
  BY <1>14, QuietGroups DEF notifyVars
<1>15. QED
  BY <1>1, <1>2, <1>3, <1>4, <1>5, <1>6, <1>7, <1>8, <1>9, <1>10, <1>11, <1>12, <1>13, <1>14
     DEF NotifyNext

(***************************************************************************)
(* Schema notification: who has not heard the news will.                   *)
(***************************************************************************)

\* p has been told of another schema than it has.
Stale(p) == known[p] # Schema(p, cached)

\* A notification under way will tell p, or one that is still to begin: only the next
\* one takes what is in the slots.
ByNotice(p) == \E t \in telling :
  p \in t.left /\ t.ruleset \in uses[p] /\ ~Same(t.before, p)
ByImmediate(p) == \E k \in 1 .. Len(immediates) :
  /\ immediates[k] \in uses[p]
  /\ k = 1 => ~Same(snapshots, p) /\ ~(own /\ slot = p)

NewsInv == \A p \in Picos \ missed : Stale(p) => ByNotice(p) \/ ByImmediate(p)

\* The notification that need not tell the pico in the slot is the next one.
OwnInv == own => slot \in Picos /\ immediates # << >>

\* While a flush has the slot and nothing new is in the cache, the schema that it began
\* with is the pico's; installs and uninstalls change something.
CallInv == \A p \in Picos :
  /\ call[p].op = "flush" /\ slot = p /\ immediates = << >> =>
       call[p].before = Schema(p, cached)
  /\ call[p].op = "install" => call[p].ruleset \notin uses[p]
  /\ call[p].op = "uninstall" => call[p].ruleset \in uses[p]
  /\ call[p].op # "none" => \A u \in Rulesets :
       u \in uses[p] <=> \E x \in call[p].before : x[1] = u

NotifyInv == NotifyTypeOK /\ RunInv /\ NewsInv /\ OwnInv /\ CallInv

LEMMA SameSchema ==
  ASSUME NotifyTypeOK, NEW p \in Picos, uses'[p] = uses[p],
         \A u \in uses[p] : cached'[u] = cached[u]
  PROVE  /\ Schema(p, cached)' = Schema(p, cached)
         /\ \A b : Same(b, p)' <=> Same(b, p)
<1>1. Schema(p, cached)' = Schema(p, cached)
  BY DEF Schema
<1>2. QED BY <1>1 DEF Same

\* What the rulesets in a schema are.
LEMMA SchemaRulesets ==
  ASSUME NEW p \in Picos, NEW u
  PROVE  u \in uses[p] <=> \E x \in Schema(p, cached) : x[1] = u
<1>1. ASSUME u \in uses[p] PROVE \E x \in Schema(p, cached) : x[1] = u
  <2>1. <<u, SchemaOf[cached[u]]>> \in Schema(p, cached)
    BY <1>1 DEF Schema
  <2>2. <<u, SchemaOf[cached[u]]>>[1] = u
    OBVIOUS
  <2>3. QED BY <2>1, <2>2
<1>2. ASSUME NEW x \in Schema(p, cached), x[1] = u PROVE u \in uses[p]
  <2>1. PICK v \in uses[p] : x = <<v, SchemaOf[cached[v]]>>
    BY <1>2 DEF Schema
  <2>2. QED BY <1>2, <2>1
<1>3. QED BY <1>1, <1>2

\* What a pico is told when its ctx:flush goes on.
LEMMA Untold ==
  ASSUME NotifyTypeOK, NEW P \in SUBSET Picos, NEW content,
         NEW c \in [Rulesets -> Contents], Resume(P, content, c), cached' = c, uses' = uses,
         NEW p \in Picos \ missed', Stale(p)'
  PROVE  /\ p \notin missed /\ known'[p] = known[p]
         /\ p \in P /\ call[p].old # content => Schema(p, c) = call[p].before
<1>1. Schema(p, cached)' = Schema(p, c)
  BY DEF Schema
<1>2. /\ known'[p] = IF p \in ToTell(P, content, c) THEN Schema(p, c) ELSE known[p]
      /\ p \in missed => p \in ToTell(P, content, c)
  BY ResumeFacts
<1>3. p \notin ToTell(P, content, c) /\ p \notin missed /\ known'[p] = known[p]
  BY <1>1, <1>2 DEF Stale
<1>4. QED BY <1>3 DEF ToTell, SameContent

LEMMA SetNews ==
  ASSUME NotifyInv, NEW u \in Rulesets, NEW content \in Contents, NEW P \in SUBSET Picos,
         \A p \in P : call[p].op = "flush", setCachedRuleset(u, content, P),
         UNCHANGED <<uses, telling>>
  PROVE  NewsInv' /\ OwnInv' /\ CallInv'
<1> DEFINE c == [cached EXCEPT ![u] = content]
           n == Len(immediates) + 1
<1>1. /\ c \in [Rulesets -> Contents] /\ cached' = c
      /\ \A v \in Rulesets : v # u => c[v] = cached[v]
      /\ DOMAIN snapshots' = {p \in Picos : u \in uses[p]}
      /\ \A p \in DOMAIN snapshots' : snapshots'[p] = Schema(p, cached)
      /\ immediates' \in Seq(Rulesets) /\ Len(immediates') = n
      /\ \A k \in 1 .. Len(immediates) : immediates'[k] = immediates[k]
      /\ immediates'[n] = u
      /\ Resume(P, content, c)
      /\ own' = (slot' # Nobody /\ (own \/ (slot' \in P /\ immediates = << >>)))
  BY SetFacts DEF NotifyInv
<1> HIDE DEF c
<1>2. /\ NotifyTypeOK /\ Len(immediates) \in Nat /\ n \in 1 .. Len(immediates')
      /\ (immediates = << >>) <=> (Len(immediates) = 0)
      /\ \A p \in Picos : p # Nobody
  <2>1. NotifyTypeOK /\ immediates \in Seq(Rulesets)
    BY DEF NotifyInv, NotifyTypeOK
  <2>2. Len(immediates) \in Nat /\ ((immediates = << >>) <=> (Len(immediates) = 0))
    BY <2>1
  <2>3. \A p \in Picos : p # Nobody
    BY SchemaNotifyAssumption DEF SchemaNotifyAssumption
  <2>4. QED BY <1>1, <2>1, <2>2, <2>3
<1>3. /\ slot' = IF \E p \in P : call[p].old = content THEN Nobody ELSE slot
      /\ \A p \in Picos : call'[p] = IF p \in P THEN NoCall ELSE call[p]
  BY <1>1, <1>2, ResumeFacts
<1>4. immediates' # << >>
  BY <1>1, <1>2
<1>5. OwnInv'
  BY <1>1, <1>2, <1>3, <1>4 DEF OwnInv, NotifyTypeOK
<1>6. CallInv'
  BY <1>3, <1>4, CallFacts DEF CallInv, NotifyInv
<1>7. ASSUME NEW p \in Picos \ missed', Stale(p)'
      PROVE  (ByNotice(p) \/ ByImmediate(p))'
  <2>1. /\ p \notin missed /\ known'[p] = known[p]
        /\ p \in P /\ call[p].old # content => Schema(p, c) = call[p].before
    <3>1. /\ c \in [Rulesets -> Contents] /\ cached' = c /\ uses' = uses
          /\ NotifyTypeOK /\ Resume(P, content, c)
      BY <1>1, <1>2
    <3>2. QED BY <1>7, <3>1, Untold
  <2>2. own' /\ slot' = p => slot = p /\ (own \/ (p \in P /\ immediates = << >>))
                             /\ \A q \in P : call[q].old # content
    BY <1>1, <1>2, <1>3
  <2>3. ASSUME Schema(p, cached)' = Schema(p, cached)
        PROVE  /\ ByNotice(p) => ByNotice(p)'
               /\ ByNotice(p) \/ ByImmediate(p)
    <3>1. \A b : Same(b, p)' <=> Same(b, p)
      BY <2>3 DEF Same
    <3>2. ByNotice(p) => ByNotice(p)'
      BY <3>1 DEF ByNotice
    <3>3. Stale(p)
      BY <1>7, <2>1, <2>3 DEF Stale
    <3>4. QED BY <2>1, <3>2, <3>3 DEF NotifyInv, NewsInv
  <2>4. CASE u \notin uses[p]
    <3>1. Schema(p, cached)' = Schema(p, cached)
      BY <1>1, <1>2, <2>4, SameSchema DEF NotifyTypeOK
    <3>2. CASE ByNotice(p)
      BY <2>3, <3>1, <3>2
    <3>3. CASE ByImmediate(p)
      <4>1. PICK k \in 1 .. Len(immediates) :
              immediates[k] \in uses[p] /\ (k = 1 => ~(own /\ slot = p))
        BY <3>3 DEF ByImmediate
      <4>2. k \in 1 .. Len(immediates') /\ immediates'[k] \in uses'[p]
        BY <1>1, <1>2, <4>1
      <4>3. ~Same(snapshots, p)'
        BY <1>1, <2>4 DEF Same
      <4>4. immediates # << >>
        BY <1>2
      <4>5. k = 1 => ~(own /\ slot = p)'
        BY <2>2, <4>1, <4>4
      <4>6. QED BY <4>2, <4>3, <4>5 DEF ByImmediate
    <3>4. QED BY <2>3, <3>1, <3>2, <3>3
  <2>5. CASE u \in uses[p] /\ immediates # << >>
    <3>1. n # 1 /\ immediates'[n] \in uses'[p] /\ n \in 1 .. Len(immediates')
      BY <1>1, <1>2, <2>5
    <3>2. QED BY <3>1 DEF ByImmediate
  <2>6. CASE u \in uses[p] /\ immediates = << >>
    <3>1. CASE Schema(p, cached)' = Schema(p, cached)
      <4>1. ~ByImmediate(p)
        BY <1>2, <2>6 DEF ByImmediate
      <4>2. QED BY <2>3, <3>1, <4>1
    <3>2. CASE Schema(p, cached)' # Schema(p, cached)
      <4>1. p \in DOMAIN snapshots' /\ snapshots'[p] = Schema(p, cached)
        BY <1>1, <2>6
      <4>2. ~Same(snapshots, p)'
        BY <3>2, <4>1 DEF Same
      <4>3. ASSUME own', slot' = p PROVE FALSE
        <5>1. slot = p /\ p \in P /\ call[p].old # content
          BY <2>2, <2>6, <4>3 DEF NotifyInv, OwnInv
        <5>2. call[p].before = Schema(p, cached)
          BY <2>6, <5>1 DEF NotifyInv, CallInv
        <5>3. Schema(p, cached)' = Schema(p, c)
          BY <1>1 DEF Schema
        <5>4. QED BY <2>1, <3>2, <5>1, <5>2, <5>3
      <4>4. immediates'[1] \in uses'[p] /\ 1 \in 1 .. Len(immediates')
        BY <1>1, <1>2, <2>6
      <4>5. QED BY <4>2, <4>3, <4>4 DEF ByImmediate
    <3>3. QED BY <3>1, <3>2
  <2>7. QED BY <2>4, <2>5, <2>6
<1>8. QED BY <1>5, <1>6, <1>7 DEF NewsInv

\* Nothing is new in the cache, and the slot is as it was or empty.
LEMMA ResumeNews ==
  ASSUME NotifyInv, NEW P \in SUBSET Picos, NEW content, Resume(P, content, cached),
         own' = (own /\ slot' # Nobody), UNCHANGED <<cached, uses, telling, immediates, snapshots>>
  PROVE  NewsInv' /\ OwnInv' /\ CallInv'
<1>1. NotifyTypeOK /\ cached \in [Rulesets -> Contents] /\ \A p \in Picos : p # Nobody
  BY SchemaNotifyAssumption DEF NotifyInv, NotifyTypeOK, SchemaNotifyAssumption
<1>2. /\ slot' \in {slot, Nobody}
      /\ \A p \in Picos : call'[p] \in {call[p], NoCall}
  BY <1>1, ResumeFacts
<1>3. OwnInv'
  BY <1>2 DEF NotifyInv, OwnInv
<1>4. \A p \in Picos : /\ Schema(p, cached)' = Schema(p, cached)
                       /\ \A b : Same(b, p)' <=> Same(b, p)
  BY <1>1, SameSchema
<1>5. CallInv'
  BY <1>1, <1>2, <1>4, CallFacts DEF NotifyInv, CallInv
<1>6. ASSUME NEW p \in Picos \ missed', Stale(p)'
      PROVE  (ByNotice(p) \/ ByImmediate(p))'
  <2>1. p \notin missed /\ known'[p] = known[p]
    BY <1>1, <1>6, Untold
  <2>2. ByNotice(p) \/ ByImmediate(p)
    BY <1>4, <1>6, <2>1 DEF NotifyInv, NewsInv, Stale
  <2>3. ByNotice(p) => ByNotice(p)'
    BY <1>4 DEF ByNotice
  <2>4. own' /\ slot' = p => own /\ slot = p
    BY <1>1, <1>2
  <2>5. ByImmediate(p) => ByImmediate(p)'
    BY <1>4, <2>4 DEF ByImmediate
  <2>6. QED BY <2>2, <2>3, <2>5
<1>7. QED BY <1>3, <1>5, <1>6 DEF NewsInv

LEMMA TakenNews ==
  ASSUME NotifyInv, onRulesetContentUpdated
  PROVE  NewsInv' /\ OwnInv' /\ CallInv'
<1>1. /\ immediates # << >> /\ immediates' = Tail(immediates)
      /\ telling' = telling \union {Taken}
      /\ missed' = missed \union
           {p \in Picos : p = slot /\ ~own /\ known[p] # Schema(p, cached)}
      /\ slot' = Nobody /\ own' = FALSE /\ snapshots' = NoSnapshots
      /\ UNCHANGED <<cached, uses, known, call>>
  BY DEF onRulesetContentUpdated, PassOver
<1>2. NotifyTypeOK /\ \A p \in Picos : p # Nobody
  BY SchemaNotifyAssumption DEF NotifyInv, SchemaNotifyAssumption
<1>3. \A p \in Picos : /\ Schema(p, cached)' = Schema(p, cached)
                       /\ \A b : Same(b, p)' <=> Same(b, p)
  BY <1>1, <1>2, SameSchema
<1>4. OwnInv'
  BY <1>1 DEF OwnInv
<1>5. CallInv'
  BY <1>1, <1>2 DEF NotifyInv, CallInv
<1>6. /\ Len(immediates) \in Nat \ {0} /\ Len(immediates') = Len(immediates) - 1
      /\ \A k \in 1 .. Len(immediates) - 1 : immediates'[k] = immediates[k + 1]
      /\ Head(immediates) = immediates[1]
  <2>1. immediates \in Seq(Rulesets)
    BY <1>2 DEF NotifyTypeOK
  <2>2. QED BY <1>1, <2>1
<1>7. ASSUME NEW p \in Picos \ missed', Stale(p)'
      PROVE  (ByNotice(p) \/ ByImmediate(p))'
  <2>1. Stale(p) /\ p \notin missed /\ (p = slot => own)
    BY <1>1, <1>3, <1>7 DEF Stale
  <2>2. ByNotice(p) \/ ByImmediate(p)
    BY <2>1 DEF NotifyInv, NewsInv
  <2>3. ByNotice(p) => ByNotice(p)'
    BY <1>1, <1>3 DEF ByNotice
  <2>4. ASSUME ByImmediate(p) PROVE (ByNotice(p) \/ ByImmediate(p))'
    <3>1. PICK k \in 1 .. Len(immediates) :
            /\ immediates[k] \in uses[p]
            /\ k = 1 => ~Same(snapshots, p) /\ ~(own /\ slot = p)
      BY <2>4 DEF ByImmediate
    <3>2. CASE k = 1
      <4>1. p # slot /\ ~Same(snapshots, p) /\ Head(immediates) \in uses[p]
        BY <1>6, <2>1, <3>1, <3>2
      <4>2. PICK t \in telling' : /\ p \in t.left /\ t.ruleset = Head(immediates)
                                   /\ t.before = snapshots
        <5>1. Taken \in telling' /\ p \in Taken.left /\ Taken.ruleset = Head(immediates)
              /\ Taken.before = snapshots
          BY <1>1, <4>1 DEF Taken
        <5>2. QED BY <5>1
      <4>3. ~Same(t.before, p)'
        BY <1>3, <4>1, <4>2
      <4>4. ByNotice(p)'
        BY <1>1, <4>1, <4>2, <4>3 DEF ByNotice
      <4>5. QED BY <4>4
    <3>3. CASE k # 1
      <4>1. k - 1 \in 1 .. Len(immediates') /\ immediates'[k - 1] = immediates[k]
        BY <1>6, <3>1, <3>3
      <4>2. ~Same(snapshots, p)'
        BY <1>1 DEF Same, NoSnapshots
      <4>3. ~(own /\ slot = p)'
        BY <1>1
      <4>4. ByImmediate(p)'
        BY <1>1, <3>1, <4>1, <4>2, <4>3 DEF ByImmediate
      <4>5. QED BY <4>4
    <3>4. QED BY <3>2, <3>3
  <2>5. QED BY <2>2, <2>3, <2>4
<1>8. QED BY <1>4, <1>5, <1>7 DEF NewsInv

LEMMA NoticeNews ==
  ASSUME NotifyInv, NEW t \in telling, NEW q \in Picos, notify(t, q)
  PROVE  NewsInv' /\ OwnInv' /\ CallInv'
<1> DEFINE w == [t EXCEPT !.left = @ \ {q}]
<1>1. /\ q \in t.left
      /\ telling' = (telling \ {t}) \union (IF t.left = {q} THEN {} ELSE {w})
      /\ UNCHANGED <<cached, uses, call, slot, own, snapshots, immediates>>
  BY DEF notify, slots
<1>2. NotifyTypeOK
  BY DEF NotifyInv
<1>3. \A p \in Picos : /\ Schema(p, cached)' = Schema(p, cached)
                       /\ \A b : Same(b, p)' <=> Same(b, p)
  BY <1>1, <1>2, SameSchema
<1>4. OwnInv' /\ CallInv'
  BY <1>1, <1>3 DEF NotifyInv, OwnInv, CallInv
<1>5. CASE t.ruleset \in uses[q] /\ ~Same(t.before, q)
  <2>1. Tell([p \in {q} |-> Schema(q, cached)])
    <3>1. Tell([p \in {q} |-> Schema(p, cached)])
      BY <1>5 DEF notify
    <3>2. [p \in {q} |-> Schema(p, cached)] = [p \in {q} |-> Schema(q, cached)]
      OBVIOUS
    <3>3. QED BY <3>1, <3>2
  <2>2. \A p \in Picos \ missed' :
          /\ known'[p] = IF p = q THEN Schema(q, cached) ELSE known[p]
          /\ p \in missed => p = q
    <3>1. Schema(q, cached) \in Schemas BY <1>2, SchemaType DEF NotifyTypeOK
    <3>2. QED BY <1>2, <2>1, <3>1, TellFacts
  <2>3. ASSUME NEW p \in Picos \ missed', Stale(p)' PROVE (ByNotice(p) \/ ByImmediate(p))'
    <3>1. p # q /\ p \notin missed /\ Stale(p)
      BY <1>3, <2>2, <2>3 DEF Stale
    <3>2. ByNotice(p) \/ ByImmediate(p)
      BY <3>1 DEF NotifyInv, NewsInv
    <3>3. ByImmediate(p) => ByImmediate(p)'
      BY <1>1, <1>3 DEF ByImmediate
    <3>4. ASSUME ByNotice(p) PROVE ByNotice(p)'
      <4>1. PICK v \in telling : p \in v.left /\ v.ruleset \in uses[p] /\ ~Same(v.before, p)
        BY <3>4 DEF ByNotice
      <4>2. CASE v # t
        BY <1>1, <1>3, <4>1, <4>2 DEF ByNotice
      <4>3. CASE v = t
        <5>1. w \in telling' /\ p \in w.left /\ w.ruleset = t.ruleset /\ w.before = t.before
          BY <1>1, <3>1, <4>1, <4>3
        <5>2. QED BY <1>1, <1>3, <4>1, <4>3, <5>1 DEF ByNotice
      <4>4. QED BY <4>2, <4>3
    <3>5. QED BY <3>2, <3>3, <3>4
  <2>4. QED BY <1>4, <2>3 DEF NewsInv
<1>6. CASE ~(t.ruleset \in uses[q] /\ ~Same(t.before, q))
  <2>1. UNCHANGED <<known, missed>>
    BY <1>6 DEF notify, news
  <2>2. ASSUME NEW p \in Picos \ missed', Stale(p)' PROVE (ByNotice(p) \/ ByImmediate(p))'
    <3>1. p \notin missed /\ Stale(p)
      BY <1>3, <2>1, <2>2 DEF Stale
    <3>2. ByNotice(p) \/ ByImmediate(p)
      BY <3>1 DEF NotifyInv, NewsInv
    <3>3. ByImmediate(p) => ByImmediate(p)'
      BY <1>1, <1>3 DEF ByImmediate
    <3>4. ASSUME ByNotice(p) PROVE ByNotice(p)'
      <4>1. PICK v \in telling : p \in v.left /\ v.ruleset \in uses[p] /\ ~Same(v.before, p)
        BY <3>4 DEF ByNotice
      <4>2. CASE v # t
        BY <1>1, <1>3, <4>1, <4>2 DEF ByNotice
      <4>3. CASE v = t
        <5>1. p # q
          BY <1>6, <4>1, <4>3
        <5>2. w \in telling' /\ p \in w.left /\ w.ruleset = t.ruleset /\ w.before = t.before
          BY <1>1, <5>1, <4>1, <4>3
        <5>3. QED BY <1>1, <1>3, <4>1, <4>3, <5>2 DEF ByNotice
      <4>4. QED BY <4>2, <4>3
    <3>5. QED BY <3>2, <3>3, <3>4
  <2>3. QED BY <1>4, <2>2 DEF NewsInv
<1>7. QED BY <1>5, <1>6

LEMMA InstalledNews ==
  ASSUME NotifyInv, NEW q \in Picos, Installed(q)
  PROVE  NewsInv' /\ OwnInv' /\ CallInv'
<1> DEFINE u == call[q].ruleset
           now == IF call[q].op = "install" THEN uses[q] \union {u} ELSE uses[q] \ {u}
           after == {<<v, SchemaOf[cached[v]]>> : v \in now}
           P == {q} \ {r \in {q} : after = call[r].before}
<1>1. /\ call[q].op \in {"install", "uninstall"}
      /\ uses' = [uses EXCEPT ![q] = now] /\ Tell([p \in P |-> after])
      /\ call' = [call EXCEPT ![q] = NoCall]
      /\ UNCHANGED <<cached, slot, own, snapshots, immediates, telling>>
  BY DEF Installed, slots, notices
<1>2. NotifyTypeOK
  BY DEF NotifyInv
<1>3. u \in Rulesets /\ (u \in now <=> u \notin uses[q])
  BY <1>1, <1>2, CallFacts DEF NotifyInv, CallInv, NotifyTypeOK
<1>4. after # call[q].before
  <2>1. u \in now <=> \E x \in after : x[1] = u
    <3>1. ASSUME u \in now PROVE \E x \in after : x[1] = u
      <4>1. <<u, SchemaOf[cached[u]]>> \in after /\ <<u, SchemaOf[cached[u]]>>[1] = u
        BY <3>1
      <4>2. QED BY <4>1
    <3>2. ASSUME NEW x \in after, x[1] = u PROVE u \in now
      <4>1. PICK v \in now : x = <<v, SchemaOf[cached[v]]>>
        BY <3>2
      <4>2. QED BY <3>2, <4>1
    <3>3. QED BY <3>1, <3>2
  <2>2. u \in uses[q] <=> \E x \in call[q].before : x[1] = u
    BY <1>1, <1>3 DEF NotifyInv, CallInv
  <2>3. QED BY <1>3, <2>1, <2>2
<1>5. P = {q}
  BY <1>4
<1>6. after = Schema(q, cached)'
  <2>1. uses'[q] = now
    BY <1>1, <1>2 DEF NotifyTypeOK
  <2>2. QED BY <1>1, <2>1 DEF Schema
<1> HIDE DEF now, after, P
<1>7. \A p \in Picos \ missed' :
        /\ known'[p] = IF p = q THEN after ELSE known[p]
        /\ p \in missed => p = q
  <2>1. after \in Schemas
    <3>1. now \in SUBSET Rulesets BY <1>2, <1>3 DEF now, NotifyTypeOK
    <3>2. QED BY <1>2, <3>1, SchemaNotifyAssumption
              DEF after, NotifyTypeOK, Schemas, SchemaNotifyAssumption
  <2>2. Tell([p \in {q} |-> after]) BY <1>1, <1>5
  <2>3. QED BY <1>2, <2>1, <2>2, TellFacts
<1>8. \A p \in Picos \ {q} : /\ uses'[p] = uses[p] /\ call'[p] = call[p]
                             /\ Schema(p, cached)' = Schema(p, cached)
                             /\ \A b : Same(b, p)' <=> Same(b, p)
  <2>1. \A p \in Picos \ {q} : uses'[p] = uses[p] /\ call'[p] = call[p]
    BY <1>1, <1>2 DEF NotifyTypeOK
  <2>2. QED BY <1>1, <1>2, <2>1, SameSchema
<1>9. OwnInv'
  BY <1>1 DEF NotifyInv, OwnInv
<1>10. CallInv'
  <2>1. call'[q].op = "none"
    BY <1>1, <1>2, CallFacts DEF NotifyTypeOK
  <2>2. QED BY <1>1, <1>8, <2>1 DEF NotifyInv, CallInv
<1>11. ASSUME NEW p \in Picos \ missed', Stale(p)' PROVE (ByNotice(p) \/ ByImmediate(p))'
  <2>1. p # q
    BY <1>6, <1>7, <1>11 DEF Stale
  <2>2. p \notin missed /\ Stale(p)
    BY <1>7, <1>8, <1>11, <2>1 DEF Stale
  <2>3. ByNotice(p) \/ ByImmediate(p)
    BY <2>2 DEF NotifyInv, NewsInv
  <2>4. ByNotice(p) => ByNotice(p)'
    BY <1>1, <1>8, <2>1 DEF ByNotice
  <2>5. ByImmediate(p) => ByImmediate(p)'
    BY <1>1, <1>8, <2>1 DEF ByImmediate
  <2>6. QED BY <2>3, <2>4, <2>5
<1>12. QED BY <1>9, <1>10, <1>11 DEF NewsInv

\* Neither rulesets nor news change; what a call begins with is what there is.
LEMMA QuietNews ==
  ASSUME NotifyInv, UNCHANGED <<cached, uses, snapshots, known, missed, immediates, telling>>,
         UNCHANGED <<slot, own>> \/ own' = FALSE
  PROVE  NewsInv' /\ OwnInv'
         /\ \A p \in Picos : /\ Schema(p, cached)' = Schema(p, cached)
                             /\ \A b : Same(b, p)' <=> Same(b, p)
<1>1. \A p \in Picos : /\ Schema(p, cached)' = Schema(p, cached)
                       /\ \A b : Same(b, p)' <=> Same(b, p)
  BY SameSchema DEF NotifyInv
<1>2. OwnInv'
  BY DEF NotifyInv, OwnInv
<1>3. ASSUME NEW p \in Picos \ missed', Stale(p)' PROVE (ByNotice(p) \/ ByImmediate(p))'
  <2>1. ByNotice(p) \/ ByImmediate(p)
    BY <1>1, <1>3 DEF NotifyInv, NewsInv, Stale
  <2>2. ByNotice(p) => ByNotice(p)'
    BY <1>1 DEF ByNotice
  <2>3. ByImmediate(p) => ByImmediate(p)'
    BY <1>1 DEF ByImmediate
  <2>4. QED BY <2>1, <2>2, <2>3
<1>4. QED BY <1>1, <1>2, <1>3 DEF NewsInv

LEMMA NotifyStep == NotifyInv /\ [NotifyNext]_notifyVars => NotifyInv'
<1> SUFFICES ASSUME NotifyInv, [NotifyNext]_notifyVars PROVE NotifyInv'
  OBVIOUS
<1> USE DEF loading, slots, news, notices
<1>1. NotifyTypeOK' /\ RunInv'
  BY NotifyTypeStep DEF NotifyInv
<1>2. NotifyTypeOK /\ RunInv /\ CallInv
  BY DEF NotifyInv
<1>3. ASSUME NEW r \in Runs, FlushFetched(r) PROVE NewsInv' /\ OwnInv' /\ CallInv'
  <2>1. CASE served[run[r].ruleset] # cached[run[r].ruleset]
    <3>1. UNCHANGED <<cached, uses, call, snapshots, known, missed, immediates, telling,
                      slot, own>>
      BY <1>3, <2>1 DEF FlushFetched
    <3>2. QED BY <1>2, <3>1, QuietNews DEF CallInv
  <2>2. CASE served[run[r].ruleset] = cached[run[r].ruleset]
    <3>1. /\ Resume(Waiting(r), cached[run[r].ruleset], cached)
          /\ own' = (own /\ slot' # Nobody)
          /\ UNCHANGED <<cached, uses, telling, immediates, snapshots>>
      BY <1>3, <2>2 DEF FlushFetched
    <3>2. Waiting(r) \in SUBSET Picos
      BY DEF Waiting
    <3>3. QED BY <3>1, <3>2, ResumeNews
  <2>3. QED BY <2>1, <2>2
<1>4. ASSUME NEW r \in Runs, Flushed(r) PROVE NewsInv' /\ OwnInv' /\ CallInv'
  <2>1. /\ run[r].ruleset \in Rulesets /\ run[r].content \in Contents
        /\ Waiting(r) \in SUBSET Picos /\ \A p \in Waiting(r) : call[p].op = "flush"
        /\ setCachedRuleset(run[r].ruleset, run[r].content, Waiting(r))
        /\ UNCHANGED <<uses, telling>>
    BY <1>2, <1>4 DEF Flushed, RunInv, RunOK, Waiting
  <2>2. QED BY <2>1, SetNews
<1>5. ASSUME NEW r \in Runs, FlushFails(r) PROVE NewsInv' /\ OwnInv' /\ CallInv'
  <2>1. /\ call' = [p \in Picos |-> IF p \in Waiting(r) THEN NoCall ELSE call[p]]
        /\ UNCHANGED <<cached, uses, snapshots, known, missed, immediates, telling, slot, own>>
    BY <1>5 DEF FlushFails
  <2>2. \A p \in Picos : call'[p] \in {call[p], NoCall}
    BY <2>1
  <2>3. QED BY <1>2, <2>1, <2>2, QuietNews, CallFacts DEF CallInv
<1>6. ASSUME \/ \E u \in Rulesets : Forget(u) \/ \E r \in Runs : flush(r, u)
             \/ \E u \in Rulesets, c \in Contents : registerInline(u, c) \/ Serve(u, c)
             \/ UNCHANGED notifyVars
      PROVE  NewsInv' /\ OwnInv' /\ CallInv'
  <2>1. UNCHANGED <<cached, uses, call, snapshots, known, missed, immediates, telling,
                    slot, own>>
    BY <1>6 DEF Forget, flush, registerInline, Serve, notifyVars
  <2>2. QED BY <1>2, <2>1, QuietNews DEF CallInv
<1>7. ASSUME Registered PROVE NewsInv' /\ OwnInv' /\ CallInv'
  <2>1. /\ inline.ruleset \in Rulesets /\ inline.content \in Contents
        /\ setCachedRuleset(inline.ruleset, inline.content, {})
        /\ UNCHANGED <<uses, telling>>
    BY <1>2, <1>7 DEF Registered, RunInv, RunOK
  <2>2. QED BY <2>1, SetNews
<1>8. ASSUME NEW p \in Picos, NEW u \in Rulesets, ctxFlush(p, u)
      PROVE  NewsInv' /\ OwnInv' /\ CallInv'
  <2>1. /\ own' = FALSE
        /\ UNCHANGED <<cached, uses, snapshots, known, missed, immediates, telling>>
        /\ \/ \E r \in Runs \union {Nothing} :
                slot' = p /\ call' = [call EXCEPT ![p] = Begin(p, "flush", u, r)]
           \/ slot' \in {p, Nobody} /\ call' = call /\ call[p].op = "none"
    BY <1>2, <1>8 DEF ctxFlush, NotifyTypeOK
  <2>2. NewsInv' /\ OwnInv'
        /\ \A q \in Picos : Schema(q, cached)' = Schema(q, cached)
    BY <2>1, QuietNews
  <2>3. \A q \in Picos : q # Nobody
    BY SchemaNotifyAssumption DEF SchemaNotifyAssumption
  <2>4. CASE slot' \in {p, Nobody} /\ call' = call /\ call[p].op = "none"
    BY <1>2, <2>1, <2>2, <2>3, <2>4 DEF CallInv
  <2>5. ASSUME NEW r \in Runs \union {Nothing}, slot' = p,
               call' = [call EXCEPT ![p] = Begin(p, "flush", u, r)]
        PROVE  CallInv'
    <3>1. /\ call'[p].op = "flush" /\ call'[p].before = Schema(p, cached)
          /\ \A q \in Picos \ {p} : call'[q] = call[q]
      BY <1>2, <2>5, BeginFacts DEF NotifyTypeOK
    <3>2. \A v \in Rulesets : v \in uses[p] <=> \E x \in Schema(p, cached) : x[1] = v
      BY SchemaRulesets
    <3>3. QED BY <1>2, <2>1, <2>2, <2>5, <3>1, <3>2 DEF CallInv
  <2>6. QED BY <2>1, <2>2, <2>4, <2>5
<1>9. ASSUME NEW p \in Picos, NEW u \in Rulesets, ctxInstall(p, u) \/ ctxUninstall(p, u)
      PROVE  NewsInv' /\ OwnInv' /\ CallInv'
  <2>1. UNCHANGED <<cached, uses, snapshots, known, missed, immediates, telling, slot, own>>
    BY <1>9 DEF ctxInstall, ctxUninstall
  <2>2. PICK op \in {"install", "uninstall"} :
          /\ call' = [call EXCEPT ![p] = Begin(p, op, u, Nothing)]
          /\ op = "install" <=> u \notin uses[p]
    BY <1>9 DEF ctxInstall, ctxUninstall
  <2>3. NewsInv' /\ OwnInv'
        /\ \A q \in Picos : Schema(q, cached)' = Schema(q, cached)
    BY <2>1, QuietNews
  <2>4. /\ call'[p].op = op /\ call'[p].ruleset = u
        /\ call'[p].before = Schema(p, cached)
        /\ \A q \in Picos \ {p} : call'[q] = call[q]
    BY <1>2, <2>2, BeginFacts DEF NotifyTypeOK
  <2>5. \A v \in Rulesets : v \in uses[p] <=> \E x \in Schema(p, cached) : x[1] = v
    BY SchemaRulesets
  <2>6. CallInv'
    BY <1>2, <2>1, <2>2, <2>3, <2>4, <2>5 DEF CallInv
  <2>7. QED BY <2>3, <2>6
<1>10. NewsInv' /\ OwnInv' /\ CallInv'
  BY <1>3, <1>4, <1>5, <1>6, <1>7, <1>8, <1>9, TakenNews, NoticeNews, InstalledNews
     DEF NotifyNext
<1>11. QED BY <1>1, <1>10 DEF NotifyInv

LEMMA NotifyCorrect == NotifySpec => []NotifyInv
<1>1. NotifyInit => NotifyInv
  <2> SUFFICES ASSUME NotifyInit PROVE NotifyInv
    OBVIOUS
  <2>1. NotifyTypeOK /\ RunInv
    BY NotifyTypeInit
  <2>2. \A p \in Picos : known[p] = Schema(p, cached) /\ call[p] = NoCall
    BY DEF NotifyInit
  <2>3. NewsInv
    BY <2>2 DEF NewsInv, Stale
  <2>4. OwnInv
    BY DEF NotifyInit, OwnInv
  <2>5. CallInv
    BY <2>2, CallFacts DEF CallInv
  <2>6. QED BY <2>1, <2>3, <2>4, <2>5 DEF NotifyInv
<1>2. QED BY <1>1, NotifyStep, PTL DEF NotifySpec

\* Every reachable state of flushes, calls, slots and notifications is well typed.
THEOREM NotifyTypeCorrect == NotifySpec => []NotifyTypeOK
<1>1. NotifyInv => NotifyTypeOK BY DEF NotifyInv
<1>2. QED BY <1>1, NotifyCorrect, PTL

\* When nothing is under way, every pico has been told of the schema it has, whatever
\* flushes, installs and notifications overlapped, but for a pico that was in the slot
\* at the notification of another flush, or that the event was not delivered to, and
\* has not been told anything since.
THEOREM ToldCorrect == NotifySpec => []EveryoneIsTold
<1>1. NotifyInv => EveryoneIsTold
  <2> SUFFICES ASSUME NotifyInv, AllDone, NEW p \in Picos \ missed
               PROVE  known[p] = Schema(p, cached)
    BY DEF EveryoneIsTold
  <2>1. ~ByNotice(p) /\ ~ByImmediate(p)
    BY DEF AllDone, ByNotice, ByImmediate
  <2>2. QED BY <2>1 DEF NotifyInv, NewsInv, Stale
<1>2. QED BY <1>1, NotifyCorrect, PTL
=============================================================================
