----------------------------- MODULE SchemaNotify -----------------------------
(***************************************************************************)
(* Who is told that its schema has changed (pico-engine-core): a pico's     *)
(* schema follows from the rulesets it has installed and their versions in  *)
(* the registry's cache.  ctx:install, ctx:uninstall and ctx:flush tell the *)
(* pico that calls them; new content in the cache is told to all other      *)
(* picos that use it, by a notification that runs a turn of the event loop  *)
(* later and takes its data from two slots of the engine.                   *)
(***************************************************************************)
EXTENDS Naturals, Sequences, FiniteSets

CONSTANTS
  Picos, Rulesets,
  Contents,   \* versions of a ruleset
  First,      \* the version of each to begin with
  SchemaOf,   \* what a version says about events and queries
  Nobody, Nothing,
  Runs,       \* bound: the flushes that may be under way at once
  MaxCalls, MaxPublished  \* bounds: calls of the picos and others, new versions

ASSUME SchemaNotifyAssumption ==
  /\ Nobody \notin Picos /\ Nothing \notin Contents \union Runs
  /\ First \in Contents /\ SchemaOf \in [Contents -> Nat]
  /\ MaxCalls \in Nat /\ MaxPublished \in Nat

VARIABLES
  served,       \* content at each ruleset's URL
  cached,       \* content of each ruleset in the registry's cache
  uses,         \* the rulesets that each pico has installed
  known,        \* each pico's schema when it was last told
  run,          \* the flushes under way, and those whose answer is remembered
  memo,         \* the run that a call for each URL gets, 100 ms from the first call
  inline,       \* registerInline under way
  call,         \* the ctx action under way in each pico
  slot,         \* ctxFlushPicoId
  snapshots,    \* flushSchemaSnapshots
  immediates,   \* setImmediate callbacks of the registry, by ruleset
  telling,      \* notifications under way
  own,          \* history: the next notification is of the flush that took the slot
  missed,       \* history: picos that missed the news, passed over by a notification
                \* of others or not reached, and have not been told anything since
  count         \* calls and versions so far

loading == <<run, memo, inline>>
slots == <<slot, own, snapshots>>
news == <<known, missed>>
notices == <<immediates, telling>>
notifyVars == <<served, cached, uses, call, loading, slots, news, notices, count>>

NoCall == [op |-> "none"]
NoRun == [at |-> "idle", ruleset |-> Nothing, content |-> Nothing]
NoSnapshots == [p \in {} |-> {}]

\* buildPicoSchema, with the cache c.
Schema(p, c) == {<<u, SchemaOf[c[u]]>> : u \in uses[p]}

\* ruleset_set_changed comes to the picos that have a new schema in `schemas`, but
\* for those with no channel that allows it and those to which its delivery throws:
\* both are logged, and the caller goes on.
Tell(schemas) ==
  \E lost \in SUBSET DOMAIN schemas :
    /\ known' = [p \in Picos |->
                   IF p \in DOMAIN schemas \ lost THEN schemas[p] ELSE known[p]]
    /\ missed' = (missed \ DOMAIN schemas) \union lost

Calls == count.calls < MaxCalls /\ count' = [count EXCEPT !.calls = @ + 1]

-----------------------------------------------------------------------------
(* The registry.                                                           *)

Waiting(r) == {p \in Picos : call[p].op = "flush" /\ call[p].run = r}

\* ctx:flush goes on in the picos that wait for it, with the cache as it is now.
Resume(P, content, c) ==
  LET unchanged == {p \in P : call[p].old = content}
      changed == {p \in P \ unchanged : Schema(p, c) # call[p].before} IN
  /\ slot' = IF unchanged = {} THEN slot ELSE Nobody
  /\ Tell([p \in changed |-> Schema(p, c)])
  /\ call' = [p \in Picos |-> IF p \in P THEN NoCall ELSE call[p]]

\* snapshotPicoSchemasForUrl, setCachedRuleset and what goes on before any other
\* callback of the event loop.
setCachedRuleset(u, content, callers) ==
  LET c == [cached EXCEPT ![u] = content] IN
  /\ snapshots' = [p \in {q \in Picos : u \in uses[q]} |-> Schema(p, cached)]
  /\ cached' = c
  /\ immediates' = Append(immediates, u)
  /\ Resume(callers, content, c)
  /\ own' = (slot' # Nobody /\ (own \/ (slot' \in callers /\ immediates = <<>>)))

\* pMemoize: a call for u starts the run r, unless it gets one that is remembered.
Starts(r, u) ==
  /\ memo[u] = Nothing /\ run[r].at = "idle"
  /\ run' = [run EXCEPT ![r] = [at |-> "fetching", ruleset |-> u, content |-> Nothing]]
  /\ memo' = [memo EXCEPT ![u] = r]

\* The run has answered; the answer stays while it is remembered.
Answered(r, content) ==
  run' = [run EXCEPT ![r] =
    IF memo[@.ruleset] = r THEN [@ EXCEPT !.at = "done", !.content = content] ELSE NoRun]

flush(r, u) ==  \* the engine's start-up, an import, or a load that finds nothing saved
  /\ Calls
  /\ Starts(r, u)
  /\ UNCHANGED <<served, cached, uses, inline, call, slots, news, notices>>

\* flushBase after fetchKrl: the same content needs nothing else.
FlushFetched(r) ==
  LET u == run[r].ruleset IN
  /\ run[r].at = "fetching"
  /\ \/ /\ served[u] # cached[u]
        /\ run' = [run EXCEPT ![r] =
                     [at |-> "compiling", ruleset |-> u, content |-> served[u]]]
        /\ UNCHANGED <<news, call, slot, own>>
     \/ /\ served[u] = cached[u]
        /\ Answered(r, cached[u])
        /\ Resume(Waiting(r), cached[u], cached)
        /\ own' = (own /\ slot' # Nobody)
  /\ UNCHANGED <<served, cached, uses, memo, inline, snapshots, notices, count>>

\* flushBase after save.
Flushed(r) ==
  /\ run[r].at = "compiling"
  /\ setCachedRuleset(run[r].ruleset, run[r].content, Waiting(r))
  /\ Answered(r, run[r].content)
  /\ UNCHANGED <<served, uses, memo, inline, telling, count>>

\* fetchKrl, compileAndLoad, the validation or save throws: so does ctx:flush.
FlushFails(r) ==
  /\ run[r].at \in {"fetching", "compiling"}
  /\ run' = [run EXCEPT ![r] = NoRun]
  /\ memo' = [memo EXCEPT ![run[r].ruleset] = IF @ = r THEN Nothing ELSE @]
  /\ call' = [p \in Picos |-> IF p \in Waiting(r) THEN NoCall ELSE call[p]]
  /\ UNCHANGED <<served, cached, uses, inline, slots, news, notices, count>>

Forget(u) ==  \* pMemoize, maxAge
  /\ memo[u] # Nothing
  /\ memo' = [memo EXCEPT ![u] = Nothing]
  /\ run' = [run EXCEPT ![memo[u]] = IF @.at = "done" THEN NoRun ELSE @]
  /\ UNCHANGED <<served, cached, uses, inline, call, slots, news, notices, count>>

registerInline(u, content) ==
  /\ Calls
  /\ inline.at = "idle" /\ content # cached[u]
  /\ inline' = [at |-> "compiling", ruleset |-> u, content |-> content]
  /\ UNCHANGED <<served, cached, uses, run, memo, call, slots, news, notices>>

Registered ==
  /\ inline.at = "compiling"
  /\ setCachedRuleset(inline.ruleset, inline.content, {})
  /\ inline' = NoRun
  /\ UNCHANGED <<served, uses, run, memo, telling, count>>

Serve(u, content) ==
  /\ count.published < MaxPublished /\ content # served[u]
  /\ served' = [served EXCEPT ![u] = content]
  /\ count' = [count EXCEPT !.published = @ + 1]
  /\ UNCHANGED <<cached, uses, loading, call, slots, news, notices>>

-----------------------------------------------------------------------------
(* The ctx actions of a pico, in its own transactions.                     *)

Begin(p, op, u, r) ==
  [op |-> op, ruleset |-> u, run |-> r, before |-> Schema(p, cached), old |-> cached[u]]

ctxFlush(p, u) ==
  /\ Calls
  /\ call[p].op = "none"
  /\ own' = FALSE
  /\ \/ \E r \in Runs :
           /\ Starts(r, u)
           /\ slot' = p
           /\ call' = [call EXCEPT ![p] = Begin(p, "flush", u, r)]
     \/ /\ memo[u] # Nothing /\ run[memo[u]].at # "done"
        /\ slot' = p
        /\ call' = [call EXCEPT ![p] = Begin(p, "flush", u, memo[u])]
        /\ UNCHANGED <<run, memo>>
     \/ /\ memo[u] # Nothing /\ run[memo[u]].at = "done"  \* answered at once
        /\ slot' = IF run[memo[u]].content = cached[u] THEN Nobody ELSE p
        /\ UNCHANGED <<call, run, memo>>
  /\ UNCHANGED <<served, cached, uses, inline, snapshots, news, notices>>

ctxInstall(p, u) ==
  /\ Calls
  /\ call[p].op = "none" /\ u \notin uses[p]
  /\ call' = [call EXCEPT ![p] = Begin(p, "install", u, Nothing)]
  /\ UNCHANGED <<served, cached, uses, loading, slots, news, notices>>

ctxUninstall(p, u) ==
  /\ Calls
  /\ call[p].op = "none" /\ u \in uses[p]
  /\ call' = [call EXCEPT ![p] = Begin(p, "uninstall", u, Nothing)]
  /\ UNCHANGED <<served, cached, uses, loading, slots, news, notices>>

\* The pico has or has not the ruleset now, and is told if that changes its schema.
Installed(p) ==
  LET u == call[p].ruleset
      now == IF call[p].op = "install" THEN uses[p] \union {u} ELSE uses[p] \ {u}
      after == {<<v, SchemaOf[cached[v]]>> : v \in now} IN
  /\ call[p].op \in {"install", "uninstall"}
  /\ uses' = [uses EXCEPT ![p] = now]
  /\ Tell([q \in {p} \ {r \in {p} : after = call[r].before} |-> after])
  /\ call' = [call EXCEPT ![p] = NoCall]
  /\ UNCHANGED <<served, cached, loading, slots, notices, count>>

-----------------------------------------------------------------------------
(* Telling the others.                                                     *)

\* The pico in the slot is kept from news that it is not told otherwise.
PassOver ==
  missed' = missed \union
    {p \in Picos : p = slot /\ ~own /\ known[p] # Schema(p, cached)}

Taken == [ruleset |-> Head(immediates), before |-> snapshots, left |-> Picos \ {slot}]

keepsSnapshots ==  \* mutant: the snapshots stay for the next one
  /\ immediates # <<>>
  /\ immediates' = Tail(immediates)
  /\ telling' = telling \union {Taken}
  /\ PassOver
  /\ slot' = Nobody /\ own' = FALSE
  /\ UNCHANGED <<served, cached, uses, known, loading, call, count, snapshots>>

\* onRulesetContentUpdated takes what is in the slots, and empties them.
onRulesetContentUpdated ==
  /\ immediates # <<>>
  /\ immediates' = Tail(immediates)
  /\ telling' = telling \union {Taken}
  /\ PassOver
  /\ slot' = Nobody /\ own' = FALSE
  /\ snapshots' = NoSnapshots
  /\ UNCHANGED <<served, cached, uses, known, loading, call, count>>

\* What p's schema was before is what it is: no picoSchemaChanged.
Same(before, p) == p \in DOMAIN before /\ before[p] = Schema(p, cached)

\* The loop of notifyRulesetSetChangedAfterFlush, pico by pico.
notify(t, p) ==
  LET rest == IF t.left = {p} THEN {} ELSE {[t EXCEPT !.left = @ \ {p}]} IN
  /\ p \in t.left
  /\ telling' = (telling \ {t}) \union rest
  /\ IF t.ruleset \in uses[p] /\ ~Same(t.before, p)
       THEN Tell([q \in {p} |-> Schema(p, cached)])
       ELSE UNCHANGED news
  /\ UNCHANGED <<served, cached, uses, loading, call, slots, immediates, count>>

-----------------------------------------------------------------------------
NotifyInit ==
  /\ served = [u \in Rulesets |-> First] /\ cached = served
  /\ uses \in [Picos -> SUBSET Rulesets]
  /\ known = [p \in Picos |-> Schema(p, cached)]
  /\ run = [r \in Runs |-> NoRun] /\ inline = NoRun
  /\ memo = [u \in Rulesets |-> Nothing]
  /\ call = [p \in Picos |-> NoCall]
  /\ slot = Nobody /\ snapshots = NoSnapshots /\ own = FALSE
  /\ immediates = <<>> /\ telling = {} /\ missed = {}
  /\ count = [calls |-> 0, published |-> 0]

NotifyNext ==
  \/ \E r \in Runs : FlushFetched(r) \/ Flushed(r) \/ FlushFails(r)
  \/ \E u \in Rulesets : Forget(u) \/ \E r \in Runs : flush(r, u)
  \/ \E u \in Rulesets, c \in Contents : registerInline(u, c) \/ Serve(u, c)
  \/ Registered \/ onRulesetContentUpdated
  \/ \E p \in Picos, u \in Rulesets : ctxFlush(p, u) \/ ctxInstall(p, u) \/ ctxUninstall(p, u)
  \/ \E p \in Picos : Installed(p)
  \/ \E t \in telling : \E p \in Picos : notify(t, p)

NotifySpec == NotifyInit /\ [][NotifyNext]_notifyVars

-----------------------------------------------------------------------------
Schemas == SUBSET (Rulesets \X Nat)
RunType == [at : {"idle", "fetching", "compiling", "done"},
            ruleset : Rulesets \union {Nothing}, content : Contents \union {Nothing}]
CallType == [op : {"flush", "install", "uninstall"}, ruleset : Rulesets,
             run : Runs \union {Nothing}, before : Schemas, old : Contents]

NotifyTypeOK ==
  /\ served \in [Rulesets -> Contents] /\ cached \in [Rulesets -> Contents]
  /\ uses \in [Picos -> SUBSET Rulesets] /\ known \in [Picos -> Schemas]
  /\ run \in [Runs -> RunType] /\ inline \in RunType
  /\ memo \in [Rulesets -> Runs \union {Nothing}]
  /\ call \in [Picos -> CallType \union {NoCall}]
  /\ slot \in Picos \union {Nobody} /\ own \in BOOLEAN
  /\ DOMAIN snapshots \subseteq Picos /\ immediates \in Seq(Rulesets)
  /\ \A t \in telling : t.ruleset \in Rulesets /\ t.left \subseteq Picos
  /\ missed \subseteq Picos
  /\ count \in [calls : 0 .. MaxCalls, published : 0 .. MaxPublished]

AllDone ==
  /\ \A r \in Runs : run[r].at \in {"idle", "done"}
  /\ inline.at = "idle" /\ immediates = <<>> /\ telling = {}
  /\ \A p \in Picos : call[p].op = "none"

\* When nothing is under way every pico has been told of the schema it has, although
\* notifications may run with each other's snapshots.  Two kinds of picos may miss
\* a change, until they are next told something: one that flushes rulesets itself
\* and was in the slot when the notification of another flush ran, and one
\* that ruleset_set_changed was not delivered to (schemaNotify.ts:87-111, 127-134).
EveryoneIsTold ==
  AllDone => \A p \in Picos \ missed : known[p] = Schema(p, cached)
=============================================================================
