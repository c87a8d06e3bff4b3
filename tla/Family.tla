------------------------------- MODULE Family -------------------------------
(***************************************************************************)
(* Families of picos: io.picolabs.wrangler creates and deletes a pico's    *)
(* children, io.picolabs.pico-engine-ui keeps the channels through which   *)
(* the developer UI draws parent and child.  Every pico runs one           *)
(* transaction at a time from its own queue.  A transaction that asks      *)
(* another pico (ctx:query, ctx:eventQuery) waits in that pico's queue;    *)
(* one that sends (ctx:event, event:send) does not wait.  So a parent may  *)
(* ask its children at any time and a child tells its parent by events     *)
(* only (wrangler's header): a wait that goes up would meet one that       *)
(* comes down.                                                             *)
(*                                                                         *)
(* Abstracted: names, colours and positions (only whether a position was   *)
(* ever set), policies and ceilings, discovery channels, the two rulesets  *)
(* a child installs, and the two calls per child of children().  The       *)
(* assignments of one rule are saved together.  Deleting a pico drops its  *)
(* queue and the transaction it is in, with those of its descendants       *)
(* (pico-framework, external).                                             *)
(***************************************************************************)
EXTENDS Naturals, Sequences

CONSTANTS Picos,        \* every pico that ever exists
          FirstRoot,    \* the engine's first root, the one told engine:started
          NoPico,
          Calls,        \* the requests that come from outside
          MaxCalls,     \* how often each of them
          MaxCrashes    \* how often the engine crashes and starts again

ASSUME FamilyAssumption ==
  /\ FirstRoot \in Picos /\ NoPico \notin Picos
  /\ Calls \subseteq {"new_child_request", "child_deletion_request", "del",
                      "children", "started", "ready_for_deletion"}
  /\ MaxCalls \in [Calls -> Nat] /\ MaxCrashes \in Nat

VARIABLES
  parent,     \* ctx:parent of every pico that was created
  live,       \* the picos that exist
  uiChannel,  \* the picos that have their engine,ui channel
  known,      \* keys of ent:child_ui_ecis whose value is a channel
  parentUi,   \* the picos with ent:parent_ui_eci
  placed,     \* the picos with ent:x and ent:y
  wrangler,   \* ent:id, ent:name and ent:parent_eci: nobody's, a root's, a child's
  queue, tx,  \* each pico's waiting messages and its current transaction
  told,       \* children whose wrangler:child_initialized their parent handled
  leaving,    \* children whose request to be deleted is on its way
  cut,        \* children that a crash met before they were told of
  found,      \* children the last start found without a known UI channel
  calls, crashes

persisted == <<parent, live, uiChannel, known, parentUi, placed, wrangler>>
history == <<told, leaving, cut, found>>
familyVars == <<persisted, queue, tx, history, calls, crashes>>

Message(name, of, from) == [name |-> name, of |-> of, from |-> from]
Idle == [step |-> "idle", of |-> NoPico, todo |-> {}, waits |-> FALSE]
Running(step, of, todo) == [Idle EXCEPT !.step = step, !.of = of, !.todo = todo]
Waiting(step, of, todo) == [Running(step, of, todo) EXCEPT !.waits = TRUE]

Used == {p \in Picos : parent[p] # NoPico} \cup {FirstRoot}
Children(p) == {c \in live : parent[c] = p}
\* p and all below it: every set that has p and, with each pico, its children.
Subtree(p) ==
  {q \in live : \A family \in SUBSET live :
     p \in family /\ (\A r \in family : Children(r) \subseteq family) => q \in family}

\* parentUiEci = uiECI() in a box event: the sender, if it has a UI channel.
UiOf(p) == IF p \in uiChannel THEN p ELSE NoPico

Put(q, p, m) == IF p \in live THEN [q EXCEPT ![p] = Append(@, m)] ELSE q
Popped(p) == [queue EXCEPT ![p] = Tail(@)]
Answered(p) == IF p \in Picos THEN [tx EXCEPT ![p].waits = FALSE] ELSE tx

\* The head of p's queue is a `name` and p may begin it.
Begins(p, name) ==
  /\ p \in live /\ tx[p] = Idle
  /\ queue[p] # <<>> /\ Head(queue[p]).name = name
\* p's transaction is at `step` and waits for nobody.
At(p, step) == p \in live /\ tx[p].step = step /\ ~tx[p].waits

FamilyInit ==
  /\ parent = [p \in Picos |-> NoPico]
  /\ live = {FirstRoot} /\ uiChannel = {FirstRoot}
  /\ known = [p \in Picos |-> {}]
  /\ parentUi = {} /\ placed = {}
  /\ wrangler = [p \in Picos |-> IF p = FirstRoot THEN "root" ELSE "none"]
  /\ queue = [p \in Picos |-> <<>>]
  /\ tx = [p \in Picos |-> Idle]
  /\ told = {} /\ leaving = {} /\ cut = {} /\ found = {}
  /\ calls = [name \in Calls |-> 0] /\ crashes = 0

-----------------------------------------------------------------------------
(* Creating a child: one transaction of the parent, four of the child.     *)

\* bootstrapNewChild: ctx:newPico makes the pico, then engine_ui:setup is asked
\* of it.  Identifiers are never used again, and which comes next tells nothing.
CreateChild(p) ==
  /\ Begins(p, "new_child_request") /\ Picos # Used
  /\ LET c == CHOOSE fresh \in Picos \ Used : TRUE
     IN  /\ parent' = [parent EXCEPT ![c] = p]
         /\ live' = live \cup {c}
         /\ queue' = [Popped(p) EXCEPT ![c] = <<Message("setup", NoPico, p)>>]
         /\ tx' = [tx EXCEPT ![p] = Waiting("bootstrap", c, {})]
  /\ UNCHANGED <<uiChannel, known, parentUi, placed, wrangler, history, calls, crashes>>

\* A ruleset of the new pico cannot be loaded, or its ceiling is too wide.
CreateChildFails(p) ==
  /\ Begins(p, "new_child_request")
  /\ queue' = Popped(p)
  /\ UNCHANGED <<persisted, tx, history, calls, crashes>>

\* engine_ui:setup runs before wrangler:pico_created: a child is first taken
\* for a root (pico_root_created).  The query that comes with it answers uiECI.
Setup(c) ==
  /\ Begins(c, "setup")
  /\ uiChannel' = uiChannel \cup {c}
  /\ wrangler' = [wrangler EXCEPT ![c] = IF @ = "none" THEN "root" ELSE @]
  /\ queue' = Popped(c)
  /\ tx' = Answered(Head(queue[c]).from)
  /\ UNCHANGED <<parent, live, known, parentUi, placed, history, calls, crashes>>

Bootstrap(p) ==
  /\ At(p, "bootstrap")
  /\ LET c == tx[p].of
     IN  /\ queue' = Put(Put(queue, c, Message("pico_created", NoPico, p)),
                         c, Message("box", NoPico, UiOf(p)))
         /\ tx' = [tx EXCEPT ![p] = Running("remember", c, {})]
  /\ UNCHANGED <<persisted, history, calls, crashes>>

\* remember_child_ui_eci, on the new_child_created that createChild raises.
RememberChild(p) ==
  /\ At(p, "remember")
  /\ LET c == tx[p].of
     IN  /\ queue' = Put(queue, c, Message("layout", NoPico, UiOf(p)))
         /\ known' = [known EXCEPT ![p] = @ \cup {c}]
  /\ tx' = [tx EXCEPT ![p] = Idle]
  /\ UNCHANGED <<parent, live, uiChannel, parentUi, placed, wrangler, history,
                 calls, crashes>>

sendsBeforeInit(c) ==  \* mutant: child_initialized is sent before ent:parent_eci is set
  /\ Begins(c, "pico_created")
  /\ wrangler' = [wrangler EXCEPT ![c] = "child"]
  /\ queue' = IF wrangler[c] = "child"
                THEN Put(Popped(c), parent[c], Message("child_initialized", c, NoPico))
                ELSE Popped(c)
  /\ UNCHANGED <<parent, live, uiChannel, known, parentUi, placed, tx, history,
                 calls, crashes>>

\* initialize_child_after_creation, and with the pico_initialized it raises
\* finish_child_initialization.
InitializeChild(c) ==
  /\ Begins(c, "pico_created")
  /\ wrangler' = [wrangler EXCEPT ![c] = "child"]
  /\ queue' = Put(Popped(c), parent[c], Message("child_initialized", c, NoPico))
  /\ UNCHANGED <<parent, live, uiChannel, known, parentUi, placed, tx, history,
                 calls, crashes>>

\* box with a position (layout) or without one.
Box(c) ==
  \E name \in {"box", "layout"} :
    /\ Begins(c, name)
    /\ parentUi' = IF Head(queue[c]).from = NoPico THEN parentUi ELSE parentUi \cup {c}
    /\ placed' = IF name = "layout" THEN placed \cup {c} ELSE placed
    /\ queue' = Popped(c)
    /\ UNCHANGED <<parent, live, uiChannel, known, wrangler, tx, history, calls, crashes>>

ChildInitialized(p) ==
  /\ Begins(p, "child_initialized")
  /\ told' = told \cup {Head(queue[p]).of}
  /\ queue' = Popped(p)
  /\ UNCHANGED <<persisted, tx, leaving, cut, found, calls, crashes>>

-----------------------------------------------------------------------------
(* Deleting a child.                                                       *)

\* deleteOneChild takes any child by its family channel; the UI's del looks it
\* up among the children by its UI channel.  ctx:delPico fails on anyone else.
Deletes(p, m) ==
  m.name = "child_deletion_request" \/ (m.name = "del" /\ m.of \in known[p])

DeleteChild(p) ==
  \E name \in {"child_deletion_request", "del"} :
    /\ Begins(p, name)
    /\ LET m == Head(queue[p])
           gone == IF m.of \in Children(p) /\ Deletes(p, m) THEN Subtree(m.of) ELSE {}
       IN  /\ live' = live \ gone
           /\ leaving' = leaving \ gone
           /\ queue' = [q \in Picos |-> IF q \in gone THEN <<>> ELSE Popped(p)[q]]
           /\ tx' = [q \in Picos |->
                       CASE q = p /\ gone # {} -> Running("forget", m.of, {})
                         [] q \in gone -> Idle
                         [] OTHER -> tx[q]]
    /\ UNCHANGED <<parent, uiChannel, known, parentUi, placed, wrangler,
                   told, cut, found, calls, crashes>>

\* forget_child_ui_eci on child_deleted, or del's own postlude.
ForgetChild(p) ==
  /\ At(p, "forget")
  /\ known' = [known EXCEPT ![p] = @ \ {tx[p].of}]
  /\ tx' = [tx EXCEPT ![p] = Idle]
  /\ UNCHANGED <<parent, live, uiChannel, parentUi, placed, wrangler, queue, history,
                 calls, crashes>>

\* child_initiates_deletion: sent to ent:parent_eci, which only
\* pico_created sets; without it event:send fails.
InitiateDeletion(c) ==
  /\ Begins(c, "ready_for_deletion")
  /\ LET asks == parent[c] # NoPico /\ wrangler[c] = "child"
     IN  /\ queue' = IF asks THEN Put(Popped(c), parent[c],
                                      Message("child_deletion_request", c, NoPico))
                             ELSE Popped(c)
         /\ leaving' = IF asks THEN leaving \cup {c} ELSE leaving
  /\ UNCHANGED <<persisted, tx, told, cut, found, calls, crashes>>

-----------------------------------------------------------------------------
(* Transactions that ask: children() and the rules on engine:started.      *)

BeginChildren(p) ==
  /\ Begins(p, "children")
  /\ queue' = Popped(p)
  /\ tx' = [tx EXCEPT ![p] = Running("children", NoPico, Children(p))]
  /\ UNCHANGED <<persisted, history, calls, crashes>>

BeginStarted(p) ==
  /\ Begins(p, "started")
  /\ queue' = Popped(p)
  /\ tx' = [tx EXCEPT ![p] = Running("spread", NoPico, Children(p) \cap known[p])]
  /\ UNCHANGED <<persisted, history, calls, crashes>>

AskChild(p) ==
  \E step \in {"children", "spread", "backfill"} :
    /\ At(p, step) /\ tx[p].of = NoPico
    /\ \E c \in tx[p].todo :
         /\ queue' = Put(queue, c, Message("ask", NoPico, p))
         /\ tx' = [tx EXCEPT ![p] = Waiting(step, c, tx[p].todo \ {c})]
    /\ UNCHANGED <<persisted, history, calls, crashes>>

\* Any query of a pico, the UI's box among them: it reads the pico's own state
\* and asks nobody.
Answer(c) ==
  /\ Begins(c, "ask")
  /\ queue' = Popped(c)
  /\ tx' = Answered(Head(queue[c]).from)
  /\ UNCHANGED <<persisted, history, calls, crashes>>

UseAnswer(p) ==
  \E step \in {"children", "spread", "backfill"} :
    /\ At(p, step) /\ tx[p].of # NoPico
    /\ LET c == tx[p].of
       IN  /\ queue' = IF step = "spread" /\ c \notin placed
                         THEN Put(queue, c, Message("layout", NoPico, UiOf(p)))
                         ELSE queue
           /\ known' = IF step = "backfill" /\ c \in uiChannel
                         THEN [known EXCEPT ![p] = @ \cup {c}]
                         ELSE known
           /\ found' = IF step = "backfill" THEN found \cup {c} ELSE found
    /\ tx' = [tx EXCEPT ![p].of = NoPico]
    /\ UNCHANGED <<parent, live, uiChannel, parentUi, placed, wrangler,
                   told, leaving, cut, calls, crashes>>

\* children() has everything; spread_children_on_startup is done and
\* backfill_child_ui_eci begins.
EndChildren(p) ==
  /\ At(p, "children") /\ tx[p].of = NoPico /\ tx[p].todo = {}
  /\ tx' = [tx EXCEPT ![p] = Idle]
  /\ UNCHANGED <<persisted, queue, history, calls, crashes>>

BeginBackfill(p) ==
  /\ At(p, "spread") /\ tx[p].of = NoPico /\ tx[p].todo = {}
  /\ tx' = [tx EXCEPT ![p] = Running("backfill", NoPico, Children(p) \ known[p])]
  /\ UNCHANGED <<persisted, queue, history, calls, crashes>>

asksAlways(p) == parent[p] # NoPico  \* mutant: whether or not it knows already

\* The guard of backfill_parent_ui_eci, the only rule that asks a parent.
AsksParent(p) == parent[p] # NoPico /\ p \notin parentUi

prunesNothing(p) ==  \* mutant: stale entries stay
  /\ At(p, "backfill") /\ tx[p].of = NoPico /\ tx[p].todo = {}
  /\ IF AsksParent(p)
       THEN /\ queue' = Put(queue, parent[p], Message("ask", NoPico, p))
            /\ tx' = [tx EXCEPT ![p] = Waiting("parent", NoPico, {})]
       ELSE /\ tx' = [tx EXCEPT ![p] = Idle]
            /\ UNCHANGED queue
  /\ UNCHANGED <<persisted, history, calls, crashes>>

\* prune_stale_child_ui_ecis, then backfill_parent_ui_eci.
PruneStale(p) ==
  /\ At(p, "backfill") /\ tx[p].of = NoPico /\ tx[p].todo = {}
  /\ known' = [known EXCEPT ![p] = @ \cap Children(p)]
  /\ IF AsksParent(p)
       THEN /\ queue' = Put(queue, parent[p], Message("ask", NoPico, p))
            /\ tx' = [tx EXCEPT ![p] = Waiting("parent", NoPico, {})]
       ELSE /\ tx' = [tx EXCEPT ![p] = Idle]
            /\ UNCHANGED queue
  /\ UNCHANGED <<parent, live, uiChannel, parentUi, placed, wrangler, history,
                 calls, crashes>>

LearnParentUi(p) ==
  /\ At(p, "parent")
  /\ parentUi' = IF parent[p] \in uiChannel THEN parentUi \cup {p} ELSE parentUi
  /\ tx' = [tx EXCEPT ![p] = Idle]
  /\ UNCHANGED <<parent, live, uiChannel, known, placed, wrangler, queue, history,
                 calls, crashes>>

-----------------------------------------------------------------------------
(* The world outside.                                                      *)

\* A pico's family channel is published once the transaction that makes it is
\* over, its UI channel once its parent knows it.
Published(c) == c \in Used /\ \A p \in Picos : tx[p].of = c => tx[p].step \notin
                                                  {"bootstrap", "remember"}
HasUiAddress(c) == c \in {FirstRoot} \cup {d \in live \ {FirstRoot} : d \in known[parent[d]]}

Addressed(p, name, of) ==
  CASE name = "new_child_request" -> of = NoPico /\ Published(p)
    [] name = "children" -> of = NoPico /\ Published(p)
    [] name = "started" -> of = NoPico /\ HasUiAddress(p)
    [] name = "ready_for_deletion" -> of = NoPico /\ Published(p)
    [] name = "child_deletion_request" -> of \in Picos /\ parent[of] = p /\ Published(of)
    [] name = "del" -> of \in uiChannel /\ parent[of] = p /\ HasUiAddress(p) /\ Published(of)

Request(p) ==
  /\ p \in live
  /\ \E name \in Calls, of \in Picos \cup {NoPico} :
       /\ Addressed(p, name, of)
       /\ queue' = Put(queue, p, Message(name, of, NoPico))
       /\ calls[name] < MaxCalls[name]
       /\ calls' = [calls EXCEPT ![name] = @ + 1]
  /\ UNCHANGED <<persisted, tx, history, crashes>>

\* Queues and transactions are lost; the engine comes back and tells its
\* first root, and nobody else, engine:started.
Crash ==
  /\ crashes < MaxCrashes
  /\ queue' = [p \in Picos |->
                 IF p = FirstRoot THEN <<Message("started", NoPico, NoPico)>> ELSE <<>>]
  /\ tx' = [p \in Picos |-> Idle]
  /\ leaving' = {}
  /\ cut' = cut \cup (live \ (told \cup {FirstRoot}))
  /\ found' = {}
  /\ crashes' = crashes + 1
  /\ UNCHANGED <<persisted, told, calls>>

FamilyStep(p) ==
  \/ CreateChild(p) \/ CreateChildFails(p) \/ Bootstrap(p) \/ RememberChild(p)
  \/ Setup(p) \/ InitializeChild(p) \/ Box(p)
  \/ ChildInitialized(p)
  \/ DeleteChild(p) \/ ForgetChild(p) \/ InitiateDeletion(p)
  \/ BeginChildren(p) \/ BeginStarted(p) \/ AskChild(p) \/ Answer(p) \/ UseAnswer(p)
  \/ EndChildren(p) \/ BeginBackfill(p) \/ PruneStale(p) \/ LearnParentUi(p)

FamilyNext == (\E p \in Picos : FamilyStep(p) \/ Request(p)) \/ Crash

\* A pico's queue is worked off as long as the engine runs.
Fairness == \A p \in Picos : WF_familyVars(FamilyStep(p))

FamilySpec == FamilyInit /\ [][FamilyNext]_familyVars /\ Fairness

-----------------------------------------------------------------------------
MessageType ==
  [name : {"new_child_request", "child_deletion_request", "del", "children", "started",
           "ready_for_deletion", "setup", "pico_created", "box", "layout", "ask"},
   of : Picos \cup {NoPico}, from : Picos \cup {NoPico}]
  \cup [name : {"child_initialized"}, of : Picos, from : {NoPico}]
TxType ==
  [step : {"idle", "bootstrap", "remember", "forget", "children", "spread", "backfill", "parent"},
   of : Picos \cup {NoPico}, todo : SUBSET Picos, waits : BOOLEAN]

FamilyTypeOK ==
  /\ parent \in [Picos -> Picos \cup {NoPico}]
  /\ live \subseteq Picos /\ uiChannel \subseteq Picos
  /\ known \in [Picos -> SUBSET Picos]
  /\ parentUi \subseteq Picos /\ placed \subseteq Picos
  /\ wrangler \in [Picos -> {"none", "root", "child"}]
  /\ queue \in [Picos -> Seq(MessageType)] /\ tx \in [Picos -> TxType]
  /\ told \subseteq Picos /\ leaving \subseteq live /\ cut \subseteq Picos
  /\ found \subseteq Picos
  /\ calls \in [Calls -> Nat] /\ crashes \in 0 .. MaxCrashes

AtRest == \A p \in Picos : queue[p] = <<>> /\ tx[p] = Idle

\* When nothing is in progress, parent and child know each other: before any
\* crash, a pico's map of UI channels (remember_child_ui_eci,
\* forget_child_ui_eci, del) has exactly its children, and each child is
\* initialized as a child, placed, and knows its parent's UI channel; after a
\* crash the rules on engine:started have made good what the first root lacked:
\* its map has no child that is gone and every child with a UI channel, and
\* the children it knew before the start are placed.
KnowsItsFamily ==
  AtRest =>
    \A p \in live :
      /\ crashes = 0 =>
           /\ known[p] = Children(p)
           /\ \A c \in Children(p) : wrangler[c] = "child" /\ c \in parentUi \cap placed
      /\ p = FirstRoot =>
           /\ known[p] = Children(p) \cap uiChannel
           /\ known[p] \ found \subseteq parentUi \cap placed

\* When nothing is in progress, every request has had its effect: each child's
\* wrangler:child_initialized has reached its parent, unless a crash met the
\* child half-made, and a child that asked for its own deletion is gone, unless
\* a crash lost the request.
RequestsServed ==
  AtRest => live \ {FirstRoot} \subseteq told \cup cut /\ leaving = {}

\* A pico waits for its parent, which only a crash brings about: it costs a
\* child its first box event, and then somebody sends the child engine:started.
\* That wait may meet the parent's own wait for the child, and then none ends.
WaitsForParent == crashes > 0 /\ \E p \in live : tx[p].step = "parent"

\* Every transaction ends (issue #493: the UI's queries made picos wait for each
\* other): no order of creations, deletions, children() and engine:started
\* stops a queue, but for the one crossing named above.
EveryTransactionEnds ==
  []<>~WaitsForParent => \A p \in Picos : (tx[p] # Idle) ~> (tx[p] = Idle)
=============================================================================
