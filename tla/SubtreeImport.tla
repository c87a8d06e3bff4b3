---------------------------- MODULE SubtreeImport ----------------------------
(***************************************************************************)
(* The import of an exported subtree of picos (subtreeState.ts): one new    *)
(* pico per exported one, created depth first; new identifiers for old, and *)
(* the entity variables rewritten with the identifiers known by then.       *)
(*                                                                          *)
(* The entity variables of a pico are the references it holds, and whether  *)
(* each names the old or the new object.  A pico's exported channels are    *)
(* created in one loop and count as one.                                    *)
(***************************************************************************)
EXTENDS Integers, Sequences, Functions

CONSTANTS
  Nodes,       \* exported picos
  Root,
  Outside,     \* whatever is not in the subtree
  Kids,        \* Kids[n]: the sequence of n's children
  Holds,       \* Holds[n]: the references in n's entity variables
  Stabilized   \* picos with the subscription or the PDS ruleset

\* pico: an identifier of a pico; channel: an exported channel; family: the
\* channel of a pico for its parent; parent: the channel of its parent for it.
Handle == [kind : {"pico", "channel", "family", "parent"}, of : Nodes \union {Outside}]

ASSUME SubtreeAssumption ==
  /\ Root \in Nodes /\ Outside \notin Nodes
  /\ Kids \in [Nodes -> Seq(Nodes)]
  /\ Holds \in [Nodes -> SUBSET Handle]
  /\ Stabilized \subseteq Nodes

VARIABLES
  pc,       \* pc[n]: how far hydrateImportedNode is with n
  eciMap,   \* handles with a new identifier in eciMap
  ref,      \* ref[n][h]: what the reference h in n's variables names
  childUi,  \* childUi[n]: children in n's ent:child_ui_ecis
  fresh,    \* picos whose own pico_created event has yet to run
  queued,   \* children whose new_child_created event waits at their parent
  failed    \* the import has thrown

vars == <<pc, eciMap, ref, childUi, fresh, queued, failed>>

Phase == {"absent", "created", "descending", "put", "stable", "done"}

IsKid(p, c) == \E i \in 1 .. Len(Kids[p]) : Kids[p][i] = c
Before(c) == {b \in Nodes : \E p \in Nodes : \E i, j \in 1 .. Len(Kids[p]) :
                i < j /\ Kids[p][i] = b /\ Kids[p][j] = c}

\* The exported picos are the subtree of Root.
ASSUME TreeAssumption ==
  /\ \A n \in Nodes : ~IsKid(n, Root)
  /\ \A m, n, c \in Nodes : IsKid(m, c) /\ IsKid(n, c) => m = n

-----------------------------------------------------------------------------

\* A bootstrap sets the variables that name the pico itself and its parent.
bootstrapped(c, kinds) == [h \in Holds[c] |->
  IF h.of = c /\ h.kind \in kinds THEN "new" ELSE ref[c][h]]

childUiWith(c) == [p \in Nodes |-> childUi[p] \union {b \in {c} : IsKid(p, b)}]

\* importPicoNode: the loop over the children is at c.  A parent in the middle
\* of an event gets its child from bootstrapImportChildSync, and hears of it
\* later; any other gets it from the wrangler, whose pico_created is left queued.
createImportChild(c) ==
  /\ ~failed /\ pc[c] = "absent"
  /\ c = Root \/ \E p \in Nodes : IsKid(p, c) /\ pc[p] = "descending"
  /\ \A b \in Before(c) : pc[b] = "done"
  /\ pc' = [pc EXCEPT ![c] = "created"]
  /\ \/ /\ ref' = [ref EXCEPT ![c] = bootstrapped(c, {"pico", "family", "parent"})]
        /\ queued' = queued \union ({c} \ {Root})
        /\ UNCHANGED <<childUi, fresh>>
     \/ /\ ref' = [ref EXCEPT ![c] = bootstrapped(c, {"pico"})]
        /\ fresh' = fresh \union {c}
        /\ childUi' = childUiWith(c)
        /\ UNCHANGED queued
  /\ UNCHANGED <<eciMap, failed>>

\* The wrangler's pico_created, when the new pico's transaction queue gets to it.
pico_created(c) ==
  /\ c \in fresh
  /\ fresh' = fresh \ {c}
  /\ ref' = [ref EXCEPT ![c] = bootstrapped(c, {"pico", "family", "parent"})]
  /\ UNCHANGED <<pc, eciMap, childUi, queued, failed>>

\* The family channel is in eciMap under a key that no variable holds.
remap(n) == {[kind |-> "pico", of |-> n], [kind |-> "channel", of |-> n]}

\* hydrateImportedNode up to the children: wait for the rulesets pico_created
\* installs if the exported pico had them, install the others, new channels.
hydrateImportedNode(n) ==
  /\ ~failed /\ pc[n] = "created"
  /\ n \in Stabilized => n \notin fresh
  /\ pc' = [pc EXCEPT ![n] = "descending"]
  /\ eciMap' = eciMap \union remap(n)
  /\ UNCHANGED <<ref, childUi, fresh, queued, failed>>

written(n) == [h \in Holds[n] |-> IF h \in eciMap THEN "new" ELSE "old"]

putBeforeChildren(n) ==  \* mutant: the loop over the children comes after
  /\ ~failed /\ pc[n] = "descending"
  /\ \A c \in Nodes : IsKid(n, c) => pc[c] = "absent"
  /\ pc' = [pc EXCEPT ![n] = "put"]
  /\ ref' = [ref EXCEPT ![n] = written(n)]
  /\ childUi' = [childUi EXCEPT ![n] = {}]
  /\ UNCHANGED <<eciMap, fresh, queued, failed>>

\* putEntFromExportNode: keys of ent:child_ui_ecis are old family channels.
putEntFromExportNode(n) ==
  /\ ~failed /\ pc[n] = "descending"
  /\ \A c \in Nodes : IsKid(n, c) => pc[c] = "done"
  /\ pc' = [pc EXCEPT ![n] = "put"]
  /\ ref' = [ref EXCEPT ![n] = written(n)]
  /\ childUi' = [childUi EXCEPT ![n] = {}]
  /\ UNCHANGED <<eciMap, fresh, queued, failed>>

stabilizeImportEntFromExport(n) ==
  /\ ~failed /\ pc[n] = "put"
  /\ pc' = [pc EXCEPT ![n] = "stable"]
  /\ \/ /\ n \in Stabilized
        /\ ref' = [ref EXCEPT ![n] = written(n)]
        /\ childUi' = [childUi EXCEPT ![n] = {}]
     \/ /\ n \notin Stabilized
        /\ UNCHANGED <<ref, childUi>>
  /\ UNCHANGED <<eciMap, fresh, queued, failed>>

syncNothing(n) ==  \* mutant: what the children's events have noted must do
  /\ ~failed /\ pc[n] = "stable"
  /\ pc' = [pc EXCEPT ![n] = "done"]
  /\ UNCHANGED <<eciMap, ref, childUi, fresh, queued, failed>>

syncChildUiEcisFromWrangler(n) ==
  /\ ~failed /\ pc[n] = "stable"
  /\ pc' = [pc EXCEPT ![n] = "done"]
  /\ childUi' = [childUi EXCEPT ![n] = Range(Kids[n])]
  /\ UNCHANGED <<eciMap, ref, fresh, queued, failed>>

\* Any of these steps may throw; nothing is rolled back.
Throw ==
  /\ ~failed /\ pc[Root] \notin {"absent", "done"}
  /\ failed' = TRUE
  /\ UNCHANGED <<pc, eciMap, ref, childUi, fresh, queued>>

\* remember_child_ui_eci, when the parent's transaction queue gets to it.
remember_child_ui_eci(c) ==
  /\ c \in queued
  /\ queued' = queued \ {c}
  /\ childUi' = childUiWith(c)
  /\ UNCHANGED <<pc, eciMap, ref, fresh, failed>>

Init ==
  /\ pc = [n \in Nodes |-> "absent"]
  /\ eciMap = {}
  /\ ref = [n \in Nodes |-> [h \in Holds[n] |-> "unset"]]
  /\ childUi = [n \in Nodes |-> {}]
  /\ fresh = {}
  /\ queued = {}
  /\ failed = FALSE

Step(n) ==
  \/ createImportChild(n) \/ hydrateImportedNode(n) \/ putEntFromExportNode(n)
  \/ stabilizeImportEntFromExport(n) \/ syncChildUiEcisFromWrangler(n)

Next == Throw \/ \E n \in Nodes : Step(n) \/ pico_created(n) \/ remember_child_ui_eci(n)

Spec == Init /\ [][Next]_vars

-----------------------------------------------------------------------------
(* Properties.                                                              *)

\* Every variable has its type.
TypeOK ==
  /\ pc \in [Nodes -> Phase]
  /\ eciMap \subseteq [kind : {"pico", "channel"}, of : Nodes]
  /\ DOMAIN ref = Nodes
  /\ \A n \in Nodes : ref[n] \in [Holds[n] -> {"unset", "old", "new"}]
  /\ childUi \in [Nodes -> SUBSET Nodes]
  /\ fresh \subseteq Nodes /\ queued \subseteq Nodes
  /\ failed \in BOOLEAN

\* A set of picos that has the children of its members.
Descends(S) == \A p \in S, c \in Nodes : IsKid(p, c) => c \in S

\* m is n or above it.
Above(m, n) == \A S \in SUBSET Nodes : m \in S /\ Descends(S) => n \in S

\* m's identifiers are new by the time the walk writes n's variables: m is in
\* n's line, or in a branch that the walk has been through.
Known(m, n) ==
  \/ Above(m, n) \/ Above(n, m)
  \/ \E c \in Nodes : Above(c, n) /\ \E b \in Before(c) : Above(b, m)

\* A reference to a pico or an exported channel that the walk has reached names
\* the new one, and a reference to anything outside is what it was.
KnownRemapped ==
  \A n \in Nodes : pc[n] = "done" => \A h \in Holds[n] :
    /\ h.of \in Nodes /\ h.kind \in {"pico", "channel"} /\ Known(h.of, n) => ref[n][h] = "new"
    /\ h.of = Outside => ref[n][h] = "old"

\* A finished pico's user interface knows all its children, although the import
\* overwrites what their creation events noted there, before or after.
UiKnowsChildren ==
  \A n \in Nodes : pc[n] = "done" => childUi[n] = Range(Kids[n])

=============================================================================
