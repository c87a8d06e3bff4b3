------------------------------ MODULE MCFamily ------------------------------
(***************************************************************************)
(* A root and two picos that come to be below it, or below one another.    *)
(* Each is created by a request; of the other requests, two come, or one   *)
(* and a crash.                                                            *)
(***************************************************************************)
EXTENDS Family

MCCalls == {"new_child_request", "child_deletion_request", "del",
            "children", "started", "ready_for_deletion"}
MCMaxCalls == [name \in MCCalls |-> IF name = "new_child_request" THEN 2 ELSE 1]

Bounded ==
  calls'["child_deletion_request"] + calls'["del"] + calls'["children"]
    + calls'["started"] + calls'["ready_for_deletion"] + crashes' <= 2
MCSpec == FamilyInit /\ [][FamilyNext /\ Bounded]_familyVars /\ Fairness
=============================================================================
