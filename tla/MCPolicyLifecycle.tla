-------------------------- MODULE MCPolicyLifecycle --------------------------
(***************************************************************************)
(* Small instances of the policy lifecycle for TLC.                        *)
(***************************************************************************)
EXTENDS PolicyLifecycle, TLC

CONSTANTS p1, p2, r1, c1, c2, s1

\* A scoped rule of the registered project s1.
Scoped == {[content |-> c1, placement |-> "scoped_rule", scope |-> s1, target |-> None]}

Child == [content |-> c2, placement |-> "scoped_rule", scope |-> s1]
\* Named once, and named twice.
OneChild == {<<Child>>, <<Child, Child>>}

Counts(i, u, r) == [improved |-> i, unchanged |-> u, regressed |-> r, other |-> 0]
\* Not enough, all improved, mostly improved, mostly regressed.
SomeEvidence == {Counts(0, 0, 0), Counts(3, 0, 0), Counts(3, 0, 1), Counts(3, 0, 4)}

\* By default, by name, and a target no placement has.
AskedPlacements == {None, "global_rule"}

TwoProcs == p1 :> Operations @@ p2 :> {"adopt", "rewrite", "enable"}
Applying == p1 :> {"adopt", "promote", "preview", "apply"}
=============================================================================
