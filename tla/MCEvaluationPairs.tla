-------------------------- MODULE MCEvaluationPairs --------------------------
(***************************************************************************)
(* A small instance of the evaluation for TLC: one evaluation, two          *)
(* processes, a commit the policy can be applied to and one it cannot.      *)
(***************************************************************************)
EXTENDS EvaluationPairs

CONSTANTS p1, p2

TwoAndOne == p1 :> {2} @@ p2 :> {1}

TwoChecks == <<"task", "check_1">>

\* The policy can make the task pass, and it breaks the other check.
Traded == [baseline |-> {"check_1"}, candidate |-> {"task"}]

\* For every result of both conditions the outcome is what the first check says
\* when it differs, and otherwise whether anything was lost (compare.py:32-79).
ASSUME CompareAssumption ==
    \A b, c \in SUBSET {"task", "check_1", "check_2"} :
        LET row(passed) == [status |-> "completed", passed |-> passed]
            result == compare_runs(row(b), row(c))
        IN /\ result.outcome = "improved"  <=> "task" \in c \ b
           /\ result.outcome = "unchanged" <=> b \subseteq c /\ "task" \notin c \ b
           /\ result.outcome \in {"improved", "unchanged", "regressed"}
           /\ result.regressions = b \ c
=============================================================================
