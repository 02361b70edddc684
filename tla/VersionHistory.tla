---------------------------- MODULE VersionHistory ----------------------------
(***************************************************************************)
(* What the lifecycle promises about the past of a policy: its versions    *)
(* are numbered 1, 2, ... without gaps, never change and never vanish, and *)
(* one of them at most is "the" policy at a time.                          *)
(***************************************************************************)
EXTENDS Naturals

CONSTANTS NoVersion
VARIABLES
    texts,  \* version id <<policy, number>> -> what the version says
    head    \* policy -> the version that is current, or NoVersion

historyVars == <<texts, head>>

Init ==
    /\ DOMAIN texts = {}
    /\ DOMAIN head = {}

\* A new identity, which has no version yet.
Found ==
    /\ \E policy \in DOMAIN head' \ DOMAIN head :
          head' = [q \in DOMAIN head \cup {policy} |->
                      IF q = policy THEN NoVersion ELSE head[q]]
    /\ UNCHANGED texts

\* The next version of a policy is written down.
Write ==
    /\ \E v \in DOMAIN texts' \ DOMAIN texts :
          /\ v[2] = 1 \/ <<v[1], v[2] - 1>> \in DOMAIN texts
          /\ texts' = [w \in DOMAIN texts \cup {v} |-> texts'[w]]
          /\ \A w \in DOMAIN texts : texts'[w] = texts[w]
    /\ UNCHANGED head

\* Another version of a policy becomes the current one.
Move ==
    /\ \E v \in DOMAIN texts :
          /\ v[1] \in DOMAIN head
          /\ head' = [head EXCEPT ![v[1]] = v]
    /\ UNCHANGED texts

Next == Found \/ Write \/ Move

Spec == Init /\ [][Next]_historyVars
=============================================================================
