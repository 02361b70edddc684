-------------------------- MODULE ExperienceGrouping --------------------------
(***************************************************************************)
(* Stage 5, from occurrences to experiences (experience/grouping.py and     *)
(* confidence.py).                                                          *)
(*                                                                         *)
(* An item of evidence is an occurrence of PatternDetection with the        *)
(* session it was found in and that session's project.  `profiles` has a    *)
(* profile for the sessions the extraction looked at, not for all.          *)
(***************************************************************************)
EXTENDS PatternDetection, FiniteSetsExt, TLC

CONSTANTS
    MinOccurrences,  \* occurrences a candidate needs
    MinProjects      \* projects a candidate needs

ASSUME ThresholdsAssumption == MinOccurrences \in Nat \ {0} /\ MinProjects \in Nat \ {0}

SmallerOf(a, b) == IF a <= b THEN a ELSE b
LargerOf(a, b) == IF a >= b THEN a ELSE b
Of(items, class) == {o \in items : o.class = class}
Projects(items) == {o.project : o \in items}

\* An occurrence with the session and the project it counts for.
Item(o, session, project) ==
    [pattern |-> o.pattern, key |-> o.key, first |-> o.first, last |-> o.last, class |-> o.class,
     ante |-> o.ante, session |-> session, project |-> project]

\* A profiled trajectory that made the same kind of change, saw the same check
\* pass cleanly and never touched the repair context speaks against the pattern.
\* Only the repairs of a known context have such evidence.
synthesize_contradictions(key, positive, profiles, project) ==
    LET antecedents == UNION {o.ante : o \in positive}
        against(s) == /\ \A o \in positive : o.session # s
                      /\ key[3] \in profiles[s].clean
                      /\ profiles[s].edits \cap antecedents # {}
                      /\ key[2] \notin profiles[s].edits
    IN IF key[1] # "fr" \/ key[2] \in {"other", "mixed"} THEN {}
       ELSE {Item(Occurrence("failure_repair_success", key, 1, 1, "contradiction", {}), s, project[s]) :
                    s \in {t \in DOMAIN profiles : against(t)}}

\* The weighted sum, in hundredths and rounded: the share of supporting evidence,
\* how often and in how many projects the pattern came up, how recent it is.
\* confidence.py:52-85
compute_confidence(support, contradiction, occurrences, projects, recency) ==
    LET decisive == LargerOf(1, support + contradiction)
        ratio == 50 * 12 * support
        recurrence == 25 * 2 * SmallerOf(6, occurrences) * decisive
        breadth == 15 * 6 * SmallerOf(2, LargerOf(1, projects) - 1) * decisive
        recent == recency * 12 * decisive
    IN (2 * (ratio + recurrence + breadth + recent) + 12 * decisive)
            \div (2 * 12 * decisive)

\* A transcript of the last thirty days counts fully; when no trajectory of the
\* evidence was looked at, its age is unknown.
Recency(evidence, profiles) ==
    IF \E o \in evidence : o.session \in DOMAIN profiles THEN 10 ELSE 3

\* One experience for every group with support and occurrences enough.
build_experiences(items, profiles, project) ==
    LET positive(k) == {o \in items : o.key = k}
        support(k) == Of(positive(k), "support")
        against(k) == IF Cardinality(positive(k)) >= LargerOf(2, MinOccurrences - 1)
                      THEN synthesize_contradictions(k, positive(k), profiles, project) ELSE {}
        evidence(k) == positive(k) \cup against(k)
        groups == {k \in {o.key : o \in items} :
                      /\ support(k) # {}
                      /\ Cardinality(positive(k)) >= MinOccurrences - 1}
    IN [k \in groups |->
          [status |-> IF /\ Cardinality(positive(k)) >= MinOccurrences
                         /\ Cardinality(Projects(evidence(k))) >= MinProjects
                      THEN "candidate" ELSE "needs_more_evidence",
           confidence |-> compute_confidence(
                Cardinality(support(k)), Cardinality(against(k)), Cardinality(positive(k)),
                Cardinality(Projects(support(k))), Recency(evidence(k), profiles)),
           evidence |-> evidence(k)]]
=============================================================================
