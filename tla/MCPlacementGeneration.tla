------------------------ MODULE MCPlacementGeneration ------------------------
(***************************************************************************)
(* A small instance of Stages 1-6 for TLC: two sessions of one repository   *)
(* and one of another that is opted in on the way, and bounded checks of    *)
(* detection and scoring.                                                   *)
(***************************************************************************)
EXTENDS PlacementGeneration

Order == <<"s1", "s2", "s3">>
Earlier == <<"s2">>
Repository == "s1" :> "A" @@ "s2" :> "A" @@ "s3" :> "B"
Length == "s1" :> 2 @@ "s2" :> 1 @@ "s3" :> 1

Edit(dir, suffix, ctx) ==
    [Plain("file_edit") EXCEPT !.path = [dir |-> dir, ext |-> suffix, ctx |-> ctx, vendored |-> FALSE]]
Model == Edit("models", ".py", "model")
Migration == Edit("migrations", ".py", "migration")
Settings == Edit("", ".toml", "config")
Did(events) == [status |-> "success", events |-> events]

\* s1 grows into a repair that s2 shows from the start beside one of its own; s3
\* first contradicts it, then has it too.
Logs ==
    LET broken == <<Model, Plain("test_fail")>>
        repair == <<Migration, Plain("test_pass")>>
        lint == <<Plain("lint_fail"), Settings, Plain("lint_pass")>>
        clean == <<Model, Plain("test_pass")>>
    IN "s1" :> <<Did(broken), Did(broken \o repair)>>
       @@ "s2" :> <<Did(broken \o repair \o lint)>>
       @@ "s3" :> <<Did(clean), Did(clean \o <<Plain("test_fail")>> \o repair)>>

-----------------------------------------------------------------------------
\* Every transcript of up to four of these events.
Alphabet == {Model, Migration, Plain("test_fail"), Plain("test_pass"), Plain("lint_fail"), Plain("lint_pass"),
             [Plain("human_correction") EXCEPT !.directive = TRUE],
             [Plain("command") EXCEPT !.says = "sqlite_locked"]}
Transcripts == UNION {[1 .. n -> Alphabet] : n \in 0 .. 4}

\* A repair runs from a failure or a correction to a check that passes within
\* the gap, and a known context is one of its edits; a session counts once for
\* a group and classification (detect.py:213-249).
ASSUME \A evs \in Transcripts :
    LET found == detect_occurrences(Did(evs))
    IN /\ \A o, p \in found : o.key = p.key /\ o.class = p.class => o = p
       /\ \A o \in found : o.key[1] \in {"fr", "hc"} =>
            /\ evs[o.first].type \in FailTypes \cup {"human_correction"} \cup ChangeTypes
            /\ o.pattern # "file_change_pattern" =>
                    evs[o.last].type = Passes[o.key[3]] /\ o.last <= o.first + MaxEventGap
            /\ o.class = "support" => \E i \in o.first .. o.last : evs[i].path.ctx = o.key[2]

\* A longer transcript still shows the repairs of its beginning.
ASSUME \A evs \in Transcripts :
    LET repairs(es) == {o.key : o \in failure_repair(es) \cup human_correction_repair(es)}
    IN evs = <<>> \/ repairs(Front(evs)) \subseteq repairs(evs)

\* Confidence is a share, and contradictions only lower it.
ASSUME \A n \in 1 .. 7, x \in 0 .. 3, p \in 0 .. 4, r \in {1, 3, 6, 10} :
    /\ compute_confidence(n, x, n, p, r) \in 0 .. 100
    /\ compute_confidence(n, x + 1, n, p, r) <= compute_confidence(n, x, n, p, r)

Features ==
    LET scopes == {NoScope, [type |-> "directory", value |-> "d", count |-> 2, share |-> 12, specificity |-> 95]}
    IN {[f EXCEPT !.contradicted = 12 - f.supported] : f \in
        [support : {1, 2}, against : {0}, supported : {0, 6, 12}, contradicted : {0}, recurrence : {2, 12},
         breadth : {0, 12}, concentration : {6, 12}, consistency : {12}, actionability : {25, 100},
         complexity : {0, 12}, confidence : {0, 60, 100}, scope : scopes, eligible : BOOLEAN]}

\* Whatever part of the evidence there is, its features are in their ranges.
ASSUME LET all == UNION {Items[s][Versions[s]] : s \in Sessions}
           events == [s \in Sessions |-> Transcript[s][Versions[s]].events]
       IN \A evidence \in SUBSET all : \A pattern \in {"repeated_failure", "failure_repair_success"} :
            Scored(extract_features(pattern, 60, evidence, events))

\* The five alternatives are ranked, each once and none before a better one, and
\* without balanced support of several projects a global rule is never the first
\* (docs/stages/STAGE_6_REPORT.md:112).
ASSUME \A f \in Features :
    LET ranked == build_proposals(f)
    IN /\ Range(ranked) = PlacementTypes
       /\ \A i \in 1 .. 4 : score(ranked[i], f) >= score(ranked[i + 1], f)
       /\ ~ f.eligible => ranked[1] # "global_rule"
=============================================================================
