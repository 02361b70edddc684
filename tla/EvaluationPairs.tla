--------------------------- MODULE EvaluationPairs ---------------------------
(***************************************************************************)
(* Stage 8, the evaluation of a reviewed policy (evaluation/ over the      *)
(* Stage 8 part of storage/repository.py).                                 *)
(*                                                                         *)
(* `eval run` freezes a specification of an experiment once and then runs  *)
(* paired repetitions of it: a baseline and a candidate condition, each in *)
(* a clone of its own, whose verifier results are compared.  Every row is  *)
(* a transaction of its own, the index of a repetition is chosen long      *)
(* before its first row is written, and the commands it runs are somebody  *)
(* else's programs, which may fail, never end or write undecodable output. *)
(***************************************************************************)
EXTENDS Naturals, Sequences, FiniteSetsExt, Functions, TLC

CONSTANTS
    Procs,       \* processes that may each run one `eval run` at a time
    SpecIds,     \* identifiers of evaluations
    Commits,     \* commits of the source repository
    Heads,       \* those that may be HEAD when the model starts
    Unsafe,      \* commits whose policy file the Stage 7 writer refuses
    Texts,       \* contents a person may give the policy under review
    Proposed,    \* its content when the model starts
    Decisions,   \* statuses a person may give the review
    Modes,       \* condition orders a person may ask for
    Checks,      \* names of the verifier checks; the first one is the task's
    CanPass,     \* condition -> the checks that may pass in its workspace
    Agents,      \* whether an agent command is given: a set of Booleans
    Counts,      \* process -> the repetitions a person may ask it for
    None,        \* Python's None
    MaxRequests, \* bound on `eval run` commands
    MaxIndex,    \* bound on repetitions of one evaluation
    MaxOutside,  \* bound on what others do to the review and to the repository
    MaxFaults    \* bound on crashes, undecodable output and failing git commands

ASSUME ChecksAssumption == Checks \in Seq(STRING) /\ Checks # <<>>

\* The instance starts in a state of the program, and its bounds are numbers.
ASSUME InstanceAssumption ==
    /\ Proposed \in Texts
    /\ Heads \subseteq Commits
    /\ Counts \in [Procs -> SUBSET Nat]
    /\ MaxIndex \in Nat

VARIABLES
    review,      \* the policy_reviews row under evaluation
    written,     \* history: content of each of its revisions
    source,      \* the developer's repository
    specs,       \* evaluation_specs, by id
    runs,        \* evaluation_runs and their verifier results, by <<id, index, condition>>
    comparisons, \* evaluation_comparisons, by <<id, index>>
    spaces,      \* process -> condition -> its workspace, or None
    refused,     \* history: processes that could not remove theirs
    loc,         \* process -> locals of its handler
    used         \* how much of each bound is spent

tables == <<specs, runs, comparisons>>
world == <<review, written, source>>
vars == <<tables, world, spaces, refused, loc, used>>

Conditions == {"baseline", "candidate"}

\* A completed, refused or never started run of a condition.
RunStatuses == {"completed", "failed", "error"}
Outcomes == {"improved", "unchanged", "regressed", "invalid", "incomparable"}

Names == Range(Checks)
Spend(what) == used' = [used EXCEPT ![what] = @ + 1]
Put(f, x, y) == [z \in DOMAIN f \cup {x} |-> IF z = x THEN y ELSE f[z]]
Cell(p) == <<loc[p].spec, loc[p].index>>

-----------------------------------------------------------------------------
NoSpaces == [c \in Conditions |-> None]

Idle == [pc |-> "idle", spec |-> None, mode |-> None, frozen |-> None, left |-> 0,
         index |-> 0, position |-> 1, done |-> 0, passed |-> {}]

Init ==
    /\ review = [status |-> "accepted", revision |-> 1, content |-> Proposed, stale |-> FALSE]
    /\ written = <<Proposed>>
    /\ \E c \in Heads : source = [head |-> c, held |-> Commits, present |-> TRUE]
    /\ specs = <<>> /\ runs = <<>> /\ comparisons = <<>>
    /\ spaces = [p \in Procs |-> NoSpaces]
    /\ refused = {}
    /\ loc = [p \in Procs |-> Idle]
    /\ used = [requests |-> 0, outside |-> 0, faults |-> 0]

At(p, pc) == loc[p].pc = pc
Go(p, pc) == loc' = [loc EXCEPT ![p].pc = pc]

\* Mutant: without the finally clause.
DieUncleaned(p) ==
    /\ loc' = [loc EXCEPT ![p] = Idle]
    /\ UNCHANGED <<spaces, refused>>

\* Where a handler is within the with block of isolated_workspaces.
Within == {"clone_baseline", "clone_candidate", "condition", "waiting",
           "record_completed", "record_failed", "leave"}

\* mkdtemp: a directory that nothing of an earlier repetition is in.
mkdtemp(p) ==
    /\ spaces' = [spaces EXCEPT ![p] = NoSpaces]
    /\ refused' = refused \ {p}

\* The directory goes, or the system does not let go of all of it (an OSError
\* of remove_tree, which nobody is told).
_remove_workspace(p) ==
    \/ spaces' = [spaces EXCEPT ![p] = NoSpaces] /\ UNCHANGED refused
    \/ spaces[p] # NoSpaces /\ refused' = refused \cup {p} /\ UNCHANGED spaces

\* An exception that leaves the handler, by way of the finally clause of
\* isolated_workspaces when it comes from within.
Die(p) ==
    /\ loc' = [loc EXCEPT ![p] = Idle]
    /\ IF loc[p].pc \in Within THEN _remove_workspace(p) ELSE UNCHANGED <<spaces, refused>>

-----------------------------------------------------------------------------
\* create_spec, first part: what it reads of the review, in one row.
Eligible ==
    /\ ~ review.stale
    /\ review.status \in {"accepted", "test_first", "applied"}

read_review(p, id, mode, n) ==
    /\ id \notin DOMAIN specs
    /\ \A q \in Procs : loc[q].spec # id
    /\ Eligible
    /\ loc' = [loc EXCEPT ![p] = [Idle EXCEPT
            !.pc = "freeze", !.spec = id, !.mode = mode, !.left = n,
            !.frozen = [content |-> review.content, revision |-> review.revision]]]

\* An evaluation that exists keeps its specification; only the number of
\* repetitions may be given.
rerun(p, id, n) ==
    /\ id \in DOMAIN specs
    /\ loc' = [loc EXCEPT ![p] = [Idle EXCEPT !.pc = "next", !.spec = id, !.left = n]]

\* The process is a new one: directories a killed one left are not its own.
cmd_eval_run(p) ==
    /\ loc[p].pc \in {"idle", "killed"}
    /\ used.requests < MaxRequests
    /\ \E id \in SpecIds, n \in Counts[p] :
        \/ \E mode \in Modes : read_review(p, id, mode, n)
        \/ rerun(p, id, n)
    /\ mkdtemp(p)
    /\ Spend("requests")
    /\ UNCHANGED <<tables, world>>

\* resolve_commit fails: nothing was frozen.
Unresolved(p) ==
    /\ At(p, "freeze")
    /\ ~ source.present
    /\ Die(p)
    /\ UNCHANGED <<tables, world, used>>

\* Mutant: the content is read again when the row is written.
create_spec_rereading(p) ==
    /\ At(p, "freeze")
    /\ source.present
    /\ specs' = Put(specs, loc[p].spec,
                    [content |-> review.content, revision |-> loc[p].frozen.revision,
                     commit |-> source.head, mode |-> loc[p].mode, agent |-> TRUE])
    /\ Go(p, "next")
    /\ UNCHANGED <<runs, comparisons, world, spaces, refused, used>>

\* create_spec, second part: HEAD, or a commit given by name, is resolved to
\* a commit, and the row is inserted.
create_spec(p) ==
    /\ At(p, "freeze")
    /\ source.present
    /\ \E c \in {source.head} \cup source.held, a \in Agents :
        specs' = Put(specs, loc[p].spec,
                     [content |-> loc[p].frozen.content, revision |-> loc[p].frozen.revision,
                      commit |-> c, mode |-> loc[p].mode, agent |-> a])
    /\ loc' = [loc EXCEPT ![p] = [@ EXCEPT !.pc = "next", !.mode = None, !.frozen = None]]
    /\ UNCHANGED <<runs, comparisons, world, spaces, refused, used>>

-----------------------------------------------------------------------------
\* run_repetition: one more pair, until the count is reached.

Indexes(id) == {k[2] : k \in {j \in DOMAIN runs : j[1] = id}}

\* Mutant: MAX(repetition_index) itself.
last_evaluation_repetition(p) ==
    /\ At(p, "next")
    /\ loc[p].left > 0
    /\ loc' = [loc EXCEPT ![p] = [loc[p] EXCEPT
           !.pc = "clone_baseline", !.index = Max(Indexes(loc[p].spec) \cup {0}),
           !.left = @ - 1, !.position = 1]]
    /\ mkdtemp(p)
    /\ UNCHANGED <<tables, world, used>>

next_evaluation_repetition(p) ==
    /\ At(p, "next")
    /\ loc[p].left > 0
    /\ LET i == Max(Indexes(loc[p].spec) \cup {0}) + 1 IN
       /\ i <= MaxIndex
       /\ loc' = [loc EXCEPT ![p] = [loc[p] EXCEPT
              !.pc = "clone_baseline", !.index = i, !.left = @ - 1,
              !.position = 1]]
    /\ mkdtemp(p)
    /\ UNCHANGED <<tables, world, used>>

\* The count is reached (or, in the model, the bound on repetitions).
Return(p) ==
    /\ At(p, "next")
    /\ loc[p].left = 0 \/ Max(Indexes(loc[p].spec) \cup {0}) >= MaxIndex
    /\ loc' = [loc EXCEPT ![p] = Idle]
    /\ UNCHANGED <<tables, world, spaces, refused, used>>

-----------------------------------------------------------------------------
\* isolated_workspaces: two clones, one after the other.

Clonable(commit) == source.present /\ commit \in source.held

\* Mutant: the clone stays at HEAD.
CloneAtHead(p) == [commit |-> source.head, policy |-> None, touched |-> {}]

\* A clone at the frozen commit, whatever HEAD is by now.
Clone(p) == [commit |-> specs[loc[p].spec].commit, policy |-> None, touched |-> {}]

_clone_at_commit(p, condition, from, to) ==
    /\ At(p, from)
    /\ Clonable(specs[loc[p].spec].commit)
    /\ spaces' = [spaces EXCEPT ![p][condition] = Clone(p)]
    /\ Go(p, to)
    /\ UNCHANGED <<tables, world, refused, used>>

\* The commit or the repository is gone, or git fails: the directory is to be
\* removed, and the conditions are recorded as errors.
Isolation(p) ==
    /\ loc[p].pc \in {"clone_baseline", "clone_candidate"}
    /\ \/ /\ ~ Clonable(specs[loc[p].spec].commit)
          /\ UNCHANGED used
       \/ used.faults < MaxFaults /\ Spend("faults")
    /\ _remove_workspace(p)
    /\ Go(p, "error_baseline")
    /\ UNCHANGED <<tables, world>>

-----------------------------------------------------------------------------
\* _run_condition.

_order_for(id, index) ==
    LET mode == specs[id].mode IN
    IF mode = "candidate_first" \/ (mode = "alternating" /\ index % 2 = 0)
    THEN <<"candidate", "baseline">>
    ELSE <<"baseline", "candidate">>

Order(p) == _order_for(loc[p].spec, loc[p].index)
Condition(p) == Order(p)[loc[p].position]

PositionOf(p, condition) == IF Order(p)[1] = condition THEN 1 ELSE 2

\* Mutant: dirs[...] names one directory for both.
SharedDir(p) == "candidate"

\* The workspace the commands of this condition run in.
Dir(p) == Condition(p)

Space(p) == spaces[p][Dir(p)]

Entered(p, space) == spaces' = [spaces EXCEPT ![p][Dir(p)] = space]

\* The candidate gets the frozen policy, the baseline nothing; then
\* run_command starts the agent (done = 0), or the first verifier.
Launch(p) ==
    /\ At(p, "condition")
    /\ Condition(p) = "candidate" => Space(p).commit \notin Unsafe
    /\ Entered(p, [Space(p) EXCEPT
            !.policy = IF Condition(p) = "candidate" THEN specs[loc[p].spec].content ELSE @,
            !.touched = @ \cup {<<loc[p].index, Condition(p)>>}])
    /\ loc' = [loc EXCEPT ![p] = [@ EXCEPT !.pc = "waiting", !.passed = {},
                                          !.done = IF specs[loc[p].spec].agent THEN 0 ELSE 1]]
    /\ UNCHANGED <<tables, world, refused, used>>

\* The Stage 7 writer refuses (SafetyError): the run is recorded as failed.
Refuse(p) ==
    /\ At(p, "condition")
    /\ Condition(p) = "candidate"
    /\ Space(p).commit \in Unsafe
    /\ Go(p, "record_failed")
    /\ UNCHANGED <<tables, world, spaces, refused, used>>

\* What run_command and run_verifiers make of a command that ended: the next
\* verifier starts, until each has had its turn, failed or not.
Ended(p, ok) ==
    LET n == loc[p].done IN
    /\ At(p, "waiting")
    /\ loc' = [loc EXCEPT ![p] = [loc[p] EXCEPT
            !.pc = IF n = Len(Checks) THEN "record_completed" ELSE "waiting",
            !.done = n + 1,
            !.passed = IF ok /\ n > 0 THEN @ \cup {Checks[n]} ELSE @]]
    /\ UNCHANGED <<tables, world, spaces, refused, used>>

\* The command exits by itself, with 0 or another status.  Nothing makes it.
Exits(p) ==
    /\ At(p, "waiting")
    /\ \E ok \in IF loc[p].done = 0 THEN {TRUE}
                ELSE {FALSE, Checks[loc[p].done] \in CanPass[Condition(p)]} : Ended(p, ok)

\* Mutant: no time limit.
NoTimeout(p) == FALSE

\* It is killed when its time is over, and a verifier has then not passed.
TimesOut(p) == Ended(p, FALSE)

\* Its output is not text: the exception passes every handler of the service.
Undecodable(p) ==
    /\ At(p, "waiting")
    /\ used.faults < MaxFaults
    /\ Spend("faults")
    /\ Die(p)
    /\ UNCHANGED <<tables, world>>

-----------------------------------------------------------------------------
\* record_evaluation_run: the row and its verifier results, one transaction.

\* The columns of the row; by and space are history: the handler, and what
\* the workspace held.
Row(p, condition, status) ==
    [status |-> status, position |-> PositionOf(p, condition),
     passed |-> IF status = "completed" THEN loc[p].passed ELSE {},
     by |-> p, space |-> IF status = "error" THEN None ELSE Space(p)]

Key(p, condition) == <<loc[p].spec, loc[p].index, condition>>

\* Mutant: INSERT OR IGNORE.
ignore_evaluation_run(p, condition, status, next) ==
    /\ runs' = IF Key(p, condition) \in DOMAIN runs THEN runs
               ELSE Put(runs, Key(p, condition), Row(p, condition, status))
    /\ loc' = [loc EXCEPT ![p] = next]
    /\ UNCHANGED <<spaces, refused>>

\* UNIQUE (evaluation_id, repetition_index, condition): whoever comes second
\* dies of it.
record_evaluation_run(p, condition, status, next) ==
    IF Key(p, condition) \in DOMAIN runs
    THEN Die(p) /\ UNCHANGED runs
    ELSE /\ runs' = Put(runs, Key(p, condition), Row(p, condition, status))
         /\ loc' = [loc EXCEPT ![p] = next]
         /\ UNCHANGED <<spaces, refused>>

\* The end of _run_condition: the other condition, or the end of the block.
Record(p) ==
    /\ loc[p].pc \in {"record_completed", "record_failed"}
    /\ record_evaluation_run(p, Condition(p),
           IF At(p, "record_completed") THEN "completed" ELSE "failed",
           [loc[p] EXCEPT !.pc = IF loc[p].position = 2 THEN "leave" ELSE "condition",
                          !.position = 2, !.done = 0, !.passed = {}])
    /\ UNCHANGED <<specs, comparisons, world, used>>

\* The handler of IsolationError: no condition has run, both get a row.
RecordErrors(p) ==
    /\ \/ /\ At(p, "error_baseline")
          /\ record_evaluation_run(p, "baseline", "error", [loc[p] EXCEPT !.pc = "error_candidate"])
       \/ /\ At(p, "error_candidate")
          /\ record_evaluation_run(p, "candidate", "error", [loc[p] EXCEPT !.pc = "compare"])
    /\ UNCHANGED <<specs, comparisons, world, used>>

\* The end of the with block; the handler goes on, whatever stays.
Leave(p) ==
    /\ At(p, "leave")
    /\ _remove_workspace(p)
    /\ Go(p, "compare")
    /\ UNCHANGED <<tables, world, used>>

-----------------------------------------------------------------------------
\* compare_runs, on the rows of both conditions.

Primary == Checks[1]
Regressions(baseline, candidate) == baseline.passed \ candidate.passed

compare_runs(baseline, candidate) ==
    LET b == Primary \in baseline.passed
        c == Primary \in candidate.passed
        regressions == Regressions(baseline, candidate)
        outcome == IF b /\ ~ c THEN "regressed"
                   ELSE IF c /\ ~ b THEN "improved"
                   ELSE IF regressions # {} THEN "regressed" ELSE "unchanged"
    IN IF baseline.status # "completed" \/ candidate.status # "completed"
       THEN [outcome |-> "invalid", regressions |-> {}]
       ELSE [outcome |-> outcome, regressions |-> regressions]

\* The row of a comparison; by is history.
Judged(p, result) == [outcome |-> result.outcome, regressions |-> result.regressions, by |-> p]

\* Mutant: the two runs are passed in the other order.
swapped_evaluation_comparison(p) ==
    /\ At(p, "compare")
    /\ comparisons' = Put(comparisons, Cell(p),
           Judged(p, compare_runs(runs[Key(p, "candidate")], runs[Key(p, "baseline")])))
    /\ Go(p, "next")
    /\ UNCHANGED <<specs, runs, spaces, refused, world, used>>

record_evaluation_comparison(p) ==
    /\ At(p, "compare")
    /\ IF Cell(p) \in DOMAIN comparisons
       THEN Die(p) /\ UNCHANGED comparisons
       ELSE /\ comparisons' = Put(comparisons, Cell(p),
                  Judged(p, compare_runs(runs[Key(p, "baseline")], runs[Key(p, "candidate")])))
            /\ Go(p, "next")
            /\ UNCHANGED <<spaces, refused>>
    /\ UNCHANGED <<specs, runs, world, used>>

-----------------------------------------------------------------------------
\* The process is killed: nothing removes its directory.
Crash(p) ==
    /\ loc[p].pc \notin {"idle", "killed"}
    /\ used.faults < MaxFaults
    /\ Spend("faults")
    /\ loc' = [loc EXCEPT ![p] = [Idle EXCEPT !.pc = "killed"]]
    /\ UNCHANGED <<tables, world, spaces, refused>>

\* Stage 7 goes on with the review (ReviewApply.tla).
Reviewed ==
    \/ \E t \in Texts \ {review.content} :
          /\ review' = [review EXCEPT !.status = "edited", !.content = t, !.revision = @ + 1]
          /\ written' = Append(written, t)
    \/ /\ \/ \E s \in Decisions \ {review.status} :
                  review' = [review EXCEPT !.status = s]
          \/ ~ review.stale /\ review' = [review EXCEPT !.stale = TRUE]
       /\ UNCHANGED written

\* The developer commits or resets, loses a commit, or moves the repository.
SourceChanges ==
    \/ \E c \in source.held \ {source.head} : source' = [source EXCEPT !.head = c]
    \/ \E c \in source.held \ {source.head} : source' = [source EXCEPT !.held = @ \ {c}]
    \/ source' = [source EXCEPT !.present = ~ @]

Outside ==
    /\ used.outside < MaxOutside
    /\ Spend("outside")
    /\ \/ Reviewed /\ UNCHANGED source
       \/ SourceChanges /\ UNCHANGED <<review, written>>
    /\ UNCHANGED <<tables, spaces, refused, loc>>

Step(p) ==
    \/ Unresolved(p) \/ create_spec(p)
    \/ next_evaluation_repetition(p) \/ Return(p)
    \/ _clone_at_commit(p, "baseline", "clone_baseline", "clone_candidate")
    \/ _clone_at_commit(p, "candidate", "clone_candidate", "condition")
    \/ Isolation(p)
    \/ Launch(p) \/ Refuse(p) \/ TimesOut(p)
    \/ Record(p) \/ RecordErrors(p) \/ Leave(p)
    \/ record_evaluation_comparison(p)

Next ==
    \/ \E p \in Procs : cmd_eval_run(p) \/ Step(p) \/ Exits(p) \/ Undecodable(p) \/ Crash(p)
    \/ Outside

\* A started handler goes on; a command that does not end by itself is killed
\* when its time is over.  Nobody has to run `eval run`, no command has to end.
Fairness == \A p \in Procs : WF_vars(Step(p))

Spec == Init /\ [][Next]_vars /\ Fairness

-----------------------------------------------------------------------------
\* Type invariant.

Spaces == [commit : Commits, policy : Texts \cup {None}, touched : SUBSET (Nat \X Conditions)]

Frozen == [content : Texts, revision : Nat]

SpecRows == [content : Texts, revision : Nat, commit : Commits, mode : Modes, agent : Agents]

RunRows == [status : RunStatuses, position : {1, 2}, passed : SUBSET Names,
            by : Procs, space : Spaces \cup {None}]

ComparisonRows == [outcome : Outcomes, regressions : SUBSET Names, by : Procs]

Pcs == {"idle", "killed", "freeze", "next", "clone_baseline", "clone_candidate",
        "error_baseline", "error_candidate", "condition", "waiting",
        "record_completed", "record_failed", "leave", "compare"}

Locals == [pc : Pcs, spec : SpecIds \cup {None}, mode : Modes \cup {None},
           frozen : Frozen \cup {None}, left : Nat, index : Nat, position : {1, 2},
           done : 0 .. Len(Checks) + 1, passed : SUBSET Names]

\* Every row, workspace and local has its type, and repetitions count from 1
\* (next_evaluation_repetition, 0006_evaluation.sql).
TypeOK ==
    /\ review \in [status : {"accepted", "edited"} \cup Decisions,
                   revision : Nat, content : Texts, stale : BOOLEAN]
    /\ written \in Seq(Texts)
    /\ source \in [head : Commits, held : SUBSET Commits, present : BOOLEAN]
    /\ DOMAIN specs \subseteq SpecIds
    /\ \A id \in DOMAIN specs : specs[id] \in SpecRows
    /\ DOMAIN runs \subseteq SpecIds \X (Nat \ {0}) \X Conditions
    /\ \A k \in DOMAIN runs : runs[k] \in RunRows
    /\ DOMAIN comparisons \subseteq SpecIds \X (Nat \ {0})
    /\ \A k \in DOMAIN comparisons : comparisons[k] \in ComparisonRows
    /\ spaces \in [Procs -> [Conditions -> Spaces \cup {None}]]
    /\ refused \subseteq Procs
    /\ loc \in [Procs -> Locals]

-----------------------------------------------------------------------------
\* Safety.

RunOf(k, condition) == <<k[1], k[2], condition>>

\* Two processes may run the same repetition at once, and one of them may
\* write the error rows in another order than the other its results: what is
\* compared is always the pair of one process, never the baseline of one with
\* the candidate of the other (_run_pair, record_evaluation_run).
OnePairOneHandler ==
    \A k \in DOMAIN comparisons : \A c \in Conditions :
        /\ RunOf(k, c) \in DOMAIN runs
        /\ runs[RunOf(k, c)].by = comparisons[k].by

\* The frozen content is that of the frozen revision, although the review may
\* be edited while the repository is being read (create_spec).
SpecIsOneRevision ==
    \A id \in DOMAIN specs :
        /\ specs[id].revision \in DOMAIN written
        /\ specs[id].content = written[specs[id].revision]

\* Every repetition of an evaluation, however late, started from the frozen
\* commit and tried the frozen policy, whatever has become of HEAD and of the
\* review (evaluation_specs, isolated_workspaces, apply_candidate_policy).
FrozenInputs ==
    \A k \in DOMAIN runs :
        runs[k].status # "error" =>
            /\ runs[k].space.commit = specs[k[1]].commit
            /\ runs[k].space.policy \in {None, specs[k[1]].content}
            /\ (k[3] = "candidate" /\ runs[k].status = "completed") =>
                   runs[k].space.policy = specs[k[1]].content

\* The commands of one condition never ran in a workspace that the other
\* condition, or an earlier repetition whose directory could not be removed, had
\* used, and the baseline never saw the policy (_run_pair, _run_condition).
ConditionsApart ==
    \A k \in DOMAIN runs :
        runs[k].status # "error" =>
            /\ runs[k].space.touched \subseteq {<<k[2], k[3]>>}
            /\ k[3] = "baseline" => runs[k].space.policy = None

\* Only completed pairs are judged, and a check the baseline passed and the
\* candidate failed is reported: such a pair is never unchanged, and when it
\* counts as improved its regressions are listed (compare.py:4-8).
NoHiddenRegression ==
    \A k \in DOMAIN comparisons :
        LET b == runs[RunOf(k, "baseline")]
            c == runs[RunOf(k, "candidate")]
            lost == {n \in Names : n \in b.passed /\ n \notin c.passed}
        IN comparisons[k].outcome # "invalid" =>
            /\ b.status = "completed" /\ c.status = "completed"
            /\ comparisons[k].regressions = lost
            /\ lost # {} => comparisons[k].outcome # "unchanged"
            /\ comparisons[k].outcome = "improved" => Primary \in c.passed

\* Whatever way a handler goes, by any exception, its workspaces stay only if it
\* was killed in them or the system refused to remove them: there is no way out
\* on which nobody tries (isolated_workspaces).
WorkspacesRemoved ==
    \A p \in Procs :
        spaces[p] # NoSpaces => loc[p].pc \in Within \cup {"killed"} \/ p \in refused

-----------------------------------------------------------------------------
\* Liveness.

\* Every `eval run` comes to an end, though its agent or a verifier may never
\* end by itself: run_command gives each command a time limit.
Answered ==
    \A p \in Procs : loc[p].pc \notin {"idle", "killed"} ~> loc[p].pc \in {"idle", "killed"}

=============================================================================
