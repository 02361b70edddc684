----------------------------- MODULE ReviewApply -----------------------------
(***************************************************************************)
(* Stage 7, Review & Apply (review/service.py over storage/repository.py). *)
(*                                                                         *)
(* One proposal set and its one review row, the preview and application    *)
(* ledgers, and the policy files.  Every request is served by a process    *)
(* that owns a database connection: a CLI invocation, or a thread of the   *)
(* UI's HTTP server.  A process runs one handler at a time; its steps are  *)
(* the statements that touch shared state, one database statement or       *)
(* transaction, one read or one replacement of a file each.  Besides them  *)
(* Stage 6 regenerates the proposals, triage deletes them, people edit the *)
(* policy files, and any handler can be cut short.                         *)
(***************************************************************************)
EXTENDS PolicyTarget, Naturals, Sequences

CONSTANTS
    Procs,      \* handlers that may run at the same time
    OpsOf,      \* process -> the operations it may be asked for
    Fps,        \* source fingerprints of the proposal set
    Edits,      \* bodies a person may type into Edit
    Targets,    \* explicit targets given with Accept or Preview
    MaxOps,     \* bound on requests
    MaxRegen,   \* bound on regenerations and deletions of the proposal set
    MaxHuman,   \* bound on edits of the policy files by people
    MaxFaults   \* bound on crashes and failed system calls

VARIABLES
    set,        \* source_fingerprint of the proposal set, None when deleted
    review,     \* the policy_reviews row of the set, None when not created
    variants,   \* policy_review_variants
    latest,     \* the newest row of policy_review_previews, or None
    apps,       \* policy_applications, by id
    audit,      \* status change of the newest row of policy_review_actions
    files,      \* path -> policy file
    pc,         \* process -> the step its handler is at
    loc,        \* process -> the local variables of its handler
    approved,   \* history: <<placement, content>> pairs an Accept committed
    written,    \* history: ids of the applications whose write hit the disk
    used        \* how much of each bound is spent

database == <<set, review, variants, latest, apps, audit>>
history == <<approved, written>>
vars == <<database, files, pc, loc, history, used>>

\* Stage 6 is deterministic: the fingerprint fixes every alternative's text.
Proposed(fp, placement) == <<fp, placement>>

ASSUME ContentsAreTexts == Contents = Edits \cup (Fps \X Placements)
ASSUME TargetsAssumption == Targets \subseteq Paths
ASSUME NoneAssumption == None \notin Fps /\ None \notin Agents /\ None \notin Paths
                         /\ Missing # None
ASSUME BoundsAssumption == {MaxOps, MaxRegen, MaxHuman, MaxFaults} \subseteq Nat

Operable == {"accepted", "applied"}
Statuses == Operable \cup {"unreviewed", "rejected", "deferred", "test_first", "stale"}

Requests ==
         [op : {"accept", "preview"}, agent : Agents \cup {None}, target : Targets \cup {None}]
    \cup [op : {"reject", "defer", "test_first"}]
    \cup [op : {"edit"}, content : Edits]
    \cup [op : {"choose"}, placement : Placements]
    \cup [op : {"apply"}, dry : BOOLEAN]

\* preview and apply never create the review, nor write it when it is stale.
ReadFirst == {"preview", "apply"}

NewReview(fp, placement) ==
    [status |-> "unreviewed", selected |-> placement, fp |-> fp, override |-> None,
     revision |-> 0, agent |-> None, target |-> None]

effective_content(r) ==
    IF r.override # None THEN r.override ELSE Proposed(r.fp, r.selected)

NoWork == [req |-> None, row |-> None, from |-> None, view |-> None, built |-> None,
           seen |-> None, app |-> 0, result |-> None]

Init ==
    /\ set \in Fps
    /\ review = None
    /\ variants = {}
    /\ latest = None
    /\ apps = <<>>
    /\ audit = [from |-> None, to |-> None]
    /\ files = [path \in Paths |-> Missing]
    /\ pc = [p \in Procs |-> "idle"]
    /\ loc = [p \in Procs |-> NoWork]
    /\ approved = {}
    /\ written = {}
    /\ used = [ops |-> 0, regen |-> 0, human |-> 0, faults |-> 0]

Spend(what) == used' = [used EXCEPT ![what] = @ + 1]

\* Process p goes on to step l with its locals changed to new.
Goto(p, l, new) ==
    /\ pc' = [pc EXCEPT ![p] = l]
    /\ loc' = [loc EXCEPT ![p] = new]

\* The handler of p is over: it returned, or it raised.
End(p) == Goto(p, "idle", NoWork)

Req(p) == loc[p].req
Row(p) == loc[p].row
Local(p) == UNCHANGED <<database, files, history, used>>

-----------------------------------------------------------------------------
\* How every handler begins: find the review, check that it is not stale.

Start(p) ==
    /\ pc[p] = "idle"
    /\ used.ops < MaxOps
    /\ \E r \in Requests :
          /\ r.op \in OpsOf[p]
          /\ Goto(p, "load", [NoWork EXCEPT !.req = r])
    /\ Spend("ops")
    /\ UNCHANGED <<database, files, history>>

\* Decisions go on with the row alone, choose also needs the proposal set, and
\* preview and apply want the set to be the one the review was made for.
Load(p) ==
    /\ pc[p] = "load"
    /\ review # None
    /\ Req(p).op \in ReadFirst \cup {"choose"} => set # None
    /\ Req(p).op \in ReadFirst => set = review.fp
    /\ Goto(p, "fresh", [loc[p] EXCEPT !.row = review])
    /\ Local(p)

\* _ensure, up to the insertion.  The request names any alternative of the set.
Ensure(p) ==
    /\ pc[p] = "load"
    /\ review = None /\ set # None
    /\ Req(p).op \notin ReadFirst
    /\ \E pt \in Placements : Goto(p, "insert", [loc[p] EXCEPT !.row = NewReview(set, pt)])
    /\ Local(p)

LoadRefused(p) ==
    /\ pc[p] = "load"
    /\ \/ review = None /\ (set = None \/ Req(p).op \in ReadFirst)
       \/ review # None /\ set = None /\ Req(p).op = "choose"
       \/ review # None /\ set # review.fp /\ Req(p).op \in ReadFirst
    /\ End(p)
    /\ Local(p)

create_policy_review(p) ==
    /\ pc[p] = "insert"
    /\ review = None
    /\ review' = Row(p)
    /\ audit' = [from |-> None, to |-> "unreviewed"]
    /\ Goto(p, "load", [NoWork EXCEPT !.req = Req(p)])
    /\ UNCHANGED <<set, variants, latest, apps, files, history, used>>

\* Another process created the review meanwhile.  create_policy_review returns
\* that row if its own look came later, else the insertion breaks UNIQUE.
CreatedByOther(p) ==
    /\ pc[p] = "insert"
    /\ review # None
    /\ Goto(p, "load", [NoWork EXCEPT !.req = Req(p)]) \/ End(p)
    /\ Local(p)

AfterFresh(op) ==
    CASE op = "edit"    -> "variant"
      [] op = "preview" -> "build"
      [] op = "apply"   -> "pending"
      [] OTHER          -> "update"

_assert_fresh(p) ==
    /\ pc[p] = "fresh"
    /\ set = Row(p).fp
    /\ Req(p).op \in ReadFirst => Row(p).status \in Operable
    /\ Goto(p, AfterFresh(Req(p).op), loc[p])
    /\ Local(p)

FreshRefused(p) ==
    /\ pc[p] = "fresh"
    /\ \/ set = None
       \/ set = Row(p).fp /\ Req(p).op \in ReadFirst /\ Row(p).status \notin Operable
    /\ End(p)
    /\ Local(p)

\* The handler turns into the one that records the review as stale and raises.
FoundStale(p) ==
    /\ pc[p] = "fresh"
    /\ set # None /\ set # Row(p).fp
    /\ Goto(p, "update", [loc[p] EXCEPT !.req = [op |-> "stale"]])
    /\ Local(p)

-----------------------------------------------------------------------------
\* Decisions.  update_policy_review reads the row again, outside the
\* transaction that then writes it; `from` is the status it read.

NewRevision(p) == Row(p).revision + 1

record_policy_variant(p) ==
    /\ pc[p] = "variant"
    /\ \A v \in variants : v.revision # NewRevision(p)
    /\ variants' = variants \cup {[revision |-> NewRevision(p), content |-> Req(p).content]}
    /\ Goto(p, "update", loc[p])
    /\ UNCHANGED <<set, review, latest, apps, audit, files, history, used>>

\* PRIMARY KEY (review_id, revision): another edit took the number.
VariantTaken(p) ==
    /\ pc[p] = "variant"
    /\ \E v \in variants : v.revision = NewRevision(p)
    /\ End(p)
    /\ Local(p)

ReadExisting(p) ==
    /\ pc[p] = "update"
    /\ Goto(p, "commit", [loc[p] EXCEPT !.from = review.status])
    /\ Local(p)

update_policy_review(p, new) ==
    /\ review' = new
    /\ audit' = [from |-> loc[p].from, to |-> new.status]
    /\ End(p)
    /\ UNCHANGED <<set, variants, latest, apps, files, written, used>>

OrElse(given, old) == IF given # None THEN given ELSE old

accept(p) ==
    /\ pc[p] = "commit" /\ Req(p).op = "accept"
    /\ update_policy_review(p, [review EXCEPT
            !.status = "accepted",
            !.agent = OrElse(Req(p).agent, @),
            !.target = OrElse(Req(p).target, @)])
    /\ approved' = approved \cup {<<review.selected, effective_content(review)>>}

DecidedStatus ==
    [reject |-> "rejected", defer |-> "deferred", test_first |-> "test_first",
     stale |-> "stale"]

\* reject, defer, test_first, and the stale mark of _assert_fresh.
_act(p) ==
    /\ pc[p] = "commit" /\ Req(p).op \in DOMAIN DecidedStatus
    /\ update_policy_review(p, [review EXCEPT !.status = DecidedStatus[Req(p).op]])
    /\ UNCHANGED approved

\* Mutant: the edit keeps the status, so an accepted review stays accepted.
edit_keeps_status(p) ==
    /\ pc[p] = "commit" /\ Req(p).op = "edit"
    /\ update_policy_review(p, [review EXCEPT
            !.override = Req(p).content,
            !.revision = NewRevision(p)])
    /\ UNCHANGED approved

\* Mutant: the update forgets content_revision.
edit_keeps_revision(p) ==
    /\ pc[p] = "commit" /\ Req(p).op = "edit"
    /\ update_policy_review(p, [review EXCEPT
            !.status = "unreviewed",
            !.override = Req(p).content])
    /\ UNCHANGED approved

edit(p) ==
    /\ pc[p] = "commit" /\ Req(p).op = "edit"
    /\ update_policy_review(p, [review EXCEPT
            !.status = "unreviewed",
            !.override = Req(p).content,
            !.revision = NewRevision(p)])
    /\ UNCHANGED approved

\* Mutant: another alternative keeps the acceptance of the one before.
choose_keeps_status(p) ==
    /\ pc[p] = "commit" /\ Req(p).op = "choose"
    /\ update_policy_review(p, [review EXCEPT
            !.selected = Req(p).placement,
            !.override = None,
            !.revision = NewRevision(p)])
    /\ UNCHANGED approved

choose(p) ==
    /\ pc[p] = "commit" /\ Req(p).op = "choose"
    /\ update_policy_review(p, [review EXCEPT
            !.status = "unreviewed",
            !.selected = Req(p).placement,
            !.override = None,
            !.revision = NewRevision(p)])
    /\ UNCHANGED approved

-----------------------------------------------------------------------------
\* Preview: render against the file as it is, record, update the review.

\* A preview may name an agent and a target; apply uses the row it read.
Agent(p) ==
    IF Req(p).op = "preview" THEN OrElse(Req(p).agent, Row(p).agent) ELSE Row(p).agent
Given(p) ==
    IF Req(p).op = "preview" THEN OrElse(Req(p).target, Row(p).target) ELSE Row(p).target
Target(p) == Resolve(Row(p).selected, Agent(p), Given(p))
Body(p) == IF Req(p).op = "preview" THEN effective_content(Row(p)) ELSE loc[p].view.content

\* build_preview returns: neither resolve_target nor the render raises.
Buildable(p) ==
    /\ Resolvable(Row(p).selected, Agent(p), Given(p))
    /\ Renderable(files[Target(p)], Body(p))

Rendered(p) == render_target(files[Target(p)], Row(p).selected, Agent(p), Body(p))

\* The Preview object, as far as the write needs it.
Build(p) == [before |-> files[Target(p)], after |-> Rendered(p)]

\* apply goes on if the file has the block already, or if what it is about to
\* write is what the preview showed.
Writable(p) ==
    Req(p).op = "apply" =>
        /\ set # None
        /\ \/ files[Target(p)] = Rendered(p)
           \/ /\ files[Target(p)] = loc[p].view.target_hash
              /\ Rendered(p) = loc[p].view.output_hash

preview(p) ==
    /\ pc[p] = "build" /\ Req(p).op = "preview"
    /\ Buildable(p)
    /\ Goto(p, "record", [loc[p] EXCEPT !.built = Build(p)])
    /\ Local(p)

BuildRefused(p) ==
    /\ pc[p] = "build"
    /\ ~(Buildable(p) /\ Writable(p))
    /\ End(p)
    /\ Local(p)

record_policy_preview(p) ==
    /\ pc[p] = "record"
    /\ latest' = [path |-> Target(p), target_hash |-> loc[p].built.before,
                  output_hash |-> loc[p].built.after, content |-> Body(p), consumed |-> FALSE]
    /\ Goto(p, "update", loc[p])
    /\ UNCHANGED <<set, review, variants, apps, audit, files, history, used>>

\* The update names no status, so it writes back the one it read.
previewed(p) ==
    /\ pc[p] = "commit" /\ Req(p).op = "preview"
    /\ update_policy_review(p, [review EXCEPT
            !.status = loc[p].from,
            !.agent = Agent(p),
            !.target = Target(p)])
    /\ UNCHANGED approved

-----------------------------------------------------------------------------
\* Apply.

Pending == {a \in DOMAIN apps : apps[a].outcome = "pending"}

\* Mutant: an apply does not look for a pending one.
CheckNothing(p) ==
    /\ pc[p] = "pending"
    /\ latest # None /\ ~Req(p).dry
    /\ Goto(p, "build", [loc[p] EXCEPT !.view = latest])
    /\ Local(p)

CheckPending(p) ==
    /\ pc[p] = "pending"
    /\ Pending = {}
    /\ latest # None /\ ~Req(p).dry
    /\ Goto(p, "build", [loc[p] EXCEPT !.view = latest])
    /\ Local(p)

\* With a preview, all that is left of a dry run is reading.
ApplyRefused(p) ==
    /\ pc[p] = "pending"
    /\ \/ Pending # {}
       \/ latest = None /\ ~Req(p).dry
       \/ latest # None /\ Req(p).dry
    /\ End(p)
    /\ Local(p)

\* Without one, a dry run previews first, as a request of its own would.
DryRunPreviews(p) ==
    /\ pc[p] = "pending"
    /\ Pending = {}
    /\ latest = None /\ Req(p).dry
    /\ Goto(p, "load", [NoWork EXCEPT !.req = [op |-> "preview", agent |-> None, target |-> None]])
    /\ Local(p)

apply(p) ==
    /\ pc[p] = "build" /\ Req(p).op = "apply"
    /\ Buildable(p) /\ Writable(p)
    /\ Goto(p, "begin", [loc[p] EXCEPT !.built = Build(p)])
    /\ Local(p)

\* Mutant: the caller does not keep the id of the application.
begin_without_id(p) ==
    /\ pc[p] = "begin"
    /\ apps' = Append(apps, [path |-> Target(p), before |-> loc[p].built.before,
                             after |-> loc[p].built.after, outcome |-> "pending"])
    /\ audit' = [from |-> Row(p).status, to |-> Row(p).status]
    /\ Goto(p, IF loc[p].built.before = loc[p].built.after THEN "finalize" ELSE "recheck",
            [loc[p] EXCEPT !.result = "already_applied"])
    /\ UNCHANGED <<set, review, variants, latest, files, history, used>>

begin_policy_application(p) ==
    /\ pc[p] = "begin"
    /\ apps' = Append(apps, [path |-> Target(p), before |-> loc[p].built.before,
                             after |-> loc[p].built.after, outcome |-> "pending"])
    /\ audit' = [from |-> Row(p).status, to |-> Row(p).status]
    /\ LET mine == [loc[p] EXCEPT !.app = Len(apps) + 1]
       IN  IF mine.built.before = mine.built.after
           THEN Goto(p, "finalize", [mine EXCEPT !.result = "already_applied"])
           ELSE Goto(p, "recheck", mine)
    /\ UNCHANGED <<set, review, variants, latest, files, history, used>>

\* Mutant: apply_preview does not compare the hash.
RecheckNothing(p) ==
    /\ pc[p] = "recheck"
    /\ LET current == files[Target(p)]
       IN  IF current = loc[p].built.after
           THEN Goto(p, "finalize", [loc[p] EXCEPT !.result = "already_applied"])
           ELSE Goto(p, "replace", [loc[p] EXCEPT !.seen = current])
    /\ Local(p)

\* apply_preview reads the target once more, then compares hashes.
Recheck(p) ==
    /\ pc[p] = "recheck"
    /\ LET current == files[Target(p)]
       IN  CASE current = loc[p].built.after ->
                  Goto(p, "finalize", [loc[p] EXCEPT !.result = "already_applied"])
             [] current # loc[p].built.after /\ current # loc[p].view.target_hash ->
                  Goto(p, "finalize", [loc[p] EXCEPT !.result = "safety_refused"])
             [] OTHER ->
                  Goto(p, "replace", [loc[p] EXCEPT !.seen = current])
    /\ Local(p)

\* Mutant: the text is rendered again from the file as it is now.
OverwriteRerendered(p) ==
    /\ files' = [files EXCEPT ![Target(p)] = Rendered(p)]
    /\ written' = written \cup {loc[p].app}

\* os.replace: whatever the file holds by now is gone.
Overwrite(p) ==
    /\ files' = [files EXCEPT ![Target(p)] = loc[p].built.after]
    /\ written' = written \cup {loc[p].app}

_atomic_replace(p) ==
    /\ pc[p] = "replace"
    /\ Overwrite(p)
    /\ Goto(p, "finalize", [loc[p] EXCEPT !.result = "applied"])
    /\ UNCHANGED <<database, approved, used>>

\* An OSError becomes a SafetyError, also that of the fsync after os.replace.
ReplaceFails(p) ==
    /\ pc[p] = "replace"
    /\ used.faults < MaxFaults
    /\ Overwrite(p) \/ UNCHANGED <<files, written>>
    /\ Goto(p, "finalize", [loc[p] EXCEPT !.result = "safety_refused"])
    /\ Spend("faults")
    /\ UNCHANGED <<database, approved>>

Done == {"applied", "already_applied"}

\* Mutant: the review becomes applied whatever the outcome.
finalize_always_applied(p) ==
    /\ pc[p] = "finalize"
    /\ apps' = [apps EXCEPT ![loc[p].app].outcome = loc[p].result]
    /\ review' = [review EXCEPT !.status = "applied"]
    /\ audit' = [from |-> Row(p).status, to |-> "applied"]
    /\ Goto(p, "consume", loc[p])
    /\ UNCHANGED <<set, variants, latest, files, history, used>>

\* Mutant: the audit row of a finished application names the old status twice.
finalize_audits_old_status(p) ==
    /\ pc[p] = "finalize"
    /\ apps' = [apps EXCEPT ![loc[p].app].outcome = loc[p].result]
    /\ review' = [review EXCEPT !.status = IF loc[p].result \in Done THEN "applied" ELSE @]
    /\ audit' = [from |-> Row(p).status, to |-> Row(p).status]
    /\ Goto(p, "consume", loc[p])
    /\ UNCHANGED <<set, variants, latest, files, history, used>>

finalize_policy_application(p) ==
    /\ pc[p] = "finalize"
    /\ apps' = [apps EXCEPT ![loc[p].app].outcome = loc[p].result]
    /\ IF loc[p].result \in Done
       THEN /\ review' = [review EXCEPT !.status = "applied"]
            /\ audit' = [from |-> Row(p).status, to |-> "applied"]
            /\ Goto(p, "consume", loc[p])
       ELSE /\ audit' = [from |-> Row(p).status, to |-> Row(p).status]
            /\ End(p)
            /\ UNCHANGED review
    /\ UNCHANGED <<set, variants, latest, files, history, used>>

\* A preview's id is its review and its output hash.
consume_policy_preview(p) ==
    /\ pc[p] = "consume"
    /\ latest' = IF latest.output_hash = loc[p].view.output_hash
                 THEN [latest EXCEPT !.consumed = TRUE] ELSE latest
    /\ End(p)
    /\ UNCHANGED <<set, review, variants, apps, audit, files, history, used>>

-----------------------------------------------------------------------------
\* What happens around the handlers.

\* PlacementGenerator.run stores another proposal set, or one after a deletion.
replace_placement_proposal_set ==
    /\ used.regen < MaxRegen
    /\ \E fp \in Fps \ {set} : set' = fp
    /\ Spend("regen")
    /\ UNCHANGED <<review, variants, latest, apps, audit, files, pc, loc, history>>

\* Triage, or a rebuild of the Experiences, deletes the set; the review stays.
set_experience_review ==
    /\ used.regen < MaxRegen
    /\ set # None
    /\ set' = None
    /\ Spend("regen")
    /\ UNCHANGED <<review, variants, latest, apps, audit, files, pc, loc, history>>

\* A person rewrites the human part, drops the managed blocks, or removes the file.
HumanEdit ==
    /\ used.human < MaxHuman
    /\ \E path \in Paths, text \in HumanTexts :
          \E file \in {Missing,
                      [human |-> text, blocks |-> NoBlocks],
                      [human |-> text, blocks |-> Existing(files[path]).blocks]} :
             /\ file # files[path]
             /\ files' = [files EXCEPT ![path] = file]
    /\ Spend("human")
    /\ UNCHANGED <<database, pc, loc, history>>

\* The process dies, or a statement raises (a busy database, a full disk).
Crash(p) ==
    /\ pc[p] # "idle"
    /\ used.faults < MaxFaults
    /\ End(p)
    /\ Spend("faults")
    /\ UNCHANGED <<database, files, history>>

\* One step of the handler that p is running.
Step(p) ==
    \/ Load(p) \/ Ensure(p) \/ LoadRefused(p)
    \/ create_policy_review(p) \/ CreatedByOther(p)
    \/ _assert_fresh(p) \/ FreshRefused(p) \/ FoundStale(p)
    \/ record_policy_variant(p) \/ VariantTaken(p) \/ ReadExisting(p)
    \/ accept(p) \/ _act(p) \/ edit(p) \/ choose(p)
    \/ preview(p) \/ BuildRefused(p) \/ record_policy_preview(p) \/ previewed(p)
    \/ CheckPending(p) \/ ApplyRefused(p) \/ DryRunPreviews(p)
    \/ apply(p) \/ begin_policy_application(p) \/ Recheck(p) \/ _atomic_replace(p)
    \/ finalize_policy_application(p) \/ consume_policy_preview(p)

Next ==
    \/ \E p \in Procs : Start(p) \/ Step(p) \/ ReplaceFails(p) \/ Crash(p)
    \/ replace_placement_proposal_set \/ set_experience_review \/ HumanEdit

Spec == Init /\ [][Next]_vars

-----------------------------------------------------------------------------
\* What the code promises.

ReviewRows == [status : Statuses, selected : Placements, fp : Fps,
               override : Edits \cup {None}, revision : Nat,
               agent : Agents \cup {None}, target : Paths \cup {None}]

Previews == [path : Paths, target_hash : Files, output_hash : Files,
             content : Contents, consumed : BOOLEAN]

Applications == [path : Paths, before : Files, after : Files,
                 outcome : Done \cup {"pending", "safety_refused"}]

ASSUME NoRowIsNone == None \notin ReviewRows /\ None \notin Previews

\* The steps from begin_policy_application on, and those of them at which the
\* handler holds an intent that is not yet settled.
Applying == {"begin", "recheck", "replace", "finalize", "consume"}
Unsettled == {"recheck", "replace", "finalize"}

\* What the locals of a handler hold at each of its steps.
LocalsOK(p) ==
    /\ pc[p] # "idle" => Req(p) \in Requests \cup [op : {"stale"}]
    /\ pc[p] \notin {"idle", "load"} => Row(p) \in ReviewRows
    /\ pc[p] \notin {"idle", "load", "insert"} => review # None
    /\ pc[p] = "variant" => Req(p).op = "edit"
    /\ pc[p] = "build" => Req(p).op \in ReadFirst
    /\ pc[p] = "record" => Req(p).op = "preview"
    /\ pc[p] \in Applying \cup {"pending"} => Req(p).op = "apply"
    /\ pc[p] = "commit" => loc[p].from \in Statuses
    /\ pc[p] \in Applying \cup {"build"} /\ Req(p).op = "apply" =>
          loc[p].view \in Previews /\ latest # None
    /\ \/ pc[p] \in {"record"} \cup Applying
       \/ pc[p] \in {"update", "commit"} /\ Req(p).op = "preview"
       => Resolvable(Row(p).selected, Agent(p), Given(p))
    /\ pc[p] \in {"record", "begin", "recheck", "replace"} =>
          loc[p].built \in [before : Files, after : Files]
    /\ pc[p] \in Unsettled => loc[p].app \in DOMAIN apps
    /\ pc[p] = "finalize" => loc[p].result \in Done \cup {"safety_refused"}

Steps == {"idle", "load", "insert", "fresh", "variant", "update", "commit", "build",
          "record", "pending"} \cup Applying

IsLocals(l) ==
    l = [req |-> l.req, row |-> l.row, from |-> l.from, view |-> l.view, built |-> l.built,
         seen |-> l.seen, app |-> l.app, result |-> l.result]

TablesOK ==
    /\ set \in Fps \cup {None}
    /\ review \in ReviewRows \cup {None}
    /\ variants \subseteq [revision : Nat, content : Edits]
    /\ latest \in Previews \cup {None}
    /\ apps \in Seq(Applications)
    /\ audit \in [from : Statuses \cup {None}, to : Statuses \cup {None}]
    /\ files \in [Paths -> Files]
    /\ approved \subseteq Placements \X Contents
    /\ written \subseteq DOMAIN apps
    /\ used \in [{"ops", "regen", "human", "faults"} -> Nat]

\* Every table and every file holds rows of its schema, and every process is at
\* a step of its handler with the locals that step needs.
TypeOK ==
    /\ TablesOK
    /\ pc \in [Procs -> Steps]
    /\ loc = [p \in Procs |-> loc[p]]
    /\ \A p \in Procs : IsLocals(loc[p]) /\ LocalsOK(p)

\* A review says applied only if some application row says that its content
\* was written or found in place (service.py apply, the ledger as evidence).
AppliedOnRecord ==
    review # None /\ review.status = "applied" =>
        \E a \in DOMAIN apps : apps[a].outcome \in Done

\* A replacement keeps all human text and every other managed block, unless the
\* file changed after apply_preview compared its hash: a change that came any
\* earlier, since the preview, is never lost (targets.py apply_preview).
HumanTextSurvives ==
    [][\A p \in Procs :
          pc[p] = "replace" /\ pc'[p] = "finalize" /\ files[Target(p)] = loc[p].seen =>
              files' = files \/
              KeepsOthers(files[Target(p)], files'[Target(p)],
                          managed_key(Row(p).selected, Agent(p)))]_vars

\* The disk changes only as the application ledger allows: the write-ahead
\* order of begin, replace and finalize, whatever the interleaving or crash.
Ledger == INSTANCE ApplyLedger
LedgerRespected == Ledger!Spec

\* A review is operable only while the placement and content it now shows were
\* explicitly accepted: an edit or a choose needs an Accept of its own
\* (docs/stages/STAGE_7_REPORT.md:60).
OperableIsApproved ==
    review # None /\ review.status \in Operable =>
        <<review.selected, effective_content(review)>> \in approved

\* Every managed block on disk has a content accepted for its placement
\* (STAGE_7_REPORT.md:15, Apply requires a prior Accept).
OnlyApprovedOnDisk ==
    \A path \in Paths : \A k \in Keys :
        files[path] # Missing /\ files[path].blocks[k] # None =>
            <<k[1], files[path].blocks[k]>> \in approved

\* No application is written while an earlier intent is pending
\* (STAGE_7_REPORT.md:135, a pending intent blocks subsequent writes).
PendingBlocksWrites ==
    [][\A a \in written' \ written, b \in Pending : b >= a]_vars

\* The newest audit row ends in the status the review has.
AuditTellsStatus == review # None => audit.to = review.status

\* Between handlers the revision that the next edit will insert is free, so
\* that Edit stays possible; a handler cut short between record_policy_variant
\* and update_policy_review takes that away for good, hence the condition.
NextEditHasRevision ==
    used.faults = 0 /\ review # None /\ (\A p \in Procs : pc[p] = "idle") =>
        \A v \in variants : v.revision # review.revision + 1

\* A decision asked for after the review was marked stale starts from a review
\* of the proposals as they now are (STAGE_7_REPORT.md:67, "A new review and
\* preview are required"; the error says to create one before continuing).
StaleIsRenewed ==
    [][\A p \in Procs :
          pc[p] = "load" /\ pc'[p] = "fresh" /\ review.status = "stale" =>
              loc'[p].row.fp = set]_vars

=============================================================================
