-------------------------- MODULE ReviewApplyProofs --------------------------
(***************************************************************************)
(* Theorems about Review & Apply, for any number of handlers, texts, paths *)
(* and files, and for any bounds.                                          *)
(*                                                                         *)
(* TypeOK is inductive by itself, because it says what the locals of a     *)
(* handler hold at each step.  The rest needs two more facts per process:  *)
(* what it holds is the rendering its preview showed (RendersPreviewed),   *)
(* and its intent is its own and tells what it has done (OwnsIntent).      *)
(*                                                                         *)
(* What an Accept promises holds only while requests come one after the    *)
(* other: the last part assumes one process, which may still crash, and    *)
(* strengthens the invariant (SInv) with what its handler knows: the row   *)
(* it read is the table's, and what it will write was accepted.            *)
(***************************************************************************)
EXTENDS ReviewApply, TLAPS

\* What a handler is about to write is the file its preview was made for, with
\* this policy's block put in.
RendersPreviewed(p) ==
    /\ pc[p] \in {"begin", "recheck", "replace"} =>
          loc[p].built.after = render_target(loc[p].built.before, Row(p).selected, Agent(p), Body(p))
    /\ pc[p] = "begin" => loc[p].built.before = loc[p].built.after \/ loc[p].built.before = loc[p].view.target_hash
    /\ pc[p] \in {"recheck", "replace"} => loc[p].built.before = loc[p].view.target_hash
    /\ pc[p] = "replace" => loc[p].seen = loc[p].built.before

\* The intent of a handler is pending, names what the handler will write, and
\* is in `written` exactly when the handler has written it.
OwnsIntent(p) ==
    pc[p] \in Unsettled =>
        /\ loc[p].app \in Pending
        /\ apps[loc[p].app].path = Target(p)
        /\ pc[p] # "finalize" => apps[loc[p].app].after = loc[p].built.after /\ loc[p].app \notin written
        /\ pc[p] = "finalize" /\ loc[p].result = "applied" => loc[p].app \in written
        /\ pc[p] = "finalize" /\ loc[p].result = "already_applied" => loc[p].app \notin written

OneOwner ==
    \A p, q \in Procs :
        pc[p] \in Unsettled /\ pc[q] \in Unsettled /\ loc[p].app = loc[q].app => p = q

Intents ==
    /\ \A p \in Procs : RendersPreviewed(p) /\ OwnsIntent(p)
    /\ OneOwner

Recorded == \E a \in DOMAIN apps : apps[a].outcome \in Done

\* A handler that knows a review as applied has it from the table, and a new
\* review is not applied.
KnowsFromTable(p) ==
    /\ pc[p] = "insert" => Row(p).status # "applied"
    /\ pc[p] = "commit" /\ loc[p].from = "applied" => Recorded

Inv ==
    /\ TypeOK
    /\ Intents
    /\ AppliedOnRecord
    /\ \A p \in Procs : KnowsFromTable(p)

-----------------------------------------------------------------------------
\* Rendering.

LEMMA RenderTyped ==
    ASSUME NEW file \in Files, NEW pt \in Placements, NEW ag \in Agents, NEW c \in Contents
    PROVE  render_target(file, pt, ag, c) \in Files
<1>1. Existing(file) \in [human : HumanTexts, blocks : [Keys -> Contents \cup {None}]]
  BY HumanTextsAssumption DEF Files, Existing, BlankFile, NoBlocks
<1>2. managed_key(pt, ag) \in Keys
  BY DEF managed_key, Keys
<1> QED
  BY <1>1, <1>2, HumanTextsAssumption DEF render_target, Files

LEMMA RenderKeepsOthers ==
    ASSUME NEW file \in Files, NEW pt \in Placements, NEW ag \in Agents, NEW c \in Contents
    PROVE  KeepsOthers(file, render_target(file, pt, ag, c), managed_key(pt, ag))
<1>1. Existing(file) \in [human : HumanTexts, blocks : [Keys -> Contents \cup {None}]]
  BY HumanTextsAssumption DEF Files, Existing, BlankFile, NoBlocks
<1> QED
  BY <1>1 DEF render_target, KeepsOthers

\* What a person may leave of a file is a file.
LEMMA EditTyped ==
    ASSUME NEW file \in Files, NEW text \in HumanTexts
    PROVE  {Missing, [human |-> text, blocks |-> NoBlocks],
            [human |-> text, blocks |-> Existing(file).blocks]} \subseteq Files
<1>1. NoBlocks \in [Keys -> Contents \cup {None}]
  BY DEF NoBlocks
<1>2. Existing(file).blocks \in [Keys -> Contents \cup {None}]
  BY <1>1 DEF Existing, BlankFile, Files
<1> QED
  BY <1>1, <1>2 DEF Files

LEMMA ResolvedInPaths ==
    ASSUME NEW pt \in Placements, NEW ag \in Agents \cup {None},
           NEW target \in Paths \cup {None}, Resolvable(pt, ag, target)
    PROVE  Resolve(pt, ag, target) \in Paths
  BY DEF Resolvable, Resolve, Paths

LEMMA RequestShape ==
    ASSUME NEW r \in Requests \cup [op : {"stale"}]
    PROVE  /\ r.op \in {"accept", "preview", "reject", "defer", "test_first", "edit",
                        "choose", "apply", "stale"}
           /\ r.op \in {"accept", "preview"} =>
                 r.agent \in Agents \cup {None} /\ r.target \in Paths \cup {None}
           /\ r.op = "edit" => r.content \in Edits
           /\ r.op = "choose" => r.placement \in Placements
  BY TargetsAssumption DEF Requests

-----------------------------------------------------------------------------
\* Type correctness.  A step of process p that keeps the tables typed, and that
\* leaves p's own locals as its next step wants them, keeps everything typed:
\* no step takes away what the locals of another process rely on.

\* p moves, and p alone.
Moves(p) ==
    /\ pc' = [pc EXCEPT ![p] = pc'[p]]
    /\ loc' = [loc EXCEPT ![p] = loc'[p]]
    /\ pc'[p] \in Steps
    /\ IsLocals(loc'[p])

\* Rows are never deleted.
Grows ==
    /\ review # None => review' # None
    /\ latest # None => latest' # None
    /\ DOMAIN apps \subseteq DOMAIN apps'

LEMMA GotoMoves ==
    ASSUME TypeOK, NEW p \in Procs, NEW l \in Steps, NEW new, Goto(p, l, new), IsLocals(new)
    PROVE  Moves(p) /\ pc'[p] = l /\ loc'[p] = new
  BY DEF TypeOK, Goto, Moves

LEMMA OthersTyped ==
    ASSUME NEW q \in Procs, pc'[q] = pc[q], loc'[q] = loc[q], LocalsOK(q), Grows
    PROVE  LocalsOK(q)'
<1>1. Req(q)' = Req(q) /\ Row(q)' = Row(q) /\ Agent(q)' = Agent(q) /\ Given(q)' = Given(q)
  BY DEF Req, Row, Agent, Given
<1> QED
  BY <1>1 DEF LocalsOK, Grows, Resolvable, InRoot

LEMMA HandlerTyped ==
    ASSUME TypeOK, NEW p \in Procs, Moves(p), Grows, TablesOK', LocalsOK(p)'
    PROVE  TypeOK'
<1>1. pc' \in [Procs -> Steps] /\ loc' = [q \in Procs |-> loc'[q]]
  BY DEF TypeOK, Moves
<1>2. ASSUME NEW q \in Procs PROVE IsLocals(loc'[q]) /\ LocalsOK(q)'
  <2>1. CASE q = p
    BY <2>1 DEF Moves
  <2>2. CASE q # p
    <3>1. pc'[q] = pc[q] /\ loc'[q] = loc[q]
      BY <2>2 DEF Moves, TypeOK
    <3> QED
      BY <3>1, OthersTyped DEF TypeOK
  <2> QED
    BY <2>1, <2>2
<1> QED
  BY <1>1, <1>2 DEF TypeOK, IsLocals

LEMMA EndTyped ==
    ASSUME TypeOK, NEW p \in Procs, End(p), Grows, TablesOK'
    PROVE  TypeOK'
<1>1. IsLocals(NoWork)
  BY DEF NoWork, IsLocals
<1>2. Moves(p) /\ pc'[p] = "idle"
  BY <1>1, GotoMoves DEF End, Steps
<1>3. LocalsOK(p)'
  BY <1>2 DEF LocalsOK, Applying, Unsettled
<1> QED
  BY <1>2, <1>3, HandlerTyped

\* Steps that only move p.
LEMMA LocalGrows ==
    ASSUME TypeOK, NEW p \in Procs, Local(p)
    PROVE  Grows /\ TablesOK'
  BY DEF Local, TypeOK, TablesOK, Grows, database, history

LEMMA LocalTyped ==
    ASSUME TypeOK, NEW p \in Procs, NEW l \in Steps, NEW new,
           Goto(p, l, new), Local(p), IsLocals(new), LocalsOK(p)'
    PROVE  TypeOK'
  BY GotoMoves, LocalGrows, HandlerTyped

LEMMA LocalEndTyped ==
    ASSUME TypeOK, NEW p \in Procs, End(p), Local(p)
    PROVE  TypeOK'
  BY LocalGrows, EndTyped

LEMMA FindTyped ==
    ASSUME TypeOK, NEW p \in Procs,
           Load(p) \/ Ensure(p) \/ LoadRefused(p) \/ create_policy_review(p) \/ CreatedByOther(p)
    PROVE  TypeOK'
<1> USE DEF Steps, Applying
<1>0. IsLocals(loc[p]) /\ LocalsOK(p) /\ TablesOK
  BY DEF TypeOK
<1>1. CASE Load(p)
  <2>1. pc'[p] = "fresh" /\ loc'[p] = [loc[p] EXCEPT !.row = review]
    BY <1>1 DEF Load, Goto, TypeOK
  <2>2. LocalsOK(p)'
    BY <1>0, <1>1, <2>1, LocalGrows
       DEF Load, LocalsOK, Req, Row, IsLocals, Grows, TablesOK, Unsettled
  <2> QED
    BY <1>0, <1>1, <2>2, LocalTyped DEF Load, IsLocals
<1>2. CASE Ensure(p)
  <2>1. PICK pt \in Placements :
            Goto(p, "insert", [loc[p] EXCEPT !.row = NewReview(set, pt)])
    BY <1>2 DEF Ensure
  <2>2. pc'[p] = "insert" /\ loc'[p] = [loc[p] EXCEPT !.row = NewReview(set, pt)]
    BY <2>1 DEF Goto, TypeOK
  <2>3. NewReview(set, pt) \in ReviewRows
    BY <1>0, <1>2 DEF Ensure, NewReview, ReviewRows, TablesOK, Statuses
  <2>4. LocalsOK(p)'
    BY <1>0, <1>2, <2>2, <2>3 DEF Ensure, LocalsOK, Req, Row, IsLocals, Unsettled
  <2> QED
    BY <1>0, <1>2, <2>1, <2>4, LocalTyped DEF Ensure, IsLocals
<1>3. CASE LoadRefused(p)
  BY <1>3, LocalEndTyped DEF LoadRefused
<1>4. CASE create_policy_review(p)
  <2>1. Moves(p) /\ pc'[p] = "load" /\ loc'[p] = [NoWork EXCEPT !.req = Req(p)]
    BY <1>4, GotoMoves DEF create_policy_review, IsLocals, NoWork
  <2>2. Grows /\ TablesOK'
    BY <1>0, <1>4 DEF create_policy_review, history, LocalsOK, Grows, TablesOK, Statuses, ReviewRows
  <2>3. LocalsOK(p)'
    BY <1>0, <1>4, <2>1 DEF create_policy_review, LocalsOK, Req, NoWork, Unsettled
  <2> QED
    BY <2>1, <2>2, <2>3, HandlerTyped
<1>5. CASE CreatedByOther(p)
  <2>1. CASE End(p)
    BY <1>5, <2>1, LocalEndTyped DEF CreatedByOther
  <2>2. CASE Goto(p, "load", [NoWork EXCEPT !.req = Req(p)])
    <3>1. pc'[p] = "load" /\ loc'[p] = [NoWork EXCEPT !.req = Req(p)]
      BY <2>2 DEF Goto, TypeOK
    <3>2. LocalsOK(p)'
      BY <1>0, <1>5, <3>1 DEF CreatedByOther, LocalsOK, Req, NoWork, Unsettled
    <3> QED
      BY <1>5, <2>2, <3>2, LocalTyped DEF CreatedByOther, IsLocals, NoWork
  <2> QED
    BY <1>5, <2>1, <2>2 DEF CreatedByOther
<1> QED
  BY <1>1, <1>2, <1>3, <1>4, <1>5

LEMMA FreshTyped ==
    ASSUME TypeOK, NEW p \in Procs, _assert_fresh(p) \/ FreshRefused(p) \/ FoundStale(p)
    PROVE  TypeOK'
<1> USE DEF Steps, Applying
<1>0. IsLocals(loc[p]) /\ LocalsOK(p)
  BY DEF TypeOK
<1>1. CASE _assert_fresh(p)
  <2>1. pc'[p] = AfterFresh(Req(p).op) /\ loc'[p] = loc[p]
    BY <1>1 DEF _assert_fresh, Goto, TypeOK
  <2>2. AfterFresh(Req(p).op) \in {"variant", "build", "pending", "update"}
    BY DEF AfterFresh
  <2>3. LocalsOK(p)'
    BY <1>0, <1>1, <2>1
       DEF _assert_fresh, Local, database, LocalsOK, Req, Row, Unsettled, AfterFresh, ReadFirst
  <2> QED
    BY <1>0, <1>1, <2>2, <2>3, LocalTyped DEF _assert_fresh
<1>2. CASE FreshRefused(p)
  BY <1>2, LocalEndTyped DEF FreshRefused
<1>3. CASE FoundStale(p)
  <2>1. pc'[p] = "update" /\ loc'[p] = [loc[p] EXCEPT !.req = [op |-> "stale"]]
    BY <1>3 DEF FoundStale, Goto, TypeOK
  <2>2. LocalsOK(p)'
    BY <1>0, <1>3, <2>1 DEF FoundStale, Local, database, LocalsOK, Req, Row, Unsettled, IsLocals
  <2> QED
    BY <1>0, <1>3, <2>2, LocalTyped DEF FoundStale, IsLocals
<1> QED
  BY <1>1, <1>2, <1>3

LEMMA EffectiveTyped ==
    ASSUME NEW r \in ReviewRows
    PROVE  effective_content(r) \in Contents
  BY ContentsAreTexts DEF effective_content, Proposed, ReviewRows

\* The agent and the target that a handler works with.
LEMMA AgentTyped ==
    ASSUME NEW p \in Procs, LocalsOK(p), pc[p] \notin {"idle", "load"}
    PROVE  Agent(p) \in Agents \cup {None} /\ Given(p) \in Paths \cup {None}
<1>1. Row(p) \in ReviewRows
  BY DEF LocalsOK
<1>2. Req(p).op = "preview" =>
          Req(p).agent \in Agents \cup {None} /\ Req(p).target \in Paths \cup {None}
  BY RequestShape DEF LocalsOK
<1> QED
  BY <1>1, <1>2 DEF Agent, Given, OrElse, ReviewRows

LEMMA TargetTyped ==
    ASSUME NEW p \in Procs, LocalsOK(p), pc[p] \notin {"idle", "load"},
           Resolvable(Row(p).selected, Agent(p), Given(p))
    PROVE  Target(p) \in Paths /\ Agent(p) \in Agents
<1>1. Row(p).selected \in Placements
  BY DEF LocalsOK, ReviewRows
<1>2. Agent(p) \in Agents
  BY AgentTyped DEF Resolvable
<1> QED
  BY <1>1, <1>2, AgentTyped, ResolvedInPaths DEF Target

\* What every commit of a decision has in common.
LEMMA CommitTyped ==
    ASSUME TypeOK, NEW p \in Procs, pc[p] = "commit", NEW new \in ReviewRows,
           update_policy_review(p, new), approved' \subseteq Placements \X Contents
    PROVE  TypeOK'
<1>1. loc[p].from \in Statuses
  BY DEF TypeOK, LocalsOK
<1>2. new # None
  BY NoRowIsNone
<1>3. TablesOK'
  BY <1>1 DEF update_policy_review, TypeOK, TablesOK, ReviewRows
<1>4. Grows
  BY <1>2 DEF update_policy_review, Grows, TypeOK, TablesOK
<1> QED
  BY <1>3, <1>4, EndTyped DEF update_policy_review

LEMMA DecideTyped ==
    ASSUME TypeOK, NEW p \in Procs,
           \/ record_policy_variant(p) \/ VariantTaken(p) \/ ReadExisting(p)
           \/ accept(p) \/ _act(p) \/ edit(p) \/ choose(p)
    PROVE  TypeOK'
<1> USE DEF Steps, Applying
<1>0. IsLocals(loc[p]) /\ LocalsOK(p) /\ TablesOK
  BY DEF TypeOK
<1>1. CASE record_policy_variant(p)
  <2>1. Moves(p) /\ pc'[p] = "update" /\ loc'[p] = loc[p]
    BY <1>0, <1>1, GotoMoves DEF record_policy_variant
  <2>2. Req(p).content \in Edits /\ NewRevision(p) \in Nat
    BY <1>0, <1>1, RequestShape DEF record_policy_variant, LocalsOK, NewRevision, ReviewRows
  <2>3. Grows /\ TablesOK'
    BY <1>0, <1>1, <2>2 DEF record_policy_variant, history, Grows, TablesOK
  <2>4. LocalsOK(p)'
    BY <1>0, <1>1, <2>1 DEF record_policy_variant, LocalsOK, Req, Row, Unsettled
  <2> QED
    BY <2>1, <2>3, <2>4, HandlerTyped
<1>2. CASE VariantTaken(p)
  BY <1>2, LocalEndTyped DEF VariantTaken
<1>3. CASE ReadExisting(p)
  <2>1. pc'[p] = "commit" /\ loc'[p] = [loc[p] EXCEPT !.from = review.status]
    BY <1>3 DEF ReadExisting, Goto, TypeOK
  <2>2. review.status \in Statuses
    BY <1>0, <1>3 DEF ReadExisting, LocalsOK, TablesOK, ReviewRows
  <2>3. UNCHANGED review /\ Req(p)' = Req(p) /\ Row(p)' = Row(p)
        /\ Agent(p)' = Agent(p) /\ Given(p)' = Given(p)
    BY <1>0, <1>3, <2>1 DEF ReadExisting, Local, database, Req, Row, Agent, Given, IsLocals
  <2>4. LocalsOK(p)'
    BY <1>0, <1>3, <2>1, <2>2, <2>3
       DEF ReadExisting, LocalsOK, Unsettled, IsLocals, Resolvable, InRoot
  <2> QED
    BY <1>0, <1>3, <2>4, LocalTyped DEF ReadExisting, IsLocals
<1>4. CASE accept(p)
  <2>1. Req(p).agent \in Agents \cup {None} /\ Req(p).target \in Paths \cup {None}
    BY <1>0, <1>4, RequestShape DEF accept, LocalsOK
  <2>2. review \in ReviewRows
    BY <1>0, <1>4 DEF accept, LocalsOK, TablesOK
  <2>3. [review EXCEPT !.status = "accepted", !.agent = OrElse(Req(p).agent, @),
                       !.target = OrElse(Req(p).target, @)] \in ReviewRows
    BY <2>1, <2>2 DEF OrElse, ReviewRows, Statuses, Operable
  <2>4. approved' \subseteq Placements \X Contents
    BY <1>0, <1>4, <2>2, EffectiveTyped DEF accept, TablesOK, ReviewRows
  <2> QED
    BY <1>4, <2>3, <2>4, CommitTyped DEF accept
<1>5. CASE _act(p)
  <2>1. DecidedStatus[Req(p).op] \in Statuses
    BY <1>5 DEF _act, DecidedStatus, Statuses
  <2>2. [review EXCEPT !.status = DecidedStatus[Req(p).op]] \in ReviewRows
    BY <1>0, <1>5, <2>1 DEF _act, LocalsOK, TablesOK, ReviewRows
  <2> QED
    BY <1>0, <1>5, <2>2, CommitTyped DEF _act, TablesOK
<1>6. CASE edit(p)
  <2>1. Req(p).content \in Edits /\ NewRevision(p) \in Nat
    BY <1>0, <1>6, RequestShape DEF edit, LocalsOK, NewRevision, ReviewRows
  <2>2. [review EXCEPT !.status = "unreviewed", !.override = Req(p).content,
                       !.revision = NewRevision(p)] \in ReviewRows
    BY <1>0, <1>6, <2>1 DEF edit, LocalsOK, TablesOK, ReviewRows, Statuses
  <2> QED
    BY <1>0, <1>6, <2>2, CommitTyped DEF edit, TablesOK
<1>7. CASE choose(p)
  <2>1. Req(p).placement \in Placements /\ NewRevision(p) \in Nat
    BY <1>0, <1>7, RequestShape DEF choose, LocalsOK, NewRevision, ReviewRows
  <2>2. [review EXCEPT !.status = "unreviewed", !.selected = Req(p).placement,
                       !.override = None, !.revision = NewRevision(p)] \in ReviewRows
    BY <1>0, <1>7, <2>1 DEF choose, LocalsOK, TablesOK, ReviewRows, Statuses
  <2> QED
    BY <1>0, <1>7, <2>2, CommitTyped DEF choose, TablesOK
<1> QED
  BY <1>1, <1>2, <1>3, <1>4, <1>5, <1>6, <1>7

LEMMA RenderedTyped ==
    ASSUME TypeOK, NEW p \in Procs, pc[p] = "build", Buildable(p)
    PROVE  Build(p) \in [before : Files, after : Files]
<1>1. LocalsOK(p) /\ Row(p) \in ReviewRows
  BY DEF TypeOK, LocalsOK
<1>2. Target(p) \in Paths /\ Agent(p) \in Agents
  BY <1>1, TargetTyped DEF Buildable
<1>3. Body(p) \in Contents
  BY <1>1, EffectiveTyped DEF Body, LocalsOK, ReadFirst, Previews
<1>4. files[Target(p)] \in Files
  BY <1>2 DEF TypeOK, TablesOK
<1> QED
  BY <1>1, <1>2, <1>3, <1>4, RenderTyped DEF Build, Rendered, ReviewRows

LEMMA PreviewTyped ==
    ASSUME TypeOK, NEW p \in Procs,
           preview(p) \/ BuildRefused(p) \/ record_policy_preview(p) \/ previewed(p)
    PROVE  TypeOK'
<1> USE DEF Steps, Applying
<1>0. IsLocals(loc[p]) /\ LocalsOK(p) /\ TablesOK
  BY DEF TypeOK
<1>1. CASE preview(p)
  <2> DEFINE new == [loc[p] EXCEPT !.built = Build(p)]
  <2>1. pc'[p] = "record" /\ loc'[p] = new
    BY <1>1 DEF preview, Goto, TypeOK
  <2>2. UNCHANGED review /\ Req(p)' = Req(p) /\ Row(p)' = Row(p)
        /\ Agent(p)' = Agent(p) /\ Given(p)' = Given(p)
    BY <1>0, <1>1, <2>1 DEF preview, Local, database, Req, Row, Agent, Given, IsLocals
  <2>3. LocalsOK(p)'
    BY <1>0, <1>1, <2>1, <2>2, RenderedTyped
       DEF preview, LocalsOK, Unsettled, IsLocals, Resolvable, InRoot, Buildable
  <2>4. IsLocals(new)
    BY <1>0 DEF IsLocals
  <2>5. Goto(p, "record", new) /\ Local(p)
    BY <1>1 DEF preview
  <2> HIDE DEF new
  <2> QED
    BY <2>3, <2>4, <2>5, LocalTyped
<1>2. CASE BuildRefused(p)
  BY <1>2, LocalEndTyped DEF BuildRefused
<1>3. CASE record_policy_preview(p)
  <2>1. Moves(p) /\ pc'[p] = "update" /\ loc'[p] = loc[p]
    BY <1>0, <1>3, GotoMoves DEF record_policy_preview
  <2>2. Target(p) \in Paths
    BY <1>0, <1>3, TargetTyped DEF record_policy_preview, LocalsOK
  <2>3. Body(p) \in Contents
    BY <1>0, <1>3, EffectiveTyped DEF record_policy_preview, LocalsOK, Body
  <2>4. latest' \in Previews
    BY <1>0, <1>3, <2>2, <2>3 DEF record_policy_preview, LocalsOK, Previews
  <2>5. Grows /\ TablesOK'
    BY <1>0, <1>3, <2>4, NoRowIsNone DEF record_policy_preview, history, Grows, TablesOK
  <2>6. UNCHANGED review /\ Req(p)' = Req(p) /\ Row(p)' = Row(p)
        /\ Agent(p)' = Agent(p) /\ Given(p)' = Given(p)
    BY <1>3, <2>1 DEF record_policy_preview, Req, Row, Agent, Given
  <2>7. LocalsOK(p)'
    BY <1>0, <1>3, <2>1, <2>6 DEF record_policy_preview, LocalsOK, Unsettled, Resolvable, InRoot
  <2> QED
    BY <2>1, <2>5, <2>7, HandlerTyped
<1>4. CASE previewed(p)
  <2>1. Target(p) \in Paths /\ Agent(p) \in Agents
    BY <1>0, <1>4, TargetTyped DEF previewed, LocalsOK
  <2>2. [review EXCEPT !.status = loc[p].from, !.agent = Agent(p), !.target = Target(p)]
            \in ReviewRows
    BY <1>0, <1>4, <2>1 DEF previewed, LocalsOK, TablesOK, ReviewRows
  <2> QED
    BY <1>0, <1>4, <2>2, CommitTyped DEF previewed, TablesOK
<1> QED
  BY <1>1, <1>2, <1>3, <1>4

\* A handler that is applying: what its step may rely on.
LEMMA ApplyingFacts ==
    ASSUME TypeOK, NEW p \in Procs, pc[p] \in Applying
    PROVE  /\ Req(p).op = "apply" /\ Row(p) \in ReviewRows
           /\ review \in ReviewRows /\ latest \in Previews /\ loc[p].view \in Previews
           /\ Target(p) \in Paths /\ Agent(p) \in Agents /\ Body(p) \in Contents
<1>1. LocalsOK(p) /\ TablesOK
  BY DEF TypeOK
<1>2. Req(p).op = "apply" /\ Row(p) \in ReviewRows /\ review # None /\ latest # None
      /\ loc[p].view \in Previews
  BY <1>1 DEF LocalsOK, Applying
<1>3. Target(p) \in Paths /\ Agent(p) \in Agents
  BY <1>1, TargetTyped DEF LocalsOK, Applying
<1>4. Body(p) \in Contents
  BY <1>2 DEF Body, Previews
<1> QED
  BY <1>1, <1>2, <1>3, <1>4 DEF TablesOK

\* Steps of an apply that leave its request, its row and the tables' rows there.
LEMMA StillApplying ==
    ASSUME NEW p \in Procs, pc[p] \in Applying, LocalsOK(p), Grows,
           Req(p)' = Req(p), Row(p)' = Row(p), (loc[p].view)' = loc[p].view,
           pc'[p] \in Applying,
           (loc[p].built \in [before : Files, after : Files])' \/ pc'[p] \in {"finalize", "consume"},
           pc'[p] \in Unsettled => loc'[p].app \in DOMAIN apps',
           pc'[p] = "finalize" => loc'[p].result \in Done \cup {"safety_refused"}
    PROVE  LocalsOK(p)'
<1>1. Req(p).op = "apply"
  BY DEF LocalsOK
<1>2. Agent(p)' = Agent(p) /\ Given(p)' = Given(p)
  BY <1>1 DEF Agent, Given
<1> QED
  BY <1>1, <1>2 DEF LocalsOK, Applying, Unsettled, Grows, Resolvable, InRoot

LEMMA CheckTyped ==
    ASSUME TypeOK, NEW p \in Procs, CheckPending(p) \/ ApplyRefused(p) \/ DryRunPreviews(p)
    PROVE  TypeOK'
<1> USE DEF Steps, Applying
<1>0. IsLocals(loc[p]) /\ LocalsOK(p) /\ TablesOK
  BY DEF TypeOK
<1>1. CASE CheckPending(p)
  <2>1. pc'[p] = "build" /\ loc'[p] = [loc[p] EXCEPT !.view = latest]
    BY <1>1 DEF CheckPending, Goto, TypeOK
  <2>2. LocalsOK(p)'
    BY <1>0, <1>1, <2>1
       DEF CheckPending, Local, database, LocalsOK, Req, Row, Unsettled, IsLocals, ReadFirst, TablesOK
  <2> QED
    BY <1>0, <1>1, <2>2, LocalTyped DEF CheckPending, IsLocals
<1>2. CASE ApplyRefused(p)
  BY <1>2, LocalEndTyped DEF ApplyRefused
<1>3. CASE DryRunPreviews(p)
  <2> DEFINE req == [op |-> "preview", agent |-> None, target |-> None]
             new == [NoWork EXCEPT !.req = req]
  <2>1. pc'[p] = "load" /\ loc'[p] = new
    BY <1>3 DEF DryRunPreviews, Goto, TypeOK
  <2>2. LocalsOK(p)'
    BY <1>0, <1>3, <2>1 DEF DryRunPreviews, Local, database, LocalsOK, Req, Row, Unsettled,
       NoWork, Requests, TablesOK
  <2>3. IsLocals(new)
    BY DEF IsLocals, NoWork
  <2> QED
    BY <1>3, <2>2, <2>3, LocalTyped DEF DryRunPreviews
<1> QED
  BY <1>1, <1>2, <1>3

LEMMA ApplyTyped ==
    ASSUME TypeOK, NEW p \in Procs, apply(p) \/ begin_policy_application(p)
    PROVE  TypeOK'
<1>0. IsLocals(loc[p]) /\ LocalsOK(p) /\ TablesOK
  BY DEF TypeOK
<1>1. CASE apply(p)
  <2>1. Goto(p, "begin", [loc[p] EXCEPT !.built = Build(p)]) /\ Local(p)
    BY <1>1 DEF apply
  <2>2. pc'[p] = "begin" /\ loc'[p] = [loc[p] EXCEPT !.built = Build(p)]
    BY <1>1 DEF apply, Goto, TypeOK
  <2>3. UNCHANGED review /\ Req(p)' = Req(p) /\ Row(p)' = Row(p)
        /\ Agent(p)' = Agent(p) /\ Given(p)' = Given(p)
    BY <1>0, <1>1, <2>2 DEF apply, Local, database, Req, Row, Agent, Given, IsLocals
  <2>4. LocalsOK(p)'
    BY <1>0, <1>1, <2>2, <2>3, RenderedTyped
       DEF apply, Local, database, LocalsOK, Applying, Unsettled, IsLocals, Resolvable, InRoot, Buildable
  <2> QED
    BY <1>0, <2>1, <2>4, LocalTyped DEF IsLocals, Steps, Applying
<1>2. CASE begin_policy_application(p)
  <2> DEFINE row == [path |-> Target(p), before |-> loc[p].built.before,
                     after |-> loc[p].built.after, outcome |-> "pending"]
             mine == [loc[p] EXCEPT !.app = Len(apps) + 1]
             known == [mine EXCEPT !.result = "already_applied"]
  <2>1. pc[p] \in Applying
    BY <1>2 DEF begin_policy_application, Applying
  <2>2. row \in Applications /\ loc[p].built \in [before : Files, after : Files]
    BY <1>0, <1>2, <2>1, ApplyingFacts DEF begin_policy_application, LocalsOK, Applications
  <2>3. apps' = Append(apps, row) /\ apps' \in Seq(Applications) /\ Len(apps) + 1 \in DOMAIN apps'
        /\ DOMAIN apps \subseteq DOMAIN apps'
    BY <1>0, <1>2, <2>2 DEF begin_policy_application, TablesOK
  <2>4. Grows /\ TablesOK'
    BY <1>0, <1>2, <2>1, <2>3, ApplyingFacts
       DEF begin_policy_application, history, Grows, TablesOK, ReviewRows
  <2>5. IsLocals(mine) /\ mine.app = Len(apps) + 1 /\ mine.req = Req(p) /\ mine.row = Row(p)
        /\ mine.view = loc[p].view /\ mine.built = loc[p].built
    BY <1>0 DEF IsLocals, Req, Row
  <2> HIDE DEF mine
  <2>6. IsLocals(known) /\ known.app = mine.app /\ known.req = mine.req /\ known.row = mine.row
        /\ known.view = mine.view /\ known.built = mine.built /\ known.result = "already_applied"
    BY <2>5 DEF IsLocals
  <2> HIDE DEF known
  <2>7. Goto(p, "finalize", known) \/ Goto(p, "recheck", mine)
    BY <1>2 DEF begin_policy_application, known, mine
  <2>8. CASE Goto(p, "finalize", known)
    <3>1. Moves(p) /\ pc'[p] = "finalize" /\ loc'[p] = known
      BY <2>6, <2>8, GotoMoves DEF Steps, Applying
    <3>2. LocalsOK(p)'
      BY <1>0, <2>1, <2>2, <2>3, <2>4, <2>5, <2>6, <3>1, StillApplying
         DEF Req, Row, Applying, Done
    <3> QED
      BY <2>4, <3>1, <3>2, HandlerTyped
  <2>9. CASE Goto(p, "recheck", mine)
    <3>1. Moves(p) /\ pc'[p] = "recheck" /\ loc'[p] = mine
      BY <2>5, <2>9, GotoMoves DEF Steps, Applying
    <3>2. LocalsOK(p)'
      BY <1>0, <2>1, <2>2, <2>3, <2>4, <2>5, <3>1, StillApplying DEF Req, Row, Applying
    <3> QED
      BY <2>4, <3>1, <3>2, HandlerTyped
  <2> QED
    BY <2>7, <2>8, <2>9
<1> QED
  BY <1>1, <1>2

\* Steps of an apply that only change what it has seen, or its result.
LEMMA WriteTyped ==
    ASSUME TypeOK, NEW p \in Procs, Recheck(p) \/ _atomic_replace(p) \/ ReplaceFails(p)
    PROVE  TypeOK'
<1>0. IsLocals(loc[p]) /\ LocalsOK(p) /\ TablesOK
  BY DEF TypeOK
<1>1. pc[p] \in Applying
  BY DEF Recheck, _atomic_replace, ReplaceFails, Applying
<1>2. loc[p].built \in [before : Files, after : Files] /\ loc[p].app \in DOMAIN apps
  BY <1>0 DEF Recheck, _atomic_replace, ReplaceFails, LocalsOK, Unsettled
<1>3. UNCHANGED <<database, approved>> /\ used' \in [{"ops", "regen", "human", "faults"} -> Nat]
  BY <1>0 DEF Recheck, _atomic_replace, ReplaceFails, Local, history, Spend, TablesOK
<1>4. files' \in [Paths -> Files] /\ written' \subseteq DOMAIN apps
  BY <1>0, <1>1, <1>2, ApplyingFacts
     DEF Recheck, _atomic_replace, ReplaceFails, Overwrite, Local, history, TablesOK
<1>5. Grows /\ TablesOK'
  BY <1>0, <1>3, <1>4 DEF database, Grows, TablesOK
<1>6. PICK l \in {"finalize", "replace"}, new \in
            {[loc[p] EXCEPT !.result = r] : r \in {"applied", "already_applied", "safety_refused"}}
            \cup {[loc[p] EXCEPT !.seen = files[Target(p)]]} :
          /\ Goto(p, l, new)
          /\ l = "finalize" => new.result \in Done \cup {"safety_refused"}
  <2>1. CASE Goto(p, "replace", [loc[p] EXCEPT !.seen = files[Target(p)]])
    BY <2>1
  <2>2. ASSUME NEW r \in {"applied", "already_applied", "safety_refused"},
               Goto(p, "finalize", [loc[p] EXCEPT !.result = r])
        PROVE  \E l \in {"finalize", "replace"}, new \in
            {[loc[p] EXCEPT !.result = x] : x \in {"applied", "already_applied", "safety_refused"}}
            \cup {[loc[p] EXCEPT !.seen = files[Target(p)]]} :
          /\ Goto(p, l, new)
          /\ l = "finalize" => new.result \in Done \cup {"safety_refused"}
    <3>1. [loc[p] EXCEPT !.result = r].result \in Done \cup {"safety_refused"}
      BY <1>0 DEF IsLocals, Done
    <3> QED
      BY <2>2, <3>1
  <2> QED
    BY <2>1, <2>2 DEF Recheck, _atomic_replace, ReplaceFails
<1>7. IsLocals(new) /\ new.req = loc[p].req /\ new.row = loc[p].row /\ new.view = loc[p].view
      /\ new.built = loc[p].built /\ new.app = loc[p].app
  BY <1>0, <1>6 DEF IsLocals
<1>8. Moves(p) /\ pc'[p] = l /\ loc'[p] = new
  BY <1>6, <1>7, GotoMoves DEF Steps, Applying
<1>9. LocalsOK(p)'
  BY <1>0, <1>1, <1>2, <1>5, <1>6, <1>7, <1>8, StillApplying DEF Req, Row, Applying, Grows
<1> QED
  BY <1>5, <1>8, <1>9, HandlerTyped

LEMMA FinishTyped ==
    ASSUME TypeOK, NEW p \in Procs, finalize_policy_application(p) \/ consume_policy_preview(p)
    PROVE  TypeOK'
<1>0. IsLocals(loc[p]) /\ LocalsOK(p) /\ TablesOK
  BY DEF TypeOK
<1>1. CASE finalize_policy_application(p)
  <2>1. pc[p] \in Applying /\ loc[p].app \in DOMAIN apps
        /\ loc[p].result \in Done \cup {"safety_refused"}
    BY <1>0, <1>1 DEF finalize_policy_application, LocalsOK, Applying, Unsettled
  <2>2. apps' \in Seq(Applications) /\ DOMAIN apps' = DOMAIN apps
    <3> DEFINE a == loc[p].app
               row == [apps[a] EXCEPT !.outcome = loc[p].result]
    <3>1. apps \in Seq(Applications) /\ apps[a] \in Applications
      BY <1>0, <2>1 DEF TablesOK
    <3>2. row \in Applications
      BY <2>1, <3>1 DEF Applications
    <3>3. apps' = [apps EXCEPT ![a] = row]
      BY <1>1 DEF finalize_policy_application
    <3> QED
      BY <2>1, <3>1, <3>2, <3>3
  <2>3. review' \in ReviewRows /\ audit' \in [from : Statuses \cup {None}, to : Statuses \cup {None}]
    BY <1>1, <2>1, ApplyingFacts
       DEF finalize_policy_application, ReviewRows, Statuses, Operable
  <2>4. Grows /\ TablesOK'
    BY <1>0, <1>1, <2>2, <2>3, NoRowIsNone
       DEF finalize_policy_application, history, Grows, TablesOK
  <2>5. CASE Goto(p, "consume", loc[p])
    <3>1. Moves(p) /\ pc'[p] = "consume" /\ loc'[p] = loc[p]
      BY <1>0, <2>5, GotoMoves DEF Steps, Applying
    <3>2. LocalsOK(p)'
      BY <1>0, <2>1, <2>4, <3>1, StillApplying DEF Req, Row, Applying, Unsettled
    <3> QED
      BY <2>4, <3>1, <3>2, HandlerTyped
  <2>6. CASE End(p)
    BY <2>4, <2>6, EndTyped
  <2> QED
    BY <1>1, <2>5, <2>6 DEF finalize_policy_application
<1>2. CASE consume_policy_preview(p)
  <2>1. latest' \in Previews
    BY <1>2, ApplyingFacts DEF consume_policy_preview, Applying, Previews
  <2>2. Grows /\ TablesOK'
    BY <1>0, <1>2, <2>1, NoRowIsNone DEF consume_policy_preview, history, Grows, TablesOK
  <2> QED
    BY <1>2, <2>2, EndTyped DEF consume_policy_preview
<1> QED
  BY <1>1, <1>2

LEMMA StartTyped ==
    ASSUME TypeOK, NEW p \in Procs, Start(p) \/ Crash(p)
    PROVE  TypeOK'
<1>1. Grows /\ TablesOK'
  <2>1. UNCHANGED <<database, files, history>>
        /\ \E what \in {"ops", "faults"} : used' = [used EXCEPT ![what] = @ + 1]
    BY DEF Start, Crash, Spend
  <2>2. used' \in [{"ops", "regen", "human", "faults"} -> Nat]
    BY <2>1 DEF TypeOK, TablesOK
  <2> QED
    BY <2>1, <2>2 DEF database, history, Grows, TypeOK, TablesOK
<1>2. CASE Start(p)
  <2>1. PICK r \in Requests : Goto(p, "load", [NoWork EXCEPT !.req = r])
    BY <1>2 DEF Start
  <2>2. IsLocals([NoWork EXCEPT !.req = r]) /\ [NoWork EXCEPT !.req = r].req = r
    BY DEF IsLocals, NoWork
  <2>3. Moves(p) /\ pc'[p] = "load" /\ loc'[p].req = r
    BY <2>1, <2>2, GotoMoves DEF Steps
  <2>4. LocalsOK(p)'
    BY <2>3 DEF LocalsOK, Req, Applying, Unsettled
  <2> QED
    BY <1>1, <2>3, <2>4, HandlerTyped
<1>3. CASE Crash(p)
  BY <1>1, <1>3, EndTyped DEF Crash
<1> QED
  BY <1>2, <1>3

\* Stage 6, triage and people only change the proposal set and the files.
LEMMA OutsideTyped ==
    ASSUME TypeOK, replace_placement_proposal_set \/ set_experience_review \/ HumanEdit
    PROVE  TypeOK'
<1>1. UNCHANGED <<review, variants, latest, apps, audit, pc, loc, history>>
  BY DEF replace_placement_proposal_set, set_experience_review, HumanEdit, database
<1>2. set' \in Fps \cup {None} /\ used' \in [{"ops", "regen", "human", "faults"} -> Nat]
  BY DEF replace_placement_proposal_set, set_experience_review, HumanEdit, database, Spend,
     TypeOK, TablesOK
<1>3. files' \in [Paths -> Files]
  <2>1. CASE HumanEdit
    <3>1. PICK path \in Paths, text \in HumanTexts :
              \E file \in {Missing, [human |-> text, blocks |-> NoBlocks],
                           [human |-> text, blocks |-> Existing(files[path]).blocks]} :
                 files' = [files EXCEPT ![path] = file]
      BY <2>1 DEF HumanEdit
    <3>2. {Missing, [human |-> text, blocks |-> NoBlocks],
           [human |-> text, blocks |-> Existing(files[path]).blocks]} \subseteq Files
      BY EditTyped DEF TypeOK, TablesOK
    <3> QED
      BY <3>1, <3>2 DEF TypeOK, TablesOK
  <2> QED
    BY <2>1 DEF replace_placement_proposal_set, set_experience_review, TypeOK, TablesOK
<1>4. Grows /\ TablesOK'
  BY <1>1, <1>2, <1>3 DEF history, Grows, TypeOK, TablesOK
<1>5. ASSUME NEW q \in Procs PROVE LocalsOK(q)'
  BY <1>1, <1>4, OthersTyped DEF TypeOK
<1> QED
  BY <1>1, <1>4, <1>5 DEF TypeOK, IsLocals

LEMMA TypeInit == Init => TypeOK
<1> SUFFICES ASSUME Init PROVE TypeOK
  OBVIOUS
<1>1. TablesOK
  BY DEF Init, TablesOK, Files
<1>2. loc = [p \in Procs |-> loc[p]]
  BY DEF Init
<1>3. ASSUME NEW p \in Procs PROVE IsLocals(loc[p]) /\ LocalsOK(p)
  <2>1. pc[p] = "idle" /\ loc[p] = NoWork
    BY DEF Init
  <2>2. IsLocals(NoWork)
    BY DEF IsLocals, NoWork
  <2> QED
    BY <2>1, <2>2 DEF LocalsOK, Applying, Unsettled
<1>4. pc \in [Procs -> Steps]
  BY DEF Init, Steps
<1> QED
  BY <1>1, <1>2, <1>3, <1>4 DEF TypeOK

LEMMA TypeStep == TypeOK /\ [Next]_vars => TypeOK'
<1> SUFFICES ASSUME TypeOK, [Next]_vars PROVE TypeOK'
  OBVIOUS
<1>1. ASSUME NEW p \in Procs, Step(p) PROVE TypeOK'
  BY <1>1, FindTyped, FreshTyped, DecideTyped, PreviewTyped, CheckTyped, ApplyTyped,
     WriteTyped, FinishTyped DEF Step
<1>2. ASSUME NEW p \in Procs, Start(p) \/ ReplaceFails(p) \/ Crash(p) PROVE TypeOK'
  BY <1>2, StartTyped, WriteTyped
<1>3. CASE UNCHANGED vars
  BY <1>3 DEF vars, database, history, TypeOK, TablesOK, IsLocals, LocalsOK, Req, Row, Agent,
     Given, Resolvable, InRoot
<1> QED
  BY <1>1, <1>2, <1>3, OutsideTyped DEF Next

\* Every table, every file and the locals of every handler keep their types,
\* whatever the handlers, crashes, regenerations and edits by people.
THEOREM TypeCorrect == Spec => []TypeOK
  BY TypeInit, TypeStep, PTL DEF Spec

-----------------------------------------------------------------------------
\* Intents.  A step of p keeps them if it leaves the intents of the others alone
\* and establishes what p's next step wants.

LEMMA OthersOwn ==
    ASSUME NEW q \in Procs, pc'[q] = pc[q], loc'[q] = loc[q],
           RendersPreviewed(q), OwnsIntent(q),
           pc[q] \in Unsettled =>
               /\ loc[q].app \in DOMAIN apps'
               /\ apps'[loc[q].app] = apps[loc[q].app]
               /\ loc[q].app \in written' <=> loc[q].app \in written
    PROVE  RendersPreviewed(q)' /\ OwnsIntent(q)'
<1>1. Req(q)' = Req(q) /\ Row(q)' = Row(q)
  BY DEF Req, Row
<1>2. Agent(q)' = Agent(q) /\ Given(q)' = Given(q) /\ Body(q)' = Body(q)
  BY <1>1 DEF Agent, Given, Body
<1>3. Target(q)' = Target(q)
  BY <1>1, <1>2 DEF Target
<1>4. RendersPreviewed(q)'
  BY <1>1, <1>2 DEF RendersPreviewed
<1>5. OwnsIntent(q)'
  BY <1>3 DEF OwnsIntent, Pending
<1> QED
  BY <1>4, <1>5

LEMMA IntentsKept ==
    ASSUME TypeOK, Intents, NEW p \in Procs, NEW l, NEW new, Goto(p, l, new),
           \A q \in Procs \ {p} : pc[q] \in Unsettled =>
               /\ loc[q].app \in DOMAIN apps'
               /\ apps'[loc[q].app] = apps[loc[q].app]
               /\ loc[q].app \in written' <=> loc[q].app \in written
               /\ l \in Unsettled => loc[q].app # new.app,
           RendersPreviewed(p)' /\ OwnsIntent(p)'
    PROVE  Intents'
<1>1. pc'[p] = l /\ loc'[p] = new
  BY DEF Goto, TypeOK
<1>2. ASSUME NEW q \in Procs, q # p PROVE pc'[q] = pc[q] /\ loc'[q] = loc[q]
  BY <1>2 DEF Goto, TypeOK
<1>3. ASSUME NEW q \in Procs PROVE RendersPreviewed(q)' /\ OwnsIntent(q)'
  <2>1. CASE q # p
    BY <1>2, <2>1, OthersOwn DEF Intents
  <2> QED
    BY <2>1
<1>4. OneOwner'
  BY <1>1, <1>2 DEF Intents, OneOwner
<1> QED
  BY <1>3, <1>4 DEF Intents

\* A step that has nothing to do with intents.
Quiet(p) ==
    /\ UNCHANGED <<apps, written>>
    /\ \E l \in Steps \ {"begin", "recheck", "replace", "finalize"}, new \in {loc'[p]} :
          Goto(p, l, new)

LEMMA QuietSteps ==
    ASSUME TypeOK, NEW p \in Procs,
           \/ Start(p) \/ Crash(p) \/ consume_policy_preview(p)
           \/ /\ Step(p)
              /\ pc[p] \notin Applying
              /\ pc'[p] # "begin"
    PROVE  Quiet(p)
<1> DEFINE Moved == \E l \in Steps \ {"begin", "recheck", "replace", "finalize"}, new \in {loc'[p]} :
                       Goto(p, l, new)
<1>1. ASSUME NEW l, NEW new, Goto(p, l, new) PROVE loc'[p] = new
  BY <1>1 DEF Goto, TypeOK
<1>2. Start(p) \/ Crash(p) \/ consume_policy_preview(p) => Moved
  BY <1>1 DEF Start, Crash, consume_policy_preview, End, Steps, Applying
<1>3. Load(p) \/ Ensure(p) \/ LoadRefused(p) \/ create_policy_review(p) \/ CreatedByOther(p) => Moved
  BY <1>1 DEF Load, Ensure, LoadRefused, create_policy_review, CreatedByOther, End, Steps, Applying
<1>4. _assert_fresh(p) \/ FreshRefused(p) \/ FoundStale(p) => Moved
  BY <1>1 DEF _assert_fresh, FreshRefused, FoundStale, AfterFresh, End, Steps, Applying
<1>5. record_policy_variant(p) \/ VariantTaken(p) \/ ReadExisting(p) \/ accept(p) \/ _act(p)
      \/ edit(p) \/ choose(p) => Moved
  BY <1>1 DEF record_policy_variant, VariantTaken, ReadExisting, accept, _act, edit, choose,
     update_policy_review, End, Steps, Applying
<1>6. preview(p) \/ BuildRefused(p) \/ record_policy_preview(p) \/ previewed(p) => Moved
  BY <1>1 DEF preview, BuildRefused, record_policy_preview, previewed,
     update_policy_review, End, Steps, Applying
<1>7. CheckPending(p) \/ ApplyRefused(p) \/ DryRunPreviews(p) => Moved
  BY <1>1 DEF CheckPending, ApplyRefused, DryRunPreviews, End, Steps, Applying
<1>8. Step(p) /\ pc[p] \notin Applying /\ pc'[p] # "begin" => UNCHANGED <<apps, written>>
  BY DEF Step, Load, Ensure, LoadRefused, create_policy_review, CreatedByOther, _assert_fresh,
     FreshRefused, FoundStale, record_policy_variant, VariantTaken, ReadExisting, accept, _act,
     edit, choose, update_policy_review, preview, BuildRefused, record_policy_preview, previewed,
     CheckPending, ApplyRefused, DryRunPreviews, apply, begin_policy_application, Recheck,
     _atomic_replace, finalize_policy_application, consume_policy_preview, Local, database,
     history, Goto, TypeOK, Applying
<1>9. Start(p) \/ Crash(p) \/ consume_policy_preview(p) => UNCHANGED <<apps, written>>
  BY DEF Start, Crash, consume_policy_preview, database, history
<1>10. Step(p) /\ pc[p] \notin Applying /\ pc'[p] # "begin" => Moved
  BY <1>3, <1>4, <1>5, <1>6, <1>7
     DEF Step, apply, begin_policy_application, Recheck, _atomic_replace,
     finalize_policy_application, consume_policy_preview, Goto, TypeOK, Applying
<1> QED
  BY <1>2, <1>8, <1>9, <1>10 DEF Quiet

LEMMA QuietIntents ==
    ASSUME TypeOK, Intents, NEW p \in Procs, Quiet(p)
    PROVE  Intents'
<1>1. PICK l \in Steps \ {"begin", "recheck", "replace", "finalize"}, new \in {loc'[p]} :
          Goto(p, l, new)
  BY DEF Quiet
<1>2. pc'[p] = l /\ UNCHANGED <<apps, written>>
  BY <1>1 DEF Goto, TypeOK, Quiet
<1>3. RendersPreviewed(p)' /\ OwnsIntent(p)'
  BY <1>2 DEF RendersPreviewed, OwnsIntent, Unsettled
<1>4. \A q \in Procs : pc[q] \in Unsettled => loc[q].app \in DOMAIN apps
  BY DEF TypeOK, LocalsOK
<1> QED
  BY <1>1, <1>2, <1>3, <1>4, IntentsKept DEF Unsettled

LEMMA BeginIntents ==
    ASSUME TypeOK, Intents, NEW p \in Procs, apply(p) \/ begin_policy_application(p)
    PROVE  Intents'
<1>0. IsLocals(loc[p]) /\ LocalsOK(p) /\ TablesOK /\ OwnsIntent(p) /\ RendersPreviewed(p)
  BY DEF TypeOK, Intents
<1>1. \A q \in Procs : pc[q] \in Unsettled => loc[q].app \in DOMAIN apps
  BY DEF TypeOK, LocalsOK
<1>2. CASE apply(p)
  <2> DEFINE new == [loc[p] EXCEPT !.built = Build(p)]
  <2>1. pc'[p] = "begin" /\ loc'[p] = new /\ Goto(p, "begin", new) /\ UNCHANGED <<apps, written>>
    BY <1>2 DEF apply, Goto, TypeOK, Local, database, history
  <2>2. new.built = Build(p) /\ new.req = Req(p) /\ new.row = Row(p) /\ new.view = loc[p].view
    BY <1>0 DEF IsLocals, Req, Row
  <2> HIDE DEF new
  <2>3. Req(p)' = Req(p) /\ Row(p)' = Row(p) /\ (loc[p].view)' = loc[p].view
        /\ (loc[p].built)' = Build(p)
    BY <2>1, <2>2 DEF Req, Row
  <2>4. Agent(p)' = Agent(p) /\ Body(p)' = Body(p)
    BY <1>2, <2>3 DEF apply, Agent, Body
  <2>5. Build(p).after = render_target(Build(p).before, Row(p).selected, Agent(p), Body(p))
    BY DEF Build, Rendered
  <2>6. Build(p).before = Build(p).after \/ Build(p).before = loc[p].view.target_hash
    BY <1>2 DEF apply, Writable, Build
  <2>7. RendersPreviewed(p)'
    BY <2>1, <2>3, <2>4, <2>5, <2>6 DEF RendersPreviewed
  <2>8. OwnsIntent(p)'
    BY <2>1 DEF OwnsIntent, Unsettled
  <2> QED
    BY <1>1, <2>1, <2>7, <2>8, IntentsKept DEF Unsettled
<1>3. CASE begin_policy_application(p)
  <2> DEFINE id == Len(apps) + 1
             row == [path |-> Target(p), before |-> loc[p].built.before,
                     after |-> loc[p].built.after, outcome |-> "pending"]
             mine == [loc[p] EXCEPT !.app = id]
             known == [mine EXCEPT !.result = "already_applied"]
  <2>1. apps \in Seq(Applications) /\ written' = written /\ written \subseteq DOMAIN apps
    BY <1>0, <1>3 DEF begin_policy_application, TablesOK, history
  <2>2. apps' = Append(apps, row)
    BY <1>3 DEF begin_policy_application
  <2>3. id \in DOMAIN apps' /\ id \notin DOMAIN apps /\ apps'[id] = row
        /\ \A a \in DOMAIN apps : a \in DOMAIN apps' /\ apps'[a] = apps[a]
    BY <2>1, <2>2
  <2> HIDE DEF id
  <2>4. id \in Pending' /\ apps'[id].path = Target(p) /\ apps'[id].after = loc[p].built.after
        /\ id \notin written'
    BY <2>1, <2>3 DEF Pending
  <2>5. mine.app = id /\ mine.req = Req(p) /\ mine.row = Row(p)
        /\ mine.view = loc[p].view /\ mine.built = loc[p].built
    BY <1>0 DEF IsLocals, Req, Row
  <2>6. known.app = id /\ known.req = Req(p) /\ known.row = Row(p)
        /\ known.view = loc[p].view /\ known.built = loc[p].built /\ known.result = "already_applied"
    <3>1. IsLocals(mine)
      BY <1>0 DEF IsLocals
    <3> HIDE DEF mine
    <3> QED
      BY <2>5, <3>1 DEF IsLocals
  <2> HIDE DEF mine, known, row
  <2>7. \/ Goto(p, "finalize", known) /\ loc[p].built.before = loc[p].built.after
        \/ Goto(p, "recheck", mine) /\ loc[p].built.before # loc[p].built.after
    BY <1>3 DEF begin_policy_application, known, mine, id
  <2>8. PICK l \in {"finalize", "recheck"}, new \in {known, mine} :
            /\ Goto(p, l, new)
            /\ l = "recheck" => loc[p].built.before # loc[p].built.after
            /\ l = "finalize" => new = known
    BY <2>7
  <2>9. pc'[p] = l /\ loc'[p] = new
    BY <2>8 DEF Goto, TypeOK
  <2>10. loc'[p].app = id /\ Req(p)' = Req(p) /\ Row(p)' = Row(p) /\ loc'[p].view = loc[p].view
         /\ loc'[p].built = loc[p].built /\ (l = "finalize" => loc'[p].result = "already_applied")
    BY <2>5, <2>6, <2>8, <2>9 DEF Req, Row
  <2>11. Agent(p)' = Agent(p) /\ Given(p)' = Given(p) /\ Body(p)' = Body(p)
    BY <2>10 DEF Agent, Given, Body
  <2>12. Target(p)' = Target(p)
    BY <2>10, <2>11 DEF Target
  <2>13. RendersPreviewed(p)'
    BY <1>0, <1>3, <2>8, <2>9, <2>10, <2>11 DEF begin_policy_application, RendersPreviewed
  <2>14. OwnsIntent(p)'
    BY <2>4, <2>8, <2>9, <2>10, <2>12 DEF OwnsIntent
  <2> QED
    BY <1>1, <2>1, <2>3, <2>8, <2>9, <2>10, <2>13, <2>14, IntentsKept
<1> QED
  BY <1>2, <1>3

LEMMA WriteIntents ==
    ASSUME TypeOK, Intents, NEW p \in Procs, Recheck(p) \/ _atomic_replace(p) \/ ReplaceFails(p)
    PROVE  Intents'
<1>0. IsLocals(loc[p]) /\ LocalsOK(p) /\ OwnsIntent(p) /\ RendersPreviewed(p)
  BY DEF TypeOK, Intents
<1>1. \A q \in Procs : pc[q] \in Unsettled => loc[q].app \in DOMAIN apps
  BY DEF TypeOK, LocalsOK
<1>2. pc[p] \in {"recheck", "replace"} /\ UNCHANGED <<apps, latest, review>>
  BY DEF Recheck, _atomic_replace, ReplaceFails, Local, database
<1>3. loc[p].app \in Pending /\ apps[loc[p].app].path = Target(p)
      /\ apps[loc[p].app].after = loc[p].built.after /\ loc[p].app \notin written
  BY <1>0, <1>2 DEF OwnsIntent, Unsettled
<1>4. written' \in {written, written \cup {loc[p].app}}
  BY DEF Recheck, _atomic_replace, ReplaceFails, Overwrite, Local, history
<1>5. ASSUME NEW q \in Procs \ {p}, pc[q] \in Unsettled
      PROVE  loc[q].app # loc[p].app
  BY <1>2, <1>5 DEF Intents, OneOwner, Unsettled
<1>6. PICK l \in {"finalize", "replace"}, new \in
            {[loc[p] EXCEPT !.result = r] : r \in {"applied", "already_applied", "safety_refused"}}
            \cup {[loc[p] EXCEPT !.seen = loc[p].view.target_hash]} :
          /\ Goto(p, l, new)
          /\ l = "replace" => new = [loc[p] EXCEPT !.seen = loc[p].view.target_hash]
                              /\ pc[p] = "recheck" /\ written' = written
          /\ l = "finalize" => \E r \in {"applied", "already_applied", "safety_refused"} :
                /\ new = [loc[p] EXCEPT !.result = r]
                /\ r = "applied" => written' = written \cup {loc[p].app}
                /\ r = "already_applied" => written' = written
  <2> DEFINE Outcome(r) ==
                /\ Goto(p, "finalize", [loc[p] EXCEPT !.result = r])
                /\ r = "applied" => written' = written \cup {loc[p].app}
                /\ r = "already_applied" => written' = written
  <2>1. \/ \E r \in {"applied", "already_applied", "safety_refused"} : Outcome(r)
        \/ /\ Goto(p, "replace", [loc[p] EXCEPT !.seen = loc[p].view.target_hash])
           /\ pc[p] = "recheck" /\ written' = written
    BY DEF Recheck, _atomic_replace, ReplaceFails, Overwrite, Local, history
  <2> QED
    BY <2>1
<1>7. pc'[p] = l /\ loc'[p] = new
  BY <1>6 DEF Goto, TypeOK
<1>8. new.app = loc[p].app /\ new.req = Req(p) /\ new.row = Row(p) /\ new.view = loc[p].view
      /\ new.built = loc[p].built
      /\ (l = "replace" => new.seen = loc[p].view.target_hash)
      /\ (l = "finalize" => /\ new.result = "applied" => written' = written \cup {loc[p].app}
                            /\ new.result = "already_applied" => written' = written)
  BY <1>0, <1>6 DEF IsLocals, Req, Row
<1>9. Req(p)' = Req(p) /\ Row(p)' = Row(p) /\ loc'[p].view = loc[p].view
      /\ loc'[p].built = loc[p].built /\ loc'[p].app = loc[p].app
  BY <1>7, <1>8 DEF Req, Row
<1>10. Agent(p)' = Agent(p) /\ Given(p)' = Given(p) /\ Body(p)' = Body(p)
  BY <1>9 DEF Agent, Given, Body
<1>11. Target(p)' = Target(p)
  BY <1>9, <1>10 DEF Target
<1>12. RendersPreviewed(p)'
  BY <1>0, <1>2, <1>6, <1>7, <1>8, <1>9, <1>10 DEF RendersPreviewed
<1>13. OwnsIntent(p)'
  BY <1>2, <1>3, <1>6, <1>7, <1>8, <1>9, <1>11 DEF OwnsIntent, Pending
<1>14. \A q \in Procs \ {p} : pc[q] \in Unsettled => (loc[q].app \in written' <=> loc[q].app \in written)
  BY <1>4, <1>5
<1> QED
  BY <1>1, <1>2, <1>5, <1>6, <1>8, <1>12, <1>13, <1>14, IntentsKept

LEMMA FinalizeIntents ==
    ASSUME TypeOK, Intents, NEW p \in Procs, finalize_policy_application(p)
    PROVE  /\ Intents'
           /\ DOMAIN apps' = DOMAIN apps
           /\ \A a \in DOMAIN apps : a # loc[p].app => apps'[a] = apps[a]
           /\ loc[p].app \in Pending
           /\ apps'[loc[p].app].outcome = loc[p].result
<1> DEFINE a == loc[p].app
           row == [apps[a] EXCEPT !.outcome = loc[p].result]
<1>1. \A q \in Procs : pc[q] \in Unsettled => loc[q].app \in DOMAIN apps
  BY DEF TypeOK, LocalsOK
<1>2. pc[p] = "finalize" /\ written' = written
  BY DEF finalize_policy_application, history
<1>3. a \in Pending /\ apps \in Seq(Applications)
  BY <1>2 DEF TypeOK, TablesOK, Intents, OwnsIntent, Unsettled
<1>4. apps' = [apps EXCEPT ![a] = row]
  BY DEF finalize_policy_application
<1>5. row.outcome = loc[p].result
  <2>1. apps[a] \in Applications
    BY <1>3 DEF Pending
  <2> QED
    BY <2>1 DEF Applications
<1> HIDE DEF row
<1>6. DOMAIN apps' = DOMAIN apps /\ (\A b \in DOMAIN apps : b # a => apps'[b] = apps[b])
      /\ apps'[a].outcome = loc[p].result
  BY <1>3, <1>4, <1>5 DEF Pending
<1>7. ASSUME NEW q \in Procs \ {p}, pc[q] \in Unsettled
      PROVE  loc[q].app # a
  BY <1>2, <1>7 DEF Intents, OneOwner, Unsettled
<1>8. PICK l \in {"consume", "idle"}, new \in {loc[p], NoWork} : Goto(p, l, new)
  BY DEF finalize_policy_application, End
<1>9. pc'[p] = l
  BY <1>8 DEF Goto, TypeOK
<1>10. RendersPreviewed(p)' /\ OwnsIntent(p)'
  BY <1>9 DEF RendersPreviewed, OwnsIntent, Unsettled
<1>11. Intents'
  BY <1>1, <1>2, <1>6, <1>7, <1>8, <1>10, IntentsKept DEF Unsettled
<1> QED
  BY <1>3, <1>6, <1>11

\* The steps of a process, by what they do to the intents.
LEMMA StepKinds ==
    ASSUME TypeOK, NEW p \in Procs, Start(p) \/ Step(p) \/ ReplaceFails(p) \/ Crash(p)
    PROVE  \/ Quiet(p)
           \/ apply(p) \/ begin_policy_application(p)
           \/ Recheck(p) \/ _atomic_replace(p) \/ ReplaceFails(p)
           \/ finalize_policy_application(p)
<1>1. CASE Step(p) /\ pc[p] \notin Applying /\ pc'[p] # "begin"
  BY <1>1, QuietSteps
<1>2. CASE Step(p) /\ pc[p] \in Applying
  <2>1. \/ begin_policy_application(p) \/ Recheck(p) \/ _atomic_replace(p)
        \/ finalize_policy_application(p) \/ consume_policy_preview(p)
    BY <1>2 DEF Step, Load, Ensure, LoadRefused, create_policy_review, CreatedByOther,
       _assert_fresh, FreshRefused, FoundStale, record_policy_variant, VariantTaken, ReadExisting,
       accept, _act, edit, choose, preview, BuildRefused, record_policy_preview, previewed,
       CheckPending, ApplyRefused, DryRunPreviews, apply, Applying
  <2> QED
    BY <2>1, QuietSteps
<1>3. CASE Step(p) /\ pc'[p] = "begin" /\ pc[p] \notin Applying
  BY <1>3 DEF Step, Load, Ensure, LoadRefused, create_policy_review, CreatedByOther,
     _assert_fresh, FreshRefused, FoundStale, record_policy_variant, VariantTaken, ReadExisting,
     accept, _act, edit, choose, update_policy_review, preview, BuildRefused,
     record_policy_preview, previewed, CheckPending, ApplyRefused, DryRunPreviews,
     begin_policy_application, Recheck, _atomic_replace, finalize_policy_application,
     consume_policy_preview, AfterFresh, End, Goto, TypeOK, Applying, Steps
<1> QED
  BY <1>1, <1>2, <1>3, QuietSteps

\* A step of one process leaves the others where they are.
LEMMA StepMoves ==
    ASSUME TypeOK, NEW p \in Procs, Start(p) \/ Step(p) \/ ReplaceFails(p) \/ Crash(p),
           NEW q \in Procs \ {p}
    PROVE  pc'[q] = pc[q] /\ loc'[q] = loc[q]
<1>1. ASSUME NEW l, NEW new, Goto(p, l, new) PROVE pc'[q] = pc[q] /\ loc'[q] = loc[q]
  BY <1>1 DEF Goto, TypeOK
<1>2. CASE Quiet(p)
  BY <1>1, <1>2 DEF Quiet
<1>3. CASE apply(p) \/ Recheck(p) \/ _atomic_replace(p) \/ ReplaceFails(p)
           \/ finalize_policy_application(p)
  BY <1>1, <1>3 DEF apply, Recheck, _atomic_replace, ReplaceFails, finalize_policy_application, End
<1>4. CASE begin_policy_application(p)
  <2>1. \E l, new : Goto(p, l, new)
    BY <1>4 DEF begin_policy_application
  <2> QED
    BY <1>1, <2>1
<1> QED
  BY <1>2, <1>3, <1>4, StepKinds

LEMMA IntentsStep == TypeOK /\ Intents /\ [Next]_vars => Intents'
<1> SUFFICES ASSUME TypeOK, Intents, [Next]_vars PROVE Intents'
  OBVIOUS
<1>1. ASSUME NEW p \in Procs, Start(p) \/ Step(p) \/ ReplaceFails(p) \/ Crash(p) PROVE Intents'
  BY <1>1, StepKinds, QuietIntents, BeginIntents, WriteIntents, FinalizeIntents
<1>2. CASE UNCHANGED vars \/ replace_placement_proposal_set \/ set_experience_review \/ HumanEdit
  <2>1. UNCHANGED <<apps, written, pc, loc>>
    BY <1>2 DEF vars, database, history, replace_placement_proposal_set, set_experience_review,
       HumanEdit
  <2>2. ASSUME NEW q \in Procs PROVE RendersPreviewed(q)' /\ OwnsIntent(q)'
    <3>1. pc[q] \in Unsettled => loc[q].app \in DOMAIN apps
      BY DEF TypeOK, LocalsOK
    <3> QED
      BY <2>1, <3>1, OthersOwn DEF Intents
  <2>3. OneOwner'
    BY <2>1 DEF Intents, OneOwner
  <2> QED
    BY <2>2, <2>3 DEF Intents
<1> QED
  BY <1>1, <1>2 DEF Next

-----------------------------------------------------------------------------
\* Reviews that are applied.

\* An outcome, once settled, is there for good.
LEMMA RecordedKept ==
    ASSUME TypeOK, Intents, [Next]_vars, Recorded
    PROVE  Recorded'
<1>1. PICK a \in DOMAIN apps : apps[a].outcome \in Done
  BY DEF Recorded
<1>2. a \notin Pending
  BY <1>1 DEF Pending, Done
<1>3. ASSUME NEW p \in Procs, Start(p) \/ Step(p) \/ ReplaceFails(p) \/ Crash(p)
      PROVE  a \in DOMAIN apps' /\ apps'[a] = apps[a]
  <2>1. CASE finalize_policy_application(p)
    BY <1>1, <1>2, <2>1, FinalizeIntents
  <2>2. CASE begin_policy_application(p)
    <3>1. \E row : apps' = Append(apps, row)
      BY <2>2 DEF begin_policy_application
    <3>2. apps \in Seq(Applications)
      BY DEF TypeOK, TablesOK
    <3> QED
      BY <1>1, <3>1, <3>2
  <2>3. CASE Quiet(p) \/ apply(p) \/ Recheck(p) \/ _atomic_replace(p) \/ ReplaceFails(p)
    BY <1>1, <2>3 DEF Quiet, apply, Recheck, _atomic_replace, ReplaceFails, Local, database
  <2> QED
    BY <1>3, <2>1, <2>2, <2>3, StepKinds
<1>4. ASSUME UNCHANGED vars \/ replace_placement_proposal_set \/ set_experience_review \/ HumanEdit
      PROVE  a \in DOMAIN apps' /\ apps'[a] = apps[a]
  BY <1>1, <1>4 DEF vars, database, replace_placement_proposal_set, set_experience_review, HumanEdit
<1>5. a \in DOMAIN apps' /\ apps'[a] = apps[a]
  BY <1>3, <1>4 DEF Next
<1> QED
  BY <1>1, <1>5 DEF Recorded

\* What a step of p may do to the review and to what p knows of it.
LEMMA StatusStep ==
    ASSUME Inv, NEW p \in Procs, Start(p) \/ Step(p) \/ ReplaceFails(p) \/ Crash(p)
    PROVE  /\ review' # None /\ review'.status = "applied" => Recorded'
           /\ KnowsFromTable(p)'
<1>0. TypeOK /\ Intents /\ LocalsOK(p) /\ TablesOK /\ IsLocals(loc[p])
      /\ AppliedOnRecord /\ KnowsFromTable(p)
  BY DEF Inv, TypeOK
<1>1. Recorded => Recorded'
  BY <1>0, RecordedKept DEF Next
<1>2. review # None /\ review.status = "applied" => Recorded
  BY <1>0 DEF AppliedOnRecord, Recorded
<1>3. CASE Ensure(p)
  <2>1. PICK pt \in Placements :
            Goto(p, "insert", [loc[p] EXCEPT !.row = NewReview(set, pt)])
    BY <1>3 DEF Ensure
  <2>2. pc'[p] = "insert" /\ loc'[p].row = NewReview(set, pt) /\ review' = None
    BY <1>0, <1>3, <2>1 DEF Ensure, Goto, Local, database, TypeOK, IsLocals
  <2> QED
    BY <2>2 DEF KnowsFromTable, Row, NewReview
<1>4. CASE create_policy_review(p)
  <2>1. pc'[p] = "load" /\ review'.status # "applied"
    BY <1>0, <1>4 DEF create_policy_review, Goto, TypeOK, KnowsFromTable
  <2> QED
    BY <2>1 DEF KnowsFromTable
<1>5. CASE ReadExisting(p)
  <2>1. pc'[p] = "commit" /\ loc'[p].from = review.status /\ review' = review /\ review # None
    BY <1>0, <1>5 DEF ReadExisting, Goto, Local, database, TypeOK, IsLocals, LocalsOK
  <2> QED
    BY <1>1, <1>2, <2>1 DEF KnowsFromTable
<1>6. CASE accept(p) \/ _act(p) \/ edit(p) \/ choose(p) \/ previewed(p)
  <2>1. pc[p] = "commit" /\ pc'[p] = "idle"
    BY <1>0, <1>6 DEF accept, _act, edit, choose, previewed, update_policy_review, End, Goto, TypeOK
  <2>2. review \in ReviewRows
    BY <1>0, <2>1 DEF LocalsOK, TablesOK
  <2>3. review'.status = "applied" => loc[p].from = "applied"
    <3>1. CASE accept(p) \/ edit(p) \/ choose(p)
      BY <2>2, <3>1 DEF accept, edit, choose, update_policy_review, ReviewRows
    <3>2. CASE _act(p)
      <4>1. DecidedStatus[Req(p).op] # "applied"
        BY <3>2 DEF _act, DecidedStatus
      <4> QED
        BY <2>2, <3>2, <4>1 DEF _act, update_policy_review, ReviewRows
    <3>3. CASE previewed(p)
      BY <2>2, <3>3 DEF previewed, update_policy_review, ReviewRows
    <3> QED
      BY <1>6, <3>1, <3>2, <3>3
  <2> QED
    BY <1>0, <1>1, <2>1, <2>3 DEF KnowsFromTable
<1>7. CASE finalize_policy_application(p)
  <2>1. pc'[p] \in {"consume", "idle"}
    BY <1>0, <1>7 DEF finalize_policy_application, End, Goto, TypeOK
  <2>2. loc[p].result \in Done => Recorded'
    BY <1>0, <1>7, FinalizeIntents DEF Recorded, Pending
  <2>3. loc[p].result \notin Done => review' = review
    BY <1>7 DEF finalize_policy_application
  <2> QED
    BY <1>1, <1>2, <2>1, <2>2, <2>3 DEF KnowsFromTable
<1>8. CASE review' = review /\ pc'[p] \notin {"insert", "commit"}
  BY <1>1, <1>2, <1>8 DEF KnowsFromTable
<1>9. \/ Ensure(p) \/ create_policy_review(p) \/ ReadExisting(p)
      \/ accept(p) \/ _act(p) \/ edit(p) \/ choose(p) \/ previewed(p)
      \/ finalize_policy_application(p)
      \/ review' = review /\ pc'[p] \notin {"insert", "commit"}
  <2>1. CASE Start(p) \/ ReplaceFails(p) \/ Crash(p)
    BY <1>0, <2>1 DEF Start, ReplaceFails, Crash, End, Goto, database, TypeOK
  <2>2. CASE Load(p) \/ LoadRefused(p) \/ CreatedByOther(p) \/ _assert_fresh(p)
             \/ FreshRefused(p) \/ FoundStale(p)
    BY <1>0, <2>2 DEF Load, LoadRefused, CreatedByOther, _assert_fresh, FreshRefused, FoundStale,
       AfterFresh, Local, End, Goto, database, TypeOK
  <2>3. CASE record_policy_variant(p) \/ VariantTaken(p) \/ preview(p) \/ BuildRefused(p)
             \/ record_policy_preview(p) \/ CheckPending(p) \/ ApplyRefused(p) \/ DryRunPreviews(p)
    BY <1>0, <2>3 DEF record_policy_variant, VariantTaken, preview, BuildRefused,
       record_policy_preview, CheckPending, ApplyRefused, DryRunPreviews, Local, End, Goto,
       database, TypeOK
  <2>4. CASE apply(p) \/ begin_policy_application(p) \/ Recheck(p) \/ _atomic_replace(p)
             \/ consume_policy_preview(p)
    BY <1>0, <2>4 DEF apply, begin_policy_application, Recheck, _atomic_replace,
       consume_policy_preview, Local, End, Goto, database, TypeOK
  <2> QED
    BY <2>1, <2>2, <2>3, <2>4 DEF Step
<1> QED
  BY <1>3, <1>4, <1>5, <1>6, <1>7, <1>8, <1>9

LEMMA InvInit == Init => Inv
<1> SUFFICES ASSUME Init PROVE Inv
  OBVIOUS
<1>1. \A p \in Procs : pc[p] = "idle"
  BY DEF Init
<1>2. Intents /\ (\A p \in Procs : KnowsFromTable(p))
  BY <1>1 DEF Intents, OneOwner, RendersPreviewed, OwnsIntent, Unsettled, KnowsFromTable
<1>3. AppliedOnRecord
  BY DEF Init, AppliedOnRecord
<1> QED
  BY <1>2, <1>3, TypeInit DEF Inv

LEMMA InvStep == Inv /\ [Next]_vars => Inv'
<1> SUFFICES ASSUME Inv, [Next]_vars PROVE Inv'
  OBVIOUS
<1>1. TypeOK' /\ Intents'
  BY TypeStep, IntentsStep DEF Inv
<1>2. Recorded => Recorded'
  BY RecordedKept DEF Inv
<1>3. ASSUME NEW q \in Procs, pc'[q] = pc[q], loc'[q] = loc[q] PROVE KnowsFromTable(q)'
  BY <1>2, <1>3 DEF Inv, KnowsFromTable, Row
<1>4. ASSUME NEW p \in Procs, Start(p) \/ Step(p) \/ ReplaceFails(p) \/ Crash(p)
      PROVE  AppliedOnRecord' /\ \A q \in Procs : KnowsFromTable(q)'
  <2>1. AppliedOnRecord' /\ KnowsFromTable(p)'
    BY <1>4, StatusStep DEF AppliedOnRecord, Recorded
  <2>2. \A q \in Procs \ {p} : pc'[q] = pc[q] /\ loc'[q] = loc[q]
    BY <1>4, StepMoves DEF Inv
  <2> QED
    BY <1>3, <2>1, <2>2
<1>5. CASE UNCHANGED vars \/ replace_placement_proposal_set \/ set_experience_review \/ HumanEdit
  <2>1. UNCHANGED <<review, pc, loc>>
    BY <1>5 DEF vars, database, replace_placement_proposal_set, set_experience_review, HumanEdit
  <2>2. AppliedOnRecord'
    BY <1>2, <2>1 DEF Inv, AppliedOnRecord, Recorded
  <2> QED
    BY <1>1, <1>3, <2>1, <2>2 DEF Inv
<1> QED
  BY <1>1, <1>4, <1>5 DEF Next, Inv

\* A review is applied only when the ledger has an application that is, or that
\* found its content in place.
THEOREM AppliedIsRecorded == Spec => []AppliedOnRecord
<1>1. Inv => AppliedOnRecord
  BY DEF Inv
<1> QED
  BY <1>1, InvInit, InvStep, PTL DEF Spec

-----------------------------------------------------------------------------
\* What reaches the disk.

\* The human text, and every managed block but the policy's own.
Survives(p) ==
    pc[p] = "replace" /\ pc'[p] = "finalize" /\ files[Target(p)] = loc[p].seen =>
        files' = files \/
        KeepsOthers(files[Target(p)], files'[Target(p)], managed_key(Row(p).selected, Agent(p)))

LEMMA ReplaceKeepsOthers ==
    ASSUME Inv, [Next]_vars, NEW p \in Procs
    PROVE  Survives(p)
<1> SUFFICES ASSUME pc[p] = "replace", pc'[p] = "finalize", files[Target(p)] = loc[p].seen
             PROVE  files' = files \/ KeepsOthers(files[Target(p)], files'[Target(p)],
                                                 managed_key(Row(p).selected, Agent(p)))
  BY DEF Survives
<1>0. TypeOK /\ RendersPreviewed(p)
  BY DEF Inv, Intents
<1>1. CASE _atomic_replace(p) \/ ReplaceFails(p)
  <2>1. Target(p) \in Paths /\ Row(p).selected \in Placements /\ Agent(p) \in Agents
        /\ Body(p) \in Contents
    BY <1>0, ApplyingFacts DEF Applying, ReviewRows
  <2>2. files \in [Paths -> Files] /\ files[Target(p)] \in Files
    BY <1>0, <2>1 DEF TypeOK, TablesOK
  <2>3. loc[p].built.after
            = render_target(files[Target(p)], Row(p).selected, Agent(p), Body(p))
    BY <1>0 DEF RendersPreviewed
  <2>4. files' = files \/ files'[Target(p)] = loc[p].built.after
    BY <1>1, <2>1, <2>2 DEF _atomic_replace, ReplaceFails, Overwrite
  <2> QED
    BY <2>1, <2>2, <2>3, <2>4, RenderKeepsOthers
<1>2. CASE UNCHANGED files
  BY <1>2
<1>3. ASSUME NEW q \in Procs, Start(q) \/ Step(q) \/ ReplaceFails(q) \/ Crash(q)
      PROVE  q = p
  BY <1>0, <1>3, StepMoves
<1>4. \/ Start(p) \/ Step(p) \/ ReplaceFails(p) \/ Crash(p)
      \/ UNCHANGED pc
  BY <1>3 DEF Next, vars, replace_placement_proposal_set, set_experience_review, HumanEdit
<1>5. \/ _atomic_replace(p) \/ ReplaceFails(p) \/ UNCHANGED files
  <2>1. Start(p) \/ Crash(p) => UNCHANGED files
    BY DEF Start, Crash
  <2>2. Step(p) => _atomic_replace(p)
    BY DEF Step, Load, Ensure, LoadRefused, create_policy_review, CreatedByOther,
       _assert_fresh, FreshRefused, FoundStale, record_policy_variant, VariantTaken, ReadExisting,
       accept, _act, edit, choose, preview, BuildRefused, record_policy_preview, previewed,
       CheckPending, ApplyRefused, DryRunPreviews, apply, begin_policy_application, Recheck,
       finalize_policy_application, consume_policy_preview
  <2> QED
    BY <1>4, <2>1, <2>2
<1> QED
  BY <1>1, <1>2, <1>5

\* A replacement keeps the human text and every other block of the file that
\* apply_preview compared.
THEOREM HumanTextIsKept == Spec => HumanTextSurvives
<1>1. Inv /\ [Next]_vars =>
          [\A p \in Procs :
              pc[p] = "replace" /\ pc'[p] = "finalize" /\ files[Target(p)] = loc[p].seen =>
                  files' = files \/
                  KeepsOthers(files[Target(p)], files'[Target(p)],
                              managed_key(Row(p).selected, Agent(p)))]_vars
  BY ReplaceKeepsOthers DEF Survives
<1> QED
  BY <1>1, InvInit, InvStep, PTL DEF Spec, HumanTextSurvives

LEMMA LedgerStep ==
    ASSUME Inv, [Next]_vars
    PROVE  [Ledger!Next]_(Ledger!ledgerVars)
<1> USE DEF Ledger!ledgerVars
<1>0. TypeOK /\ Intents
  BY DEF Inv
<1>1. ASSUME NEW p \in Procs, Start(p) \/ Step(p) \/ ReplaceFails(p) \/ Crash(p)
      PROVE  [Ledger!Next]_(Ledger!ledgerVars)
  <2>0. LocalsOK(p) /\ OwnsIntent(p)
    BY <1>0 DEF TypeOK, Intents
  <2>1. CASE begin_policy_application(p)
    <3>1. Target(p) \in Paths /\ loc[p].built \in [before : Files, after : Files]
      BY <1>0, <2>0, <2>1, ApplyingFacts DEF begin_policy_application, LocalsOK, Applying
    <3>2. Ledger!Intend
      BY <2>1, <3>1 DEF begin_policy_application, Ledger!Intend, history
    <3> QED
      BY <3>2 DEF Ledger!Next
  <2>2. CASE _atomic_replace(p) \/ ReplaceFails(p)
    <3>1. loc[p].app \in Pending /\ apps[loc[p].app].path = Target(p)
          /\ apps[loc[p].app].after = loc[p].built.after /\ loc[p].app \notin written
      BY <2>0, <2>2 DEF _atomic_replace, ReplaceFails, OwnsIntent, Unsettled
    <3>2. Ledger!Write(loc[p].app) \/ UNCHANGED Ledger!ledgerVars
      BY <2>2, <3>1 DEF _atomic_replace, ReplaceFails, Overwrite, Ledger!Write, Pending, database
    <3> QED
      BY <3>1, <3>2 DEF Ledger!Next, Pending
  <2>3. CASE finalize_policy_application(p)
    <3>1. pc[p] = "finalize" /\ loc[p].app \in Pending
          /\ loc[p].result \in {"applied", "already_applied", "safety_refused"}
          /\ (loc[p].result = "applied" => loc[p].app \in written)
          /\ (loc[p].result = "already_applied" => loc[p].app \notin written)
      BY <2>0, <2>3 DEF finalize_policy_application, OwnsIntent, LocalsOK, Unsettled, Done
    <3>2. Ledger!Settle(loc[p].app)
      BY <2>3, <3>1 DEF finalize_policy_application, Ledger!Settle, Pending, history
    <3> QED
      BY <3>1, <3>2 DEF Ledger!Next, Pending
  <2>4. CASE UNCHANGED <<files, apps, written>>
    BY <2>4
  <2>5. Step(p) /\ ~begin_policy_application(p) /\ ~_atomic_replace(p)
        /\ ~finalize_policy_application(p) => UNCHANGED <<files, apps, written>>
    BY DEF Step, Load, Ensure, LoadRefused, create_policy_review, CreatedByOther, _assert_fresh,
       FreshRefused, FoundStale, record_policy_variant, VariantTaken, ReadExisting, accept, _act,
       edit, choose, update_policy_review, preview, BuildRefused, record_policy_preview, previewed,
       CheckPending, ApplyRefused, DryRunPreviews, apply, Recheck, consume_policy_preview, Local,
       database, history
  <2>6. Start(p) \/ Crash(p) => UNCHANGED <<files, apps, written>>
    BY DEF Start, Crash, database, history
  <2> QED
    BY <1>1, <2>1, <2>2, <2>3, <2>4, <2>5, <2>6
<1>2. CASE HumanEdit
  <2>1. PICK path \in Paths, text \in HumanTexts :
            \E file \in {Missing, [human |-> text, blocks |-> NoBlocks],
                         [human |-> text, blocks |-> Existing(files[path]).blocks]} :
               files' = [files EXCEPT ![path] = file]
    BY <1>2 DEF HumanEdit
  <2>2. {Missing, [human |-> text, blocks |-> NoBlocks],
         [human |-> text, blocks |-> Existing(files[path]).blocks]} \subseteq Files
    BY <1>0, EditTyped DEF TypeOK, TablesOK
  <2>3. Ledger!Outside
    BY <1>2, <2>1, <2>2 DEF HumanEdit, database, history, Ledger!Outside
  <2> QED
    BY <2>3 DEF Ledger!Next
<1>3. CASE UNCHANGED vars \/ replace_placement_proposal_set \/ set_experience_review
  BY <1>3 DEF vars, database, history, replace_placement_proposal_set, set_experience_review
<1> QED
  BY <1>1, <1>2, <1>3 DEF Next

\* Review & Apply implements the write-ahead ledger.
THEOREM LedgerImplemented == Spec => LedgerRespected
<1>1. Init => Ledger!Init
  BY DEF Init, Ledger!Init, Files
<1> QED
  BY <1>1, InvInit, InvStep, LedgerStep, PTL DEF Spec, LedgerRespected, Ledger!Spec

-----------------------------------------------------------------------------
\* One handler at a time.  Nothing serialises the handlers, and two of them do
\* break what follows (the run with two shows it); a single user's session, in
\* which a request begins when the one before is over or has crashed, does not.

\* A preview shows the file it was made for with one block put in, whose content
\* was accepted for its placement.
Shows(view, accepted) ==
    \E pt \in Placements, ag \in Agents :
        /\ <<pt, view.content>> \in accepted
        /\ view.output_hash = render_target(view.target_hash, pt, ag, view.content)

\* Every block of the file was accepted.
Consented(file, accepted) ==
    file # Missing =>
        \A k \in Keys : file.blocks[k] # None => <<k[1], file.blocks[k]>> \in accepted

\* The steps at which the handler knows the review to be operable.
Operating(p) ==
    \/ pc[p] \in {"build", "record", "pending", "begin"} \cup Unsettled
    \/ pc[p] \in {"update", "commit"} /\ Req(p).op = "preview"

\* The row that the handler has read is the row of the table still.
KnowsReview(p) ==
    /\ pc[p] = "insert" => Row(p).status = "unreviewed"
    /\ pc[p] \notin {"idle", "load", "insert", "consume"} => Row(p) = review
    /\ pc[p] = "commit" => loc[p].from = review.status
    /\ Operating(p) => Row(p).status \in Operable

\* What the handler will record or write was accepted.
WritesConsented(p) ==
    /\ pc[p] = "record" =>
          loc[p].built.after
              = render_target(loc[p].built.before, Row(p).selected, Agent(p), Body(p))
    /\ pc[p] \in Applying \cup {"build"} /\ Req(p).op = "apply" => Shows(loc[p].view, approved)
    /\ pc[p] \in {"begin", "recheck", "replace"} => Consented(loc[p].built.after, approved)

\* No intent is pending but the handler's own.
OnlyIntent(p) ==
    /\ pc[p] = "begin" \/ (pc[p] = "build" /\ Req(p).op = "apply") => Pending = {}
    /\ pc[p] \in Unsettled => Pending \subseteq {loc[p].app}

Knows(p) == KnowsReview(p) /\ WritesConsented(p) /\ OnlyIntent(p)

\* An edit has taken its revision and has not updated the review.
Editing == \E p \in Procs : pc[p] \in {"update", "commit"} /\ Req(p).op = "edit"

RevisionsBelow ==
    used.faults = 0 =>
        \A v \in variants :
            /\ review # None
            /\ \/ v.revision <= review.revision
               \/ v.revision = review.revision + 1 /\ Editing

TablesAgree ==
    /\ OperableIsApproved
    /\ AuditTellsStatus
    /\ OnlyApprovedOnDisk
    /\ latest # None => Shows(latest, approved)

SInv ==
    /\ Inv
    /\ TablesAgree
    /\ RevisionsBelow
    /\ \A p \in Procs : Knows(p)

LEMMA ShowsMore ==
    ASSUME NEW A, NEW B, A \subseteq B, NEW view, Shows(view, A)
    PROVE  Shows(view, B)
BY DEF Shows

LEMMA ConsentedMore ==
    ASSUME NEW A, NEW B, A \subseteq B, NEW file, Consented(file, A)
    PROVE  Consented(file, B)
BY DEF Consented

\* Putting in an accepted block keeps a file in which every block was accepted.
LEMMA RenderConsented ==
    ASSUME NEW file \in Files, NEW A, Consented(file, A), NEW pt \in Placements,
           NEW ag \in Agents, NEW c, <<pt, c>> \in A
    PROVE  Consented(render_target(file, pt, ag, c), A)
<1> DEFINE key == managed_key(pt, ag)
           old == Existing(file).blocks
<1>1. old \in [Keys -> Contents \cup {None}]
  BY HumanTextsAssumption DEF Files, Existing, BlankFile, NoBlocks
<1>2. \A k \in Keys : old[k] # None => <<k[1], old[k]>> \in A
  BY DEF Consented, Existing, BlankFile, NoBlocks
<1>3. render_target(file, pt, ag, c).blocks = [old EXCEPT ![key] = c]
  BY DEF render_target
<1>4. key[1] = pt /\ key \in Keys
  BY DEF managed_key, Keys
<1> HIDE DEF key, old
<1>5. \A k \in Keys : [old EXCEPT ![key] = c][k] = IF k = key THEN c ELSE old[k]
  BY <1>1
<1> QED
  BY <1>2, <1>3, <1>4, <1>5 DEF Consented

\* People do not write managed blocks.
LEMMA EditConsented ==
    ASSUME NEW file, NEW A, Consented(file, A), NEW text,
           NEW new \in {Missing, [human |-> text, blocks |-> NoBlocks],
                        [human |-> text, blocks |-> Existing(file).blocks]}
    PROVE  Consented(new, A)
BY DEF Consented, Existing, BlankFile, NoBlocks

-----------------------------------------------------------------------------
\* The steps of the one handler p.

LEMMA IdleKnows ==
    ASSUME NEW p \in Procs, pc'[p] = "idle"
    PROVE  Knows(p)'
BY DEF Knows, KnowsReview, WritesConsented, OnlyIntent, Operating, Applying, Unsettled

LEMMA LoadKnows ==
    ASSUME NEW p \in Procs, pc'[p] = "load"
    PROVE  Knows(p)'
BY DEF Knows, KnowsReview, WritesConsented, OnlyIntent, Operating, Applying, Unsettled

\* A step that leaves the tables alone.
LEMMA TablesKept ==
    ASSUME TablesAgree, UNCHANGED <<database, files, history>>
    PROVE  TablesAgree'
BY DEF TablesAgree, OperableIsApproved, AuditTellsStatus, OnlyApprovedOnDisk, database, history

LEMMA RevisionsKept ==
    ASSUME RevisionsBelow, UNCHANGED <<database, used>>, Editing => Editing'
    PROVE  RevisionsBelow'
BY DEF RevisionsBelow, database

LEMMA EditingIs ==
    ASSUME NEW p \in Procs, Procs = {p}
    PROVE  /\ Editing <=> pc[p] \in {"update", "commit"} /\ Req(p).op = "edit"
           /\ Editing' <=> pc'[p] \in {"update", "commit"} /\ Req(p)'.op = "edit"
BY DEF Editing

LEMMA FindKnows ==
    ASSUME SInv, NEW p \in Procs,
           Load(p) \/ Ensure(p) \/ LoadRefused(p) \/ CreatedByOther(p)
    PROVE  Knows(p)' /\ pc[p] \in {"load", "insert"} /\ Local(p)
<1>0. TypeOK /\ IsLocals(loc[p])
  BY DEF SInv, Inv, TypeOK
<1>1. CASE Load(p)
  <2>1. pc'[p] = "fresh" /\ loc'[p] = [loc[p] EXCEPT !.row = review] /\ UNCHANGED review
    BY <1>0, <1>1 DEF Load, Goto, TypeOK, Local, database
  <2>2. Row(p)' = review'
    BY <1>0, <2>1 DEF Row, IsLocals
  <2> QED
    BY <1>1, <2>1, <2>2
       DEF Load, Knows, KnowsReview, WritesConsented, OnlyIntent, Operating, Applying, Unsettled
<1>2. CASE Ensure(p)
  <2>1. PICK pt \in Placements :
            Goto(p, "insert", [loc[p] EXCEPT !.row = NewReview(set, pt)])
    BY <1>2 DEF Ensure
  <2>2. pc'[p] = "insert" /\ Row(p)' = NewReview(set, pt)
    BY <1>0, <2>1 DEF Goto, TypeOK, Row, IsLocals
  <2> QED
    BY <1>2, <2>2 DEF Ensure, NewReview, Knows, KnowsReview, WritesConsented, OnlyIntent,
       Operating, Applying, Unsettled
<1>3. CASE LoadRefused(p) \/ CreatedByOther(p)
  <2>1. pc'[p] \in {"idle", "load"}
    BY <1>0, <1>3 DEF LoadRefused, CreatedByOther, End, Goto, TypeOK
  <2> QED
    BY <1>3, <2>1, IdleKnows, LoadKnows DEF LoadRefused, CreatedByOther
<1> QED
  BY <1>1, <1>2, <1>3

LEMMA FreshKnows ==
    ASSUME SInv, NEW p \in Procs, _assert_fresh(p) \/ FreshRefused(p) \/ FoundStale(p)
    PROVE  Knows(p)' /\ pc[p] = "fresh" /\ Local(p)
<1>0. TypeOK /\ IsLocals(loc[p]) /\ KnowsReview(p) /\ LocalsOK(p)
  BY DEF SInv, Inv, TypeOK, Knows
<1>1. CASE _assert_fresh(p)
  <2>1. pc'[p] = AfterFresh(Req(p).op) /\ loc'[p] = loc[p] /\ UNCHANGED review
    BY <1>0, <1>1 DEF _assert_fresh, Goto, TypeOK, Local, database
  <2>2. Row(p)' = Row(p) /\ Req(p)' = Req(p)
    BY <2>1 DEF Row, Req
  <2>3. pc'[p] \in {"variant", "build", "pending", "update"}
        /\ (pc'[p] = "build" => Req(p).op = "preview")
        /\ (pc'[p] = "pending" => Req(p).op = "apply")
    BY <2>1 DEF AfterFresh
  <2>4. Row(p) = review /\ (Req(p).op \in ReadFirst => Row(p).status \in Operable)
    BY <1>0, <1>1 DEF _assert_fresh, KnowsReview
  <2>5. KnowsReview(p)'
    BY <2>1, <2>2, <2>3, <2>4 DEF KnowsReview, Operating, ReadFirst, Unsettled
  <2> QED
    BY <1>1, <2>2, <2>3, <2>5
       DEF _assert_fresh, Knows, WritesConsented, OnlyIntent, Applying, Unsettled
<1>2. CASE FreshRefused(p)
  <2>1. pc'[p] = "idle"
    BY <1>0, <1>2 DEF FreshRefused, End, Goto, TypeOK
  <2> QED
    BY <1>2, <2>1, IdleKnows DEF FreshRefused
<1>3. CASE FoundStale(p)
  <2>1. pc'[p] = "update" /\ loc'[p] = [loc[p] EXCEPT !.req = [op |-> "stale"]] /\ UNCHANGED review
    BY <1>0, <1>3 DEF FoundStale, Goto, TypeOK, Local, database
  <2>2. Row(p)' = Row(p) /\ Req(p)'.op = "stale" /\ Row(p) = review
    BY <1>0, <1>3, <2>1 DEF FoundStale, Row, Req, IsLocals, KnowsReview
  <2> QED
    BY <1>3, <2>1, <2>2
       DEF FoundStale, Knows, KnowsReview, WritesConsented, OnlyIntent, Operating, Applying, Unsettled
<1> QED
  BY <1>1, <1>2, <1>3

\* Reading the status, and refusing, before a decision is written.
LEMMA ReadKnows ==
    ASSUME SInv, NEW p \in Procs, VariantTaken(p) \/ ReadExisting(p)
    PROVE  /\ Knows(p)' /\ Local(p)
           /\ pc[p] = "variant" \/ (pc[p] = "update" /\ pc'[p] = "commit" /\ Req(p)' = Req(p))
<1>0. TypeOK /\ IsLocals(loc[p]) /\ KnowsReview(p)
  BY DEF SInv, Inv, TypeOK, Knows
<1>1. CASE VariantTaken(p)
  <2>1. pc'[p] = "idle"
    BY <1>0, <1>1 DEF VariantTaken, End, Goto, TypeOK
  <2> QED
    BY <1>1, <2>1, IdleKnows DEF VariantTaken
<1>2. CASE ReadExisting(p)
  <2>1. pc'[p] = "commit" /\ loc'[p] = [loc[p] EXCEPT !.from = review.status] /\ UNCHANGED review
    BY <1>0, <1>2 DEF ReadExisting, Goto, TypeOK, Local, database
  <2>2. Row(p)' = Row(p) /\ Req(p)' = Req(p) /\ loc'[p].from = review.status
    BY <1>0, <2>1 DEF Row, Req, IsLocals
  <2>3. KnowsReview(p)'
    BY <1>0, <1>2, <2>1, <2>2 DEF ReadExisting, KnowsReview, Operating, Unsettled
  <2> QED
    BY <1>2, <2>1, <2>2, <2>3
       DEF ReadExisting, Knows, WritesConsented, OnlyIntent, Applying, Unsettled
<1> QED
  BY <1>1, <1>2

LEMMA PreviewKnows ==
    ASSUME SInv, NEW p \in Procs,
           preview(p) \/ BuildRefused(p) \/ CheckPending(p) \/ ApplyRefused(p) \/ DryRunPreviews(p)
    PROVE  Knows(p)' /\ pc[p] \in {"build", "pending"} /\ Local(p)
<1>0. TypeOK /\ IsLocals(loc[p]) /\ KnowsReview(p) /\ LocalsOK(p) /\ TablesAgree
  BY DEF SInv, Inv, TypeOK, Knows
<1>1. CASE preview(p)
  <2> DEFINE new == [loc[p] EXCEPT !.built = Build(p)]
  <2>1. pc'[p] = "record" /\ loc'[p] = new /\ UNCHANGED review
    BY <1>0, <1>1 DEF preview, Goto, TypeOK, Local, database
  <2>2. new.req = Req(p) /\ new.row = Row(p) /\ new.view = loc[p].view /\ new.built = Build(p)
    BY <1>0 DEF IsLocals, Req, Row
  <2> HIDE DEF new
  <2>3. Row(p)' = Row(p) /\ Req(p)' = Req(p) /\ loc'[p].view = loc[p].view
        /\ loc'[p].built = Build(p)
    BY <2>1, <2>2 DEF Row, Req
  <2>4. Agent(p)' = Agent(p) /\ Body(p)' = Body(p)
    BY <2>3 DEF Agent, Body
  <2>5. Build(p).after = render_target(Build(p).before, Row(p).selected, Agent(p), Body(p))
    BY DEF Build, Rendered
  <2>6. KnowsReview(p)'
    BY <1>0, <1>1, <2>1, <2>3 DEF preview, KnowsReview, Operating, Unsettled
  <2>7. WritesConsented(p)'
    BY <2>1, <2>3, <2>4, <2>5 DEF WritesConsented, Applying
  <2> QED
    BY <1>1, <2>1, <2>6, <2>7 DEF preview, Knows, OnlyIntent, Unsettled
<1>2. CASE BuildRefused(p) \/ ApplyRefused(p) \/ DryRunPreviews(p)
  <2>1. pc'[p] \in {"idle", "load"}
    BY <1>0, <1>2 DEF BuildRefused, ApplyRefused, DryRunPreviews, End, Goto, TypeOK
  <2> QED
    BY <1>2, <2>1, IdleKnows, LoadKnows DEF BuildRefused, ApplyRefused, DryRunPreviews
<1>3. CASE CheckPending(p)
  <2>1. pc'[p] = "build" /\ loc'[p] = [loc[p] EXCEPT !.view = latest]
        /\ UNCHANGED <<review, apps, approved>>
    BY <1>0, <1>3 DEF CheckPending, Goto, TypeOK, Local, database, history
  <2>2. Row(p)' = Row(p) /\ Req(p)' = Req(p) /\ loc'[p].view = latest
    BY <1>0, <2>1 DEF Row, Req, IsLocals
  <2>3. Req(p).op = "apply" /\ Pending = {} /\ Pending' = Pending /\ Shows(latest, approved)
    BY <1>0, <1>3, <2>1 DEF CheckPending, LocalsOK, Pending, TablesAgree
  <2>4. KnowsReview(p)'
    BY <1>0, <1>3, <2>1, <2>2 DEF CheckPending, KnowsReview, Operating, Unsettled
  <2>5. WritesConsented(p)' /\ OnlyIntent(p)'
    BY <2>1, <2>2, <2>3 DEF WritesConsented, OnlyIntent, Unsettled
  <2> QED
    BY <1>3, <2>4, <2>5 DEF CheckPending, Knows
<1> QED
  BY <1>1, <1>2, <1>3

\* The file that apply is about to write: the one in place, in which every block
\* was accepted, or what the preview showed of it.
LEMMA ApplyKnows ==
    ASSUME SInv, NEW p \in Procs, apply(p)
    PROVE  Knows(p)' /\ pc[p] = "build" /\ Local(p)
<1> DEFINE new == [loc[p] EXCEPT !.built = Build(p)]
<1>0. TypeOK /\ IsLocals(loc[p]) /\ KnowsReview(p) /\ LocalsOK(p) /\ TablesAgree
      /\ WritesConsented(p) /\ OnlyIntent(p)
  BY DEF SInv, Inv, TypeOK, Knows
<1>1. pc'[p] = "begin" /\ loc'[p] = new /\ UNCHANGED <<review, apps, approved>>
  BY <1>0 DEF apply, Goto, TypeOK, Local, database, history
<1>2. new.req = Req(p) /\ new.row = Row(p) /\ new.view = loc[p].view /\ new.built = Build(p)
  BY <1>0 DEF IsLocals, Req, Row
<1> HIDE DEF new
<1>3. Row(p)' = Row(p) /\ Req(p)' = Req(p) /\ loc'[p].view = loc[p].view
      /\ loc'[p].built = Build(p)
  BY <1>1, <1>2 DEF Row, Req
<1>4. Req(p).op = "apply" /\ Pending = {} /\ Pending' = Pending /\ Shows(loc[p].view, approved)
  BY <1>0, <1>1 DEF apply, OnlyIntent, WritesConsented, Pending
<1>5. Target(p) \in Paths
  BY <1>0, TargetTyped DEF apply, Buildable
<1>6. files[Target(p)] \in Files /\ Consented(files[Target(p)], approved)
  BY <1>0, <1>5 DEF TypeOK, TablesOK, TablesAgree, OnlyApprovedOnDisk, Consented
<1>7. Consented(Rendered(p), approved)
  <2>1. CASE files[Target(p)] = Rendered(p)
    BY <1>6, <2>1
  <2>2. CASE files[Target(p)] = loc[p].view.target_hash /\ Rendered(p) = loc[p].view.output_hash
    BY <1>4, <1>6, <2>2, RenderConsented DEF Shows
  <2> QED
    BY <1>4, <2>1, <2>2 DEF apply, Writable
<1>8. KnowsReview(p)'
  BY <1>0, <1>1, <1>3 DEF apply, KnowsReview, Operating, Unsettled
<1>9. WritesConsented(p)'
  BY <1>1, <1>3, <1>4, <1>7 DEF WritesConsented, Build
<1>10. OnlyIntent(p)'
  BY <1>1, <1>4 DEF OnlyIntent, Unsettled
<1> QED
  BY <1>8, <1>9, <1>10 DEF Knows, apply

-----------------------------------------------------------------------------
\* Steps of an apply from its intent on, which leave its request, its row and
\* the rendering alone.
LEMMA StillKnows ==
    ASSUME NEW p \in Procs, KnowsReview(p), WritesConsented(p), LocalsOK(p),
           pc[p] \in {"recheck", "replace"}, pc'[p] \in {"replace", "finalize"},
           Req(p)' = Req(p), Row(p)' = Row(p), loc'[p].view = loc[p].view,
           loc'[p].built = loc[p].built, loc'[p].app = loc[p].app, OnlyIntent(p),
           UNCHANGED <<review, apps, approved>>
    PROVE  Knows(p)'
<1>1. KnowsReview(p)'
  BY DEF KnowsReview, Operating, Unsettled
<1>2. WritesConsented(p)'
  BY DEF WritesConsented, LocalsOK, Applying
<1>3. OnlyIntent(p)'
  BY DEF OnlyIntent, Unsettled, Pending
<1> QED
  BY <1>1, <1>2, <1>3 DEF Knows

LEMMA ReplaceKnows ==
    ASSUME SInv, NEW p \in Procs, Recheck(p) \/ _atomic_replace(p) \/ ReplaceFails(p)
    PROVE  Knows(p)'
<1>0. TypeOK /\ IsLocals(loc[p]) /\ KnowsReview(p) /\ LocalsOK(p)
      /\ WritesConsented(p) /\ OnlyIntent(p)
  BY DEF SInv, Inv, TypeOK, Knows
<1>1. pc[p] \in {"recheck", "replace"} /\ UNCHANGED <<review, apps, approved>>
  BY DEF Recheck, _atomic_replace, ReplaceFails, Local, database, history
<1>2. PICK l \in {"finalize", "replace"}, new \in
            {[loc[p] EXCEPT !.result = r] : r \in {"applied", "already_applied", "safety_refused"}}
            \cup {[loc[p] EXCEPT !.seen = files[Target(p)]]} : Goto(p, l, new)
  BY DEF Recheck, _atomic_replace, ReplaceFails
<1>3. new.req = Req(p) /\ new.row = Row(p) /\ new.view = loc[p].view
      /\ new.built = loc[p].built /\ new.app = loc[p].app
  BY <1>0, <1>2 DEF IsLocals, Req, Row
<1>4. pc'[p] = l /\ loc'[p] = new
  BY <1>0, <1>2 DEF Goto, TypeOK
<1> QED
  BY <1>0, <1>1, <1>3, <1>4, StillKnows DEF Req, Row

\* A replacement puts accepted blocks on disk, and nothing else changes there.
LEMMA ReplaceTables ==
    ASSUME SInv, NEW p \in Procs, Procs = {p}, _atomic_replace(p) \/ ReplaceFails(p)
    PROVE  TablesAgree' /\ RevisionsBelow'
<1>0. TypeOK /\ TablesAgree /\ RevisionsBelow /\ WritesConsented(p)
  BY DEF SInv, Inv, Knows
<1>1. UNCHANGED <<database, approved>> /\ pc[p] = "replace"
  BY DEF _atomic_replace, ReplaceFails
<1>2. \/ files' = files
      \/ files' = [files EXCEPT ![Target(p)] = loc[p].built.after]
  BY DEF _atomic_replace, ReplaceFails, Overwrite
<1>3. Consented(loc[p].built.after, approved)
  BY <1>0, <1>1 DEF WritesConsented
<1>4. \A path \in Paths : Consented(files'[path], approved)
  <2>1. \A path \in Paths : Consented(files[path], approved) /\ path \in DOMAIN files
    BY <1>0 DEF TablesAgree, OnlyApprovedOnDisk, Consented, TypeOK, TablesOK
  <2> QED
    BY <1>2, <1>3, <2>1
<1>5. TablesAgree'
  BY <1>0, <1>1, <1>4
     DEF TablesAgree, OperableIsApproved, AuditTellsStatus, OnlyApprovedOnDisk, Consented, database
<1>6. ~Editing
  BY <1>1, EditingIs
<1>7. used' = used \/ used' = [used EXCEPT !.faults = @ + 1]
  BY DEF _atomic_replace, ReplaceFails, Spend
<1>8. used'.faults = 0 => used.faults = 0
  BY <1>0, <1>7 DEF TypeOK, TablesOK
<1>9. RevisionsBelow'
  BY <1>0, <1>1, <1>6, <1>8 DEF RevisionsBelow, database
<1> QED
  BY <1>5, <1>9

LEMMA CreateSolo ==
    ASSUME SInv, NEW p \in Procs, Procs = {p}, create_policy_review(p)
    PROVE  TablesAgree' /\ RevisionsBelow' /\ Knows(p)'
<1>0. TypeOK /\ TablesAgree /\ RevisionsBelow /\ KnowsReview(p)
  BY DEF SInv, Inv, Knows
<1>1. pc'[p] = "load"
  BY <1>0 DEF create_policy_review, Goto, TypeOK
<1>2. review' = Row(p) /\ Row(p).status = "unreviewed" /\ audit'.to = "unreviewed"
      /\ review = None /\ UNCHANGED <<variants, latest, files, approved, used>>
  BY <1>0 DEF create_policy_review, KnowsReview, history
<1>3. TablesAgree'
  BY <1>0, <1>2
     DEF TablesAgree, OperableIsApproved, AuditTellsStatus, OnlyApprovedOnDisk, Operable
<1>4. RevisionsBelow'
  BY <1>0, <1>2 DEF RevisionsBelow
<1> QED
  BY <1>1, <1>3, <1>4, LoadKnows

LEMMA VariantSolo ==
    ASSUME SInv, NEW p \in Procs, Procs = {p}, record_policy_variant(p)
    PROVE  TablesAgree' /\ RevisionsBelow' /\ Knows(p)'
<1>0. TypeOK /\ IsLocals(loc[p]) /\ TablesAgree /\ RevisionsBelow /\ KnowsReview(p) /\ LocalsOK(p)
  BY DEF SInv, Inv, Knows, TypeOK
<1>1. pc'[p] = "update" /\ loc'[p] = loc[p] /\ UNCHANGED <<review, audit, latest, apps, files, approved, used>>
  BY <1>0 DEF record_policy_variant, Goto, TypeOK, history
<1>2. Row(p)' = Row(p) /\ Req(p)' = Req(p) /\ Row(p) = review /\ Req(p).op = "edit"
  BY <1>0, <1>1 DEF record_policy_variant, Row, Req, KnowsReview, LocalsOK
<1>3. TablesAgree'
  BY <1>0, <1>1 DEF TablesAgree, OperableIsApproved, AuditTellsStatus, OnlyApprovedOnDisk
<1>4. Editing'
  BY <1>1, <1>2, EditingIs
<1>5. ~Editing /\ review # None
  BY <1>0, EditingIs DEF record_policy_variant, LocalsOK
<1>6. variants' = variants \cup {[revision |-> review.revision + 1, content |-> Req(p).content]}
  BY <1>2 DEF record_policy_variant, NewRevision
<1>7. RevisionsBelow'
  BY <1>0, <1>1, <1>4, <1>5, <1>6 DEF RevisionsBelow
<1>8. Knows(p)'
  BY <1>0, <1>1, <1>2 DEF Knows, KnowsReview, WritesConsented, OnlyIntent, Operating, Applying, Unsettled
<1> QED
  BY <1>3, <1>7, <1>8

\* Every commit of a decision: the new row is operable only if it was accepted,
\* and its revision is not below that of the edit that ends.
LEMMA CommitSolo ==
    ASSUME SInv, NEW p \in Procs, Procs = {p}, pc[p] = "commit", NEW new,
           update_policy_review(p, new), new # None,
           approved \subseteq approved',
           new.status \in Operable => <<new.selected, effective_content(new)>> \in approved',
           new.revision \in Nat, new.revision >= review.revision,
           Req(p).op = "edit" => new.revision = review.revision + 1
    PROVE  TablesAgree' /\ RevisionsBelow' /\ Knows(p)'
<1>0. TypeOK /\ TablesAgree /\ RevisionsBelow
  BY DEF SInv, Inv, Knows, TypeOK
<1>1. pc'[p] = "idle" /\ review' = new /\ audit'.to = new.status
      /\ UNCHANGED <<variants, latest, files, used>>
  BY <1>0 DEF update_policy_review, End, Goto, TypeOK
<1>2. OperableIsApproved' /\ AuditTellsStatus'
  BY <1>1 DEF OperableIsApproved, AuditTellsStatus
<1>3. OnlyApprovedOnDisk' /\ (latest' # None => Shows(latest', approved'))
  BY <1>0, <1>1, ShowsMore DEF TablesAgree, OnlyApprovedOnDisk
<1>4. RevisionsBelow'
  <2>1. Editing <=> Req(p).op = "edit"
    BY EditingIs
  <2>2. review # None /\ review.revision \in Nat
    BY <1>0 DEF TypeOK, LocalsOK, TablesOK, ReviewRows
  <2>3. \A v \in variants : v.revision \in Nat
    BY <1>0 DEF TypeOK, TablesOK
  <2> QED
    BY <1>0, <1>1, <2>1, <2>2, <2>3 DEF RevisionsBelow
<1> QED
  BY <1>1, <1>2, <1>3, <1>4, IdleKnows DEF TablesAgree

LEMMA DecideSolo ==
    ASSUME SInv, NEW p \in Procs, Procs = {p},
           accept(p) \/ _act(p) \/ edit(p) \/ choose(p) \/ previewed(p)
    PROVE  TablesAgree' /\ RevisionsBelow' /\ Knows(p)'
<1>0. TypeOK /\ LocalsOK(p) /\ KnowsReview(p) /\ TablesAgree
  BY DEF SInv, Inv, Knows, TypeOK
<1>1. pc[p] = "commit"
  BY DEF accept, _act, edit, choose, previewed
<1>2. review \in ReviewRows /\ review # None /\ Row(p) = review /\ loc[p].from = review.status
  BY <1>0, <1>1 DEF LocalsOK, TypeOK, TablesOK, KnowsReview
<1>3. review.revision \in Nat /\ NewRevision(p) = review.revision + 1
  BY <1>2 DEF ReviewRows, NewRevision
<1>4. \A r \in ReviewRows : r # None
  BY NoRowIsNone
<1> DEFINE next == NewRevision(p)
<1>10. next \in Nat /\ next >= review.revision /\ next = review.revision + 1
       /\ review.revision >= review.revision
  BY <1>3
<1> HIDE DEF next
<1>5. CASE accept(p)
  <2> DEFINE new == [review EXCEPT !.status = "accepted", !.agent = OrElse(Req(p).agent, @),
                                   !.target = OrElse(Req(p).target, @)]
  <2>1. Req(p).agent \in Agents \cup {None} /\ Req(p).target \in Paths \cup {None}
        /\ Req(p).op = "accept"
    BY <1>0, <1>1, <1>5, RequestShape DEF accept, LocalsOK
  <2>2. new \in ReviewRows
    BY <1>2, <2>1, ZenonT(40) DEF OrElse, ReviewRows, Statuses, Operable
  <2>3. new.selected = review.selected /\ new.revision = review.revision
        /\ effective_content(new) = effective_content(review)
    BY <1>2 DEF ReviewRows, effective_content
  <2>4. update_policy_review(p, new)
        /\ approved' = approved \cup {<<review.selected, effective_content(review)>>}
    BY <1>5 DEF accept
  <2> HIDE DEF new
  <2> QED
    <3>1. new.revision \in Nat /\ new.revision >= review.revision
      BY <1>3, <1>10, <2>3
    <3>2. new # None /\ approved \subseteq approved'
          /\ <<new.selected, effective_content(new)>> \in approved'
      BY <1>4, <2>2, <2>3, <2>4
    <3>3. Req(p).op # "edit"
      BY <2>1
    <3> QED
      BY <1>1, <2>4, <3>1, <3>2, <3>3, CommitSolo
<1>6. CASE _act(p)
  <2> DEFINE new == [review EXCEPT !.status = DecidedStatus[Req(p).op]]
  <2>1. new.status \notin Operable /\ DecidedStatus[Req(p).op] \in Statuses /\ Req(p).op # "edit"
    BY <1>2, <1>6 DEF _act, DecidedStatus, Statuses, Operable, ReviewRows
  <2>2. new \in ReviewRows /\ new.revision = review.revision
    BY <1>2, <2>1 DEF ReviewRows
  <2>3. update_policy_review(p, new) /\ approved' = approved
    BY <1>6 DEF _act
  <2> HIDE DEF new
  <2> QED
    <3>1. new.revision \in Nat /\ new.revision >= review.revision
      BY <1>3, <1>10, <2>2
    <3>2. new # None /\ approved \subseteq approved'
      BY <1>4, <2>2, <2>3
    <3> QED
      BY <1>1, <2>1, <2>3, <3>1, <3>2, CommitSolo
<1>7. CASE edit(p)
  <2> DEFINE new == [review EXCEPT !.status = "unreviewed", !.override = Req(p).content,
                                   !.revision = next]
  <2>1. Req(p).content \in Edits
    BY <1>0, <1>1, <1>7, RequestShape DEF edit, LocalsOK
  <2>2. new.status = "unreviewed" /\ new \in ReviewRows /\ new.revision = next
    BY <1>2, <1>10, <2>1 DEF ReviewRows, Statuses
  <2>3. update_policy_review(p, new) /\ approved' = approved
    BY <1>7 DEF edit, next
  <2> HIDE DEF new
  <2> QED
    <3>1. new.revision \in Nat /\ new.revision >= review.revision
          /\ new.revision = review.revision + 1 /\ new.status \notin Operable
      BY <1>10, <2>2 DEF Operable
    <3>2. new # None /\ approved \subseteq approved'
      BY <1>4, <2>2, <2>3
    <3> QED
      BY <1>1, <2>3, <3>1, <3>2, CommitSolo
<1>8. CASE choose(p)
  <2> DEFINE new == [review EXCEPT !.status = "unreviewed", !.selected = Req(p).placement,
                                   !.override = None, !.revision = next]
  <2>1. Req(p).placement \in Placements /\ Req(p).op # "edit"
    BY <1>0, <1>1, <1>8, RequestShape DEF choose, LocalsOK
  <2>2. new.status = "unreviewed" /\ new \in ReviewRows /\ new.revision = next
    BY <1>2, <1>10, <2>1 DEF ReviewRows, Statuses
  <2>3. update_policy_review(p, new) /\ approved' = approved
    BY <1>8 DEF choose, next
  <2> HIDE DEF new
  <2> QED
    <3>1. new.revision \in Nat /\ new.revision >= review.revision /\ new.status \notin Operable
      BY <1>10, <2>2 DEF Operable
    <3>2. new # None /\ approved \subseteq approved'
      BY <1>4, <2>2, <2>3
    <3> QED
      BY <1>1, <2>1, <2>3, <3>1, <3>2, CommitSolo
<1>9. CASE previewed(p)
  <2> DEFINE new == [review EXCEPT !.status = loc[p].from, !.agent = Agent(p), !.target = Target(p)]
  <2>1. Target(p) \in Paths /\ Agent(p) \in Agents /\ Req(p).op = "preview"
    BY <1>0, <1>1, <1>9, TargetTyped DEF previewed, LocalsOK
  <2>2. new \in ReviewRows /\ new.selected = review.selected /\ new.revision = review.revision
        /\ new.status = review.status /\ effective_content(new) = effective_content(review)
    BY <1>2, <2>1 DEF ReviewRows, effective_content
  <2>3. update_policy_review(p, new) /\ approved' = approved
    BY <1>9 DEF previewed
  <2>4. review.status \in Operable => <<review.selected, effective_content(review)>> \in approved
    BY <1>0, <1>2 DEF TablesAgree, OperableIsApproved
  <2> HIDE DEF new
  <2> QED
    <3>1. new.revision \in Nat /\ new.revision >= review.revision
      BY <1>3, <1>10, <2>2
    <3>2. new # None /\ approved \subseteq approved'
          /\ (new.status \in Operable => <<new.selected, effective_content(new)>> \in approved')
      BY <1>4, <2>2, <2>3, <2>4
    <3>3. Req(p).op # "edit"
      BY <2>1
    <3> QED
      BY <1>1, <2>3, <3>1, <3>2, <3>3, CommitSolo
<1> QED
  BY <1>5, <1>6, <1>7, <1>8, <1>9

LEMMA RecordSolo ==
    ASSUME SInv, NEW p \in Procs, Procs = {p}, record_policy_preview(p)
    PROVE  TablesAgree' /\ RevisionsBelow' /\ Knows(p)'
<1>0. TypeOK /\ IsLocals(loc[p]) /\ TablesAgree /\ RevisionsBelow /\ KnowsReview(p)
      /\ LocalsOK(p) /\ WritesConsented(p)
  BY DEF SInv, Inv, Knows, TypeOK
<1>1. pc[p] = "record" /\ pc'[p] = "update" /\ loc'[p] = loc[p] /\ Req(p).op = "preview"
      /\ UNCHANGED <<review, variants, audit, files, approved, used>>
  BY <1>0 DEF record_policy_preview, Goto, TypeOK, history, LocalsOK
<1>2. Row(p)' = Row(p) /\ Req(p)' = Req(p) /\ Row(p) = review /\ review # None
      /\ Row(p).status \in Operable
  BY <1>0, <1>1 DEF Row, Req, KnowsReview, Operating, LocalsOK
<1>3. Shows(latest', approved')
  <2>1. latest'.target_hash = loc[p].built.before /\ latest'.output_hash = loc[p].built.after
        /\ latest'.content = Body(p)
    BY DEF record_policy_preview
  <2>2. loc[p].built.after
            = render_target(loc[p].built.before, Row(p).selected, Agent(p), Body(p))
    BY <1>0, <1>1 DEF WritesConsented
  <2>3. Row(p).selected \in Placements /\ Agent(p) \in Agents
    BY <1>0, <1>1, TargetTyped DEF LocalsOK, ReviewRows
  <2>4. <<Row(p).selected, Body(p)>> \in approved
    BY <1>0, <1>1, <1>2 DEF TablesAgree, OperableIsApproved, Body
  <2> QED
    BY <1>1, <2>1, <2>2, <2>3, <2>4 DEF Shows
<1>4. TablesAgree'
  BY <1>0, <1>1, <1>3 DEF TablesAgree, OperableIsApproved, AuditTellsStatus, OnlyApprovedOnDisk
<1>5. ~Editing
  BY <1>1, EditingIs
<1>6. RevisionsBelow'
  BY <1>0, <1>1, <1>5 DEF RevisionsBelow
<1>7. Knows(p)'
  BY <1>1, <1>2
     DEF Knows, KnowsReview, WritesConsented, OnlyIntent, Operating, Applying, Unsettled
<1> QED
  BY <1>4, <1>6, <1>7

LEMMA BeginSolo ==
    ASSUME SInv, NEW p \in Procs, Procs = {p}, begin_policy_application(p)
    PROVE  TablesAgree' /\ RevisionsBelow' /\ Knows(p)'
<1> DEFINE id == Len(apps) + 1
           row == [path |-> Target(p), before |-> loc[p].built.before,
                   after |-> loc[p].built.after, outcome |-> "pending"]
           mine == [loc[p] EXCEPT !.app = id]
           known == [mine EXCEPT !.result = "already_applied"]
<1>0. TypeOK /\ IsLocals(loc[p]) /\ TablesAgree /\ RevisionsBelow /\ KnowsReview(p)
      /\ LocalsOK(p) /\ WritesConsented(p) /\ OnlyIntent(p) /\ TablesOK
  BY DEF SInv, Inv, Knows, TypeOK
<1>1. pc[p] = "begin" /\ apps' = Append(apps, row) /\ audit'.to = Row(p).status
      /\ UNCHANGED <<review, variants, latest, files, approved, used>>
  BY <1>0 DEF begin_policy_application, history
<1>2. Row(p) = review /\ Row(p).status \in Operable /\ Req(p).op = "apply" /\ Pending = {}
      /\ Shows(loc[p].view, approved) /\ Consented(loc[p].built.after, approved)
  BY <1>0, <1>1
     DEF KnowsReview, Operating, LocalsOK, Applying, OnlyIntent, WritesConsented
<1>3. TablesAgree'
  BY <1>0, <1>1, <1>2 DEF TablesAgree, OperableIsApproved, AuditTellsStatus, OnlyApprovedOnDisk
<1>4. ~Editing
  BY <1>1, EditingIs
<1>5. RevisionsBelow'
  BY <1>0, <1>1, <1>4 DEF RevisionsBelow
<1>6. Pending' \subseteq {id}
  <2>1. apps \in Seq(Applications)
    BY <1>0 DEF TablesOK
  <2>2. \A a \in DOMAIN apps' : a = id \/ (a \in DOMAIN apps /\ apps'[a] = apps[a])
    BY <1>1, <2>1
  <2> HIDE DEF id
  <2> QED
    BY <1>2, <2>2 DEF Pending
<1>7. mine.app = id /\ mine.req = Req(p) /\ mine.row = Row(p)
      /\ mine.view = loc[p].view /\ mine.built = loc[p].built /\ IsLocals(mine)
  <2> HIDE DEF id
  <2> QED
    BY <1>0 DEF IsLocals, Req, Row
<1> HIDE DEF id
<1>8. known.app = id /\ known.req = Req(p) /\ known.row = Row(p)
      /\ known.view = loc[p].view /\ known.built = loc[p].built
  <2> HIDE DEF mine
  <2> QED
    BY <1>7 DEF IsLocals
<1> HIDE DEF mine, known, row
<1>9. Goto(p, "finalize", known) \/ Goto(p, "recheck", mine)
  BY DEF begin_policy_application, known, mine, id
<1>10. pc'[p] \in {"finalize", "recheck"} /\ loc'[p] \in {known, mine}
  BY <1>0, <1>9 DEF Goto, TypeOK
<1>11. loc'[p].app = id /\ Req(p)' = Req(p) /\ Row(p)' = Row(p) /\ loc'[p].view = loc[p].view
       /\ loc'[p].built = loc[p].built
  BY <1>7, <1>8, <1>10 DEF Req, Row
<1>12. KnowsReview(p)'
  BY <1>1, <1>2, <1>10, <1>11 DEF KnowsReview, Operating
<1>13. WritesConsented(p)'
  BY <1>1, <1>2, <1>10, <1>11 DEF WritesConsented
<1>14. OnlyIntent(p)'
  BY <1>6, <1>10, <1>11 DEF OnlyIntent
<1> QED
  BY <1>3, <1>5, <1>12, <1>13, <1>14 DEF Knows

LEMMA FinishSolo ==
    ASSUME SInv, NEW p \in Procs, Procs = {p},
           finalize_policy_application(p) \/ consume_policy_preview(p)
    PROVE  TablesAgree' /\ RevisionsBelow' /\ Knows(p)'
<1>0. TypeOK /\ IsLocals(loc[p]) /\ TablesAgree /\ RevisionsBelow /\ KnowsReview(p)
      /\ LocalsOK(p) /\ WritesConsented(p) /\ TablesOK
  BY DEF SInv, Inv, Knows, TypeOK
<1>1. pc[p] \in {"finalize", "consume"} /\ pc[p] \in Applying
      /\ UNCHANGED <<variants, files, approved, used>>
  BY DEF finalize_policy_application, consume_policy_preview, history, Applying
<1>2. review \in ReviewRows /\ review # None /\ latest \in Previews /\ Req(p).op = "apply"
      /\ Shows(loc[p].view, approved)
  BY <1>0, <1>1, ApplyingFacts, NoRowIsNone DEF WritesConsented
<1>3. ~Editing
  BY <1>1, EditingIs
<1>4. CASE finalize_policy_application(p)
  <2>1. pc[p] = "finalize" /\ UNCHANGED latest
    BY <1>4 DEF finalize_policy_application
  <2>2. Row(p) = review /\ review.status \in Operable
    BY <1>0, <2>1 DEF KnowsReview, Operating, Unsettled
  <2>3. review'.status = audit'.to /\ review'.status \in Operable /\ review' \in ReviewRows
        /\ review'.selected = review.selected /\ review'.revision = review.revision
        /\ effective_content(review') = effective_content(review)
    BY <1>2, <1>4, <2>2
       DEF finalize_policy_application, ReviewRows, Statuses, Operable, effective_content
  <2>4. TablesAgree'
    BY <1>0, <1>1, <1>2, <2>1, <2>2, <2>3
       DEF TablesAgree, OperableIsApproved, AuditTellsStatus, OnlyApprovedOnDisk
  <2>5. RevisionsBelow'
    BY <1>0, <1>1, <1>3, <2>3, NoRowIsNone DEF RevisionsBelow
  <2>6. pc'[p] \in {"consume", "idle"}
    BY <1>0, <1>4 DEF finalize_policy_application, End, Goto, TypeOK
  <2>7. CASE pc'[p] = "consume"
    <3>1. loc'[p] = loc[p]
      BY <1>0, <1>4, <2>7 DEF finalize_policy_application, End, Goto, TypeOK
    <3>2. Req(p)' = Req(p)
      BY <3>1 DEF Req
    <3> QED
      BY <1>1, <1>2, <2>4, <2>5, <2>7, <3>1, <3>2
         DEF Knows, KnowsReview, WritesConsented, OnlyIntent, Operating, Unsettled
  <2> QED
    BY <2>4, <2>5, <2>6, <2>7, IdleKnows
<1>5. CASE consume_policy_preview(p)
  <2>1. pc'[p] = "idle" /\ UNCHANGED <<review, audit>>
    BY <1>0, <1>5 DEF consume_policy_preview, End, Goto, TypeOK
  <2>2. latest'.content = latest.content /\ latest'.target_hash = latest.target_hash
        /\ latest'.output_hash = latest.output_hash
    BY <1>2, <1>5 DEF consume_policy_preview, Previews
  <2>3. Shows(latest', approved')
    BY <1>0, <1>1, <1>2, <2>2, NoRowIsNone DEF TablesAgree, Shows
  <2>4. TablesAgree'
    BY <1>0, <1>1, <2>1, <2>3
       DEF TablesAgree, OperableIsApproved, AuditTellsStatus, OnlyApprovedOnDisk
  <2>5. RevisionsBelow'
    BY <1>0, <1>1, <1>3, <2>1 DEF RevisionsBelow
  <2> QED
    BY <2>1, <2>4, <2>5, IdleKnows
<1> QED
  BY <1>4, <1>5

LEMMA StartSolo ==
    ASSUME SInv, NEW p \in Procs, Procs = {p}, Start(p) \/ Crash(p)
    PROVE  TablesAgree' /\ RevisionsBelow' /\ Knows(p)'
<1>0. TypeOK /\ TablesAgree /\ RevisionsBelow
  BY DEF SInv, Inv
<1>1. UNCHANGED <<database, files, history>> /\ pc'[p] \in {"idle", "load"}
  BY <1>0 DEF Start, Crash, End, Goto, TypeOK
<1>2. (used' = [used EXCEPT !.ops = @ + 1] /\ pc[p] = "idle")
      \/ used' = [used EXCEPT !.faults = @ + 1]
  BY DEF Start, Crash, Spend
<1>3. used.faults \in Nat /\ used \in [{"ops", "regen", "human", "faults"} -> Nat]
  BY <1>0 DEF TypeOK, TablesOK
<1>4. used'.faults = 0 => used.faults = 0 /\ ~Editing
  BY <1>2, <1>3, EditingIs
<1>5. RevisionsBelow'
  BY <1>0, <1>1, <1>4 DEF RevisionsBelow, database
<1> QED
  BY <1>0, <1>1, <1>5, TablesKept, IdleKnows, LoadKnows

LEMMA OutsideSolo ==
    ASSUME SInv, NEW p \in Procs, Procs = {p},
           UNCHANGED vars \/ replace_placement_proposal_set \/ set_experience_review \/ HumanEdit
    PROVE  TablesAgree' /\ RevisionsBelow' /\ Knows(p)'
<1>0. TypeOK /\ TablesAgree /\ RevisionsBelow /\ Knows(p)
  BY DEF SInv, Inv
<1>1. UNCHANGED <<review, variants, latest, apps, audit, pc, loc, approved, written>>
  BY DEF vars, replace_placement_proposal_set, set_experience_review, HumanEdit, database, history
<1>2. used'.faults = used.faults
  <2>1. used' = used \/ used' = [used EXCEPT !.regen = @ + 1] \/ used' = [used EXCEPT !.human = @ + 1]
    BY DEF vars, replace_placement_proposal_set, set_experience_review, HumanEdit, Spend
  <2> QED
    BY <1>0, <2>1 DEF TypeOK, TablesOK
<1>3. OnlyApprovedOnDisk'
  <2>1. \A path \in Paths : Consented(files[path], approved) /\ path \in DOMAIN files
    BY <1>0 DEF TablesAgree, OnlyApprovedOnDisk, Consented, TypeOK, TablesOK
  <2>2. CASE HumanEdit
    <3>1. PICK path \in Paths, text \in HumanTexts :
              \E file \in {Missing, [human |-> text, blocks |-> NoBlocks],
                           [human |-> text, blocks |-> Existing(files[path]).blocks]} :
                 files' = [files EXCEPT ![path] = file]
      BY <2>2 DEF HumanEdit
    <3>2. PICK file : files' = [files EXCEPT ![path] = file] /\ Consented(file, approved)
      BY <2>1, <3>1, EditConsented
    <3>3. \A q \in Paths : Consented(files'[q], approved)
      BY <2>1, <3>2
    <3> QED
      BY <1>1, <3>3 DEF OnlyApprovedOnDisk, Consented
  <2>3. CASE UNCHANGED files
    BY <1>0, <1>1, <2>3 DEF TablesAgree, OnlyApprovedOnDisk
  <2> QED
    BY <2>2, <2>3 DEF vars, replace_placement_proposal_set, set_experience_review
<1>4. TablesAgree'
  BY <1>0, <1>1, <1>3 DEF TablesAgree, OperableIsApproved, AuditTellsStatus
<1>5. Editing' <=> Editing
  BY <1>1 DEF Editing, Req
<1>6. RevisionsBelow'
  BY <1>0, <1>1, <1>2, <1>5 DEF RevisionsBelow
<1>7. Row(p)' = Row(p) /\ Req(p)' = Req(p) /\ Pending' = Pending
  BY <1>1 DEF Row, Req, Pending
<1>8. Agent(p)' = Agent(p) /\ Body(p)' = Body(p)
  BY <1>1, <1>7 DEF Agent, Body
<1>9. KnowsReview(p)'
  BY <1>0, <1>1, <1>7 DEF Knows, KnowsReview, Operating
<1>10. WritesConsented(p)' /\ OnlyIntent(p)'
  BY <1>0, <1>1, <1>7, <1>8 DEF Knows, WritesConsented, OnlyIntent
<1> QED
  BY <1>4, <1>6, <1>9, <1>10 DEF Knows

-----------------------------------------------------------------------------
\* The steps that leave the tables alone.
LEMMA LocalSolo ==
    ASSUME SInv, NEW p \in Procs, Procs = {p}, Knows(p)', Local(p),
           \/ pc[p] \in {"load", "insert", "fresh", "variant", "build", "pending", "recheck"}
           \/ pc[p] = "update" /\ pc'[p] = "commit" /\ Req(p)' = Req(p)
    PROVE  TablesAgree' /\ RevisionsBelow' /\ Knows(p)'
<1>1. UNCHANGED <<database, files, history, used>> /\ TablesAgree /\ RevisionsBelow
  BY DEF Local, SInv
<1>2. Editing => Editing'
  BY EditingIs
<1> QED
  BY <1>1, <1>2, TablesKept, RevisionsKept

LEMMA StepSolo ==
    ASSUME SInv, NEW p \in Procs, Procs = {p}, Start(p) \/ Step(p) \/ ReplaceFails(p) \/ Crash(p)
    PROVE  TablesAgree' /\ RevisionsBelow' /\ Knows(p)'
<1>1. CASE Load(p) \/ Ensure(p) \/ LoadRefused(p) \/ CreatedByOther(p)
  BY <1>1, FindKnows, LocalSolo
<1>2. CASE _assert_fresh(p) \/ FreshRefused(p) \/ FoundStale(p)
  BY <1>2, FreshKnows, LocalSolo
<1>3. CASE VariantTaken(p) \/ ReadExisting(p)
  BY <1>3, ReadKnows, LocalSolo
<1>4. CASE preview(p) \/ BuildRefused(p) \/ CheckPending(p) \/ ApplyRefused(p) \/ DryRunPreviews(p)
  BY <1>4, PreviewKnows, LocalSolo
<1>5. CASE apply(p)
  BY <1>5, ApplyKnows, LocalSolo
<1>6. CASE Recheck(p)
  BY <1>6, ReplaceKnows, LocalSolo DEF Recheck
<1>7. CASE _atomic_replace(p) \/ ReplaceFails(p)
  BY <1>7, ReplaceKnows, ReplaceTables
<1>8. CASE create_policy_review(p)
  BY <1>8, CreateSolo
<1>9. CASE record_policy_variant(p)
  BY <1>9, VariantSolo
<1>10. CASE accept(p) \/ _act(p) \/ edit(p) \/ choose(p) \/ previewed(p)
  BY <1>10, DecideSolo
<1>11. CASE record_policy_preview(p)
  BY <1>11, RecordSolo
<1>12. CASE begin_policy_application(p)
  BY <1>12, BeginSolo
<1>13. CASE finalize_policy_application(p) \/ consume_policy_preview(p)
  BY <1>13, FinishSolo
<1>14. CASE Start(p) \/ Crash(p)
  BY <1>14, StartSolo
<1> QED
  BY <1>1, <1>2, <1>3, <1>4, <1>5, <1>6, <1>7, <1>8, <1>9, <1>10, <1>11, <1>12, <1>13, <1>14
     DEF Step

LEMMA SInvInit == Init => SInv
<1> SUFFICES ASSUME Init PROVE SInv
  OBVIOUS
<1>1. TablesAgree /\ RevisionsBelow
  BY DEF Init, TablesAgree, RevisionsBelow, OperableIsApproved, AuditTellsStatus, OnlyApprovedOnDisk
<1>2. ASSUME NEW p \in Procs PROVE Knows(p)
  <2>1. pc[p] = "idle"
    BY DEF Init
  <2> QED
    BY <2>1 DEF Knows, KnowsReview, WritesConsented, OnlyIntent, Operating, Applying, Unsettled
<1> QED
  BY <1>1, <1>2, InvInit DEF SInv

LEMMA SInvStep ==
    ASSUME NEW p, Procs = {p}
    PROVE  SInv /\ [Next]_vars => SInv'
<1> SUFFICES ASSUME SInv, [Next]_vars PROVE SInv'
  OBVIOUS
<1>1. Inv'
  BY InvStep DEF SInv
<1>2. TablesAgree' /\ RevisionsBelow' /\ Knows(p)'
  BY StepSolo, OutsideSolo DEF Next
<1> QED
  BY <1>1, <1>2 DEF SInv

\* While requests come one after the other, a review is operable only with the
\* placement and content that somebody accepted.
THEOREM OperableWasAccepted ==
    ASSUME NEW p, Procs = {p}
    PROVE  Spec => []OperableIsApproved
<1>1. SInv => OperableIsApproved
  BY DEF SInv, TablesAgree
<1>2. SInv /\ [Next]_vars => SInv'
  BY SInvStep
<1> QED
  BY <1>1, <1>2, SInvInit, PTL DEF Spec

\* While requests come one after the other, every managed block on disk was
\* accepted for its placement, whatever crashes, regenerations and edits by
\* people happen in between.
THEOREM OnDiskWasAccepted ==
    ASSUME NEW p, Procs = {p}
    PROVE  Spec => []OnlyApprovedOnDisk
<1>1. SInv => OnlyApprovedOnDisk
  BY DEF SInv, TablesAgree
<1>2. SInv /\ [Next]_vars => SInv'
  BY SInvStep
<1> QED
  BY <1>1, <1>2, SInvInit, PTL DEF Spec

\* While requests come one after the other, the newest audit row ends in the
\* status that the review has.
THEOREM AuditEndsInStatus ==
    ASSUME NEW p, Procs = {p}
    PROVE  Spec => []AuditTellsStatus
<1>1. SInv => AuditTellsStatus
  BY DEF SInv, TablesAgree
<1>2. SInv /\ [Next]_vars => SInv'
  BY SInvStep
<1> QED
  BY <1>1, <1>2, SInvInit, PTL DEF Spec

\* While requests come one after the other and none is cut short, the revision
\* of the next edit is free.
THEOREM RevisionIsFree ==
    ASSUME NEW p, Procs = {p}
    PROVE  Spec => []NextEditHasRevision
<1>1. SInv => NextEditHasRevision
  <2> SUFFICES ASSUME SInv, used.faults = 0, review # None, \A q \in Procs : pc[q] = "idle",
                      NEW v \in variants
               PROVE  v.revision # review.revision + 1
    BY DEF NextEditHasRevision
  <2>1. ~Editing
    BY DEF Editing
  <2>2. v.revision <= review.revision
    BY <2>1 DEF SInv, RevisionsBelow
  <2>3. v.revision \in Nat /\ review.revision \in Nat
    BY DEF SInv, Inv, TypeOK, TablesOK, ReviewRows
  <2> QED
    BY <2>2, <2>3
<1>2. SInv /\ [Next]_vars => SInv'
  BY SInvStep
<1> QED
  BY <1>1, <1>2, SInvInit, PTL DEF Spec

\* What a step writes is the one pending intent.
LEMMA WritesItsIntent ==
    ASSUME SInv, NEW p, Procs = {p}, [Next]_vars
    PROVE  \A a \in written' \ written, b \in Pending : b >= a
<1>0. TypeOK /\ Knows(p) /\ OwnsIntent(p)
  BY DEF SInv, Inv, Intents
<1>1. CASE _atomic_replace(p) \/ ReplaceFails(p)
  <2>1. Pending \subseteq {loc[p].app} /\ written' \ written \subseteq {loc[p].app}
        /\ loc[p].app \in Pending
    BY <1>0, <1>1
       DEF _atomic_replace, ReplaceFails, Overwrite, Knows, OnlyIntent, OwnsIntent, Unsettled
  <2>2. loc[p].app \in Nat
    BY <1>0, <2>1 DEF TypeOK, TablesOK, Pending
  <2> QED
    BY <2>1, <2>2
<1>2. CASE written' = written
  BY <1>2
<1>3. Step(p) => _atomic_replace(p) \/ written' = written
  BY DEF Step, Load, Ensure, LoadRefused, create_policy_review, CreatedByOther, _assert_fresh,
     FreshRefused, FoundStale, record_policy_variant, VariantTaken, ReadExisting, accept, _act,
     edit, choose, update_policy_review, preview, BuildRefused, record_policy_preview, previewed,
     CheckPending, ApplyRefused, DryRunPreviews, apply, begin_policy_application, Recheck,
     finalize_policy_application, consume_policy_preview, Local, history
<1>4. Start(p) \/ Crash(p) \/ replace_placement_proposal_set \/ set_experience_review
      \/ HumanEdit \/ UNCHANGED vars => written' = written
  BY DEF Start, Crash, replace_placement_proposal_set, set_experience_review, HumanEdit, vars,
     history
<1> QED
  BY <1>1, <1>2, <1>3, <1>4 DEF Next

\* While requests come one after the other, nothing is written while an earlier
\* intent is pending.
THEOREM PendingIntentBlocks ==
    ASSUME NEW p, Procs = {p}
    PROVE  Spec => PendingBlocksWrites
<1>1. SInv /\ [Next]_vars =>
          [\A a \in written' \ written, b \in Pending : b >= a]_vars
  BY WritesItsIntent
<1>2. SInv /\ [Next]_vars => SInv'
  BY SInvStep
<1> QED
  BY <1>1, <1>2, SInvInit, PTL DEF Spec, PendingBlocksWrites
=============================================================================
