# TrajWeave, specified and checked

TLA+ specifications of TrajWeave, from the import of sessions to the lifecycle
of applied policies, model-checked with TLC on small instances, and theorems
about them checked by TLAPS. `PROJECT.json` lists the runs, the code
each definition stands for, the hazards and the theorems. Paths below are
relative to the package, `src/trajweave/`, unless they begin with `docs/`.

## 1. The system

TrajWeave imports the session logs of coding agents, finds recurring lessons in
them, proposes policy text, lets a person review it, and writes it into
`AGENTS.md`, `CLAUDE.md` or a skill file. One SQLite file holds all state;
policy files are the only other thing it writes. There is no daemon: a process
is a CLI command, or a thread of the viewer's `ThreadingHTTPServer`, and each
opens its own connection. Statements autocommit unless they stand in
`Database.transaction()` (a deferred `BEGIN`), so reads that precede a
transaction are not protected by it.

| Component | State | Operations | Talks to |
|---|---|---|---|
| Import (`ingest/`, `adapters/`, `projects/`, `normalization/`) | `projects`, `source_sessions`, `trajectories`, events, files | register a project, import a session once per source hash, re-import a changed one, mark projects missing | reads agent logs and git; feeds Stage 5 |
| Experiences (`experience/`) | occurrences, `experiences`, evidence, extraction state | incremental extraction, rebuild of the groups, triage | reads trajectories; a rebuild or a triage deletes proposal sets |
| Placement (`placement/`) | `placement_proposal_sets`, proposals, evidence | generate: score every eligible Experience, replace a set whose fingerprint changed | reads experiences; feeds Stage 7 |
| Review & Apply (`review/service.py`) | `policy_reviews`, actions, variants, previews, applications | accept, reject, defer, test first, edit, choose, preview, apply, history | reads proposals; calls the writer |
| Policy file writer (`review/targets.py`) | the files | resolve a target, render a managed block, replace a file atomically | used by Stages 7, 8 and 9 |
| Evaluation (`evaluation/`) | specs, runs, verifier results, comparisons | create a spec, run counterbalanced pairs in throwaway workspaces, compare | uses the writer in the workspaces |
| Lifecycle (`lifecycle/`) | `policies`, versions, lineage, recommendations, previews, applications | adopt, rewrite, promote, demote, merge, split, disable, enable, prune, rollback, recommend, accept, preview, apply | adopts reviews; reads comparisons; uses the writer |
| Storage (`storage/`) | schema version, all tables | open and migrate, transactions | everything |
| Viewer and CLI (`ui/`, `cli/`) | none | requests to the above | the processes of the models |

What makes each correct, and what is hard about it:

* **Review & Apply.** Only accepted text reaches a file; an acceptance covers
  one text and lapses with an edit or another choice; a preview or an apply for
  proposals that changed is refused; human text is never lost; the database
  tells what was done to the disk. Hard: reads outside the transactions that
  use them, a crash between intent, replacement and outcome, editors changing
  the file, proposals regenerated under a review.
* **Writer.** A render keeps every byte outside its block, rendering twice is
  rendering once, malformed markers are refused, a target stays in its root.
* **Lifecycle.** One current, active version per policy; pruned is final; a
  version never changes; global placement needs confirmation; one managed block
  per policy. Hard: operations of up to eight statements in no transaction.
* **Evaluation.** Each repetition has both conditions on the same commit, order
  alternates, a comparison counts complete pairs. Hard: crash within a pair,
  two runners.
* **Import, Experiences, Placement.** Re-running without new input changes
  nothing; identifiers stay with their groups; triage survives a rebuild; a
  false positive has no proposals. Hard: crash between trajectories, runs that
  read everything first and write afterwards, beside a triage.
* **Storage.** A database ends at the newest schema whoever opens it.

The full list of hazards, each at its line, is `hazards` in `PROJECT.json`.

## 2. Modules at a glance

| Modules | Content | Instances | Proofs |
|---|---|---|---|
| `PolicyTarget`, `ReviewApply`, `ApplyLedger` | Stage 7, and the ledger it implements | `MCReviewApply` | `ReviewApplyProofs` |
| `PolicyFile` | the text-level render | `MCPolicyFile` | `PolicyFileProofs` |
| `PolicyLifecycle`, `VersionHistory` | Stage 9, and the history it implements | `MCPolicyLifecycle` | `PolicyLifecycleProofs` |
| `EvaluationPairs` | Stage 8 | `MCEvaluationPairs` | `EvaluationPairsProofs` |
| `SessionImport` | Stages 1-3 | | `ImportProofs` |
| `PatternDetection`, `ExperienceGrouping` | the pure parts of Stage 5 | | |
| `ExperienceExtraction` | Stage 5, over `SessionImport` | | `EvidenceProofs` |
| `PlacementScoring` | the pure part of Stage 6 | | `TriageProofs` |
| `PlacementGeneration` | Stage 6, composing all of Stages 1-6 | `MCPlacementGeneration` | `TriageProofs` |
| `Migrations` | opening the database | `MCMigrations` | `MigrationsProofs` |

`PlacementGeneration` extends `ExperienceExtraction`, which extends
`SessionImport`; one next-state relation has the commands of all three.
`ReviewApply` meets them in `replace_placement_proposal_set` and
`set_experience_review`, which are what Stages 5 and 6 do to the proposal set it
reviews; `PolicyLifecycle` adopts accepted reviews as given rows, and gets the
evidence of Stage 8 as counts of outcomes that grow.

## 3. Modules and code

**`PolicyTarget`** (`review/targets.py`). A file is `Missing` or a record of its
human text and a function from managed keys to contents. `render_target` puts
one block in and keeps the rest; `Resolve` and `Resolvable` are
`resolve_target`, with a path as an approved root and a name; `Renderable` is
when neither reading nor rendering raises. Two files are equal exactly when
their hashes are. Human text may be `"unsafe"`: broken or duplicate markers,
bytes that are not UTF-8, a NUL. A managed key also hashes the owner, one
Experience here, and the path, which is the file the block stands in.

**`ReviewApply`** (`review/service.py`, the Stage 7 part of
`storage/repository.py`). One proposal set and its one review
(`UNIQUE(proposal_set_id)`).

| Variable | Code |
|---|---|
| `set` | `source_fingerprint` of the proposal set, `None` if deleted |
| `review`, `variants` | the row of `policy_reviews`, `policy_review_variants` |
| `latest` | the newest row of `policy_review_previews`; its id is a prefix of the output hash, so equal hashes are one row |
| `apps` | `policy_applications`, the id being the index |
| `audit` | statuses of the newest `policy_review_actions` row |
| `files` | the policy files |
| `pc`, `loc` | each handler's position and locals |
| `approved`, `written` | history: what was accepted, what hit the disk |
| `used` | how much of each bound is spent |

A handler runs `Start`, `Load` (find the review and its context), `Ensure` and
`create_policy_review` if there is none, `_assert_fresh`, then its own steps:

* accept, reject, defer, test first, choose: `ReadExisting`, then the commit
  (`accept`, `_act`, `choose`), the two halves of `update_policy_review`;
* edit: `record_policy_variant` before them; the variant's primary key can fail;
* preview: `preview` (resolve and render), `record_policy_preview`,
  `ReadExisting`, `previewed`;
* apply: `CheckPending`, `apply` (resolve, render and compare with the
  preview), `begin_policy_application`, `Recheck` (`apply_preview`'s own read and
  comparison), `_atomic_replace`, `finalize_policy_application`,
  `consume_policy_preview`. If the file already is what the render gives,
  `begin` goes straight to `finalize` with `already_applied`.

`ReplaceFails` is an `OSError` anywhere in `_atomic_replace`, also after
`os.replace`. `Crash` ends a handler at any step; it stands for a killed process
and for an exception the handler does not catch, such as a database that stays
busy. `replace_placement_proposal_set` and `set_experience_review` are what the
other stages do to the proposal set, and `HumanEdit` changes a file.

Simplifications: `Load` reads the review and the proposal set at once (the
fingerprint of a review never changes, and `_assert_fresh` reads the set
again); an insertion of a preview and its timestamp are one step, so that the
newest row is the last committed; the project of a policy is registered; a dry
run with a preview only reads, and one without goes on as a preview request;
every regenerated set holds all five alternatives, as the engine makes them.

**`ApplyLedger`** is what Apply promises about the disk: `Intend`, `Write` of a
pending intent with exactly the text it names and at most once, `Settle` as
`applied` only after the write, and `Outside` for people.

**`PolicyFile`** (`review/targets.py` again, on the text). A text is a sequence
of tokens: CR, LF, words, start markers (one per key), end markers, broken
markers. `_validate_markers`, `_line_ending`, `_block` and `render_target` are
translated function by function, among them that `$` in the start pattern does
not match before CR. `apply_preview` renders a policy into the file, `HumanEdit`
inserts, deletes, or converts the line breaks. `last` is the policy applied with
no edit since. `Parsed` and `Human` read a text as people do, as its blocks and what is
around them; the renderer has neither, and the properties are about these.

**`PolicyLifecycle`** (`lifecycle/`, the Stage 9 part of `storage/repository.py`).
The service does no transactions: an operation is a list of repository calls, one
commit each. `loc[p].todo` is the list a handler has left; an operation
(`adopt`, `rewrite`, `promote`, `demote`, `rollback`, `merge`, `split`, `enable`,
`disable`, `prune`, accept, reject and defer of a recommendation, `recommend`,
preview, apply) checks what the code checks, then sets the list, and the actions
named after repository functions (`create_policy`, `create_policy_version`,
`record_lineage`, ...) take the head of it. `Succeed` is the order that rewrite,
promote, demote and rollback share: `Number`, `Insert` (the two calls of
`_new_version`), edge, retire the old, pointer, audit. A version number taken by
another handler ends the operation (`VersionTaken`). The loop of `split` is a list
of `split_child` items, each of which becomes the calls of one child, or none if the
child was there when `split` began: the lookup is before the loop
(`lifecycle/service.py:314`), so a child that one request names twice is made twice,
the second time as a version of the first, which the duplicate check of
`docs/stages/STAGE_9_REPORT.md:268` would have stopped. A version has its
`created_via` in the column `via`: two adoptions that overlap each find no policy
and each write an `initial` version, so the later one has no edge.
`aggregate_evidence` and `recommend_for_version` are operators.
**`VersionHistory`** is the abstract specification.

**`EvaluationPairs`** (`evaluation/`). `create_spec` freezes content, revision and
commit; `cmd_eval_run` runs one or more repetitions, each of them: number
(`next_evaluation_repetition`), two clones, candidate policy, both conditions in
the order of `_order_for`, a row per condition, comparison. A command runs until it
`Exits`, is `Undecodable`, or `TimesOut`. A failed clone or policy writes two error
rows (`Isolation`, `RecordErrors`). `spaces` are the workspaces of a handler;
`touched` says which condition's commands have run in one. `Outside` is what a
reviewer and a developer do meanwhile: edit or reject, move HEAD, lose the
commit, move the repository. `compare_runs` is an operator on two rows. A handler is
in the `with` block of `isolated_workspaces` at the positions `Within`; every way out of
it, its end (`Leave`), a failed clone or an exception (`Die`), goes by
`_remove_workspace`, which swallows the `OSError` of `remove_tree` (`workspace.py:127`):
the directories go, or they stay, nobody is told and the handler goes on. `refused` is
the history of that. The next repetition has a new directory (`mkdtemp`).

**`SessionImport`** (`ingest/importer.py`, `projects/registry.py`). The n-th
version of a transcript stands for its text and its hash. An import walks over
the discovered sessions: `Take` hashes the file and looks for the row, `Parse`
reads it (it may have grown), `persist_trajectory` and `Finish` are separate
transactions, any of which can fail. `cmd_init` writes the marker, then the row.

**`PatternDetection`**, **`ExperienceGrouping`**, **`PlacementScoring`** are
operators without state: the four detectors and the profile of a trajectory; groups,
contradictions and confidence; features, scope and the five scores.

**`ExperienceExtraction`** (`experience/extract.py`). `Scan` lists the trajectories
in the order of their numbers (`Ordered`) with whether their hash changed; each is detected again and its state recorded in two
transactions; `Load` reads all occurrences and `Rebuild` recomputes the groups,
restoring triage by group. `CascadeTrajectory` is what the foreign keys delete
when an import replaces a trajectory.

**`PlacementGeneration`** (`placement/generate.py`). `generate` reads every eligible
experience with its fingerprint (the row, and the evidence `get_placement_evidence`
finds for it), then writes set by set, skipping unchanged ones;
`set_experience_review` is a triage, which deletes the set of an excluded experience.

**`Migrations`** (`storage/database.py`, `storage/migrations/`). MAX(version) is read once,
then each later script runs statement by statement and its version is recorded; every
statement commits by itself. A statement is `CREATE ... IF NOT EXISTS` of a name, the
only kind the seven scripts have: it leaves a name that is taken as it is, and fails if
the table of its index or trigger is missing. `0005_review_variants.sql` creates again
what `0004_review.sql` has, hence scripts may share names. `OrderAssumption`, that a table
is made before what is on it, holds of the seven scripts. `beside` is history: the
openers beside which another one recorded a version. That two statements
of one name mean the same thing is as in the scripts, where the only repeated ones
are identical.

The `MC` modules give the instances, and as assumptions that TLC evaluates the
bounded checks of pure operators: `MCPlacementGeneration` checks the detectors over
all transcripts of up to four of eight events, the confidence, and the ranking over
a grid of features; `MCEvaluationPairs` checks `compare_runs` against its reference
for every result of three checks.

Definitions named after a bug (`edit_keeps_status`, `RecheckNothing`, ...) are
alternatives no specification uses; each shows that a property tells it from
the code (`mutants` in `PROJECT.json`).

### Simplifications

* Extract and generate run one after the other, one import beside them, and a
  person triages at any time. Generate's reads are one step.
* An experience is its group. In the database its id is MAX + 1, so an id can be
  used again after a rebuild; nothing in Stages 5 and 6 looks at an old id.
* Transcripts are only appended to. Recency is that of recent sessions. The order
  of generate's work is arbitrary. Integer scores are exact for groups of sizes that
  divide twelve.
* A filtered extraction finds contradictions only in the trajectories it looked at
  (a hazard in `PROJECT.json`), so `IncrementalIsExact` is about unfiltered ones.
* `OnlyOwnBlockChanges` leaves open what becomes of edits inside the policy's own block
  (see the observations in section 4), and is about texts whose line breaks are Unix ones: `policy_file_breaks`
  has what happens to Windows ones. `TwiceIsOnce` wants Unix ones before and after the
  rendering: the line ending is counted anew each time, blocks included, so a block that
  goes or comes can tip the count of a mixed text. (The proof of `TwiceIsOnce` with only
  the first condition failed there; the initial texts of `policy_file` have the cases.)
* In `PolicyLifecycle` the statements of one repository function are one step;
  reasons and other text of the audit rows are left out.
* Dry runs and the `--agent` filters change no state and are left out.

## 4. Runs

| Run | Instance | Shows |
|---|---|---|
| `review_operator` | 1 handler, 2 placements, 2 fingerprints, 1 edit text, 5 requests, 1 regeneration or deletion, 1 human edit, 1 fault | Alone, an operator can rely on: no text on disk that was not accepted, an operable review shows accepted text, a pending intent stops writes, the audit ends in the status, Edit stays possible |
| `review_concurrent` | 2 handlers, 1 placement, 5 requests, 1 human edit, 1 fault | Whoever else runs: applied is on record, human text survives, the ledger is implemented |
| `review_unapproved` | 2 handlers, no fault | violated: a preview's commit revives an acceptance that an edit took away |
| `review_stale` | 1 handler, 1 regeneration | violated: the stale review is never renewed |
| `lifecycle` | 2 handlers, 4 requests, 1 overlap, 1 review, 1 child, 4 states of the evidence, 1 event outside, 1 fault | The history is respected whatever happens; the pointer has its lineage, `applied` is true of the disk, no rollback is recommended; undisturbed, one version is active and pruned is final |
| `lifecycle_orphan` | 1 handler, 6 requests | violated: a promoted policy leaves its old block in the file |
| `evaluation` | 2 processes, 1 evaluation, 2 commits (one refuses the policy), 2 requests, 2 repetitions, 1 event outside, 1 fault | No comparison mixes two processes, inputs stay frozen, conditions stay apart, regressions are reported, no way out forgets the workspaces, every run ends |
| `pipeline` | 3 sessions, 2 repositories, 2 imports, 1 init, 3 extract or generate commands, 2 of growth, triage, init and fault | Imported, extracted and proposed agree with the transcripts; being incremental changes nothing; triage stays |
| `pipeline_triage` | 2 repositories, no import | violated: a rebuild of one project drops the triage of another |
| `policy_file` | 2 keys (symmetric), 7 initial texts, 9 pieces to insert, 2 edits of texts of at most 17 tokens, 2 applies, 2 policies | An accepted text reads in one way; Apply leaves one block of its own, with the approved text unless that block was edited inside, changes nothing else, and nothing at all the second time |
| `policy_file_breaks` | the same | violated: Apply's own block in a Windows file is refused |
| `migrations` | 3 processes, one of an older program, 3 versions of 1, 4 and 3 statements, the third repeating two of the second, 4 openings, 2 kills, any version found | What is recorded is there, whoever is open has it, an opening fails only beside another that records a version |

**Bounds.** Five requests are what accept, preview, apply takes with an edit or a
second apply before, between or after; four lifecycle operations are adopt, two
changes that meet and one after them. One regeneration, edit or fault suffices for
each of them to fall at every step; a second would only repeat the effect of the
first on another handler. Two evaluation processes with two repetitions between them
collide on the first, and leave one another's rows behind on the second; the two checks
trade places under the policy, so improvements with regressions occur. Three sessions
of two repositories are enough for support, contradiction, growth and a project that
is opted in late; the transcripts are made so that the same group is found, is
contradicted and becomes supported. `policy_file` builds every text from the pieces,
so that broken, nested, repeated and foreign markers occur in all positions; four of its
initial texts have a block whose line breaks outweigh the others, and the longest of them
has 24 tokens and is changed only by Apply at first (`MaxLength`). All runs
stop when their bounds are spent, hence `CHECK_DEADLOCK FALSE`.

**Fairness.** Only `EvaluationPairs` assumes some: weak fairness of each process's
next step, the time limit included. A started process goes on unless it is killed,
which the code's straight-line handlers justify, and `subprocess.run(timeout=...)` is
what makes `TimesOut` fair; no command has to end by itself and nobody has to start
one. `Answered` follows: every `eval run` ends. Nothing is claimed of other stages:
their handlers have no loops that wait, and an intent left pending by a crash stays
so, since no code reconciles it.

**Findings.** The five violations are findings in `PROJECT.json`, each with the
statement of the repository it is about. `OnlyApprovedOnDisk` and `PendingBlocksWrites` hold
for one handler and fail for two; the tests of the repository, all
sequential, cannot tell. Five more observations have no run:

* `docs/stages/STAGE_7_REPORT.md:125` says "A human edit inside an existing managed block is
  not overwritten". The hash comparison of apply refuses an edit made since the preview;
  one made before it is replaced with the rest of the block (`review/targets.py:326`)
  and shows only in the preview's diff. `HumanEdit` of `PolicyFile` types inside blocks
  too, so a property that said what the report says would fail there; `OnlyOwnBlockChanges`
  asks for the new content only where the block was as TrajWeave writes it (`AsWritten`).
* `evaluation/workspace.py:109` says that both directories are removed on exit, even if the
  body raises. `_remove_workspace` swallows the `OSError` of a removal that
  fails, so they can stay with nobody told; `WorkspacesRemoved` says that the removal
  is tried.
* An apply goes by the newest preview, also one made before the last edit
  (`review/service.py:274`).
* In a file with both kinds of line breaks the block just applied may have to be rendered
  with the other kind, so that it is not `already_applied` (`review/targets.py:305`).
* A `demote` recommendation can be accepted neither from the command line nor in the
  viewer, which pass `confirm_global` to an operation that does not take it
  (`cli/main.py:1496`); `MayAccept` of `PolicyLifecycle` has that refusal.

**Properties that name an exception.** `OneCurrent` and `PruneIsFinal` are about
operations that neither overlap nor are cut short, and fail otherwise: the code
reads a status, then writes it in another statement. `SkippedIsDetected` leaves
out sessions whose row an extraction saw in the middle of an import (`tainted`): their
occurrences may be those of the old events, and stay so until the transcript grows and
is imported again, or until an extraction with `--rebuild`. `ProposalsAreEligible` leaves
out experiences triaged while generate had them in its work (`late`): these are windows
the code has. `WorkspacesRemoved` leaves out processes that could not remove their
workspaces (`refused`). `TriageKept` leaves out groups an
extraction dropped (`vanished`), and `pipeline_triage` shows that this happens.

## 5. Theorems

All are proved for any values of the constants that satisfy the named assumptions
of the modules (on the constants of `PolicyTarget`, `ReviewApply`,
`PolicyFile`, `PolicyLifecycle`, `EvaluationPairs`, `SessionImport`, `PatternDetection`,
`ExperienceGrouping` and `Migrations`, which TLC evaluates for the runs' instances), so for any
number of handlers, any texts, transcripts and scripts and any bounds.
`TokensAssumption` of the file says that keys, words, line breaks and the other markers
are different tokens; `InputAssumption`, that what people write and policies are texts of tokens.
`InputAssumption` of the lifecycle says that placements are those the schema's CHECK
admits and evidence consists of counts; `InstanceAssumption` of the evaluation, that
the numbers of repetitions are numbers; `SessionsAssumption`, that an import discovers
each session as one of a nonempty list and that the database starts with distinct
stored sessions of known repositories. `OrderAssumption` of the migrations
says that the table of every index and trigger is made before it.

**`ReviewApplyProofs`**, whoever runs:

* `TypeCorrect`: `Spec => []TypeOK`. `TypeOK` is inductive by itself, because
  `LocalsOK` says what the locals of a handler hold at each step. A step that
  keeps the tables, never deletes a row and leaves its own handler's locals as
  the next step wants them keeps it (`HandlerTyped`), which leaves one lemma
  per group of actions.
* `AppliedIsRecorded`: `Spec => []AppliedOnRecord`. Needs that a status `applied`
  in a handler's locals came from the table (`KnowsFromTable`) and that a settled
  outcome is never overwritten (`RecordedKept`), which follows from the intents.
* `HumanTextIsKept`: `Spec => HumanTextSurvives`. Needs `RendersPreviewed`: from
  `begin` on, what a handler is about to write is the rendering of the file its
  preview was made for, so that `Recheck`'s comparison transfers to the file.
* `LedgerImplemented`: `Spec => LedgerRespected`, the refinement. Needs
  `OwnsIntent` and `OneOwner`: between begin and finalize a handler's intent is
  pending, its own, names what it will write, and is in `written` exactly when
  it has been.

**`ReviewApplyProofs`**, with the hypothesis `Procs = {p}`: one request at a time, any
number of them, any of which may crash, while people edit files and proposals are
regenerated. The hypothesis is what the code needs: `review_unapproved` shows two
handlers reviving an acceptance. The invariant `SInv` adds to `Inv` what the one
handler knows (`Knows`): the row it read is the table's, as nobody else writes it;
the preview it goes by shows accepted text, and so does what it will write
(`WritesConsented`); no intent but its own is pending once it is past `CheckPending`
(`OnlyIntent`); and the revisions stored are not above the review's, but for an edit
under way (`RevisionsBelow`).

* `OperableWasAccepted`, `OnDiskWasAccepted`, `AuditEndsInStatus`, `RevisionIsFree`,
  `PendingIntentBlocks`: `OperableIsApproved`, `OnlyApprovedOnDisk`, `AuditTellsStatus`,
  `NextEditHasRevision` always hold, and `PendingBlocksWrites` of every step.

**`PolicyFileProofs`**, about texts of any length. The inductive invariant, `Typed`, says
only that the file is a text of tokens: what people write in it is arbitrary, so every
property is one of `_validate_markers` and `render_target` as operators. The provers have no
induction over data; where it is needed (`PartialTyped`, `FlattenTyped`), the set of
places where the claim fails has a least element (`Least`), which is contradicted.
Three steps lead to the theorems:

* `Readable`: what an accepted text is. Equal numbers of starts and ends, and a first end
  after each start with no start before it, make a bijection of starts and ends in
  which blocks follow one another, whatever lies around them (`AcceptedIsReadable`,
  and back in `ReadableIsAccepted`).
* `IsSplice`: a rendering puts the new block for the old one, or for nothing at the end
  (`UpdateIsSplice`, `AppendIsSplice`), and around the gap is no part of another block.
* The `Splice` lemmas: where the starts and ends of a splice are, that it is
  accepted if the text was (`SpliceIsAccepted`), that human text and other blocks stay
  (`SpliceHuman`, `SpliceOthers`), and what its own block is (`SplicePolicy`).

* `FilesAreTexts`: `Spec => []Typed`.
* `AcceptedTextsAreUnambiguous`: `AcceptedIsUnambiguous`.
* `ApplyChangesOnlyItsBlock`: `OnlyOwnBlockChanges`.
* `ApplyingTwiceIsApplyingOnce`: `TwiceIsOnce`.

**`PolicyLifecycleProofs`**, from `HInv`: the rows have the columns of the schema
(`Rows`), the versions of a policy are numbered 1..n (`Numbered`), and every handler is in
order (`InOrder`: the number it holds has its predecessor in the table, and the version
it has made is there). A handler takes its number in one step and inserts in another;
rows never vanish and the unique key stops the slower one, which is all it needs.

* `VersionsNumbered`: `Spec => []HInv`.
* `HistoryHolds`: `Spec => HistoryRespected`, the refinement of `VersionHistory`,
  in any interleaving and with any operation cut short.

The rest is from `LInv`, whose core is what every to-do list looks like (`Lists`). Each
call writes what its table takes (`Item`), and each call that makes a version current
comes after the call it depends on (`Fits`): an insertion after its number, a retirement
after the edge, the pointer after the retirement or, for a first version, after the
insertion. `Fits` speaks of places in the list, so that it holds of every rest of a list
and survives what other handlers write.

* `TypesOfLifecycle`, `CurrentIsTraced`: `TypeOK` and `CurrentHasOrigin`.
* `AppliedIsWritten`: `AppliedWasWritten`; the list has the row after the write.
* `RollbackIsNeverAdvised`: `RollbackNotRecommended`. A version that names a review is of
  the policy adopted from it (`Reviewed`), so its predecessor's evidence is its own,
  and no counts are both mostly improved and mostly regressed.

The last part is about one operator who is never interrupted, and from `UInv`: `LInv`,
the counts (`Counting`) and `InHand`. Between operations every policy is `Settled`: it has one active version, the
current one, unless a split named it twice, and if it was merged or split off, the same
request would find it (`Known`). During an operation only the policy in hand is not, and the
list of calls is in a phase that says what the table still lacks (`Work`): `Succeeding`, from
the next number over the insertion (`Beside`: two active versions) and the retirement
(`Only`: the new one) to the pointer, and `Founding`, from the row of the policy (`Bare`:
no version) to the edges that make it known. Why two of them cannot meet is the
hard part: a split looks for its children once, before it makes the first, so a child
still to be made must be absent, or named twice and not pruned (`Splits`, `Begun`). `OneCurrent` by
itself says nothing of a policy while it is changed, and without `Known` a merge that is
asked for again would give its policy a second active version.

* `OneCurrentHolds`: `OneCurrent`, for any requests in any order.
* `PruneHolds`: `PruneIsFinal`. The only calls that set a status are those of `toggle`, which
  has looked at it, and of a split, whose child is new or begun by the same split.

**`EvaluationPairsProofs`**, from `IInv`: rows and specifications are never
overwritten; the rows behind a handler are its own (`Paired`); the workspaces of a
handler were cloned from its frozen commit and hold the frozen policy or none
(`Provided`); an id being frozen is not in use yet (`Frozenly`).

* `ComparedAreOneHandlers`, `InputsStayFrozen`, `ConditionsStayApart`:
  `OnePairOneHandler`, `FrozenInputs` and `ConditionsApart` always hold.
* `TypesOfEvaluation`: `TypeOK`, with the positions of every handler bounded (`Bounded`).
* `SpecsAreOneRevision`: `SpecIsOneRevision`, from `RInv`: the review, and what a
  handler has read to freeze, are a revision of the history.
* `RegressionsAreReported`: `NoHiddenRegression`, from `JInv`: a comparison is
  `compare_runs` of its two rows, which never change once it is there.
* `WorkspacesAreRemoved`: `WorkspacesRemoved`, inductive with the types: every step that
  leaves `Within` tries the removal, is a kill, or has nothing to remove, and one that is
  outside makes no workspace. It does not say that a removal succeeds.

**`ImportProofs`** (about the composed specification), from `IInv`: the hash taken is at most
the version parsed, which is at most the file's, and the row does not say imported
between `Parse` and `Finish`; a trajectory's project has its row.

* `ImportedStaysCurrent`, `OnlyOptedInAreStored`, `TrajectoriesKeepTheirNumber`.

**`EvidenceProofs`**, about Stage 5 beside imports.

* `EvidenceAlwaysStands`, from `EInv`: occurrences are those of a version of the
  transcript, and links go with the occurrences they name; a rebuild links only
  what is still as loaded.
* `SkippedAreDetected`: `SkippedIsDetected`, from `RInv` and `KInv`. `RInv` follows the row
  of a session through an import; `KInv` follows each item an extraction has listed: its
  hash is no newer than the row's, and as long as nothing was written to the row, its
  occurrences are those of the trajectory. Hence the state, written last, cannot
  claim a version whose occurrences are missing.
* `IncrementalStaysExact`: `IncrementalIsExact`, from `CInv`: an unfiltered extraction that
  nothing came in between has seen, detected and loaded each trajectory as stored, whether
  it was listed as changed or skipped. It remains that the grouping of the occurrences is the
  reference's of the trajectories (`GroupedIsReference`): the occurrences of a group and its
  links are in a bijection (`OneLinkEach`), as a trajectory has one occurrence of a group
  and class, so counting either is the same.

**`TriageProofs`**, which puts the invariants of Stages 1-6 together.

* `TriageIsKept`, `ProposalsStayEligible`: rows follow the last triage (`Followed`), and sets
  and generate's work are eligible or late (`Proposed`).
* `GenerationStaysExact`: `GenerationIsExact`, from `GInv`: every set, stored or pending, has
  the ranking of its fingerprinted inputs (`Reproducible`), so that keeping a set whose
  fingerprint is unchanged keeps the right ranking; and what an undisturbed generate
  has not yet written is in its work as it is now (`Undone`).
* `TypesOfPipeline`: `TypeOK` of the composed specification, from `PInv`. Its hard part is
  `ConfidenceIsAShare`: whatever is counted, a confidence is in 0..100.
* `LocalIsNeverGlobal`, about the scores alone. Without balanced support the
  global score is capped at 28800 of the common denominator, while `ignore` and
  `skill` together never have less than 59600, so one of them is above it.

**`MigrationsProofs`**, from `IInv`: whoever is at a position of a script has all
earlier versions recorded and all earlier statements run, and if no version was recorded
beside it, its own is not recorded either (`Behind`).

* `SchemaIsWhole`, `OpenedIsCurrent`: `RecordedIsWhole` and `OpenIsCurrent`, for any
  scripts, program versions and kills.
* `TypesOfMigrations`: `TypeOK`.
* `FailsOnlyBesideAnother`: `AloneNeverFails`. There are two ways to fail. A statement whose
  table is missing is never reached, by any opener (`NothingIsMissing`): earlier
  statements were run, and names never vanish. A version that is already recorded at the
  insertion was recorded since MAX(version) was read, by another.

Only model-checked:

* `Answered` of the evaluation: liveness under fairness is out of the prover's reach.
* The assumptions of the `MC` modules, which compare operators with references over
  all small inputs.


## 6. Not modelled

* The adapters and normalisation: JSON lines and regular expressions, without state.
  What they derive (event types, path contexts, command families, signatures) is
  the input of `PatternDetection`, and a parse that fails is `SessionImport`'s.
* The registry's missing, disabled and archived projects, unsafe roots, `.gitignore`.
* Of the writer: symbolic links, the slug of a skill, the Windows fallback.
* Duplicate and staleness scans of the lifecycle, which only read.
* HTTP routing, the browser, parsing of arguments, printing, wording, diffs; the
  read side of repository and viewer; bookkeeping of runs (`import_runs`,
  `experience_runs`, `placement_runs`).
* Two imports or two extractions at once: the loser of a trajectory number gets
  the database's unique constraint as an error.
