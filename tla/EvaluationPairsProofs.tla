------------------------- MODULE EvaluationPairsProofs -------------------------
(***************************************************************************)
(* What an evaluation compares, for any number of processes, repetitions    *)
(* and checks: pairs of one process, from the frozen commit and policy, in  *)
(* workspaces of their own.                                                *)
(*                                                                         *)
(* Rows are never overwritten and a specification is written once.  So a    *)
(* handler that has recorded a row finds it later as it left it, and what   *)
(* its clones were made from is still what the specification says.          *)
(*                                                                         *)
(* The later parts add to this invariant (IInv): the types, with the        *)
(* position of every handler bounded (TInv); that what is being frozen is   *)
(* one revision of the review (RInv); that a comparison is compare_runs of  *)
(* its two rows (JInv).                                                     *)
(***************************************************************************)
EXTENDS EvaluationPairs, WellFoundedInduction, TLAPS

Running == {"condition", "waiting", "record_completed", "record_failed"}
Cloning == {"clone_baseline", "clone_candidate"}
Started == Running \cup Cloning \cup {"next", "error_baseline", "error_candidate", "leave", "compare"}

\* The locals are a record and the workspaces a pair.
Shaped(p) ==
    /\ loc[p] = [pc |-> loc[p].pc, spec |-> loc[p].spec, mode |-> loc[p].mode, frozen |-> loc[p].frozen,
                 left |-> loc[p].left, index |-> loc[p].index, position |-> loc[p].position,
                 done |-> loc[p].done, passed |-> loc[p].passed]
    /\ spaces[p] = [c \in Conditions |-> spaces[p][c]]
    /\ loc[p].pc \in Started \cup {"idle", "killed", "freeze"}
    /\ loc[p].position \in {1, 2}
    /\ loc[p].pc \in Cloning => loc[p].position = 1
    /\ loc[p].pc \in {"idle", "killed"} => loc[p].spec = None
    /\ loc[p].pc \in Started => loc[p].spec \in DOMAIN specs

Ours(p, condition) == Key(p, condition) \in DOMAIN runs /\ runs[Key(p, condition)].by = p

\* The rows a handler has behind it are its own.
Paired(p) ==
    /\ loc[p].pc \in Running /\ loc[p].position = 2 => Ours(p, Order(p)[1])
    /\ loc[p].pc = "error_candidate" => Ours(p, "baseline")
    /\ loc[p].pc \in {"leave", "compare"} => \A c \in Conditions : Ours(p, c)

\* A workspace of a condition is a clone at the frozen commit, and only this
\* condition has touched it.
Fit(p, c) ==
    /\ spaces[p][c] = [commit |-> spaces[p][c].commit, policy |-> spaces[p][c].policy,
                       touched |-> spaces[p][c].touched]
    /\ spaces[p][c].commit = specs[loc[p].spec].commit
    /\ spaces[p][c].policy \in {None, specs[loc[p].spec].content}
    /\ c = "baseline" => spaces[p][c].policy = None
    /\ spaces[p][c].touched \subseteq {<<loc[p].index, c>>}

Provided(p) ==
    /\ loc[p].pc = "clone_candidate" => Fit(p, "baseline")
    /\ loc[p].pc \in Running \cup {"leave"} => \A c \in Conditions : Fit(p, c)
    /\ loc[p].pc \in {"waiting", "record_completed"} /\ Condition(p) = "candidate" =>
            spaces[p]["candidate"].policy = specs[loc[p].spec].content

Handled(p) == Shaped(p) /\ Paired(p) /\ Provided(p)

\* An identifier being frozen is nobody else's.
Frozenly ==
    \A p \in Procs : loc[p].pc = "freeze" =>
        /\ loc[p].spec # None /\ loc[p].spec \notin DOMAIN specs
        /\ \A q \in Procs \ {p} : loc[q].spec # loc[p].spec

Recorded == \A k \in DOMAIN runs : k[1] \in DOMAIN specs

IInv ==
    /\ loc = [p \in Procs |-> loc[p]] /\ spaces = [p \in Procs |-> spaces[p]]
    /\ \A p \in Procs : Handled(p)
    /\ Frozenly /\ Recorded
    /\ OnePairOneHandler /\ FrozenInputs /\ ConditionsApart

-----------------------------------------------------------------------------
LEMMA IInvHoldsInitially == ASSUME Init PROVE IInv
<1>1. \A p \in Procs : loc[p] = Idle /\ spaces[p] = NoSpaces
  BY DEF Init
<1>2. \A p \in Procs : Handled(p)
  BY <1>1 DEF Handled, Shaped, Paired, Provided, Idle, NoSpaces, Running, Cloning, Started
<1>3. Frozenly
  BY <1>1 DEF Frozenly, Idle
<1>4. DOMAIN runs = {} /\ DOMAIN comparisons = {}
  BY DEF Init
<1> QED BY <1>2, <1>3, <1>4 DEF Init, IInv, Recorded, OnePairOneHandler, FrozenInputs, ConditionsApart

\* Tables only grow.
Grown ==
    /\ \A id \in DOMAIN specs : id \in DOMAIN specs' /\ specs'[id] = specs[id]
    /\ \A k \in DOMAIN runs : k \in DOMAIN runs' /\ runs'[k] = runs[k]

LEMMA OthersKeep ==
    ASSUME NEW p \in Procs, Handled(p), Grown, loc'[p] = loc[p], spaces'[p] = spaces[p]
    PROVE  Handled(p)'
<1>1. Shaped(p)'
  BY DEF Handled, Shaped, Grown
<1>2. loc[p].pc \in Started => Order(p)' = Order(p)
  BY DEF Handled, Shaped, Grown, Order, _order_for
<1>3. \A c : Ours(p, c) => Ours(p, c)'
  BY DEF Ours, Key, Grown
<1>4. Paired(p)'
  BY <1>2, <1>3 DEF Handled, Paired, Running, Started
<1>5. loc[p].pc \in Started => specs'[loc[p].spec] = specs[loc[p].spec] /\ Condition(p)' = Condition(p)
  BY <1>2 DEF Handled, Shaped, Grown, Condition
<1>6. Provided(p)'
  BY <1>5 DEF Handled, Provided, Fit, Running, Cloning, Started
<1> QED BY <1>1, <1>4, <1>6 DEF Handled

\* A step of one handler that adds no row.
LEMMA OneHandler ==
    ASSUME IInv, NEW p \in Procs, UNCHANGED tables, Handled(p)',
           loc' = [loc EXCEPT ![p] = loc'[p]], spaces' = [spaces EXCEPT ![p] = spaces'[p]],
           loc'[p].pc # "freeze", loc'[p].spec \in {None, loc[p].spec}
    PROVE  IInv'
<1>1. Grown
  BY DEF Grown, tables
<1>2. \A q \in Procs \ {p} : loc'[q] = loc[q] /\ spaces'[q] = spaces[q]
  BY DEF IInv
<1>3. \A q \in Procs : Handled(q)'
  BY <1>1, <1>2, OthersKeep DEF IInv
<1>4. Frozenly'
  BY <1>2 DEF IInv, Frozenly, tables
<1>5. Recorded' /\ OnePairOneHandler' /\ FrozenInputs' /\ ConditionsApart'
  BY DEF IInv, Recorded, OnePairOneHandler, FrozenInputs, ConditionsApart, RunOf, tables
<1>6. loc' = [q \in Procs |-> loc'[q]] /\ spaces' = [q \in Procs |-> spaces'[q]]
  BY DEF IInv
<1> QED BY <1>3, <1>4, <1>5, <1>6 DEF IInv

-----------------------------------------------------------------------------
\* The steps that leave the tables alone.

\* Whatever becomes of the directories, they are those of one process.
LEMMA OwnWorkspaces ==
    ASSUME NEW p \in Procs, spaces = [q \in Procs |-> spaces[q]],
           mkdtemp(p) \/ _remove_workspace(p) \/ Die(p) \/ UNCHANGED <<spaces, refused>>
    PROVE  /\ spaces' = [spaces EXCEPT ![p] = spaces'[p]]
           /\ spaces'[p] \in {NoSpaces, spaces[p]}
           /\ refused' \subseteq refused \cup {p}
<1>1. CASE mkdtemp(p)
  BY <1>1 DEF mkdtemp
<1>2. CASE _remove_workspace(p)
  BY <1>2 DEF _remove_workspace
<1>3. CASE UNCHANGED <<spaces, refused>>
  BY <1>3
<1> QED BY <1>1, <1>2, <1>3 DEF Die

LEMMA Ends ==
    ASSUME IInv, NEW p \in Procs, Die(p) \/ (loc' = [loc EXCEPT ![p] = Idle] /\ UNCHANGED <<spaces, refused>>),
           UNCHANGED tables
    PROVE  IInv'
<1>1. loc' = [loc EXCEPT ![p] = Idle] /\ loc'[p] = Idle
  BY DEF Die, IInv
<1>2. spaces' = [spaces EXCEPT ![p] = spaces'[p]] /\ spaces'[p] \in {NoSpaces, spaces[p]}
  BY OwnWorkspaces DEF IInv
<1>3. Handled(p)'
  BY <1>1, <1>2 DEF IInv, Handled, Shaped, Paired, Provided, Idle, NoSpaces, Running, Cloning, Started
<1>4. loc'[p].pc # "freeze" /\ loc'[p].spec = None
  BY <1>1 DEF Idle
<1> QED BY <1>1, <1>2, <1>3, <1>4, OneHandler

LEMMA Requested == ASSUME IInv, NEW p \in Procs, cmd_eval_run(p) PROVE IInv'
<1>1. UNCHANGED tables /\ spaces' = [spaces EXCEPT ![p] = NoSpaces] /\ loc[p].pc \in {"idle", "killed"}
  BY DEF cmd_eval_run, mkdtemp
<1>2. Grown
  BY <1>1 DEF Grown, tables
<1>3. PICK id, mode, n : read_review(p, id, mode, n) \/ rerun(p, id, n)
  BY DEF cmd_eval_run
<1>4. loc' = [loc EXCEPT ![p] = loc'[p]]
  BY <1>3 DEF read_review, rerun, IInv
<1>5. \A q \in Procs \ {p} : loc'[q] = loc[q] /\ spaces'[q] = spaces[q]
  BY <1>1, <1>4 DEF IInv
<1>6. Handled(p)'
  <2>1. loc'[p].pc \in {"freeze", "next"} /\ loc'[p].position = 1 /\ loc'[p].spec = id /\ spaces'[p] = NoSpaces
    BY <1>1, <1>3, ZenonT(40) DEF read_review, rerun, IInv, Idle
  <2>2. loc'[p].pc = "next" => id \in DOMAIN specs
    BY <1>3 DEF read_review, rerun, IInv, Idle
  <2>3. loc'[p] = [pc |-> loc'[p].pc, spec |-> loc'[p].spec, mode |-> loc'[p].mode, frozen |-> loc'[p].frozen,
                   left |-> loc'[p].left, index |-> loc'[p].index, position |-> loc'[p].position,
                   done |-> loc'[p].done, passed |-> loc'[p].passed]
    BY <1>3 DEF read_review, rerun, IInv, Idle
  <2> QED BY <1>1, <2>1, <2>2, <2>3 DEF Handled, Shaped, Paired, Provided, NoSpaces, Running, Cloning, Started, tables
<1>7. \A q \in Procs : Handled(q)'
  BY <1>2, <1>5, <1>6, OthersKeep DEF IInv
<1>8. Frozenly'
  <2>1. loc'[p].spec = id
    BY <1>3 DEF read_review, rerun, IInv, Idle
  <2>2. specs' = specs
    BY <1>1 DEF tables
  <2>3. \A q \in Procs : loc[q].pc = "freeze" =>
           /\ loc[q].spec # None /\ loc[q].spec \notin DOMAIN specs
           /\ \A r \in Procs \ {q} : loc[r].spec # loc[q].spec
    BY DEF IInv, Frozenly
  <2>4. CASE read_review(p, id, mode, n)
    <3>1. id # None /\ id \notin DOMAIN specs /\ \A q \in Procs : loc[q].spec # id
      BY <1>1, <2>4 DEF read_review, IInv, Handled, Shaped
    <3>2. \A q \in Procs : loc'[q].pc = "freeze" =>
             /\ loc'[q].spec # None /\ loc'[q].spec \notin DOMAIN specs
             /\ \A r \in Procs \ {q} : loc'[r].spec # loc'[q].spec
      BY <1>5, <2>1, <2>3, <3>1
    <3> QED BY <2>2, <3>2 DEF Frozenly
  <2>5. CASE rerun(p, id, n)
    <3>1. loc'[p].pc = "next" /\ id \in DOMAIN specs
      BY <2>5 DEF rerun, IInv, Idle
    <3>2. \A q \in Procs : loc'[q].pc = "freeze" =>
             /\ loc'[q].spec # None /\ loc'[q].spec \notin DOMAIN specs
             /\ \A r \in Procs \ {q} : loc'[r].spec # loc'[q].spec
      BY <1>5, <2>1, <2>3, <3>1
    <3> QED BY <2>2, <3>2 DEF Frozenly
  <2> QED BY <1>3, <2>4, <2>5
<1>9. Recorded' /\ OnePairOneHandler' /\ FrozenInputs' /\ ConditionsApart'
  BY <1>1 DEF IInv, Recorded, OnePairOneHandler, FrozenInputs, ConditionsApart, RunOf, tables
<1>10. loc' = [q \in Procs |-> loc'[q]] /\ spaces' = [q \in Procs |-> spaces'[q]]
  BY <1>1, <1>4 DEF IInv
<1> QED BY <1>7, <1>8, <1>9, <1>10 DEF IInv

LEMMA Repeats == ASSUME IInv, NEW p \in Procs, next_evaluation_repetition(p) PROVE IInv'
<1> DEFINE i == Max(Indexes(loc[p].spec) \cup {0}) + 1
<1> DEFINE l == loc[p].left - 1
<1>1. loc' = [loc EXCEPT ![p] = [loc[p] EXCEPT
             !.pc = "clone_baseline", !.index = i, !.left = l, !.position = 1]]
  BY DEF next_evaluation_repetition
<1> HIDE DEF i, l
<1>2. /\ UNCHANGED tables /\ loc[p].pc = "next" /\ Handled(p)
      /\ spaces' = [spaces EXCEPT ![p] = spaces'[p]] /\ spaces'[p] \in {NoSpaces, spaces[p]}
  BY OwnWorkspaces DEF next_evaluation_repetition, At, IInv
<1>3. /\ loc' = [loc EXCEPT ![p] = loc'[p]]
      /\ loc'[p] = [loc[p] EXCEPT !.pc = "clone_baseline", !.index = i, !.left = l, !.position = 1]
  BY <1>1 DEF IInv
<1>4. /\ loc'[p].pc = "clone_baseline" /\ loc'[p].position = 1 /\ loc'[p].spec = loc[p].spec
      /\ loc'[p] = [pc |-> loc'[p].pc, spec |-> loc'[p].spec, mode |-> loc'[p].mode, frozen |-> loc'[p].frozen,
                    left |-> loc'[p].left, index |-> loc'[p].index, position |-> loc'[p].position,
                    done |-> loc'[p].done, passed |-> loc'[p].passed]
  BY <1>2, <1>3 DEF Handled, Shaped
<1>5. Shaped(p)'
  BY <1>2, <1>4 DEF Handled, Shaped, NoSpaces, Cloning, Started, tables
<1>6. Paired(p)' /\ Provided(p)'
  BY <1>4 DEF Paired, Provided, Running
<1> QED BY <1>2, <1>3, <1>4, <1>5, <1>6, OneHandler DEF Handled

\* What Go leaves.
LEMMA Gone ==
    ASSUME IInv, NEW p \in Procs, NEW to, Go(p, to)
    PROVE  /\ loc' = [loc EXCEPT ![p] = loc'[p]]
           /\ loc'[p] = [loc[p] EXCEPT !.pc = to]
           /\ loc'[p].pc = to /\ loc'[p].spec = loc[p].spec /\ loc'[p].index = loc[p].index
           /\ loc'[p].position = loc[p].position
<1>1. loc' = [loc EXCEPT ![p] = loc'[p]] /\ loc'[p] = [loc[p] EXCEPT !.pc = to]
  BY DEF IInv, Go
<1> QED BY <1>1 DEF IInv, Handled, Shaped

LEMMA Cloned ==
    ASSUME IInv, NEW p \in Procs,
           \/ _clone_at_commit(p, "baseline", "clone_baseline", "clone_candidate")
           \/ _clone_at_commit(p, "candidate", "clone_candidate", "condition")
    PROVE  IInv'
<1>0. Handled(p) /\ UNCHANGED tables
  BY DEF IInv, _clone_at_commit
<1>1. CASE _clone_at_commit(p, "baseline", "clone_baseline", "clone_candidate")
  <2>1. loc[p].pc = "clone_baseline" /\ Go(p, "clone_candidate")
    BY <1>1 DEF _clone_at_commit, At
  <2>2. spaces' = [spaces EXCEPT ![p] = [spaces[p] EXCEPT !["baseline"] = Clone(p)]]
    BY <1>1 DEF _clone_at_commit
  <2>3. /\ loc' = [loc EXCEPT ![p] = loc'[p]] /\ loc'[p] = [loc[p] EXCEPT !.pc = "clone_candidate"]
        /\ loc'[p].pc = "clone_candidate" /\ loc'[p].spec = loc[p].spec
        /\ loc'[p].index = loc[p].index /\ loc'[p].position = loc[p].position
    BY <2>1, Gone
  <2>4. /\ spaces' = [spaces EXCEPT ![p] = spaces'[p]]
        /\ spaces'[p] = [spaces[p] EXCEPT !["baseline"] = Clone(p)]
    BY <2>2 DEF IInv
  <2>5. spaces'[p]["baseline"] = Clone(p) /\ spaces'[p] = [c \in Conditions |-> spaces'[p][c]]
    BY <1>0, <2>4 DEF Handled, Shaped, Conditions
  <2>6. Shaped(p)'
    BY <1>0, <2>1, <2>3, <2>5 DEF Handled, Shaped, Cloning, Started, Running, tables
  <2>7. Paired(p)' /\ Provided(p)'
    BY <1>0, <2>3, <2>5 DEF Paired, Provided, Fit, Clone, Running, tables
  <2> QED BY <1>0, <2>3, <2>4, <2>6, <2>7, OneHandler DEF Handled
<1>2. CASE _clone_at_commit(p, "candidate", "clone_candidate", "condition")
  <2>1. loc[p].pc = "clone_candidate" /\ Go(p, "condition")
    BY <1>2 DEF _clone_at_commit, At
  <2>2. spaces' = [spaces EXCEPT ![p] = [spaces[p] EXCEPT !["candidate"] = Clone(p)]]
    BY <1>2 DEF _clone_at_commit
  <2>3. /\ loc' = [loc EXCEPT ![p] = loc'[p]] /\ loc'[p] = [loc[p] EXCEPT !.pc = "condition"]
        /\ loc'[p].pc = "condition" /\ loc'[p].spec = loc[p].spec
        /\ loc'[p].index = loc[p].index /\ loc'[p].position = loc[p].position
    BY <2>1, Gone
  <2>4. /\ spaces' = [spaces EXCEPT ![p] = spaces'[p]]
        /\ spaces'[p] = [spaces[p] EXCEPT !["candidate"] = Clone(p)]
    BY <2>2 DEF IInv
  <2>5. /\ spaces'[p]["candidate"] = Clone(p) /\ spaces'[p]["baseline"] = spaces[p]["baseline"]
        /\ spaces'[p] = [c \in Conditions |-> spaces'[p][c]]
    BY <1>0, <2>4 DEF Handled, Shaped, Conditions
  <2>6. Shaped(p)'
    BY <1>0, <2>1, <2>3, <2>5 DEF Handled, Shaped, Cloning, Started, Running, tables
  <2>7. loc'[p].position = 1
    BY <1>0, <2>1, <2>3 DEF Handled, Shaped, Cloning
  <2>8. Paired(p)'
    BY <2>3, <2>7 DEF Paired, Running
  <2>9. Fit(p, "baseline")' /\ Fit(p, "candidate")'
    BY <1>0, <2>1, <2>3, <2>5 DEF Handled, Provided, Fit, Clone, tables
  <2>10. Provided(p)'
    BY <2>3, <2>9 DEF Provided, Conditions
  <2> QED BY <1>0, <2>3, <2>4, <2>6, <2>8, <2>10, OneHandler DEF Handled
<1> QED BY <1>1, <1>2

LEMMA NotIsolated == ASSUME IInv, NEW p \in Procs, Isolation(p) PROVE IInv'
<1>1. Handled(p) /\ UNCHANGED tables /\ loc[p].pc \in Cloning /\ Go(p, "error_baseline")
  BY DEF IInv, Isolation, Cloning
<1>2. spaces' = [spaces EXCEPT ![p] = spaces'[p]] /\ spaces'[p] \in {NoSpaces, spaces[p]}
  BY OwnWorkspaces DEF IInv, Isolation
<1>3. /\ loc' = [loc EXCEPT ![p] = loc'[p]] /\ loc'[p] = [loc[p] EXCEPT !.pc = "error_baseline"]
      /\ loc'[p].pc = "error_baseline" /\ loc'[p].spec = loc[p].spec
      /\ loc'[p].index = loc[p].index /\ loc'[p].position = loc[p].position
  BY <1>1, Gone
<1>4. Shaped(p)'
  BY <1>1, <1>2, <1>3 DEF Handled, Shaped, NoSpaces, Cloning, Started, Running, tables
<1>5. Paired(p)' /\ Provided(p)'
  BY <1>3 DEF Paired, Provided, Running
<1> QED BY <1>1, <1>2, <1>3, <1>4, <1>5, OneHandler DEF Handled

LEMMA Left == ASSUME IInv, NEW p \in Procs, Leave(p) PROVE IInv'
<1>1. Handled(p) /\ UNCHANGED tables /\ loc[p].pc = "leave" /\ Go(p, "compare")
  BY DEF IInv, Leave, At
<1>2. spaces' = [spaces EXCEPT ![p] = spaces'[p]] /\ spaces'[p] \in {NoSpaces, spaces[p]}
  BY OwnWorkspaces DEF IInv, Leave
<1>3. /\ loc' = [loc EXCEPT ![p] = loc'[p]] /\ loc'[p] = [loc[p] EXCEPT !.pc = "compare"]
      /\ loc'[p].pc = "compare" /\ loc'[p].spec = loc[p].spec
      /\ loc'[p].index = loc[p].index /\ loc'[p].position = loc[p].position
  BY <1>1, Gone
<1>4. Shaped(p)'
  BY <1>1, <1>2, <1>3 DEF Handled, Shaped, NoSpaces, Cloning, Started, Running, tables
<1>5. Paired(p)'
  BY <1>1, <1>3 DEF Handled, Paired, Ours, Key, Running, tables
<1>6. Provided(p)'
  BY <1>3 DEF Provided, Running
<1> QED BY <1>1, <1>2, <1>3, <1>4, <1>5, <1>6, OneHandler DEF Handled

LEMMA Refused == ASSUME IInv, NEW p \in Procs, Refuse(p) PROVE IInv'
<1>1. Handled(p) /\ UNCHANGED tables /\ loc[p].pc = "condition" /\ Go(p, "record_failed") /\ UNCHANGED spaces
  BY DEF IInv, Refuse, At
<1>3. /\ loc' = [loc EXCEPT ![p] = loc'[p]] /\ loc'[p] = [loc[p] EXCEPT !.pc = "record_failed"]
      /\ loc'[p].pc = "record_failed" /\ loc'[p].spec = loc[p].spec
      /\ loc'[p].index = loc[p].index /\ loc'[p].position = loc[p].position
  BY <1>1, Gone
<1>4. Shaped(p)'
  BY <1>1, <1>3 DEF Handled, Shaped, Cloning, Started, Running, tables
<1>5. Paired(p)'
  BY <1>1, <1>3 DEF Handled, Paired, Ours, Key, Order, _order_for, Running, tables
<1>6. Provided(p)'
  BY <1>1, <1>3 DEF Handled, Provided, Fit, Running, tables
<1>7. spaces' = [spaces EXCEPT ![p] = spaces'[p]]
  BY <1>1 DEF IInv
<1> QED BY <1>1, <1>3, <1>4, <1>5, <1>6, <1>7, OneHandler DEF Handled

\* The commands of a condition change its own workspace.
LEMMA Launched == ASSUME IInv, NEW p \in Procs, Launch(p) PROVE IInv'
<1> DEFINE c == Condition(p)
<1> DEFINE s == spaces[p][c]
<1> DEFINE mark == <<loc[p].index, c>>
<1>1. Handled(p) /\ UNCHANGED tables /\ loc[p].pc = "condition"
  BY DEF IInv, Launch, At
<1>2. PICK d : loc' = [loc EXCEPT ![p] = [@ EXCEPT !.pc = "waiting", !.passed = {}, !.done = d]]
  BY DEF Launch
<1>3. /\ loc' = [loc EXCEPT ![p] = loc'[p]]
      /\ loc'[p] = [loc[p] EXCEPT !.pc = "waiting", !.passed = {}, !.done = d]
  BY <1>2 DEF IInv
<1>4. /\ loc'[p].pc = "waiting" /\ loc'[p].position = loc[p].position
      /\ loc'[p].spec = loc[p].spec /\ loc'[p].index = loc[p].index
      /\ loc'[p] = [pc |-> loc'[p].pc, spec |-> loc'[p].spec, mode |-> loc'[p].mode, frozen |-> loc'[p].frozen,
                    left |-> loc'[p].left, index |-> loc'[p].index, position |-> loc'[p].position,
                    done |-> loc'[p].done, passed |-> loc'[p].passed]
  BY <1>1, <1>3 DEF Handled, Shaped
<1>5. c \in Conditions /\ c' = c
  BY <1>1, <1>4 DEF Handled, Shaped, Condition, Order, _order_for, Conditions, tables
<1>6. Fit(p, c) /\ Conditions = {"baseline", "candidate"}
  BY <1>1, <1>5 DEF Handled, Provided, Running, Conditions
<1>7. spaces' = [spaces EXCEPT ![p][c] =
           [s EXCEPT !.policy = IF c = "candidate" THEN specs[loc[p].spec].content ELSE @,
                     !.touched = @ \cup {mark}]]
  BY DEF Launch, Entered, Space, Dir
<1>8. /\ spaces' = [spaces EXCEPT ![p] = spaces'[p]]
      /\ spaces'[p] = [spaces[p] EXCEPT ![c] =
              [s EXCEPT !.policy = IF c = "candidate" THEN specs[loc[p].spec].content ELSE @,
                        !.touched = @ \cup {mark}]]
  BY <1>7 DEF IInv
<1>9. /\ spaces'[p][c] = [commit |-> s.commit,
                          policy |-> IF c = "candidate" THEN specs[loc[p].spec].content ELSE s.policy,
                          touched |-> s.touched \cup {mark}]
      /\ \A e \in Conditions \ {c} : spaces'[p][e] = spaces[p][e]
      /\ spaces'[p] = [e \in Conditions |-> spaces'[p][e]]
  <2>1. s = [commit |-> s.commit, policy |-> s.policy, touched |-> s.touched]
    BY <1>6 DEF Fit
  <2>2. c \in Conditions /\ spaces[p] = [e \in Conditions |-> spaces[p][e]]
    BY <1>1, <1>5 DEF Handled, Shaped
  <2> QED BY <1>8, <2>1, <2>2
<1>10. ASSUME NEW e, e = c PROVE Fit(p, e)'
  BY <1>10, <1>1, <1>4, <1>5, <1>6, <1>9 DEF Fit, tables
<1>11. \A e \in Conditions \ {c} : Fit(p, e)'
  BY <1>1, <1>4, <1>9 DEF Handled, Provided, Fit, Running, tables
<1>12. c = "candidate" => spaces'[p]["candidate"].policy = specs'[loc'[p].spec].content
  BY <1>1, <1>4, <1>9 DEF tables
<1>13. Provided(p)'
  <2>1. \A e \in Conditions : Fit(p, e)'
    BY <1>10, <1>11
  <2>2. Condition(p)' = c
    BY <1>5
  <2> QED BY <1>4, <1>12, <2>1, <2>2 DEF Provided
<1>14. Shaped(p)'
  BY <1>1, <1>4, <1>9 DEF Handled, Shaped, Cloning, Started, Running, tables
<1>15. Paired(p)'
  BY <1>1, <1>4 DEF Handled, Paired, Ours, Key, Order, _order_for, Running, tables
<1> QED BY <1>1, <1>3, <1>4, <1>8, <1>13, <1>14, <1>15, OneHandler DEF Handled

LEMMA CommandEnded == ASSUME IInv, NEW p \in Procs, NEW ok, Ended(p, ok) PROVE IInv'
<1>1. Handled(p) /\ UNCHANGED tables /\ UNCHANGED spaces /\ loc[p].pc = "waiting"
  BY DEF IInv, Ended, At
<1> DEFINE to == IF loc[p].done = Len(Checks) THEN "record_completed" ELSE "waiting"
<1> DEFINE d == loc[p].done + 1
<1> DEFINE s == IF ok /\ loc[p].done > 0 THEN loc[p].passed \cup {Checks[loc[p].done]} ELSE loc[p].passed
<1>2. /\ to \in {"record_completed", "waiting"}
      /\ loc' = [loc EXCEPT ![p] = [loc[p] EXCEPT !.pc = to, !.done = d, !.passed = s]]
  BY DEF Ended
<1> HIDE DEF to, d, s
<1>3. /\ loc' = [loc EXCEPT ![p] = loc'[p]]
      /\ loc'[p] = [loc[p] EXCEPT !.pc = to, !.done = d, !.passed = s]
  BY <1>2 DEF IInv
<1>4. /\ loc'[p].pc = to /\ loc'[p].position = loc[p].position
      /\ loc'[p].spec = loc[p].spec /\ loc'[p].index = loc[p].index
      /\ loc'[p] = [pc |-> loc'[p].pc, spec |-> loc'[p].spec, mode |-> loc'[p].mode, frozen |-> loc'[p].frozen,
                    left |-> loc'[p].left, index |-> loc'[p].index, position |-> loc'[p].position,
                    done |-> loc'[p].done, passed |-> loc'[p].passed]
  BY <1>1, <1>3 DEF Handled, Shaped
<1>5. Condition(p)' = Condition(p)
  BY <1>1, <1>4 DEF Condition, Order, _order_for, tables
<1>6. Shaped(p)'
  BY <1>1, <1>2, <1>4 DEF Handled, Shaped, Cloning, Started, Running, tables
<1>7. Paired(p)'
  BY <1>1, <1>2, <1>4 DEF Handled, Paired, Ours, Key, Order, _order_for, Running, tables
<1>8. Provided(p)'
  BY <1>1, <1>2, <1>4, <1>5 DEF Handled, Provided, Fit, Running, tables
<1>9. spaces' = [spaces EXCEPT ![p] = spaces'[p]]
  BY <1>1 DEF IInv
<1> QED BY <1>1, <1>2, <1>3, <1>4, <1>6, <1>7, <1>8, <1>9, OneHandler DEF Handled

LEMMA Killed == ASSUME IInv, NEW p \in Procs, Crash(p) PROVE IInv'
<1>1. UNCHANGED tables /\ UNCHANGED spaces /\ Handled(p)
  BY DEF IInv, Crash
<1>2. loc' = [loc EXCEPT ![p] = loc'[p]] /\ loc'[p] = [Idle EXCEPT !.pc = "killed"]
  BY DEF IInv, Crash
<1>3. /\ loc'[p].pc = "killed" /\ loc'[p].spec = None
      /\ loc'[p].position = 1
      /\ loc'[p] = [pc |-> loc'[p].pc, spec |-> loc'[p].spec, mode |-> loc'[p].mode, frozen |-> loc'[p].frozen,
                    left |-> loc'[p].left, index |-> loc'[p].index, position |-> loc'[p].position,
                    done |-> loc'[p].done, passed |-> loc'[p].passed]
  BY <1>2 DEF Idle
<1>4. Shaped(p)'
  BY <1>1, <1>3 DEF Handled, Shaped, Cloning, Started, Running, tables
<1>5. Paired(p)' /\ Provided(p)'
  BY <1>3 DEF Paired, Provided, Running
<1>6. spaces' = [spaces EXCEPT ![p] = spaces'[p]]
  BY <1>1 DEF IInv
<1> QED BY <1>1, <1>2, <1>3, <1>4, <1>5, <1>6, OneHandler DEF Handled

LEMMA OthersAct == ASSUME IInv, UNCHANGED <<tables, spaces, loc>> PROVE IInv'
<1>1. Grown
  BY DEF Grown, tables
<1>2. \A p \in Procs : Handled(p)'
  BY <1>1, OthersKeep DEF IInv
<1>3. Frozenly' /\ Recorded'
  BY DEF IInv, Frozenly, Recorded, tables
<1>4. OnePairOneHandler' /\ FrozenInputs' /\ ConditionsApart'
  BY DEF IInv, OnePairOneHandler, FrozenInputs, ConditionsApart, RunOf, tables
<1> QED BY <1>2, <1>3, <1>4 DEF IInv

-----------------------------------------------------------------------------
\* The steps that add a row.

LEMMA RowPut ==
    ASSUME NEW f, NEW x, NEW y, x \notin DOMAIN f
    PROVE  /\ x \in DOMAIN Put(f, x, y) /\ Put(f, x, y)[x] = y
           /\ \A z \in DOMAIN f : z \in DOMAIN Put(f, x, y) /\ Put(f, x, y)[z] = f[z]
           /\ \A z \in DOMAIN Put(f, x, y) : z \in DOMAIN f \/ z = x
BY DEF Put

LEMMA HandlerGrows ==
    ASSUME IInv, NEW p \in Procs, Grown, Handled(p)',
           loc' = [loc EXCEPT ![p] = loc'[p]], spaces' = [spaces EXCEPT ![p] = spaces'[p]],
           Frozenly', Recorded', OnePairOneHandler', FrozenInputs', ConditionsApart'
    PROVE  IInv'
<1>1. \A q \in Procs \ {p} : loc'[q] = loc[q] /\ spaces'[q] = spaces[q]
  BY DEF IInv
<1>2. \A q \in Procs : Handled(q)'
  BY <1>1, OthersKeep DEF IInv
<1>3. loc' = [q \in Procs |-> loc'[q]] /\ spaces' = [q \in Procs |-> spaces'[q]]
  BY DEF IInv
<1> QED BY <1>2, <1>3 DEF IInv

LEMMA SpecCreated == ASSUME IInv, NEW p \in Procs, create_spec(p) PROVE IInv'
<1> DEFINE id == loc[p].spec
<1>1. /\ Handled(p) /\ loc[p].pc = "freeze" /\ UNCHANGED <<runs, comparisons, spaces>>
      /\ loc' = [loc EXCEPT ![p] = [loc[p] EXCEPT !.pc = "next", !.mode = None, !.frozen = None]]
  BY DEF IInv, create_spec, At
<1>2. PICK row : specs' = Put(specs, id, row)
  BY DEF create_spec
<1>3. id \notin DOMAIN specs /\ \A q \in Procs \ {p} : loc[q].spec # id
  BY <1>1 DEF IInv, Frozenly
<1>4. id \in DOMAIN specs' /\ \A i \in DOMAIN specs : i \in DOMAIN specs' /\ specs'[i] = specs[i]
  BY <1>2, <1>3 DEF Put
<1>5. \A i \in DOMAIN specs' : i \in DOMAIN specs \/ i = id
  BY <1>2 DEF Put
<1>6. Grown
  BY <1>1, <1>4 DEF Grown
<1>7. /\ loc' = [loc EXCEPT ![p] = loc'[p]]
      /\ loc'[p] = [loc[p] EXCEPT !.pc = "next", !.mode = None, !.frozen = None]
  BY <1>1 DEF IInv
<1>8. /\ loc'[p].pc = "next" /\ loc'[p].position = loc[p].position /\ loc'[p].spec = id
      /\ loc'[p] = [pc |-> loc'[p].pc, spec |-> loc'[p].spec, mode |-> loc'[p].mode, frozen |-> loc'[p].frozen,
                    left |-> loc'[p].left, index |-> loc'[p].index, position |-> loc'[p].position,
                    done |-> loc'[p].done, passed |-> loc'[p].passed]
  <2>1. loc[p] = [pc |-> loc[p].pc, spec |-> loc[p].spec, mode |-> loc[p].mode, frozen |-> loc[p].frozen,
                  left |-> loc[p].left, index |-> loc[p].index, position |-> loc[p].position,
                  done |-> loc[p].done, passed |-> loc[p].passed]
    BY <1>1 DEF Handled, Shaped
  <2> HIDE DEF id
  <2>2. loc'[p] = [pc |-> "next", spec |-> loc[p].spec, mode |-> None, frozen |-> None,
                   left |-> loc[p].left, index |-> loc[p].index, position |-> loc[p].position,
                   done |-> loc[p].done, passed |-> loc[p].passed]
    BY <1>7, <2>1
  <2> QED BY <2>2 DEF id
<1>9. Shaped(p)'
  BY <1>1, <1>4, <1>8 DEF Handled, Shaped, Cloning, Started
<1>10. Paired(p)' /\ Provided(p)'
  BY <1>8 DEF Paired, Provided, Running
<1>11. Frozenly'
  <2>1. \A q \in Procs \ {p} : loc'[q] = loc[q]
    BY <1>7 DEF IInv
  <2>2. \A q \in Procs : loc[q].pc = "freeze" =>
           /\ loc[q].spec # None /\ loc[q].spec \notin DOMAIN specs
           /\ \A r \in Procs \ {q} : loc[r].spec # loc[q].spec
    BY DEF IInv, Frozenly
  <2>3. \A q \in Procs : loc'[q].pc = "freeze" =>
           /\ loc'[q].spec # None /\ loc'[q].spec \notin DOMAIN specs'
           /\ \A r \in Procs \ {q} : loc'[r].spec # loc'[q].spec
    BY <1>3, <1>5, <1>8, <2>1, <2>2
  <2> QED BY <2>3 DEF Frozenly
<1>12. Recorded' /\ OnePairOneHandler'
  BY <1>1, <1>4 DEF IInv, Recorded, OnePairOneHandler, RunOf
<1>13. FrozenInputs' /\ ConditionsApart'
  BY <1>1, <1>4 DEF IInv, Recorded, FrozenInputs, ConditionsApart
<1>14. spaces' = [spaces EXCEPT ![p] = spaces'[p]]
  BY <1>1 DEF IInv
<1> QED BY <1>6, <1>7, <1>9, <1>10, <1>11, <1>12, <1>13, <1>14, HandlerGrows DEF Handled

\* A row of a condition that did not run, or ran in its own clone.
LEMMA RowAdded ==
    ASSUME IInv, NEW p \in Procs, NEW c \in Conditions, NEW status,
           Key(p, c) \notin DOMAIN runs, runs' = Put(runs, Key(p, c), Row(p, c, status)),
           UNCHANGED <<specs, comparisons>>, loc[p].spec \in DOMAIN specs,
           status # "error" => Condition(p) = c /\ Fit(p, c),
           c = "candidate" /\ status = "completed" => spaces[p][c].policy = specs[loc[p].spec].content
    PROVE  /\ Grown /\ Key(p, c) \in DOMAIN runs' /\ runs'[Key(p, c)].by = p
           /\ Recorded' /\ OnePairOneHandler' /\ FrozenInputs' /\ ConditionsApart'
<1> DEFINE new == Key(p, c)
<1>1. /\ new \in DOMAIN runs' /\ runs'[new] = Row(p, c, status)
      /\ \A k \in DOMAIN runs : k \in DOMAIN runs' /\ runs'[k] = runs[k]
      /\ \A k \in DOMAIN runs' : k \in DOMAIN runs \/ k = new
  BY RowPut
<1>2. new[1] = loc[p].spec /\ new[2] = loc[p].index /\ new[3] = c
  BY DEF Key
<1>3. Row(p, c, status).by = p /\ Row(p, c, status).status = status
  BY DEF Row
<1>4. status # "error" => Row(p, c, status).space = spaces[p][c]
  BY DEF Row, Space, Dir
<1>5. Grown
  BY <1>1 DEF Grown
<1>6. Recorded'
  BY <1>1, <1>2 DEF IInv, Recorded
<1>7. OnePairOneHandler'
  <2>1. \A k \in DOMAIN comparisons : \A e \in Conditions :
            RunOf(k, e) \in DOMAIN runs /\ runs[RunOf(k, e)].by = comparisons[k].by
    BY DEF IInv, OnePairOneHandler
  <2> QED BY <1>1, <2>1, ZenonT(40) DEF OnePairOneHandler, RunOf
<1>8. FrozenInputs'
  <2>1. ASSUME NEW k \in DOMAIN runs', runs'[k].status # "error"
        PROVE  /\ runs'[k].space.commit = specs[k[1]].commit
               /\ runs'[k].space.policy \in {None, specs[k[1]].content}
               /\ (k[3] = "candidate" /\ runs'[k].status = "completed") =>
                      runs'[k].space.policy = specs[k[1]].content
    <3>1. CASE k \in DOMAIN runs
      BY <1>1, <2>1, <3>1 DEF IInv, FrozenInputs
    <3>2. CASE k = new
      BY <1>1, <1>2, <1>3, <1>4, <2>1, <3>2 DEF Fit
    <3> QED BY <1>1, <2>1, <3>1, <3>2
  <2> QED BY <2>1 DEF FrozenInputs
<1>9. ConditionsApart'
  <2>1. ASSUME NEW k \in DOMAIN runs', runs'[k].status # "error"
        PROVE  runs'[k].space.touched \subseteq {<<k[2], k[3]>>} /\ (k[3] = "baseline" => runs'[k].space.policy = None)
    <3>1. CASE k \in DOMAIN runs
      BY <1>1, <2>1, <3>1 DEF IInv, ConditionsApart
    <3>2. CASE k = new
      BY <1>1, <1>2, <1>3, <1>4, <2>1, <3>2 DEF Fit
    <3> QED BY <1>1, <2>1, <3>1, <3>2
  <2> QED BY <2>1 DEF ConditionsApart
<1> QED BY <1>1, <1>3, <1>5, <1>6, <1>7, <1>8, <1>9

\* The two conditions of an order are different.
LEMMA OrderHasBoth ==
    ASSUME NEW p
    PROVE  /\ Order(p)[1] \in Conditions /\ Order(p)[2] \in Conditions
           /\ \A c \in Conditions : c = Order(p)[1] \/ c = Order(p)[2]
BY DEF Order, _order_for, Conditions

\* A row of a handler, and where the handler stands after it.
LEMMA RowRecorded ==
    ASSUME IInv, NEW p \in Procs, NEW c \in Conditions, NEW status, NEW next,
           record_evaluation_run(p, c, status, next), UNCHANGED <<specs, comparisons>>,
           loc[p].pc \in Started,
           status # "error" => Condition(p) = c /\ Fit(p, c),
           c = "candidate" /\ status = "completed" => spaces[p][c].policy = specs[loc[p].spec].content,
           next.pc # "freeze",
           Grown /\ loc'[p] = next /\ UNCHANGED <<specs, spaces>> /\ Ours(p, c)' => Handled(p)',
           next.spec = loc[p].spec, next.index = loc[p].index
    PROVE  IInv'
<1>1. CASE Key(p, c) \in DOMAIN runs
  BY <1>1, Ends DEF record_evaluation_run, tables
<1>2. CASE Key(p, c) \notin DOMAIN runs
  <2>1. /\ runs' = Put(runs, Key(p, c), Row(p, c, status))
        /\ loc' = [loc EXCEPT ![p] = next] /\ UNCHANGED spaces
    BY <1>2 DEF record_evaluation_run
  <2>2. loc[p].spec \in DOMAIN specs
    BY DEF IInv, Handled, Shaped
  <2>3. /\ Grown /\ Key(p, c) \in DOMAIN runs' /\ runs'[Key(p, c)].by = p
        /\ Recorded' /\ OnePairOneHandler' /\ FrozenInputs' /\ ConditionsApart'
    BY <1>2, <2>1, <2>2, RowAdded
  <2>4. loc'[p] = next /\ loc' = [loc EXCEPT ![p] = loc'[p]] /\ spaces' = [spaces EXCEPT ![p] = spaces'[p]]
    BY <2>1 DEF IInv
  <2>5. Ours(p, c)'
    BY <2>3, <2>4 DEF Ours, Key
  <2>6. Handled(p)'
    BY <2>1, <2>3, <2>4, <2>5
  <2>7. Frozenly'
    BY <2>1, <2>4 DEF IInv, Frozenly
  <2> QED BY <2>3, <2>4, <2>6, <2>7, HandlerGrows
<1> QED BY <1>1, <1>2

LEMMA ConditionRecorded == ASSUME IInv, NEW p \in Procs, Record(p) PROVE IInv'
<1>1. /\ Handled(p) /\ loc[p].pc \in {"record_completed", "record_failed"}
      /\ UNCHANGED <<specs, comparisons>>
  BY DEF IInv, Record
<1>2. loc[p].position \in {1, 2} /\ Condition(p) \in Conditions
  BY <1>1, OrderHasBoth DEF Handled, Shaped, Condition
<1>3. PICK c \in Conditions : c = Condition(p)
  BY <1>2
<1>4. PICK status : status = IF At(p, "record_completed") THEN "completed" ELSE "failed"
  OBVIOUS
<1>5. PICK next : next = [loc[p] EXCEPT !.pc = IF loc[p].position = 2 THEN "leave" ELSE "condition",
                                        !.position = 2, !.done = 0, !.passed = {}]
  OBVIOUS
<1>6. record_evaluation_run(p, c, status, next)
  BY <1>3, <1>4, <1>5 DEF Record
<1>7. /\ next.pc = IF loc[p].position = 2 THEN "leave" ELSE "condition"
      /\ next.position = 2 /\ next.spec = loc[p].spec /\ next.index = loc[p].index
      /\ next = [pc |-> next.pc, spec |-> next.spec, mode |-> next.mode, frozen |-> next.frozen,
                 left |-> next.left, index |-> next.index, position |-> next.position,
                 done |-> next.done, passed |-> next.passed]
  <2>1. loc[p] = [pc |-> loc[p].pc, spec |-> loc[p].spec, mode |-> loc[p].mode, frozen |-> loc[p].frozen,
                  left |-> loc[p].left, index |-> loc[p].index, position |-> loc[p].position,
                  done |-> loc[p].done, passed |-> loc[p].passed]
    BY <1>1 DEF Handled, Shaped
  <2>2. next = [pc |-> IF loc[p].position = 2 THEN "leave" ELSE "condition",
                spec |-> loc[p].spec, mode |-> loc[p].mode, frozen |-> loc[p].frozen,
                left |-> loc[p].left, index |-> loc[p].index, position |-> 2, done |-> 0, passed |-> {}]
    BY <1>5, <2>1
  <2> QED BY <2>2
<1>8. \A e \in Conditions : Fit(p, e)
  BY <1>1 DEF Handled, Provided, Running
<1>9. c = "candidate" /\ status = "completed" => spaces[p][c].policy = specs[loc[p].spec].content
  BY <1>1, <1>3, <1>4 DEF Handled, Provided, At
<1>10. ASSUME Grown, loc'[p] = next, UNCHANGED <<specs, spaces>>, Ours(p, c)'
       PROVE  Handled(p)'
  <2>1. loc'[p].spec = loc[p].spec /\ loc'[p].index = loc[p].index /\ loc'[p].position = 2
    BY <1>7, <1>10
  <2>2. Order(p)' = Order(p)
    BY <1>10, <2>1 DEF Order, _order_for
  <2>3. Shaped(p)'
    BY <1>1, <1>7, <1>10 DEF Handled, Shaped, Cloning, Started, Running
  <2>4. Provided(p)'
    BY <1>7, <1>8, <1>10, <2>1 DEF Provided, Fit
  <2>5. CASE loc[p].position = 1
    <3>1. c = Order(p)[1] /\ loc'[p].pc = "condition"
      BY <1>3, <1>7, <1>10, <2>5 DEF Condition
    <3>2. Paired(p)'
      BY <1>10, <2>2, <3>1 DEF Paired, Ours, Key
    <3> QED BY <2>3, <2>4, <3>2 DEF Handled
  <2>6. CASE loc[p].position = 2
    <3>1. c = Order(p)[2] /\ loc'[p].pc = "leave"
      BY <1>3, <1>7, <1>10, <2>6 DEF Condition
    <3>2. Ours(p, Order(p)[1])
      BY <1>1, <2>6 DEF Handled, Paired, Running
    <3>3. \A e : Ours(p, e) => Ours(p, e)'
      BY <1>10, <2>1 DEF Grown, Ours, Key
    <3>4. \A e \in Conditions : Ours(p, e)'
      BY <1>10, <3>1, <3>2, <3>3, OrderHasBoth
    <3>5. Paired(p)'
      BY <3>1, <3>4 DEF Paired, Running
    <3> QED BY <2>3, <2>4, <3>5 DEF Handled
  <2> QED BY <1>2, <2>5, <2>6
<1>11. next.pc # "freeze" /\ loc[p].pc \in Started
  BY <1>1, <1>7 DEF Started, Running
<1> QED BY <1>1, <1>3, <1>6, <1>7, <1>8, <1>9, <1>10, <1>11, RowRecorded

LEMMA ErrorsRecorded == ASSUME IInv, NEW p \in Procs, RecordErrors(p) PROVE IInv'
<1>1. PICK c \in Conditions : c = IF loc[p].pc = "error_baseline" THEN "baseline" ELSE "candidate"
  BY DEF Conditions
<1>2. PICK to : to = IF loc[p].pc = "error_baseline" THEN "error_candidate" ELSE "compare"
  OBVIOUS
<1>3. PICK next : next = [loc[p] EXCEPT !.pc = to]
  OBVIOUS
<1>4. /\ Handled(p) /\ loc[p].pc \in {"error_baseline", "error_candidate"}
      /\ UNCHANGED <<specs, comparisons>> /\ record_evaluation_run(p, c, "error", next)
  BY <1>1, <1>2, <1>3 DEF IInv, RecordErrors, At
<1>5. /\ next.pc = to /\ next.position = loc[p].position /\ next.spec = loc[p].spec
      /\ next.index = loc[p].index
      /\ next = [pc |-> next.pc, spec |-> next.spec, mode |-> next.mode, frozen |-> next.frozen,
                 left |-> next.left, index |-> next.index, position |-> next.position,
                 done |-> next.done, passed |-> next.passed]
  BY <1>3, <1>4 DEF Handled, Shaped
<1>6. ASSUME Grown, loc'[p] = next, UNCHANGED <<specs, spaces>>, Ours(p, c)'
      PROVE  Handled(p)'
  <2>1. loc'[p].pc = to /\ to \in {"error_candidate", "compare"}
    BY <1>2, <1>5, <1>6
  <2>2. Shaped(p)'
    BY <1>4, <1>5, <1>6, <2>1 DEF Handled, Shaped, Cloning, Started, Running
  <2>3. Provided(p)'
    BY <2>1 DEF Provided, Running
  <2>4. \A e : Ours(p, e) => Ours(p, e)'
    BY <1>5, <1>6 DEF Grown, Ours, Key
  <2>5. to = "compare" => Ours(p, "baseline") /\ c = "candidate"
    BY <1>1, <1>2, <1>4 DEF Handled, Paired
  <2>6. to = "error_candidate" => c = "baseline"
    BY <1>1, <1>2
  <2>7. Paired(p)'
    BY <1>6, <2>1, <2>4, <2>5, <2>6 DEF Paired, Running, Conditions
  <2> QED BY <2>2, <2>3, <2>7 DEF Handled
<1>7. next.pc # "freeze" /\ loc[p].pc \in Started
  BY <1>2, <1>4, <1>5 DEF Started
<1> QED BY <1>1, <1>4, <1>5, <1>6, <1>7, RowRecorded

\* What is compared are the two rows of the handler.
LEMMA Compared == ASSUME IInv, NEW p \in Procs, record_evaluation_comparison(p) PROVE IInv'
<1>1. Handled(p) /\ loc[p].pc = "compare" /\ UNCHANGED <<specs, runs>>
  BY DEF IInv, record_evaluation_comparison, At
<1>2. CASE Cell(p) \in DOMAIN comparisons
  BY <1>1, <1>2, Ends DEF record_evaluation_comparison, tables
<1>3. CASE Cell(p) \notin DOMAIN comparisons
  <2>1. PICK result : comparisons' = Put(comparisons, Cell(p), Judged(p, result))
    BY <1>3 DEF record_evaluation_comparison
  <2>2. Go(p, "next") /\ UNCHANGED spaces
    BY <1>3 DEF record_evaluation_comparison
  <2>3. /\ loc' = [loc EXCEPT ![p] = loc'[p]] /\ loc'[p] = [loc[p] EXCEPT !.pc = "next"]
        /\ loc'[p].pc = "next" /\ loc'[p].spec = loc[p].spec
        /\ loc'[p].index = loc[p].index /\ loc'[p].position = loc[p].position
    BY <2>2, Gone
  <2>4. Shaped(p)'
    BY <1>1, <2>2, <2>3 DEF Handled, Shaped, Cloning, Started, Running
  <2>5. Paired(p)' /\ Provided(p)'
    BY <2>3 DEF Paired, Provided, Running
  <2>6. Recorded' /\ Grown
    BY <1>1 DEF IInv, Recorded, Grown
  <2>10. Frozenly'
    <3>1. \A q \in Procs \ {p} : loc'[q] = loc[q]
      BY <2>3 DEF IInv
    <3>2. \A q \in Procs : loc[q].pc = "freeze" =>
             /\ loc[q].spec # None /\ loc[q].spec \notin DOMAIN specs
             /\ \A r \in Procs \ {q} : loc[r].spec # loc[q].spec
      BY DEF IInv, Frozenly
    <3>3. \A q \in Procs : loc'[q].pc = "freeze" =>
             /\ loc'[q].spec # None /\ loc'[q].spec \notin DOMAIN specs
             /\ \A r \in Procs \ {q} : loc'[r].spec # loc'[q].spec
      <4>1. loc'[p].pc # "freeze" /\ \A q \in Procs : loc'[q].spec = loc[q].spec
        BY <2>3, <3>1
      <4>2. \A q \in Procs : loc'[q].pc = "freeze" => loc[q].pc = "freeze"
        BY <3>1, <4>1
      <4> QED BY <3>2, <4>1, <4>2
    <3> QED BY <1>1, <3>3 DEF Frozenly
  <2>7. FrozenInputs' /\ ConditionsApart'
    BY <1>1 DEF IInv, FrozenInputs, ConditionsApart
  <2>8. OnePairOneHandler'
    <3>1. /\ comparisons'[Cell(p)] = Judged(p, result)
          /\ \A k \in DOMAIN comparisons : comparisons'[k] = comparisons[k]
          /\ \A k \in DOMAIN comparisons' : k \in DOMAIN comparisons \/ k = Cell(p)
      BY <1>3, <2>1, RowPut
    <3>2. \A c \in Conditions : Ours(p, c)
      BY <1>1 DEF Handled, Paired
    <3>3. \A c : RunOf(Cell(p), c) = Key(p, c)
      BY DEF RunOf, Cell, Key
    <3>4. Judged(p, result).by = p
      BY DEF Judged
    <3>5. ASSUME NEW k \in DOMAIN comparisons', NEW c \in Conditions
          PROVE  RunOf(k, c) \in DOMAIN runs /\ runs[RunOf(k, c)].by = comparisons'[k].by
      <4>1. CASE k \in DOMAIN comparisons
        BY <3>1, <4>1 DEF IInv, OnePairOneHandler
      <4>2. CASE k = Cell(p)
        BY <3>1, <3>2, <3>3, <3>4, <4>2 DEF Ours
      <4> QED BY <3>1, <4>1, <4>2
    <3> QED BY <1>1, <3>5 DEF OnePairOneHandler, RunOf
  <2>9. spaces' = [spaces EXCEPT ![p] = spaces'[p]]
    BY <2>2 DEF IInv
  <2> QED BY <2>3, <2>4, <2>5, <2>6, <2>7, <2>8, <2>9, <2>10, HandlerGrows DEF Handled
<1> QED BY <1>2, <1>3

-----------------------------------------------------------------------------
LEMMA IInvIsInductive == ASSUME IInv, [Next]_vars PROVE IInv'
<1>1. ASSUME NEW p \in Procs, Unresolved(p) \/ Return(p) \/ Undecodable(p) PROVE IInv'
  <2>1. UNCHANGED tables /\ (Die(p) \/ (loc' = [loc EXCEPT ![p] = Idle] /\ UNCHANGED <<spaces, refused>>))
    BY <1>1 DEF Unresolved, Return, Undecodable
  <2> QED BY <2>1, Ends
<1>2. ASSUME NEW p \in Procs, Exits(p) \/ TimesOut(p) PROVE IInv'
  <2>1. PICK ok : Ended(p, ok)
    BY <1>2 DEF Exits, TimesOut
  <2> QED BY <2>1, CommandEnded
<1>3. ASSUME NEW p \in Procs, Step(p) PROVE IInv'
  BY <1>1, <1>2, <1>3, SpecCreated, Repeats, Cloned, NotIsolated, Launched, Refused,
     ConditionRecorded, ErrorsRecorded, Left, Compared DEF Step
<1>4. CASE Outside \/ UNCHANGED vars
  BY <1>4, OthersAct DEF Outside, vars, tables
<1> QED BY <1>1, <1>2, <1>3, <1>4, Requested, Killed DEF Next

LEMMA IInvHolds == Spec => []IInv
<1>1. Init => IInv
  BY IInvHoldsInitially
<1>2. IInv /\ [Next]_vars => IInv'
  BY IInvIsInductive
<1> QED BY <1>1, <1>2, PTL DEF Spec

\* Whatever processes run the same repetition at once, fail or are killed, a
\* comparison is about the two rows that one of them wrote (_run_pair).
THEOREM ComparedAreOneHandlers == Spec => []OnePairOneHandler
<1>1. IInv => OnePairOneHandler
  BY DEF IInv
<1> QED BY <1>1, IInvHolds, PTL

\* A run that started used the frozen commit, and a completed candidate the
\* frozen policy, however the review and the repository changed meanwhile
\* (evaluation_specs, isolated_workspaces, apply_candidate_policy).
THEOREM InputsStayFrozen == Spec => []FrozenInputs
<1>1. IInv => FrozenInputs
  BY DEF IInv
<1> QED BY <1>1, IInvHolds, PTL

\* No condition ran in a workspace that the other, or an earlier repetition, had
\* touched, and the baseline never saw the policy, although the directories of
\* earlier repetitions may still be there (_run_condition, mkdtemp).
THEOREM ConditionsStayApart == Spec => []ConditionsApart
<1>1. IInv => ConditionsApart
  BY DEF IInv
<1> QED BY <1>1, IInvHolds, PTL

-----------------------------------------------------------------------------
\* Types and bounds.

\* What the type of a handler's locals says only of some of its states.
Bounded(p) ==
    /\ loc[p].index <= MaxIndex
    /\ loc[p].pc \in Started \ {"next"} => loc[p].index >= 1
    /\ loc[p].pc = "waiting" => loc[p].done <= Len(Checks)
    /\ loc[p].pc = "freeze" => loc[p].mode \in Modes /\ loc[p].frozen \in Frozen

TInv ==
    /\ TypeOK
    /\ \A p \in Procs : Bounded(p)
    /\ \A k \in DOMAIN runs : k[2] <= MaxIndex

LEMMA MaxOfBounded ==
    ASSUME NEW n \in Nat, NEW S \in SUBSET (0..n), S # {}
    PROVE  Max(S) \in S
<1> DEFINE T == {y \in 0..n : n - y \in S}
<1>1. T \subseteq Nat /\ \A m \in S : n - m \in T
  OBVIOUS
<1>2. T # {}
  BY <1>1
<1>3. \E x \in T : \A y \in T : ~ (<<y, x>> \in OpToRel(<, Nat))
  BY <1>1, <1>2, NatLessThanWellFounded, WFMin, Zenon
<1>4. PICK x \in T : \A y \in T : ~ (y < x)
  BY <1>1, <1>3 DEF OpToRel
<1>5. n - x \in S /\ \A y \in S : n - x >= y
  <2>1. n - x \in S /\ x \in Nat
    BY <1>1, <1>4
  <2>2. ASSUME NEW y \in S PROVE n - x >= y
    <3>1. ~ (n - y < x)
      BY <1>1, <1>4
    <3> QED BY <2>1, <3>1
  <2> QED BY <2>1, <2>2
<1> QED BY <1>5 DEF Max

\* The rows have their types.
TablesTyped ==
    /\ DOMAIN specs \subseteq SpecIds
    /\ \A id \in DOMAIN specs : specs[id] \in SpecRows
    /\ DOMAIN runs \subseteq SpecIds \X (Nat \ {0}) \X Conditions
    /\ \A k \in DOMAIN runs : runs[k] \in RunRows /\ k[2] <= MaxIndex
    /\ DOMAIN comparisons \subseteq SpecIds \X (Nat \ {0})
    /\ \A k \in DOMAIN comparisons : comparisons[k] \in ComparisonRows

Pair == [Conditions -> Spaces \cup {None}]

LEMMA IdleTyped == Idle \in Locals /\ Idle.index = 0
<1>1. Len(Checks) \in Nat
  BY ChecksAssumption
<1> QED BY <1>1 DEF Idle, Locals, Pcs

LEMMA TypesInitially == ASSUME Init PROVE TInv
<1>1. Idle \in Locals
  BY IdleTyped
<1>2. NoSpaces \in Pair
  BY DEF NoSpaces, Pair
<1>3. \A p \in Procs : loc[p] = Idle
  BY DEF Init
<1>4. \A p \in Procs : Bounded(p)
  BY <1>3, InstanceAssumption DEF Bounded, Idle, Started, Running, Cloning
<1>5. TypeOK
  <2>1. review \in [status : {"accepted", "edited"} \cup Decisions,
                    revision : Nat, content : Texts, stale : BOOLEAN]
    BY InstanceAssumption DEF Init
  <2>2. written \in Seq(Texts)
    BY InstanceAssumption DEF Init
  <2>3. source \in [head : Commits, held : SUBSET Commits, present : BOOLEAN]
    BY InstanceAssumption DEF Init
  <2>4. DOMAIN specs = {} /\ DOMAIN runs = {} /\ DOMAIN comparisons = {}
    BY DEF Init
  <2>5. spaces \in [Procs -> Pair] /\ loc \in [Procs -> Locals] /\ refused \subseteq Procs
    BY <1>1, <1>2 DEF Init
  <2> QED BY <2>1, <2>2, <2>3, <2>4, <2>5 DEF TypeOK, Pair
<1> QED BY <1>4, <1>5 DEF TInv, Init

\* A step of one handler.
LEMMA HandlerTyped ==
    ASSUME TInv, NEW p \in Procs, NEW l \in Locals, NEW s \in Pair,
           loc' = [loc EXCEPT ![p] = l], spaces' = [spaces EXCEPT ![p] = s],
           refused' \subseteq refused \cup {p}, TablesTyped', Bounded(p)', UNCHANGED world
    PROVE  TInv'
<1>1. loc' \in [Procs -> Locals] /\ spaces' \in [Procs -> Pair]
  BY DEF TInv, TypeOK, Pair
<1>2. \A q \in Procs \ {p} : loc'[q] = loc[q]
  BY DEF TInv, TypeOK
<1>3. \A q \in Procs : Bounded(q)'
  BY <1>2 DEF TInv, Bounded
<1>4. TypeOK'
  BY <1>1 DEF TInv, TypeOK, TablesTyped, Pair, world
<1> QED BY <1>3, <1>4 DEF TInv, TablesTyped

LEMMA TablesStay == ASSUME TInv, UNCHANGED tables PROVE TablesTyped'
BY DEF TInv, TypeOK, TablesTyped, tables

LEMMA EndsTyped ==
    ASSUME TInv, NEW p \in Procs, NEW pc \in {"idle", "killed"}, UNCHANGED <<tables, world>>,
           loc' = [loc EXCEPT ![p] = [Idle EXCEPT !.pc = pc]],
           Die(p) \/ UNCHANGED <<spaces, refused>>
    PROVE  TInv'
<1>1. [Idle EXCEPT !.pc = pc] \in Locals
  BY DEF Idle, Locals, Pcs
<1>2. NoSpaces \in Pair /\ spaces[p] \in Pair
  BY DEF NoSpaces, Pair, TInv, TypeOK
<1>3. /\ spaces' = [spaces EXCEPT ![p] = NoSpaces] \/ spaces' = [spaces EXCEPT ![p] = spaces[p]]
      /\ refused' \subseteq refused \cup {p}
  BY OwnWorkspaces DEF TInv, TypeOK
<1>4. Bounded(p)'
  <2>1. loc'[p] = [Idle EXCEPT !.pc = pc]
    BY DEF TInv, TypeOK
  <2> QED BY <2>1, InstanceAssumption DEF Bounded, Idle, Started, Running, Cloning
<1> QED BY <1>1, <1>2, <1>3, <1>4, TablesStay, HandlerTyped

LEMMA RequestTyped == ASSUME TInv, NEW p \in Procs, cmd_eval_run(p) PROVE TInv'
<1>1. PICK id \in SpecIds, n \in Counts[p] : rerun(p, id, n) \/ \E mode \in Modes : read_review(p, id, mode, n)
  BY DEF cmd_eval_run
<1>2. /\ n \in Nat /\ UNCHANGED <<tables, world>>
      /\ spaces' = [spaces EXCEPT ![p] = NoSpaces] /\ refused' \subseteq refused \cup {p}
  BY InstanceAssumption DEF cmd_eval_run, mkdtemp
<1>3. PICK l \in Locals : /\ loc' = [loc EXCEPT ![p] = l]
                          /\ l.index = 0 /\ l.pc \in {"next", "freeze"}
                          /\ l.pc = "freeze" => l.mode \in Modes /\ l.frozen \in Frozen
  <2>1. CASE rerun(p, id, n)
    <3>1. [Idle EXCEPT !.pc = "next", !.spec = id, !.left = n] \in Locals
      BY <1>2, IdleTyped DEF Locals, Pcs
    <3> QED BY <2>1, <3>1 DEF rerun, Idle
  <2>2. ASSUME NEW mode \in Modes, read_review(p, id, mode, n)
        PROVE  \E l \in Locals : /\ loc' = [loc EXCEPT ![p] = l]
                                 /\ l.index = 0 /\ l.pc \in {"next", "freeze"}
                                 /\ l.pc = "freeze" => l.mode \in Modes /\ l.frozen \in Frozen
    <3> DEFINE f == [content |-> review.content, revision |-> review.revision]
    <3> DEFINE l == [Idle EXCEPT !.pc = "freeze", !.spec = id, !.mode = mode, !.left = n, !.frozen = f]
    <3>1. f \in Frozen
      BY DEF TInv, TypeOK, Frozen
    <3>2. loc' = [loc EXCEPT ![p] = l]
      BY <2>2 DEF read_review
    <3> HIDE DEF f
    <3>3. l \in Locals /\ l.index = 0 /\ l.pc = "freeze" /\ l.mode = mode /\ l.frozen = f
      BY <1>2, <3>1, IdleTyped DEF Locals, Pcs
    <3> QED BY <3>1, <3>2, <3>3
  <2> QED BY <1>1, <2>1, <2>2
<1>4. NoSpaces \in Pair
  BY DEF NoSpaces, Pair
<1>5. Bounded(p)'
  <2>1. loc'[p] = l
    BY <1>3 DEF TInv, TypeOK
  <2> QED BY <1>3, <2>1, InstanceAssumption DEF Bounded, Started, Running, Cloning
<1> QED BY <1>2, <1>3, <1>4, <1>5, TablesStay, HandlerTyped

LEMMA PutTyped ==
    ASSUME NEW f, NEW x, NEW y, NEW K, NEW R, DOMAIN f \subseteq K, \A k \in DOMAIN f : f[k] \in R,
           x \in K, y \in R
    PROVE  DOMAIN Put(f, x, y) \subseteq K /\ \A k \in DOMAIN Put(f, x, y) : Put(f, x, y)[k] \in R
BY DEF Put

LEMMA CreationTyped == ASSUME IInv, TInv, NEW p \in Procs, create_spec(p) PROVE TInv'
<1>1. /\ loc[p].pc = "freeze" /\ loc[p] \in Locals /\ Bounded(p) /\ UNCHANGED <<runs, comparisons, world, spaces, refused>>
      /\ loc' = [loc EXCEPT ![p] = [loc[p] EXCEPT !.pc = "next", !.mode = None, !.frozen = None]]
  BY DEF create_spec, At, TInv, TypeOK
<1>2. PICK c \in {source.head} \cup source.held, a \in Agents :
          specs' = Put(specs, loc[p].spec,
                       [content |-> loc[p].frozen.content, revision |-> loc[p].frozen.revision,
                        commit |-> c, mode |-> loc[p].mode, agent |-> a])
  BY DEF create_spec
<1>3. [content |-> loc[p].frozen.content, revision |-> loc[p].frozen.revision,
       commit |-> c, mode |-> loc[p].mode, agent |-> a] \in SpecRows
  <2>1. c \in Commits
    BY DEF TInv, TypeOK
  <2> QED BY <1>1, <2>1 DEF Bounded, Frozen, SpecRows
<1>4. loc[p].spec \in SpecIds
  BY <1>1 DEF Locals, IInv, Frozenly
<1>5. TablesTyped'
  <2>1. DOMAIN specs' \subseteq SpecIds /\ \A id \in DOMAIN specs' : specs'[id] \in SpecRows
    BY <1>2, <1>3, <1>4, PutTyped DEF TInv, TypeOK
  <2> QED BY <1>1, <2>1 DEF TInv, TypeOK, TablesTyped
<1>6. [loc[p] EXCEPT !.pc = "next", !.mode = None, !.frozen = None] \in Locals
  BY <1>1 DEF Locals, Pcs
<1>7. Bounded(p)'
  <2>1. loc'[p].pc = "next" /\ loc'[p].index = loc[p].index
    BY <1>1 DEF TInv, TypeOK, Locals
  <2> QED BY <1>1, <2>1 DEF Bounded
<1>8. spaces[p] \in Pair /\ spaces' = [spaces EXCEPT ![p] = spaces[p]]
  BY <1>1 DEF TInv, TypeOK, Pair
<1> QED BY <1>1, <1>5, <1>6, <1>7, <1>8, HandlerTyped

LEMMA RepetitionTyped == ASSUME TInv, NEW p \in Procs, next_evaluation_repetition(p) PROVE TInv'
<1> DEFINE S == Indexes(loc[p].spec) \cup {0}
<1> DEFINE i == Max(S) + 1
<1>1. /\ loc[p] \in Locals /\ loc[p].left > 0 /\ i <= MaxIndex
      /\ UNCHANGED <<tables, world>>
      /\ spaces' = [spaces EXCEPT ![p] = NoSpaces] /\ refused' \subseteq refused \cup {p}
      /\ loc' = [loc EXCEPT ![p] = [loc[p] EXCEPT
             !.pc = "clone_baseline", !.index = i, !.left = loc[p].left - 1, !.position = 1]]
  BY DEF next_evaluation_repetition, mkdtemp, TInv, TypeOK
<1>2. i \in Nat /\ i >= 1
  <2>1. S \subseteq 0..MaxIndex
    <3>1. \A k \in DOMAIN runs : k[2] \in Nat /\ k[2] <= MaxIndex
      BY DEF TInv, TypeOK
    <3> QED BY <3>1, InstanceAssumption DEF Indexes
  <2>2. Max(S) \in S
    BY <2>1, InstanceAssumption, MaxOfBounded
  <2> QED BY <2>1, <2>2, InstanceAssumption
<1> HIDE DEF i
<1>3. [loc[p] EXCEPT !.pc = "clone_baseline", !.index = i, !.left = loc[p].left - 1, !.position = 1] \in Locals
  <2>1. loc[p].left - 1 \in Nat
    BY <1>1 DEF Locals
  <2> QED BY <1>1, <1>2, <2>1 DEF Locals, Pcs
<1>4. Bounded(p)'
  <2>1. loc'[p].pc = "clone_baseline" /\ loc'[p].index = i
    BY <1>1 DEF TInv, TypeOK, Locals
  <2> QED BY <1>1, <1>2, <2>1 DEF Bounded
<1>5. NoSpaces \in Pair
  BY DEF NoSpaces, Pair
<1> QED BY <1>1, <1>3, <1>4, <1>5, TablesStay, HandlerTyped

\* A step that only moves the handler on, and may change its workspaces.
LEMMA MoveTyped ==
    ASSUME TInv, NEW p \in Procs, NEW to \in Started \ {"waiting"}, Go(p, to), TablesTyped', UNCHANGED world,
           to # "next" => loc[p].pc \in Started \ {"next"},
           NEW s \in Pair, spaces' = [spaces EXCEPT ![p] = s], refused' \subseteq refused \cup {p}
    PROVE  TInv'
<1>1. loc' = [loc EXCEPT ![p] = [loc[p] EXCEPT !.pc = to]]
  BY DEF Go, TInv, TypeOK
<1>2. loc[p] \in Locals /\ to \in Pcs
  BY DEF TInv, TypeOK, Started, Running, Cloning, Pcs
<1>3. [loc[p] EXCEPT !.pc = to] \in Locals
  BY <1>2 DEF Locals
<1>4. loc'[p].pc = to /\ loc'[p].index = loc[p].index
  BY <1>1, <1>2 DEF TInv, TypeOK, Locals
<1>5. Bounded(p)'
  BY <1>4 DEF TInv, Bounded, Started, Running, Cloning
<1> QED BY <1>1, <1>3, <1>5, HandlerTyped

LEMMA CloneTyped ==
    ASSUME IInv, TInv, NEW p \in Procs,
           \/ _clone_at_commit(p, "baseline", "clone_baseline", "clone_candidate")
           \/ _clone_at_commit(p, "candidate", "clone_candidate", "condition")
    PROVE  TInv'
<1>1. PICK c \in Conditions, to \in {"clone_candidate", "condition"} :
         /\ Go(p, to) /\ UNCHANGED <<tables, world, refused>>
         /\ loc[p].pc \in {"clone_baseline", "clone_candidate"}
         /\ spaces' = [spaces EXCEPT ![p][c] = Clone(p)]
  BY DEF _clone_at_commit, At, Conditions
<1>2. loc[p].spec \in DOMAIN specs
  BY <1>1 DEF IInv, Handled, Shaped, Started, Cloning
<1>3. Clone(p) \in Spaces
  <2>1. specs[loc[p].spec] \in SpecRows
    BY <1>2 DEF TInv, TypeOK
  <2> QED BY <2>1 DEF Clone, Spaces, SpecRows
<1>4. spaces[p] \in Pair /\ spaces' = [spaces EXCEPT ![p] = [spaces[p] EXCEPT ![c] = Clone(p)]]
  BY <1>1 DEF TInv, TypeOK, Pair
<1>5. [spaces[p] EXCEPT ![c] = Clone(p)] \in Pair
  BY <1>3, <1>4 DEF Pair
<1> QED BY <1>1, <1>4, <1>5, TablesStay, MoveTyped DEF Started, Running, Cloning

\* Isolation, Refuse and Leave.
LEMMA MovesTyped ==
    ASSUME TInv, NEW p \in Procs, Isolation(p) \/ Refuse(p) \/ Leave(p)
    PROVE  TInv'
<1>1. PICK to \in {"error_baseline", "record_failed", "compare"} :
         /\ Go(p, to) /\ UNCHANGED <<tables, world>> /\ loc[p].pc \in Started \ {"next"}
         /\ _remove_workspace(p) \/ UNCHANGED <<spaces, refused>>
  BY DEF Isolation, Refuse, Leave, At, Started, Running, Cloning
<1>2. NoSpaces \in Pair /\ spaces[p] \in Pair
  BY DEF TInv, TypeOK, Pair, NoSpaces
<1>3. /\ spaces' = [spaces EXCEPT ![p] = NoSpaces] \/ spaces' = [spaces EXCEPT ![p] = spaces[p]]
      /\ refused' \subseteq refused \cup {p}
  BY <1>1, OwnWorkspaces DEF TInv, TypeOK
<1> QED BY <1>1, <1>2, <1>3, TablesStay, MoveTyped DEF Started, Running, Cloning

\* The workspace of a condition that runs.
LEMMA SpaceTyped ==
    ASSUME IInv, TInv, NEW p \in Procs, loc[p].pc \in Running
    PROVE  Condition(p) \in Conditions /\ Space(p) \in Spaces /\ specs[loc[p].spec] \in SpecRows
<1>1. Handled(p) /\ loc[p].spec \in DOMAIN specs
  BY DEF IInv, Handled, Shaped, Started
<1>2. Condition(p) \in Conditions
  BY <1>1, OrderHasBoth DEF Handled, Shaped, Condition
<1>3. Fit(p, Condition(p))
  BY <1>1, <1>2 DEF Handled, Provided
<1>4. specs[loc[p].spec] \in SpecRows
  BY <1>1 DEF TInv, TypeOK
<1>5. Space(p) = spaces[p][Condition(p)]
  BY DEF Space, Dir
<1>6. Space(p) \in Spaces
  <2>1. <<loc[p].index, Condition(p)>> \in Nat \X Conditions
    BY <1>2 DEF TInv, TypeOK, Locals
  <2> QED BY <1>3, <1>4, <1>5, <2>1 DEF Fit, Spaces, SpecRows
<1> QED BY <1>2, <1>4, <1>6

LEMMA LaunchTyped == ASSUME IInv, TInv, NEW p \in Procs, Launch(p) PROVE TInv'
<1> DEFINE c == Condition(p)
<1> DEFINE s == [Space(p) EXCEPT
            !.policy = IF c = "candidate" THEN specs[loc[p].spec].content ELSE Space(p).policy,
            !.touched = Space(p).touched \cup {<<loc[p].index, c>>}]
<1> DEFINE d == IF specs[loc[p].spec].agent THEN 0 ELSE 1
<1>1. /\ loc[p].pc = "condition" /\ loc[p] \in Locals /\ Bounded(p) /\ UNCHANGED <<tables, world, refused>>
      /\ loc' = [loc EXCEPT ![p] = [loc[p] EXCEPT !.pc = "waiting", !.passed = {}, !.done = d]]
      /\ spaces' = [spaces EXCEPT ![p][c] = s]
  BY DEF Launch, At, Entered, Dir, TInv, TypeOK
<1>2. c \in Conditions /\ Space(p) \in Spaces /\ specs[loc[p].spec] \in SpecRows
  BY <1>1, SpaceTyped DEF Running
<1>3. s \in Spaces
  <2>1. <<loc[p].index, c>> \in Nat \X Conditions
    BY <1>1, <1>2 DEF Locals
  <2> QED BY <1>2, <2>1 DEF Spaces, SpecRows
<1>4. d \in 0..Len(Checks)
  <2>1. Len(Checks) \in Nat /\ Len(Checks) # 0
    BY ChecksAssumption
  <2> QED BY <2>1
<1> HIDE DEF s, d
<1>5. spaces[p] \in Pair /\ spaces' = [spaces EXCEPT ![p] = [spaces[p] EXCEPT ![c] = s]]
  BY <1>1 DEF TInv, TypeOK, Pair
<1>6. [spaces[p] EXCEPT ![c] = s] \in Pair
  BY <1>2, <1>3, <1>5 DEF Pair
<1>7. [loc[p] EXCEPT !.pc = "waiting", !.passed = {}, !.done = d] \in Locals
  <2>1. d \in 0..Len(Checks) + 1
    BY <1>4, ChecksAssumption
  <2>2. "waiting" \in Pcs /\ {} \in SUBSET Names
    BY DEF Pcs
  <2> QED BY <1>1, <2>1, <2>2 DEF Locals
<1>8. loc'[p].pc = "waiting" /\ loc'[p].index = loc[p].index /\ loc'[p].done = d
  BY <1>1 DEF TInv, TypeOK, Locals
<1>9. Bounded(p)'
  <2>1. Len(Checks) \in Nat
    BY ChecksAssumption
  <2> QED BY <1>1, <1>4, <1>8, <2>1 DEF Bounded, Started, Running
<1> QED BY <1>1, <1>5, <1>6, <1>7, <1>9, TablesStay, HandlerTyped

LEMMA EndedTyped == ASSUME TInv, NEW p \in Procs, NEW ok, Ended(p, ok) PROVE TInv'
<1> DEFINE n == loc[p].done
<1> DEFINE to == IF n = Len(Checks) THEN "record_completed" ELSE "waiting"
<1> DEFINE s == IF ok /\ n > 0 THEN loc[p].passed \cup {Checks[n]} ELSE loc[p].passed
<1>1. /\ loc[p].pc = "waiting" /\ loc[p] \in Locals /\ Bounded(p) /\ UNCHANGED <<tables, world, spaces, refused>>
      /\ loc' = [loc EXCEPT ![p] = [loc[p] EXCEPT !.pc = to, !.done = n + 1, !.passed = s]]
  BY DEF Ended, At, TInv, TypeOK
<1>2. Len(Checks) \in Nat /\ n \in 0..Len(Checks)
  BY <1>1, ChecksAssumption DEF Locals, Bounded
<1>3. s \subseteq Names
  <2>1. n > 0 => Checks[n] \in Names
    BY <1>2, ChecksAssumption DEF Names, Range
  <2> QED BY <1>1, <2>1 DEF Locals
<1>4. to \in {"record_completed", "waiting"} /\ (to = "waiting" => n + 1 <= Len(Checks))
  BY <1>2
<1> HIDE DEF to, s
<1>5. [loc[p] EXCEPT !.pc = to, !.done = n + 1, !.passed = s] \in Locals
  <2>1. n + 1 \in 0..Len(Checks) + 1
    BY <1>2
  <2>2. to \in Pcs /\ s \in SUBSET Names
    BY <1>3, <1>4 DEF Pcs
  <2> QED BY <1>1, <2>1, <2>2 DEF Locals
<1>6. loc'[p].pc = to /\ loc'[p].index = loc[p].index /\ loc'[p].done = n + 1
  BY <1>1 DEF TInv, TypeOK, Locals
<1>7. Bounded(p)'
  BY <1>1, <1>4, <1>6 DEF Bounded, Started, Running
<1>8. spaces[p] \in Pair /\ spaces' = [spaces EXCEPT ![p] = spaces[p]]
  BY <1>1 DEF TInv, TypeOK, Pair
<1> QED BY <1>1, <1>5, <1>7, <1>8, TablesStay, HandlerTyped

\* The row of a handler that stands in a repetition.
LEMMA RowTyped ==
    ASSUME IInv, TInv, NEW p \in Procs, NEW c \in Conditions, NEW status \in RunStatuses,
           loc[p].pc \in Started \ {"next"}, status # "error" => loc[p].pc \in Running,
           runs' = Put(runs, Key(p, c), Row(p, c, status)), UNCHANGED <<specs, comparisons>>
    PROVE  TablesTyped'
<1>1. loc[p] \in Locals /\ Bounded(p) /\ loc[p].spec \in DOMAIN specs
  BY DEF TInv, TypeOK, IInv, Handled, Shaped
<1>2. loc[p].index \in Nat \ {0} /\ loc[p].index <= MaxIndex /\ loc[p].spec \in SpecIds
  BY <1>1 DEF Bounded, Locals, TInv, TypeOK
<1>3. Key(p, c) \in SpecIds \X (Nat \ {0}) \X Conditions /\ Key(p, c)[2] <= MaxIndex
  BY <1>2 DEF Key
<1>4. status # "error" => Space(p) \in Spaces
  BY SpaceTyped
<1>5. PositionOf(p, c) \in {1, 2}
  BY DEF PositionOf
<1>6. loc[p].passed \in SUBSET Names
  BY <1>1 DEF Locals
<1>7. Row(p, c, status) \in RunRows
  BY <1>4, <1>5, <1>6 DEF Row, RunRows
<1>8. /\ DOMAIN runs' \subseteq SpecIds \X (Nat \ {0}) \X Conditions
      /\ \A k \in DOMAIN runs' : runs'[k] \in RunRows
  <2>1. /\ DOMAIN runs \subseteq SpecIds \X (Nat \ {0}) \X Conditions
        /\ \A k \in DOMAIN runs : runs[k] \in RunRows
    BY DEF TInv, TypeOK
  <2> DEFINE Keys == SpecIds \X (Nat \ {0}) \X Conditions
  <2>2. Key(p, c) \in Keys /\ DOMAIN runs \subseteq Keys
    BY <1>3, <2>1
  <2> HIDE DEF Keys
  <2>3. DOMAIN runs' \subseteq Keys /\ \A k \in DOMAIN runs' : runs'[k] \in RunRows
    BY <1>7, <2>1, <2>2, PutTyped
  <2> QED BY <2>3 DEF Keys
<1>9. \A k \in DOMAIN runs' : k[2] <= MaxIndex
  BY <1>3 DEF TInv, Put
<1> QED BY <1>8, <1>9 DEF TInv, TypeOK, TablesTyped

LEMMA RecordTyped ==
    ASSUME IInv, TInv, NEW p \in Procs, NEW c \in Conditions, NEW status \in RunStatuses,
           NEW next \in Locals, record_evaluation_run(p, c, status, next),
           UNCHANGED <<specs, comparisons, world>>,
           loc[p].pc \in Started \ {"next"}, status # "error" => loc[p].pc \in Running,
           next.pc \notin {"waiting", "freeze"}, next.index = loc[p].index
    PROVE  TInv'
<1>1. CASE Key(p, c) \in DOMAIN runs
  <2>1. Die(p) /\ UNCHANGED <<tables, world>>
    BY <1>1 DEF record_evaluation_run, tables
  <2>2. loc' = [loc EXCEPT ![p] = [Idle EXCEPT !.pc = "idle"]]
    BY <2>1 DEF Die, Idle
  <2> QED BY <2>1, <2>2, EndsTyped
<1>2. CASE Key(p, c) \notin DOMAIN runs
  <2>1. /\ runs' = Put(runs, Key(p, c), Row(p, c, status))
        /\ loc' = [loc EXCEPT ![p] = next] /\ UNCHANGED <<spaces, refused>>
    BY <1>2 DEF record_evaluation_run
  <2>2. TablesTyped'
    BY <2>1, RowTyped
  <2>3. spaces[p] \in Pair /\ spaces' = [spaces EXCEPT ![p] = spaces[p]]
    BY <2>1 DEF TInv, TypeOK, Pair
  <2>4. loc'[p] = next
    BY <2>1 DEF TInv, TypeOK
  <2>5. Bounded(p)'
    BY <2>4 DEF TInv, Bounded
  <2> QED BY <2>1, <2>2, <2>3, <2>5, HandlerTyped
<1> QED BY <1>1, <1>2

LEMMA RecordsTyped == ASSUME IInv, TInv, NEW p \in Procs, Record(p) \/ RecordErrors(p) PROVE TInv'
<1>1. CASE Record(p)
  <2> DEFINE to == IF loc[p].position = 2 THEN "leave" ELSE "condition"
  <2> DEFINE next == [loc[p] EXCEPT !.pc = to, !.position = 2, !.done = 0, !.passed = {}]
  <2> DEFINE status == IF At(p, "record_completed") THEN "completed" ELSE "failed"
  <2>1. /\ loc[p].pc \in Running /\ loc[p] \in Locals /\ UNCHANGED <<specs, comparisons, world>>
        /\ record_evaluation_run(p, Condition(p), status, next)
    BY <1>1 DEF Record, Running, TInv, TypeOK
  <2>2. Condition(p) \in Conditions
    BY <2>1, SpaceTyped
  <2>3. next \in Locals /\ next.pc \in {"leave", "condition"} /\ next.index = loc[p].index
    <3>1. to \in Pcs /\ 0 \in 0..Len(Checks) + 1
      BY ChecksAssumption DEF Pcs
    <3> QED BY <2>1, <3>1 DEF Locals
  <2>4. status \in RunStatuses /\ status # "error"
    BY DEF RunStatuses
  <2> HIDE DEF next, status
  <2>5. Running \subseteq Started \ {"next"}
    BY DEF Running, Started
  <2> QED BY <2>1, <2>2, <2>3, <2>4, <2>5, RecordTyped
<1>2. CASE RecordErrors(p)
  <2>1. PICK c \in Conditions, to \in {"error_candidate", "compare"} :
           /\ record_evaluation_run(p, c, "error", [loc[p] EXCEPT !.pc = to])
           /\ loc[p].pc \in {"error_baseline", "error_candidate"}
           /\ UNCHANGED <<specs, comparisons, world>>
    BY <1>2 DEF RecordErrors, At, Conditions
  <2>2. loc[p] \in Locals /\ to \in Pcs
    BY DEF TInv, TypeOK, Pcs
  <2>3. [loc[p] EXCEPT !.pc = to] \in Locals
    BY <2>2 DEF Locals
  <2>4. /\ [loc[p] EXCEPT !.pc = to].pc = to /\ [loc[p] EXCEPT !.pc = to].index = loc[p].index
        /\ "error" \in RunStatuses /\ loc[p].pc \in Started \ {"next"}
    BY <2>1, <2>2 DEF Locals, RunStatuses, Started
  <2> QED BY <2>1, <2>3, <2>4, RecordTyped
<1> QED BY <1>1, <1>2

LEMMA ComparisonTyped == ASSUME IInv, TInv, NEW p \in Procs, record_evaluation_comparison(p) PROVE TInv'
<1>1. loc[p].pc = "compare" /\ UNCHANGED <<specs, runs, world>>
  BY DEF record_evaluation_comparison, At
<1>2. CASE Cell(p) \in DOMAIN comparisons
  <2>1. Die(p) /\ UNCHANGED <<tables, world>>
    BY <1>1, <1>2 DEF record_evaluation_comparison, tables
  <2>2. loc' = [loc EXCEPT ![p] = [Idle EXCEPT !.pc = "idle"]]
    BY <2>1 DEF Die, Idle
  <2> QED BY <2>1, <2>2, EndsTyped
<1>3. CASE Cell(p) \notin DOMAIN comparisons
  <2> DEFINE b == runs[Key(p, "baseline")]
  <2> DEFINE c == runs[Key(p, "candidate")]
  <2>1. /\ Go(p, "next") /\ UNCHANGED <<spaces, refused>>
        /\ comparisons' = Put(comparisons, Cell(p), Judged(p, compare_runs(b, c)))
    BY <1>3 DEF record_evaluation_comparison
  <2>2. Ours(p, "baseline")
    BY <1>1 DEF IInv, Handled, Paired, Conditions
  <2>3. b \in RunRows
    BY <2>2 DEF TInv, TypeOK, Ours
  <2>4. b.passed \in SUBSET Names
    BY <2>3 DEF RunRows
  <2>5. compare_runs(b, c).outcome \in Outcomes /\ compare_runs(b, c).regressions \in SUBSET Names
    BY <2>4 DEF compare_runs, Regressions, Outcomes
  <2>6. Judged(p, compare_runs(b, c)) \in ComparisonRows
    BY <2>5 DEF Judged, ComparisonRows
  <2>7. loc[p] \in Locals /\ Bounded(p) /\ loc[p].spec \in DOMAIN specs
    BY <1>1 DEF TInv, TypeOK, IInv, Handled, Shaped, Started
  <2>8. Cell(p) \in SpecIds \X (Nat \ {0})
    <3>1. loc[p].index \in Nat \ {0} /\ loc[p].spec \in SpecIds
      BY <1>1, <2>7 DEF Bounded, Locals, Started, TInv, TypeOK
    <3> QED BY <3>1 DEF Cell
  <2>9. /\ DOMAIN comparisons' \subseteq SpecIds \X (Nat \ {0})
        /\ \A k \in DOMAIN comparisons' : comparisons'[k] \in ComparisonRows
    <3> DEFINE Cells == SpecIds \X (Nat \ {0})
    <3>1. DOMAIN comparisons \subseteq Cells /\ \A k \in DOMAIN comparisons : comparisons[k] \in ComparisonRows
      BY DEF TInv, TypeOK
    <3>2. PICK row \in ComparisonRows : comparisons' = Put(comparisons, Cell(p), row)
      BY <2>1, <2>6
    <3>3. Cell(p) \in Cells
      BY <2>8
    <3> HIDE DEF Cells
    <3>4. DOMAIN comparisons' \subseteq Cells /\ \A k \in DOMAIN comparisons' : comparisons'[k] \in ComparisonRows
      BY <3>1, <3>2, <3>3, PutTyped
    <3> QED BY <3>4 DEF Cells
  <2>10. TablesTyped'
    BY <1>1, <2>9 DEF TInv, TypeOK, TablesTyped
  <2>11. spaces[p] \in Pair /\ spaces' = [spaces EXCEPT ![p] = spaces[p]]
    BY <2>1 DEF TInv, TypeOK, Pair
  <2> QED BY <1>1, <2>1, <2>10, <2>11, MoveTyped DEF Started
<1> QED BY <1>2, <1>3

LEMMA OutsideTyped == ASSUME TInv, Outside PROVE TInv'
<1>1. UNCHANGED <<tables, spaces, refused, loc>>
  BY DEF Outside
<1>2. /\ review' \in [status : {"accepted", "edited"} \cup Decisions,
                      revision : Nat, content : Texts, stale : BOOLEAN]
      /\ written' \in Seq(Texts)
  <2>1. /\ review \in [status : {"accepted", "edited"} \cup Decisions,
                       revision : Nat, content : Texts, stale : BOOLEAN]
        /\ written \in Seq(Texts)
    BY DEF TInv, TypeOK
  <2>2. CASE UNCHANGED <<review, written>>
    BY <2>1, <2>2
  <2>3. ASSUME NEW t \in Texts, written' = Append(written, t),
               review' = [review EXCEPT !.status = "edited", !.content = t, !.revision = review.revision + 1]
        PROVE  /\ review' \in [status : {"accepted", "edited"} \cup Decisions,
                               revision : Nat, content : Texts, stale : BOOLEAN]
               /\ written' \in Seq(Texts)
    <3> DEFINE n == review.revision + 1
    <3>1. n \in Nat
      BY <2>1
    <3>2. review' = [review EXCEPT !.status = "edited", !.content = t, !.revision = n]
      BY <2>3
    <3> HIDE DEF n
    <3>3. review' \in [status : {"accepted", "edited"} \cup Decisions,
                       revision : Nat, content : Texts, stale : BOOLEAN]
      BY <2>1, <3>1, <3>2
    <3>4. Append(written, t) \in Seq(Texts)
      BY <2>1
    <3> QED BY <2>3, <3>3, <3>4
  <2>4. CASE UNCHANGED written /\ \E s \in Decisions : review' = [review EXCEPT !.status = s]
    BY <2>1, <2>4
  <2>5. CASE UNCHANGED written /\ review' = [review EXCEPT !.stale = TRUE]
    BY <2>1, <2>5
  <2> QED BY <2>2, <2>3, <2>4, <2>5 DEF Outside, Reviewed
<1>4. source' \in [head : Commits, held : SUBSET Commits, present : BOOLEAN]
  BY DEF Outside, SourceChanges, TInv, TypeOK
<1> QED BY <1>1, <1>2, <1>4 DEF TInv, TypeOK, Bounded, tables

LEMMA TypesAreInductive == ASSUME IInv, TInv, [Next]_vars PROVE TInv'
<1>1. ASSUME NEW p \in Procs, Unresolved(p) \/ Return(p) \/ Undecodable(p) \/ Crash(p) PROVE TInv'
  <2>1. /\ UNCHANGED <<tables, world>> /\ (Die(p) \/ UNCHANGED <<spaces, refused>>)
        /\ \E pc \in {"idle", "killed"} : loc' = [loc EXCEPT ![p] = [Idle EXCEPT !.pc = pc]]
    BY <1>1 DEF Unresolved, Return, Undecodable, Crash, Die, Idle
  <2> QED BY <2>1, EndsTyped
<1>2. ASSUME NEW p \in Procs, Exits(p) \/ TimesOut(p) PROVE TInv'
  <2>1. PICK ok : Ended(p, ok)
    BY <1>2 DEF Exits, TimesOut
  <2> QED BY <2>1, EndedTyped
<1>3. ASSUME NEW p \in Procs, Step(p) PROVE TInv'
  BY <1>1, <1>2, <1>3, CreationTyped, RepetitionTyped, CloneTyped, MovesTyped, LaunchTyped,
     RecordsTyped, ComparisonTyped DEF Step
<1>4. CASE UNCHANGED vars
  BY <1>4 DEF vars, tables, world, TInv, TypeOK, Bounded
<1> QED BY <1>1, <1>2, <1>3, <1>4, RequestTyped, OutsideTyped DEF Next

LEMMA TypesHold == Spec => []TInv
<1>1. Init => TInv
  BY TypesInitially
<1>2. IInv /\ TInv /\ [Next]_vars => TInv'
  BY TypesAreInductive
<1> QED BY <1>1, <1>2, IInvHolds, PTL DEF Spec

\* Whatever any number of processes do at once, rows, workspaces and locals
\* have their types and repetitions count from 1 (0006_evaluation.sql,
\* next_evaluation_repetition).
THEOREM TypesOfEvaluation == Spec => []TypeOK
<1>1. TInv => TypeOK
  BY DEF TInv
<1> QED BY <1>1, TypesHold, PTL

-----------------------------------------------------------------------------
\* What was frozen is one revision.

\* A content as the history knows it.
Written(revision, content) == revision \in DOMAIN written /\ content = written[revision]

RInv ==
    /\ review.revision = Len(written) /\ Written(review.revision, review.content)
    /\ \A p \in Procs : loc[p].pc = "freeze" => Written(loc[p].frozen.revision, loc[p].frozen.content)
    /\ SpecIsOneRevision

LEMMA FrozenInitially == ASSUME Init PROVE RInv
<1>1. DOMAIN specs = {} /\ \A p \in Procs : loc[p].pc = "idle"
  BY DEF Init, Idle
<1>2. review.revision = Len(written) /\ Written(review.revision, review.content)
  BY DEF Init, Written
<1> QED BY <1>1, <1>2 DEF RInv, SpecIsOneRevision

\* A step of a handler that is not being asked for an evaluation leaves the
\* others alone, and it has nothing frozen in its locals afterwards.
LEMMA HandlerMoves ==
    ASSUME TInv, NEW p \in Procs, Step(p) \/ Exits(p) \/ Undecodable(p) \/ Crash(p)
    PROVE  /\ loc' = [loc EXCEPT ![p] = loc'[p]] /\ loc'[p].pc # "freeze"
           /\ UNCHANGED world
<1>1. loc \in [Procs -> Locals] /\ loc[p] \in Locals
  BY DEF TInv, TypeOK
<1>2. CASE Unresolved(p) \/ Return(p) \/ Undecodable(p) \/ Crash(p)
  BY <1>1, <1>2 DEF Unresolved, Return, Undecodable, Crash, Die, Idle
<1>3. CASE create_spec(p)
  BY <1>1, <1>3 DEF create_spec, Locals
<1>4. CASE next_evaluation_repetition(p)
  BY <1>1, <1>4 DEF next_evaluation_repetition, Locals
<1>5. ASSUME NEW to, Go(p, to), to # "freeze"
      PROVE  loc' = [loc EXCEPT ![p] = loc'[p]] /\ loc'[p].pc # "freeze"
  BY <1>1, <1>5 DEF Go, Locals
<1>6. CASE \/ _clone_at_commit(p, "baseline", "clone_baseline", "clone_candidate")
           \/ _clone_at_commit(p, "candidate", "clone_candidate", "condition")
           \/ Isolation(p) \/ Refuse(p) \/ Leave(p)
  BY <1>5, <1>6 DEF _clone_at_commit, Isolation, Refuse, Leave
<1>7. CASE Launch(p)
  BY <1>1, <1>7 DEF Launch, Locals
<1>8. CASE Exits(p) \/ TimesOut(p)
  <2>1. PICK ok : Ended(p, ok)
    BY <1>8 DEF Exits, TimesOut
  <2>2. PICK to \in {"record_completed", "waiting"} : \E d, s :
           loc' = [loc EXCEPT ![p] = [loc[p] EXCEPT !.pc = to, !.done = d, !.passed = s]]
    BY <2>1 DEF Ended
  <2> QED BY <1>1, <2>1, <2>2 DEF Ended, Locals
<1>9. ASSUME NEW c, NEW status, NEW next, next.pc # "freeze", record_evaluation_run(p, c, status, next)
      PROVE  loc' = [loc EXCEPT ![p] = loc'[p]] /\ loc'[p].pc # "freeze"
  BY <1>1, <1>9 DEF record_evaluation_run, Die, Idle
<1>10. CASE Record(p)
  <2> DEFINE next == [loc[p] EXCEPT !.pc = IF loc[p].position = 2 THEN "leave" ELSE "condition",
                                    !.position = 2, !.done = 0, !.passed = {}]
  <2>1. next.pc # "freeze"
    BY <1>1 DEF Locals
  <2> QED BY <1>9, <1>10, <2>1 DEF Record
<1>11. CASE RecordErrors(p)
  <2>1. \A to : [loc[p] EXCEPT !.pc = to].pc = to
    BY <1>1 DEF Locals
  <2> QED BY <1>9, <1>11, <2>1 DEF RecordErrors
<1>12. CASE record_evaluation_comparison(p)
  BY <1>1, <1>5, <1>12 DEF record_evaluation_comparison, Die, Idle
<1>13. UNCHANGED world
  BY DEF Step, Unresolved, Return, Undecodable, Crash, create_spec, next_evaluation_repetition,
         _clone_at_commit, Isolation, Refuse, Leave, Launch, Exits, TimesOut, Ended,
         Record, RecordErrors, record_evaluation_comparison
<1> QED BY <1>2, <1>3, <1>4, <1>6, <1>7, <1>8, <1>10, <1>11, <1>12, <1>13 DEF Step

LEMMA FrozenIsInductive == ASSUME TInv, RInv, [Next]_vars PROVE RInv'
<1>1. /\ loc \in [Procs -> Locals] /\ review.revision \in Nat /\ written \in Seq(Texts)
      /\ \A p \in Procs : loc[p].pc = "freeze" => Written(loc[p].frozen.revision, loc[p].frozen.content)
  BY DEF TInv, TypeOK, RInv
<1>2. ASSUME UNCHANGED <<specs, world>>,
             NEW p \in Procs, loc' = [loc EXCEPT ![p] = loc'[p]],
             loc'[p].pc = "freeze" => Written(loc'[p].frozen.revision, loc'[p].frozen.content)
      PROVE  RInv'
  <2>1. \A q \in Procs : loc'[q].pc = "freeze" => Written(loc'[q].frozen.revision, loc'[q].frozen.content)
    BY <1>1, <1>2
  <2> QED BY <1>2, <2>1 DEF RInv, Written, SpecIsOneRevision, world
<1>3. ASSUME NEW p \in Procs, cmd_eval_run(p) PROVE RInv'
  <2>1. PICK id, mode, n : read_review(p, id, mode, n) \/ rerun(p, id, n)
    BY <1>3 DEF cmd_eval_run
  <2>2. UNCHANGED <<specs, world>>
    BY <1>3 DEF cmd_eval_run, tables
  <2>3. loc' = [loc EXCEPT ![p] = loc'[p]]
    BY <1>1, <2>1 DEF read_review, rerun
  <2>4. loc'[p].pc = "freeze" => /\ loc'[p].frozen.revision = review.revision
                                 /\ loc'[p].frozen.content = review.content
    <3>1. CASE rerun(p, id, n)
      BY <1>1, <3>1 DEF rerun, Idle
    <3>2. CASE read_review(p, id, mode, n)
      <4> DEFINE f == [content |-> review.content, revision |-> review.revision]
      <4>1. loc'[p] = [Idle EXCEPT !.pc = "freeze", !.spec = id, !.mode = mode, !.left = n, !.frozen = f]
        BY <1>1, <3>2 DEF read_review
      <4>2. f.revision = review.revision /\ f.content = review.content
        OBVIOUS
      <4> HIDE DEF f
      <4>3. loc'[p].frozen = f
        BY <4>1 DEF Idle
      <4> QED BY <4>2, <4>3
    <3> QED BY <2>1, <3>1, <3>2
  <2> QED BY <1>2, <2>2, <2>3, <2>4 DEF RInv
<1>4. ASSUME NEW p \in Procs, create_spec(p) PROVE RInv'
  <2>1. /\ loc[p].pc = "freeze" /\ UNCHANGED world
        /\ loc' = [loc EXCEPT ![p] = loc'[p]] /\ loc'[p].pc # "freeze"
    BY <1>4, HandlerMoves DEF create_spec, At, Step
  <2>2. PICK row : /\ specs' = Put(specs, loc[p].spec, row)
                   /\ row.revision = loc[p].frozen.revision /\ row.content = loc[p].frozen.content
    BY <1>4 DEF create_spec
  <2>3. Written(row.revision, row.content)
    BY <1>1, <2>1, <2>2
  <2>4. \A id \in DOMAIN specs' : Written(specs'[id].revision, specs'[id].content)
    BY <2>2, <2>3 DEF Put, RInv, SpecIsOneRevision, Written
  <2>5. \A q \in Procs : loc'[q].pc = "freeze" => Written(loc'[q].frozen.revision, loc'[q].frozen.content)
    BY <1>1, <2>1
  <2> QED BY <2>1, <2>4, <2>5 DEF RInv, Written, SpecIsOneRevision, world
<1>5. ASSUME NEW p \in Procs, Step(p) \/ Exits(p) \/ Undecodable(p) \/ Crash(p), ~ create_spec(p) PROVE RInv'
  <2>1. UNCHANGED specs
    BY <1>5 DEF Step, Unresolved, Return, Undecodable, Crash, next_evaluation_repetition, tables,
         _clone_at_commit, Isolation, Refuse, Leave, Launch, Exits, TimesOut, Ended,
         Record, RecordErrors, record_evaluation_comparison
  <2>2. UNCHANGED world /\ loc' = [loc EXCEPT ![p] = loc'[p]] /\ loc'[p].pc # "freeze"
    BY <1>5, HandlerMoves
  <2> QED BY <1>2, <2>1, <2>2
<1>6. CASE Outside
  <2>1. UNCHANGED <<specs, loc>>
    BY <1>6 DEF Outside, tables
  <2>2. (UNCHANGED written /\ review'.revision = review.revision /\ review'.content = review.content)
        \/ \E t \in Texts : /\ written' = Append(written, t)
                            /\ review'.revision = review.revision + 1 /\ review'.content = t
    BY <1>6 DEF Outside, Reviewed, TInv, TypeOK
  <2>3. CASE UNCHANGED written /\ review'.revision = review.revision /\ review'.content = review.content
    BY <2>1, <2>3 DEF RInv, Written, SpecIsOneRevision
  <2>4. ASSUME NEW t \in Texts, written' = Append(written, t),
               review'.revision = review.revision + 1, review'.content = t
        PROVE  RInv'
    <3>1. /\ Len(written') = Len(written) + 1 /\ written'[Len(written) + 1] = t
          /\ \A i \in DOMAIN written : i \in DOMAIN written' /\ written'[i] = written[i]
      BY <1>1, <2>4
    <3>2. \A r, c : Written(r, c) => Written(r, c)'
      BY <3>1 DEF Written
    <3>3. review'.revision = Len(written') /\ Written(review.revision, review.content)'
      BY <1>1, <2>4, <3>1 DEF RInv, Written
    <3> QED BY <2>1, <3>2, <3>3 DEF RInv, Written, SpecIsOneRevision
  <2> QED BY <2>2, <2>3, <2>4
<1>7. CASE UNCHANGED vars
  BY <1>7 DEF vars, tables, world, RInv, Written, SpecIsOneRevision
<1> QED BY <1>3, <1>4, <1>5, <1>6, <1>7 DEF Next, Step

\* The content an evaluation tries is the one of the revision it names,
\* although others edit the review between the reading and the row (create_spec).
THEOREM SpecsAreOneRevision == Spec => []SpecIsOneRevision
<1>1. Init => RInv
  BY FrozenInitially
<1>2. TInv /\ RInv /\ [Next]_vars => RInv'
  BY FrozenIsInductive
<1>3. RInv => SpecIsOneRevision
  BY DEF RInv
<1> QED BY <1>1, <1>2, <1>3, TypesHold, PTL DEF Spec

-----------------------------------------------------------------------------
\* What a comparison says of its rows.

JInv ==
    \A k \in DOMAIN comparisons :
        comparisons[k] = Judged(comparisons[k].by,
                                compare_runs(runs[RunOf(k, "baseline")], runs[RunOf(k, "candidate")]))

\* Only the end of a condition and the handler of IsolationError write rows.
LEMMA RowsStay ==
    ASSUME NEW p \in Procs, Step(p) \/ Exits(p) \/ Undecodable(p) \/ Crash(p) \/ cmd_eval_run(p)
    PROVE  \/ UNCHANGED runs
           \/ UNCHANGED comparisons /\ \A k \in DOMAIN runs : k \in DOMAIN runs' /\ runs'[k] = runs[k]
<1>1. ASSUME NEW c, NEW status, NEW next, record_evaluation_run(p, c, status, next)
      PROVE  UNCHANGED runs \/ \A k \in DOMAIN runs : k \in DOMAIN runs' /\ runs'[k] = runs[k]
  BY <1>1, RowPut DEF record_evaluation_run
<1>2. CASE Record(p) \/ RecordErrors(p)
  BY <1>1, <1>2 DEF Record, RecordErrors
<1>3. CASE ~ (Record(p) \/ RecordErrors(p))
  BY <1>3 DEF Step, Unresolved, Return, Undecodable, Crash, create_spec, next_evaluation_repetition, tables,
         _clone_at_commit, Isolation, Refuse, Leave, Launch, Exits, TimesOut, Ended,
         record_evaluation_comparison, cmd_eval_run
<1> QED BY <1>2, <1>3

LEMMA OnlyCompareJudges ==
    ASSUME NEW p \in Procs, Step(p) \/ Exits(p) \/ Undecodable(p) \/ Crash(p) \/ cmd_eval_run(p),
           ~ record_evaluation_comparison(p)
    PROVE  UNCHANGED comparisons
BY DEF Step, Unresolved, Return, Undecodable, Crash, create_spec, next_evaluation_repetition, tables,
       _clone_at_commit, Isolation, Refuse, Leave, Launch, Exits, TimesOut, Ended,
       Record, RecordErrors, cmd_eval_run

LEMMA JudgementsAreInductive == ASSUME IInv, JInv, [Next]_vars PROVE JInv'
<1>1. \A k \in DOMAIN comparisons : \A c \in Conditions : RunOf(k, c) \in DOMAIN runs
  BY DEF IInv, OnePairOneHandler
<1>2. ASSUME UNCHANGED comparisons, \A k \in DOMAIN runs : k \in DOMAIN runs' /\ runs'[k] = runs[k]
      PROVE  JInv'
  BY <1>1, <1>2 DEF JInv, RunOf, Conditions
<1>3. ASSUME NEW p \in Procs, record_evaluation_comparison(p) PROVE JInv'
  <2>1. CASE Cell(p) \in DOMAIN comparisons
    BY <1>2, <1>3, <2>1 DEF record_evaluation_comparison
  <2>2. CASE Cell(p) \notin DOMAIN comparisons
    <3> DEFINE row == Judged(p, compare_runs(runs[Key(p, "baseline")], runs[Key(p, "candidate")]))
    <3>1. comparisons' = Put(comparisons, Cell(p), row) /\ UNCHANGED runs
      BY <1>3, <2>2 DEF record_evaluation_comparison
    <3>2. /\ comparisons'[Cell(p)] = row
          /\ \A k \in DOMAIN comparisons : comparisons'[k] = comparisons[k]
          /\ \A k \in DOMAIN comparisons' : k \in DOMAIN comparisons \/ k = Cell(p)
      BY <2>2, <3>1, RowPut
    <3>3. row.by = p /\ \A c : RunOf(Cell(p), c) = Key(p, c)
      BY DEF Judged, RunOf, Cell, Key
    <3>4. row = Judged(row.by, compare_runs(runs[RunOf(Cell(p), "baseline")], runs[RunOf(Cell(p), "candidate")]))
      BY <3>3
    <3> HIDE DEF row
    <3> QED BY <3>1, <3>2, <3>4 DEF JInv, RunOf
  <2> QED BY <2>1, <2>2
<1>4. ASSUME NEW p \in Procs, Step(p) \/ Exits(p) \/ Undecodable(p) \/ Crash(p) \/ cmd_eval_run(p) PROVE JInv'
  BY <1>2, <1>3, <1>4, RowsStay, OnlyCompareJudges
<1>5. CASE Outside \/ UNCHANGED vars
  BY <1>2, <1>5 DEF Outside, vars, tables
<1> QED BY <1>4, <1>5 DEF Next

LEMMA RegressionsShow == ASSUME IInv, TInv, JInv PROVE NoHiddenRegression
<1>1. SUFFICES ASSUME NEW k \in DOMAIN comparisons, comparisons[k].outcome # "invalid"
               PROVE  LET b == runs[RunOf(k, "baseline")]
                          c == runs[RunOf(k, "candidate")]
                          lost == {n \in Names : n \in b.passed /\ n \notin c.passed}
                      IN /\ b.status = "completed" /\ c.status = "completed"
                         /\ comparisons[k].regressions = lost
                         /\ lost # {} => comparisons[k].outcome # "unchanged"
                         /\ comparisons[k].outcome = "improved" => Primary \in c.passed
  BY DEF NoHiddenRegression
<1> DEFINE b == runs[RunOf(k, "baseline")]
<1> DEFINE c == runs[RunOf(k, "candidate")]
<1>2. RunOf(k, "baseline") \in DOMAIN runs
  BY DEF IInv, OnePairOneHandler, Conditions
<1>3. b.passed \subseteq Names
  BY <1>2 DEF TInv, TypeOK, RunRows
<1>4. {n \in Names : n \in b.passed /\ n \notin c.passed} = Regressions(b, c)
  BY <1>3 DEF Regressions
<1>5. /\ comparisons[k].outcome = compare_runs(b, c).outcome
      /\ comparisons[k].regressions = compare_runs(b, c).regressions
  BY DEF JInv, Judged
<1>6. /\ compare_runs(b, c).outcome # "invalid" =>
             /\ b.status = "completed" /\ c.status = "completed"
             /\ compare_runs(b, c).regressions = Regressions(b, c)
             /\ Regressions(b, c) # {} => compare_runs(b, c).outcome # "unchanged"
             /\ compare_runs(b, c).outcome = "improved" => Primary \in c.passed
  BY DEF compare_runs, Regressions
<1> QED BY <1>1, <1>4, <1>5, <1>6

\* Whoever runs the repetition, in whatever order, and whatever its verifiers
\* said: a check that the candidate lost is in the comparison, and keeps the
\* pair from counting as unchanged (compare.py:4-8).
THEOREM RegressionsAreReported == Spec => []NoHiddenRegression
<1>1. Init => JInv
  BY DEF Init, JInv
<1>2. IInv /\ JInv /\ [Next]_vars => JInv'
  BY JudgementsAreInductive
<1>3. IInv /\ TInv /\ JInv => NoHiddenRegression
  BY RegressionsShow
<1> QED BY <1>1, <1>2, <1>3, IInvHolds, TypesHold, PTL DEF Spec

-----------------------------------------------------------------------------
\* The workspaces.

\* Where a handler may have workspaces.
Keeping == Within \cup {"killed"}

\* What a handler has is within the block, left by a kill, or was refused.
Tended(p) == spaces[p] # NoSpaces => loc[p].pc \in Keeping \/ p \in refused

LEMMA RemovalIsInductive == ASSUME TInv, WorkspacesRemoved, [Next]_vars PROVE WorkspacesRemoved'
<1>1. /\ loc \in [Procs -> Locals] /\ spaces \in [Procs -> Pair]
      /\ \A p \in Procs : Tended(p)
  BY DEF TInv, TypeOK, Pair, WorkspacesRemoved, Tended, Keeping
<1>2. ASSUME NEW p \in Procs, loc' = [loc EXCEPT ![p] = loc'[p]], spaces' = [spaces EXCEPT ![p] = spaces'[p]],
             refused \ {p} \subseteq refused', Tended(p)'
      PROVE  WorkspacesRemoved'
  <2>1. \A q \in Procs \ {p} : loc'[q] = loc[q] /\ spaces'[q] = spaces[q]
    BY <1>1, <1>2
  <2>2. \A q \in Procs : Tended(q)'
    BY <1>1, <1>2, <2>1 DEF Tended
  <2> QED BY <2>2 DEF WorkspacesRemoved, Tended, Keeping
<1>3. ASSUME NEW p \in Procs, loc' = [loc EXCEPT ![p] = loc'[p]], mkdtemp(p) \/ _remove_workspace(p)
      PROVE  WorkspacesRemoved'
  <2>1. spaces' = [spaces EXCEPT ![p] = spaces'[p]] /\ refused \ {p} \subseteq refused'
    BY <1>1, <1>3 DEF mkdtemp, _remove_workspace
  <2>2. spaces'[p] = NoSpaces \/ p \in refused'
    BY <1>1, <1>3 DEF mkdtemp, _remove_workspace
  <2> QED BY <1>2, <1>3, <2>1, <2>2 DEF Tended
<1>4. ASSUME NEW p \in Procs, loc' = [loc EXCEPT ![p] = loc'[p]], UNCHANGED refused,
             spaces' = [spaces EXCEPT ![p] = spaces'[p]], loc'[p].pc \in Keeping
      PROVE  WorkspacesRemoved'
  BY <1>2, <1>4 DEF Tended
<1>5. ASSUME NEW p \in Procs, loc' = [loc EXCEPT ![p] = loc'[p]], UNCHANGED <<spaces, refused>>,
             loc[p].pc \notin Keeping
      PROVE  WorkspacesRemoved'
  <2>1. spaces' = [spaces EXCEPT ![p] = spaces'[p]] /\ Tended(p)
    BY <1>1, <1>5
  <2> QED BY <1>2, <1>5, <2>1 DEF Tended
<1>6. ASSUME NEW p \in Procs, Die(p), loc[p].pc # "killed" PROVE WorkspacesRemoved'
  <2>1. loc' = [loc EXCEPT ![p] = loc'[p]]
    BY <1>1, <1>6 DEF Die
  <2> QED BY <1>3, <1>5, <1>6, <2>1 DEF Die, Keeping
<1>7. ASSUME NEW p \in Procs, cmd_eval_run(p) PROVE WorkspacesRemoved'
  <2>1. loc' = [loc EXCEPT ![p] = loc'[p]]
    BY <1>1, <1>7 DEF cmd_eval_run, read_review, rerun
  <2> QED BY <1>3, <1>7, <2>1 DEF cmd_eval_run
<1>8. ASSUME NEW p \in Procs, Step(p) \/ Exits(p) \/ Undecodable(p) \/ Crash(p) PROVE WorkspacesRemoved'
  <2>1. loc' = [loc EXCEPT ![p] = loc'[p]]
    BY <1>8, HandlerMoves
  <2>2. UNCHANGED spaces => spaces' = [spaces EXCEPT ![p] = spaces'[p]]
    BY <1>1
  <2>3. \A to : Go(p, to) => loc'[p].pc = to
    BY <1>1 DEF Go, Locals
  <2>4. CASE Unresolved(p) \/ Undecodable(p)
    BY <1>6, <2>4 DEF Unresolved, Undecodable, At
  <2>5. CASE Isolation(p) \/ Leave(p) \/ next_evaluation_repetition(p)
    BY <1>3, <2>1, <2>5 DEF Isolation, Leave, next_evaluation_repetition
  <2>6. CASE create_spec(p) \/ Return(p)
    BY <1>5, <2>1, <2>6 DEF create_spec, Return, At, Keeping, Within
  <2>7. CASE \/ _clone_at_commit(p, "baseline", "clone_baseline", "clone_candidate")
             \/ _clone_at_commit(p, "candidate", "clone_candidate", "condition")
    <3>1. spaces' = [spaces EXCEPT ![p] = spaces'[p]]
      BY <1>1, <2>7 DEF _clone_at_commit
    <3> QED BY <1>4, <2>1, <2>3, <2>7, <3>1 DEF _clone_at_commit, Keeping, Within
  <2>8. CASE Launch(p)
    <3>1. spaces' = [spaces EXCEPT ![p] = spaces'[p]]
      BY <1>1, <2>8 DEF Launch, Entered
    <3>2. loc'[p].pc = "waiting"
      BY <1>1, <2>8 DEF Launch, Locals
    <3> QED BY <1>4, <2>1, <2>8, <3>1, <3>2 DEF Launch, Keeping, Within
  <2>9. CASE Refuse(p)
    BY <1>4, <2>1, <2>2, <2>3, <2>9 DEF Refuse, Keeping, Within
  <2>10. CASE Exits(p) \/ TimesOut(p)
    <3>1. PICK ok : Ended(p, ok)
      BY <2>10 DEF Exits, TimesOut
    <3>2. PICK to \in {"record_completed", "waiting"} : \E d, s :
             loc' = [loc EXCEPT ![p] = [loc[p] EXCEPT !.pc = to, !.done = d, !.passed = s]]
      BY <3>1 DEF Ended
    <3>3. loc'[p].pc = to
      BY <1>1, <3>2 DEF Locals
    <3> QED BY <1>4, <2>1, <2>2, <3>1, <3>3 DEF Ended, Keeping, Within
  <2>11. CASE Record(p)
    <3> DEFINE next == [loc[p] EXCEPT !.pc = IF loc[p].position = 2 THEN "leave" ELSE "condition",
                                      !.position = 2, !.done = 0, !.passed = {}]
    <3>1. next.pc \in {"leave", "condition"}
      BY <1>1 DEF Locals
    <3>2. Die(p) \/ (loc' = [loc EXCEPT ![p] = next] /\ UNCHANGED <<spaces, refused>>)
      BY <2>11 DEF Record, record_evaluation_run
    <3> HIDE DEF next
    <3>3. CASE Die(p)
      BY <1>6, <2>11, <3>3 DEF Record
    <3>4. CASE loc' = [loc EXCEPT ![p] = next] /\ UNCHANGED <<spaces, refused>>
      <4>1. loc'[p].pc \in Keeping
        BY <1>1, <3>1, <3>4 DEF Keeping, Within
      <4> QED BY <1>4, <2>1, <2>2, <3>4, <4>1
    <3> QED BY <3>2, <3>3, <3>4
  <2>12. CASE RecordErrors(p) \/ record_evaluation_comparison(p)
    <3>1. loc[p].pc \notin Keeping
      BY <2>12 DEF RecordErrors, record_evaluation_comparison, At, Keeping, Within
    <3>2. Die(p) \/ UNCHANGED <<spaces, refused>>
      BY <2>12 DEF RecordErrors, record_evaluation_run, record_evaluation_comparison
    <3> QED BY <1>5, <1>6, <2>1, <3>1, <3>2 DEF Keeping
  <2>13. CASE Crash(p)
    <3>1. loc'[p].pc = "killed" /\ UNCHANGED <<spaces, refused>>
      BY <1>1, <2>13 DEF Crash, Idle
    <3> QED BY <1>4, <2>1, <2>2, <3>1 DEF Keeping
  <2> QED BY <1>8, <2>4, <2>5, <2>6, <2>7, <2>8, <2>9, <2>10, <2>11, <2>12, <2>13 DEF Step
<1>9. CASE Outside \/ UNCHANGED vars
  BY <1>9 DEF Outside, vars, WorkspacesRemoved
<1> QED BY <1>7, <1>8, <1>9 DEF Next

\* Every way out of the with block tries to remove the clones: what stays was
\* left by a killed process, or the system refused to remove it, which the code
\* passes over in silence (isolated_workspaces, _remove_workspace).
THEOREM WorkspacesAreRemoved == Spec => []WorkspacesRemoved
<1>1. Init => WorkspacesRemoved
  BY DEF Init, WorkspacesRemoved
<1>2. TInv /\ WorkspacesRemoved /\ [Next]_vars => WorkspacesRemoved'
  BY RemovalIsInductive
<1> QED BY <1>1, <1>2, TypesHold, PTL DEF Spec

=============================================================================
