--------------------------- MODULE PolicyLifecycle ---------------------------
(***************************************************************************)
(* Stage 9, the policy lifecycle (lifecycle/service.py over the Stage 9    *)
(* part of storage/repository.py).                                         *)
(*                                                                         *)
(* No operation of the service runs in a transaction: each first reads     *)
(* what it needs and then makes a straight line of repository calls, every *)
(* one of which commits by itself.  A process therefore has a list of      *)
(* things to do: the operation it was asked for, which is replaced, once   *)
(* its reads allow it, by the calls the code makes; then those calls, one  *)
(* step each.  A crash, or an exception, drops the rest of the list.       *)
(***************************************************************************)
EXTENDS Naturals, Sequences, SequencesExt

CONSTANTS
    Procs,       \* handlers that may run at the same time
    OpsOf,       \* process -> the operations it may be asked for
    Reviews,     \* Stage 7 reviews that can be adopted
    Proposals,   \* what such a review may say: content, placement and scope
    Texts,       \* contents a person may give to rewrite or merge
    Asked,       \* placements a person may name to promote or demote, None for the default
    ChildLists,  \* lists of children a person may give to split
    Registered,  \* scopes whose project is registered
    Evidence,    \* outcome counts the comparisons of a review may come to
    HumanTexts,  \* what people may write in a policy file
    None,        \* Python's None
    Missing,     \* the policy file does not exist
    MaxOps,      \* bound on requests
    MaxOverlaps, \* bound on requests that begin while another is served
    MaxOutside,  \* bound on edits of the policy files and changes of the evidence
    MaxFaults    \* bound on crashes and failed system calls

Placements == {"global_rule", "project_rule", "scoped_rule", "skill"}

\* What the columns of the schema take (the CHECK of 0007_lifecycle.sql:39), and counts.
ASSUME InputAssumption ==
    /\ \A says \in Proposals : says.placement \in Placements
    /\ \A children \in ChildLists :
          /\ children \in Seq(ToSet(children))
          /\ \A child \in ToSet(children) : child.placement \in Placements
    /\ Evidence \subseteq [improved : Nat, unchanged : Nat, regressed : Nat, other : Nat]

VARIABLES
    policies,  \* the table policies, by id
    versions,  \* policy_versions, by id <<policy, version_number>>
    lineage,   \* policy_lineage, as triples
    actions,   \* policy_lifecycle_actions, as triples
    recs,      \* policy_recommendations: id -> status
    previews,  \* version -> its newest policy_lifecycle_previews row
    applied,   \* policy_lifecycle_applications
    evidence,  \* review -> outcomes of its Stage 8 comparisons
    files,     \* path -> policy file
    loc,       \* process -> what its handler has to do, and its locals
    hit,       \* history: <<version, path>> of the writes that hit the disk
    used       \* how much of each bound is spent

tables == <<policies, versions, lineage, actions, recs, previews, applied>>
world == <<evidence, files, hit>>
vars == <<tables, world, loc, used>>

PROMOTE_TARGETS(placement) ==
    CASE placement = "skill"        -> <<"scoped_rule", "project_rule">>
      [] placement = "scoped_rule"  -> <<"project_rule">>
      [] placement = "project_rule" -> <<"global_rule">>
      [] placement = "global_rule"  -> <<>>

DEMOTE_TARGETS(placement) ==
    CASE placement = "global_rule"  -> <<"project_rule">>
      [] placement = "project_rule" -> <<"scoped_rule", "skill">>
      [] placement = "scoped_rule"  -> <<"skill">>
      [] placement = "skill"        -> <<>>

\* stable_short_id: equal arguments give equal ids, and only they do.
AdoptId(review) == <<"review", review>>
MergeId(va, vb, content) == <<"merge", va, vb, content>>
SplitId(source, child) == <<"split", source, child>>

Row(content, placement, scope, target, review, via) ==
    [content |-> content, placement |-> placement, scope |-> scope,
     target |-> target, status |-> "active", review |-> review, via |-> via]

Put(f, key, value) == [k \in DOMAIN f \cup {key} |-> IF k = key THEN value ELSE f[k]]

-----------------------------------------------------------------------------
\* What a version is and where it goes.

Current(policy) == policies[policy].current

\* _require_operable raises unless this holds.
HasVersion(policy) == policy \in DOMAIN policies /\ Current(policy) # None
Operable(policy) == HasVersion(policy) /\ policies[policy].status = "active"

\* resolve_lifecycle_target.  A skill gets a directory named after its version,
\* unless the review had a target.
Path(v) ==
    IF versions[v].target # None THEN versions[v].target
    ELSE CASE versions[v].placement = "global_rule" -> <<"home">>
           [] versions[v].placement = "skill"       -> <<"repo", v>>
           [] OTHER                                 -> <<"repo">>

Resolvable(v) ==
    versions[v].placement = "global_rule" \/ versions[v].scope \in Registered

\* managed_key salts with the policy; it also hashes the placement and the path.
managed_key(v) == <<v[1], versions[v].placement>>

Existing(path) ==
    IF path \in DOMAIN files /\ files[path] # Missing THEN files[path]
    ELSE [human |-> "blank", blocks |-> <<>>]

render_target(v) ==
    [Existing(Path(v)) EXCEPT !.blocks = Put(@, managed_key(v), versions[v].content)]

FileAt(path) == IF path \in DOMAIN files THEN files[path] ELSE Missing

-----------------------------------------------------------------------------
\* Recommendations.

NoEvidence == [improved |-> 0, unchanged |-> 0, regressed |-> 0, other |-> 0]

\* A version has the comparisons of the review it was created from, if any.
aggregate_evidence(v) ==
    IF versions[v].review = None THEN NoEvidence ELSE evidence[versions[v].review]

Valid(e) == e.improved + e.unchanged + e.regressed

\* The shares 0.7, 0.5 and 0.2 of heuristics.py, and the floor of three.
Improving(e) == Valid(e) >= 3 /\ 10 * e.improved >= 7 * Valid(e)
Regressing(e) == Valid(e) >= 3 /\ 2 * e.regressed >= Valid(e)
Mixed(e) == 5 * e.regressed >= Valid(e) /\ e.improved > 0

\* Mutant: how the version before it did is left out.
regressed_alone(v) == v[2] > 1 /\ Regressing(aggregate_evidence(v))

NewVersionRegressed(v) ==
    /\ v[2] > 1
    /\ Regressing(aggregate_evidence(v))
    /\ Improving(aggregate_evidence(<<v[1], v[2] - 1>>))

recommend_for_version(v) ==
    LET e == aggregate_evidence(v)
        placement == versions[v].placement
        narrower == DEMOTE_TARGETS(placement) # <<>>
        broader == PROMOTE_TARGETS(placement) # <<>>
    IN  CASE NewVersionRegressed(v) -> "rollback"
          [] Regressing(e) /\ ~NewVersionRegressed(v) -> IF narrower THEN "demote" ELSE "disable"
          [] Valid(e) >= 3 /\ ~Regressing(e) /\ Mixed(e) /\ narrower -> "demote"
          [] Improving(e) /\ e.regressed = 0 /\ broader -> "promote"
          [] OTHER -> "retain"

Recommendation(v) ==
    [version |-> v, op |-> recommend_for_version(v), counts |-> aggregate_evidence(v)]

-----------------------------------------------------------------------------
\* The repository calls an operation can be made of.

Create(policy) == [do |-> "create_policy", policy |-> policy]
SetStatus(policy, status) == [do |-> "set_policy_status", policy |-> policy, status |-> status]
Retire(v, status) == [do |-> "set_policy_version_status", version |-> v, status |-> status]
\* The version the handler has just made becomes the current one of its policy,
\* and is the end of the edge.
Point == [do |-> "set_policy_current_version"]
Edge(relation, from) == [do |-> "record_lineage", relation |-> relation, from |-> from]
Log(policy, v, action) ==
    [do |-> "record_lifecycle_action", policy |-> policy, version |-> v, action |-> action]
LogNew(policy, via) == Log(policy, None, via)
Close(rec, status) == [do |-> "update_recommendation_status", rec |-> rec, status |-> status]

\* The two calls of _new_version.
Number(policy) == [do |-> "next_policy_version_number", policy |-> policy]
Insert(row) == [do |-> "create_policy_version", row |-> row]

\* Mutant: the edge is recorded before there is a version.
edge_before_version(policy, relation, row, from, old) ==
    <<Edge(relation, from), Number(policy), Insert(row), Retire(Current(policy), old), Point,
      LogNew(policy, row.via)>>

\* Mutant: the version that was current stays active.
nothing_retired(policy, relation, row, from, old) ==
    <<Number(policy), Insert(row), Edge(relation, from), Point, LogNew(policy, row.via)>>

\* Mutant: the edge is recorded last.
edge_last(policy, relation, row, from, old) ==
    <<Number(policy), Insert(row), Retire(Current(policy), old), Point, Edge(relation, from),
      LogNew(policy, row.via)>>

\* rewrite, promote, demote and rollback end alike.
Succeed(policy, relation, row, from, old) ==
    <<Number(policy), Insert(row), Edge(relation, from), Retire(Current(policy), old), Point,
      LogNew(policy, row.via)>>

Idle == [todo |-> <<>>, slot |-> None, made |-> None, view |-> None, built |-> None]

Init ==
    /\ policies = <<>> /\ versions = <<>> /\ recs = <<>> /\ previews = <<>>
    /\ lineage = {} /\ actions = {} /\ applied = {}
    /\ evidence = [r \in Reviews |-> NoEvidence]
    /\ files = <<>>
    /\ loc = [p \in Procs |-> Idle]
    /\ hit = {}
    /\ used = [ops |-> 0, overlaps |-> 0, outside |-> 0, faults |-> 0]

Spend(what) == used' = [used EXCEPT ![what] = @ + 1]

Busy(p) == loc[p].todo # <<>>
Now(p) == Head(loc[p].todo)
Serving(p, op) == Busy(p) /\ Now(p).do = op
End(p) == loc' = [loc EXCEPT ![p] = Idle]

\* The rest of the list after this step, the locals being those of `new`.
Continue(p, plan, new) ==
    LET rest == plan \o Tail(loc[p].todo) IN
    loc' = [loc EXCEPT ![p] = IF rest = <<>> THEN Idle ELSE [new EXCEPT !.todo = rest]]
Become(p, plan) == Continue(p, plan, loc[p]) /\ UNCHANGED <<tables, world, used>>
Did(p) == Continue(p, <<>>, loc[p])

-----------------------------------------------------------------------------
\* The requests.  Those with no explicit placement, scope, target or project
\* take what the code defaults to.

Ids == DOMAIN policies

ChangeRequests ==
         [do : {"rewrite"}, policy : Ids, content : Texts]
    \cup [do : {"promote"}, policy : Ids, placement : Asked, confirm : BOOLEAN]
    \cup [do : {"demote"}, policy : Ids, placement : Asked]
    \cup [do : {"merge"}, a : Ids, b : Ids, content : Texts \cup {None}, cross : BOOLEAN]
    \cup [do : {"split"}, policy : Ids, children : ChildLists]

StatusRequests ==
         [do : {"disable", "enable", "prune"}, policy : Ids]
    \cup [do : {"rollback"}, policy : Ids, number : {v[2] : v \in DOMAIN versions}]

FileRequests ==
         [do : {"preview"}, policy : Ids]
    \cup [do : {"apply"}, policy : Ids, confirm : BOOLEAN, dry : BOOLEAN]

RecommendationRequests ==
         [do : {"accept_recommendation"}, rec : DOMAIN recs, confirm : BOOLEAN]
    \cup [do : {"reject_recommendation", "defer_recommendation"}, rec : DOMAIN recs]

Requests ==
         [do : {"adopt"}, review : Reviews, says : Proposals]
    \cup [do : {"recommend"}, policy : Ids]
    \cup ChangeRequests \cup StatusRequests \cup FileRequests \cup RecommendationRequests

Overlap == \E p \in Procs : Busy(p)

Start(p) ==
    /\ ~Busy(p)
    /\ used.ops < MaxOps
    /\ Overlap => used.overlaps < MaxOverlaps
    /\ \E r \in Requests :
          /\ r.do \in OpsOf[p]
          /\ loc' = [loc EXCEPT ![p].todo = <<r>>]
    /\ used' = [used EXCEPT !.ops = @ + 1, !.overlaps = @ + (IF Overlap THEN 1 ELSE 0)]
    /\ UNCHANGED <<tables, world>>

Scope(v) == versions[v].scope

\* _rescope: the placement asked for, or the first that is allowed.
Towards(r, targets) == IF r.placement = None THEN Head(targets) ELSE r.placement
Reachable(r, targets) == targets # <<>> /\ Towards(r, targets) \in ToSet(targets)

MergedText(r) ==
    IF r.content # None THEN r.content
    ELSE <<versions[Current(r.a)].content, versions[Current(r.b)].content>>

MayPromote(r) ==
    /\ Operable(r.policy)
    /\ LET targets == PROMOTE_TARGETS(versions[Current(r.policy)].placement) IN
       Reachable(r, targets) /\ (Towards(r, targets) = "global_rule" => r.confirm)
MayDemote(r) ==
    Operable(r.policy) /\ Reachable(r, DEMOTE_TARGETS(versions[Current(r.policy)].placement))
MayMerge(r) ==
    /\ r.a # r.b /\ Operable(r.a) /\ Operable(r.b)
    /\ r.cross \/ Scope(Current(r.a)) = Scope(Current(r.b))
MayRollback(r) ==
    /\ Operable(r.policy)
    /\ <<r.policy, r.number>> \in DOMAIN versions \ {Current(r.policy)}

\* The command line and the viewer hand confirm_global on to every operation
\* they accept, and demote has no such parameter.
MayAccept(r) == recs[r.rec] = "open" /\ r.rec.op # "demote"

\* The reads of the operation raise nothing.
Allowed(r) ==
    CASE r.do = "adopt"    -> TRUE
      [] r.do = "rewrite"  -> /\ Operable(r.policy)
                              /\ r.content # versions[Current(r.policy)].content
      [] r.do = "promote"  -> MayPromote(r)
      [] r.do = "demote"   -> MayDemote(r)
      [] r.do = "merge"    -> MayMerge(r)
      [] r.do = "split"    -> Operable(r.policy)
      [] r.do = "disable"  -> policies[r.policy].status = "active"
      [] r.do = "enable"   -> policies[r.policy].status = "disabled"
      [] r.do = "prune"    -> policies[r.policy].status \in {"active", "disabled"}
      [] r.do = "rollback" -> MayRollback(r)
      [] r.do = "recommend" -> HasVersion(r.policy)
      [] r.do = "accept_recommendation" -> MayAccept(r)
      [] r.do \in {"reject_recommendation", "defer_recommendation"} -> recs[r.rec] = "open"
      [] r.do = "preview"  -> Operable(r.policy)
      [] r.do = "apply"    -> /\ Operable(r.policy)
                              /\ versions[Current(r.policy)].placement = "global_rule" =>
                                     r.confirm \/ r.dry

Operations == {"adopt", "rewrite", "promote", "demote", "merge", "split", "disable", "enable",
               "prune", "rollback", "recommend", "accept_recommendation",
               "reject_recommendation", "defer_recommendation", "preview", "apply"}

Refused(p) ==
    /\ Busy(p) /\ Now(p).do \in Operations
    /\ ~Allowed(Now(p))
    /\ End(p)
    /\ UNCHANGED <<tables, world, used>>

Begins(p, op) == Serving(p, op) /\ Allowed(Now(p))

-----------------------------------------------------------------------------
\* The operations: what each does once its reads are done.

adopt(p) ==
    /\ Begins(p, "adopt")
    /\ LET r == Now(p)
           id == AdoptId(r.review)
           row == Row(r.says.content, r.says.placement, r.says.scope, r.says.target,
                      r.review, "initial")
       IN  Become(p, IF id \in Ids THEN <<>>
                     ELSE <<Create(id), Number(id), Insert(row), Point, LogNew(id, "adopt")>>)

rewrite(p) ==
    /\ Begins(p, "rewrite")
    /\ LET r == Now(p)
           v == Current(r.policy)
           old == versions[v]
       IN  Become(p, Succeed(r.policy, "rewrite",
                        Row(r.content, old.placement, old.scope, old.target, None, "rewrite"),
                        v, "superseded"))

_rescope(p, targets) ==
    LET r == Now(p)
        v == Current(r.policy)
        target == Towards(r, targets)
        scope == IF target = "global_rule" THEN None ELSE Scope(v)
    IN  Become(p, Succeed(r.policy, r.do,
                     Row(versions[v].content, target, scope, None, None, r.do),
                     v, "superseded"))

promote(p) ==
    /\ Begins(p, "promote")
    /\ _rescope(p, PROMOTE_TARGETS(versions[Current(Now(p).policy)].placement))

demote(p) ==
    /\ Begins(p, "demote")
    /\ _rescope(p, DEMOTE_TARGETS(versions[Current(Now(p).policy)].placement))

rollback(p) ==
    /\ Begins(p, "rollback")
    /\ LET r == Now(p)
           v == <<r.policy, r.number>>
           old == versions[v]
       IN  Become(p, Succeed(r.policy, "rollback_source",
                        Row(old.content, old.placement, old.scope, old.target, old.review,
                            "rollback"),
                        v, "rolled_back"))

\* A merge that is recorded already gives the policy it made.
MergeDone(va, vb, content) ==
    \E v \in DOMAIN versions :
        /\ versions[v].content = content
        /\ {<<"merge_parent", va, v>>, <<"merge_parent", vb, v>>} \subseteq lineage

merge(p) ==
    /\ Begins(p, "merge")
    /\ LET r == Now(p)
           va == Current(r.a)
           vb == Current(r.b)
           content == MergedText(r)
           id == MergeId(va, vb, content)
           row == Row(content, versions[va].placement, Scope(va), None, None, "merge")
       IN  Become(p, IF MergeDone(va, vb, content) THEN <<>>
                     ELSE <<Create(id), Number(id), Insert(row), Point,
                            Edge("merge_parent", va), Edge("merge_parent", vb),
                            LogNew(id, "merge"), Log(r.a, va, "merged_into"),
                            Log(r.b, vb, "merged_into")>>)

\* The children that are there are looked up once, before the first is made.
ChildMade(source, child) ==
    \E v \in DOMAIN versions :
        /\ <<"split_child", source, v>> \in lineage
        /\ versions[v].content = child.content
        /\ versions[v].placement = child.placement
        /\ versions[v].scope = child.scope

MakeChild(source, child) ==
    LET id == SplitId(source, child)
        row == Row(child.content, child.placement, child.scope, None, None, "split")
    IN  <<Create(id), SetStatus(id, "disabled"), Number(id), Insert(row), Point,
          Edge("split_child", source), LogNew(id, "split_created")>>

split(p) ==
    /\ Begins(p, "split")
    /\ LET r == Now(p)
           source == Current(r.policy)
           ForChild(child) == [do |-> "split_child", source |-> source, child |-> child,
                               made |-> ChildMade(source, child)]
       IN  Become(p, [i \in 1..Len(r.children) |-> ForChild(r.children[i])]
                     \o <<Log(r.policy, source, "split")>>)

\* Mutant: the children that are there are not looked up.
split_child_unchecked(p) ==
    /\ Serving(p, "split_child")
    /\ Become(p, MakeChild(Now(p).source, Now(p).child))

\* One round of its loop.
split_child(p) ==
    /\ Serving(p, "split_child")
    /\ Become(p, IF Now(p).made THEN <<>> ELSE MakeChild(Now(p).source, Now(p).child))

StatusOf(op) ==
    CASE op = "disable" -> "disabled" [] op = "enable" -> "active" [] op = "prune" -> "pruned"

\* disable, enable and prune.
toggle(p) ==
    \E op \in {"disable", "enable", "prune"} :
        /\ Begins(p, op)
        /\ LET policy == Now(p).policy IN
           Become(p, <<SetStatus(policy, StatusOf(op)), Log(policy, Current(policy), op)>>)

recommend(p) ==
    /\ Begins(p, "recommend")
    /\ Become(p, <<[do |-> "upsert_recommendation", rec |-> Recommendation(Current(Now(p).policy))]>>)

\* What accepting a recommendation asks for, as if requested by name.
Recommended(r) ==
    LET policy == r.rec.version[1] IN
    CASE r.rec.op = "retain"   -> <<>>
      [] r.rec.op = "promote"  -> <<[do |-> "promote", policy |-> policy,
                                     placement |-> None, confirm |-> r.confirm]>>
      [] r.rec.op = "disable"  -> <<[do |-> "disable", policy |-> policy]>>
      [] r.rec.op = "rollback" -> <<[do |-> "rollback", policy |-> policy,
                                     number |-> r.rec.version[2] - 1]>>

Settle(rec, status) ==
    <<Close(rec, status), Log(rec.version[1], rec.version, "recommendation_" \o status)>>

accept_recommendation(p) ==
    /\ Begins(p, "accept_recommendation")
    /\ Become(p, Recommended(Now(p)) \o Settle(Now(p).rec, "accepted"))

reject_recommendation(p) ==
    /\ Begins(p, "reject_recommendation")
    /\ Become(p, Settle(Now(p).rec, "rejected"))

defer_recommendation(p) ==
    /\ Begins(p, "defer_recommendation")
    /\ Become(p, Settle(Now(p).rec, "deferred"))

-----------------------------------------------------------------------------
\* The repository calls, one committed statement or transaction each.

create_policy(p) ==
    /\ Serving(p, "create_policy")
    /\ policies' = IF Now(p).policy \in Ids THEN policies
                   ELSE Put(policies, Now(p).policy, [status |-> "active", current |-> None])
    /\ Did(p)
    /\ UNCHANGED <<versions, lineage, actions, recs, previews, applied, world, used>>

Numbers(policy) == {v[2] : v \in {w \in DOMAIN versions : w[1] = policy}}

next_policy_version_number(p) ==
    /\ Serving(p, "next_policy_version_number")
    /\ Continue(p, <<>>,
            [loc[p] EXCEPT !.slot = <<Now(p).policy, Max(Numbers(Now(p).policy) \cup {0}) + 1>>])
    /\ UNCHANGED <<tables, world, used>>

\* Mutant: INSERT OR REPLACE.
replace_policy_version(p) ==
    /\ Serving(p, "create_policy_version")
    /\ versions' = Put(versions, loc[p].slot, Now(p).row)
    /\ Continue(p, <<>>, [loc[p] EXCEPT !.made = loc[p].slot])
    /\ UNCHANGED <<policies, lineage, actions, recs, previews, applied, world, used>>

\* The columns of the INSERT.
Columns(row) ==
    [content |-> row.content, placement |-> row.placement, scope |-> row.scope,
     target |-> row.target, status |-> row.status, review |-> row.review, via |-> row.via]

create_policy_version(p) ==
    /\ Serving(p, "create_policy_version")
    /\ loc[p].slot # None
    /\ loc[p].slot[1] \in Ids
    /\ loc[p].slot \notin DOMAIN versions
    /\ versions' = Put(versions, loc[p].slot, Columns(Now(p).row))
    /\ Continue(p, <<>>, [loc[p] EXCEPT !.made = loc[p].slot])
    /\ UNCHANGED <<policies, lineage, actions, recs, previews, applied, world, used>>

\* UNIQUE (policy_id, version_number): another handler took the number.
VersionTaken(p) ==
    /\ Serving(p, "create_policy_version")
    /\ loc[p].slot \in DOMAIN versions
    /\ End(p)
    /\ UNCHANGED <<tables, world, used>>

record_lineage(p) ==
    /\ Serving(p, "record_lineage")
    /\ lineage' = lineage \cup {<<Now(p).relation, Now(p).from, loc[p].made>>}
    /\ Did(p)
    /\ UNCHANGED <<policies, versions, actions, recs, previews, applied, world, used>>

set_policy_version_status(p) ==
    /\ Serving(p, "set_policy_version_status")
    /\ versions' = [versions EXCEPT ![Now(p).version].status = Now(p).status]
    /\ Did(p)
    /\ UNCHANGED <<policies, lineage, actions, recs, previews, applied, world, used>>

set_policy_current_version(p) ==
    /\ Serving(p, "set_policy_current_version")
    /\ loc[p].made # None
    /\ policies' = [policies EXCEPT ![loc[p].made[1]].current = loc[p].made]
    /\ Did(p)
    /\ UNCHANGED <<versions, lineage, actions, recs, previews, applied, world, used>>

set_policy_status(p) ==
    /\ Serving(p, "set_policy_status")
    /\ policies' = [policies EXCEPT ![Now(p).policy].status = Now(p).status]
    /\ Did(p)
    /\ UNCHANGED <<versions, lineage, actions, recs, previews, applied, world, used>>

record_lifecycle_action(p) ==
    /\ Serving(p, "record_lifecycle_action")
    /\ LET v == IF Now(p).version # None THEN Now(p).version ELSE loc[p].made IN
       actions' = actions \cup {<<Now(p).policy, v, Now(p).action>>}
    /\ Did(p)
    /\ UNCHANGED <<policies, versions, lineage, recs, previews, applied, world, used>>

\* A recommendation that is new takes the place of the open ones of its version.
upsert_recommendation(p) ==
    /\ Serving(p, "upsert_recommendation")
    /\ LET new == Now(p).rec
           left(r) == IF r.version = new.version /\ recs[r] = "open" THEN "superseded" ELSE recs[r]
       IN  recs' = IF new \in DOMAIN recs THEN recs
                   ELSE [r \in DOMAIN recs \cup {new} |-> IF r = new THEN "open" ELSE left(r)]
    /\ Did(p)
    /\ UNCHANGED <<policies, versions, lineage, actions, previews, applied, world, used>>

update_recommendation_status(p) ==
    /\ Serving(p, "update_recommendation_status")
    /\ recs' = [recs EXCEPT ![Now(p).rec] = Now(p).status]
    /\ Did(p)
    /\ UNCHANGED <<policies, versions, lineage, actions, previews, applied, world, used>>

-----------------------------------------------------------------------------
\* Preview and Apply, the only ones to touch a file.

Renderable(v) == Resolvable(v) /\ Existing(Path(v)).human # "unsafe"

preview(p) ==
    /\ Begins(p, "preview")
    /\ Become(p, <<[do |-> "build_preview", version |-> Current(Now(p).policy)]>>)

build_preview(p) ==
    /\ Serving(p, "build_preview")
    /\ LET v == Now(p).version IN
       /\ Renderable(v)
       /\ Become(p, <<[do |-> "record_lifecycle_preview", version |-> v,
                       target_hash |-> FileAt(Path(v)), output_hash |-> render_target(v)],
                      Log(v[1], v, "preview")>>)

record_lifecycle_preview(p) ==
    /\ Serving(p, "record_lifecycle_preview")
    /\ previews' = Put(previews, Now(p).version,
                       [target_hash |-> Now(p).target_hash, output_hash |-> Now(p).output_hash,
                        consumed |-> FALSE])
    /\ Did(p)
    /\ UNCHANGED <<policies, versions, lineage, actions, recs, applied, world, used>>

Step9(do, v, dry) == [do |-> do, version |-> v, dry |-> dry]

apply(p) ==
    /\ Begins(p, "apply")
    /\ Become(p, <<Step9("latest_lifecycle_preview", Current(Now(p).policy), Now(p).dry)>>)

\* A dry run makes the preview it finds missing.
latest_lifecycle_preview(p) ==
    /\ Serving(p, "latest_lifecycle_preview")
    /\ LET s == Now(p) IN
       \/ /\ s.version \in DOMAIN previews
          /\ Continue(p, <<Step9("build", s.version, s.dry)>>,
                      [loc[p] EXCEPT !.view = previews[s.version]])
       \/ /\ s.version \notin DOMAIN previews /\ s.dry
          /\ Continue(p, <<[do |-> "preview", policy |-> s.version[1]], s>>, loc[p])
    /\ UNCHANGED <<tables, world, used>>

Built(v) == [before |-> FileAt(Path(v)), after |-> render_target(v)]

Recorded(v, outcome) == [do |-> "record_lifecycle_application", version |-> v, outcome |-> outcome]
Finish(v, outcome) ==
    <<Recorded(v, outcome), [do |-> "consume_lifecycle_preview", version |-> v],
      Log(v[1], v, "apply_" \o outcome)>>

\* The render, and the file it starts from, are what the preview showed.
AsPreviewed(p, v) ==
    /\ FileAt(Path(v)) = loc[p].view.target_hash
    /\ render_target(v) = loc[p].view.output_hash

build(p) ==
    /\ Serving(p, "build")
    /\ LET v == Now(p).version
           there == FileAt(Path(v)) = render_target(v)
       IN  /\ Renderable(v)
           /\ there \/ AsPreviewed(p, v)
           /\ ~Now(p).dry
           /\ Continue(p, IF there THEN Finish(v, "already_applied")
                          ELSE <<[do |-> "recheck", version |-> v]>>,
                       [loc[p] EXCEPT !.built = Built(v)])
    /\ UNCHANGED <<tables, world, used>>

\* resolve_target or the render raises, the preview is stale or missing, or a
\* dry run has shown what it would do.
PreviewRefused(p) ==
    /\ \/ Serving(p, "build_preview") /\ ~Renderable(Now(p).version)
       \/ /\ Serving(p, "latest_lifecycle_preview")
          /\ Now(p).version \notin DOMAIN previews /\ ~Now(p).dry
       \/ /\ Serving(p, "build")
          /\ LET v == Now(p).version IN
             Now(p).dry \/ ~Renderable(v)
             \/ (FileAt(Path(v)) # render_target(v) /\ ~AsPreviewed(p, v))
    /\ End(p)
    /\ UNCHANGED <<tables, world, used>>

\* apply_preview reads the file again.
Recheck(p) ==
    /\ Serving(p, "recheck")
    /\ LET v == Now(p).version
           file == FileAt(Path(v))
       IN  Become(p, IF file = loc[p].built.after THEN Finish(v, "already_applied")
                     ELSE IF file = loc[p].built.before
                     THEN <<[do |-> "_atomic_replace", version |-> v]>>
                     ELSE <<Recorded(v, "safety_refused")>>)

\* Mutant: the application is recorded before the file is replaced.
record_then_replace(p) ==
    /\ Serving(p, "_atomic_replace")
    /\ LET v == Now(p).version IN
       /\ applied' = applied \cup {<<v, "applied">>}
       /\ files' = files /\ hit' = hit
       /\ Continue(p, Finish(v, "applied"), loc[p])
    /\ UNCHANGED <<policies, versions, lineage, actions, recs, previews, evidence, used>>

Land(v, built) ==
    /\ files' = Put(files, Path(v), built.after)
    /\ hit' = hit \cup {v}

_atomic_replace(p) ==
    /\ Serving(p, "_atomic_replace")
    /\ LET v == Now(p).version IN
       /\ Land(v, loc[p].built)
       /\ Continue(p, Finish(v, "applied"), loc[p])
    /\ UNCHANGED <<tables, evidence, used>>

\* An OSError before or after os.replace.
ReplaceFails(p) ==
    /\ Serving(p, "_atomic_replace")
    /\ used.faults < MaxFaults
    /\ LET v == Now(p).version IN
       /\ Land(v, loc[p].built) \/ UNCHANGED <<files, hit>>
       /\ Continue(p, <<Recorded(v, "safety_refused")>>, loc[p])
    /\ Spend("faults")
    /\ UNCHANGED <<tables, evidence>>

record_lifecycle_application(p) ==
    /\ Serving(p, "record_lifecycle_application")
    /\ applied' = applied \cup {<<Now(p).version, Now(p).outcome>>}
    /\ Did(p)
    /\ UNCHANGED <<policies, versions, lineage, actions, recs, previews, world, used>>

\* A preview's id is its version and its output hash.
consume_lifecycle_preview(p) ==
    /\ Serving(p, "consume_lifecycle_preview")
    /\ LET v == Now(p).version IN
       previews' = IF previews[v].output_hash = loc[p].view.output_hash
                   THEN [previews EXCEPT ![v].consumed = TRUE] ELSE previews
    /\ Did(p)
    /\ UNCHANGED <<policies, versions, lineage, actions, recs, applied, world, used>>

-----------------------------------------------------------------------------
\* What happens around the handlers.

\* Stage 8 compares further repetitions of a review's evaluation.
record_evaluation_comparison ==
    /\ used.outside < MaxOutside
    /\ \E r \in Reviews, e \in Evidence :
          /\ \A outcome \in DOMAIN e : e[outcome] >= evidence[r][outcome]
          /\ e # evidence[r]
          /\ evidence' = [evidence EXCEPT ![r] = e]
    /\ Spend("outside")
    /\ UNCHANGED <<tables, files, hit, loc>>

\* A person changes the human part of a file, drops its blocks, or removes it.
HumanEdit ==
    /\ used.outside < MaxOutside
    /\ \E path \in {Path(v) : v \in DOMAIN versions}, text \in HumanTexts :
          \E file \in {Missing, [human |-> text, blocks |-> <<>>],
                      [human |-> text, blocks |-> Existing(path).blocks]} :
             /\ file # FileAt(path)
             /\ files' = Put(files, path, file)
    /\ Spend("outside")
    /\ UNCHANGED <<tables, evidence, hit, loc>>

\* The process dies, or a statement raises.
Crash(p) ==
    /\ Busy(p)
    /\ used.faults < MaxFaults
    /\ End(p)
    /\ Spend("faults")
    /\ UNCHANGED <<tables, world>>

Operation(p) ==
    \/ adopt(p) \/ rewrite(p) \/ promote(p) \/ demote(p) \/ rollback(p) \/ merge(p) \/ split(p)
    \/ split_child(p) \/ toggle(p) \/ recommend(p) \/ accept_recommendation(p) \/ reject_recommendation(p)
    \/ defer_recommendation(p) \/ preview(p) \/ apply(p) \/ Refused(p)

Call(p) ==
    \/ create_policy(p) \/ next_policy_version_number(p) \/ create_policy_version(p)
    \/ VersionTaken(p) \/ record_lineage(p) \/ set_policy_version_status(p)
    \/ set_policy_current_version(p) \/ set_policy_status(p) \/ record_lifecycle_action(p)
    \/ upsert_recommendation(p) \/ update_recommendation_status(p)

FileStep(p) ==
    \/ build_preview(p) \/ record_lifecycle_preview(p) \/ latest_lifecycle_preview(p)
    \/ build(p) \/ PreviewRefused(p) \/ Recheck(p) \/ _atomic_replace(p)
    \/ record_lifecycle_application(p) \/ consume_lifecycle_preview(p)

Step(p) == Operation(p) \/ Call(p) \/ FileStep(p)

Next ==
    \/ \E p \in Procs : Start(p) \/ Step(p) \/ ReplaceFails(p) \/ Crash(p)
    \/ record_evaluation_comparison \/ HumanEdit

Spec == Init /\ [][Next]_vars

-----------------------------------------------------------------------------
\* What the code promises.

IsId(policy) == policy[1] \in {"review", "merge", "split"}
Kinds == {"rewrite", "promote", "demote", "rollback_source", "merge_parent", "split_child"}

\* Every table holds rows of its schema, and its references are to rows that exist.
TypeOK ==
    /\ \A policy \in Ids : IsId(policy)
         /\ policies[policy].status \in {"active", "disabled", "pruned"}
         /\ policies[policy].current \in DOMAIN versions \cup {None}
    /\ \A v \in DOMAIN versions :
          /\ v[1] \in Ids /\ v[2] \in Nat
          /\ versions[v].placement \in Placements
          /\ versions[v].status \in {"active", "superseded", "rolled_back"}
          /\ versions[v].review \in Reviews \cup {None}
    /\ lineage \subseteq Kinds \X (DOMAIN versions) \X (DOMAIN versions)
    /\ \A r \in DOMAIN recs :
          recs[r] \in {"open", "accepted", "rejected", "deferred", "superseded"}
    /\ (DOMAIN previews) \cup hit \cup {a[1] : a \in applied} \subseteq DOMAIN versions

\* One operator, who was never interrupted.
Undisturbed == used.faults = 0 /\ used.overlaps = 0

\* A list of children that names one twice: the second is not looked up again
\* (service.py:314), becomes version 2 of the same policy, and retires nothing.
NamedTwice(policy) ==
    policy[1] = "split" /\ \E children \in ChildLists : \E i, j \in DOMAIN children :
        i # j /\ children[i] = children[j] /\ children[i] = policy[3]

\* Between operations a policy has one active version, its current one, and every
\* version it had before is superseded or rolled back (docs/stages/STAGE_9_REPORT.md:57, a
\* version's status tells the current one from the historical ones).  A child that was
\* named twice is the exception.
OneCurrent ==
    Undisturbed /\ ~Overlap =>
        \A policy \in {q \in Ids : ~NamedTwice(q)} :
            {v \in DOMAIN versions : v[1] = policy /\ versions[v].status = "active"}
                = {Current(policy)}

\* The current version of an adopted policy was written by an adoption, or was
\* made from one of its versions that the lineage names, whoever crashed or ran
\* beside: the edge is recorded before the pointer moves (service.py rewrite,
\* _rescope and rollback).  An adoption may be a later version than the first: of
\* two that overlap, each finds no policy (service.py:123), and each writes one.
CurrentHasOrigin ==
    \A policy \in Ids :
        policy[1] = "review" /\ Current(policy) # None /\ versions[Current(policy)].via # "initial" =>
            \E edge \in lineage : edge[3] = Current(policy) /\ edge[2][1] = policy

\* An application row says applied only for a version whose text has reached a
\* file; the row comes last, so a crash can lose the row but not invent one.
AppliedWasWritten == \A a \in applied : a[2] = "applied" => a[1] \in hit

\* No recommendation is ever to roll back.  The versions of a policy share the
\* evidence of the one review it came from or have none, so no version can
\* regress while its predecessor does well: scenario E of heuristics.py needs
\* evidence that no operation of the service gives a version.
RollbackNotRecommended == \A r \in DOMAIN recs : r.op # "rollback"

\* A pruned policy stays pruned (docs/stages/STAGE_9_REPORT.md:278), also when
\* the split that made it is asked for again.  (A split that died before it recorded
\* the edge does not know its child, and disables what was pruned since.)
PruneIsFinal ==
    [][\A policy \in Ids :
          Undisturbed' /\ policies[policy].status = "pruned" =>
              policies'[policy].status = "pruned"]_vars

Said(v) == [content |-> versions[v].content, placement |-> versions[v].placement,
            scope |-> versions[v].scope, target |-> versions[v].target,
            review |-> versions[v].review, via |-> versions[v].via]

\* Whatever runs at the same time and wherever it is cut short, versions are
\* numbered without gaps, never change and never vanish, and a policy points at
\* a version of its own (service.py:10, the triggers of 0007_lifecycle.sql).
History == INSTANCE VersionHistory WITH
    NoVersion <- None,
    texts <- [v \in DOMAIN versions |-> Said(v)],
    head <- [policy \in Ids |-> Current(policy)]
HistoryRespected == History!Spec

\* The blocks a policy has in the policy files, wherever they are.
BlocksOf(policy) ==
    {b \in (DOMAIN files) \X {managed_key(v) : v \in DOMAIN versions} :
        /\ b[2][1] = policy
        /\ files[b[1]] # Missing
        /\ b[2] \in DOMAIN files[b[1]].blocks}

\* A policy has one managed block, which its changes keep updating
\* (lifecycle/apply.py:6, instead of leaving orphaned ones behind).
OneBlock ==
    \A policy \in Ids : \A b, c \in BlocksOf(policy) : b = c

=============================================================================
