------------------------ MODULE PolicyLifecycleProofs ------------------------
(***************************************************************************)
(* The lifecycle implements VersionHistory, for any number of handlers,    *)
(* requests, crashes and edits, in any interleaving.                       *)
(*                                                                         *)
(* Nothing in the service serialises two handlers, so the argument is the  *)
(* table's alone.  A handler computes its version number in one step and   *)
(* inserts in another.  What survives in between is that the number before *)
(* the one it holds exists (rows never vanish); the unique key makes the   *)
(* insertion fail if somebody was faster.  So the numbers of a policy stay *)
(* 1..n (Numbered), and a handler only ever points a policy at a version   *)
(* that it has inserted itself (Made).                                     *)
(*                                                                         *)
(* The second part is about what the lists of calls have in them (LInv).   *)
(* Whatever the others write, each call of a list writes what its table    *)
(* takes (Item) and stands after the calls it depends on (Fits): the       *)
(* insertion after the number, the retirement after the edge, the pointer  *)
(* after both.  This is said of places in the list, so it holds of the     *)
(* rest when the head has been served.                                     *)
(*                                                                         *)
(* The third part is about one operator who is never interrupted (UInv).   *)
(* One handler at most is then busy, and the list of calls it has left is in *)
(* one of the phases of its operation (Work): Resting when no call is left *)
(* that changes a policy, Toggling, Succeeding when a policy gets its next *)
(* version, Founding when a policy is made.  A phase says what the calls   *)
(* are, from the head on, and what the tables lack until they are served;  *)
(* so a call takes one phase to the next, and the last to Resting, where   *)
(* every policy has its one version (Settled).  That a child of a split is *)
(* new when its turn comes is a part of it (Splits): it was looked up before *)
(* its siblings were made.                                                 *)
(***************************************************************************)
EXTENDS PolicyLifecycle, TLAPS

\* Versions are rows with the columns of the schema and belong to a policy.
Rows ==
    /\ policies = [policy \in Ids |-> policies[policy]]
    /\ \A policy \in Ids :
          policies[policy] = [status |-> policies[policy].status,
                              current |-> policies[policy].current]
    /\ versions = [v \in DOMAIN versions |-> versions[v]]
    /\ \A v \in DOMAIN versions :
          /\ v = <<v[1], v[2]>> /\ v[1] \in Ids /\ v[2] \in Nat
          /\ versions[v] = Columns(versions[v])

\* The versions of a policy are numbered without gaps.
Numbered == \A policy : \E n \in Nat : Numbers(policy) = 1..n

\* The number a handler holds has its predecessor among the versions V.
Slot(s, V) ==
    s # None =>
        /\ s = <<s[1], s[2]>> /\ s[2] \in Nat \ {0}
        /\ s[2] = 1 \/ <<s[1], s[2] - 1>> \in V

\* The version a handler has made exists.
Made(v, V) == v # None => v \in V

Shape(h) ==
    h = [todo |-> h.todo, slot |-> h.slot, made |-> h.made, view |-> h.view, built |-> h.built]

InOrder(h, V) == Shape(h) /\ Slot(h.slot, V) /\ Made(h.made, V)

Handlers ==
    /\ loc = [p \in Procs |-> loc[p]]
    /\ \A p \in Procs : InOrder(loc[p], DOMAIN versions)

HInv == Rows /\ Numbered /\ Handlers

-----------------------------------------------------------------------------
\* Facts about the operators the handlers are built from.

\* A handler in order stays so when versions are added.
LEMMA InOrderGrows ==
    ASSUME NEW V, NEW W, V \subseteq W, NEW h, InOrder(h, V)
    PROVE  InOrder(h, W)
BY DEF InOrder, Slot, Made

\* A handler that ends, or goes on with locals that are in order, is in order.
LEMMA ContinueKeeps ==
    ASSUME Handlers, DOMAIN versions \subseteq DOMAIN versions',
           NEW p \in Procs, NEW plan, NEW new, Continue(p, plan, new),
           InOrder(new, DOMAIN versions')
    PROVE  Handlers'
<1>1. PICK h : /\ loc' = [loc EXCEPT ![p] = h]
               /\ h = Idle \/ \E t : h = [new EXCEPT !.todo = t]
  BY DEF Continue
<1>2. InOrder(h, DOMAIN versions')
  <2>1. CASE h = Idle
    BY <2>1 DEF Idle, InOrder, Shape, Slot, Made
  <2>2. CASE \E t : h = [new EXCEPT !.todo = t]
    <3>1. PICK t : h = [new EXCEPT !.todo = t]
      BY <2>2
    <3>2. h = [todo |-> t, slot |-> new.slot, made |-> new.made, view |-> new.view,
               built |-> new.built]
      BY <3>1 DEF Shape, InOrder
    <3> QED BY <3>2 DEF Shape, InOrder
  <2> QED BY <1>1, <2>1, <2>2
<1>3. loc' = [q \in Procs |-> IF q = p THEN h ELSE loc[q]]
  BY <1>1 DEF Handlers
<1>4. ASSUME NEW q \in Procs PROVE InOrder(loc'[q], DOMAIN versions')
  <2>1. CASE q = p
    BY <1>2, <1>3, <2>1
  <2>2. CASE q # p
    BY <1>3, <2>2, InOrderGrows DEF Handlers
  <2> QED BY <2>1, <2>2
<1>5. loc' = [q \in Procs |-> loc'[q]]
  BY <1>3
<1> QED BY <1>4, <1>5 DEF Handlers

\* The same for a step that ends the handler.
LEMMA EndKeeps ==
    ASSUME Handlers, DOMAIN versions \subseteq DOMAIN versions',
           NEW p \in Procs, End(p)
    PROVE  Handlers'
<1>1. InOrder(Idle, DOMAIN versions')
  BY DEF Idle, InOrder, Shape, Slot, Made
<1>2. loc' = [q \in Procs |-> IF q = p THEN Idle ELSE loc[q]]
  BY DEF End, Handlers
<1>3. \A q \in Procs : InOrder(loc'[q], DOMAIN versions')
  BY <1>1, <1>2, InOrderGrows DEF Handlers
<1> QED BY <1>2, <1>3 DEF Handlers

\* A step that leaves the two tables alone and the handlers in order.
LEMMA TablesKeep ==
    ASSUME HInv, UNCHANGED <<policies, versions>>, Handlers'
    PROVE  HInv'
BY DEF HInv, Rows, Numbered, Numbers, Ids

-----------------------------------------------------------------------------
\* The steps that leave policies and versions alone.

Still == policies' = policies /\ versions' = versions

\* The handler goes on with its locals as they are, or ends.
Goes(p) == End(p) \/ \E plan : Continue(p, plan, loc[p])

\* The operations: reads, and a list of calls to make.
LEMMA OperationsAreQuiet ==
    ASSUME NEW p \in Procs, Operation(p)
    PROVE  Still /\ Goes(p)
<1>1. ASSUME NEW plan, Become(p, plan) PROVE Still /\ Goes(p)
  BY <1>1 DEF Become, Still, Goes, tables
<1>2. CASE adopt(p)      BY <1>1, <1>2 DEF adopt
<1>3. CASE rewrite(p)    BY <1>1, <1>3 DEF rewrite
<1>4. CASE promote(p)    BY <1>1, <1>4 DEF promote, _rescope
<1>5. CASE demote(p)     BY <1>1, <1>5 DEF demote, _rescope
<1>6. CASE rollback(p)   BY <1>1, <1>6 DEF rollback
<1>7. CASE merge(p)      BY <1>1, <1>7 DEF merge
<1>8. CASE split(p)      BY <1>1, <1>8 DEF split
<1>17. CASE split_child(p) BY <1>1, <1>17 DEF split_child
<1>9. CASE toggle(p)     BY <1>1, <1>9 DEF toggle
<1>10. CASE recommend(p) BY <1>1, <1>10 DEF recommend
<1>11. CASE accept_recommendation(p) BY <1>1, <1>11 DEF accept_recommendation
<1>12. CASE reject_recommendation(p) BY <1>1, <1>12 DEF reject_recommendation
<1>13. CASE defer_recommendation(p)  BY <1>1, <1>13 DEF defer_recommendation
<1>14. CASE preview(p)   BY <1>1, <1>14 DEF preview
<1>15. CASE apply(p)     BY <1>1, <1>15 DEF apply
<1>16. CASE Refused(p)   BY <1>16 DEF Refused, Still, Goes, tables
<1> QED BY <1>2, <1>3, <1>4, <1>5, <1>6, <1>7, <1>8, <1>9, <1>10, <1>11, <1>12, <1>13, <1>14,
           <1>15, <1>16, <1>17 DEF Operation

\* The calls that write to another table.
LEMMA OtherCallsAreQuiet ==
    ASSUME NEW p \in Procs,
           \/ VersionTaken(p) \/ record_lineage(p) \/ record_lifecycle_action(p)
           \/ upsert_recommendation(p) \/ update_recommendation_status(p)
    PROVE  Still /\ Goes(p)
<1>1. CASE VersionTaken(p)            BY <1>1 DEF VersionTaken, Still, Goes, tables
<1>2. CASE record_lineage(p)          BY <1>2 DEF record_lineage, Did, Still, Goes
<1>3. CASE record_lifecycle_action(p) BY <1>3 DEF record_lifecycle_action, Did, Still, Goes
<1>4. CASE upsert_recommendation(p)   BY <1>4 DEF upsert_recommendation, Did, Still, Goes
<1>5. CASE update_recommendation_status(p)
  BY <1>5 DEF update_recommendation_status, Did, Still, Goes
<1> QED BY <1>1, <1>2, <1>3, <1>4, <1>5

\* Locals that differ in what a preview or a render has left in them.
Alike(new, h) == Shape(new) /\ new.slot = h.slot /\ new.made = h.made
GoesAlike(p) == End(p) \/ \E plan, new : Continue(p, plan, new) /\ (Shape(loc[p]) => Alike(new, loc[p]))

LEMMA SetView ==
    ASSUME NEW h, NEW x, Shape(h) PROVE Alike([h EXCEPT !.view = x], h) /\ Alike([h EXCEPT !.built = x], h)
<1>1. [h EXCEPT !.view = x] = [todo |-> h.todo, slot |-> h.slot, made |-> h.made, view |-> x,
                               built |-> h.built]
  BY DEF Shape
<1>2. [h EXCEPT !.built = x] = [todo |-> h.todo, slot |-> h.slot, made |-> h.made,
                                view |-> h.view, built |-> x]
  BY DEF Shape
<1> QED BY <1>1, <1>2 DEF Alike, Shape

\* The steps of Preview and Apply, the one that fails among them.
LEMMA FileStepsAreQuiet ==
    ASSUME NEW p \in Procs, FileStep(p) \/ ReplaceFails(p)
    PROVE  Still /\ GoesAlike(p)
<1>0. ASSUME NEW plan, Continue(p, plan, loc[p]) PROVE GoesAlike(p)
  BY <1>0 DEF GoesAlike, Alike
<1>1. ASSUME NEW plan, Become(p, plan) PROVE Still /\ GoesAlike(p)
  BY <1>0, <1>1 DEF Become, Still, tables
<1>2. CASE build_preview(p) BY <1>1, <1>2 DEF build_preview
<1>3. CASE record_lifecycle_preview(p) BY <1>0, <1>3 DEF record_lifecycle_preview, Did, Still
<1>4. CASE latest_lifecycle_preview(p)
  <2>1. Still
    BY <1>4 DEF latest_lifecycle_preview, Still, tables
  <2>2. CASE \E plan, x : Continue(p, plan, [loc[p] EXCEPT !.view = x])
    BY <2>1, <2>2, SetView DEF GoesAlike
  <2>3. CASE \E plan : Continue(p, plan, loc[p])
    BY <2>1, <2>3, <1>0
  <2> QED BY <1>4, <2>1, <2>2, <2>3 DEF latest_lifecycle_preview
<1>5. CASE build(p)
  <2>1. Still
    BY <1>5 DEF build, Still, tables
  <2>2. \E plan, x : Continue(p, plan, [loc[p] EXCEPT !.built = x])
    BY <1>5 DEF build
  <2> QED BY <2>1, <2>2, SetView DEF GoesAlike
<1>6. CASE PreviewRefused(p) BY <1>6 DEF PreviewRefused, Still, GoesAlike, tables
<1>7. CASE Recheck(p) BY <1>1, <1>7 DEF Recheck
<1>8. CASE _atomic_replace(p) BY <1>0, <1>8 DEF _atomic_replace, Still, tables
<1>9. CASE record_lifecycle_application(p)
  BY <1>0, <1>9 DEF record_lifecycle_application, Did, Still
<1>10. CASE consume_lifecycle_preview(p) BY <1>0, <1>10 DEF consume_lifecycle_preview, Did, Still
<1>11. CASE ReplaceFails(p) BY <1>0, <1>11 DEF ReplaceFails, Still, tables
<1> QED BY <1>2, <1>3, <1>4, <1>5, <1>6, <1>7, <1>8, <1>9, <1>10, <1>11 DEF FileStep

\* Such a step keeps the invariant.
LEMMA QuietKeeps ==
    ASSUME HInv, NEW p \in Procs, Still, GoesAlike(p)
    PROVE  HInv'
<1>1. InOrder(loc[p], DOMAIN versions)
  BY DEF HInv, Handlers
<1>2. CASE End(p)
  BY <1>2, EndKeeps, TablesKeep DEF HInv, Still
<1>3. CASE \E plan, new : Continue(p, plan, new) /\ (Shape(loc[p]) => Alike(new, loc[p]))
  <2>1. PICK plan, new : Continue(p, plan, new) /\ (Shape(loc[p]) => Alike(new, loc[p]))
    BY <1>3
  <2>2. InOrder(new, DOMAIN versions')
    BY <1>1, <2>1 DEF InOrder, Alike, Still
  <2>3. Handlers'
    BY <2>1, <2>2, ContinueKeeps DEF HInv, Still
  <2> QED BY <2>3, TablesKeep DEF Still
<1> QED BY <1>2, <1>3 DEF GoesAlike

-----------------------------------------------------------------------------
\* The steps that write policies or versions, and the one that takes a number.

LEMMA MaxOfInterval == ASSUME NEW n \in Nat PROVE Max((1..n) \cup {0}) = n
<1>1. n \in (1..n) \cup {0} /\ \A y \in (1..n) \cup {0} : n >= y
  OBVIOUS
<1>2. \A x \in (1..n) \cup {0} : (\A y \in (1..n) \cup {0} : x >= y) => x = n
  BY <1>1
<1> QED BY <1>1, <1>2 DEF Max

LEMMA NumbersOf ==
    ASSUME Rows, NEW policy, NEW k
    PROVE  k \in Numbers(policy) <=> <<policy, k>> \in DOMAIN versions
BY DEF Rows, Numbers

LEMMA NextNumberKeeps ==
    ASSUME HInv, NEW p \in Procs, next_policy_version_number(p)
    PROVE  HInv' /\ Still
<1> DEFINE policy == Now(p).policy
           s == <<policy, Max(Numbers(policy) \cup {0}) + 1>>
           new == [loc[p] EXCEPT !.slot = s]
<1>1. Still /\ Continue(p, <<>>, new)
  BY DEF next_policy_version_number, Still, tables
<1>2. PICK n \in Nat : Numbers(policy) = 1..n
  BY DEF HInv, Numbered
<1>3. s = <<policy, n + 1>>
  BY <1>2, MaxOfInterval
<1>4. Slot(s, DOMAIN versions)
  <2>1. CASE n = 0
    BY <1>3, <2>1 DEF Slot
  <2>2. CASE n # 0
    <3>1. n \in Numbers(policy)
      BY <1>2, <2>2
    <3>2. <<policy, n>> \in DOMAIN versions
      BY <3>1, NumbersOf DEF HInv
    <3>3. s[2] - 1 = n /\ s[1] = policy /\ s = <<s[1], s[2]>> /\ s[2] \in Nat \ {0}
      BY <1>3
    <3> QED BY <3>2, <3>3 DEF Slot
  <2> QED BY <2>1, <2>2
<1>5. InOrder(loc[p], DOMAIN versions)
  BY DEF HInv, Handlers
<1> HIDE DEF s
<1>6. new = [todo |-> loc[p].todo, slot |-> s, made |-> loc[p].made, view |-> loc[p].view,
             built |-> loc[p].built]
  BY <1>5 DEF InOrder, Shape
<1>7. InOrder(new, DOMAIN versions')
  BY <1>1, <1>4, <1>5, <1>6 DEF InOrder, Shape, Still
<1>8. Handlers'
  BY <1>1, <1>7, ContinueKeeps DEF HInv, Still
<1> QED BY <1>1, <1>8, TablesKeep DEF Still

\* A policy that is new has no version yet.
LEMMA CreatePolicyKeeps ==
    ASSUME HInv, NEW p \in Procs, create_policy(p)
    PROVE  HInv'
<1> DEFINE q == Now(p).policy
           row == [status |-> "active", current |-> None]
<1>1. versions' = versions /\ Continue(p, <<>>, loc[p])
  BY DEF create_policy, Did
<1>2. Handlers'
  BY <1>1, ContinueKeeps DEF HInv, Handlers
<1>3. policies' = policies \/ policies' = [k \in Ids \cup {q} |-> IF k = q THEN row ELSE policies[k]]
  BY DEF create_policy, Put, Ids
<1>4. Rows'
  BY <1>1, <1>3 DEF HInv, Rows, Ids, Columns
<1>5. Numbered'
  BY <1>1 DEF HInv, Numbered, Numbers
<1> QED BY <1>2, <1>4, <1>5 DEF HInv

\* The status of a version is not part of what it says.
LEMMA RetireKeeps ==
    ASSUME HInv, NEW p \in Procs, set_policy_version_status(p)
    PROVE  /\ HInv' /\ policies' = policies /\ DOMAIN versions' = DOMAIN versions
           /\ \A v \in DOMAIN versions : Said(v)' = Said(v)
<1> DEFINE w == Now(p).version
           row == [content |-> versions[w].content, placement |-> versions[w].placement,
                   scope |-> versions[w].scope, target |-> versions[w].target,
                   status |-> Now(p).status, review |-> versions[w].review,
                   via |-> versions[w].via]
<1>1. policies' = policies /\ Continue(p, <<>>, loc[p])
  BY DEF set_policy_version_status, Did
<1>2. versions' = [versions EXCEPT ![w].status = Now(p).status]
  BY DEF set_policy_version_status
<1>3. w \in DOMAIN versions => [versions[w] EXCEPT !.status = Now(p).status] = row
  BY DEF HInv, Rows, Columns
<1>4. versions' = [v \in DOMAIN versions |-> IF v = w THEN row ELSE versions[v]]
  BY <1>2, <1>3 DEF HInv, Rows
<1> HIDE DEF w
<1>5. Handlers'
  BY <1>1, <1>4, ContinueKeeps DEF HInv, Handlers
<1>6. Rows'
  BY <1>1, <1>4 DEF HInv, Rows, Ids, Columns
<1>7. Numbered'
  BY <1>4 DEF HInv, Numbered, Numbers
<1>8. \A v \in DOMAIN versions : Said(v)' = Said(v)
  BY <1>4 DEF Said
<1> QED BY <1>1, <1>4, <1>5, <1>6, <1>7, <1>8 DEF HInv

\* The policies with the row of policy q replaced.
WithRow(q, status, current) ==
    [k \in Ids |-> IF k = q THEN [status |-> status, current |-> current] ELSE policies[k]]

\* The row of the policy is the only one that changes.
LEMMA PoliciesKeep ==
    ASSUME HInv, NEW q, NEW status, NEW current, versions' = versions, Handlers',
           policies' = WithRow(q, status, current)
    PROVE  HInv'
<1>1. Rows'
  BY DEF HInv, Rows, Ids, Columns, WithRow
<1>2. Numbered'
  BY DEF HInv, Numbered, Numbers
<1> QED BY <1>1, <1>2 DEF HInv

LEMMA SetStatusKeeps ==
    ASSUME HInv, NEW p \in Procs, set_policy_status(p)
    PROVE  /\ HInv' /\ versions' = versions /\ Ids' = Ids
           /\ \A q \in Ids : Current(q)' = Current(q)
<1> DEFINE q == Now(p).policy
           status == Now(p).status
<1>1. versions' = versions /\ Continue(p, <<>>, loc[p])
  BY DEF set_policy_status, Did
<1>2. Handlers'
  BY <1>1, ContinueKeeps DEF HInv, Handlers
<1>3. policies' = [policies EXCEPT ![q].status = status]
  BY DEF set_policy_status
<1>4. q \in Ids => [policies[q] EXCEPT !.status = status]
                     = [status |-> status, current |-> policies[q].current]
  BY DEF HInv, Rows
<1>5. policies' = WithRow(q, status, policies[q].current)
  BY <1>3, <1>4 DEF HInv, Rows, Ids, WithRow
<1> HIDE DEF q, status
<1>6. Ids' = Ids /\ \A k \in Ids : Current(k)' = Current(k)
  BY <1>5 DEF Current, Ids, WithRow
<1>7. HInv'
  BY <1>1, <1>2, <1>5, PoliciesKeep, Zenon
<1> QED BY <1>1, <1>6, <1>7

\* A handler points the policy at the version it has made.
LEMMA PointKeeps ==
    ASSUME HInv, NEW p \in Procs, set_policy_current_version(p)
    PROVE  /\ HInv' /\ versions' = versions /\ Ids' = Ids
           /\ \E v \in DOMAIN versions :
                 v[1] \in Ids /\ \A q \in Ids : Current(q)' = IF q = v[1] THEN v ELSE Current(q)
<1> DEFINE v == loc[p].made
           q == v[1]
<1>1. versions' = versions /\ Continue(p, <<>>, loc[p]) /\ v # None
  BY DEF set_policy_current_version, Did
<1>2. Handlers'
  BY <1>1, ContinueKeeps DEF HInv, Handlers
<1>3. v \in DOMAIN versions /\ q \in Ids
  BY <1>1 DEF HInv, Handlers, InOrder, Made, Rows
<1>4. policies' = [policies EXCEPT ![q].current = v]
  BY DEF set_policy_current_version
<1>5. [policies[q] EXCEPT !.current = v] = [status |-> policies[q].status, current |-> v]
  BY <1>3 DEF HInv, Rows
<1>6. policies' = WithRow(q, policies[q].status, v)
  BY <1>3, <1>4, <1>5 DEF HInv, Rows, Ids, WithRow
<1> HIDE DEF v
<1>7. HInv'
  BY <1>1, <1>2, <1>6, PoliciesKeep, Zenon
<1>8. Ids' = Ids /\ \A k \in Ids : Current(k)' = IF k = q THEN v ELSE Current(k)
  BY <1>6 DEF Current, Ids, WithRow
<1> QED BY <1>1, <1>3, <1>7, <1>8

\* The insertion succeeds with the next number only: its predecessor exists, and
\* it does not exist itself.
LEMMA CreateVersionKeeps ==
    ASSUME HInv, NEW p \in Procs, create_policy_version(p)
    PROVE  /\ HInv' /\ policies' = policies
           /\ \E v : /\ v \notin DOMAIN versions
                     /\ v[2] = 1 \/ <<v[1], v[2] - 1>> \in DOMAIN versions
                     /\ DOMAIN versions' = DOMAIN versions \cup {v}
                     /\ \A w \in DOMAIN versions : Said(w)' = Said(w)
<1> DEFINE v == loc[p].slot
           row == Columns(Now(p).row)
           new == [loc[p] EXCEPT !.made = v]
<1>1. /\ policies' = policies /\ Continue(p, <<>>, new)
      /\ v # None /\ v[1] \in Ids /\ v \notin DOMAIN versions
      /\ versions' = [w \in DOMAIN versions \cup {v} |-> IF w = v THEN row ELSE versions[w]]
  BY DEF create_policy_version, Put
<1>2. InOrder(loc[p], DOMAIN versions)
  BY DEF HInv, Handlers
<1>3. /\ v = <<v[1], v[2]>> /\ v[2] \in Nat \ {0}
      /\ v[2] = 1 \/ <<v[1], v[2] - 1>> \in DOMAIN versions
  BY <1>1, <1>2 DEF InOrder, Slot
<1>4. new = [todo |-> loc[p].todo, slot |-> v, made |-> v, view |-> loc[p].view,
             built |-> loc[p].built]
  BY <1>2 DEF InOrder, Shape
<1> HIDE DEF v, row
<1>5. InOrder(new, DOMAIN versions')
  <2>1. Slot(v, DOMAIN versions') /\ Made(v, DOMAIN versions')
    BY <1>1, <1>3 DEF Slot, Made
  <2> QED BY <1>4, <2>1 DEF InOrder, Shape
<1>6. Handlers'
  BY <1>1, <1>5, ContinueKeeps DEF HInv
<1>7. row = Columns(row)
  BY DEF row, Columns
<1>8. Rows'
  <2>1. policies' = [policy \in Ids' |-> policies'[policy]] /\ Ids' = Ids
    BY <1>1 DEF HInv, Rows, Ids
  <2>2. versions' = [w \in DOMAIN versions' |-> versions'[w]]
    BY <1>1
  <2>3. ASSUME NEW w \in DOMAIN versions'
        PROVE w = <<w[1], w[2]>> /\ w[1] \in Ids /\ w[2] \in Nat /\ versions'[w] = Columns(versions'[w])
    <3>1. CASE w = v
      BY <1>1, <1>3, <1>7, <3>1
    <3>2. CASE w # v
      <4>1. w \in DOMAIN versions /\ versions'[w] = versions[w]
        BY <1>1, <3>2
      <4> QED BY <4>1 DEF HInv, Rows
    <3> QED BY <3>1, <3>2
  <2>4. \A policy \in Ids' : policies'[policy] = [status |-> policies'[policy].status,
                                                  current |-> policies'[policy].current]
    BY <1>1 DEF HInv, Rows, Ids
  <2> QED BY <2>1, <2>2, <2>3, <2>4 DEF Rows, Columns
<1>9. Numbered'
  <2> SUFFICES ASSUME NEW policy PROVE \E n \in Nat : Numbers(policy)' = 1..n
    BY DEF Numbered
  <2>1. PICK n \in Nat : Numbers(policy) = 1..n
    BY DEF HInv, Numbered
  <2>2. \A k : k \in Numbers(policy) <=> <<policy, k>> \in DOMAIN versions
    BY NumbersOf DEF HInv
  <2>3. \A k : k \in Numbers(policy)' <=> <<policy, k>> \in DOMAIN versions'
    BY <1>8 DEF Rows, Numbers
  <2>4. CASE policy # v[1]
    <3>1. \A k : <<policy, k>> # v
      BY <1>3, <2>4
    <3> QED BY <1>1, <2>1, <2>2, <2>3, <3>1
  <2>5. CASE policy = v[1]
    <3>1. v[2] \notin 1..n
      BY <1>1, <1>3, <2>1, <2>2, <2>5
    <3>2. v[2] = 1 \/ v[2] - 1 \in 1..n
      BY <1>3, <2>1, <2>2, <2>5
    <3>3. v[2] = n + 1
      BY <1>3, <3>1, <3>2
    <3>4. \A k : <<policy, k>> = v <=> k = n + 1
      BY <1>3, <2>5, <3>3
    <3>5. \A k : k \in Numbers(policy)' <=> k \in 1..n \/ k = n + 1
      BY <1>1, <2>1, <2>2, <2>3, <3>4
    <3>6. \A k : k \in 1..(n + 1) <=> k \in 1..n \/ k = n + 1
      OBVIOUS
    <3>7. Numbers(policy)' = 1..(n + 1)
      BY <3>5, <3>6 DEF Numbers
    <3> QED BY <3>7
  <2> QED BY <2>4, <2>5
<1>10. \A w \in DOMAIN versions : Said(w)' = Said(w)
  BY <1>1 DEF Said
<1> QED BY <1>1, <1>3, <1>6, <1>8, <1>9, <1>10 DEF HInv

-----------------------------------------------------------------------------
\* The invariant, and the refinement.

LEMMA HInvHoldsInitially == ASSUME Init PROVE HInv
<1>1. Rows
  BY DEF Init, Rows, Ids
<1>2. \A policy : Numbers(policy) = 1..0
  BY DEF Init, Numbers
<1>3. Handlers
  BY DEF Init, Handlers, InOrder, Shape, Slot, Made, Idle
<1> QED BY <1>1, <1>2, <1>3 DEF HInv, Numbered

\* What a step can do to the history.
HistoryStep ==
    \/ Still
    \/ \E p \in Procs : create_policy(p) \/ create_policy_version(p)
                        \/ set_policy_version_status(p) \/ set_policy_current_version(p)
                        \/ set_policy_status(p)

LEMMA HInvIsInductive == ASSUME HInv, [Next]_vars PROVE HInv' /\ HistoryStep
<1>0. ASSUME NEW p \in Procs, Still, Goes(p) PROVE HInv'
  <2>1. GoesAlike(p)
    BY <1>0 DEF Goes, GoesAlike, Alike
  <2> QED BY <1>0, <2>1, QuietKeeps
<1>1. ASSUME NEW p \in Procs, Start(p) PROVE HInv' /\ HistoryStep
  <2>1. Still /\ \E r : loc' = [loc EXCEPT ![p].todo = <<r>>]
    BY <1>1 DEF Start, Still, tables
  <2>2. PICK r : loc' = [loc EXCEPT ![p].todo = <<r>>]
    BY <2>1
  <2>3. InOrder(loc[p], DOMAIN versions)
    BY DEF HInv, Handlers
  <2>4. [loc[p] EXCEPT !.todo = <<r>>] = [todo |-> <<r>>, slot |-> loc[p].slot,
           made |-> loc[p].made, view |-> loc[p].view, built |-> loc[p].built]
    BY <2>3 DEF InOrder, Shape
  <2>5. InOrder([loc[p] EXCEPT !.todo = <<r>>], DOMAIN versions)
    BY <2>3, <2>4 DEF InOrder, Shape
  <2> DEFINE h == [loc[p] EXCEPT !.todo = <<r>>]
  <2>6. loc' = [q \in Procs |-> IF q = p THEN h ELSE loc[q]]
    BY <2>2 DEF HInv, Handlers
  <2> HIDE DEF h
  <2>7. \A q \in Procs : InOrder(loc'[q], DOMAIN versions)
    BY <2>5, <2>6 DEF h, HInv, Handlers
  <2>8. Handlers'
    BY <2>1, <2>6, <2>7 DEF Handlers, Still
  <2> QED BY <2>1, <2>8, TablesKeep DEF Still, HistoryStep
<1>2. ASSUME NEW p \in Procs, Operation(p) PROVE HInv' /\ HistoryStep
  BY <1>0, <1>2, OperationsAreQuiet DEF HistoryStep
<1>3. ASSUME NEW p \in Procs, Call(p) PROVE HInv' /\ HistoryStep
  <2>1. CASE VersionTaken(p) \/ record_lineage(p) \/ record_lifecycle_action(p)
             \/ upsert_recommendation(p) \/ update_recommendation_status(p)
    BY <1>0, <2>1, OtherCallsAreQuiet DEF HistoryStep
  <2>2. CASE next_policy_version_number(p)
    BY <2>2, NextNumberKeeps DEF HistoryStep
  <2>3. CASE create_policy(p)
    BY <2>3, CreatePolicyKeeps DEF HistoryStep
  <2>4. CASE create_policy_version(p)
    BY <2>4, CreateVersionKeeps DEF HistoryStep
  <2>5. CASE set_policy_version_status(p)
    BY <2>5, RetireKeeps DEF HistoryStep
  <2>6. CASE set_policy_current_version(p)
    BY <2>6, PointKeeps DEF HistoryStep
  <2>7. CASE set_policy_status(p)
    BY <2>7, SetStatusKeeps DEF HistoryStep
  <2> QED BY <1>3, <2>1, <2>2, <2>3, <2>4, <2>5, <2>6, <2>7 DEF Call
<1>4. ASSUME NEW p \in Procs, FileStep(p) \/ ReplaceFails(p) PROVE HInv' /\ HistoryStep
  BY <1>4, FileStepsAreQuiet, QuietKeeps DEF HistoryStep
<1>5. ASSUME NEW p \in Procs, Crash(p) PROVE HInv' /\ HistoryStep
  <2>1. Still /\ Goes(p)
    BY <1>5 DEF Crash, Still, Goes, tables
  <2> QED BY <1>0, <2>1 DEF HistoryStep
<1>6. CASE record_evaluation_comparison \/ HumanEdit \/ UNCHANGED vars
  <2>1. Still /\ loc' = loc
    BY <1>6 DEF record_evaluation_comparison, HumanEdit, vars, tables, Still
  <2>2. Handlers'
    BY <2>1 DEF HInv, Handlers, Still
  <2> QED BY <2>1, <2>2, TablesKeep DEF Still, HistoryStep
<1> QED BY <1>1, <1>2, <1>3, <1>4, <1>5, <1>6 DEF Next, Step

\* Every step is one of the history, or none.
LEMMA StepsOfTheHistory ==
    ASSUME HInv, HistoryStep
    PROVE  [History!Next]_(History!historyVars)
<1>1. CASE Still
  BY <1>1 DEF Still, History!historyVars, Said, Current, Ids
<1>2. ASSUME NEW p \in Procs, create_policy(p) PROVE [History!Next]_(History!historyVars)
  <2> DEFINE q == Now(p).policy
             row == [status |-> "active", current |-> None]
  <2>1. versions' = versions
    BY <1>2 DEF create_policy
  <2>2. \/ policies' = policies
        \/ /\ q \notin Ids
           /\ policies' = [k \in Ids \cup {q} |-> IF k = q THEN row ELSE policies[k]]
    BY <1>2 DEF create_policy, Put, Ids
  <2>3. CASE policies' = policies
    BY <2>1, <2>3 DEF History!historyVars, Said, Current, Ids
  <2>4. CASE q \notin Ids /\ policies' = [k \in Ids \cup {q} |-> IF k = q THEN row ELSE policies[k]]
    <3> HIDE DEF q
    <3>1. Ids' = Ids \cup {q}
      BY <2>4 DEF Ids
    <3>2. \A k \in Ids' : Current(k)' = IF k = q THEN None ELSE Current(k)
      BY <2>4, <3>1 DEF Current
    <3>3. History!Found
      BY <2>1, <2>4, <3>1, <3>2 DEF History!Found, Said
    <3> QED BY <3>3 DEF History!Next
  <2> QED BY <2>2, <2>3, <2>4
<1>3. ASSUME NEW p \in Procs, create_policy_version(p) PROVE [History!Next]_(History!historyVars)
  <2>1. PICK v : /\ v \notin DOMAIN versions
                 /\ v[2] = 1 \/ <<v[1], v[2] - 1>> \in DOMAIN versions
                 /\ DOMAIN versions' = DOMAIN versions \cup {v}
                 /\ \A w \in DOMAIN versions : Said(w)' = Said(w)
    BY <1>3, CreateVersionKeeps
  <2>2. policies' = policies
    BY <1>3, CreateVersionKeeps
  <2>3. History!Write
    BY <2>1, <2>2 DEF History!Write, Current, Ids
  <2> QED BY <2>3 DEF History!Next
<1>4. ASSUME NEW p \in Procs, set_policy_version_status(p) PROVE [History!Next]_(History!historyVars)
  BY <1>4, RetireKeeps DEF History!historyVars, Current, Ids
<1>5. ASSUME NEW p \in Procs, set_policy_current_version(p) PROVE [History!Next]_(History!historyVars)
  <2>1. PICK v \in DOMAIN versions :
            v[1] \in Ids /\ \A q \in Ids : Current(q)' = IF q = v[1] THEN v ELSE Current(q)
    BY <1>5, PointKeeps
  <2>2. versions' = versions /\ Ids' = Ids
    BY <1>5, PointKeeps
  <2>3. History!Move
    BY <2>1, <2>2 DEF History!Move, Said
  <2> QED BY <2>3 DEF History!Next
<1>6. ASSUME NEW p \in Procs, set_policy_status(p) PROVE [History!Next]_(History!historyVars)
  BY <1>6, SetStatusKeeps DEF History!historyVars, Said
<1> QED BY <1>1, <1>2, <1>3, <1>4, <1>5, <1>6 DEF HistoryStep

\* At all times, in any interleaving, a policy's versions are numbered 1..n and
\* every handler is at most one step from the end of them (service.py:94,
\* repository.py:1485 and the unique key of policy_versions).
THEOREM VersionsNumbered == Spec => []HInv
<1> QED BY HInvHoldsInitially, HInvIsInductive, PTL DEF Spec

\* The service implements VersionHistory: versions never change or vanish, are
\* numbered without gaps, and the current one is one of them (service.py:9-13).
THEOREM HistoryHolds == Spec => HistoryRespected
<1>1. Init => History!Init
  BY DEF Init, History!Init, Ids
<1>2. HInv /\ [Next]_vars => [History!Next]_(History!historyVars)
  BY HInvIsInductive, StepsOfTheHistory
<1> QED BY <1>1, <1>2, VersionsNumbered, PTL DEF Spec, HistoryRespected, History!Spec

-----------------------------------------------------------------------------
\* The lists of calls.  What a call writes depends on the calls before it: an edge
\* needs the version that was inserted, and the pointer may only follow an edge.  So
\* the invariant is about places in a list (Fits), and a call may rely on what the one
\* before it did, until it comes to be first: then on what the handler holds.

IsSeq(s) == s \in Seq(ToSet(s))

FileCalls == {"build_preview", "record_lifecycle_preview", "latest_lifecycle_preview", "build",
              "recheck", "_atomic_replace", "record_lifecycle_application",
              "consume_lifecycle_preview"}

\* The calls that make a version the current one.
VersionCalls == {"next_policy_version_number", "create_policy_version", "record_lineage",
                 "set_policy_version_status", "set_policy_current_version"}

\* What a call on a list can be asked to write, with the versions V and the writes H.
Item(c, V, H) ==
    /\ c.do = "adopt" => c.review \in Reviews /\ c.says \in Proposals
    /\ c.do = "split" => c.children \in ChildLists
    /\ c.do = "split_child" => c.source \in DOMAIN V /\ c.child.placement \in Placements
    /\ c.do = "create_policy" => IsId(c.policy)
    /\ c.do = "set_policy_status" => c.status \in {"active", "disabled", "pruned"}
    /\ c.do = "create_policy_version" =>
          /\ c.row.placement \in Placements /\ c.row.status = "active"
          /\ c.row.review \in Reviews \cup {None}
    /\ c.do = "record_lineage" => c.relation \in Kinds /\ c.from \in DOMAIN V
    /\ c.do = "set_policy_version_status" => c.status \in {"superseded", "rolled_back"}
    /\ c.do = "update_recommendation_status" => c.status \in {"accepted", "rejected", "deferred"}
    /\ c.do \in FileCalls => c.version \in DOMAIN V
    /\ c.do \in {"upsert_recommendation", "accept_recommendation"} =>
          c.rec.op \in {"demote", "disable", "promote", "retain"}
    /\ c.do = "record_lifecycle_application" /\ c.outcome = "applied" => c.version \in H

\* A version of an adopted policy is an adoption's or has an edge from the policy.
Traced(v, V, L) ==
    v[1][1] = "review" /\ V[v].via # "initial" => \E edge \in L : edge[3] = v /\ edge[2][1] = v[1]

\* The policy of the version that the handler will have made when it comes to place i.
PolicyOf(t, slot, made, i) ==
    IF i = 1 THEN made[1] ELSE IF i = 2 THEN slot[1] ELSE t[i - 2].policy

\* What comes before each of the calls that make a version.
Inserts(t, slot, i) ==
    t[i].do = "create_policy_version" =>
        /\ i > 1 => t[i - 1].do = "next_policy_version_number"
        /\ t[i].row.review # None =>
              AdoptId(t[i].row.review) = IF i = 1 THEN slot[1] ELSE t[i - 1].policy
Links(t, made, i) ==
    t[i].do = "record_lineage" =>
        IF i = 1 THEN made # None
        ELSE t[i - 1].do \in {"create_policy_version", "record_lineage", "set_policy_current_version"}
Retires(t, slot, made, i, V, L) ==
    t[i].do = "set_policy_version_status" =>
        IF i = 1 THEN made # None /\ Traced(made, V, L)
        ELSE /\ t[i - 1].do = "record_lineage"
             /\ t[i - 1].from[1] = PolicyOf(t, slot, made, i - 1)
             /\ i > 2 => t[i - 2].do = "create_policy_version"
Points(t, slot, made, i, V, L) ==
    t[i].do = "set_policy_current_version" =>
        IF i = 1 THEN made # None /\ Traced(made, V, L)
        ELSE \/ t[i - 1].do = "set_policy_version_status"
             \/ /\ t[i - 1].do = "create_policy_version"
                /\ t[i - 1].row.via = "initial" \/ PolicyOf(t, slot, made, i)[1] # "review"

Fits(t, slot, made, i, V, L) ==
    /\ Inserts(t, slot, i) /\ Links(t, made, i)
    /\ Retires(t, slot, made, i, V, L) /\ Points(t, slot, made, i, V, L)

\* A list of calls that keeps the tables in order.
Good(t, slot, made, V, L, H) ==
    /\ IsSeq(t)
    /\ \A i \in 1..Len(t) : Item(t[i], V, H) /\ Fits(t, slot, made, i, V, L)

\* A version that names a review is of the policy adopted from it.
Reviewed == \A v \in DOMAIN versions :
                versions[v].review # None => v[1] = AdoptId(versions[v].review)

\* A policy points at a version of its own.
OwnCurrent == \A q \in Ids : Current(q) # None => Current(q)[1] = q

\* The counts are some comparisons may come to.
Counted == evidence \in [Reviews -> Evidence \cup {NoEvidence}]

\* What can be recommended.
Advised == \A r \in DOMAIN recs : r.op \in {"demote", "disable", "promote", "retain"}

Lists == \A p \in Procs : Good(loc[p].todo, loc[p].slot, loc[p].made, versions, lineage, hit)

LInv ==
    /\ HInv /\ TypeOK /\ Lists
    /\ Reviewed /\ OwnCurrent /\ Counted /\ Advised
    /\ AppliedWasWritten /\ CurrentHasOrigin

-----------------------------------------------------------------------------
\* Sequences, and lists that grow and shrink.

LEMMA Sequence == ASSUME NEW S, NEW s \in Seq(S) PROVE IsSeq(s)
BY DEF IsSeq, ToSet

LEMMA RestOf ==
    ASSUME NEW plan, NEW t, IsSeq(plan), IsSeq(t), t # <<>>
    PROVE  /\ IsSeq(plan \o Tail(t))
           /\ Len(plan) \in Nat /\ Len(t) \in Nat \ {0}
           /\ Len(plan \o Tail(t)) = Len(plan) + Len(t) - 1
           /\ \A i \in 1..Len(plan) : (plan \o Tail(t))[i] = plan[i]
           /\ \A i \in Len(plan) + 1..Len(plan) + Len(t) - 1 :
                 (plan \o Tail(t))[i] = t[i - Len(plan) + 1]
<1> DEFINE S == ToSet(plan) \cup ToSet(t)
<1>1. plan \in Seq(S) /\ t \in Seq(S)
  BY DEF IsSeq, ToSet
<1> HIDE DEF S
<1>2. Tail(t) \in Seq(S) /\ Len(Tail(t)) = Len(t) - 1 /\ Len(t) \in Nat \ {0}
      /\ \A i \in 1..Len(t) - 1 : Tail(t)[i] = t[i + 1]
  BY <1>1
<1>3. plan \o Tail(t) \in Seq(S)
  BY <1>1, <1>2
<1>4. Len(plan \o Tail(t)) = Len(plan) + Len(t) - 1 /\ Len(plan) \in Nat
  BY <1>1, <1>2
<1>5. \A i \in 1..Len(plan) : (plan \o Tail(t))[i] = plan[i]
  BY <1>1, <1>2
<1>6. ASSUME NEW i \in Len(plan) + 1..Len(plan) + Len(t) - 1
      PROVE (plan \o Tail(t))[i] = t[i - Len(plan) + 1]
  <2>1. (plan \o Tail(t))[i] = Tail(t)[i - Len(plan)]
    BY <1>1, <1>2, <1>4
  <2>2. i - Len(plan) \in 1..Len(t) - 1 /\ i - Len(plan) + 1 = (i - Len(plan)) + 1
    BY <1>2, <1>4
  <2> QED BY <2>1, <2>2, <1>2
<1> QED BY <1>2, <1>3, <1>4, <1>5, <1>6, Sequence

LEMMA TailOf ==
    ASSUME NEW t, IsSeq(t), t # <<>>
    PROVE  <<>> \o Tail(t) = Tail(t) /\ IsSeq(Tail(t)) /\ Len(t) \in Nat \ {0}
           /\ Len(Tail(t)) = Len(t) - 1 /\ \A i \in 1..Len(t) - 1 : Tail(t)[i] = t[i + 1]
<1>1. t \in Seq(ToSet(t))
  BY DEF IsSeq
<1> DEFINE S == ToSet(t)
<1> HIDE DEF S
<1>2. Tail(t) \in Seq(S) /\ Len(Tail(t)) = Len(t) - 1 /\ Len(t) \in Nat \ {0}
      /\ \A i \in 1..Len(t) - 1 : Tail(t)[i] = t[i + 1]
  BY <1>1 DEF S
<1>3. <<>> \o Tail(t) = Tail(t)
  BY <1>2
<1> QED BY <1>2, <1>3, Sequence

\* Versions, edges and writes are only ever added.
Grows(V, L, H, W, M, K) ==
    /\ DOMAIN V \subseteq DOMAIN W /\ L \subseteq M /\ H \subseteq K
    /\ \A v \in DOMAIN V : W[v].via = V[v].via

LEMMA GoodGrows ==
    ASSUME NEW V, NEW L, NEW H, NEW W, NEW M, NEW K, Grows(V, L, H, W, M, K),
           NEW t, NEW slot, NEW made, Made(made, DOMAIN V), Good(t, slot, made, V, L, H)
    PROVE  Good(t, slot, made, W, M, K)
<1>1. \A i \in 1..Len(t) : Item(t[i], V, H) => Item(t[i], W, K)
  BY DEF Grows, Item
<1>2. made # None /\ Traced(made, V, L) => Traced(made, W, M)
  BY DEF Grows, Made, Traced
<1>3. \A i \in 1..Len(t) : Fits(t, slot, made, i, V, L) => Fits(t, slot, made, i, W, M)
  BY <1>2 DEF Fits, Retires, Points
<1> QED BY <1>1, <1>3 DEF Good

\* Beyond the third place, what fits depends on nothing but the calls just before.
LEMMA SameFit ==
    ASSUME NEW V, NEW L, NEW t, NEW slot, NEW made, NEW u, NEW slot2, NEW made2,
           NEW i \in Nat, NEW k \in Nat, i > 3, k > 3,
           u[i] = t[k], u[i - 1] = t[k - 1], u[i - 2] = t[k - 2], u[i - 3] = t[k - 3],
           Fits(t, slot, made, k, V, L)
    PROVE  Fits(u, slot2, made2, i, V, L)
<1>1. i # 1 /\ i # 2 /\ k # 1 /\ k # 2 /\ i > 1 /\ k > 1 /\ i > 2 /\ k > 2
  OBVIOUS
<1>2. i - 1 # 1 /\ i - 1 # 2 /\ k - 1 # 1 /\ k - 1 # 2
  OBVIOUS
<1>3. i - 1 - 2 = i - 3 /\ k - 1 - 2 = k - 3
  OBVIOUS
<1>4. PolicyOf(u, slot2, made2, i) = PolicyOf(t, slot, made, k)
  BY <1>1, Zenon DEF PolicyOf
<1>5. PolicyOf(u, slot2, made2, i - 1) = u[i - 3].policy
  BY <1>2, <1>3, Zenon DEF PolicyOf
<1>6. PolicyOf(t, slot, made, k - 1) = t[k - 3].policy
  BY <1>2, <1>3, Zenon DEF PolicyOf
<1>7. PolicyOf(u, slot2, made2, i - 1) = PolicyOf(t, slot, made, k - 1)
  BY <1>5, <1>6, Zenon
<1>8. Inserts(u, slot2, i) /\ Links(u, made2, i)
  BY <1>1 DEF Fits, Inserts, Links
<1>9. Retires(u, slot2, made2, i, V, L)
  BY <1>1, <1>7 DEF Fits, Retires
<1>10. Points(u, slot2, made2, i, V, L)
  BY <1>1, <1>4 DEF Fits, Points
<1> QED BY <1>8, <1>9, <1>10 DEF Fits

\* A request is replaced by a list of its own.
LEMMA PlanGood ==
    ASSUME NEW V, NEW L, NEW H, NEW slot, NEW made, NEW t, t # <<>>,
           Good(t, slot, made, V, L, H), t[1].do \notin VersionCalls,
           NEW plan, Good(plan, slot, made, V, L, H)
    PROVE  Good(plan \o Tail(t), slot, made, V, L, H)
<1> DEFINE u == plan \o Tail(t)
           n == Len(plan)
<1>1. /\ IsSeq(u) /\ n \in Nat /\ Len(t) \in Nat \ {0} /\ Len(u) = n + Len(t) - 1
      /\ \A i \in 1..n : u[i] = plan[i]
      /\ \A i \in n + 1..n + Len(t) - 1 : u[i] = t[i - n + 1]
  BY RestOf DEF Good
<1> HIDE DEF u, n
<1>2. ASSUME NEW i \in 1..n PROVE Item(u[i], V, H) /\ Fits(u, slot, made, i, V, L)
  <2>1. Item(plan[i], V, H) /\ Fits(plan, slot, made, i, V, L)
    BY <1>2 DEF Good, n
  <2>2. /\ u[i] = plan[i] /\ (i > 1 => i - 1 \in 1..n /\ u[i - 1] = plan[i - 1])
        /\ (i > 2 => i - 2 \in 1..n /\ u[i - 2] = plan[i - 2])
        /\ (i > 3 => i - 3 \in 1..n /\ u[i - 3] = plan[i - 3])
    BY <1>1
  <2> QED BY <1>1, <2>1, <2>2 DEF Fits, Inserts, Links, Retires, Points, PolicyOf
<1>3. ASSUME NEW i \in n + 1..n + Len(t) - 1
      PROVE Item(u[i], V, H) /\ Fits(u, slot, made, i, V, L)
  <2> DEFINE k == i - n + 1
  <2>1. k \in 2..Len(t) /\ u[i] = t[k]
    BY <1>1
  <2>2. Item(t[k], V, H) /\ Fits(t, slot, made, k, V, L)
        /\ (k > 2 => Fits(t, slot, made, 2, V, L))
    BY <2>1, <1>1 DEF Good
  <2>3. CASE k = 2
    BY <2>1, <2>2, <2>3 DEF Fits, Inserts, Links, Retires, Points, VersionCalls
  <2>4. CASE k = 3
    <3>1. t[2].do # "create_policy_version" /\ t[2].do # "record_lineage"
          /\ t[2].do # "set_policy_current_version" /\ t[2].do # "set_policy_version_status"
      BY <2>2, <2>4 DEF Fits, Inserts, Links, Retires, Points, VersionCalls
    <3>2. i > 1 /\ u[i - 1] = t[2]
      BY <1>1, <2>1, <2>4
    <3> QED BY <2>1, <2>2, <2>4, <3>1, <3>2 DEF Fits, Inserts, Links, Retires, Points
  <2>5. CASE k = 4
    <3>1. t[2].do # "create_policy_version"
      BY <2>2, <2>5 DEF Fits, Inserts, VersionCalls
    <3>2. i > 2 /\ u[i - 1] = t[3] /\ u[i - 2] = t[2]
      BY <1>1, <2>1, <2>5
    <3> QED BY <2>1, <2>2, <2>5, <3>1, <3>2 DEF Fits, Inserts, Links, Retires, Points, PolicyOf
  <2>6. CASE k > 4
    <3>1. i > 3 /\ u[i - 1] = t[k - 1] /\ u[i - 2] = t[k - 2] /\ u[i - 3] = t[k - 3]
      BY <1>1, <2>1, <2>6
    <3>2. i \in Nat /\ k \in Nat
      BY <1>1, <2>1
    <3> HIDE DEF k
    <3> QED BY <2>1, <2>2, <2>6, <3>1, <3>2, SameFit
  <2> QED BY <2>1, <2>3, <2>4, <2>5, <2>6
<1>4. \A i \in 1..Len(u) : i \in 1..n \/ i \in n + 1..n + Len(t) - 1
  BY <1>1
<1> QED BY <1>1, <1>2, <1>3, <1>4 DEF Good, u

\* The call at the head of a list is made: what the handler holds afterwards.
LEMMA TailGood ==
    ASSUME NEW V, NEW L, NEW H, NEW slot, NEW made, NEW slot2, NEW made2, NEW t, t # <<>>,
           Good(t, slot, made, V, L, H),
           IF t[1].do = "next_policy_version_number" THEN slot2[1] = t[1].policy ELSE slot2 = slot,
           IF t[1].do = "create_policy_version"
           THEN made2 = slot /\ slot # None
                /\ (t[1].row.via = "initial" \/ slot[1][1] # "review" => Traced(slot, V, L))
           ELSE made2 = made,
           t[1].do = "record_lineage" /\ t[1].from[1] = made[1] => Traced(made, V, L)
    PROVE  Good(Tail(t), slot2, made2, V, L, H)
<1> DEFINE u == Tail(t)
<1>1. /\ IsSeq(u) /\ Len(t) \in Nat \ {0} /\ Len(u) = Len(t) - 1
      /\ \A i \in 1..Len(t) - 1 : u[i] = t[i + 1]
  BY TailOf DEF Good
<1> HIDE DEF u
<1> SUFFICES ASSUME NEW i \in 1..Len(u)
             PROVE  Item(u[i], V, H) /\ Fits(u, slot2, made2, i, V, L)
  BY <1>1 DEF Good, u
<1> DEFINE k == i + 1
<1>2. k \in 2..Len(t) /\ u[i] = t[k]
  BY <1>1
<1>3. Item(t[k], V, H) /\ Fits(t, slot, made, k, V, L) /\ Fits(t, slot, made, 1, V, L)
      /\ (k > 2 => Fits(t, slot, made, 2, V, L))
  BY <1>1, <1>2 DEF Good
<1>4. CASE i = 1
  <2>1. k = 2
    BY <1>4
  <2>2. Inserts(u, slot2, i)
    BY <1>2, <1>3, <1>4, <2>1 DEF Fits, Inserts
  <2>3. Links(u, made2, i)
    BY <1>2, <1>3, <1>4, <2>1 DEF Fits, Links, Points
  <2>4. Retires(u, slot2, made2, i, V, L)
    BY <1>2, <1>3, <1>4, <2>1 DEF Fits, Retires, Links, PolicyOf
  <2>5. Points(u, slot2, made2, i, V, L)
    BY <1>2, <1>3, <1>4, <2>1 DEF Fits, Points, Retires, PolicyOf
  <2> QED BY <1>2, <1>3, <2>2, <2>3, <2>4, <2>5 DEF Fits
<1>5. CASE i = 2
  <2>1. k = 3 /\ u[1] = t[2]
    BY <1>1, <1>2, <1>5
  <2>2. Inserts(u, slot2, i) /\ Links(u, made2, i)
    BY <1>2, <1>3, <1>5, <2>1 DEF Fits, Inserts, Links
  <2>3. Retires(u, slot2, made2, i, V, L)
    BY <1>2, <1>3, <1>5, <2>1 DEF Fits, Retires, PolicyOf
  <2>4. Points(u, slot2, made2, i, V, L)
    BY <1>2, <1>3, <1>5, <2>1 DEF Fits, Points, Inserts, PolicyOf
  <2> QED BY <1>2, <1>3, <2>2, <2>3, <2>4 DEF Fits
<1>6. CASE i = 3
  <2>1. k = 4 /\ u[1] = t[2] /\ u[2] = t[3]
    BY <1>1, <1>2, <1>6
  <2>2. Inserts(u, slot2, i) /\ Links(u, made2, i)
    BY <1>2, <1>3, <1>6, <2>1 DEF Fits, Inserts, Links
  <2>3. Retires(u, slot2, made2, i, V, L)
    BY <1>2, <1>3, <1>6, <2>1 DEF Fits, Retires, Inserts, PolicyOf
  <2>4. Points(u, slot2, made2, i, V, L)
    BY <1>2, <1>3, <1>6, <2>1 DEF Fits, Points, PolicyOf
  <2> QED BY <1>2, <1>3, <2>2, <2>3, <2>4 DEF Fits
<1>7. CASE i > 3
  <2> DEFINE Same(j) == j \in 1..Len(t) - 1 => u[j] = t[j + 1]
  <2>1. Same(i - 1) /\ Same(i - 2) /\ Same(i - 3)
    BY <1>1
  <2>2. i - 1 \in 1..Len(t) - 1 /\ i - 2 \in 1..Len(t) - 1 /\ i - 3 \in 1..Len(t) - 1
    BY <1>1, <1>7
  <2>3. (i - 1) + 1 = k - 1 /\ (i - 2) + 1 = k - 2 /\ (i - 3) + 1 = k - 3
    BY <1>1
  <2>4. u[i - 1] = t[k - 1] /\ u[i - 2] = t[k - 2] /\ u[i - 3] = t[k - 3]
    BY <2>1, <2>2, <2>3, Zenon
  <2>5. i \in Nat /\ k \in Nat /\ k > 3
    BY <1>1, <1>2, <1>7
  <2> HIDE DEF k
  <2> QED BY <1>2, <1>3, <1>7, <2>4, <2>5, SameFit
<1> QED BY <1>1, <1>4, <1>5, <1>6, <1>7

-----------------------------------------------------------------------------
\* The lists the operations make are in order.

\* A list with none of the calls that make a version.
LEMMA PlainGood ==
    ASSUME NEW V, NEW L, NEW H, NEW slot, NEW made, NEW t, IsSeq(t),
           \A i \in 1..Len(t) : Item(t[i], V, H) /\ t[i].do \notin VersionCalls
    PROVE  Good(t, slot, made, V, L, H)
BY DEF Good, Fits, Inserts, Links, Retires, Points, VersionCalls

\* What a row that can be inserted says.
RowOf(row, policy) ==
    /\ row.placement \in Placements /\ row.status = "active"
    /\ row.review \in Reviews \cup {None} /\ (row.review # None => policy = AdoptId(row.review))

LEMMA SucceedGood ==
    ASSUME NEW V, NEW L, NEW H, NEW slot, NEW made, NEW policy, NEW relation, NEW row, NEW from,
           NEW old, RowOf(row, policy), relation \in Kinds, from \in DOMAIN V, from[1] = policy,
           old \in {"superseded", "rolled_back"}
    PROVE  Good(Succeed(policy, relation, row, from, old), slot, made, V, L, H)
<1> DEFINE t == Succeed(policy, relation, row, from, old)
<1>1. /\ IsSeq(t) /\ Len(t) = 6
      /\ t[1] = Number(policy) /\ t[2] = Insert(row) /\ t[3] = Edge(relation, from)
      /\ t[4] = Retire(Current(policy), old) /\ t[5] = Point /\ t[6] = LogNew(policy, row.via)
  BY DEF Succeed, IsSeq, ToSet
<1> HIDE DEF t
<1>2. \A i \in 1..6 : Item(t[i], V, H)
  BY <1>1 DEF Item, RowOf, Number, Insert, Edge, Retire, Point, LogNew, Log, FileCalls
<1>3. \A i \in 1..6 : Fits(t, slot, made, i, V, L)
  <2>1. \A i \in 1..6 : Inserts(t, slot, i) /\ Links(t, made, i)
    BY <1>1 DEF Inserts, Links, RowOf, Number, Insert, Edge, Retire, Point, LogNew, Log
  <2>2. \A i \in 1..6 : Retires(t, slot, made, i, V, L) /\ Points(t, slot, made, i, V, L)
    BY <1>1 DEF Retires, Points, PolicyOf, Number, Insert, Edge, Retire, Point, LogNew, Log
  <2> QED BY <2>1, <2>2 DEF Fits
<1> QED BY <1>1, <1>2, <1>3 DEF Good, t

LEMMA AdoptGood ==
    ASSUME NEW V, NEW L, NEW H, NEW slot, NEW made, NEW row, NEW id, IsId(id),
           RowOf(row, id), row.via = "initial"
    PROVE  Good(<<Create(id), Number(id), Insert(row), Point, LogNew(id, "adopt")>>,
                slot, made, V, L, H)
<1> DEFINE t == <<Create(id), Number(id), Insert(row), Point, LogNew(id, "adopt")>>
<1>1. /\ IsSeq(t) /\ Len(t) = 5
      /\ t[1] = Create(id) /\ t[2] = Number(id) /\ t[3] = Insert(row)
      /\ t[4] = Point /\ t[5] = LogNew(id, "adopt")
  BY DEF IsSeq, ToSet
<1> HIDE DEF t
<1>2. \A i \in 1..5 : Item(t[i], V, H)
  BY <1>1 DEF Item, RowOf, Create, Number, Insert, Point, LogNew, Log, FileCalls
<1>3. \A i \in 1..5 : Fits(t, slot, made, i, V, L)
  BY <1>1 DEF Fits, Inserts, Links, Retires, Points, RowOf, Create, Number, Insert, Point, LogNew,
             Log
<1> QED BY <1>1, <1>2, <1>3 DEF Good, t

LEMMA MergeGood ==
    ASSUME NEW V, NEW L, NEW H, NEW slot, NEW made, NEW row, NEW id, IsId(id),
           id[1] # "review", RowOf(row, id), NEW va \in DOMAIN V, NEW vb \in DOMAIN V,
           NEW a, NEW b
    PROVE  Good(<<Create(id), Number(id), Insert(row), Point,
                  Edge("merge_parent", va), Edge("merge_parent", vb),
                  LogNew(id, "merge"), Log(a, va, "merged_into"), Log(b, vb, "merged_into")>>,
                slot, made, V, L, H)
<1> DEFINE t == <<Create(id), Number(id), Insert(row), Point,
                  Edge("merge_parent", va), Edge("merge_parent", vb),
                  LogNew(id, "merge"), Log(a, va, "merged_into"), Log(b, vb, "merged_into")>>
<1>1. /\ IsSeq(t) /\ Len(t) = 9
      /\ t[1] = Create(id) /\ t[2] = Number(id) /\ t[3] = Insert(row) /\ t[4] = Point
      /\ t[5] = Edge("merge_parent", va) /\ t[6] = Edge("merge_parent", vb)
      /\ t[7] = LogNew(id, "merge") /\ t[8] = Log(a, va, "merged_into")
      /\ t[9] = Log(b, vb, "merged_into")
  BY DEF IsSeq, ToSet
<1> HIDE DEF t
<1>2. \A i \in 1..9 : Item(t[i], V, H)
  BY <1>1 DEF Item, RowOf, Create, Number, Insert, Edge, Point, LogNew, Log, FileCalls, Kinds
<1>3. \A i \in 1..9 : Fits(t, slot, made, i, V, L)
  BY <1>1 DEF Fits, Inserts, Links, Retires, Points, PolicyOf, RowOf, Create, Number, Insert, Edge,
             Point, LogNew, Log
<1> QED BY <1>1, <1>2, <1>3 DEF Good, t

LEMMA ChildGood ==
    ASSUME NEW V, NEW L, NEW H, NEW slot, NEW made, NEW source \in DOMAIN V, NEW child,
           child.placement \in Placements
    PROVE  Good(MakeChild(source, child), slot, made, V, L, H)
<1> DEFINE id == SplitId(source, child)
           row == Row(child.content, child.placement, child.scope, None, None, "split")
           t == MakeChild(source, child)
<1>1. /\ IsSeq(t) /\ Len(t) = 7
      /\ t[1] = Create(id) /\ t[2] = SetStatus(id, "disabled") /\ t[3] = Number(id)
      /\ t[4] = Insert(row) /\ t[5] = Point /\ t[6] = Edge("split_child", source)
      /\ t[7] = LogNew(id, "split_created")
  BY DEF MakeChild, IsSeq, ToSet
<1>2. IsId(id) /\ id[1] # "review" /\ RowOf(row, id)
  BY DEF IsId, SplitId, RowOf, Row
<1> HIDE DEF t, id, row
<1>3. \A i \in 1..7 : Item(t[i], V, H)
  BY <1>1, <1>2 DEF Item, RowOf, Create, SetStatus, Number, Insert, Edge, Point, LogNew, Log,
                    FileCalls, Kinds
<1>4. \A i \in 1..7 : Fits(t, slot, made, i, V, L)
  BY <1>1, <1>2 DEF Fits, Inserts, Links, Retires, Points, PolicyOf, RowOf, Create, SetStatus,
                    Number, Insert, Edge, Point, LogNew, Log
<1> QED BY <1>1, <1>3, <1>4 DEF Good, t

-----------------------------------------------------------------------------
\* What a step leaves in order.

\* No version can do badly while its predecessor does well: they have the same
\* evidence, or one of them has none.
LEMMA NeverRollback ==
    ASSUME HInv, TypeOK, Reviewed, Counted, NEW v \in DOMAIN versions
    PROVE  recommend_for_version(v) \in {"demote", "disable", "promote", "retain"}
<1> DEFINE w == <<v[1], v[2] - 1>>
<1>1. v = <<v[1], v[2]>> /\ v[2] \in Nat /\ versions[v].review \in Reviews \cup {None}
  BY DEF HInv, Rows, TypeOK
<1>2. ASSUME v[2] > 1 PROVE w \in DOMAIN versions
  <2>1. PICK n \in Nat : Numbers(v[1]) = 1..n
    BY DEF HInv, Numbered
  <2>2. v[2] \in Numbers(v[1])
    BY <1>1, NumbersOf DEF HInv
  <2>3. v[2] - 1 \in Numbers(v[1])
    BY <1>1, <1>2, <2>1, <2>2
  <2> QED BY <2>3, NumbersOf DEF HInv
<1>3. ASSUME NEW x \in DOMAIN versions
      PROVE /\ aggregate_evidence(x).improved \in Nat /\ aggregate_evidence(x).unchanged \in Nat
            /\ aggregate_evidence(x).regressed \in Nat
            /\ versions[x].review = None => Valid(aggregate_evidence(x)) = 0
  <2>1. CASE versions[x].review = None
    BY <2>1 DEF aggregate_evidence, NoEvidence, Valid
  <2>2. CASE versions[x].review # None
    <3>1. versions[x].review \in Reviews
      BY <2>2 DEF TypeOK
    <3>2. evidence[versions[x].review] \in [improved : Nat, unchanged : Nat, regressed : Nat, other : Nat]
      BY <3>1, InputAssumption DEF Counted, NoEvidence
    <3> QED BY <2>2, <3>2 DEF aggregate_evidence
  <2> QED BY <2>1, <2>2
<1>4. ASSUME v[2] > 1, versions[v].review # None, versions[w].review # None
      PROVE aggregate_evidence(w) = aggregate_evidence(v)
  <2>1. AdoptId(versions[v].review) = AdoptId(versions[w].review)
    BY <1>2, <1>4 DEF Reviewed
  <2> QED BY <1>4, <2>1 DEF AdoptId, aggregate_evidence
<1>5. ~NewVersionRegressed(v)
  <2> SUFFICES ASSUME v[2] > 1, Regressing(aggregate_evidence(v)), Improving(aggregate_evidence(w))
               PROVE FALSE
    BY DEF NewVersionRegressed
  <2>1. versions[v].review # None /\ versions[w].review # None
    BY <1>2, <1>3 DEF Regressing, Improving
  <2>2. aggregate_evidence(w) = aggregate_evidence(v)
    BY <1>4, <2>1
  <2> DEFINE e == aggregate_evidence(v)
  <2>3. e.improved \in Nat /\ e.unchanged \in Nat /\ e.regressed \in Nat
    BY <1>3
  <2>4. Regressing(e) /\ Improving(e)
    BY <2>2
  <2> HIDE DEF e
  <2> QED BY <2>3, <2>4 DEF Regressing, Improving, Valid
<1> QED BY <1>5 DEF recommend_for_version

\* The steps that leave the rows of the tables alone.
LEMMA RowsStay ==
    ASSUME LInv, HInv', UNCHANGED <<policies, versions, lineage, recs, hit>>, evidence' = evidence,
           DOMAIN previews' \subseteq DOMAIN versions, applied' = applied, Lists'
    PROVE  LInv'
<1>1. TypeOK'
  BY DEF LInv, TypeOK, Ids
<1>2. Reviewed' /\ OwnCurrent' /\ Counted' /\ Advised' /\ AppliedWasWritten'
  BY DEF LInv, Reviewed, OwnCurrent, Counted, Advised, AppliedWasWritten, Current, Ids
<1>3. CurrentHasOrigin'
  BY DEF LInv, CurrentHasOrigin, Current, Ids
<1> QED BY <1>1, <1>2, <1>3 DEF LInv

LEMMA GrowsStill ==
    ASSUME UNCHANGED <<versions, lineage, hit>>
    PROVE  Grows(versions, lineage, hit, versions', lineage', hit')
BY DEF Grows

\* A handler that goes on with a list that is in order.
LEMMA ListsKeep ==
    ASSUME LInv, Grows(versions, lineage, hit, versions', lineage', hit'),
           NEW p \in Procs, NEW plan, NEW new, Shape(new), Continue(p, plan, new),
           Good(plan \o Tail(loc[p].todo), new.slot, new.made, versions', lineage', hit')
    PROVE  Lists'
<1> DEFINE u == plan \o Tail(loc[p].todo)
<1>1. PICK h : /\ loc' = [loc EXCEPT ![p] = h]
               /\ h = Idle \/ h = [new EXCEPT !.todo = u]
  BY DEF Continue, HInv, Handlers, LInv
<1>2. Good(h.todo, h.slot, h.made, versions', lineage', hit')
  <2>1. CASE h = Idle
    BY <2>1 DEF Idle, Good, IsSeq, ToSet
  <2>2. CASE h = [new EXCEPT !.todo = u]
    <3> HIDE DEF u
    <3>1. h = [todo |-> u, slot |-> new.slot, made |-> new.made, view |-> new.view,
               built |-> new.built]
      BY <2>2 DEF Shape
    <3> QED BY <3>1 DEF u
  <2> QED BY <1>1, <2>1, <2>2
<1>3. loc' = [q \in Procs |-> IF q = p THEN h ELSE loc[q]]
  BY <1>1 DEF LInv, HInv, Handlers
<1>4. ASSUME NEW q \in Procs
      PROVE Good(loc'[q].todo, loc'[q].slot, loc'[q].made, versions', lineage', hit')
  <2>1. CASE q = p
    BY <1>2, <1>3, <2>1
  <2>2. CASE q # p
    BY <1>3, <2>2, GoodGrows DEF LInv, Lists, HInv, Handlers, InOrder
  <2> QED BY <2>1, <2>2
<1> QED BY <1>4 DEF Lists

LEMMA ListsEnd ==
    ASSUME LInv, Grows(versions, lineage, hit, versions', lineage', hit'), NEW p \in Procs, End(p)
    PROVE  Lists'
<1>1. loc' = [q \in Procs |-> IF q = p THEN Idle ELSE loc[q]]
  BY DEF End, LInv, HInv, Handlers
<1>2. Good(Idle.todo, Idle.slot, Idle.made, versions', lineage', hit')
  BY DEF Idle, Good, IsSeq, ToSet
<1>3. ASSUME NEW q \in Procs
      PROVE Good(loc'[q].todo, loc'[q].slot, loc'[q].made, versions', lineage', hit')
  <2>1. CASE q = p
    BY <1>1, <1>2, <2>1
  <2>2. CASE q # p
    BY <1>1, <2>2, GoodGrows DEF LInv, Lists, HInv, Handlers, InOrder
  <2> QED BY <2>1, <2>2
<1> QED BY <1>3 DEF Lists

\* What the invariant says of a handler that has something to do.
LEMMA AtHead ==
    ASSUME LInv, NEW p \in Procs, Busy(p)
    PROVE  /\ loc[p].todo # <<>> /\ Now(p) = loc[p].todo[1]
           /\ Good(loc[p].todo, loc[p].slot, loc[p].made, versions, lineage, hit)
           /\ Item(Now(p), versions, hit)
           /\ Fits(loc[p].todo, loc[p].slot, loc[p].made, 1, versions, lineage)
           /\ Shape(loc[p]) /\ Made(loc[p].made, DOMAIN versions)
<1>1. loc[p].todo # <<>> /\ Good(loc[p].todo, loc[p].slot, loc[p].made, versions, lineage, hit)
  BY DEF Busy, LInv, Lists
<1>2. Now(p) = loc[p].todo[1] /\ 1 \in 1..Len(loc[p].todo)
  BY <1>1 DEF Now, Good, IsSeq
<1> QED BY <1>1, <1>2 DEF Good, LInv, HInv, Handlers, InOrder

\* A request that becomes a list, the tables being left alone.
LEMMA BecomeKeeps ==
    ASSUME LInv, HInv', NEW p \in Procs, Busy(p), Now(p).do \notin VersionCalls,
           NEW plan, Become(p, plan),
           Good(plan, loc[p].slot, loc[p].made, versions, lineage, hit)
    PROVE  LInv'
<1>1. UNCHANGED <<tables, world, used>> /\ Continue(p, plan, loc[p])
  BY DEF Become
<1>2. Good(plan \o Tail(loc[p].todo), loc[p].slot, loc[p].made, versions, lineage, hit)
  BY AtHead, PlanGood
<1>3. Grows(versions, lineage, hit, versions', lineage', hit')
  BY <1>1, GrowsStill DEF tables, world
<1>4. Lists'
  BY <1>1, <1>2, <1>3, ListsKeep, AtHead DEF tables, world
<1> QED BY <1>1, <1>4, RowsStay DEF tables, world, LInv, TypeOK

-----------------------------------------------------------------------------
\* The operations.

\* A version is promoted and demoted to placements.
LEMMA TargetsArePlacements ==
    ASSUME NEW placement \in Placements
    PROVE  /\ ToSet(PROMOTE_TARGETS(placement)) \subseteq Placements
           /\ ToSet(DEMOTE_TARGETS(placement)) \subseteq Placements
<1>1. CASE placement = "global_rule"
  <2>1. PROMOTE_TARGETS(placement) = <<>> /\ DEMOTE_TARGETS(placement) = <<"project_rule">>
    BY <1>1 DEF PROMOTE_TARGETS, DEMOTE_TARGETS
  <2> QED BY <2>1 DEF ToSet, Placements
<1>2. CASE placement = "project_rule"
  <2>1. PROMOTE_TARGETS(placement) = <<"global_rule">>
        /\ DEMOTE_TARGETS(placement) = <<"scoped_rule", "skill">>
    BY <1>2 DEF PROMOTE_TARGETS, DEMOTE_TARGETS
  <2> QED BY <2>1 DEF ToSet, Placements
<1>3. CASE placement = "scoped_rule"
  <2>1. PROMOTE_TARGETS(placement) = <<"project_rule">> /\ DEMOTE_TARGETS(placement) = <<"skill">>
    BY <1>3 DEF PROMOTE_TARGETS, DEMOTE_TARGETS
  <2> QED BY <2>1 DEF ToSet, Placements
<1>4. CASE placement = "skill"
  <2>1. PROMOTE_TARGETS(placement) = <<"scoped_rule", "project_rule">>
        /\ DEMOTE_TARGETS(placement) = <<>>
    BY <1>4 DEF PROMOTE_TARGETS, DEMOTE_TARGETS
  <2> QED BY <2>1 DEF ToSet, Placements
<1> QED BY <1>1, <1>2, <1>3, <1>4 DEF Placements

\* A policy that can be changed has a current version, which is one of its rows.
LEMMA OperableHas ==
    ASSUME LInv, NEW policy, HasVersion(policy)
    PROVE  /\ Current(policy) \in DOMAIN versions /\ Current(policy)[1] = policy
           /\ versions[Current(policy)].placement \in Placements
BY DEF LInv, HasVersion, TypeOK, OwnCurrent, Current, Ids

LEMMA PlainOne ==
    ASSUME NEW V, NEW L, NEW H, NEW slot, NEW made, NEW c, Item(c, V, H), c.do \notin VersionCalls
    PROVE  Good(<<c>>, slot, made, V, L, H)
<1>1. IsSeq(<<c>>) /\ Len(<<c>>) = 1 /\ <<c>>[1] = c
  BY DEF IsSeq, ToSet
<1> QED BY <1>1, PlainGood

LEMMA PlainTwo ==
    ASSUME NEW V, NEW L, NEW H, NEW slot, NEW made, NEW c, Item(c, V, H), c.do \notin VersionCalls,
           NEW d, Item(d, V, H), d.do \notin VersionCalls
    PROVE  Good(<<c, d>>, slot, made, V, L, H)
<1>1. IsSeq(<<c, d>>) /\ Len(<<c, d>>) = 2 /\ <<c, d>>[1] = c /\ <<c, d>>[2] = d
  BY DEF IsSeq, ToSet
<1> QED BY <1>1, PlainGood

LEMMA NothingGood == ASSUME NEW V, NEW L, NEW H, NEW slot, NEW made
                     PROVE  Good(<<>>, slot, made, V, L, H)
BY DEF Good, IsSeq, ToSet

LEMMA ConcatGood ==
    ASSUME NEW V, NEW L, NEW H, NEW slot, NEW made, NEW s, NEW t, IsSeq(s), IsSeq(t),
           \A i \in 1..Len(s) : Item(s[i], V, H) /\ s[i].do \notin VersionCalls,
           \A i \in 1..Len(t) : Item(t[i], V, H) /\ t[i].do \notin VersionCalls
    PROVE  Good(s \o t, slot, made, V, L, H)
<1> DEFINE S == ToSet(s) \cup ToSet(t)
<1>1. s \in Seq(S) /\ t \in Seq(S)
  BY DEF IsSeq, ToSet
<1> HIDE DEF S
<1>2. s \o t \in Seq(S) /\ Len(s \o t) = Len(s) + Len(t) /\ Len(s) \in Nat /\ Len(t) \in Nat
  BY <1>1
<1>3. ASSUME NEW i \in 1..Len(s \o t)
      PROVE Item((s \o t)[i], V, H) /\ (s \o t)[i].do \notin VersionCalls
  <2>1. CASE i <= Len(s)
    <3>1. (s \o t)[i] = s[i]
      BY <1>1, <1>2, <2>1
    <3> QED BY <1>2, <2>1, <3>1
  <2>2. CASE i > Len(s)
    <3>1. (s \o t)[i] = t[i - Len(s)] /\ i - Len(s) \in 1..Len(t)
      BY <1>1, <1>2, <2>2
    <3> QED BY <3>1
  <2> QED BY <1>2, <2>1, <2>2
<1>4. IsSeq(s \o t)
  BY <1>2, Sequence
<1> QED BY <1>3, <1>4, PlainGood

LEMMA ListOfLength ==
    ASSUME NEW n \in Nat, NEW S, NEW f \in [1..n -> S]
    PROVE  IsSeq(f) /\ Len(f) = n
<1>1. f \in Seq(S) /\ Len(f) = n
  OBVIOUS
<1> QED BY <1>1, Sequence

\* A list that begins a change of a policy: rewrite, promote, demote and rollback.
LEMMA ChangeKeeps ==
    ASSUME LInv, HInv', NEW p \in Procs, Busy(p), Now(p).do \notin VersionCalls,
           NEW policy, NEW relation \in Kinds, NEW row, RowOf(row, policy),
           NEW from \in DOMAIN versions, from[1] = policy, NEW old \in {"superseded", "rolled_back"},
           Become(p, Succeed(policy, relation, row, from, old))
    PROVE  LInv'
BY SucceedGood, BecomeKeeps

LEMMA ChangesKeep ==
    ASSUME LInv, HInv', NEW p \in Procs, rewrite(p) \/ promote(p) \/ demote(p) \/ rollback(p)
    PROVE  LInv'
<1> DEFINE r == Now(p)
           v == Current(r.policy)
<1>1. CASE rewrite(p)
  <2> DEFINE old == versions[v]
             row == Row(r.content, old.placement, old.scope, old.target, None, "rewrite")
  <2>1. Busy(p) /\ r.do = "rewrite" /\ HasVersion(r.policy)
        /\ Become(p, Succeed(r.policy, "rewrite", row, v, "superseded"))
    BY <1>1 DEF rewrite, Begins, Serving, Allowed, Operable
  <2>2. RowOf(row, r.policy)
    BY <2>1, OperableHas DEF RowOf, Row
  <2> HIDE DEF row
  <2> QED BY <2>1, <2>2, OperableHas, ChangeKeeps DEF Kinds, VersionCalls
<1>2. ASSUME NEW targets, _rescope(p, targets), Reachable(r, targets), HasVersion(r.policy), Busy(p),
             r.do \in {"promote", "demote"}, ToSet(targets) \subseteq Placements
      PROVE  LInv'
  <2> DEFINE target == Towards(r, targets)
             scope == IF target = "global_rule" THEN None ELSE Scope(v)
             row == Row(versions[v].content, target, scope, None, None, r.do)
  <2>1. Become(p, Succeed(r.policy, r.do, row, v, "superseded"))
    BY <1>2 DEF _rescope
  <2>2. RowOf(row, r.policy)
    BY <1>2 DEF RowOf, Row, Reachable
  <2> HIDE DEF row
  <2> QED BY <1>2, <2>1, <2>2, OperableHas, ChangeKeeps DEF Kinds, VersionCalls
<1>3. CASE promote(p)
  <2>1. Busy(p) /\ r.do = "promote" /\ HasVersion(r.policy)
        /\ Reachable(r, PROMOTE_TARGETS(versions[v].placement))
        /\ _rescope(p, PROMOTE_TARGETS(versions[v].placement))
    BY <1>3 DEF promote, Begins, Serving, Allowed, MayPromote, Operable
  <2>2. ToSet(PROMOTE_TARGETS(versions[v].placement)) \subseteq Placements
    BY <2>1, OperableHas, TargetsArePlacements
  <2> QED BY <2>1, <2>2, <1>2
<1>4. CASE demote(p)
  <2>1. Busy(p) /\ r.do = "demote" /\ HasVersion(r.policy)
        /\ Reachable(r, DEMOTE_TARGETS(versions[v].placement))
        /\ _rescope(p, DEMOTE_TARGETS(versions[v].placement))
    BY <1>4 DEF demote, Begins, Serving, Allowed, MayDemote, Operable
  <2>2. ToSet(DEMOTE_TARGETS(versions[v].placement)) \subseteq Placements
    BY <2>1, OperableHas, TargetsArePlacements
  <2> QED BY <2>1, <2>2, <1>2
<1>5. CASE rollback(p)
  <2> DEFINE w == <<r.policy, r.number>>
             old == versions[w]
             row == Row(old.content, old.placement, old.scope, old.target, old.review, "rollback")
  <2>1. Busy(p) /\ r.do = "rollback" /\ w \in DOMAIN versions
        /\ Become(p, Succeed(r.policy, "rollback_source", row, w, "rolled_back"))
    BY <1>5 DEF rollback, Begins, Serving, Allowed, MayRollback
  <2>2. RowOf(row, r.policy)
    BY <2>1 DEF RowOf, Row, LInv, TypeOK, Reviewed
  <2>3. w[1] = r.policy
    OBVIOUS
  <2> HIDE DEF row, w
  <2> QED BY <2>1, <2>2, <2>3, ChangeKeeps DEF Kinds, VersionCalls
<1> QED BY <1>1, <1>3, <1>4, <1>5

\* The operations that make policies.
LEMMA MakersKeep ==
    ASSUME LInv, HInv', NEW p \in Procs, adopt(p) \/ merge(p) \/ split(p) \/ split_child(p)
    PROVE  LInv'
<1> DEFINE r == Now(p)
           G(plan) == Good(plan, loc[p].slot, loc[p].made, versions, lineage, hit)
<1>1. CASE adopt(p)
  <2> DEFINE id == AdoptId(r.review)
             row == Row(r.says.content, r.says.placement, r.says.scope, r.says.target,
                        r.review, "initial")
             plan == IF id \in Ids THEN <<>>
                     ELSE <<Create(id), Number(id), Insert(row), Point, LogNew(id, "adopt")>>
  <2>1. Busy(p) /\ r.do = "adopt" /\ Become(p, plan)
    BY <1>1 DEF adopt, Begins, Serving
  <2>2. r.review \in Reviews /\ r.says \in Proposals
    BY <2>1, AtHead DEF Item
  <2>3. RowOf(row, id) /\ row.via = "initial" /\ IsId(id)
    BY <2>2, InputAssumption DEF RowOf, Row, IsId, AdoptId
  <2>4. G(plan)
    <3> HIDE DEF row, id
    <3> QED BY <2>3, AdoptGood, NothingGood
  <2> HIDE DEF plan
  <2> QED BY <2>1, <2>4, BecomeKeeps DEF VersionCalls
<1>2. CASE merge(p)
  <2> DEFINE va == Current(r.a)
             vb == Current(r.b)
             content == MergedText(r)
             id == MergeId(va, vb, content)
             row == Row(content, versions[va].placement, Scope(va), None, None, "merge")
             plan == IF MergeDone(va, vb, content) THEN <<>>
                     ELSE <<Create(id), Number(id), Insert(row), Point,
                            Edge("merge_parent", va), Edge("merge_parent", vb),
                            LogNew(id, "merge"), Log(r.a, va, "merged_into"),
                            Log(r.b, vb, "merged_into")>>
  <2>1. Busy(p) /\ r.do = "merge" /\ Become(p, plan) /\ HasVersion(r.a) /\ HasVersion(r.b)
    BY <1>2 DEF merge, Begins, Serving, Allowed, MayMerge, Operable
  <2>2. va \in DOMAIN versions /\ vb \in DOMAIN versions /\ versions[va].placement \in Placements
    BY <2>1, OperableHas
  <2>3. RowOf(row, id) /\ IsId(id) /\ id[1] # "review"
    BY <2>2 DEF RowOf, Row, IsId, MergeId
  <2>4. G(plan)
    <3> HIDE DEF row, id, va, vb, content
    <3> QED BY <2>2, <2>3, MergeGood, NothingGood
  <2> HIDE DEF plan
  <2> QED BY <2>1, <2>4, BecomeKeeps DEF VersionCalls
<1>3. CASE split(p)
  <2> DEFINE source == Current(r.policy)
             ForChild(child) == [do |-> "split_child", source |-> source, child |-> child,
                                 made |-> ChildMade(source, child)]
             s == [i \in 1..Len(r.children) |-> ForChild(r.children[i])]
             t == <<Log(r.policy, source, "split")>>
  <2>1. Busy(p) /\ r.do = "split" /\ Become(p, s \o t) /\ HasVersion(r.policy)
    BY <1>3 DEF split, Begins, Serving, Allowed, Operable
  <2>2. source \in DOMAIN versions /\ r.children \in ChildLists
    BY <2>1, OperableHas, AtHead DEF Item
  <2>3. Len(r.children) \in Nat
        /\ \A i \in 1..Len(r.children) : r.children[i].placement \in Placements
    <3> DEFINE children == r.children
    <3>1. children \in Seq(ToSet(children))
          /\ \A child \in ToSet(children) : child.placement \in Placements
      BY <2>2, InputAssumption
    <3>2. \A i \in DOMAIN children : children[i] \in ToSet(children)
      BY DEF ToSet
    <3> HIDE DEF children
    <3>3. Len(children) \in Nat /\ DOMAIN children = 1..Len(children)
      BY <3>1
    <3> QED BY <3>1, <3>2, <3>3 DEF children
  <2>4. IsSeq(s) /\ Len(s) = Len(r.children)
    <3> DEFINE S == {ForChild(r.children[i]) : i \in 1..Len(r.children)}
    <3>1. s \in [1..Len(r.children) -> S]
      OBVIOUS
    <3> HIDE DEF s, S
    <3> QED BY <2>3, <3>1, ListOfLength
  <2>5. \A i \in 1..Len(s) : s[i] = ForChild(r.children[i])
    BY <2>4
  <2>6. \A i \in 1..Len(s) : Item(s[i], versions, hit) /\ s[i].do \notin VersionCalls
    BY <2>2, <2>3, <2>4, <2>5 DEF Item, VersionCalls, FileCalls
  <2>7. IsSeq(t) /\ Len(t) = 1 /\ t[1] = Log(r.policy, source, "split")
    BY DEF IsSeq, ToSet
  <2>8. \A i \in 1..Len(t) : Item(t[i], versions, hit) /\ t[i].do \notin VersionCalls
    BY <2>7 DEF Item, Log, VersionCalls, FileCalls
  <2> HIDE DEF s, t
  <2>9. G(s \o t)
    BY <2>4, <2>6, <2>7, <2>8, ConcatGood
  <2> QED BY <2>1, <2>9, BecomeKeeps DEF VersionCalls
<1>4. CASE split_child(p)
  <2> DEFINE plan == IF r.made THEN <<>> ELSE MakeChild(r.source, r.child)
  <2>1. Busy(p) /\ r.do = "split_child" /\ Become(p, plan)
    BY <1>4 DEF split_child, Serving
  <2>2. r.source \in DOMAIN versions /\ r.child.placement \in Placements
    BY <2>1, AtHead DEF Item
  <2>3. G(plan)
    BY <2>2, ChildGood, NothingGood
  <2> HIDE DEF plan
  <2> QED BY <2>1, <2>3, BecomeKeeps DEF VersionCalls
<1> QED BY <1>1, <1>2, <1>3, <1>4

\* The operations that change a status, advise, or follow advice.
LEMMA AdviceKeeps ==
    ASSUME LInv, HInv', NEW p \in Procs,
           \/ toggle(p) \/ recommend(p) \/ accept_recommendation(p) \/ reject_recommendation(p)
           \/ defer_recommendation(p) \/ preview(p) \/ apply(p) \/ Refused(p)
    PROVE  LInv'
<1> DEFINE r == Now(p)
           G(plan) == Good(plan, loc[p].slot, loc[p].made, versions, lineage, hit)
<1>1. CASE toggle(p)
  <2>1. PICK op \in {"disable", "enable", "prune"} :
            /\ Busy(p) /\ r.do = op
            /\ Become(p, <<SetStatus(r.policy, StatusOf(op)), Log(r.policy, Current(r.policy), op)>>)
    BY <1>1 DEF toggle, Begins, Serving
  <2>2. G(<<SetStatus(r.policy, StatusOf(op)), Log(r.policy, Current(r.policy), op)>>)
    BY PlainTwo DEF Item, SetStatus, StatusOf, Log, VersionCalls, FileCalls
  <2> QED BY <2>1, <2>2, BecomeKeeps DEF VersionCalls
<1>2. CASE recommend(p)
  <2> DEFINE c == [do |-> "upsert_recommendation", rec |-> Recommendation(Current(r.policy))]
  <2>1. Busy(p) /\ r.do = "recommend" /\ HasVersion(r.policy) /\ Become(p, <<c>>)
    BY <1>2 DEF recommend, Begins, Serving, Allowed
  <2>2. c.rec.op \in {"demote", "disable", "promote", "retain"}
    BY <2>1, OperableHas, NeverRollback DEF LInv, Recommendation
  <2>3. Item(c, versions, hit) /\ c.do \notin VersionCalls
    BY <2>2 DEF Item, VersionCalls, FileCalls
  <2> HIDE DEF c
  <2> QED BY <2>1, <2>3, PlainOne, BecomeKeeps DEF VersionCalls
<1>3. ASSUME NEW rec, NEW status \in {"accepted", "rejected", "deferred"}
      PROVE /\ IsSeq(Settle(rec, status)) /\ Len(Settle(rec, status)) = 2
            /\ \A i \in 1..2 : /\ Item(Settle(rec, status)[i], versions, hit)
                               /\ Settle(rec, status)[i].do \notin VersionCalls
  <2> DEFINE s == Settle(rec, status)
  <2>1. /\ IsSeq(s) /\ Len(s) = 2 /\ s[1] = Close(rec, status)
        /\ s[2] = Log(rec.version[1], rec.version, "recommendation_" \o status)
    BY DEF Settle, IsSeq, ToSet
  <2> HIDE DEF s
  <2>2. \A i \in 1..2 : Item(s[i], versions, hit) /\ s[i].do \notin VersionCalls
    BY <2>1 DEF Item, Close, Log, VersionCalls, FileCalls
  <2> QED BY <2>1, <2>2 DEF s
<1>4. CASE accept_recommendation(p)
  <2>1. Busy(p) /\ r.do = "accept_recommendation" /\ r.rec.op # "demote"
        /\ Become(p, Recommended(r) \o Settle(r.rec, "accepted"))
    BY <1>4 DEF accept_recommendation, Begins, Serving, Allowed, MayAccept
  <2>2. r.rec.op \in {"disable", "promote", "retain"}
    BY <2>1, AtHead DEF Item
  <2> DEFINE s == Recommended(r)
             policy == r.rec.version[1]
             asks == [do |-> "promote", policy |-> policy, placement |-> None, confirm |-> r.confirm]
             stops == [do |-> "disable", policy |-> policy]
  <2>3. s = <<>> \/ s = <<asks>> \/ s = <<stops>>
    BY <2>2 DEF Recommended
  <2>4. IsSeq(s) /\ Len(s) \in {0, 1} /\ (Len(s) = 1 => s[1] = asks \/ s[1] = stops)
    <3>1. IsSeq(<<>>) /\ Len(<<>>) = 0
      BY DEF IsSeq, ToSet
    <3>2. \A c : IsSeq(<<c>>) /\ Len(<<c>>) = 1 /\ <<c>>[1] = c
      BY DEF IsSeq, ToSet
    <3> HIDE DEF asks, stops, s
    <3> QED BY <2>3, <3>1, <3>2
  <2>5. \A i \in 1..Len(s) : Item(s[i], versions, hit) /\ s[i].do \notin VersionCalls
    <3> HIDE DEF s
    <3> QED BY <2>4 DEF Item, VersionCalls, FileCalls
  <2>6. G(s \o Settle(r.rec, "accepted"))
    BY <1>3, <2>4, <2>5, ConcatGood
  <2> HIDE DEF s
  <2> QED BY <2>1, <2>6, BecomeKeeps DEF VersionCalls, s
<1>5. CASE reject_recommendation(p) \/ defer_recommendation(p)
  <2>1. PICK status \in {"rejected", "deferred"} :
            Busy(p) /\ r.do \notin VersionCalls /\ Become(p, Settle(r.rec, status))
    BY <1>5 DEF reject_recommendation, defer_recommendation, Begins, Serving, VersionCalls
  <2>2. G(Settle(r.rec, status))
    BY <1>3, PlainGood
  <2> QED BY <2>1, <2>2, BecomeKeeps
<1>6. CASE preview(p)
  <2> DEFINE c == [do |-> "build_preview", version |-> Current(r.policy)]
  <2>1. Busy(p) /\ r.do = "preview" /\ HasVersion(r.policy) /\ Become(p, <<c>>)
    BY <1>6 DEF preview, Begins, Serving, Allowed, Operable
  <2>2. Item(c, versions, hit) /\ c.do \notin VersionCalls
    BY <2>1, OperableHas DEF Item, VersionCalls, FileCalls
  <2> HIDE DEF c
  <2> QED BY <2>1, <2>2, PlainOne, BecomeKeeps DEF VersionCalls
<1>7. CASE apply(p)
  <2> DEFINE c == Step9("latest_lifecycle_preview", Current(r.policy), r.dry)
  <2>1. Busy(p) /\ r.do = "apply" /\ HasVersion(r.policy) /\ Become(p, <<c>>)
    BY <1>7 DEF apply, Begins, Serving, Allowed, Operable
  <2>2. Item(c, versions, hit) /\ c.do \notin VersionCalls
    BY <2>1, OperableHas DEF Item, Step9, VersionCalls, FileCalls
  <2> HIDE DEF c
  <2> QED BY <2>1, <2>2, PlainOne, BecomeKeeps DEF VersionCalls
<1>8. CASE Refused(p)
  <2>1. Lists'
    BY <1>8, ListsEnd, GrowsStill DEF Refused, tables, world
  <2> QED BY <1>8, <2>1, RowsStay DEF Refused, tables, world, LInv, TypeOK
<1> QED BY <1>1, <1>2, <1>4, <1>5, <1>6, <1>7, <1>8

-----------------------------------------------------------------------------
\* The calls.

\* A call at the head of the list is made, and the handler goes on with the rest.
LEMMA CallKeeps ==
    ASSUME LInv, NEW p \in Procs, Busy(p), NEW new, Shape(new), Continue(p, <<>>, new),
           Grows(versions, lineage, hit, versions', lineage', hit'),
           IF Now(p).do = "next_policy_version_number" THEN new.slot[1] = Now(p).policy
           ELSE new.slot = loc[p].slot,
           IF Now(p).do = "create_policy_version"
           THEN /\ new.made = loc[p].slot /\ loc[p].slot # None
                /\ Now(p).row.via = "initial" \/ loc[p].slot[1][1] # "review" =>
                       Traced(loc[p].slot, versions', lineage')
           ELSE new.made = loc[p].made,
           Now(p).do = "record_lineage" /\ Now(p).from[1] = loc[p].made[1] =>
               Traced(loc[p].made, versions', lineage')
    PROVE  Lists'
<1> DEFINE t == loc[p].todo
<1>1. /\ t # <<>> /\ Now(p) = t[1] /\ Made(loc[p].made, DOMAIN versions)
      /\ Good(t, loc[p].slot, loc[p].made, versions, lineage, hit)
  BY AtHead
<1>2. Good(t, loc[p].slot, loc[p].made, versions', lineage', hit')
  BY <1>1, GoodGrows
<1>3. Good(Tail(t), new.slot, new.made, versions', lineage', hit')
  BY <1>1, <1>2, TailGood
<1>4. <<>> \o Tail(t) = Tail(t)
  BY <1>1, TailOf DEF Good
<1> QED BY <1>3, <1>4, ListsKeep

\* The same for a call that gives the handler nothing.
LEMMA DidKeeps ==
    ASSUME LInv, NEW p \in Procs, Busy(p), Did(p),
           Now(p).do \notin {"next_policy_version_number", "create_policy_version"},
           Grows(versions, lineage, hit, versions', lineage', hit'),
           Now(p).do = "record_lineage" /\ Now(p).from[1] = loc[p].made[1] =>
               Traced(loc[p].made, versions', lineage')
    PROVE  Lists'
BY CallKeeps, AtHead DEF Did

LEMMA SetSlot ==
    ASSUME NEW h, NEW x, Shape(h)
    PROVE  LET new == [h EXCEPT !.slot = x] IN Shape(new) /\ new.slot = x /\ new.made = h.made
<1>1. [h EXCEPT !.slot = x] = [todo |-> h.todo, slot |-> x, made |-> h.made, view |-> h.view,
                               built |-> h.built]
  BY DEF Shape
<1> QED BY <1>1 DEF Shape

LEMMA SetMade ==
    ASSUME NEW h, NEW x, Shape(h)
    PROVE  LET new == [h EXCEPT !.made = x] IN Shape(new) /\ new.slot = h.slot /\ new.made = x
<1>1. [h EXCEPT !.made = x] = [todo |-> h.todo, slot |-> h.slot, made |-> x, view |-> h.view,
                               built |-> h.built]
  BY DEF Shape
<1> QED BY <1>1 DEF Shape

LEMMA CreatePolicyKeepsRows ==
    ASSUME LInv, HInv', NEW p \in Procs, create_policy(p) PROVE LInv'
<1> DEFINE q == Now(p).policy
<1>1. Busy(p) /\ Now(p).do = "create_policy" /\ Did(p)
      /\ UNCHANGED <<versions, lineage, recs, previews, applied, evidence, hit>>
  BY DEF create_policy, Serving, world
<1>2. IsId(q)
  BY <1>1, AtHead DEF Item
<1>3. Lists'
  BY <1>1, DidKeeps, GrowsStill
<1>4. /\ Ids \subseteq Ids' /\ \A k \in Ids : policies'[k] = policies[k]
      /\ \A k \in Ids' \ Ids : k = q /\ policies'[k] = [status |-> "active", current |-> None]
  BY DEF create_policy, Put, Ids
<1> HIDE DEF q
<1>5. TypeOK'
  <2>1. \A policy \in Ids' : IsId(policy)
          /\ policies'[policy].status \in {"active", "disabled", "pruned"}
          /\ policies'[policy].current \in DOMAIN versions \cup {None}
    BY <1>2, <1>4 DEF LInv, TypeOK
  <2> QED BY <1>1, <1>4, <2>1 DEF LInv, TypeOK
<1>6. \A k \in Ids' : Current(k)' = IF k \in Ids THEN Current(k) ELSE None
  BY <1>4 DEF Current
<1>7. OwnCurrent' /\ CurrentHasOrigin'
  BY <1>1, <1>6 DEF LInv, OwnCurrent, CurrentHasOrigin
<1> QED BY <1>1, <1>3, <1>5, <1>7 DEF LInv, Reviewed, Counted, Advised, AppliedWasWritten

LEMMA NextNumberKeepsRows ==
    ASSUME LInv, HInv', NEW p \in Procs, next_policy_version_number(p) PROVE LInv'
<1> DEFINE s == <<Now(p).policy, Max(Numbers(Now(p).policy) \cup {0}) + 1>>
           new == [loc[p] EXCEPT !.slot = s]
<1>1. Busy(p) /\ Now(p).do = "next_policy_version_number" /\ Continue(p, <<>>, new)
      /\ UNCHANGED <<tables, world>>
  BY DEF next_policy_version_number, Serving
<1>2. s[1] = Now(p).policy
  OBVIOUS
<1> HIDE DEF s
<1>3. Shape(new) /\ new.slot = s /\ new.made = loc[p].made
  BY <1>1, AtHead, SetSlot
<1>4. Lists'
  <2> HIDE DEF new
  <2> QED BY <1>1, <1>2, <1>3, CallKeeps, GrowsStill DEF tables, world
<1> QED BY <1>1, <1>4, RowsStay DEF tables, world, LInv, TypeOK

LEMMA CreateVersionKeepsRows ==
    ASSUME LInv, HInv', NEW p \in Procs, create_policy_version(p) PROVE LInv'
<1> DEFINE v == loc[p].slot
           row == Columns(Now(p).row)
           new == [loc[p] EXCEPT !.made = v]
<1>1. /\ Busy(p) /\ Now(p).do = "create_policy_version" /\ Continue(p, <<>>, new)
      /\ v # None /\ v[1] \in Ids /\ v \notin DOMAIN versions
      /\ versions' = [w \in DOMAIN versions \cup {v} |-> IF w = v THEN row ELSE versions[w]]
      /\ UNCHANGED <<policies, lineage, recs, previews, applied, evidence, hit>>
  BY DEF create_policy_version, Serving, Put, world
<1>2. /\ row.placement \in Placements /\ row.status = "active"
      /\ row.review \in Reviews \cup {None} /\ row.via = Now(p).row.via
      /\ row.review # None => v[1] = AdoptId(row.review)
  BY <1>1, AtHead DEF Item, Fits, Inserts, Columns
<1>3. Shape(new) /\ new.slot = v /\ new.made = v
  BY <1>1, AtHead, SetMade
<1> HIDE DEF row, v
<1>4. Grows(versions, lineage, hit, versions', lineage', hit')
  BY <1>1 DEF Grows
<1>5. row.via = "initial" \/ v[1][1] # "review" => Traced(v, versions', lineage')
  BY <1>1 DEF Traced
<1>6. Lists'
  <2> HIDE DEF new
  <2> QED BY <1>1, <1>2, <1>3, <1>4, <1>5, CallKeeps DEF v
<1>7. TypeOK'
  <2>1. \A w \in DOMAIN versions' :
          /\ w[1] \in Ids /\ w[2] \in Nat
          /\ versions'[w].placement \in Placements
          /\ versions'[w].status \in {"active", "superseded", "rolled_back"}
          /\ versions'[w].review \in Reviews \cup {None}
    <3>1. \A w \in DOMAIN versions' : w[2] \in Nat
      BY DEF HInv, Rows
    <3> QED BY <1>1, <1>2, <3>1 DEF LInv, TypeOK
  <2>2. Ids' = Ids
    BY <1>1 DEF Ids
  <2> QED BY <1>1, <2>1, <2>2 DEF LInv, TypeOK
<1>8. Reviewed'
  BY <1>1, <1>2 DEF LInv, Reviewed
<1>9. CurrentHasOrigin' /\ OwnCurrent'
  <2>1. \A q \in Ids : Current(q) # None => Current(q) \in DOMAIN versions
    BY DEF LInv, TypeOK, Current
  <2> QED BY <1>1, <2>1 DEF LInv, CurrentHasOrigin, OwnCurrent, Current, Ids
<1> QED BY <1>1, <1>6, <1>7, <1>8, <1>9 DEF LInv, Counted, Advised, AppliedWasWritten

LEMMA LineageKeepsRows ==
    ASSUME LInv, HInv', NEW p \in Procs, record_lineage(p) PROVE LInv'
<1> DEFINE made == loc[p].made
           edge == <<Now(p).relation, Now(p).from, made>>
<1>1. /\ Busy(p) /\ Now(p).do = "record_lineage" /\ Did(p) /\ lineage' = lineage \cup {edge}
      /\ UNCHANGED <<policies, versions, recs, previews, applied, evidence, hit>>
  BY DEF record_lineage, Serving, world
<1>2. Now(p).relation \in Kinds /\ Now(p).from \in DOMAIN versions /\ made \in DOMAIN versions
  BY <1>1, AtHead DEF Item, Fits, Links, Made
<1>3. Now(p).from[1] = made[1] => Traced(made, versions', lineage')
  <2> edge \in lineage' /\ edge[3] = made /\ edge[2] = Now(p).from
    BY <1>1
  <2> QED BY DEF Traced
<1>4. Grows(versions, lineage, hit, versions', lineage', hit')
  BY <1>1 DEF Grows
<1>5. Lists'
  BY <1>1, <1>3, <1>4, DidKeeps
<1>6. TypeOK'
  BY <1>1, <1>2 DEF LInv, TypeOK, Ids
<1>7. CurrentHasOrigin' /\ OwnCurrent'
  BY <1>1 DEF LInv, CurrentHasOrigin, OwnCurrent, Current, Ids
<1> QED BY <1>1, <1>5, <1>6, <1>7 DEF LInv, Reviewed, Counted, Advised, AppliedWasWritten

LEMMA RetireKeepsRows ==
    ASSUME LInv, HInv', NEW p \in Procs, set_policy_version_status(p) PROVE LInv'
<1> DEFINE w == Now(p).version
<1>1. /\ Busy(p) /\ Now(p).do = "set_policy_version_status" /\ Did(p)
      /\ versions' = [versions EXCEPT ![w].status = Now(p).status]
      /\ UNCHANGED <<policies, lineage, recs, previews, applied, evidence, hit>>
  BY DEF set_policy_version_status, Serving, world
<1>2. Now(p).status \in {"superseded", "rolled_back"}
  BY <1>1, AtHead DEF Item
<1>3. DOMAIN versions' = DOMAIN versions /\ \A v \in DOMAIN versions : Said(v)' = Said(v)
  BY RetireKeeps DEF LInv
<1>4. \A v \in DOMAIN versions : /\ versions'[v].placement = versions[v].placement
                                 /\ versions'[v].review = versions[v].review
                                 /\ versions'[v].via = versions[v].via
  BY <1>3 DEF Said
<1>5. \A v \in DOMAIN versions : versions'[v].status \in {versions[v].status, Now(p).status}
  <2> SUFFICES ASSUME NEW v \in DOMAIN versions
               PROVE versions'[v].status \in {versions[v].status, Now(p).status}
    OBVIOUS
  <2>1. versions[v] = Columns(versions[v])
    BY DEF LInv, HInv, Rows
  <2>2. [versions[v] EXCEPT !.status = Now(p).status].status = Now(p).status
    BY <2>1 DEF Columns
  <2> QED BY <1>1, <2>2
<1>6. Grows(versions, lineage, hit, versions', lineage', hit')
  BY <1>1, <1>3, <1>4 DEF Grows
<1>7. Lists'
  BY <1>1, <1>6, DidKeeps
<1>8. TypeOK'
  <2>1. \A v \in DOMAIN versions' :
          /\ v[1] \in Ids /\ v[2] \in Nat
          /\ versions'[v].placement \in Placements
          /\ versions'[v].status \in {"active", "superseded", "rolled_back"}
          /\ versions'[v].review \in Reviews \cup {None}
    BY <1>2, <1>3, <1>4, <1>5 DEF LInv, TypeOK
  <2> QED BY <1>1, <1>3, <2>1 DEF LInv, TypeOK, Ids
<1>9. Reviewed'
  BY <1>3, <1>4 DEF LInv, Reviewed
<1>10. CurrentHasOrigin' /\ OwnCurrent'
  <2>1. \A q \in Ids : Current(q) # None => Current(q) \in DOMAIN versions
    BY DEF LInv, TypeOK, Current
  <2> QED BY <1>1, <1>4, <2>1 DEF LInv, CurrentHasOrigin, OwnCurrent, Current, Ids
<1> QED BY <1>1, <1>7, <1>8, <1>9, <1>10 DEF LInv, Counted, Advised, AppliedWasWritten

LEMMA PointKeepsRows ==
    ASSUME LInv, HInv', NEW p \in Procs, set_policy_current_version(p) PROVE LInv'
<1> DEFINE v == loc[p].made
           q == v[1]
<1>1. /\ Busy(p) /\ Now(p).do = "set_policy_current_version" /\ Did(p) /\ v # None
      /\ policies' = [policies EXCEPT ![q].current = v]
      /\ UNCHANGED <<versions, lineage, recs, previews, applied, evidence, hit>>
  BY DEF set_policy_current_version, Serving, world
<1>2. v \in DOMAIN versions /\ q \in Ids /\ Traced(v, versions, lineage)
  BY <1>1, AtHead DEF Made, Fits, Points, LInv, TypeOK
<1>3. Lists'
  BY <1>1, DidKeeps, GrowsStill
<1>4. [policies[q] EXCEPT !.current = v] = [status |-> policies[q].status, current |-> v]
  BY <1>2 DEF LInv, HInv, Rows
<1> HIDE DEF v
<1>5. Ids' = Ids /\ \A k \in Ids : /\ policies'[k].status = policies[k].status
                                   /\ policies'[k].current = IF k = q THEN v ELSE policies[k].current
  BY <1>1, <1>2, <1>4 DEF Ids
<1>6. TypeOK'
  BY <1>1, <1>2, <1>5 DEF LInv, TypeOK
<1>7. CurrentHasOrigin' /\ OwnCurrent'
  BY <1>1, <1>2, <1>5 DEF LInv, CurrentHasOrigin, OwnCurrent, Current, Traced
<1> QED BY <1>1, <1>3, <1>6, <1>7 DEF LInv, Reviewed, Counted, Advised, AppliedWasWritten

LEMMA StatusKeepsRows ==
    ASSUME LInv, HInv', NEW p \in Procs, set_policy_status(p) PROVE LInv'
<1> DEFINE q == Now(p).policy
           status == Now(p).status
<1>1. /\ Busy(p) /\ Now(p).do = "set_policy_status" /\ Did(p)
      /\ policies' = [policies EXCEPT ![q].status = status]
      /\ UNCHANGED <<versions, lineage, recs, previews, applied, evidence, hit>>
  BY DEF set_policy_status, Serving, world
<1>2. status \in {"active", "disabled", "pruned"}
  BY <1>1, AtHead DEF Item
<1>3. Lists'
  BY <1>1, DidKeeps, GrowsStill
<1>4. q \in Ids => [policies[q] EXCEPT !.status = status]
                     = [status |-> status, current |-> policies[q].current]
  BY DEF LInv, HInv, Rows
<1> HIDE DEF q, status
<1>5. Ids' = Ids /\ \A k \in Ids : /\ policies'[k].status \in {policies[k].status, status}
                                   /\ policies'[k].current = policies[k].current
  BY <1>1, <1>4 DEF Ids
<1>6. TypeOK'
  BY <1>1, <1>2, <1>5 DEF LInv, TypeOK
<1>7. CurrentHasOrigin' /\ OwnCurrent'
  BY <1>1, <1>5 DEF LInv, CurrentHasOrigin, OwnCurrent, Current
<1> QED BY <1>1, <1>3, <1>6, <1>7 DEF LInv, Reviewed, Counted, Advised, AppliedWasWritten

LEMMA RecommendationsKeepRows ==
    ASSUME LInv, HInv', NEW p \in Procs,
           upsert_recommendation(p) \/ update_recommendation_status(p)
    PROVE  LInv'
<1>1. /\ Busy(p) /\ Did(p)
      /\ Now(p).do \in {"upsert_recommendation", "update_recommendation_status"}
      /\ UNCHANGED <<policies, versions, lineage, previews, applied, evidence, hit>>
  BY DEF upsert_recommendation, update_recommendation_status, Serving, world
<1>2. Lists'
  BY <1>1, DidKeeps, GrowsStill
<1> DEFINE States == {"open", "accepted", "rejected", "deferred", "superseded"}
           Ops9 == {"demote", "disable", "promote", "retain"}
<1>3. \A r \in DOMAIN recs : recs[r] \in States /\ r.op \in Ops9
  BY DEF LInv, TypeOK, Advised
<1>4. \A r \in DOMAIN recs' : recs'[r] \in States /\ r.op \in Ops9
  <2>1. CASE upsert_recommendation(p)
    <3>1. Now(p).rec.op \in Ops9
      BY <2>1, AtHead DEF upsert_recommendation, Serving, Item
    <3> QED BY <1>3, <2>1, <3>1 DEF upsert_recommendation
  <2>2. CASE update_recommendation_status(p)
    <3>1. Now(p).status \in States
      BY <2>2, AtHead DEF update_recommendation_status, Serving, Item
    <3> QED BY <1>3, <2>2, <3>1 DEF update_recommendation_status
  <2> QED BY <2>1, <2>2
<1>5. TypeOK' /\ Advised'
  BY <1>1, <1>4 DEF LInv, TypeOK, Advised, Ids
<1>6. CurrentHasOrigin' /\ OwnCurrent'
  BY <1>1 DEF LInv, CurrentHasOrigin, OwnCurrent, Current, Ids
<1> QED BY <1>1, <1>2, <1>5, <1>6 DEF LInv, Reviewed, Counted, AppliedWasWritten

LEMMA CallsKeepRows == ASSUME LInv, HInv', NEW p \in Procs, Call(p) PROVE LInv'
<1>1. CASE VersionTaken(p)
  <2>1. Lists'
    BY <1>1, ListsEnd, GrowsStill DEF VersionTaken, tables, world
  <2> QED BY <1>1, <2>1, RowsStay DEF VersionTaken, tables, world, LInv, TypeOK
<1>2. CASE record_lifecycle_action(p)
  <2>1. Lists'
    BY <1>2, DidKeeps, GrowsStill DEF record_lifecycle_action, Serving, world
  <2> QED BY <1>2, <2>1, RowsStay DEF record_lifecycle_action, world, LInv, TypeOK
<1> QED BY <1>1, <1>2, CreatePolicyKeepsRows, NextNumberKeepsRows, CreateVersionKeepsRows,
           LineageKeepsRows, RetireKeepsRows, PointKeepsRows, StatusKeepsRows,
           RecommendationsKeepRows DEF Call

-----------------------------------------------------------------------------
\* Preview and Apply, the requests, and the invariant.

\* A call that is replaced by a list of its own, when only writes were added.
LEMMA PlanKeeps ==
    ASSUME LInv, NEW p \in Procs, Busy(p), Now(p).do \notin VersionCalls,
           Grows(versions, lineage, hit, versions', lineage', hit'),
           NEW plan, NEW new, Alike(new, loc[p]), Continue(p, plan, new),
           Good(plan, loc[p].slot, loc[p].made, versions', lineage', hit')
    PROVE  Lists'
<1>1. Good(loc[p].todo, loc[p].slot, loc[p].made, versions', lineage', hit')
  BY AtHead, GoodGrows
<1>2. Good(plan \o Tail(loc[p].todo), loc[p].slot, loc[p].made, versions', lineage', hit')
  BY <1>1, AtHead, PlanGood
<1> QED BY <1>2, ListsKeep DEF Alike

LEMMA FinishGood ==
    ASSUME NEW V, NEW L, NEW H, NEW slot, NEW made, NEW v \in DOMAIN V, NEW outcome,
           outcome = "applied" => v \in H
    PROVE  Good(Finish(v, outcome), slot, made, V, L, H)
<1> DEFINE t == Finish(v, outcome)
<1>1. /\ IsSeq(t) /\ Len(t) = 3
      /\ t[1] = Recorded(v, outcome) /\ t[2] = [do |-> "consume_lifecycle_preview", version |-> v]
      /\ t[3] = Log(v[1], v, "apply_" \o outcome)
  BY DEF Finish, IsSeq, ToSet
<1> HIDE DEF t
<1>2. \A i \in 1..3 : Item(t[i], V, H) /\ t[i].do \notin VersionCalls
  BY <1>1 DEF Item, Recorded, Log, VersionCalls, FileCalls
<1> QED BY <1>1, <1>2, PlainGood DEF t

LEMMA FileStepsKeepRows ==
    ASSUME LInv, HInv', NEW p \in Procs, FileStep(p) \/ ReplaceFails(p)
    PROVE  LInv'
<1> DEFINE c == Now(p)
           v == c.version
           G(plan) == Good(plan, loc[p].slot, loc[p].made, versions, lineage, hit)
<1>1. CASE build_preview(p)
  <2> DEFINE d == [do |-> "record_lifecycle_preview", version |-> v,
                   target_hash |-> FileAt(Path(v)), output_hash |-> render_target(v)]
             e == Log(v[1], v, "preview")
  <2>1. Busy(p) /\ c.do = "build_preview" /\ Become(p, <<d, e>>)
    BY <1>1 DEF build_preview, Serving
  <2>2. v \in DOMAIN versions
    BY <2>1, AtHead DEF Item, FileCalls
  <2>3. /\ Item(d, versions, hit) /\ d.do \notin VersionCalls
        /\ Item(e, versions, hit) /\ e.do \notin VersionCalls
    BY <2>2 DEF Item, Log, VersionCalls, FileCalls
  <2> HIDE DEF d, e
  <2> QED BY <2>1, <2>3, PlainTwo, BecomeKeeps DEF VersionCalls
<1>2. CASE record_lifecycle_preview(p)
  <2>1. /\ Busy(p) /\ c.do = "record_lifecycle_preview" /\ Did(p)
        /\ DOMAIN previews' = DOMAIN previews \cup {v}
        /\ UNCHANGED <<policies, versions, lineage, recs, applied, evidence, hit>>
    BY <1>2 DEF record_lifecycle_preview, Serving, Put, world
  <2>2. v \in DOMAIN versions
    BY <2>1, AtHead DEF Item, FileCalls
  <2>3. Lists'
    BY <2>1, DidKeeps, GrowsStill
  <2> QED BY <2>1, <2>2, <2>3, RowsStay DEF LInv, TypeOK
<1>3. CASE latest_lifecycle_preview(p)
  <2> DEFINE new == [loc[p] EXCEPT !.view = previews[v]]
             b == Step9("build", v, c.dry)
             d == [do |-> "preview", policy |-> v[1]]
  <2>1. /\ Busy(p) /\ c.do = "latest_lifecycle_preview" /\ UNCHANGED <<tables, world>>
        /\ Continue(p, <<b>>, new) \/ Continue(p, <<d, c>>, loc[p])
    BY <1>3 DEF latest_lifecycle_preview, Serving
  <2>2. Item(c, versions, hit) /\ v \in DOMAIN versions
    BY <2>1, AtHead DEF Item, FileCalls
  <2>3. Item(b, versions, hit) /\ b.do \notin VersionCalls
    BY <2>2 DEF Item, Step9, VersionCalls, FileCalls
  <2>4. Item(d, versions, hit) /\ d.do \notin VersionCalls
    BY DEF Item, VersionCalls, FileCalls
  <2>5. Alike(new, loc[p]) /\ Alike(loc[p], loc[p])
    BY <2>1, AtHead, SetView DEF Alike
  <2>6. G(<<b>>) /\ G(<<d, c>>)
    <3> HIDE DEF b, d
    <3> QED BY <2>1, <2>2, <2>3, <2>4, PlainOne, PlainTwo DEF VersionCalls
  <2>7. Lists'
    <3> HIDE DEF new, b, d
    <3>1. Grows(versions, lineage, hit, versions', lineage', hit')
      BY <2>1, GrowsStill DEF tables, world
    <3>2. UNCHANGED <<versions, lineage, hit>>
      BY <2>1 DEF tables, world
    <3> QED BY <2>1, <2>5, <2>6, <3>1, <3>2, PlanKeeps DEF VersionCalls
  <2> QED BY <2>1, <2>7, RowsStay DEF tables, world, LInv, TypeOK
<1>4. CASE build(p)
  <2> DEFINE new == [loc[p] EXCEPT !.built = Built(v)]
             d == [do |-> "recheck", version |-> v]
             plan == IF FileAt(Path(v)) = render_target(v) THEN Finish(v, "already_applied")
                     ELSE <<d>>
  <2>1. Busy(p) /\ c.do = "build" /\ UNCHANGED <<tables, world>> /\ Continue(p, plan, new)
    BY <1>4 DEF build, Serving
  <2>2. v \in DOMAIN versions
    BY <2>1, AtHead DEF Item, FileCalls
  <2>3. Item(d, versions, hit) /\ d.do \notin VersionCalls
    BY <2>2 DEF Item, VersionCalls, FileCalls
  <2>4. Alike(new, loc[p])
    BY <2>1, AtHead, SetView
  <2>5. G(plan)
    <3> HIDE DEF d
    <3> QED BY <2>2, <2>3, PlainOne, FinishGood
  <2>6. Lists'
    <3> HIDE DEF new, plan
    <3>1. Grows(versions, lineage, hit, versions', lineage', hit')
      BY <2>1, GrowsStill DEF tables, world
    <3>2. UNCHANGED <<versions, lineage, hit>>
      BY <2>1 DEF tables, world
    <3> QED BY <2>1, <2>4, <2>5, <3>1, <3>2, PlanKeeps DEF VersionCalls
  <2> QED BY <2>1, <2>6, RowsStay DEF tables, world, LInv, TypeOK
<1>5. CASE PreviewRefused(p)
  <2>1. Lists'
    BY <1>5, ListsEnd, GrowsStill DEF PreviewRefused, tables, world
  <2> QED BY <1>5, <2>1, RowsStay DEF PreviewRefused, tables, world, LInv, TypeOK
<1>6. CASE Recheck(p)
  <2> DEFINE file == FileAt(Path(v))
             d == [do |-> "_atomic_replace", version |-> v]
             e == Recorded(v, "safety_refused")
             plan == IF file = loc[p].built.after THEN Finish(v, "already_applied")
                     ELSE IF file = loc[p].built.before THEN <<d>> ELSE <<e>>
  <2>1. Busy(p) /\ c.do = "recheck" /\ Become(p, plan)
    BY <1>6 DEF Recheck, Serving
  <2>2. v \in DOMAIN versions
    BY <2>1, AtHead DEF Item, FileCalls
  <2>3. /\ Item(d, versions, hit) /\ d.do \notin VersionCalls
        /\ Item(e, versions, hit) /\ e.do \notin VersionCalls
    BY <2>2 DEF Item, Recorded, VersionCalls, FileCalls
  <2>4. G(plan)
    <3> HIDE DEF d, e
    <3> QED BY <2>2, <2>3, PlainOne, FinishGood
  <2> HIDE DEF plan
  <2> QED BY <2>1, <2>4, BecomeKeeps DEF VersionCalls
<1>7. ASSUME NEW plan, Busy(p), c.do = "_atomic_replace", Continue(p, plan, loc[p]),
             UNCHANGED <<tables, evidence>>, hit' \in {hit, hit \cup {v}},
             (plan = Finish(v, "applied") /\ v \in hit') \/ plan = <<Recorded(v, "safety_refused")>>
      PROVE  LInv'
  <2> DEFINE e == Recorded(v, "safety_refused")
  <2>1. v \in DOMAIN versions
    BY <1>7, AtHead DEF Item, FileCalls
  <2>2. Grows(versions, lineage, hit, versions', lineage', hit')
    BY <1>7 DEF Grows, tables
  <2>3. Item(e, versions, hit') /\ e.do \notin VersionCalls
    BY <2>1 DEF Item, Recorded, VersionCalls, FileCalls
  <2>4. Good(plan, loc[p].slot, loc[p].made, versions, lineage, hit')
    <3> HIDE DEF e
    <3> QED BY <1>7, <2>1, <2>3, PlainOne, FinishGood DEF e
  <2>5. Alike(loc[p], loc[p])
    BY <1>7, AtHead DEF Alike
  <2>6. versions' = versions /\ lineage' = lineage
    BY <1>7 DEF tables
  <2>7. Lists'
    BY <1>7, <2>2, <2>4, <2>5, <2>6, PlanKeeps DEF VersionCalls
  <2>8. TypeOK' /\ AppliedWasWritten'
    BY <1>7, <2>1 DEF LInv, TypeOK, AppliedWasWritten, tables, Ids
  <2>9. CurrentHasOrigin' /\ OwnCurrent'
    BY <1>7 DEF LInv, CurrentHasOrigin, OwnCurrent, Current, Ids, tables
  <2> QED BY <1>7, <2>7, <2>8, <2>9 DEF LInv, Reviewed, Counted, Advised, tables
<1>8. CASE _atomic_replace(p)
  BY <1>7, <1>8 DEF _atomic_replace, Serving, Land
<1>9. CASE ReplaceFails(p)
  BY <1>7, <1>9 DEF ReplaceFails, Serving, Land
<1>10. CASE record_lifecycle_application(p)
  <2>1. /\ Busy(p) /\ c.do = "record_lifecycle_application" /\ Did(p)
        /\ applied' = applied \cup {<<v, c.outcome>>}
        /\ UNCHANGED <<policies, versions, lineage, recs, previews, evidence, hit>>
    BY <1>10 DEF record_lifecycle_application, Serving, world
  <2>2. v \in DOMAIN versions /\ (c.outcome = "applied" => v \in hit)
    BY <2>1, AtHead DEF Item, FileCalls
  <2>3. Lists'
    BY <2>1, DidKeeps, GrowsStill
  <2>4. TypeOK' /\ AppliedWasWritten'
    BY <2>1, <2>2 DEF LInv, TypeOK, AppliedWasWritten, Ids
  <2>5. CurrentHasOrigin' /\ OwnCurrent'
    BY <2>1 DEF LInv, CurrentHasOrigin, OwnCurrent, Current, Ids
  <2> QED BY <2>1, <2>3, <2>4, <2>5 DEF LInv, Reviewed, Counted, Advised
<1>11. CASE consume_lifecycle_preview(p)
  <2>1. /\ Busy(p) /\ c.do = "consume_lifecycle_preview" /\ Did(p)
        /\ DOMAIN previews' = DOMAIN previews
        /\ UNCHANGED <<policies, versions, lineage, recs, applied, evidence, hit>>
    BY <1>11 DEF consume_lifecycle_preview, Serving, world
  <2>2. Lists'
    BY <2>1, DidKeeps, GrowsStill
  <2> QED BY <2>1, <2>2, RowsStay DEF LInv, TypeOK
<1> QED BY <1>1, <1>2, <1>3, <1>4, <1>5, <1>6, <1>8, <1>9, <1>10, <1>11 DEF FileStep

\* A request that is taken up names rows that exist and what may be said.
LEMMA StartKeepsRows ==
    ASSUME LInv, HInv', NEW p \in Procs, Start(p) PROVE LInv'
<1>1. PICK r \in Requests : loc' = [loc EXCEPT ![p].todo = <<r>>]
  BY DEF Start
<1>2. UNCHANGED <<tables, world>>
  BY DEF Start
<1>3. Item(r, versions, hit) /\ r.do \notin VersionCalls
  <2>1. /\ r.do = "adopt" => r.review \in Reviews /\ r.says \in Proposals
        /\ r.do = "split" => r.children \in ChildLists
        /\ r.do = "accept_recommendation" => r.rec \in DOMAIN recs
        /\ r.do \in {"adopt", "recommend", "rewrite", "promote", "demote", "merge", "split",
                     "disable", "enable", "prune", "rollback", "preview", "apply",
                     "accept_recommendation", "reject_recommendation", "defer_recommendation"}
    BY DEF Requests, ChangeRequests, StatusRequests, FileRequests, RecommendationRequests
  <2>2. r.do = "accept_recommendation" => r.rec.op \in {"demote", "disable", "promote", "retain"}
    BY <2>1 DEF LInv, Advised
  <2> QED BY <2>1, <2>2 DEF Item, FileCalls, VersionCalls
<1> DEFINE h == [loc[p] EXCEPT !.todo = <<r>>]
<1>4. h.todo = <<r>>
  BY DEF LInv, HInv, Handlers, InOrder, Shape
<1>5. loc' = [q \in Procs |-> IF q = p THEN h ELSE loc[q]]
  BY <1>1 DEF LInv, HInv, Handlers
<1> HIDE DEF h
<1>6. Good(h.todo, h.slot, h.made, versions, lineage, hit)
  BY <1>3, <1>4, PlainOne
<1>7. \A q \in Procs : Good(loc'[q].todo, loc'[q].slot, loc'[q].made, versions, lineage, hit)
  BY <1>5, <1>6 DEF LInv, Lists
<1>8. Lists'
  BY <1>2, <1>7 DEF Lists, tables, world
<1> QED BY <1>2, <1>8, RowsStay DEF tables, world, LInv, TypeOK

LEMMA LInvHoldsInitially == ASSUME Init PROVE LInv
<1>1. HInv
  BY HInvHoldsInitially
<1>2. TypeOK /\ Reviewed /\ OwnCurrent /\ Advised /\ AppliedWasWritten /\ CurrentHasOrigin
  BY DEF Init, TypeOK, Reviewed, OwnCurrent, Advised, AppliedWasWritten, CurrentHasOrigin, Ids
<1>3. Counted
  BY DEF Init, Counted
<1>4. Good(Idle.todo, Idle.slot, Idle.made, versions, lineage, hit)
  BY DEF Idle, Good, IsSeq, ToSet
<1>5. Lists
  BY <1>4 DEF Init, Lists
<1> QED BY <1>1, <1>2, <1>3, <1>5 DEF LInv

LEMMA LInvIsInductive == ASSUME LInv, [Next]_vars PROVE LInv'
<1>1. HInv'
  BY HInvIsInductive DEF LInv
<1>2. ASSUME NEW p \in Procs, Operation(p) PROVE LInv'
  BY <1>1, <1>2, ChangesKeep, MakersKeep, AdviceKeeps DEF Operation
<1>3. ASSUME NEW p \in Procs, Crash(p) PROVE LInv'
  <2>1. Lists'
    BY <1>3, ListsEnd, GrowsStill DEF Crash, tables, world
  <2> QED BY <1>1, <1>3, <2>1, RowsStay DEF Crash, tables, world, LInv, TypeOK
<1>4. CASE HumanEdit \/ UNCHANGED vars
  <2>1. UNCHANGED <<tables, evidence, hit, loc>>
    BY <1>4 DEF HumanEdit, vars, world
  <2>2. Lists'
    BY <2>1 DEF LInv, Lists, tables
  <2> QED BY <1>1, <2>1, <2>2, RowsStay DEF tables, LInv, TypeOK
<1>5. CASE record_evaluation_comparison
  <2>1. UNCHANGED <<tables, hit, loc>>
    BY <1>5 DEF record_evaluation_comparison
  <2>2. PICK r \in Reviews, e \in Evidence : evidence' = [evidence EXCEPT ![r] = e]
    BY <1>5 DEF record_evaluation_comparison
  <2>3. Counted'
    BY <2>2 DEF LInv, Counted
  <2>4. Lists' /\ TypeOK'
    BY <2>1 DEF LInv, Lists, TypeOK, tables, Ids
  <2>5. CurrentHasOrigin' /\ OwnCurrent'
    BY <2>1 DEF LInv, CurrentHasOrigin, OwnCurrent, Current, Ids, tables
  <2> QED BY <1>1, <2>1, <2>3, <2>4, <2>5 DEF LInv, Reviewed, Advised, AppliedWasWritten, tables
<1>6. ASSUME NEW p \in Procs, Start(p) \/ Step(p) \/ ReplaceFails(p) \/ Crash(p) PROVE LInv'
  BY <1>1, <1>2, <1>3, <1>6, StartKeepsRows, CallsKeepRows, FileStepsKeepRows DEF Step
<1> QED BY <1>4, <1>5, <1>6 DEF Next

LEMMA LInvHolds == Spec => []LInv
BY LInvHoldsInitially, LInvIsInductive, PTL DEF Spec

\* At all times every table holds rows of its schema and refers to rows that exist,
\* whatever runs at the same time and wherever it is cut short (0007_lifecycle.sql;
\* the service makes the edges, the applications and the pointers of rows it has read
\* or inserted).
THEOREM TypesOfLifecycle == Spec => []TypeOK
<1>1. LInv => TypeOK
  BY DEF LInv
<1> QED BY <1>1, LInvHolds, PTL

\* An application on record as applied is of a version whose text has been written
\* (service.py:583-594: the row comes after the write).
THEOREM AppliedIsWritten == Spec => []AppliedWasWritten
<1>1. LInv => AppliedWasWritten
  BY DEF LInv
<1> QED BY <1>1, LInvHolds, PTL

\* For any evidence and any history, no recommendation is ever to roll back: all the
\* versions of a policy that have evidence have that of one review (heuristics.py:95,
\* evidence.py:30).
THEOREM RollbackIsNeverAdvised == Spec => []RollbackNotRecommended
<1>1. LInv => RollbackNotRecommended
  BY DEF LInv, Advised, RollbackNotRecommended
<1> QED BY <1>1, LInvHolds, PTL

\* The current version of an adopted policy is an adoption's or has an edge from a
\* version of the policy, also after a crash and beside other handlers (service.py:94-108,
\* 171-184: insert, record the edge, then move the pointer).
THEOREM CurrentIsTraced == Spec => []CurrentHasOrigin
<1>1. LInv => CurrentHasOrigin
  BY DEF LInv
<1> QED BY <1>1, LInvHolds, PTL

-----------------------------------------------------------------------------
\* The phases of an operation, when nothing has gone wrong and nothing overlaps.  A list
\* is taken apart by its head and its tail: no place in it has a number.

\* The calls that change policies, versions or the lineage.
Changing == VersionCalls \cup {"create_policy", "set_policy_status"}

\* The list changes none of them.
Calm(t) == \A k \in 1..Len(t) : t[k].do \notin Changing

First(t, do) == t # <<>> /\ t[1].do = do

\* What the id of a policy says of its first version.
Suits(q, says) ==
    /\ q[1] = "merge" => says.content = q[4]
    /\ q[1] = "split" => /\ says.content = q[3].content
                         /\ says.placement = q[3].placement
                         /\ says.scope = q[3].scope

\* A request for the same merge or split would find the policy.
Known(q) ==
    /\ q[1] = "merge" =>
          \E v \in DOMAIN versions :
              /\ Suits(q, versions[v])
              /\ {<<"merge_parent", q[2], v>>, <<"merge_parent", q[3], v>>} \subseteq lineage
    /\ q[1] = "split" =>
          \E v \in DOMAIN versions : Suits(q, versions[v]) /\ <<"split_child", q[2], v>> \in lineage

ActiveOf(q) == {v \in DOMAIN versions : v[1] = q /\ versions[v].status = "active"}

Alone(q) == NamedTwice(q) \/ ActiveOf(q) = {Current(q)}
Bare(q) == NamedTwice(q) \/ \A v \in DOMAIN versions : v[1] # q
Settled(q) == Alone(q) /\ Known(q)
Others(q) == \A o \in Ids \ {q} : Settled(o)

\* The items of a split that are still to be made.
Unmade(t, i) == t[i].do = "split_child" /\ ~t[i].made
ChildAt(t, i) == SplitId(t[i].source, t[i].child)
Begun(q) == NamedTwice(q) /\ q \in Ids /\ policies[q].status # "pruned"

\* A child still to be made is a new policy, or one that is named twice; and
\* nothing else is asked for beside a split.
Splits(t) ==
    /\ \A i \in 1..Len(t) : Unmade(t, i) => ChildAt(t, i) \notin Ids \/ Begun(ChildAt(t, i))
    /\ \A i, j \in 1..Len(t) :
          Unmade(t, i) /\ Unmade(t, j) /\ i # j /\ ChildAt(t, i) = ChildAt(t, j) => NamedTwice(ChildAt(t, i))
    /\ \A i, j \in 1..Len(t) :
          t[i].do = "split_child" =>
              t[j].do \notin {"split", "disable", "enable", "prune", "accept_recommendation"}
    /\ \A i \in 1..Len(t) : t[i].do = "split" => Len(t) = 1

Resting(t) == Calm(t) /\ \A q \in Ids : Settled(q)

\* disable, enable or prune has checked the status.
Toggling(t) ==
    /\ First(t, "set_policy_status") /\ Calm(Tail(t))
    /\ t[1].status = "pruned" \/ (t[1].policy \in Ids => policies[t[1].policy].status # "pruned")
    /\ \A i \in 1..Len(t) : t[i].do # "split_child"
    /\ \A q \in Ids : Settled(q)

\* A policy gets its next version: the calls of Succeed, from each on to the pointer.
ToPoint(t) == First(t, "set_policy_current_version") /\ Calm(Tail(t))
ToRetire(t, q) ==
    First(t, "set_policy_version_status") /\ t[1].version = Current(q) /\ ToPoint(Tail(t))
ToLink(t, q) == First(t, "record_lineage") /\ ToRetire(Tail(t), q)
ToInsert(t, q) == First(t, "create_policy_version") /\ ToLink(Tail(t), q)
ToNumber(t, q) ==
    First(t, "next_policy_version_number") /\ t[1].policy = q /\ ToInsert(Tail(t), q)

Beside(q, made) ==
    /\ made[1] = q /\ made # Current(q)
    /\ NamedTwice(q) \/ ActiveOf(q) = {Current(q), made}
Only(q, made) == made[1] = q /\ (NamedTwice(q) \/ ActiveOf(q) = {made})
Free(q, slot) == slot[1] = q /\ slot \notin DOMAIN versions

SucceedingBy(t, slot, made, q) ==
    \/ Alone(q) /\ ToNumber(t, q)
    \/ Alone(q) /\ ToInsert(t, q) /\ Free(q, slot)
    \/ ToLink(t, q) /\ Beside(q, made)
    \/ ToRetire(t, q) /\ Beside(q, made)
    \/ ToPoint(t) /\ Only(q, made)
Succeeding(t, slot, made) ==
    \E q \in Ids : HasVersion(q) /\ Known(q) /\ Others(q) /\ SucceedingBy(t, slot, made, q)

\* A policy is made: the calls from its row to the edges that make it known.
IsEdge(t, relation, from) ==
    First(t, "record_lineage") /\ t[1].relation = relation /\ t[1].from = from
ToSecondEdge(t, q) == IsEdge(t, "merge_parent", q[3]) /\ Calm(Tail(t))
ToEdges(t, q) ==
    /\ q[1] = "review" => Calm(t)
    /\ q[1] = "merge" => IsEdge(t, "merge_parent", q[2]) /\ ToSecondEdge(Tail(t), q)
    /\ q[1] = "split" => IsEdge(t, "split_child", q[2]) /\ Calm(Tail(t))
ToFirstPoint(t, q) == First(t, "set_policy_current_version") /\ ToEdges(Tail(t), q)
ToFirstRow(t, q) ==
    First(t, "create_policy_version") /\ Suits(q, t[1].row) /\ ToFirstPoint(Tail(t), q)
ToFirstNumber(t, q) ==
    First(t, "next_policy_version_number") /\ t[1].policy = q /\ ToFirstRow(Tail(t), q)
ToDisable(t, q) ==
    /\ First(t, "set_policy_status") /\ t[1].policy = q /\ t[1].status = "disabled"
    /\ ToFirstNumber(Tail(t), q)
ToCreate(t, q) ==
    /\ First(t, "create_policy") /\ t[1].policy = q
    /\ IF q[1] = "split" THEN ToDisable(Tail(t), q) ELSE ToFirstNumber(Tail(t), q)

Creating(t, q) ==
    /\ ToCreate(t, q)
    /\ q \notin Ids \/ Begun(q)
    /\ \A i \in 1..Len(t) : Unmade(t, i) /\ ChildAt(t, i) = q => NamedTwice(q)
FoundingBy(t, slot, made, q) ==
    \/ Bare(q) /\ ToDisable(t, q) /\ policies[q].status # "pruned"
    \/ Bare(q) /\ ToFirstNumber(t, q)
    \/ Bare(q) /\ ToFirstRow(t, q) /\ Free(q, slot)
    \/ ToFirstPoint(t, q) /\ Only(q, made) /\ Suits(q, versions[made])
    \/ q[1] # "review" /\ ToEdges(t, q) /\ Alone(q) /\ made[1] = q /\ Suits(q, versions[made])
    \/ /\ q[1] = "merge" /\ ToSecondEdge(t, q) /\ Alone(q) /\ made[1] = q
       /\ Suits(q, versions[made]) /\ <<"merge_parent", q[2], made>> \in lineage
Founding(t, slot, made) ==
    \/ t # <<>> /\ Creating(t, t[1].policy) /\ Others(t[1].policy)
    \/ \E q \in Ids : Others(q) /\ FoundingBy(t, slot, made, q)

Work(t, slot, made) ==
    /\ Splits(t)
    /\ Resting(t) \/ Toggling(t) \/ Succeeding(t, slot, made) \/ Founding(t, slot, made)

Works(p) == Work(loc[p].todo, loc[p].slot, loc[p].made)

\* With nothing gone wrong and nothing overlapping, one handler at most is busy,
\* and what it has still to do puts its policy in order.
InHand ==
    Undisturbed =>
        /\ \A p, o \in Procs : Busy(p) /\ Busy(o) => p = o
        /\ \A p \in Procs : Busy(p) => Works(p)
        /\ ~Overlap => \A q \in Ids : Settled(q)

Counting == used \in [ops : Nat, overlaps : Nat, outside : Nat, faults : Nat]

-----------------------------------------------------------------------------
\* The rest of a list, and a plan that takes the place of its head.

LEMMA CalmTail ==
    ASSUME NEW t, IsSeq(t), t # <<>>, Calm(t) PROVE Calm(Tail(t))
<1>1. Len(t) \in Nat \ {0} /\ Len(Tail(t)) = Len(t) - 1 /\ \A k \in 1..Len(t) - 1 : Tail(t)[k] = t[k + 1]
  BY TailOf
<1>2. \A k \in 1..Len(Tail(t)) : k + 1 \in 1..Len(t) /\ Tail(t)[k] = t[k + 1]
  BY <1>1
<1> QED BY <1>2 DEF Calm

LEMMA CalmPlan ==
    ASSUME NEW s, IsSeq(s), NEW r, IsSeq(r), Calm(s), Calm(r) PROVE Calm(s \o r) /\ IsSeq(s \o r)
<1> DEFINE S == ToSet(s) \cup ToSet(r)
<1>1. s \in Seq(S) /\ r \in Seq(S)
  BY DEF IsSeq, ToSet
<1> HIDE DEF S
<1>2. /\ s \o r \in Seq(S) /\ Len(s \o r) = Len(s) + Len(r) /\ Len(s) \in Nat /\ Len(r) \in Nat
      /\ \A k \in 1..Len(s) : (s \o r)[k] = s[k]
      /\ \A k \in Len(s) + 1..Len(s) + Len(r) : (s \o r)[k] = r[k - Len(s)]
  BY <1>1
<1>3. ASSUME NEW k \in 1..Len(s \o r) PROVE (s \o r)[k].do \notin Changing
  <2>1. CASE k <= Len(s)
    BY <1>2, <2>1 DEF Calm
  <2>2. CASE k > Len(s)
    <3>1. (s \o r)[k] = r[k - Len(s)] /\ k - Len(s) \in 1..Len(r)
      BY <1>2, <2>2
    <3> QED BY <3>1 DEF Calm
  <2> QED BY <1>2, <2>1, <2>2
<1> QED BY <1>2, <1>3, Sequence DEF Calm

LEMMA Unroll ==
    ASSUME NEW s, IsSeq(s), s # <<>>, NEW r, IsSeq(r)
    PROVE  /\ IsSeq(s \o r) /\ s \o r # <<>> /\ (s \o r)[1] = s[1]
           /\ Tail(s \o r) = Tail(s) \o r /\ IsSeq(Tail(s))
<1> DEFINE S == ToSet(s) \cup ToSet(r)
<1>1. s \in Seq(S) /\ r \in Seq(S)
  BY DEF IsSeq, ToSet
<1> HIDE DEF S
<1>2. s \o r \in Seq(S) /\ s \o r # <<>> /\ (s \o r)[1] = s[1] /\ Tail(s) \in Seq(S)
  BY <1>1
<1>3. Tail(s \o r) = Tail(s) \o r
  BY <1>1
<1> QED BY <1>2, <1>3, Sequence

\* What the locals and the next list of a handler with work in hand are.
LEMMA CalmHead ==
    ASSUME LInv, NEW t, NEW slot, NEW made, Work(t, slot, made),
           t = <<>> \/ t[1].do \notin Changing
    PROVE  Resting(t)
<1>1. /\ ~Toggling(t) /\ \A q : /\ ~ToPoint(t) /\ ~ToRetire(t, q) /\ ~ToLink(t, q)
                                /\ ~ToInsert(t, q) /\ ~ToNumber(t, q)
  BY DEF Toggling, ToPoint, ToRetire, ToLink, ToInsert, ToNumber, First, Changing, VersionCalls
<1>2. \A q : /\ ~ToCreate(t, q) /\ ~ToDisable(t, q) /\ ~ToFirstNumber(t, q) /\ ~ToFirstRow(t, q)
             /\ ~ToFirstPoint(t, q) /\ ~ToSecondEdge(t, q)
  BY DEF ToCreate, ToDisable, ToFirstNumber, ToFirstRow, ToFirstPoint, ToSecondEdge, IsEdge, First,
         Changing, VersionCalls
<1>3. \A q \in Ids : q[1] # "review" => ~ToEdges(t, q)
  <2>1. \A relation, from : ~IsEdge(t, relation, from)
    BY DEF IsEdge, First, Changing, VersionCalls
  <2> QED BY <2>1 DEF LInv, TypeOK, IsId, ToEdges
<1>4. ~Succeeding(t, slot, made) /\ ~Founding(t, slot, made)
  BY <1>1, <1>2, <1>3 DEF Succeeding, SucceedingBy, Founding, FoundingBy, Creating
<1> QED BY <1>1, <1>4 DEF Work

\* What a list may ask for beside a split stays as it was.
NoSplits(t) == \A i \in 1..Len(t) : t[i].do \notin {"split", "split_child"}
NoToggles(t) ==
    \A i \in 1..Len(t) : t[i].do \notin {"disable", "enable", "prune", "accept_recommendation"}

LEMMA SplitsPlan ==
    ASSUME NEW plan, IsSeq(plan), NEW t, IsSeq(t), t # <<>>, NEW u, u = plan \o Tail(t),
           Splits(t), NoSplits(plan), NoToggles(plan) \/ NoSplits(t)
    PROVE  Splits(u)
<1>1. /\ IsSeq(u) /\ Len(plan) \in Nat /\ Len(t) \in Nat \ {0} /\ Len(u) = Len(plan) + Len(t) - 1
      /\ \A i \in 1..Len(plan) : u[i] = plan[i]
      /\ \A i \in Len(plan) + 1..Len(plan) + Len(t) - 1 : u[i] = t[i - Len(plan) + 1]
  BY RestOf
<1> DEFINE k(i) == i - Len(plan) + 1
<1>2. ASSUME NEW i \in 1..Len(u), u[i].do \in {"split", "split_child"}
      PROVE  k(i) \in 2..Len(t) /\ u[i] = t[k(i)]
  <2>1. ~ (i <= Len(plan))
    BY <1>1, <1>2 DEF NoSplits
  <2> QED BY <1>1, <2>1
<1>3. ASSUME NEW i \in 1..Len(u), u[i].do \in {"disable", "enable", "prune", "accept_recommendation"}
      PROVE  NoSplits(t) \/ (k(i) \in 2..Len(t) /\ u[i] = t[k(i)])
  <2>1. CASE i <= Len(plan)
    BY <1>1, <1>3, <2>1 DEF NoToggles
  <2>2. CASE i > Len(plan)
    BY <1>1, <2>2
  <2> QED BY <1>1, <2>1, <2>2
<1>4. \A i, j \in 1..Len(u) : i # j => k(i) # k(j)
  BY <1>1
<1>5. \A i \in 1..Len(u) : u[i].do # "split"
  <2> SUFFICES ASSUME NEW i \in 1..Len(u), u[i].do = "split" PROVE FALSE
    OBVIOUS
  <2>1. k(i) \in 2..Len(t) /\ t[k(i)].do = "split"
    BY <1>2
  <2> HIDE DEF k
  <2> QED BY <1>1, <2>1 DEF Splits
<1> HIDE DEF k
<1>6. \A i \in 1..Len(u) : Unmade(u, i) => ChildAt(u, i) \notin Ids \/ Begun(ChildAt(u, i))
  <2> SUFFICES ASSUME NEW i \in 1..Len(u), Unmade(u, i)
               PROVE ChildAt(u, i) \notin Ids \/ Begun(ChildAt(u, i))
    OBVIOUS
  <2>1. k(i) \in 1..Len(t) /\ u[i] = t[k(i)]
    BY <1>1, <1>2 DEF Unmade
  <2> QED BY <2>1 DEF Splits, Unmade, ChildAt
<1>7. \A i, j \in 1..Len(u) :
          Unmade(u, i) /\ Unmade(u, j) /\ i # j /\ ChildAt(u, i) = ChildAt(u, j) => NamedTwice(ChildAt(u, i))
  <2> SUFFICES ASSUME NEW i \in 1..Len(u), NEW j \in 1..Len(u), Unmade(u, i), Unmade(u, j), i # j,
                      ChildAt(u, i) = ChildAt(u, j)
               PROVE NamedTwice(ChildAt(u, i))
    OBVIOUS
  <2>1. k(i) \in 2..Len(t) /\ u[i] = t[k(i)] /\ k(j) \in 2..Len(t) /\ u[j] = t[k(j)]
    BY <1>2 DEF Unmade
  <2>3. k(i) \in 1..Len(t) /\ k(j) \in 1..Len(t) /\ k(i) # k(j)
    BY <1>1, <1>4, <2>1
  <2>2. Unmade(t, k(i)) /\ Unmade(t, k(j)) /\ ChildAt(t, k(i)) = ChildAt(t, k(j)) /\ ChildAt(t, k(i)) = ChildAt(u, i)
    BY <2>1 DEF Unmade, ChildAt
  <2> QED BY <2>2, <2>3 DEF Splits
<1>8. \A i, j \in 1..Len(u) :
          u[i].do = "split_child" =>
              u[j].do \notin {"split", "disable", "enable", "prune", "accept_recommendation"}
  <2> SUFFICES ASSUME NEW i \in 1..Len(u), NEW j \in 1..Len(u), u[i].do = "split_child",
                      u[j].do \in {"disable", "enable", "prune", "accept_recommendation"}
               PROVE FALSE
    BY <1>5
  <2>1. k(i) \in 2..Len(t) /\ u[i] = t[k(i)]
    BY <1>2
  <2>2. k(i) \in 1..Len(t)
    BY <1>1, <2>1
  <2>3. ~NoSplits(t)
    BY <2>1, <2>2 DEF NoSplits
  <2>4. k(j) \in 2..Len(t) /\ u[j] = t[k(j)]
    BY <1>3, <2>3
  <2>5. k(j) \in 1..Len(t)
    BY <1>1, <2>4
  <2> QED BY <2>1, <2>2, <2>4, <2>5 DEF Splits
<1> QED BY <1>5, <1>6, <1>7, <1>8 DEF Splits

\* The rest of a list, when the tables have changed.
LEMMA SplitsTail ==
    ASSUME NEW t, IsSeq(t), t # <<>>, NEW u, u = Tail(t), Splits(t),
           \A i \in 1..Len(t) : Unmade(t, i) => (ChildAt(t, i) \notin Ids \/ Begun(ChildAt(t, i)))'
    PROVE  Splits(u)'
<1>1. Len(t) \in Nat \ {0} /\ Len(u) = Len(t) - 1 /\ \A k \in 1..Len(t) - 1 : u[k] = t[k + 1]
  BY TailOf
<1>2. \A i \in 1..Len(u) : i + 1 \in 2..Len(t) /\ u[i] = t[i + 1]
  BY <1>1
<1>3. \A i, j \in 1..Len(u) : i # j => i + 1 # j + 1
  BY <1>1
<1> DEFINE k(i) == i + 1
<1>4. \A i \in 1..Len(u) : k(i) \in 1..Len(t) /\ u[i] = t[k(i)] /\ Len(t) # 1
  BY <1>1, <1>2
<1>5. \A i, j \in 1..Len(u) : i # j => k(i) # k(j)
  BY <1>1
<1> HIDE DEF k
<1>6. \A i \in 1..Len(u) : Unmade(u, i) = Unmade(t, k(i)) /\ ChildAt(u, i) = ChildAt(t, k(i))
  BY <1>4 DEF Unmade, ChildAt
<1>7. \A i \in 1..Len(u) : Unmade(u, i) => (ChildAt(u, i) \notin Ids \/ Begun(ChildAt(u, i)))'
  <2> SUFFICES ASSUME NEW i \in 1..Len(u), Unmade(u, i)
               PROVE (ChildAt(u, i) \notin Ids \/ Begun(ChildAt(u, i)))'
    OBVIOUS
  <2>1. k(i) \in 1..Len(t) /\ Unmade(t, k(i)) /\ ChildAt(u, i) = ChildAt(t, k(i))
    BY <1>4, <1>6
  <2> QED BY <2>1
<1>8. \A i, j \in 1..Len(u) :
          Unmade(u, i) /\ Unmade(u, j) /\ i # j /\ ChildAt(u, i) = ChildAt(u, j) => NamedTwice(ChildAt(u, i))
  BY <1>4, <1>5, <1>6 DEF Splits
<1>9. \A i, j \in 1..Len(u) :
          u[i].do = "split_child" =>
              u[j].do \notin {"split", "disable", "enable", "prune", "accept_recommendation"}
  BY <1>4 DEF Splits
<1>10. \A i \in 1..Len(u) : u[i].do = "split" => Len(u) = 1
  BY <1>4 DEF Splits
<1> QED BY <1>7, <1>8, <1>9, <1>10 DEF Splits

\* The same of the state after a step.
LEMMA CalmHeadNext ==
    ASSUME NEW t, NEW slot, NEW made
    PROVE  (LInv /\ Work(t, slot, made) /\ (t = <<>> \/ t[1].do \notin Changing) => Resting(t))'
<1>1. LInv /\ Work(t, slot, made) /\ (t = <<>> \/ t[1].do \notin Changing) => Resting(t)
  BY CalmHead
<1> QED BY <1>1, PTL

-----------------------------------------------------------------------------
\* What a step leaves as it was.

\* Versions and edges are added, and what a version says stays.
Kept ==
    /\ DOMAIN versions \subseteq DOMAIN versions' /\ lineage \subseteq lineage'
    /\ \A v \in DOMAIN versions : /\ versions'[v].content = versions[v].content
                                  /\ versions'[v].placement = versions[v].placement
                                  /\ versions'[v].scope = versions[v].scope

Same(o) == ActiveOf(o)' = ActiveOf(o) /\ Current(o)' = Current(o)

LEMMA SuitsKept ==
    ASSUME Kept, NEW q, NEW v \in DOMAIN versions, Suits(q, versions[v])
    PROVE  Suits(q, versions'[v])
BY DEF Kept, Suits

LEMMA KnownKept ==
    ASSUME Kept, NEW q, Known(q) PROVE Known(q)'
<1>1. ASSUME q[1] = "merge"
      PROVE  \E v \in DOMAIN versions' :
                 /\ Suits(q, versions'[v])
                 /\ {<<"merge_parent", q[2], v>>, <<"merge_parent", q[3], v>>} \subseteq lineage'
  <2>1. PICK v \in DOMAIN versions :
                 /\ Suits(q, versions[v])
                 /\ {<<"merge_parent", q[2], v>>, <<"merge_parent", q[3], v>>} \subseteq lineage
    BY <1>1 DEF Known
  <2>2. Suits(q, versions'[v])
    BY <2>1, SuitsKept
  <2> QED BY <2>1, <2>2 DEF Kept
<1>2. ASSUME q[1] = "split"
      PROVE  \E v \in DOMAIN versions' : Suits(q, versions'[v]) /\ <<"split_child", q[2], v>> \in lineage'
  <2>1. PICK v \in DOMAIN versions : Suits(q, versions[v]) /\ <<"split_child", q[2], v>> \in lineage
    BY <1>2 DEF Known
  <2>2. Suits(q, versions'[v])
    BY <2>1, SuitsKept
  <2> QED BY <2>1, <2>2 DEF Kept
<1> QED BY <1>1, <1>2 DEF Known

LEMMA AloneKept ==
    ASSUME NEW o, Same(o), Alone(o) PROVE Alone(o)'
BY DEF Same, Alone, NamedTwice

LEMMA OthersKept ==
    ASSUME Kept, NEW q, Ids' \subseteq Ids \cup {q}, \A o \in Ids \ {q} : Same(o), Others(q)
    PROVE  Others(q)'
<1> SUFFICES ASSUME NEW o \in Ids', o # q PROVE Settled(o)'
  BY DEF Others
<1>1. Settled(o) /\ Same(o)
  BY DEF Others
<1> QED BY <1>1, KnownKept, AloneKept DEF Settled

\* A step that leaves the three tables alone.
Untouched == UNCHANGED <<policies, versions, lineage>>

LEMMA RestingStill == ASSUME Untouched, NEW t, Resting(t) PROVE Resting(t)'
BY DEF Untouched, Resting, Settled, Alone, Known, ActiveOf, Current, NamedTwice, Suits, Ids, Calm,
       Changing, VersionCalls

LEMMA SettledStill == ASSUME Untouched, \A q \in Ids : Settled(q) PROVE (\A q \in Ids : Settled(q))'
BY DEF Untouched, Settled, Alone, Known, ActiveOf, Current, NamedTwice, Suits, Ids

LEMMA SplitsStill == ASSUME Untouched, NEW t, Splits(t) PROVE Splits(t)'
BY DEF Untouched, Splits, Begun, Ids, NamedTwice, Unmade, ChildAt, SplitId

LEMMA WorkStill == ASSUME Untouched, NEW t, NEW slot, NEW made, Work(t, slot, made) PROVE Work(t, slot, made)'
<1>1. /\ Ids' = Ids /\ policies' = policies /\ versions' = versions /\ lineage' = lineage
      /\ \A q : /\ Known(q)' = Known(q) /\ Current(q)' = Current(q) /\ ActiveOf(q)' = ActiveOf(q)
                /\ HasVersion(q)' = HasVersion(q) /\ Begun(q)' = Begun(q)
  BY DEF Untouched, Known, Current, ActiveOf, HasVersion, Begun, Suits, NamedTwice, Ids
<1>2. \A q : Alone(q)' = Alone(q) /\ Bare(q)' = Bare(q) /\ Settled(q)' = Settled(q)
  BY <1>1 DEF Alone, Bare, Settled, NamedTwice
<1>3. \A q : Others(q)' = Others(q) /\ Beside(q, made)' = Beside(q, made) /\ Only(q, made)' = Only(q, made)
             /\ Free(q, slot)' = Free(q, slot)
  BY <1>1, <1>2 DEF Others, Beside, Only, Free, NamedTwice
<1>4. Splits(t)'
  BY SplitsStill DEF Work
<1>5. CASE Resting(t)
  BY <1>4, <1>5, RestingStill DEF Work
<1>6. CASE Toggling(t)
  BY <1>1, <1>2, <1>4, <1>6 DEF Work, Toggling, First, Calm, Changing, VersionCalls
<1>7. CASE Succeeding(t, slot, made)
  <2>1. PICK q \in Ids : HasVersion(q) /\ Known(q) /\ Others(q) /\ SucceedingBy(t, slot, made, q)
    BY <1>7 DEF Succeeding
  <2>2. (ToRetire(t, q) = ToRetire(t, q)') /\ (ToLink(t, q) = ToLink(t, q)')
        /\ (ToInsert(t, q) = ToInsert(t, q)') /\ (ToNumber(t, q) = ToNumber(t, q)') /\ (ToPoint(t) = ToPoint(t)')
    BY <1>1 DEF ToRetire, ToLink, ToInsert, ToNumber, First, ToPoint, Calm, Changing, VersionCalls
  <2>3. SucceedingBy(t, slot, made, q)'
    BY <1>2, <1>3, <2>1, <2>2 DEF SucceedingBy
  <2> QED BY <1>1, <1>3, <1>4, <2>1, <2>3 DEF Work, Succeeding
<1>8. CASE Founding(t, slot, made)
  <2>1. CASE t # <<>> /\ Creating(t, t[1].policy) /\ Others(t[1].policy)
    BY <1>1, <1>3, <1>4, <2>1 DEF Work, Founding, Creating, NamedTwice, Unmade, ChildAt, ToCreate
  <2>2. CASE \E q \in Ids : Others(q) /\ FoundingBy(t, slot, made, q)
    BY <1>1, <1>2, <1>3, <1>4, <2>2 DEF Work, Founding, FoundingBy
  <2> QED BY <1>8, <2>1, <2>2 DEF Founding
<1> QED BY <1>5, <1>6, <1>7, <1>8 DEF Work

-----------------------------------------------------------------------------
\* What is known of the handler that is busy, and what has to be shown of it.

LEMMA AtWork ==
    ASSUME LInv, InHand, Undisturbed, NEW p \in Procs, Busy(p)
    PROVE  /\ Work(loc[p].todo, loc[p].slot, loc[p].made)
           /\ loc[p].todo # <<>> /\ Now(p) = loc[p].todo[1] /\ IsSeq(loc[p].todo)
           /\ Now(p).do \notin Changing => Resting(loc[p].todo)
<1>1. Work(loc[p].todo, loc[p].slot, loc[p].made)
  BY DEF InHand, Works
<1>2. loc[p].todo # <<>> /\ Now(p) = loc[p].todo[1] /\ IsSeq(loc[p].todo)
  BY AtHead DEF Good
<1> QED BY <1>1, <1>2, CalmHead

\* The handler goes on, and is the only one.
LEMMA Going ==
    ASSUME LInv, LInv', InHand, Undisturbed, NEW p \in Procs, Busy(p),
           NEW plan, NEW new, Shape(new), Continue(p, plan, new),
           NEW u, u = plan \o Tail(loc[p].todo), Work(u, new.slot, new.made)'
    PROVE  InHand'
<1>1. PICK h : /\ loc' = [loc EXCEPT ![p] = h]
               /\ h = IF u = <<>> THEN Idle ELSE [new EXCEPT !.todo = u]
  BY DEF Continue
<1>2. loc' = [q \in Procs |-> IF q = p THEN h ELSE loc[q]]
  BY <1>1 DEF LInv, HInv, Handlers
<1>3. /\ h.todo = u
      /\ u # <<>> => h.slot = new.slot /\ h.made = new.made
  <2>1. CASE u = <<>>
    BY <1>1, <2>1 DEF Idle
  <2>2. CASE u # <<>>
    <3>1. h = [todo |-> u, slot |-> new.slot, made |-> new.made, view |-> new.view,
               built |-> new.built]
      BY <1>1, <2>2 DEF Shape
    <3> QED BY <3>1, <2>2
  <2> QED BY <2>1, <2>2
<1>4. \A q \in Procs : Busy(q)' => q = p /\ u # <<>>
  BY <1>2, <1>3 DEF InHand, Busy
<1>5. u # <<>> => Works(p)' /\ Overlap'
  BY <1>2, <1>3 DEF Works, Overlap, Busy
<1>6. u = <<>> => (\A q \in Ids : Settled(q))'
  BY CalmHeadNext DEF Resting
<1> QED BY <1>4, <1>5, <1>6 DEF InHand

\* The handler ends.
LEMMA Ending ==
    ASSUME LInv, InHand, Undisturbed, NEW p \in Procs, Busy(p), End(p),
           (\A q \in Ids : Settled(q))'
    PROVE  InHand'
<1>1. loc' = [q \in Procs |-> IF q = p THEN Idle ELSE loc[q]]
  BY DEF End, LInv, HInv, Handlers
<1>2. \A q \in Procs : ~Busy(q)'
  BY <1>1 DEF InHand, Busy, Idle
<1> QED BY <1>2 DEF InHand

\* A request is replaced by a plan that leaves the tables alone.
LEMMA Planned ==
    ASSUME LInv, LInv', InHand, Undisturbed, Untouched, NEW p \in Procs, Busy(p),
           NEW plan, NEW new, Shape(new), Continue(p, plan, new),
           NEW u, u = plan \o Tail(loc[p].todo), Work(u, new.slot, new.made)
    PROVE  InHand'
BY WorkStill, Going

\* A plan that changes nothing either.
LEMMA QuietPlan ==
    ASSUME LInv, LInv', InHand, Undisturbed, Untouched, NEW p \in Procs, Busy(p),
           Now(p).do \notin Changing,
           NEW plan, IsSeq(plan), Calm(plan), NoSplits(plan),
           NoToggles(plan) \/ NoSplits(loc[p].todo),
           NEW new, Shape(new), Continue(p, plan, new)
    PROVE  InHand'
<1> DEFINE t == loc[p].todo
<1>1. Work(t, loc[p].slot, loc[p].made) /\ t # <<>> /\ IsSeq(t) /\ Resting(t)
  BY AtWork
<1>2. Calm(Tail(t)) /\ IsSeq(Tail(t))
  BY <1>1, CalmTail, TailOf DEF Resting
<1>3. PICK u : u = plan \o Tail(t)
  OBVIOUS
<1>4. Calm(u)
  BY <1>2, <1>3, CalmPlan
<1>5. Splits(u)
  BY <1>1, <1>3, SplitsPlan DEF Work
<1>6. Work(u, new.slot, new.made)
  BY <1>1, <1>4, <1>5 DEF Work, Resting
<1> QED BY <1>3, <1>6, Planned

-----------------------------------------------------------------------------
\* The steps that change none of the three tables.

\* What a list can have that matters beside the calls that write versions.
Loud == Changing \cup {"split", "split_child", "disable", "enable", "prune", "accept_recommendation"}

\* Calls that change nothing and ask for nothing.
Mild(plan) == IsSeq(plan) /\ \A i \in 1..Len(plan) : plan[i].do \notin Loud

LEMMA MildNone == Mild(<<>>)
BY DEF Mild, IsSeq, ToSet

LEMMA MildOne == ASSUME NEW a, a.do \notin Loud PROVE Mild(<<a>>)
<1>1. IsSeq(<<a>>) /\ Len(<<a>>) = 1 /\ <<a>>[1] = a
  BY DEF IsSeq, ToSet
<1> QED BY <1>1 DEF Mild

LEMMA MildTwo == ASSUME NEW a, NEW b, a.do \notin Loud, b.do \notin Loud PROVE Mild(<<a, b>>)
<1>1. IsSeq(<<a, b>>) /\ Len(<<a, b>>) = 2 /\ <<a, b>>[1] = a /\ <<a, b>>[2] = b
  BY DEF IsSeq, ToSet
<1> QED BY <1>1 DEF Mild

LEMMA MildThree ==
    ASSUME NEW a, NEW b, NEW c, a.do \notin Loud, b.do \notin Loud, c.do \notin Loud
    PROVE  Mild(<<a, b, c>>)
<1>1. /\ IsSeq(<<a, b, c>>) /\ Len(<<a, b, c>>) = 3
      /\ <<a, b, c>>[1] = a /\ <<a, b, c>>[2] = b /\ <<a, b, c>>[3] = c
  BY DEF IsSeq, ToSet
<1> QED BY <1>1 DEF Mild

LEMMA MildKeeps ==
    ASSUME LInv, LInv', InHand, Undisturbed, Untouched, NEW p \in Procs, Busy(p),
           Now(p).do \notin Changing, NEW plan, Mild(plan),
           NEW new, Shape(new), Continue(p, plan, new)
    PROVE  InHand'
<1>1. IsSeq(plan) /\ Calm(plan) /\ NoSplits(plan) /\ NoToggles(plan)
  BY DEF Mild, Calm, NoSplits, NoToggles, Loud
<1> QED BY <1>1, QuietPlan

\* The calls that write to the other tables.
LEMMA OtherCallsInHand ==
    ASSUME LInv, LInv', InHand, Undisturbed, NEW p \in Procs,
           record_lifecycle_action(p) \/ upsert_recommendation(p) \/ update_recommendation_status(p)
    PROVE  InHand'
<1>1. Busy(p) /\ Now(p).do \notin Changing /\ Untouched /\ Did(p)
  BY DEF record_lifecycle_action, upsert_recommendation, update_recommendation_status, Serving,
         Untouched, Changing, VersionCalls
<1>2. Shape(loc[p]) /\ Continue(p, <<>>, loc[p])
  BY <1>1, AtHead DEF Did
<1> QED BY <1>1, <1>2, MildNone, MildKeeps

\* Preview and Apply.
LEMMA FinishMild == ASSUME NEW v, NEW outcome PROVE Mild(Finish(v, outcome))
<1>1. /\ Recorded(v, outcome).do \notin Loud
      /\ [do |-> "consume_lifecycle_preview", version |-> v].do \notin Loud
      /\ Log(v[1], v, "apply_" \o outcome).do \notin Loud
  BY DEF Recorded, Log, Loud, Changing, VersionCalls
<1> QED BY <1>1, MildThree DEF Finish

LEMMA FileStepsInHand ==
    ASSUME LInv, LInv', InHand, Undisturbed, NEW p \in Procs, FileStep(p)
    PROVE  InHand'
<1> DEFINE v == Now(p).version
<1>1. Busy(p) /\ Now(p).do \in FileCalls /\ Untouched
  BY DEF FileStep, build_preview, record_lifecycle_preview, latest_lifecycle_preview, build, PreviewRefused,
         Recheck, _atomic_replace, record_lifecycle_application, consume_lifecycle_preview, Serving,
         FileCalls, Untouched, Become, tables
<1>2. Now(p).do \notin Changing
  BY <1>1 DEF FileCalls, Changing, VersionCalls
<1>3. Shape(loc[p]) /\ Resting(loc[p].todo)
  BY <1>1, <1>2, AtHead, AtWork
<1>4. ASSUME NEW plan, Mild(plan), NEW new, Shape(new), Continue(p, plan, new) PROVE InHand'
  BY <1>1, <1>2, <1>4, MildKeeps
<1>5. ASSUME NEW plan, Mild(plan), Become(p, plan) PROVE InHand'
  BY <1>3, <1>4, <1>5 DEF Become
<1>6. CASE Did(p)
  BY <1>3, <1>4, <1>6, MildNone DEF Did
<1>7. CASE build_preview(p)
  <2> DEFINE c == [do |-> "record_lifecycle_preview", version |-> v,
                   target_hash |-> FileAt(Path(v)), output_hash |-> render_target(v)]
             d == Log(v[1], v, "preview")
  <2>1. Become(p, <<c, d>>)
    BY <1>7 DEF build_preview
  <2>2. c.do \notin Loud /\ d.do \notin Loud
    BY DEF Log, Loud, Changing, VersionCalls
  <2> HIDE DEF c, d
  <2> QED BY <2>1, <2>2, <1>5, MildTwo
<1>8. CASE latest_lifecycle_preview(p)
  <2> DEFINE s == Now(p)
             b == Step9("build", v, s.dry)
             r == [do |-> "preview", policy |-> v[1]]
  <2>1. \/ \E x : Continue(p, <<b>>, [loc[p] EXCEPT !.view = x])
        \/ Continue(p, <<r, s>>, loc[p])
    BY <1>8 DEF latest_lifecycle_preview
  <2>2. b.do \notin Loud /\ r.do \notin Loud /\ s.do \notin Loud
    BY <1>8 DEF latest_lifecycle_preview, Serving, Step9, Loud, Changing, VersionCalls
  <2> HIDE DEF b, r, s
  <2>3. Mild(<<b>>) /\ Mild(<<r, s>>)
    BY <2>2, MildOne, MildTwo
  <2>4. \A x : Shape([loc[p] EXCEPT !.view = x])
    BY <1>3, SetView DEF Alike
  <2> QED BY <2>1, <2>3, <2>4, <1>3, <1>4
<1>9. CASE build(p)
  <2> DEFINE c == [do |-> "recheck", version |-> v]
  <2>1. \E x : \/ Continue(p, Finish(v, "already_applied"), [loc[p] EXCEPT !.built = x])
               \/ Continue(p, <<c>>, [loc[p] EXCEPT !.built = x])
    BY <1>9 DEF build
  <2>2. c.do \notin Loud
    BY DEF Loud, Changing, VersionCalls
  <2> HIDE DEF c
  <2>3. Mild(<<c>>)
    BY <2>2, MildOne
  <2>4. \A x : Shape([loc[p] EXCEPT !.built = x])
    BY <1>3, SetView DEF Alike
  <2> QED BY <2>1, <2>3, <2>4, <1>4, FinishMild
<1>10. CASE PreviewRefused(p)
  <2>1. (\A q \in Ids : Settled(q))'
    BY <1>1, <1>3, SettledStill DEF Resting
  <2> QED BY <1>1, <1>10, <2>1, Ending DEF PreviewRefused
<1>11. CASE Recheck(p)
  <2> DEFINE c == [do |-> "_atomic_replace", version |-> v]
             d == Recorded(v, "safety_refused")
  <2>1. Become(p, Finish(v, "already_applied")) \/ Become(p, <<c>>) \/ Become(p, <<d>>)
    BY <1>11 DEF Recheck
  <2>2. c.do \notin Loud /\ d.do \notin Loud
    BY DEF Recorded, Loud, Changing, VersionCalls
  <2> HIDE DEF c, d
  <2>3. Mild(<<c>>) /\ Mild(<<d>>)
    BY <2>2, MildOne
  <2> QED BY <2>1, <2>3, <1>5, FinishMild
<1>12. CASE _atomic_replace(p)
  BY <1>3, <1>4, <1>12, FinishMild DEF _atomic_replace
<1>13. CASE record_lifecycle_preview(p) \/ record_lifecycle_application(p) \/ consume_lifecycle_preview(p)
  BY <1>6, <1>13 DEF record_lifecycle_preview, record_lifecycle_application, consume_lifecycle_preview
<1> QED BY <1>7, <1>8, <1>9, <1>10, <1>11, <1>12, <1>13 DEF FileStep

-----------------------------------------------------------------------------
\* The operations that make no policy.

LEMMA NoSplitsTail ==
    ASSUME NEW t, IsSeq(t), t # <<>>, NoSplits(t) PROVE NoSplits(Tail(t))
<1>1. Len(t) \in Nat \ {0} /\ Len(Tail(t)) = Len(t) - 1 /\ \A k \in 1..Len(t) - 1 : Tail(t)[k] = t[k + 1]
  BY TailOf
<1>2. \A k \in 1..Len(Tail(t)) : k + 1 \in 1..Len(t) /\ Tail(t)[k] = t[k + 1]
  BY <1>1
<1> QED BY <1>2 DEF NoSplits

LEMMA NoSplitsPlan ==
    ASSUME NEW s, IsSeq(s), NEW r, IsSeq(r), NoSplits(s), NoSplits(r)
    PROVE  NoSplits(s \o r)
<1> DEFINE S == ToSet(s) \cup ToSet(r)
<1>1. s \in Seq(S) /\ r \in Seq(S)
  BY DEF IsSeq, ToSet
<1> HIDE DEF S
<1>2. /\ Len(s \o r) = Len(s) + Len(r) /\ Len(s) \in Nat /\ Len(r) \in Nat
      /\ \A k \in 1..Len(s) : (s \o r)[k] = s[k]
      /\ \A k \in Len(s) + 1..Len(s) + Len(r) : (s \o r)[k] = r[k - Len(s)]
  BY <1>1
<1>3. ASSUME NEW k \in 1..Len(s \o r) PROVE (s \o r)[k].do \notin {"split", "split_child"}
  <2>1. CASE k <= Len(s)
    BY <1>2, <2>1 DEF NoSplits
  <2>2. CASE k > Len(s)
    <3>1. (s \o r)[k] = r[k - Len(s)] /\ k - Len(s) \in 1..Len(r)
      BY <1>2, <2>2
    <3> QED BY <3>1 DEF NoSplits
  <2> QED BY <1>2, <2>1, <2>2
<1> QED BY <1>3 DEF NoSplits

\* Beside a request for a new status, or for what a recommendation asks, nothing is split.
LEMMA NothingSplit ==
    ASSUME NEW t, IsSeq(t), t # <<>>, Splits(t),
           t[1].do \in {"disable", "enable", "prune", "accept_recommendation"}
    PROVE  NoSplits(t)
<1>1. 1 \in 1..Len(t)
  BY DEF IsSeq
<1>2. \A i \in 1..Len(t) : t[i].do # "split_child"
  BY <1>1 DEF Splits
<1>3. ASSUME NEW i \in 1..Len(t), t[i].do = "split" PROVE FALSE
  <2>1. Len(t) = 1
    BY <1>3 DEF Splits
  <2> QED BY <1>3, <2>1
<1> QED BY <1>2, <1>3 DEF NoSplits

LEMMA SettleMild ==
    ASSUME NEW rec, NEW status PROVE Mild(Settle(rec, status))
<1>1. /\ Close(rec, status).do \notin Loud
      /\ Log(rec.version[1], rec.version, "recommendation_" \o status).do \notin Loud
  BY DEF Close, Log, Loud, Changing, VersionCalls
<1> QED BY <1>1, MildTwo DEF Settle

LEMMA AdviceInHand ==
    ASSUME LInv, LInv', InHand, Undisturbed, NEW p \in Procs,
           \/ recommend(p) \/ accept_recommendation(p) \/ reject_recommendation(p)
           \/ defer_recommendation(p) \/ preview(p) \/ apply(p)
    PROVE  InHand'
<1> DEFINE r == Now(p)
<1>1. /\ Busy(p) /\ Untouched
      /\ r.do \in {"recommend", "accept_recommendation", "reject_recommendation",
                   "defer_recommendation", "preview", "apply"}
  BY DEF recommend, accept_recommendation, reject_recommendation, defer_recommendation, preview, apply,
         Begins, Serving, Become, tables, Untouched
<1>2. r.do \notin Changing
  BY <1>1 DEF Changing, VersionCalls
<1>3. Shape(loc[p])
  BY <1>1, AtHead
<1>4. ASSUME NEW plan, Mild(plan), Become(p, plan) PROVE InHand'
  BY <1>1, <1>2, <1>3, <1>4, MildKeeps DEF Become
<1>5. ASSUME NEW c, c.do \notin Loud, Become(p, <<c>>) PROVE InHand'
  BY <1>4, <1>5, MildOne
<1>6. CASE recommend(p)
  <2> DEFINE c == [do |-> "upsert_recommendation", rec |-> Recommendation(Current(r.policy))]
  <2>1. Become(p, <<c>>) /\ c.do \notin Loud
    BY <1>6 DEF recommend, Loud, Changing, VersionCalls
  <2> HIDE DEF c
  <2> QED BY <2>1, <1>5
<1>7. CASE reject_recommendation(p) \/ defer_recommendation(p)
  BY <1>4, <1>7, SettleMild DEF reject_recommendation, defer_recommendation
<1>8. CASE preview(p)
  <2> DEFINE c == [do |-> "build_preview", version |-> Current(r.policy)]
  <2>1. Become(p, <<c>>) /\ c.do \notin Loud
    BY <1>8 DEF preview, Loud, Changing, VersionCalls
  <2> HIDE DEF c
  <2> QED BY <2>1, <1>5
<1>9. CASE apply(p)
  <2> DEFINE c == Step9("latest_lifecycle_preview", Current(r.policy), r.dry)
  <2>1. Become(p, <<c>>) /\ c.do \notin Loud
    BY <1>9 DEF apply, Step9, Loud, Changing, VersionCalls
  <2> HIDE DEF c
  <2> QED BY <2>1, <1>5
<1>10. CASE accept_recommendation(p)
  <2> DEFINE plan == Recommended(r) \o Settle(r.rec, "accepted")
  <2>1. Become(p, plan) /\ Allowed(r) /\ r.do = "accept_recommendation"
    BY <1>10 DEF accept_recommendation, Begins, Serving
  <2>2. r.rec.op \in {"disable", "promote", "retain"}
    <3>1. r.rec.op \in {"demote", "disable", "promote", "retain"}
      BY <1>1, <2>1, AtHead DEF Item
    <3>2. MayAccept(r)
      BY <2>1 DEF Allowed
    <3> QED BY <3>1, <3>2 DEF MayAccept
  <2>4. \/ Recommended(r) = <<>>
        \/ \E x : Recommended(r) = <<x>> /\ x.do \in {"promote", "disable"}
    BY <2>2 DEF Recommended
  <2>5. /\ IsSeq(Recommended(r)) /\ Calm(Recommended(r)) /\ NoSplits(Recommended(r))
    <3>1. CASE Recommended(r) = <<>>
      BY <3>1, MildNone DEF Mild, Calm, NoSplits, Loud
    <3>2. ASSUME NEW x, Recommended(r) = <<x>>, x.do \in {"promote", "disable"}
          PROVE  IsSeq(Recommended(r)) /\ Calm(Recommended(r)) /\ NoSplits(Recommended(r))
      <4>1. IsSeq(<<x>>) /\ Len(<<x>>) = 1 /\ <<x>>[1] = x
        BY DEF IsSeq, ToSet
      <4> QED BY <3>2, <4>1 DEF Calm, NoSplits, Changing, VersionCalls
    <3> QED BY <2>4, <3>1, <3>2
  <2>7. IsSeq(plan) /\ Calm(plan) /\ NoSplits(plan)
    <3>1. /\ IsSeq(Settle(r.rec, "accepted")) /\ Calm(Settle(r.rec, "accepted"))
          /\ NoSplits(Settle(r.rec, "accepted"))
      BY SettleMild DEF Mild, Calm, NoSplits, Loud
    <3> QED BY <2>5, <3>1, CalmPlan, NoSplitsPlan
  <2>6. NoSplits(loc[p].todo)
    BY <1>1, <2>1, AtWork, NothingSplit DEF Work
  <2> HIDE DEF plan
  <2> QED BY <1>1, <1>2, <1>3, <2>1, <2>7, <2>6, QuietPlan DEF Become
<1> QED BY <1>6, <1>7, <1>8, <1>9, <1>10

LEMMA RefusedInHand ==
    ASSUME LInv, LInv', InHand, Undisturbed, NEW p \in Procs, Refused(p)
    PROVE  InHand'
<1>1. Busy(p) /\ Untouched /\ End(p) /\ Now(p).do \notin Changing
  BY DEF Refused, tables, Untouched, Operations, Changing, VersionCalls
<1>2. (\A q \in Ids : Settled(q))'
  BY <1>1, AtWork, SettledStill DEF Resting
<1> QED BY <1>1, <1>2, Ending

LEMMA ToggleInHand ==
    ASSUME LInv, LInv', InHand, Undisturbed, NEW p \in Procs, toggle(p)
    PROVE  InHand'
<1> DEFINE t == loc[p].todo
           q == Now(p).policy
<1>1. PICK op \in {"disable", "enable", "prune"} :
          Begins(p, op) /\ Become(p, <<SetStatus(q, StatusOf(op)), Log(q, Current(q), op)>>)
  BY DEF toggle
<1> DEFINE a == SetStatus(q, StatusOf(op))
           b == Log(q, Current(q), op)
           plan == <<a, b>>
<1>2. Busy(p) /\ Untouched /\ Now(p).do = op /\ Allowed(Now(p)) /\ Continue(p, plan, loc[p])
  BY <1>1 DEF Begins, Serving, Become, tables, Untouched
<1>3. Now(p).do \notin Changing
  BY <1>2 DEF Changing, VersionCalls
<1>4. /\ Work(t, loc[p].slot, loc[p].made) /\ t # <<>> /\ IsSeq(t) /\ Resting(t) /\ Now(p) = t[1]
      /\ Shape(loc[p])
  BY <1>2, <1>3, AtWork, AtHead
<1>5. Calm(Tail(t)) /\ IsSeq(Tail(t)) /\ NoSplits(t)
  BY <1>2, <1>4, CalmTail, TailOf, NothingSplit DEF Resting, Work
<1>6. /\ a.do = "set_policy_status" /\ a.policy = q /\ a.status = StatusOf(op)
      /\ b.do \notin Loud /\ b.do \notin Changing
  BY DEF SetStatus, Log, Loud, Changing, VersionCalls
<1>7. a.status = "pruned" \/ policies[q].status # "pruned"
  BY <1>2, <1>6 DEF Allowed, StatusOf
<1> HIDE DEF a, b
<1>8. /\ IsSeq(plan) /\ plan # <<>> /\ Len(plan) = 2 /\ plan[1] = a /\ plan[2] = b
      /\ Tail(plan) = <<b>> /\ IsSeq(<<b>>) /\ Len(<<b>>) = 1 /\ <<b>>[1] = b
  BY DEF IsSeq, ToSet
<1>9. NoSplits(plan) /\ NoToggles(plan) /\ Calm(<<b>>)
  BY <1>6, <1>8 DEF NoSplits, NoToggles, Calm, Loud
<1> HIDE DEF plan
<1>10. PICK u : u = plan \o Tail(t)
  OBVIOUS
<1>11. Splits(u) /\ NoSplits(u)
  BY <1>4, <1>5, <1>8, <1>9, <1>10, SplitsPlan, NoSplitsTail, NoSplitsPlan DEF Work
<1>12. First(u, "set_policy_status") /\ u[1] = a /\ Calm(Tail(u))
  <2>1. u # <<>> /\ u[1] = plan[1] /\ Tail(u) = Tail(plan) \o Tail(t)
    BY <1>5, <1>8, <1>10, Unroll
  <2>2. Calm(Tail(plan) \o Tail(t))
    BY <1>5, <1>8, <1>9, CalmPlan
  <2> QED BY <1>6, <1>8, <2>1, <2>2 DEF First
<1>13. Toggling(u)
  BY <1>4, <1>6, <1>7, <1>11, <1>12 DEF Toggling, NoSplits, Resting
<1>14. Work(u, loc[p].slot, loc[p].made)
  BY <1>11, <1>13 DEF Work
<1> QED BY <1>2, <1>4, <1>10, <1>14, Planned

\* The calls of Succeed, one after the other.
LEMMA SucceedRolls ==
    ASSUME NEW q, NEW a, a.do = "next_policy_version_number", a.policy = q,
           NEW b, b.do = "create_policy_version", NEW c, c.do = "record_lineage",
           NEW d, d.do = "set_policy_version_status", d.version = Current(q),
           NEW e, e.do = "set_policy_current_version", NEW f, f.do \notin Changing,
           NEW r, IsSeq(r), Calm(r)
    PROVE  ToNumber(<<a, b, c, d, e, f>> \o r, q)
<1> DEFINE s6 == <<a, b, c, d, e, f>>
           s5 == <<b, c, d, e, f>>
           s4 == <<c, d, e, f>>
           s3 == <<d, e, f>>
           s2 == <<e, f>>
           s1 == <<f>>
<1>1. /\ IsSeq(s6) /\ s6 # <<>> /\ s6[1] = a /\ Tail(s6) = s5
      /\ IsSeq(s5) /\ s5 # <<>> /\ s5[1] = b /\ Tail(s5) = s4
      /\ IsSeq(s4) /\ s4 # <<>> /\ s4[1] = c /\ Tail(s4) = s3
      /\ IsSeq(s3) /\ s3 # <<>> /\ s3[1] = d /\ Tail(s3) = s2
      /\ IsSeq(s2) /\ s2 # <<>> /\ s2[1] = e /\ Tail(s2) = s1
      /\ IsSeq(s1) /\ Len(s1) = 1 /\ s1[1] = f
  BY DEF IsSeq, ToSet
<1>2. Calm(s1)
  BY <1>1 DEF Calm
<1> HIDE DEF s6, s5, s4, s3, s2, s1
<1>3. Calm(s1 \o r)
  BY <1>1, <1>2, CalmPlan
<1>4. ASSUME NEW w, IsSeq(w), w # <<>>
      PROVE  w \o r # <<>> /\ (w \o r)[1] = w[1] /\ Tail(w \o r) = Tail(w) \o r
  BY <1>4, Unroll
<1>5. ToPoint(s2 \o r)
  BY <1>1, <1>4, <1>3 DEF ToPoint, First
<1>6. ToRetire(s3 \o r, q)
  BY <1>1, <1>4, <1>5 DEF ToRetire, First
<1>7. ToLink(s4 \o r, q)
  BY <1>1, <1>4, <1>6 DEF ToLink, First
<1>8. ToInsert(s5 \o r, q)
  BY <1>1, <1>4, <1>7 DEF ToInsert, First
<1>9. ToNumber(s6 \o r, q)
  BY <1>1, <1>4, <1>8 DEF ToNumber, First
<1> QED BY <1>9 DEF s6

\* A policy that can be changed gets its next version.
LEMMA SucceedInHand ==
    ASSUME LInv, LInv', InHand, Undisturbed, NEW p \in Procs, Busy(p), Now(p).do \notin Changing,
           NEW q, HasVersion(q), NEW relation, NEW row, NEW from, NEW old,
           Become(p, Succeed(q, relation, row, from, old))
    PROVE  InHand'
<1> DEFINE t == loc[p].todo
           a == Number(q)
           b == Insert(row)
           c == Edge(relation, from)
           d == Retire(Current(q), old)
           f == LogNew(q, row.via)
           plan == <<a, b, c, d, Point, f>>
<1>1. Untouched /\ Continue(p, plan, loc[p])
  BY DEF Become, tables, Untouched, Succeed
<1>2. /\ Work(t, loc[p].slot, loc[p].made) /\ t # <<>> /\ IsSeq(t) /\ Resting(t) /\ Shape(loc[p])
  BY AtWork, AtHead
<1>3. Calm(Tail(t)) /\ IsSeq(Tail(t))
  BY <1>2, CalmTail, TailOf DEF Resting
<1>4. /\ a.do = "next_policy_version_number" /\ a.policy = q /\ b.do = "create_policy_version"
      /\ c.do = "record_lineage" /\ d.do = "set_policy_version_status" /\ d.version = Current(q)
      /\ Point.do = "set_policy_current_version" /\ f.do = "record_lifecycle_action"
  BY DEF Number, Insert, Edge, Retire, Point, LogNew, Log
<1> HIDE DEF a, b, c, d, f
<1>5. IsSeq(plan)
  BY DEF IsSeq, ToSet
<1>13. ToNumber(plan \o Tail(t), q)
  BY <1>3, <1>4, SucceedRolls DEF Changing, VersionCalls
<1>14. NoSplits(plan) /\ NoToggles(plan)
  <2>1. /\ Len(plan) = 6 /\ plan[1] = a /\ plan[2] = b /\ plan[3] = c /\ plan[4] = d /\ plan[5] = Point
        /\ plan[6] = f
    OBVIOUS
  <2>2. \A i \in 1..6 : plan[i].do \notin {"split", "split_child", "disable", "enable", "prune",
                                          "accept_recommendation"}
    BY <1>4, <2>1
  <2> QED BY <2>1, <2>2 DEF NoSplits, NoToggles
<1> HIDE DEF plan
<1>15. PICK u : u = plan \o Tail(t)
  OBVIOUS
<1>16. Splits(u)
  BY <1>2, <1>5, <1>14, <1>15, SplitsPlan DEF Work
<1>17. q \in Ids /\ \A o \in Ids : Settled(o)
  BY <1>2 DEF HasVersion, Resting, Ids
<1>18. Succeeding(u, loc[p].slot, loc[p].made)
  BY <1>13, <1>15, <1>17 DEF Succeeding, SucceedingBy, Settled, Others
<1>19. Work(u, loc[p].slot, loc[p].made)
  BY <1>16, <1>18 DEF Work
<1> QED BY <1>1, <1>2, <1>15, <1>19, Planned

LEMMA ChangesInHand ==
    ASSUME LInv, LInv', InHand, Undisturbed, NEW p \in Procs,
           rewrite(p) \/ promote(p) \/ demote(p) \/ rollback(p)
    PROVE  InHand'
<1> DEFINE q == Now(p).policy
<1>1. Busy(p) /\ Now(p).do \in {"rewrite", "promote", "demote", "rollback"} /\ HasVersion(q)
  BY DEF rewrite, promote, demote, rollback, Begins, Serving, Allowed, Operable, MayPromote, MayDemote,
         MayRollback
<1>2. Now(p).do \notin Changing
  BY <1>1 DEF Changing, VersionCalls
<1>3. \E relation, row, from, old : Become(p, Succeed(q, relation, row, from, old))
  BY DEF rewrite, promote, demote, rollback, _rescope
<1> QED BY <1>1, <1>2, <1>3, SucceedInHand

-----------------------------------------------------------------------------
\* The operations that make policies.

\* A policy that is not there, or that the same split has begun, is made.
LEMMA MakeInHand ==
    ASSUME LInv, LInv', InHand, Undisturbed, Untouched, NEW p \in Procs, Busy(p),
           Now(p).do \notin Changing,
           NEW plan, IsSeq(plan), NoSplits(plan), NoToggles(plan), Continue(p, plan, loc[p]),
           NEW q, ToCreate(plan \o Tail(loc[p].todo), q), q \notin Ids \/ Begun(q),
           \A i \in 2..Len(loc[p].todo) :
               Unmade(loc[p].todo, i) /\ ChildAt(loc[p].todo, i) = q => NamedTwice(q)
    PROVE  InHand'
<1> DEFINE t == loc[p].todo
<1>1. Work(t, loc[p].slot, loc[p].made) /\ t # <<>> /\ IsSeq(t) /\ Resting(t) /\ Shape(loc[p])
  BY AtWork, AtHead
<1>2. PICK u : u = plan \o Tail(t)
  OBVIOUS
<1>3. /\ Len(plan) \in Nat /\ Len(t) \in Nat \ {0} /\ Len(u) = Len(plan) + Len(t) - 1
      /\ \A i \in 1..Len(plan) : u[i] = plan[i]
      /\ \A i \in Len(plan) + 1..Len(plan) + Len(t) - 1 : u[i] = t[i - Len(plan) + 1]
  BY <1>1, <1>2, RestOf
<1>4. ASSUME NEW i \in 1..Len(u), Unmade(u, i), ChildAt(u, i) = q PROVE NamedTwice(q)
  <2>1. CASE i <= Len(plan)
    BY <1>3, <1>4, <2>1 DEF NoSplits, Unmade
  <2>2. CASE i > Len(plan)
    <3>1. PICK k \in 2..Len(t) : u[i] = t[k]
      BY <1>3, <2>2
    <3> QED BY <1>4, <3>1 DEF Unmade, ChildAt
  <2> QED BY <1>3, <2>1, <2>2
<1>5. Splits(u)
  BY <1>1, <1>2, SplitsPlan DEF Work
<1>6. u # <<>> /\ u[1].policy = q /\ Creating(u, q)
  BY <1>2, <1>4 DEF Creating, ToCreate, First
<1>7. Others(q)
  BY <1>1 DEF Resting, Others
<1>8. Work(u, loc[p].slot, loc[p].made)
  BY <1>5, <1>6, <1>7 DEF Work, Founding
<1> QED BY <1>1, <1>2, <1>8, Planned

LEMMA AdoptRolls ==
    ASSUME NEW q, q[1] = "review",
           NEW a, a.do = "create_policy", a.policy = q,
           NEW b, b.do = "next_policy_version_number", b.policy = q,
           NEW c, c.do = "create_policy_version",
           NEW d, d.do = "set_policy_current_version", NEW e, e.do \notin Changing,
           NEW r, IsSeq(r), Calm(r)
    PROVE  ToCreate(<<a, b, c, d, e>> \o r, q)
<1> DEFINE s5 == <<a, b, c, d, e>>
           s4 == <<b, c, d, e>>
           s3 == <<c, d, e>>
           s2 == <<d, e>>
           s1 == <<e>>
<1>1. /\ IsSeq(s5) /\ s5 # <<>> /\ s5[1] = a /\ Tail(s5) = s4
      /\ IsSeq(s4) /\ s4 # <<>> /\ s4[1] = b /\ Tail(s4) = s3
      /\ IsSeq(s3) /\ s3 # <<>> /\ s3[1] = c /\ Tail(s3) = s2
      /\ IsSeq(s2) /\ s2 # <<>> /\ s2[1] = d /\ Tail(s2) = s1
      /\ IsSeq(s1) /\ Len(s1) = 1 /\ s1[1] = e
  BY DEF IsSeq, ToSet
<1>2. Calm(s1)
  BY <1>1 DEF Calm
<1> HIDE DEF s5, s4, s3, s2, s1
<1>3. Calm(s1 \o r)
  BY <1>1, <1>2, CalmPlan
<1>4. ASSUME NEW w, IsSeq(w), w # <<>>
      PROVE  w \o r # <<>> /\ (w \o r)[1] = w[1] /\ Tail(w \o r) = Tail(w) \o r
  BY <1>4, Unroll
<1>5. ToFirstPoint(s2 \o r, q)
  BY <1>1, <1>3, <1>4 DEF ToFirstPoint, ToEdges, First
<1>6. ToFirstRow(s3 \o r, q)
  BY <1>1, <1>4, <1>5 DEF ToFirstRow, Suits, First
<1>7. ToFirstNumber(s4 \o r, q)
  BY <1>1, <1>4, <1>6 DEF ToFirstNumber, First
<1>8. ToCreate(s5 \o r, q)
  BY <1>1, <1>4, <1>7 DEF ToCreate, First
<1> QED BY <1>8 DEF s5

LEMMA MergeRolls ==
    ASSUME NEW q, q[1] = "merge",
           NEW a, a.do = "create_policy", a.policy = q,
           NEW b, b.do = "next_policy_version_number", b.policy = q,
           NEW c, c.do = "create_policy_version", Suits(q, c.row),
           NEW d, d.do = "set_policy_current_version",
           NEW e, e.do = "record_lineage", e.relation = "merge_parent", e.from = q[2],
           NEW f, f.do = "record_lineage", f.relation = "merge_parent", f.from = q[3],
           NEW g, g.do \notin Changing, NEW h, h.do \notin Changing, NEW i, i.do \notin Changing,
           NEW r, IsSeq(r), Calm(r)
    PROVE  ToCreate(<<a, b, c, d, e, f, g, h, i>> \o r, q)
<1> DEFINE s7 == <<a, b, c, d, e, f, g, h, i>>
           s6 == <<b, c, d, e, f, g, h, i>>
           s5 == <<c, d, e, f, g, h, i>>
           s4 == <<d, e, f, g, h, i>>
           s3 == <<e, f, g, h, i>>
           s2 == <<f, g, h, i>>
           s1 == <<g, h, i>>
<1>1. IsSeq(s7) /\ s7 # <<>> /\ s7[1] = a /\ Tail(s7) = s6
  BY DEF IsSeq, ToSet
<1>2. IsSeq(s6) /\ s6 # <<>> /\ s6[1] = b /\ Tail(s6) = s5
  BY DEF IsSeq, ToSet
<1>3. IsSeq(s5) /\ s5 # <<>> /\ s5[1] = c /\ Tail(s5) = s4
  BY DEF IsSeq, ToSet
<1>4. IsSeq(s4) /\ s4 # <<>> /\ s4[1] = d /\ Tail(s4) = s3
  BY DEF IsSeq, ToSet
<1>5. IsSeq(s3) /\ s3 # <<>> /\ s3[1] = e /\ Tail(s3) = s2
  BY DEF IsSeq, ToSet
<1>6. IsSeq(s2) /\ s2 # <<>> /\ s2[1] = f /\ Tail(s2) = s1
  BY DEF IsSeq, ToSet
<1>7. IsSeq(s1) /\ Len(s1) = 3 /\ s1[1] = g /\ s1[2] = h /\ s1[3] = i
  BY DEF IsSeq, ToSet
<1>8. Calm(s1)
  BY <1>7 DEF Calm
<1> HIDE DEF s7, s6, s5, s4, s3, s2, s1
<1>9. Calm(s1 \o r)
  BY <1>7, <1>8, CalmPlan
<1>10. ASSUME NEW w, IsSeq(w), w # <<>>
      PROVE  w \o r # <<>> /\ (w \o r)[1] = w[1] /\ Tail(w \o r) = Tail(w) \o r
  BY <1>10, Unroll
<1>11. s7 \o r # <<>> /\ (s7 \o r)[1] = a /\ Tail(s7 \o r) = s6 \o r
  BY <1>1, <1>10
<1>12. s6 \o r # <<>> /\ (s6 \o r)[1] = b /\ Tail(s6 \o r) = s5 \o r
  BY <1>2, <1>10
<1>13. s5 \o r # <<>> /\ (s5 \o r)[1] = c /\ Tail(s5 \o r) = s4 \o r
  BY <1>3, <1>10
<1>14. s4 \o r # <<>> /\ (s4 \o r)[1] = d /\ Tail(s4 \o r) = s3 \o r
  BY <1>4, <1>10
<1>15. s3 \o r # <<>> /\ (s3 \o r)[1] = e /\ Tail(s3 \o r) = s2 \o r
  BY <1>5, <1>10
<1>16. s2 \o r # <<>> /\ (s2 \o r)[1] = f /\ Tail(s2 \o r) = s1 \o r
  BY <1>6, <1>10
<1>17. ToSecondEdge(s2 \o r, q)
  BY <1>16, <1>9 DEF ToSecondEdge, IsEdge, First
<1>18. ToEdges(s3 \o r, q)
  BY <1>15, <1>17 DEF ToEdges, IsEdge, First
<1>19. ToFirstPoint(s4 \o r, q)
  BY <1>14, <1>18 DEF ToFirstPoint, First
<1>20. ToFirstRow(s5 \o r, q)
  BY <1>13, <1>19 DEF ToFirstRow, First
<1>21. ToFirstNumber(s6 \o r, q)
  BY <1>12, <1>20 DEF ToFirstNumber, First
<1>22. ToCreate(s7 \o r, q)
  BY <1>11, <1>21 DEF ToCreate, First
<1> QED BY <1>22 DEF s7

LEMMA ChildRolls ==
    ASSUME NEW q, q[1] = "split",
           NEW a, a.do = "create_policy", a.policy = q,
           NEW b, b.do = "set_policy_status", b.policy = q, b.status = "disabled",
           NEW c, c.do = "next_policy_version_number", c.policy = q,
           NEW d, d.do = "create_policy_version", Suits(q, d.row),
           NEW e, e.do = "set_policy_current_version",
           NEW f, f.do = "record_lineage", f.relation = "split_child", f.from = q[2],
           NEW g, g.do \notin Changing,
           NEW r, IsSeq(r), Calm(r)
    PROVE  ToCreate(<<a, b, c, d, e, f, g>> \o r, q)
<1> DEFINE s7 == <<a, b, c, d, e, f, g>>
           s6 == <<b, c, d, e, f, g>>
           s5 == <<c, d, e, f, g>>
           s4 == <<d, e, f, g>>
           s3 == <<e, f, g>>
           s2 == <<f, g>>
           s1 == <<g>>
<1>1. IsSeq(s7) /\ s7 # <<>> /\ s7[1] = a /\ Tail(s7) = s6
  BY DEF IsSeq, ToSet
<1>2. IsSeq(s6) /\ s6 # <<>> /\ s6[1] = b /\ Tail(s6) = s5
  BY DEF IsSeq, ToSet
<1>3. IsSeq(s5) /\ s5 # <<>> /\ s5[1] = c /\ Tail(s5) = s4
  BY DEF IsSeq, ToSet
<1>4. IsSeq(s4) /\ s4 # <<>> /\ s4[1] = d /\ Tail(s4) = s3
  BY DEF IsSeq, ToSet
<1>5. IsSeq(s3) /\ s3 # <<>> /\ s3[1] = e /\ Tail(s3) = s2
  BY DEF IsSeq, ToSet
<1>6. IsSeq(s2) /\ s2 # <<>> /\ s2[1] = f /\ Tail(s2) = s1
  BY DEF IsSeq, ToSet
<1>7. IsSeq(s1) /\ Len(s1) = 1 /\ s1[1] = g
  BY DEF IsSeq, ToSet
<1>8. Calm(s1)
  BY <1>7 DEF Calm
<1> HIDE DEF s7, s6, s5, s4, s3, s2, s1
<1>9. Calm(s1 \o r)
  BY <1>7, <1>8, CalmPlan
<1>10. ASSUME NEW w, IsSeq(w), w # <<>>
      PROVE  w \o r # <<>> /\ (w \o r)[1] = w[1] /\ Tail(w \o r) = Tail(w) \o r
  BY <1>10, Unroll
<1>11. s7 \o r # <<>> /\ (s7 \o r)[1] = a /\ Tail(s7 \o r) = s6 \o r
  BY <1>1, <1>10
<1>12. s6 \o r # <<>> /\ (s6 \o r)[1] = b /\ Tail(s6 \o r) = s5 \o r
  BY <1>2, <1>10
<1>13. s5 \o r # <<>> /\ (s5 \o r)[1] = c /\ Tail(s5 \o r) = s4 \o r
  BY <1>3, <1>10
<1>14. s4 \o r # <<>> /\ (s4 \o r)[1] = d /\ Tail(s4 \o r) = s3 \o r
  BY <1>4, <1>10
<1>15. s3 \o r # <<>> /\ (s3 \o r)[1] = e /\ Tail(s3 \o r) = s2 \o r
  BY <1>5, <1>10
<1>16. s2 \o r # <<>> /\ (s2 \o r)[1] = f /\ Tail(s2 \o r) = s1 \o r
  BY <1>6, <1>10
<1>17. ToEdges(s2 \o r, q)
  BY <1>16, <1>9 DEF ToEdges, IsEdge, First
<1>18. ToFirstPoint(s3 \o r, q)
  BY <1>15, <1>17 DEF ToFirstPoint, First
<1>19. ToFirstRow(s4 \o r, q)
  BY <1>14, <1>18 DEF ToFirstRow, First
<1>20. ToFirstNumber(s5 \o r, q)
  BY <1>13, <1>19 DEF ToFirstNumber, First
<1>21. ToDisable(s6 \o r, q)
  BY <1>12, <1>20 DEF ToDisable, First
<1>22. ToCreate(s7 \o r, q)
  BY <1>11, <1>21 DEF ToCreate, First
<1> QED BY <1>22 DEF s7

LEMMA AdoptInHand ==
    ASSUME LInv, LInv', InHand, Undisturbed, NEW p \in Procs, adopt(p)
    PROVE  InHand'
<1> DEFINE t == loc[p].todo
           q == AdoptId(Now(p).review)
<1>1. Busy(p) /\ Untouched /\ Now(p).do = "adopt" /\ Now(p).do \notin Changing
  BY DEF adopt, Begins, Serving, Become, tables, Untouched, Changing, VersionCalls
<1>2. /\ t # <<>> /\ IsSeq(t) /\ Resting(t) /\ Shape(loc[p])
  BY <1>1, AtWork, AtHead
<1>3. Calm(Tail(t)) /\ IsSeq(Tail(t))
  BY <1>2, CalmTail, TailOf DEF Resting
<1>4. CASE q \in Ids
  <2>1. Continue(p, <<>>, loc[p])
    BY <1>4 DEF adopt, Become
  <2> QED BY <1>1, <1>2, <2>1, MildNone, MildKeeps
<1>5. CASE q \notin Ids
  <2>1. PICK row : Continue(p, <<Create(q), Number(q), Insert(row), Point, LogNew(q, "adopt")>>, loc[p])
    BY <1>5 DEF adopt, Become
  <2> DEFINE a == Create(q)
             b == Number(q)
             c == Insert(row)
             e == LogNew(q, "adopt")
             plan == <<a, b, c, Point, e>>
  <2>2. /\ a.do = "create_policy" /\ a.policy = q /\ b.do = "next_policy_version_number" /\ b.policy = q
        /\ c.do = "create_policy_version" /\ Point.do = "set_policy_current_version"
        /\ e.do = "record_lifecycle_action"
    BY DEF Create, Number, Insert, Point, LogNew, Log
  <2>3. q[1] = "review" /\ \A i : ChildAt(t, i) # q
    BY DEF AdoptId, ChildAt, SplitId
  <2>4. Continue(p, plan, loc[p])
    BY <2>1
  <2> HIDE DEF a, b, c, e, q
  <2>5. ToCreate(plan \o Tail(t), q)
    BY <1>3, <2>2, <2>3, AdoptRolls DEF Changing, VersionCalls
  <2>6. IsSeq(plan)
    BY DEF IsSeq, ToSet
  <2>7. NoSplits(plan) /\ NoToggles(plan)
    <3>1. Len(plan) = 5 /\ plan[1] = a /\ plan[2] = b /\ plan[3] = c /\ plan[4] = Point /\ plan[5] = e
      OBVIOUS
    <3>2. \A i \in 1..5 : plan[i].do \notin {"split", "split_child", "disable", "enable", "prune",
                                            "accept_recommendation"}
      BY <2>2, <3>1
    <3> QED BY <3>1, <3>2 DEF NoSplits, NoToggles
  <2> HIDE DEF plan
  <2> QED BY <1>1, <1>5, <2>3, <2>4, <2>5, <2>6, <2>7, MakeInHand
<1> QED BY <1>4, <1>5

LEMMA MergeInHand ==
    ASSUME LInv, LInv', InHand, Undisturbed, NEW p \in Procs, merge(p)
    PROVE  InHand'
<1> DEFINE t == loc[p].todo
           va == Current(Now(p).a)
           vb == Current(Now(p).b)
           content == MergedText(Now(p))
           q == MergeId(va, vb, content)
           row == Row(content, versions[va].placement, Scope(va), None, None, "merge")
<1>1. Busy(p) /\ Untouched /\ Now(p).do = "merge" /\ Now(p).do \notin Changing
  BY DEF merge, Begins, Serving, Become, tables, Untouched, Changing, VersionCalls
<1>2. /\ t # <<>> /\ IsSeq(t) /\ Resting(t) /\ Shape(loc[p])
  BY <1>1, AtWork, AtHead
<1>3. Calm(Tail(t)) /\ IsSeq(Tail(t))
  BY <1>2, CalmTail, TailOf DEF Resting
<1>4. CASE MergeDone(va, vb, content)
  <2>1. Continue(p, <<>>, loc[p])
    BY <1>4 DEF merge, Become
  <2> QED BY <1>1, <1>2, <2>1, MildNone, MildKeeps
<1>5. CASE ~MergeDone(va, vb, content)
  <2> DEFINE a == Create(q)
             b == Number(q)
             c == Insert(row)
             e == Edge("merge_parent", va)
             f == Edge("merge_parent", vb)
             g == LogNew(q, "merge")
             h == Log(Now(p).a, va, "merged_into")
             k == Log(Now(p).b, vb, "merged_into")
             plan == <<a, b, c, Point, e, f, g, h, k>>
  <2>1. Continue(p, plan, loc[p])
    BY <1>5 DEF merge, Become
  <2>2. /\ a.do = "create_policy" /\ a.policy = q /\ b.do = "next_policy_version_number" /\ b.policy = q
        /\ c.do = "create_policy_version" /\ Point.do = "set_policy_current_version"
        /\ e.do = "record_lineage" /\ e.relation = "merge_parent" /\ f.do = "record_lineage"
        /\ f.relation = "merge_parent" /\ g.do = "record_lifecycle_action"
        /\ h.do = "record_lifecycle_action" /\ k.do = "record_lifecycle_action"
    BY DEF Create, Number, Insert, Point, Edge, LogNew, Log
  <2>3. q[1] = "merge" /\ q[2] = va /\ q[3] = vb /\ q[4] = content /\ \A i : ChildAt(t, i) # q
    BY DEF MergeId, ChildAt, SplitId
  <2>4. e.from = q[2] /\ f.from = q[3] /\ Suits(q, c.row)
    BY <2>3 DEF Edge, Insert, Row, Suits
  <2>5. q \notin Ids
    <3> SUFFICES ASSUME q \in Ids PROVE FALSE
      OBVIOUS
    <3>1. Known(q)
      BY <1>2 DEF Resting, Settled
    <3> HIDE DEF q, va, vb, content
    <3> QED BY <1>5, <2>3, <3>1 DEF Known, Suits, MergeDone
  <2> HIDE DEF a, b, c, e, f, g, h, k, q
  <2>6. ToCreate(plan \o Tail(t), q)
    <3>1. g.do \notin Changing /\ h.do \notin Changing /\ k.do \notin Changing
      BY <2>2 DEF Changing, VersionCalls
    <3> QED BY <1>3, <2>2, <2>3, <2>4, <3>1, MergeRolls
  <2>7. IsSeq(plan)
    BY DEF IsSeq, ToSet
  <2>8. NoSplits(plan) /\ NoToggles(plan)
    <3>1. /\ Len(plan) = 9 /\ plan[1] = a /\ plan[2] = b /\ plan[3] = c /\ plan[4] = Point /\ plan[5] = e
          /\ plan[6] = f /\ plan[7] = g /\ plan[8] = h /\ plan[9] = k
      OBVIOUS
    <3>2. \A i \in 1..9 : plan[i].do \notin {"split", "split_child", "disable", "enable", "prune",
                                            "accept_recommendation"}
      BY <2>2, <3>1
    <3> QED BY <3>1, <3>2 DEF NoSplits, NoToggles
  <2> HIDE DEF plan
  <2> QED BY <1>1, <2>1, <2>3, <2>5, <2>6, <2>7, <2>8, MakeInHand
<1> QED BY <1>4, <1>5

\* A child that has been made is found in the lineage.
LEMMA ChildKnown ==
    ASSUME NEW source, NEW child, Known(SplitId(source, child))
    PROVE  ChildMade(source, child)
<1> DEFINE q == SplitId(source, child)
<1>1. q[1] = "split" /\ q[2] = source /\ q[3] = child
  BY DEF SplitId
<1>2. Known(q)
  OBVIOUS
<1> HIDE DEF q
<1> QED BY <1>1, <1>2 DEF Known, Suits, ChildMade

LEMMA SplitInHand ==
    ASSUME LInv, LInv', InHand, Undisturbed, NEW p \in Procs, split(p)
    PROVE  InHand'
<1> DEFINE t == loc[p].todo
           children == Now(p).children
           source == Current(Now(p).policy)
           For(child) == [do |-> "split_child", source |-> source, child |-> child,
                          made |-> ChildMade(source, child)]
           items == [i \in 1..Len(children) |-> For(children[i])]
           log == Log(Now(p).policy, source, "split")
           plan == items \o <<log>>
<1>1. Busy(p) /\ Untouched /\ Now(p).do = "split" /\ Now(p).do \notin Changing
  BY DEF split, Begins, Serving, Become, tables, Untouched, Changing, VersionCalls
<1>2. /\ Work(t, loc[p].slot, loc[p].made) /\ t # <<>> /\ IsSeq(t) /\ Resting(t) /\ Now(p) = t[1]
      /\ Shape(loc[p])
  BY <1>1, AtWork, AtHead
<1>3. Continue(p, plan, loc[p])
  BY DEF split, Become
<1>4. children \in ChildLists
  BY <1>1, AtHead DEF Item
<1>5. Len(children) \in Nat /\ DOMAIN children = 1..Len(children)
  BY <1>4, InputAssumption
<1>6. Len(t) = 1
  <2>1. 1 \in 1..Len(t)
    BY <1>2 DEF IsSeq
  <2> QED BY <1>1, <1>2, <2>1 DEF Work, Splits
<1>7. IsSeq(items) /\ Len(items) = Len(children) /\ \A i \in 1..Len(children) : items[i] = For(children[i])
  <2>1. items \in Seq({For(children[i]) : i \in 1..Len(children)})
    BY <1>5
  <2>2. DOMAIN items = 1..Len(children) /\ \A i \in 1..Len(children) : items[i] = For(children[i])
    OBVIOUS
  <2> HIDE DEF items, For, children
  <2>3. IsSeq(items)
    BY <2>1, Sequence
  <2>4. Len(items) = Len(children)
    BY <1>5, <2>1, <2>2
  <2> QED BY <2>2, <2>3, <2>4
<1>8. /\ log.do = "record_lifecycle_action"
      /\ \A child : /\ For(child).do = "split_child" /\ For(child).source = source
                    /\ For(child).child = child /\ For(child).made = ChildMade(source, child)
  BY DEF Log
<1> HIDE DEF log, items, For, children, source
<1>9. IsSeq(plan) /\ Len(plan) = Len(children) + 1 /\ plan[Len(children) + 1] = log
      /\ \A i \in 1..Len(children) : plan[i] = For(children[i])
  <2> DEFINE S == ToSet(items) \cup {log}
  <2>1. items \in Seq(S) /\ <<log>> \in Seq(S)
    BY <1>7 DEF IsSeq, ToSet
  <2> HIDE DEF S
  <2>2. plan \in Seq(S)
    BY <2>1
  <2>3. IsSeq(plan)
    BY <2>2, Sequence
  <2> QED BY <1>5, <1>7, <2>1, <2>3
<1> HIDE DEF plan
<1>10. PICK u : u = plan \o Tail(t)
  OBVIOUS
<1>11. Len(u) = Len(children) + 1 /\ \A i \in 1..Len(children) + 1 : u[i] = plan[i]
  <2> HIDE DEF t
  <2>1. /\ Len(plan) \in Nat /\ Len(u) = Len(plan) + Len(t) - 1
        /\ \A i \in 1..Len(plan) : u[i] = plan[i]
    BY <1>2, <1>9, <1>10, RestOf
  <2> QED BY <1>5, <1>6, <1>9, <2>1
<1>12. \A i \in 1..Len(u) : \/ i \in DOMAIN children /\ u[i] = For(children[i])
                           \/ u[i] = log
  BY <1>5, <1>9, <1>11
<1>13. ASSUME NEW i \in 1..Len(u), Unmade(u, i)
       PROVE  /\ i \in DOMAIN children /\ ChildAt(u, i) = SplitId(source, children[i])
              /\ ~ChildMade(source, children[i])
  BY <1>8, <1>12, <1>13 DEF Unmade, ChildAt
<1>14. \A i \in 1..Len(u) : Unmade(u, i) => ChildAt(u, i) \notin Ids
  <2> SUFFICES ASSUME NEW i \in 1..Len(u), Unmade(u, i), ChildAt(u, i) \in Ids PROVE FALSE
    OBVIOUS
  <2>1. Known(ChildAt(u, i))
    BY <1>2 DEF Resting, Settled
  <2> QED BY <1>13, <2>1, ChildKnown
<1>15. \A i, j \in 1..Len(u) :
          Unmade(u, i) /\ Unmade(u, j) /\ i # j /\ ChildAt(u, i) = ChildAt(u, j) => NamedTwice(ChildAt(u, i))
  <2> SUFFICES ASSUME NEW i \in 1..Len(u), NEW j \in 1..Len(u), Unmade(u, i), Unmade(u, j), i # j,
                      ChildAt(u, i) = ChildAt(u, j)
               PROVE NamedTwice(ChildAt(u, i))
    OBVIOUS
  <2>1. PICK q : q = ChildAt(u, i)
    OBVIOUS
  <2>2. i \in DOMAIN children /\ j \in DOMAIN children
        /\ q = SplitId(source, children[i]) /\ q = SplitId(source, children[j])
    BY <1>13, <2>1
  <2>3. q[1] = "split" /\ q[3] = children[i] /\ q[3] = children[j]
    BY <2>2 DEF SplitId
  <2> QED BY <1>4, <2>1, <2>2, <2>3 DEF NamedTwice
<1>16. \A i \in 1..Len(u) : u[i].do \in {"split_child", "record_lifecycle_action"}
  BY <1>8, <1>12
<1>17. Splits(u)
  BY <1>14, <1>15, <1>16 DEF Splits
<1>18. Calm(u)
  BY <1>16 DEF Calm, Changing, VersionCalls
<1>19. Work(u, loc[p].slot, loc[p].made)
  BY <1>2, <1>17, <1>18 DEF Work, Resting
<1> QED BY <1>1, <1>2, <1>3, <1>10, <1>19, Planned

LEMMA SplitChildInHand ==
    ASSUME LInv, LInv', InHand, Undisturbed, NEW p \in Procs, split_child(p)
    PROVE  InHand'
<1> DEFINE t == loc[p].todo
           source == Now(p).source
           child == Now(p).child
           q == SplitId(source, child)
           row == Row(child.content, child.placement, child.scope, None, None, "split")
<1>1. Busy(p) /\ Untouched /\ Now(p).do = "split_child" /\ Now(p).do \notin Changing
  BY DEF split_child, Serving, Become, tables, Untouched, Changing, VersionCalls
<1>2. /\ Work(t, loc[p].slot, loc[p].made) /\ t # <<>> /\ IsSeq(t) /\ Resting(t) /\ Now(p) = t[1]
      /\ Shape(loc[p])
  BY <1>1, AtWork, AtHead
<1>3. Calm(Tail(t)) /\ IsSeq(Tail(t))
  BY <1>2, CalmTail, TailOf DEF Resting
<1>4. CASE Now(p).made
  <2>1. Continue(p, <<>>, loc[p])
    BY <1>4 DEF split_child, Become
  <2> QED BY <1>1, <1>2, <2>1, MildNone, MildKeeps
<1>5. CASE ~Now(p).made
  <2> DEFINE a == Create(q)
             b == SetStatus(q, "disabled")
             c == Number(q)
             d == Insert(row)
             f == Edge("split_child", source)
             g == LogNew(q, "split_created")
             plan == <<a, b, c, d, Point, f, g>>
  <2>1. Continue(p, plan, loc[p])
    BY <1>5 DEF split_child, Become, MakeChild
  <2>2. /\ a.do = "create_policy" /\ a.policy = q
        /\ b.do = "set_policy_status" /\ b.policy = q /\ b.status = "disabled"
        /\ c.do = "next_policy_version_number" /\ c.policy = q
        /\ d.do = "create_policy_version" /\ Point.do = "set_policy_current_version"
        /\ f.do = "record_lineage" /\ f.relation = "split_child" /\ g.do = "record_lifecycle_action"
    BY DEF Create, SetStatus, Number, Insert, Point, Edge, LogNew, Log
  <2>3. q[1] = "split" /\ q[2] = source /\ q[3] = child
    BY DEF SplitId
  <2>4. f.from = q[2] /\ Suits(q, d.row)
    BY <2>3 DEF Edge, Insert, Row, Suits
  <2>5. 1 \in 1..Len(t) /\ Unmade(t, 1) /\ ChildAt(t, 1) = q
    BY <1>1, <1>2, <1>5 DEF IsSeq, Unmade, ChildAt
  <2> HIDE DEF a, b, c, d, f, g, q
  <2>6. q \notin Ids \/ Begun(q)
    BY <1>2, <2>5 DEF Work, Splits
  <2>7. \A i \in 2..Len(t) : Unmade(t, i) /\ ChildAt(t, i) = q => NamedTwice(q)
    <3>1. \A i \in 2..Len(t) : i \in 1..Len(t) /\ i # 1
      BY <1>2 DEF IsSeq
    <3>2. \A i, j \in 1..Len(t) :
             Unmade(t, i) /\ Unmade(t, j) /\ i # j /\ ChildAt(t, i) = ChildAt(t, j) => NamedTwice(ChildAt(t, i))
      BY <1>2 DEF Work, Splits
    <3> QED BY <2>5, <3>1, <3>2
  <2>8. ToCreate(plan \o Tail(t), q)
    <3>1. g.do \notin Changing
      BY <2>2 DEF Changing, VersionCalls
    <3> QED BY <1>3, <2>2, <2>3, <2>4, <3>1, ChildRolls
  <2>9. IsSeq(plan)
    BY DEF IsSeq, ToSet
  <2>10. NoSplits(plan) /\ NoToggles(plan)
    <3>1. /\ Len(plan) = 7 /\ plan[1] = a /\ plan[2] = b /\ plan[3] = c /\ plan[4] = d /\ plan[5] = Point
          /\ plan[6] = f /\ plan[7] = g
      OBVIOUS
    <3>2. \A i \in 1..7 : plan[i].do \notin {"split", "split_child", "disable", "enable", "prune",
                                            "accept_recommendation"}
      BY <2>2, <3>1
    <3> QED BY <3>1, <3>2 DEF NoSplits, NoToggles
  <2> HIDE DEF plan
  <2> QED BY <1>1, <2>1, <2>6, <2>7, <2>8, <2>9, <2>10, MakeInHand
<1> QED BY <1>4, <1>5

-----------------------------------------------------------------------------
\* The calls that write policies, versions and the lineage.

\* The call that comes first tells how far the work has come.
LEMMA HeadOf ==
    ASSUME LInv, NEW t, IsSeq(t), t # <<>>, NEW slot, NEW made, Work(t, slot, made)
    PROVE  /\ t[1].do = "create_policy" => Creating(t, t[1].policy) /\ Others(t[1].policy)
           /\ t[1].do = "set_policy_status" =>
                 \/ Toggling(t)
                 \/ \E q \in Ids : Others(q) /\ Bare(q) /\ ToDisable(t, q) /\ policies[q].status # "pruned"
           /\ t[1].do = "next_policy_version_number" =>
                 \E q \in Ids : /\ Others(q)
                                /\ \/ HasVersion(q) /\ Known(q) /\ Alone(q) /\ ToNumber(t, q)
                                   \/ Bare(q) /\ ToFirstNumber(t, q)
           /\ t[1].do = "create_policy_version" =>
                 \E q \in Ids : /\ Others(q) /\ Free(q, slot)
                                /\ \/ HasVersion(q) /\ Known(q) /\ Alone(q) /\ ToInsert(t, q)
                                   \/ Bare(q) /\ ToFirstRow(t, q)
           /\ t[1].do = "record_lineage" =>
                 \E q \in Ids :
                    /\ Others(q)
                    /\ \/ HasVersion(q) /\ Known(q) /\ ToLink(t, q) /\ Beside(q, made)
                       \/ /\ q[1] # "review" /\ Alone(q) /\ made[1] = q /\ Suits(q, versions[made])
                          /\ \/ ToEdges(t, q)
                             \/ /\ q[1] = "merge" /\ ToSecondEdge(t, q)
                                /\ <<"merge_parent", q[2], made>> \in lineage
           /\ t[1].do = "set_policy_version_status" =>
                 \E q \in Ids : Others(q) /\ HasVersion(q) /\ Known(q) /\ ToRetire(t, q) /\ Beside(q, made)
           /\ t[1].do = "set_policy_current_version" =>
                 \E q \in Ids : /\ Others(q) /\ Only(q, made)
                                /\ \/ HasVersion(q) /\ Known(q) /\ ToPoint(t)
                                   \/ ToFirstPoint(t, q) /\ Suits(q, versions[made])
<1>1. t[1].do \in Changing => ~Resting(t)
  <2>1. 1 \in 1..Len(t)
    BY DEF IsSeq
  <2> QED BY <2>1 DEF Resting, Calm
<1>2. CASE Resting(t)
  BY <1>1, <1>2 DEF Changing, VersionCalls
<1>3. CASE Toggling(t)
  BY <1>3 DEF Toggling, First
<1>4. CASE Succeeding(t, slot, made)
  <2>1. PICK q \in Ids : HasVersion(q) /\ Known(q) /\ Others(q) /\ SucceedingBy(t, slot, made, q)
    BY <1>4 DEF Succeeding
  <2>2. CASE Alone(q) /\ ToNumber(t, q)
    BY <2>1, <2>2 DEF ToNumber, First
  <2>3. CASE Alone(q) /\ ToInsert(t, q) /\ Free(q, slot)
    BY <2>1, <2>3 DEF ToInsert, First
  <2>4. CASE ToLink(t, q) /\ Beside(q, made)
    BY <2>1, <2>4 DEF ToLink, First
  <2>5. CASE ToRetire(t, q) /\ Beside(q, made)
    BY <2>1, <2>5 DEF ToRetire, First
  <2>6. CASE ToPoint(t) /\ Only(q, made)
    BY <2>1, <2>6 DEF ToPoint, First
  <2> QED BY <2>1, <2>2, <2>3, <2>4, <2>5, <2>6 DEF SucceedingBy
<1>5. CASE t # <<>> /\ Creating(t, t[1].policy) /\ Others(t[1].policy)
  BY <1>5 DEF Creating, ToCreate, First
<1>6. CASE \E q \in Ids : Others(q) /\ FoundingBy(t, slot, made, q)
  <2>1. PICK q \in Ids : Others(q) /\ FoundingBy(t, slot, made, q)
    BY <1>6
  <2>2. CASE Bare(q) /\ ToDisable(t, q) /\ policies[q].status # "pruned"
    BY <2>1, <2>2 DEF ToDisable, First
  <2>3. CASE Bare(q) /\ ToFirstNumber(t, q)
    BY <2>1, <2>3 DEF ToFirstNumber, First
  <2>4. CASE Bare(q) /\ ToFirstRow(t, q) /\ Free(q, slot)
    BY <2>1, <2>4 DEF ToFirstRow, First
  <2>5. CASE ToFirstPoint(t, q) /\ Only(q, made) /\ Suits(q, versions[made])
    BY <2>1, <2>5 DEF ToFirstPoint, First
  <2>6. CASE q[1] # "review" /\ ToEdges(t, q) /\ Alone(q) /\ made[1] = q /\ Suits(q, versions[made])
    <3>1. q[1] \in {"merge", "split"}
      BY <2>6 DEF LInv, TypeOK, IsId
    <3>2. t[1].do = "record_lineage"
      BY <2>6, <3>1 DEF ToEdges, IsEdge, First
    <3> QED BY <2>1, <2>6, <3>2
  <2>7. CASE /\ q[1] = "merge" /\ ToSecondEdge(t, q) /\ Alone(q) /\ made[1] = q
             /\ Suits(q, versions[made]) /\ <<"merge_parent", q[2], made>> \in lineage
    <3>1. t[1].do = "record_lineage"
      BY <2>7 DEF ToSecondEdge, IsEdge, First
    <3> QED BY <2>1, <2>7, <3>1
  <2> QED BY <2>1, <2>2, <2>3, <2>4, <2>5, <2>6, <2>7 DEF FoundingBy
<1> QED BY <1>2, <1>3, <1>4, <1>5, <1>6 DEF Work, Founding

\* The handler goes on to its next call.
LEMMA CallGoes ==
    ASSUME LInv, LInv', InHand, Undisturbed, NEW p \in Procs, Busy(p),
           NEW new, Shape(new), Continue(p, <<>>, new),
           NEW u, u = Tail(loc[p].todo), Work(u, new.slot, new.made)'
    PROVE  InHand'
<1>1. u = <<>> \o Tail(loc[p].todo)
  BY AtWork, TailOf
<1> QED BY <1>1, Going

\* What it goes on to.
LEMMA GoesToRest ==
    ASSUME NEW u, NEW slot, NEW made, Splits(u)', Calm(u), (\A q \in Ids : Settled(q))'
    PROVE  Work(u, slot, made)'
BY DEF Work, Resting

LEMMA GoesOnSucceeding ==
    ASSUME NEW u, NEW slot, NEW made, Splits(u)', NEW q, q \in Ids', HasVersion(q)', Known(q)', Others(q)',
           SucceedingBy(u, slot, made, q)'
    PROVE  Work(u, slot, made)'
BY DEF Work, Succeeding

LEMMA GoesOnFounding ==
    ASSUME NEW u, NEW slot, NEW made, Splits(u)', NEW q, q \in Ids', Others(q)',
           FoundingBy(u, slot, made, q)'
    PROVE  Work(u, slot, made)'
BY DEF Work, Founding

\* Calls that leave the policies as they are leave the splits as they were.
LEMMA SplitsGo ==
    ASSUME NEW t, IsSeq(t), t # <<>>, NEW u, u = Tail(t), Splits(t), Ids' = Ids,
           \A q \in Ids : policies[q].status # "pruned" => policies'[q].status # "pruned"
    PROVE  Splits(u)'
<1>1. \A i \in 1..Len(t) : Unmade(t, i) => (ChildAt(t, i) \notin Ids \/ Begun(ChildAt(t, i)))'
  <2> SUFFICES ASSUME NEW i \in 1..Len(t), Unmade(t, i), ChildAt(t, i) \in Ids'
               PROVE  Begun(ChildAt(t, i))'
    OBVIOUS
  <2>1. PICK q : q = ChildAt(t, i)
    OBVIOUS
  <2>2. Begun(q) /\ q \in Ids
    BY <2>1 DEF Splits
  <2> QED BY <2>1, <2>2 DEF Begun, NamedTwice
<1> QED BY <1>1, SplitsTail

LEMMA CreatePolicyInHand ==
    ASSUME LInv, LInv', InHand, Undisturbed, NEW p \in Procs, create_policy(p)
    PROVE  InHand'
<1>1. Busy(p) /\ Now(p).do = "create_policy"
  BY DEF create_policy, Serving
<1>2. PICK t, h, q, u : t = loc[p].todo /\ h = loc[p] /\ q = Now(p).policy /\ u = Tail(t)
  OBVIOUS
<1>3. /\ Work(t, h.slot, h.made) /\ t # <<>> /\ IsSeq(t) /\ q = t[1].policy /\ t[1].do = "create_policy"
      /\ Shape(h)
  BY <1>1, <1>2, AtWork, AtHead
<1>4. Creating(t, q) /\ Others(q) /\ Splits(t)
  BY <1>3, HeadOf DEF Work
<1>5. /\ policies' = IF q \in Ids THEN policies ELSE Put(policies, q, [status |-> "active", current |-> None])
      /\ versions' = versions /\ lineage' = lineage /\ Continue(p, <<>>, h)
  BY <1>2 DEF create_policy, Did
<1>6. /\ Ids' = Ids \cup {q}
      /\ \A o \in Ids : policies'[o] = policies[o]
      /\ q \notin Ids => policies'[q].status = "active"
  <2>1. CASE q \in Ids
    BY <1>5, <2>1 DEF Ids
  <2>2. CASE q \notin Ids
    <3>1. policies' = [k \in Ids \cup {q} |-> IF k = q THEN [status |-> "active", current |-> None] ELSE policies[k]]
      BY <1>5, <2>2 DEF Put, Ids
    <3> QED BY <2>2, <3>1 DEF Ids
  <2> QED BY <2>1, <2>2
<1>7. Others(q)'
  <2>1. Kept
    BY <1>5 DEF Kept
  <2>2. \A o \in Ids \ {q} : Same(o)
    BY <1>5, <1>6 DEF Same, ActiveOf, Current
  <2> QED BY <1>4, <1>6, <2>1, <2>2, OthersKept
<1>8. Splits(u)'
  <2>1. ASSUME NEW i \in 1..Len(t), Unmade(t, i)
        PROVE  (ChildAt(t, i) \notin Ids \/ Begun(ChildAt(t, i)))'
    <3>1. PICK c : c = ChildAt(t, i)
      OBVIOUS
    <3>2. c \notin Ids \/ Begun(c)
      BY <1>4, <2>1, <3>1 DEF Splits
    <3>3. CASE c \in Ids
      BY <1>6, <3>1, <3>2, <3>3 DEF Begun, NamedTwice
    <3>4. CASE c \notin Ids /\ c # q
      BY <1>6, <3>1, <3>4
    <3>5. CASE c \notin Ids /\ c = q
      <4>1. NamedTwice(c)
        BY <1>4, <2>1, <3>1, <3>5 DEF Creating
      <4> QED BY <1>6, <3>1, <3>5, <4>1 DEF Begun, NamedTwice
    <3> QED BY <3>3, <3>4, <3>5
  <2> QED BY <1>2, <1>3, <1>4, <2>1, SplitsTail
<1>9. Bare(q)' /\ policies'[q].status # "pruned"
  <2>1. CASE q \in Ids
    <3>1. Begun(q)
      BY <1>4, <2>1 DEF Creating
    <3> QED BY <1>6, <2>1, <3>1 DEF Begun, Bare, NamedTwice
  <2>2. CASE q \notin Ids
    <3>1. \A v \in DOMAIN versions : v[1] # q
      BY <2>2 DEF LInv, TypeOK
    <3> QED BY <1>5, <1>6, <2>2, <3>1 DEF Bare
  <2> QED BY <2>1, <2>2
<1>10. FoundingBy(u, h.slot, h.made, q)'
  <2>1. ToDisable(u, q) \/ ToFirstNumber(u, q)
    BY <1>2, <1>4 DEF Creating, ToCreate
  <2> QED BY <1>9, <2>1 DEF FoundingBy
<1>11. Work(u, h.slot, h.made)'
  BY <1>6, <1>7, <1>8, <1>10, GoesOnFounding
<1> QED BY <1>1, <1>2, <1>3, <1>5, <1>11, CallGoes

LEMMA SetStatusInHand ==
    ASSUME LInv, LInv', InHand, Undisturbed, NEW p \in Procs, set_policy_status(p)
    PROVE  InHand'
<1>1. Busy(p) /\ Now(p).do = "set_policy_status" /\ HInv
  BY DEF set_policy_status, Serving, LInv
<1>2. PICK t, h, q, s, u : t = loc[p].todo /\ h = loc[p] /\ q = Now(p).policy /\ s = Now(p).status /\ u = Tail(t)
  OBVIOUS
<1>3. /\ Work(t, h.slot, h.made) /\ t # <<>> /\ IsSeq(t) /\ q = t[1].policy /\ s = t[1].status
      /\ t[1].do = "set_policy_status" /\ Shape(h) /\ Splits(t)
  BY <1>1, <1>2, AtWork, AtHead DEF Work
<1>4. /\ versions' = versions /\ lineage' = lineage /\ Continue(p, <<>>, h)
  BY <1>2 DEF set_policy_status, Did
<1>5. /\ Ids' = Ids /\ \A o \in Ids : Current(o)' = Current(o)
  BY <1>1, SetStatusKeeps
<1>6. \A o \in Ids : policies'[o].status = IF o = q THEN s ELSE policies[o].status
  <2>1. policies' = [policies EXCEPT ![q].status = s]
    BY <1>2 DEF set_policy_status
  <2>2. q \in Ids => [policies[q] EXCEPT !.status = s] = [status |-> s, current |-> policies[q].current]
    BY <1>1 DEF HInv, Rows
  <2> QED BY <1>1, <2>1, <2>2 DEF HInv, Rows, Ids
<1>7. Kept /\ \A o \in Ids : Same(o)
  BY <1>4, <1>5 DEF Kept, Same, ActiveOf
<1>8. CASE Toggling(t)
  <2>1. Calm(u) /\ \A i \in 1..Len(t) : t[i].do # "split_child"
    BY <1>2, <1>8 DEF Toggling
  <2>2. (\A o \in Ids : Settled(o))'
    BY <1>5, <1>7, <1>8, KnownKept, AloneKept DEF Toggling, Settled
  <2>3. Splits(u)'
    BY <1>2, <1>3, <2>1, SplitsTail DEF Unmade
  <2>4. Work(u, h.slot, h.made)'
    BY <2>1, <2>2, <2>3, GoesToRest
  <2> QED BY <1>1, <1>2, <1>3, <1>4, <2>4, CallGoes
<1>9. CASE \E o \in Ids : Others(o) /\ Bare(o) /\ ToDisable(t, o) /\ policies[o].status # "pruned"
  <2>1. q \in Ids /\ Others(q) /\ Bare(q) /\ s = "disabled" /\ ToFirstNumber(u, q)
    BY <1>2, <1>3, <1>9 DEF ToDisable
  <2>2. Others(q)' /\ Bare(q)'
    BY <1>4, <1>5, <1>7, <2>1, OthersKept DEF Bare, NamedTwice
  <2>3. Splits(u)'
    BY <1>2, <1>3, <1>5, <1>6, <2>1, SplitsGo
  <2>4. Work(u, h.slot, h.made)'
    BY <1>5, <2>1, <2>2, <2>3, GoesOnFounding DEF FoundingBy
  <2> QED BY <1>1, <1>2, <1>3, <1>4, <2>4, CallGoes
<1> QED BY <1>3, <1>8, <1>9, HeadOf

LEMMA NextNumberInHand ==
    ASSUME LInv, LInv', InHand, Undisturbed, NEW p \in Procs, next_policy_version_number(p)
    PROVE  InHand'
<1>1. Busy(p) /\ Now(p).do = "next_policy_version_number" /\ HInv
  BY DEF next_policy_version_number, Serving, LInv
<1>2. PICK t, h, q, u, new :
          /\ t = loc[p].todo /\ h = loc[p] /\ q = Now(p).policy /\ u = Tail(t)
          /\ new = [h EXCEPT !.slot = <<q, Max(Numbers(q) \cup {0}) + 1>>]
  OBVIOUS
<1>3. /\ Work(t, h.slot, h.made) /\ t # <<>> /\ IsSeq(t) /\ q = t[1].policy
      /\ t[1].do = "next_policy_version_number" /\ Shape(h) /\ Splits(t)
  BY <1>1, <1>2, AtWork, AtHead DEF Work
<1>4. Continue(p, <<>>, new) /\ Untouched
  BY <1>2 DEF next_policy_version_number, Untouched, tables
<1>5. Shape(new) /\ Free(q, new.slot) /\ new.made = h.made
  <2>1. PICK n \in Nat : Numbers(q) = 1..n
    BY <1>1 DEF HInv, Numbered
  <2>2. Max(Numbers(q) \cup {0}) = n
    BY <2>1, MaxOfInterval
  <2>3. new = [todo |-> h.todo, slot |-> <<q, n + 1>>, made |-> h.made, view |-> h.view, built |-> h.built]
    BY <1>2, <1>3, <2>2 DEF Shape
  <2>4. <<q, n + 1>> \notin DOMAIN versions
    <3>1. n + 1 \notin Numbers(q)
      BY <2>1
    <3> QED BY <1>1, <3>1, NumbersOf DEF HInv
  <2> QED BY <2>3, <2>4 DEF Shape, Free
<1>6. q \in Ids /\ Others(q)
      /\ \/ HasVersion(q) /\ Known(q) /\ Alone(q) /\ ToInsert(u, q)
         \/ Bare(q) /\ ToFirstRow(u, q)
  BY <1>2, <1>3, HeadOf DEF ToNumber, ToFirstNumber
<1>7. Work(u, new.slot, new.made)
  <2>1. /\ NoSplits(<<>>) /\ NoToggles(<<>>) /\ IsSeq(<<>>)
    BY MildNone DEF Mild, NoSplits, NoToggles, Loud
  <2>2. Splits(u)
    BY <1>2, <1>3, <2>1, TailOf, SplitsPlan
  <2> QED BY <1>5, <1>6, <2>2 DEF Work, Succeeding, SucceedingBy, Founding, FoundingBy
<1>8. Work(u, new.slot, new.made)'
  BY <1>4, <1>7, WorkStill
<1> QED BY <1>1, <1>2, <1>4, <1>5, <1>8, CallGoes

LEMMA CreateVersionInHand ==
    ASSUME LInv, LInv', InHand, Undisturbed, NEW p \in Procs, create_policy_version(p)
    PROVE  InHand'
<1>1. Busy(p) /\ Now(p).do = "create_policy_version"
  BY DEF create_policy_version, Serving
<1>2. PICK t, h, s, row, u, new :
          /\ t = loc[p].todo /\ h = loc[p] /\ s = h.slot /\ row = Now(p).row /\ u = Tail(t)
          /\ new = [h EXCEPT !.made = s]
  OBVIOUS
<1>3. /\ Work(t, h.slot, h.made) /\ t # <<>> /\ IsSeq(t) /\ row = t[1].row
      /\ t[1].do = "create_policy_version" /\ Shape(h) /\ Splits(t) /\ row.status = "active"
  BY <1>1, <1>2, AtWork, AtHead DEF Work, Item
<1>4. /\ policies' = policies /\ lineage' = lineage /\ Continue(p, <<>>, new)
      /\ s \notin DOMAIN versions /\ versions' = Put(versions, s, Columns(row))
  BY <1>2 DEF create_policy_version
<1>5. Shape(new) /\ new.made = s /\ new.slot = s
  <2>1. new = [todo |-> h.todo, slot |-> s, made |-> s, view |-> h.view, built |-> h.built]
    BY <1>2, <1>3 DEF Shape
  <2> QED BY <2>1 DEF Shape
<1>6. /\ DOMAIN versions' = DOMAIN versions \cup {s}
      /\ \A v \in DOMAIN versions : versions'[v] = versions[v]
      /\ versions'[s] = Columns(row)
  BY <1>4 DEF Put
<1>7. /\ versions'[s].status = "active" /\ versions'[s].content = row.content
      /\ versions'[s].placement = row.placement /\ versions'[s].scope = row.scope
  BY <1>3, <1>6 DEF Columns
<1>8. PICK q \in Ids : /\ Others(q) /\ Free(q, s)
                       /\ \/ HasVersion(q) /\ Known(q) /\ Alone(q) /\ ToInsert(t, q)
                          \/ Bare(q) /\ ToFirstRow(t, q)
  BY <1>2, <1>3, HeadOf
<1>9. /\ Kept /\ Ids' = Ids /\ s[1] = q
      /\ \A o : Current(o)' = Current(o) /\ HasVersion(o)' = HasVersion(o)
  BY <1>4, <1>6, <1>8 DEF Kept, Ids, Free, Current, HasVersion
<1>10. /\ \A o \in Ids \ {q} : Same(o)
       /\ ActiveOf(q)' = ActiveOf(q) \cup {s}
  <2>1. \A o : ActiveOf(o)' = ActiveOf(o) \cup {v \in {s} : v[1] = o}
    BY <1>4, <1>6, <1>7 DEF ActiveOf
  <2> QED BY <1>9, <2>1 DEF Same
<1>11. Others(q)' /\ Splits(u)'
  <2>1. Others(q)'
    BY <1>8, <1>9, <1>10, OthersKept
  <2> QED BY <1>2, <1>3, <1>4, <1>9, <2>1, SplitsGo
<1>12. CASE HasVersion(q) /\ Known(q) /\ Alone(q) /\ ToInsert(t, q)
  <2>1. ToLink(u, q)'
    <3>1. ToLink(u, q)
      BY <1>2, <1>12 DEF ToInsert
    <3> QED BY <1>9, <3>1 DEF ToLink, ToRetire
  <2>2. s # Current(q)
    BY <1>4, <1>12 DEF LInv, TypeOK, HasVersion, Current
  <2>3. Beside(q, s)'
    BY <1>9, <1>10, <1>12, <2>2 DEF Alone, Beside, NamedTwice
  <2>4. Known(q)'
    BY <1>9, <1>12, KnownKept
  <2>5. Work(u, new.slot, new.made)'
    BY <1>5, <1>9, <1>11, <1>12, <2>1, <2>3, <2>4, GoesOnSucceeding DEF SucceedingBy
  <2> QED BY <1>1, <1>2, <1>4, <1>5, <2>5, CallGoes
<1>13. CASE Bare(q) /\ ToFirstRow(t, q)
  <2>1. ToFirstPoint(u, q) /\ Suits(q, row)
    BY <1>2, <1>3, <1>13 DEF ToFirstRow
  <2>2. Suits(q, versions'[s])
    BY <1>7, <2>1 DEF Suits
  <2>3. Only(q, s)'
    BY <1>9, <1>10, <1>13 DEF Bare, Only, NamedTwice, ActiveOf
  <2>4. FoundingBy(u, new.slot, s, q)'
    BY <2>1, <2>2, <2>3 DEF FoundingBy
  <2>5. Work(u, new.slot, new.made)'
    BY <1>5, <1>9, <1>11, <2>4, GoesOnFounding
  <2> QED BY <1>1, <1>2, <1>4, <1>5, <2>5, CallGoes
<1> QED BY <1>8, <1>12, <1>13

\* Nobody else takes the number.
LEMMA NumberIsFree ==
    ASSUME LInv, InHand, Undisturbed, NEW p \in Procs, VersionTaken(p)
    PROVE  FALSE
<1>1. Busy(p) /\ Now(p).do = "create_policy_version" /\ loc[p].slot \in DOMAIN versions
  BY DEF VersionTaken, Serving
<1>2. \E q : Free(q, loc[p].slot)
  BY <1>1, AtWork, HeadOf
<1> QED BY <1>1, <1>2 DEF Free

LEMMA LineageInHand ==
    ASSUME LInv, LInv', InHand, Undisturbed, NEW p \in Procs, record_lineage(p)
    PROVE  InHand'
<1>1. Busy(p) /\ Now(p).do = "record_lineage"
  BY DEF record_lineage, Serving
<1>2. PICK t, h, made, u : t = loc[p].todo /\ h = loc[p] /\ made = h.made /\ u = Tail(t)
  OBVIOUS
<1>3. /\ Work(t, h.slot, h.made) /\ t # <<>> /\ IsSeq(t) /\ t[1].do = "record_lineage"
      /\ Shape(h) /\ Splits(t) /\ made \in DOMAIN versions
  <2>1. made # None
    BY <1>1, <1>2, AtHead DEF Fits, Links
  <2> QED BY <1>1, <1>2, <2>1, AtWork, AtHead DEF Work, Made
<1>4. /\ policies' = policies /\ versions' = versions /\ Continue(p, <<>>, h)
      /\ lineage' = lineage \cup {<<t[1].relation, t[1].from, made>>}
  BY <1>1, <1>2, AtHead DEF record_lineage, Did
<1>5. /\ Kept /\ Ids' = Ids
      /\ \A o : ActiveOf(o)' = ActiveOf(o) /\ Current(o)' = Current(o) /\ HasVersion(o)' = HasVersion(o)
  BY <1>4 DEF Kept, Ids, ActiveOf, Current, HasVersion
<1>6. Splits(u)' /\ \A o \in Ids : Others(o) => Others(o)'
  <2>1. \A o : Same(o)
    BY <1>5 DEF Same
  <2>2. Splits(u)'
    BY <1>2, <1>3, <1>4, <1>5, SplitsGo
  <2> QED BY <1>5, <2>1, <2>2, OthersKept
<1>7. \A o : Alone(o)' = Alone(o) /\ Beside(o, made)' = Beside(o, made)
  BY <1>5 DEF Alone, Beside, NamedTwice
<1>8. PICK q \in Ids :
         /\ Others(q)
         /\ \/ HasVersion(q) /\ Known(q) /\ ToLink(t, q) /\ Beside(q, made)
            \/ /\ q[1] # "review" /\ Alone(q) /\ made[1] = q /\ Suits(q, versions[made])
               /\ \/ ToEdges(t, q)
                  \/ /\ q[1] = "merge" /\ ToSecondEdge(t, q)
                     /\ <<"merge_parent", q[2], made>> \in lineage
  BY <1>2, <1>3, HeadOf
<1>9. CASE HasVersion(q) /\ Known(q) /\ ToLink(t, q) /\ Beside(q, made)
  <2>1. ToRetire(u, q)'
    <3>1. ToRetire(u, q)
      BY <1>2, <1>9 DEF ToLink
    <3> QED BY <1>5, <3>1 DEF ToRetire
  <2>2. Known(q)'
    BY <1>5, <1>9, KnownKept
  <2>3. Work(u, h.slot, h.made)'
    BY <1>2, <1>5, <1>6, <1>7, <1>8, <1>9, <2>1, <2>2, GoesOnSucceeding DEF SucceedingBy
  <2> QED BY <1>1, <1>2, <1>3, <1>4, <2>3, CallGoes
<1>10. ASSUME Known(q)', Alone(q), Calm(u) PROVE InHand'
  <2>1. (\A o \in Ids : Settled(o))'
    BY <1>5, <1>6, <1>7, <1>8, <1>10 DEF Others, Settled
  <2>2. Work(u, h.slot, h.made)'
    BY <1>6, <1>10, <2>1, GoesToRest
  <2> QED BY <1>1, <1>2, <1>3, <1>4, <2>2, CallGoes
<1>11. CASE /\ q[1] # "review" /\ Alone(q) /\ made[1] = q /\ Suits(q, versions[made])
            /\ ToEdges(t, q)
  <2>1. q[1] \in {"merge", "split"}
    BY <1>11 DEF LInv, TypeOK, IsId
  <2>2. CASE q[1] = "split"
    <3>1. <<"split_child", q[2], made>> \in lineage' /\ Calm(u)
      BY <1>2, <1>4, <1>11, <2>2 DEF ToEdges, IsEdge
    <3>2. Known(q)'
      BY <1>3, <1>4, <1>11, <2>2, <3>1 DEF Known
    <3> QED BY <1>10, <1>11, <3>1, <3>2
  <2>3. CASE q[1] = "merge"
    <3>1. <<"merge_parent", q[2], made>> \in lineage' /\ ToSecondEdge(u, q)
      BY <1>2, <1>4, <1>11, <2>3 DEF ToEdges, IsEdge
    <3>2. Suits(q, versions[made])'
      BY <1>4, <1>11 DEF Suits
    <3>3. FoundingBy(u, h.slot, made, q)'
      BY <1>7, <1>11, <2>3, <3>1, <3>2 DEF FoundingBy
    <3>4. Work(u, h.slot, h.made)'
      BY <1>2, <1>5, <1>6, <1>8, <3>3, GoesOnFounding
    <3> QED BY <1>1, <1>2, <1>3, <1>4, <3>4, CallGoes
  <2> QED BY <2>1, <2>2, <2>3
<1>12. CASE /\ q[1] = "merge" /\ ToSecondEdge(t, q) /\ Alone(q) /\ Suits(q, versions[made])
            /\ <<"merge_parent", q[2], made>> \in lineage
  <2>1. <<"merge_parent", q[3], made>> \in lineage' /\ Calm(u)
    BY <1>2, <1>4, <1>12 DEF ToSecondEdge, IsEdge
  <2>2. <<"merge_parent", q[2], made>> \in lineage'
    BY <1>4, <1>12
  <2>3. Known(q)'
    BY <1>3, <1>4, <1>12, <2>1, <2>2 DEF Known
  <2> QED BY <1>10, <1>12, <2>1, <2>3
<1> QED BY <1>8, <1>9, <1>11, <1>12

LEMMA RetireInHand ==
    ASSUME LInv, LInv', InHand, Undisturbed, NEW p \in Procs, set_policy_version_status(p)
    PROVE  InHand'
<1>1. Busy(p) /\ Now(p).do = "set_policy_version_status" /\ HInv
  BY DEF set_policy_version_status, Serving, LInv
<1>2. PICK t, h, made, w, s, u : /\ t = loc[p].todo /\ h = loc[p] /\ made = h.made /\ u = Tail(t)
                                 /\ w = t[1].version /\ s = t[1].status
  OBVIOUS
<1>3. /\ Work(t, h.slot, h.made) /\ t # <<>> /\ IsSeq(t) /\ t[1].do = "set_policy_version_status"
      /\ Shape(h) /\ Splits(t) /\ s \in {"superseded", "rolled_back"}
  BY <1>1, <1>2, AtWork, AtHead DEF Work, Item
<1>4. /\ policies' = policies /\ lineage' = lineage /\ Continue(p, <<>>, h)
      /\ versions' = [versions EXCEPT ![w].status = s]
  BY <1>1, <1>2, AtHead DEF set_policy_version_status, Did
<1>5. /\ DOMAIN versions' = DOMAIN versions
      /\ \A v \in DOMAIN versions :
            /\ versions'[v].status = IF v = w THEN s ELSE versions[v].status
            /\ versions'[v].content = versions[v].content
            /\ versions'[v].placement = versions[v].placement
            /\ versions'[v].scope = versions[v].scope
  <2> DEFINE row == [content |-> versions[w].content, placement |-> versions[w].placement,
                     scope |-> versions[w].scope, target |-> versions[w].target,
                     status |-> s, review |-> versions[w].review, via |-> versions[w].via]
  <2>1. w \in DOMAIN versions => [versions[w] EXCEPT !.status = s] = row
    BY <1>1 DEF HInv, Rows, Columns
  <2>2. versions' = [v \in DOMAIN versions |-> IF v = w THEN row ELSE versions[v]]
    BY <1>1, <1>4, <2>1 DEF HInv, Rows
  <2> QED BY <2>2
<1>6. PICK q \in Ids : Others(q) /\ HasVersion(q) /\ Known(q) /\ ToRetire(t, q) /\ Beside(q, made)
  BY <1>2, <1>3, HeadOf
<1>7. w = Current(q) /\ w[1] = q /\ ToPoint(u)
  BY <1>2, <1>6 DEF ToRetire, LInv, OwnCurrent, HasVersion
<1>8. /\ Kept /\ Ids' = Ids
      /\ \A o : Current(o)' = Current(o) /\ HasVersion(o)' = HasVersion(o)
  BY <1>4, <1>5 DEF Kept, Ids, Current, HasVersion
<1>9. /\ ActiveOf(q)' = ActiveOf(q) \ {w}
      /\ \A o \in Ids \ {q} : Same(o)
  BY <1>3, <1>5, <1>7, <1>8 DEF Same, ActiveOf
<1>10. Only(q, made)'
  BY <1>6, <1>7, <1>9 DEF Beside, Only, NamedTwice
<1>11. Known(q)' /\ Others(q)' /\ Splits(u)'
  <2>1. Known(q)' /\ Others(q)'
    BY <1>6, <1>8, <1>9, KnownKept, OthersKept
  <2>2. Splits(u)'
    BY <1>2, <1>3, <1>4, <1>8, SplitsGo
  <2> QED BY <2>1, <2>2
<1>12. SucceedingBy(u, h.slot, made, q)'
  BY <1>7, <1>10 DEF SucceedingBy
<1>13. Work(u, h.slot, h.made)'
  BY <1>2, <1>6, <1>8, <1>11, <1>12, GoesOnSucceeding
<1> QED BY <1>1, <1>2, <1>3, <1>4, <1>13, CallGoes

LEMMA PointInHand ==
    ASSUME LInv, LInv', InHand, Undisturbed, NEW p \in Procs, set_policy_current_version(p)
    PROVE  InHand'
<1>1. Busy(p) /\ Now(p).do = "set_policy_current_version" /\ HInv
  BY DEF set_policy_current_version, Serving, LInv
<1>2. PICK t, h, made, u : t = loc[p].todo /\ h = loc[p] /\ made = h.made /\ u = Tail(t)
  OBVIOUS
<1>3. /\ Work(t, h.slot, h.made) /\ t # <<>> /\ IsSeq(t) /\ t[1].do = "set_policy_current_version"
      /\ Shape(h) /\ Splits(t)
  BY <1>1, <1>2, AtWork, AtHead DEF Work
<1>4. /\ versions' = versions /\ lineage' = lineage /\ Continue(p, <<>>, h) /\ made # None
      /\ policies' = [policies EXCEPT ![made[1]].current = made]
  BY <1>2 DEF set_policy_current_version, Did
<1>5. PICK q \in Ids : /\ Others(q) /\ Only(q, made)
                       /\ \/ HasVersion(q) /\ Known(q) /\ ToPoint(t)
                          \/ ToFirstPoint(t, q) /\ Suits(q, versions[made])
  BY <1>2, <1>3, HeadOf
<1>6. made[1] = q
  BY <1>5 DEF Only
<1>7. /\ Ids' = Ids
      /\ \A o \in Ids : /\ policies'[o].status = policies[o].status
                        /\ Current(o)' = IF o = q THEN made ELSE Current(o)
  <2>1. [policies[q] EXCEPT !.current = made] = [status |-> policies[q].status, current |-> made]
    BY <1>1, <1>5 DEF HInv, Rows
  <2>2. policies' = [o \in Ids |-> IF o = q THEN [status |-> policies[q].status, current |-> made]
                                   ELSE policies[o]]
    BY <1>1, <1>4, <1>5, <1>6, <2>1 DEF HInv, Rows, Ids
  <2> QED BY <2>2 DEF Current, Ids
<1>8. Kept /\ (\A o : ActiveOf(o)' = ActiveOf(o)) /\ \A o \in Ids \ {q} : Same(o)
  BY <1>4, <1>7 DEF Kept, ActiveOf, Same
<1>9. Others(q)' /\ Splits(u)' /\ Alone(q)'
  <2>1. Others(q)'
    BY <1>5, <1>7, <1>8, OthersKept
  <2>2. Splits(u)'
    BY <1>2, <1>3, <1>7, SplitsGo
  <2>3. Alone(q)'
    BY <1>5, <1>7, <1>8 DEF Only, Alone, NamedTwice
  <2> QED BY <2>1, <2>2, <2>3
<1>10. ASSUME Known(q), Calm(u) PROVE InHand'
  <2>1. Known(q)'
    BY <1>8, <1>10, KnownKept
  <2>2. (\A o \in Ids : Settled(o))'
    BY <1>7, <1>9, <2>1 DEF Others, Settled
  <2>3. Work(u, h.slot, h.made)'
    BY <1>9, <1>10, <2>2, GoesToRest
  <2> QED BY <1>1, <1>2, <1>3, <1>4, <2>3, CallGoes
<1>11. CASE HasVersion(q) /\ Known(q) /\ ToPoint(t)
  BY <1>2, <1>10, <1>11 DEF ToPoint
<1>12. CASE ToFirstPoint(t, q) /\ Suits(q, versions[made])
  <2>1. ToEdges(u, q)
    BY <1>2, <1>12 DEF ToFirstPoint
  <2>2. CASE q[1] = "review"
    BY <1>10, <2>1, <2>2 DEF ToEdges, Known
  <2>3. CASE q[1] # "review"
    <3>1. Suits(q, versions[made])'
      BY <1>4, <1>12 DEF Suits
    <3>2. FoundingBy(u, h.slot, made, q)'
      BY <1>6, <1>9, <2>1, <2>3, <3>1 DEF FoundingBy
    <3>3. Work(u, h.slot, h.made)'
      BY <1>2, <1>5, <1>7, <1>9, <3>2, GoesOnFounding
    <3> QED BY <1>1, <1>2, <1>3, <1>4, <3>3, CallGoes
  <2> QED BY <2>2, <2>3
<1> QED BY <1>5, <1>11, <1>12

-----------------------------------------------------------------------------
\* A request, and what happens around the handlers.

\* What has gone wrong, or overlapped, stays on the count.
LEMMA CountingKeeps ==
    ASSUME Counting, [Next]_vars PROVE Counting' /\ (Undisturbed' => Undisturbed)
<1>1. used = [ops |-> used.ops, overlaps |-> used.overlaps, outside |-> used.outside, faults |-> used.faults]
      /\ used.ops \in Nat /\ used.overlaps \in Nat /\ used.outside \in Nat /\ used.faults \in Nat
  BY DEF Counting
<1>2. ASSUME NEW what \in {"outside", "faults"}, Spend(what) PROVE Counting' /\ (Undisturbed' => Undisturbed)
  BY <1>1, <1>2 DEF Spend, Counting, Undisturbed
<1>3. ASSUME NEW p \in Procs, Start(p) PROVE Counting' /\ (Undisturbed' => Undisturbed)
  <2>1. PICK k \in {0, 1} : used' = [used EXCEPT !.ops = @ + 1, !.overlaps = @ + k]
    BY <1>3 DEF Start
  <2>2. used' = [ops |-> used.ops + 1, overlaps |-> used.overlaps + k, outside |-> used.outside,
                 faults |-> used.faults]
    BY <1>1, <2>1
  <2>3. Counting'
    BY <1>1, <2>2 DEF Counting
  <2>4. Undisturbed' => Undisturbed
    BY <1>1, <2>2 DEF Undisturbed
  <2> QED BY <2>3, <2>4
<1>4. CASE used' = used
  BY <1>4 DEF Counting, Undisturbed
<1>5. ASSUME NEW p \in Procs, Operation(p) PROVE used' = used
  BY <1>5 DEF Operation, adopt, rewrite, promote, demote, _rescope, rollback, merge, split, split_child, toggle,
       recommend, accept_recommendation, reject_recommendation, defer_recommendation, preview, apply,
       Refused, Become
<1>6. ASSUME NEW p \in Procs, Call(p) PROVE used' = used
  BY <1>6 DEF Call, create_policy, next_policy_version_number, create_policy_version, VersionTaken,
       record_lineage, set_policy_version_status, set_policy_current_version, set_policy_status,
       record_lifecycle_action, upsert_recommendation, update_recommendation_status
<1>7. ASSUME NEW p \in Procs, FileStep(p) PROVE used' = used
  BY <1>7 DEF FileStep, build_preview, record_lifecycle_preview, latest_lifecycle_preview, build,
       PreviewRefused, Recheck, _atomic_replace, record_lifecycle_application,
       consume_lifecycle_preview, Become
<1>8. ASSUME NEW p \in Procs, ReplaceFails(p) \/ Crash(p) PROVE Counting' /\ (Undisturbed' => Undisturbed)
  BY <1>2, <1>8 DEF ReplaceFails, Crash
<1>9. CASE record_evaluation_comparison \/ HumanEdit
  BY <1>2, <1>9 DEF record_evaluation_comparison, HumanEdit
<1>10. CASE UNCHANGED vars
  BY <1>4, <1>10 DEF vars
<1> QED BY <1>3, <1>4, <1>5, <1>6, <1>7, <1>8, <1>9, <1>10 DEF Next, Step

\* What cannot be with nothing gone wrong.
LEMMA FaultsShow ==
    ASSUME Counting, NEW p \in Procs, ReplaceFails(p) \/ Crash(p) PROVE ~Undisturbed'
<1>1. Spend("faults")
  BY DEF ReplaceFails, Crash
<1> QED BY <1>1 DEF Spend, Counting, Undisturbed

LEMMA OverlapsShow ==
    ASSUME Counting, NEW p \in Procs, Start(p), Overlap PROVE ~Undisturbed'
<1>1. used' = [used EXCEPT !.ops = @ + 1, !.overlaps = @ + 1]
  BY DEF Start
<1> QED BY <1>1 DEF Counting, Undisturbed

LEMMA StartInHand ==
    ASSUME LInv, LInv', InHand, Undisturbed, Counting, Undisturbed', NEW p \in Procs, Start(p)
    PROVE  InHand'
<1>1. ~Overlap
  BY OverlapsShow
<1>2. \A q \in Ids : Settled(q)
  BY <1>1 DEF InHand
<1>3. PICK r \in Requests : loc' = [loc EXCEPT ![p].todo = <<r>>]
  BY DEF Start
<1>4. r.do \notin Changing /\ r.do # "split_child"
  <2>1. r.do \in Operations
    BY DEF Requests, ChangeRequests, StatusRequests, FileRequests, RecommendationRequests, Operations
  <2> QED BY <2>1 DEF Operations, Changing, VersionCalls
<1>5. PICK u : u = <<r>>
  OBVIOUS
<1>6. Len(u) = 1 /\ u[1] = r
  BY <1>5
<1>7. PICK h : h = [loc[p] EXCEPT !.todo = u]
  OBVIOUS
<1>8. /\ loc' = [q \in Procs |-> IF q = p THEN h ELSE loc[q]]
      /\ h.todo = u
  <2>1. Shape(loc[p]) /\ loc = [q \in Procs |-> loc[q]]
    BY DEF LInv, HInv, Handlers, InOrder
  <2>2. h = [todo |-> u, slot |-> loc[p].slot, made |-> loc[p].made, view |-> loc[p].view, built |-> loc[p].built]
    BY <1>7, <2>1 DEF Shape
  <2> QED BY <1>3, <1>5, <1>7, <2>1, <2>2
<1>9. \A q \in Procs : Busy(q)' => q = p
  BY <1>1, <1>8 DEF Busy, Overlap
<1>10. Untouched
  BY DEF Start, tables, Untouched
<1>11. Calm(u) /\ Splits(u)
  BY <1>4, <1>6 DEF Calm, Splits, Unmade
<1>12. Work(u, h.slot, h.made)'
  BY <1>2, <1>10, <1>11, WorkStill DEF Work, Resting
<1>13. Works(p)' /\ Busy(p)' /\ Overlap'
  BY <1>5, <1>8, <1>12 DEF Works, Busy, Overlap
<1> QED BY <1>9, <1>13 DEF InHand

LEMMA OutsideInHand ==
    ASSUME LInv, InHand, Undisturbed, UNCHANGED <<policies, versions, lineage, loc>>
    PROVE  InHand'
<1>1. Untouched /\ \A p \in Procs : Busy(p)' = Busy(p)
  BY DEF Untouched, Busy
<1>2. \A p \in Procs : Busy(p) => Works(p)'
  <2> SUFFICES ASSUME NEW p \in Procs, Busy(p) PROVE Works(p)'
    OBVIOUS
  <2>1. PICK h : h = loc[p]
    OBVIOUS
  <2>2. Work(h.todo, h.slot, h.made)'
    BY <1>1, <2>1, WorkStill DEF InHand, Works
  <2> QED BY <2>1, <2>2 DEF Works
<1>3. ~Overlap' => (\A q \in Ids : Settled(q))'
  BY <1>1, SettledStill DEF InHand, Overlap
<1> QED BY <1>1, <1>2, <1>3 DEF InHand

UInv == LInv /\ Counting /\ InHand

LEMMA UInvHoldsInitially == ASSUME Init PROVE UInv
<1>1. LInv
  BY LInvHoldsInitially
<1>2. Counting
  BY DEF Init, Counting
<1>3. Ids = {}
  BY DEF Init, Ids
<1>4. \A p \in Procs : ~Busy(p)
  BY DEF Init, Busy, Idle
<1> QED BY <1>1, <1>2, <1>3, <1>4 DEF UInv, InHand

LEMMA UInvIsInductive == ASSUME UInv, [Next]_vars PROVE UInv'
<1>1. LInv /\ LInv' /\ Counting /\ Counting' /\ InHand /\ (Undisturbed' => Undisturbed)
  BY LInvIsInductive, CountingKeeps DEF UInv
<1>2. CASE ~Undisturbed'
  BY <1>1, <1>2 DEF UInv, InHand
<1>3. CASE Undisturbed'
  <2>1. Undisturbed
    BY <1>1, <1>3
  <2>2. ASSUME NEW p \in Procs, Operation(p) PROVE InHand'
    BY <1>1, <2>1, <2>2, AdoptInHand, ChangesInHand, MergeInHand, SplitInHand, SplitChildInHand,
       ToggleInHand, AdviceInHand, RefusedInHand DEF Operation
  <2>3. ASSUME NEW p \in Procs, Call(p) PROVE InHand'
    BY <1>1, <2>1, <2>3, CreatePolicyInHand, NextNumberInHand, CreateVersionInHand, NumberIsFree,
       LineageInHand, RetireInHand, PointInHand, SetStatusInHand, OtherCallsInHand DEF Call
  <2>4. ASSUME NEW p \in Procs, Start(p) \/ FileStep(p) \/ ReplaceFails(p) \/ Crash(p) PROVE InHand'
    BY <1>1, <1>3, <2>1, <2>4, StartInHand, FileStepsInHand, FaultsShow
  <2>5. ASSUME record_evaluation_comparison \/ HumanEdit \/ UNCHANGED vars PROVE InHand'
    <3>1. UNCHANGED <<policies, versions, lineage, loc>>
      BY <2>5 DEF record_evaluation_comparison, HumanEdit, vars, tables
    <3> QED BY <1>1, <2>1, <3>1, OutsideInHand
  <2>6. InHand'
    BY <2>2, <2>3, <2>4, <2>5 DEF Next, Step
  <2> QED BY <1>1, <2>6 DEF UInv
<1> QED BY <1>2, <1>3

LEMMA UInvHolds == Spec => []UInv
BY UInvHoldsInitially, UInvIsInductive, PTL DEF Spec

\* With one operator who is never interrupted, every policy has between operations
\* one active version, its current one, whatever was asked for and in whatever order,
\* also of children that a split names twice of other policies (service.py: each
\* operation retires the version it replaces, and a new policy gets one version).
THEOREM OneCurrentHolds == Spec => []OneCurrent
<1>1. UInv => OneCurrent
  <2> SUFFICES ASSUME UInv, Undisturbed, ~Overlap, NEW q \in Ids, ~NamedTwice(q)
               PROVE  {v \in DOMAIN versions : v[1] = q /\ versions[v].status = "active"} = {Current(q)}
    BY DEF OneCurrent
  <2>1. Settled(q)
    BY DEF UInv, InHand
  <2> QED BY <2>1 DEF Settled, Alone, ActiveOf
<1> QED BY <1>1, UInvHolds, PTL

\* What is done to the status of a policy: enable and disable have looked at it, and
\* the split that disables its child has made it.
LEMMA PruneStays ==
    ASSUME UInv, [Next]_vars, NEW q \in Ids, Undisturbed', policies[q].status = "pruned"
    PROVE  policies'[q].status = "pruned"
<1>1. LInv /\ InHand /\ Undisturbed /\ HInv
  BY CountingKeeps DEF UInv, LInv
<1>2. CASE Still
  BY <1>2 DEF Still
<1>3. ASSUME NEW p \in Procs, create_policy(p) PROVE policies'[q].status = "pruned"
  BY <1>3 DEF create_policy, Put, Ids
<1>4. ASSUME NEW p \in Procs, create_policy_version(p) \/ set_policy_version_status(p)
      PROVE  policies'[q].status = "pruned"
  BY <1>4 DEF create_policy_version, set_policy_version_status
<1>5. ASSUME NEW p \in Procs, set_policy_current_version(p) PROVE policies'[q].status = "pruned"
  <2>1. PICK o, made : policies' = [policies EXCEPT ![o].current = made]
    BY <1>5 DEF set_policy_current_version
  <2>2. policies[q] = [status |-> policies[q].status, current |-> policies[q].current]
    BY <1>1 DEF HInv, Rows
  <2>3. [policies[q] EXCEPT !.current = made].status = policies[q].status
    BY <2>2
  <2> QED BY <2>1, <2>3 DEF Ids
<1>6. ASSUME NEW p \in Procs, set_policy_status(p) PROVE policies'[q].status = "pruned"
  <2>1. PICK o, s : o = Now(p).policy /\ s = Now(p).status /\ policies' = [policies EXCEPT ![o].status = s]
    BY <1>6 DEF set_policy_status
  <2>2. policies[q] = [status |-> policies[q].status, current |-> policies[q].current]
    BY <1>1 DEF HInv, Rows
  <2>3. policies'[q].status = IF q = o THEN s ELSE policies[q].status
    BY <2>1, <2>2 DEF Ids
  <2>4. q = o => s = "pruned"
    <3>1. PICK t : t = loc[p].todo
      OBVIOUS
    <3>2. Busy(p) /\ Now(p).do = "set_policy_status"
      BY <1>6 DEF set_policy_status, Serving
    <3>3. /\ Work(t, loc[p].slot, loc[p].made) /\ t # <<>> /\ IsSeq(t) /\ o = t[1].policy /\ s = t[1].status
          /\ t[1].do = "set_policy_status"
      BY <1>1, <2>1, <3>1, <3>2, AtWork
    <3>4. \/ Toggling(t)
          \/ \E k \in Ids : Others(k) /\ Bare(k) /\ ToDisable(t, k) /\ policies[k].status # "pruned"
      BY <1>1, <3>3, HeadOf
    <3> QED BY <3>3, <3>4 DEF Toggling, ToDisable
  <2> QED BY <2>3, <2>4
<1> QED BY <1>1, <1>2, <1>3, <1>4, <1>5, <1>6, HInvIsInductive DEF HistoryStep

\* With one operator who is never interrupted, a pruned policy stays pruned, also
\* when the split that made it is asked for again, or a recommendation to disable it
\* is accepted (service.py:206-243, and the status a split gives to a child it makes).
THEOREM PruneHolds == Spec => PruneIsFinal
<1> DEFINE Stays == \A policy \in Ids :
               Undisturbed' /\ policies[policy].status = "pruned" =>
                   policies'[policy].status = "pruned"
<1>1. UInv /\ [Next]_vars => [Stays]_vars
  BY PruneStays
<1> QED BY <1>1, UInvHolds, PTL DEF Spec, PruneIsFinal

=============================================================================
