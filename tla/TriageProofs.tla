----------------------------- MODULE TriageProofs -----------------------------
(***************************************************************************)
(* What a person decides about an experience reaches its later rows and its *)
(* proposals, and the proposals are those of the evidence as it is, for any *)
(* transcripts and any interleaving.                                        *)
(*                                                                         *)
(* The invariant follows the decisions of a group through the rebuilds that *)
(* replace its row, and the work of a generate command through the          *)
(* decisions that come in after it was read.  For the proposals it adds     *)
(* that every set, stored or pending, has the ranking its fingerprinted     *)
(* inputs give, so that an unchanged fingerprint means an unchanged ranking.*)
(* After that all invariants of Stages 1-6 are put together, with that of   *)
(* confidences: whatever is counted into one, it is between 0 and 100.      *)
(*                                                                         *)
(* The last section is about the scores: a pattern of one project is never  *)
(* ranked first as a global rule.  The score of a global rule without       *)
(* balanced support of several projects is capped.  That alone would not    *)
(* do, were the others to score less: but what counts against ignoring a    *)
(* pattern counts for making it a skill, and the two together are always    *)
(* more than twice the cap.                                                 *)
(***************************************************************************)
EXTENDS EvidenceProofs

\* A group without a row has no decision but those that vanished with one.
Followed ==
    /\ DOMAIN exps \subseteq Groups
    /\ triaged = [g \in Groups |-> triaged[g]]
    /\ \A g \in Groups \ vanished :
            /\ g \in DOMAIN exps => exps[g].review = triaged[g]
            /\ g \notin DOMAIN exps => triaged[g] = "unreviewed"

\* Proposals, and the work that will become proposals, are of eligible experiences,
\* and no extraction is under way beside that work.
Proposed ==
    /\ gen = [pc |-> gen.pc, work |-> gen.work, calm |-> gen.calm]
    /\ gen.pc = "idle" => DOMAIN gen.work = {}
    /\ gen.pc # "idle" => ext.pc = "idle"
    /\ \A g \in DOMAIN sets \cup DOMAIN gen.work : Eligible(g) \/ g \in late

TInv == EInv /\ Followed /\ Proposed

LEMMA NothingIsNoWork == NotGenerating.pc = "idle" /\ DOMAIN NotGenerating.work = {}
                         /\ NotGenerating = [pc |-> "idle", work |-> <<>>, calm |-> TRUE]
BY DEF NotGenerating

LEMMA TInvHoldsInitially == ASSUME Init PROVE TInv
<1>1. Followed
  BY DEF Init, ExtractInit, Followed
<1>2. Proposed
  BY NothingIsNoWork DEF Init, ExtractInit, Proposed
<1> QED BY <1>1, <1>2, EInvHoldsInitially DEF TInv

\* The rows keep their groups, statuses and reviews when evidence is deleted.
LEMMA UnlinkedKeepsRows ==
    ASSUME Linked, NEW sessions, NEW classes, Unlinked(sessions, classes)
    PROVE  /\ DOMAIN exps' = DOMAIN exps
           /\ \A g \in DOMAIN exps : exps'[g].status = exps[g].status /\ exps'[g].review = exps[g].review
BY DEF Linked, Unlinked

\* Steps that leave the groups, statuses and reviews of the rows as they are.
LEMMA RowsKept ==
    ASSUME TInv, DOMAIN exps' = DOMAIN exps,
           \A g \in DOMAIN exps : exps'[g].status = exps[g].status /\ exps'[g].review = exps[g].review
    PROVE  /\ UNCHANGED <<triaged, vanished>> => Followed'
           /\ \A g : Eligible(g) => Eligible(g)'
BY DEF TInv, Followed, Eligible

LEMMA GroupsOfExperiences == ASSUME EInv PROVE DOMAIN Grouped \subseteq Groups
<1> SUFFICES ASSUME NEW g \in DOMAIN Grouped PROVE g \in Groups
  OBVIOUS
<1>1. PICK o \in UNION {Items[s][ext.loaded[s]] : s \in Sessions} : g = o.key
  BY DEF Grouped, build_experiences
<1>2. PICK s \in Sessions : o \in Items[s][ext.loaded[s]]
  BY <1>1
<1>3. Items[s][ext.loaded[s]] \in Range(Items[s])
  BY <1>2 DEF EInv, Detected, Items, Range
<1> QED BY <1>1, <1>2, <1>3 DEF Groups

LEMMA TInvIsInductive == ASSUME TInv, [Next]_vars PROVE TInv'
<1>1. EInv'
  BY EInvIsInductive DEF TInv
<1>2. CASE Persist
  <2>1. /\ Unlinked({Session}, Classes)
        /\ ext' = [ext EXCEPT !.calm = FALSE] /\ gen' = [gen EXCEPT !.calm = FALSE]
        /\ UNCHANGED <<sets, triaged, late, vanished>>
    BY <1>2 DEF Persist, CascadeTrajectory
  <2>2. Followed' /\ \A g : Eligible(g) => Eligible(g)'
    BY <2>1, UnlinkedKeepsRows, RowsKept DEF TInv, EInv
  <2>3. ext'.pc = ext.pc
    BY <2>1 DEF TInv, EInv, Detected
  <2>4. Proposed'
    BY <2>1, <2>2, <2>3 DEF TInv, Proposed
  <2> QED BY <1>1, <2>2, <2>4 DEF TInv
<1>3. ASSUME NEW f, NEW r, Extract(f, r) PROVE TInv'
  <2>1. /\ gen.pc = "idle"
        /\ Unlinked(Sessions, Classes) \/ exps' = exps
        /\ UNCHANGED <<sets, gen, triaged, late, vanished>>
    BY <1>3 DEF Extract, cmd_experiences_extract, clear_experience_data, stageSix
  <2>2. Followed' /\ \A g : Eligible(g) => Eligible(g)'
    BY <2>1, UnlinkedKeepsRows, RowsKept DEF TInv, EInv
  <2>3. Proposed'
    BY <2>1, <2>2 DEF TInv, Proposed
  <2> QED BY <1>1, <2>2, <2>3 DEF TInv
<1>4. CASE ExtractStep /\ UNCHANGED <<importVars, stageSix>>
  <2>1. /\ Unlinked({Current.session}, Classes \ {"contradiction"}) \/ exps' = exps
        /\ ext.pc # "idle"
        /\ UNCHANGED <<sets, gen, triaged, late, vanished>>
    BY <1>4 DEF ExtractStep, Scan, replace_trajectory_occurrences, set_extraction_state,
                load_occurrences, RebuildFails, CrashExtract, stageSix
  <2>2. Followed' /\ \A g : Eligible(g) => Eligible(g)'
    BY <2>1, UnlinkedKeepsRows, RowsKept DEF TInv, EInv
  <2>3. Proposed'
    BY <2>1, <2>2 DEF TInv, Proposed
  <2> QED BY <1>1, <2>2, <2>3 DEF TInv
<1>5. CASE Rebuild
  <2>1. /\ ext.pc = "rebuild"
        /\ DOMAIN exps' = DOMAIN Grouped
        /\ \A g \in DOMAIN Grouped : exps'[g].review = Review(g)
        /\ vanished' = vanished \cup (DOMAIN exps \ DOMAIN Grouped)
        /\ DOMAIN sets' = {}
        /\ UNCHANGED <<gen, triaged>>
    BY <1>5 DEF Rebuild, rebuild_experiences
  <2>2. Followed'
    BY <2>1, GroupsOfExperiences DEF TInv, Followed, Review
  <2>3. Proposed'
    BY <2>1 DEF TInv, Proposed
  <2> QED BY <1>1, <2>2, <2>3 DEF TInv
<1>6. ASSUME NEW g \in Groups, NEW status, set_experience_review(g, status) PROVE TInv'
  <2>1. /\ g \in DOMAIN exps
        /\ exps' = [exps EXCEPT ![g].review = status]
        /\ triaged' = [triaged EXCEPT ![g] = status]
        /\ gen' = [gen EXCEPT !.calm = FALSE]
        /\ UNCHANGED <<ext, vanished>>
    BY <1>6 DEF set_experience_review
  <2>2. /\ DOMAIN exps' = DOMAIN exps
        /\ exps'[g].status = exps[g].status /\ exps'[g].review = status
        /\ \A h \in DOMAIN exps : h # g => exps'[h] = exps[h]
    BY <2>1 DEF TInv, EInv, Linked
  <2>3. Followed'
    BY <2>1, <2>2 DEF TInv, Followed
  <2>4. /\ \A h : h # g /\ Eligible(h) => Eligible(h)'
        /\ status \notin Excluded /\ Eligible(g) => Eligible(g)'
    BY <2>2 DEF Eligible
  <2>5. /\ \A h : h # g /\ h \in late => h \in late'
        /\ g \in DOMAIN gen.work => g \in late'
        /\ status \notin Excluded /\ g \in late => g \in late'
        /\ DOMAIN sets' \subseteq DOMAIN sets
        /\ status \in Excluded => g \notin DOMAIN sets'
    BY <1>6 DEF set_experience_review
  <2>6. gen' = [pc |-> gen.pc, work |-> gen.work, calm |-> FALSE]
    BY <2>1 DEF TInv, Proposed
  <2>7. ASSUME NEW h \in DOMAIN sets' \cup DOMAIN gen'.work PROVE Eligible(h)' \/ h \in late'
    <3>1. Eligible(h) \/ h \in late
      BY <2>5, <2>6, <2>7 DEF TInv, Proposed
    <3> QED BY <3>1, <2>4, <2>5, <2>6, <2>7
  <2>8. Proposed'
    BY <2>1, <2>6, <2>7 DEF TInv, Proposed
  <2> QED BY <1>1, <2>3, <2>8 DEF TInv
<1>7. ASSUME UNCHANGED <<exps, ext, triaged, vanished, late>>, Proposed' PROVE TInv'
  BY <1>1, <1>7, RowsKept DEF TInv
<1>8. CASE cmd_placements_generate
  <2>1. UNCHANGED <<exps, ext, triaged, vanished, sets, late>> /\ ext.pc = "idle"
    BY <1>8 DEF cmd_placements_generate, extractVars
  <2> DEFINE work == [g \in {h \in Groups : Eligible(h)} |->
                        [inputs |-> _fingerprint(g), ranked |-> Ranked(g)]]
  <2>2. /\ gen' = [pc |-> IF DOMAIN work = {} THEN "idle" ELSE "write", work |-> work, calm |-> TRUE]
        /\ \A g \in DOMAIN work : Eligible(g)
    BY <1>8 DEF cmd_placements_generate
  <2> HIDE DEF work
  <2>3. Proposed'
    BY <2>1, <2>2 DEF TInv, Proposed, Eligible
  <2> QED BY <1>7, <2>1, <2>3
<1>9. ASSUME NEW g \in DOMAIN gen.work, Write(g) PROVE TInv'
  <2>1. /\ UNCHANGED <<exps, ext, triaged, vanished, late>>
        /\ DOMAIN sets' \subseteq DOMAIN sets \cup {g}
    BY <1>9 DEF Write, Keep, replace_placement_proposal_set, Refuse, extractVars
  <2>2. \/ gen' = NotGenerating
        \/ gen' = [gen EXCEPT !.work = [h \in DOMAIN @ \ {g} |-> @[h]]]
    BY <1>9 DEF Write, Keep, replace_placement_proposal_set, Refuse, Done
  <2>3. /\ gen' = [pc |-> gen'.pc, work |-> gen'.work, calm |-> gen'.calm]
        /\ DOMAIN gen'.work \subseteq DOMAIN gen.work
        /\ gen'.pc = "idle" => DOMAIN gen'.work = {}
        /\ gen'.pc # "idle" => gen.pc # "idle"
    BY <2>2, NothingIsNoWork DEF TInv, Proposed
  <2>4. Proposed'
    BY <1>9, <2>1, <2>3 DEF TInv, Proposed, Eligible
  <2> QED BY <1>7, <2>1, <2>4
<1>10. CASE CrashGenerate
  <2>1. UNCHANGED <<exps, ext, triaged, vanished, late, sets>> /\ gen' = NotGenerating
    BY <1>10 DEF CrashGenerate, extractVars
  <2>2. Proposed'
    BY <2>1, NothingIsNoWork DEF TInv, Proposed, Eligible
  <2> QED BY <1>7, <2>1, <2>2
<1>11. CASE UNCHANGED <<extractVars, stageSix>>
  <2>1. UNCHANGED <<exps, ext, triaged, vanished, late, sets, gen>>
    BY <1>11 DEF extractVars, stageSix
  <2>2. Proposed'
    BY <2>1 DEF TInv, Proposed, Eligible
  <2> QED BY <1>7, <2>1, <2>2
<1> QED
  BY <1>2, <1>3, <1>4, <1>5, <1>6, <1>8, <1>9, <1>10, <1>11 DEF Next, vars

\* For every number of commands, decisions and crashes, an experience shows the
\* last triage its group got, unless its row was dropped in between
\* (repository.py:586-636).
THEOREM TriageIsKept == Spec => []TriageKept
<1>1. TInv => TriageKept
  BY DEF TInv, Followed, TriageKept
<1> QED BY <1>1, TInvHoldsInitially, TInvIsInductive, PTL DEF Spec

\* Likewise, only an exclusion that comes while a generate command already has the
\* experience in its work can leave proposals of it (repository.py:728-740).
THEOREM ProposalsStayEligible == Spec => []ProposalsAreEligible
<1>1. TInv => ProposalsAreEligible
  BY DEF TInv, Proposed, ProposalsAreEligible
<1> QED BY <1>1, TInvHoldsInitially, TInvIsInductive, PTL DEF Spec

-----------------------------------------------------------------------------
\* The ranking the fingerprinted inputs of a group give.
RankOf(g, inputs) ==
    build_proposals(extract_features(Headline(g), inputs.confidence, inputs.found,
        [s \in {o.session : o \in inputs.found} |-> Transcript[s][inputs.read[s]].events]))

\* A stored or pending set of a group: its ranking is that of its inputs.
Ranks(g, set) == set = [inputs |-> set.inputs, ranked |-> RankOf(g, set.inputs)]

Reproducible ==
    /\ \A g \in DOMAIN sets : Ranks(g, sets[g])
    /\ \A g \in DOMAIN gen.work : Ranks(g, gen.work[g])

\* While nothing comes in between, every eligible experience waits with its inputs
\* as they are, or has been written with them.
Undone ==
    gen.pc = "write" /\ gen.calm =>
        /\ \A g \in DOMAIN gen.work : Eligible(g) /\ gen.work[g].inputs = _fingerprint(g)
        /\ \A g \in Groups \ DOMAIN gen.work :
                Eligible(g) => g \in DOMAIN sets /\ sets[g].inputs = _fingerprint(g)

GInv == TInv /\ used \in [Counters -> Nat] /\ Reproducible /\ Undone

\* The fingerprint holds all that the ranking is made from.
LEMMA RankIsOfFingerprint ==
    ASSUME NEW g PROVE Ranked(g) = RankOf(g, _fingerprint(g))
<1> DEFINE found == get_placement_evidence(g)
           sessions == {o.session : o \in found}
           read == [s \in {e[1] : e \in exps[g].evidence} |-> trajs[s].version]
<1>1. /\ _fingerprint(g).confidence = exps[g].confidence
      /\ _fingerprint(g).found = found
      /\ _fingerprint(g).read = read
  BY DEF _fingerprint
<1>2. ASSUME NEW s \in sessions PROVE s \in {e[1] : e \in exps[g].evidence}
  <2>1. PICK o \in found : s = o.session
    OBVIOUS
  <2>2. CASE <<o.session, o.class>> \in exps[g].evidence
    BY <2>1, <2>2
  <2>3. CASE \E e \in exps[g].evidence : o = [class |-> "contradiction", session |-> e[1], project |-> RootOf[e[1]]]
    BY <2>1, <2>3
  <2> QED BY <2>1, <2>2, <2>3 DEF get_placement_evidence
<1>3. [s \in sessions |-> Transcript[s][read[s]].events] = [s \in sessions |-> Transcript[s][trajs[s].version].events]
  BY <1>2
<1> HIDE DEF found, sessions, read
<1> QED BY <1>1, <1>3 DEF Ranked, RankOf, found, sessions

\* The inputs of a group change only with its rows and trajectories.
LEMMA SameFingerprint ==
    ASSUME UNCHANGED <<exps, occs, trajs>>, NEW g
    PROVE  _fingerprint(g)' = _fingerprint(g) /\ Eligible(g)' = Eligible(g)
<1>1. get_placement_evidence(g)' = get_placement_evidence(g)
  BY DEF get_placement_evidence, Items
<1> QED BY <1>1 DEF _fingerprint, Eligible

LEMMA GInvHoldsInitially == ASSUME Init PROVE GInv
<1>1. used \in [Counters -> Nat]
  BY DEF Init, Counters
<1>2. Reproducible
  BY NothingIsNoWork DEF Init, Reproducible
<1>3. Undone
  BY NothingIsNoWork DEF Init, Undone
<1> QED BY <1>1, <1>2, <1>3, TInvHoldsInitially DEF GInv

\* Steps that leave the work of the command alone, or end it.
LEMMA OthersKeepWork ==
    ASSUME GInv, [Next]_vars,
           \A g \in DOMAIN sets' : g \in DOMAIN sets /\ sets'[g] = sets[g],
           \/ gen' = NotGenerating
           \/ gen' = [gen EXCEPT !.calm = FALSE]
           \/ gen' = gen /\ gen.pc = "idle"
           \/ UNCHANGED <<gen, sets, exps, occs, trajs>>
    PROVE  GInv'
<1>1. TInv' /\ used' \in [Counters -> Nat]
  BY TInvIsInductive, CountersStayCounters DEF GInv
<1>2. /\ gen = [pc |-> gen.pc, work |-> gen.work, calm |-> gen.calm]
      /\ gen.pc = "idle" => DOMAIN gen.work = {}
  BY DEF GInv, TInv, Proposed
<1>3. DOMAIN gen'.work = {} \/ gen'.work = gen.work
  BY <1>2, NothingIsNoWork
<1>4. Reproducible'
  BY <1>3 DEF GInv, Reproducible, Ranks, RankOf, Headline
<1>5. ASSUME gen'.pc = "idle" \/ gen'.calm = FALSE PROVE GInv'
  BY <1>1, <1>4, <1>5 DEF GInv, Undone
<1>6. CASE gen' = NotGenerating
  BY <1>5, <1>6, NothingIsNoWork
<1>7. CASE gen' = [gen EXCEPT !.calm = FALSE]
  <2>1. gen'.calm = FALSE
    BY <1>2, <1>7
  <2> QED BY <1>5, <2>1
<1>8. CASE gen' = gen /\ gen.pc = "idle"
  BY <1>5, <1>8
<1>9. CASE UNCHANGED <<gen, sets, exps, occs, trajs>>
  BY <1>1, <1>4, <1>9, SameFingerprint DEF GInv, Undone
<1> QED BY <1>6, <1>7, <1>8, <1>9

LEMMA WriteKeepsWork ==
    ASSUME GInv, [Next]_vars, NEW g \in DOMAIN gen.work, Keep(g) \/ replace_placement_proposal_set(g)
    PROVE  GInv'
<1>1. TInv' /\ used' \in [Counters -> Nat]
  BY TInvIsInductive, CountersStayCounters DEF GInv
<1>2. /\ gen = [pc |-> gen.pc, work |-> gen.work, calm |-> gen.calm]
      /\ gen.pc = "idle" => DOMAIN gen.work = {}
  BY DEF GInv, TInv, Proposed
<1>3. /\ UNCHANGED <<exps, occs, trajs>>
      /\ \/ sets' = sets /\ g \in DOMAIN sets /\ sets[g].inputs = gen.work[g].inputs
         \/ sets' = [h \in DOMAIN sets \cup {g} |-> IF h = g THEN gen.work[g] ELSE sets[h]]
      /\ \/ gen' = NotGenerating
         \/ gen' = [gen EXCEPT !.work = [h \in DOMAIN gen.work \ {g} |-> gen.work[h]]]
  BY DEF Keep, replace_placement_proposal_set, Unchanged, Done, importVars, extractVars
<1>4. /\ g \in DOMAIN sets' /\ sets'[g].inputs = gen.work[g].inputs /\ DOMAIN sets' \subseteq DOMAIN sets \cup {g}
      /\ (sets'[g] = sets[g] /\ g \in DOMAIN sets) \/ sets'[g] = gen.work[g]
      /\ \A h : h # g => (h \in DOMAIN sets' <=> h \in DOMAIN sets)
      /\ \A h \in DOMAIN sets : h # g => sets'[h] = sets[h]
  BY <1>3
<1>5. /\ \A h \in DOMAIN gen'.work : h \in DOMAIN gen.work \ {g} /\ gen'.work[h] = gen.work[h]
      /\ gen'.pc = "write" => /\ DOMAIN gen'.work = DOMAIN gen.work \ {g}
                              /\ gen.pc = "write" /\ gen'.calm = gen.calm
  BY <1>2, <1>3, NothingIsNoWork
<1>6. Reproducible'
  <2>1. \A h, set : Ranks(h, set)' = Ranks(h, set)
    BY DEF Ranks, RankOf, Headline
  <2>2. ASSUME NEW h \in DOMAIN sets' PROVE Ranks(h, sets'[h])
    BY <1>4 DEF GInv, Reproducible
  <2>3. ASSUME NEW h \in DOMAIN gen'.work PROVE Ranks(h, gen'.work[h])
    BY <1>5 DEF GInv, Reproducible
  <2> QED BY <2>1, <2>2, <2>3 DEF Reproducible
<1>7. Undone'
  <2> SUFFICES ASSUME gen'.pc = "write", gen'.calm
               PROVE  /\ \A h \in DOMAIN gen'.work : Eligible(h)' /\ gen'.work[h].inputs = _fingerprint(h)'
                      /\ \A h \in Groups \ DOMAIN gen'.work :
                            Eligible(h)' => h \in DOMAIN sets' /\ sets'[h].inputs = _fingerprint(h)'
    BY DEF Undone, Groups, Items
  <2>1. gen.pc = "write" /\ gen.calm
    BY <1>5
  <2> QED BY <2>1, <1>3, <1>4, <1>5, SameFingerprint DEF GInv, Undone
<1> QED BY <1>1, <1>6, <1>7 DEF GInv

LEMMA GInvIsInductive == ASSUME GInv, [Next]_vars PROVE GInv'
<1>1. CASE Persist
  BY <1>1, OthersKeepWork DEF Persist
<1>2. ASSUME NEW f, NEW r, Extract(f, r) PROVE GInv'
  BY <1>2, OthersKeepWork DEF Extract, stageSix
<1>3. CASE ImportStep /\ UNCHANGED <<extractVars, stageSix>>
  <2>1. UNCHANGED <<gen, sets, exps, occs, trajs>>
    BY <1>3 DEF ImportStep, AlreadyKnown, Ignore, Resolve, Parse, Finish, Fail, CrashImport, Grow,
       cmd_init, cmd_import, extractVars, stageSix
  <2> QED BY <2>1, OthersKeepWork
<1>4. CASE ExtractStep /\ UNCHANGED <<importVars, stageSix>>
  <2>1. ext.pc # "idle"
    BY <1>4 DEF ExtractStep, Scan, replace_trajectory_occurrences, set_extraction_state, load_occurrences,
       RebuildFails, CrashExtract
  <2> QED BY <1>4, <2>1, OthersKeepWork DEF stageSix, GInv, TInv, Proposed
<1>5. CASE Rebuild
  <2>1. ext.pc # "idle" /\ gen' = gen /\ DOMAIN sets' = {}
    BY <1>5 DEF Rebuild, rebuild_experiences
  <2> QED BY <2>1, OthersKeepWork DEF GInv, TInv, Proposed
<1>6. ASSUME NEW g, NEW t, set_experience_review(g, t) PROVE GInv'
  <2>1. /\ gen' = [gen EXCEPT !.calm = FALSE]
        /\ sets' = sets \/ sets' = [h \in DOMAIN sets \ {g} |-> sets[h]]
    BY <1>6 DEF set_experience_review
  <2> QED BY <2>1, OthersKeepWork
<1>7. CASE cmd_placements_generate
  <2> DEFINE W == {h \in Groups : Eligible(h)}
             work == [g \in W |-> [inputs |-> _fingerprint(g), ranked |-> Ranked(g)]]
  <2>1. /\ gen' = [pc |-> IF DOMAIN work = {} THEN "idle" ELSE "write", work |-> work, calm |-> TRUE]
        /\ UNCHANGED <<exps, occs, trajs, sets>>
    BY <1>7 DEF cmd_placements_generate, importVars, extractVars
  <2>2. /\ DOMAIN work = W
        /\ \A g \in W : /\ work[g].inputs = _fingerprint(g)
                        /\ Ranks(g, work[g])
    BY RankIsOfFingerprint DEF Ranks
  <2> HIDE DEF work
  <2>3. Reproducible'
    <3>1. \A g \in DOMAIN sets : Ranks(g, sets[g])' = Ranks(g, sets[g])
      BY <2>1, Zenon DEF Ranks, RankOf, Headline
    <3>2. gen'.work = work
      BY <2>1
    <3>3. \A g \in DOMAIN gen'.work : Ranks(g, gen.work[g])'
      BY <2>2, <3>2, Zenon DEF Ranks, RankOf, Headline
    <3> QED BY <2>1, <3>1, <3>3 DEF GInv, Reproducible
  <2>4. Undone'
    BY <2>1, <2>2, SameFingerprint DEF Undone, Groups, Items
  <2>5. TInv' /\ used' \in [Counters -> Nat]
    BY TInvIsInductive, CountersStayCounters DEF GInv
  <2> QED BY <2>3, <2>4, <2>5 DEF GInv
<1>8. ASSUME NEW g \in DOMAIN gen.work, Write(g) PROVE GInv'
  <2>1. CASE Refuse(g)
    BY <2>1, OthersKeepWork DEF Refuse
  <2> QED BY <1>8, <2>1, WriteKeepsWork DEF Write
<1>9. CASE CrashGenerate
  BY <1>9, OthersKeepWork DEF CrashGenerate
<1>10. CASE UNCHANGED vars
  BY <1>10, OthersKeepWork DEF vars, importVars, extractVars, stageSix
<1> QED
  BY <1>1, <1>2, <1>3, <1>4, <1>5, <1>6, <1>7, <1>8, <1>9, <1>10 DEF Next

\* For any evidence and any earlier commands, crashes and decisions: a generate
\* command nothing comes in between, once it has ended, leaves every eligible
\* experience with the ranking of its evidence as it is, also where it kept the set
\* of an earlier command because the fingerprint was the same (generate.py:139-157).
THEOREM GenerationStaysExact == Spec => GenerationIsExact
<1> DEFINE Regenerated ==
        (gen.pc = "write" /\ gen'.pc = "idle" /\ used' = used /\ gen.calm)
            => \A g \in Groups : Eligible(g) =>
                    g \in DOMAIN sets' /\ sets'[g] = [inputs |-> _fingerprint(g), ranked |-> Ranked(g)]
<1>1. ASSUME GInv, [Next]_vars PROVE Regenerated
  <2>1. SUFFICES ASSUME gen.pc = "write", gen'.pc = "idle", used' = used, gen.calm,
                        NEW g \in Groups, Eligible(g)
                 PROVE  g \in DOMAIN sets' /\ sets'[g] = [inputs |-> _fingerprint(g), ranked |-> Ranked(g)]
    OBVIOUS
  <2>2. /\ gen = [pc |-> gen.pc, work |-> gen.work, calm |-> gen.calm]
        /\ ext.pc = "idle"
    BY <1>1, <2>1 DEF GInv, TInv, Proposed
  <2>3. ~ CrashGenerate
    BY <1>1, <2>1, SpendingCounts DEF CrashGenerate, GInv, Counters
  <2>4. PICK h \in DOMAIN gen.work : Write(h)
    BY <1>1, <2>1, <2>2, <2>3
    DEF Next, Persist, Extract, Rebuild, rebuild_experiences, set_experience_review,
        cmd_placements_generate, stageSix, vars
  <2>5. Eligible(h) /\ gen.work[h].inputs = _fingerprint(h)
    BY <1>1, <2>1 DEF GInv, Undone
  <2>6. ~ Refuse(h)
    BY <2>5 DEF Refuse, Belongs, Eligible, _fingerprint
  <2>7. DOMAIN gen.work = {h}
    BY <2>1, <2>2, <2>4, <2>6 DEF Write, Keep, replace_placement_proposal_set, Done
  <2>8. GInv' /\ UNCHANGED <<exps, occs, trajs>>
    BY <1>1, <2>4, GInvIsInductive DEF Write, Keep, replace_placement_proposal_set, Refuse, importVars, extractVars
  <2>9. g \in DOMAIN sets' /\ sets'[g].inputs = _fingerprint(g)
    BY <1>1, <2>1, <2>4, <2>5, <2>6, <2>7
    DEF GInv, Undone, Write, Keep, replace_placement_proposal_set, Unchanged
  <2>10. Ranks(g, sets'[g])
    BY <2>8, <2>9 DEF GInv, Reproducible, Ranks, RankOf, Headline
  <2> QED BY <2>9, <2>10, RankIsOfFingerprint DEF Ranks
<1>2. Init => GInv
  BY GInvHoldsInitially
<1>3. GInv /\ [Next]_vars => GInv'
  BY GInvIsInductive
<1>4. GInv /\ [Next]_vars => [Regenerated]_vars
  BY <1>1
<1> QED BY <1>2, <1>3, <1>4, PTL DEF Spec, GenerationIsExact

-----------------------------------------------------------------------------
LEMMA SmallFactor ==
    ASSUME NEW d \in Nat, NEW a \in 0 .. 6 PROVE a * d \in Nat /\ a * d <= 6 * d
<1>1. a = 0 \/ a = 1 \/ a = 2 \/ a = 3 \/ a = 4 \/ a = 5 \/ a = 6
  OBVIOUS
<1> QED BY <1>1

\* A quotient of at most hundred and a half is at most hundred.
LEMMA RoundedShare ==
    ASSUME NEW d \in Nat, d >= 1, NEW n \in Nat, n <= 2412 * d
    PROVE  n \div (24 * d) \in 0 .. 100
<1> DEFINE k == 24 * d
           q == n \div k
<1>1. k \in Nat /\ k >= 24
  OBVIOUS
<1>2. q \in Int /\ k * q <= n /\ n < k * (q + 1)
  <2> HIDE DEF k
  <2> QED BY <1>1
<1>3. q >= 0
  <2>1. CASE q <= -1
    <3>1. k * (q + 1) <= 0
      <4> HIDE DEF k, q
      <4> QED BY <1>1, <1>2, <2>1
    <3> QED BY <1>2, <3>1
  <2> QED BY <1>2, <2>1
<1>4. q <= 100
  <2>1. CASE q >= 101
    <3>1. k * q >= k * 101
      <4> HIDE DEF k, q
      <4> QED BY <1>1, <1>2, <2>1
    <3>2. k * 101 = 2424 * d
      OBVIOUS
    <3> HIDE DEF k, q
    <3> QED BY <1>1, <1>2, <3>1, <3>2
  <2> QED BY <1>2, <2>1
<1> QED BY <1>2, <1>3, <1>4

\* The confidence is a number of hundredths, whatever is counted.
LEMMA ConfidenceIsAShare ==
    ASSUME NEW support \in Nat, NEW contradiction \in Nat, NEW occurrences \in Nat, NEW seen \in Nat,
           NEW recency \in {3, 10}
    PROVE  compute_confidence(support, contradiction, occurrences, seen, recency) \in 0 .. 100
<1> DEFINE d == LargerOf(1, support + contradiction)
           a == SmallerOf(6, occurrences)
           b == SmallerOf(2, LargerOf(1, seen) - 1)
<1>1. d \in Nat /\ d >= 1 /\ support <= d
  BY DEF LargerOf
<1>2. a \in 0 .. 6 /\ b \in 0 .. 2
  BY DEF LargerOf, SmallerOf
<1>3. compute_confidence(support, contradiction, occurrences, seen, recency) =
        (2 * (50 * 12 * support + 25 * 2 * a * d + 15 * 6 * b * d + recency * 12 * d) + 12 * d) \div (2 * 12 * d)
  BY DEF compute_confidence
<1> HIDE DEF d, a, b
<1>4. a * d \in Nat /\ a * d <= 6 * d
  BY <1>1, <1>2, SmallFactor
<1>5. b * d \in Nat /\ b * d <= 2 * d
  <2>1. b = 0 \/ b = 1 \/ b = 2
    BY <1>2
  <2> QED BY <1>1, <2>1
<1>6. 25 * 2 * a * d = 50 * (a * d) /\ 15 * 6 * b * d = 90 * (b * d)
  BY <1>1, <1>2
<1>7. recency * 12 * d \in Nat /\ recency * 12 * d <= 120 * d
  BY <1>1
<1> DEFINE x == a * d
           y == b * d
           z == recency * 12 * d
           n == 2 * (600 * support + 50 * x + 90 * y + z) + 12 * d
<1>8. compute_confidence(support, contradiction, occurrences, seen, recency) = n \div (24 * d)
  BY <1>1, <1>3, <1>6
<1>9. x \in Nat /\ x <= 6 * d /\ y \in Nat /\ y <= 2 * d /\ z \in Nat /\ z <= 120 * d
  BY <1>4, <1>5, <1>7
<1> HIDE DEF x, y, z
<1>10. n \in Nat /\ n <= 2412 * d
  BY <1>1, <1>9
<1> HIDE DEF n
<1> QED BY <1>1, <1>8, <1>10, RoundedShare


LEMMA ImageIsFinite ==
    ASSUME NEW S, IsFiniteSet(S), NEW f, f = [x \in S |-> f[x]] PROVE IsFiniteSet({f[x] : x \in S})
<1>1. f \in Surjection(S, {f[x] : x \in S})
  BY DEF Surjection
<1> QED BY <1>1, FS_Surjection DEF ExistsSurjection

\* What the rebuild makes of a group is a row of the table.
LEMMA GroupedRows ==
    ASSUME EInv, NEW g \in DOMAIN Grouped
    PROVE  Grouped[g].status \in {"candidate", "needs_more_evidence"} /\ Grouped[g].confidence \in 0 .. 100
<1> DEFINE profiles == [s \in {t \in Sessions : ext.seen[t] # 0} |-> Profiles[s][ext.seen[s]]]
           items == UNION {Items[s][ext.loaded[s]] : s \in Sessions}
           positive == {o \in items : o.key = g}
           support == Of(positive, "support")
           opposed == synthesize_contradictions(g, positive, profiles, RootOf)
           against == IF Cardinality(positive) >= LargerOf(2, MinOccurrences - 1) THEN opposed ELSE {}
           evidence == positive \cup against
<1>1. Grouped = build_experiences(items, profiles, RootOf)
  BY DEF Grouped
<1>2. /\ Grouped[g].status \in {"candidate", "needs_more_evidence"}
      /\ Grouped[g].confidence = compute_confidence(Cardinality(support), Cardinality(against), Cardinality(positive),
                                                    Cardinality(Projects(support)), Recency(evidence, profiles))
  <2> HIDE DEF items, profiles
  <2>1. g \in DOMAIN build_experiences(items, profiles, RootOf)
    BY <1>1
  <2> QED BY <1>1, <2>1 DEF build_experiences
<1>3. IsFiniteSet(positive)
  <2>1. positive = GroupIn(ext.loaded, g)
    BY DEF GroupIn
  <2>2. \A s \in Sessions : ext.loaded[s] \in 0 .. Versions[s]
    BY DEF EInv, Detected
  <2> QED BY <2>1, <2>2, OneLinkEach
<1>4. IsFiniteSet(support) /\ IsFiniteSet(Projects(support))
  <2>1. support \in SUBSET positive
    BY DEF Of
  <2>2. IsFiniteSet(support)
    BY <1>3, <2>1, FS_Subset
  <2> DEFINE project == [o \in support |-> o.project]
  <2>3. IsFiniteSet({project[o] : o \in support})
    BY <2>2, ImageIsFinite
  <2>4. {project[o] : o \in support} = Projects(support)
    BY DEF Projects
  <2> QED BY <2>2, <2>3, <2>4
<1>5. IsFiniteSet(against)
  <2> DEFINE opposing == {s \in DOMAIN profiles :
                            /\ \A o \in positive : o.session # s
                            /\ g[3] \in profiles[s].clean
                            /\ profiles[s].edits \cap UNION {o.ante : o \in positive} # {}
                            /\ g[2] \notin profiles[s].edits}
             contradiction(s) ==
                Item(Occurrence("failure_repair_success", g, 1, 1, "contradiction", {}), s, RootOf[s])
  <2>1. opposed = {} \/ opposed = {contradiction(s) : s \in opposing}
    BY DEF synthesize_contradictions
  <2>2. opposing \in SUBSET Sessions
    OBVIOUS
  <2>3. IsFiniteSet(opposing)
    BY <2>2, SessionsAreFinite, FS_Subset
  <2> DEFINE f == [s \in opposing |-> contradiction(s)]
  <2> HIDE DEF opposing, contradiction
  <2>4. IsFiniteSet({f[s] : s \in opposing}) /\ {f[s] : s \in opposing} = {contradiction(s) : s \in opposing}
    BY <2>3, ImageIsFinite
  <2> QED BY <2>1, <2>4, FS_EmptySet
<1>6. Recency(evidence, profiles) \in {3, 10}
  BY DEF Recency
<1> DEFINE n == Cardinality(support)
           c == Cardinality(against)
           o == Cardinality(positive)
           p == Cardinality(Projects(support))
           r == Recency(evidence, profiles)
<1>7. /\ Cardinality(support) \in Nat /\ Cardinality(against) \in Nat /\ Cardinality(positive) \in Nat
      /\ Cardinality(Projects(support)) \in Nat
  <2> HIDE DEF positive, support, against
  <2> QED BY <1>3, <1>4, <1>5, FS_CardinalityType
<1> HIDE DEF n, c, o, p, r
<1>8. compute_confidence(n, c, o, p, r) \in 0 .. 100
  BY <1>6, <1>7, ConfidenceIsAShare DEF n, c, o, p, r
<1> QED BY <1>2, <1>8 DEF n, c, o, p, r

\* Rows of experiences, proposals of experiences that have one, and work to do.
Rated ==
    /\ \A g \in DOMAIN exps : exps[g].status \in {"candidate", "needs_more_evidence"} /\ exps[g].confidence \in 0 .. 100
    /\ DOMAIN sets \subseteq DOMAIN exps
    /\ gen.pc = "idle" => gen.work = <<>>
    /\ gen.pc # "idle" => DOMAIN gen.work # {}

PInv == KInv /\ TInv /\ Rated

LEMMA PInvHoldsInitially == ASSUME Init PROVE PInv
<1>1. Rated
  BY DEF Init, ExtractInit, NotGenerating, Rated
<1> QED BY <1>1, KInvHoldsInitially, TInvHoldsInitially DEF PInv

\* Steps that leave the groups, statuses and confidences, and Stage 6, as they are.
LEMMA OthersKeepRates ==
    ASSUME Rated, DOMAIN exps' = DOMAIN exps,
           \A g \in DOMAIN exps : exps'[g].status = exps[g].status /\ exps'[g].confidence = exps[g].confidence,
           DOMAIN sets' \subseteq DOMAIN sets,
           \/ gen'.pc = gen.pc /\ gen'.work = gen.work
           \/ gen' = NotGenerating
    PROVE  Rated'
<1>1. NotGenerating.pc = "idle" /\ NotGenerating.work = <<>>
  BY DEF NotGenerating
<1> QED BY <1>1 DEF Rated

LEMMA UnlinkedKeepsRates ==
    ASSUME Linked, NEW sessions, NEW classes, Unlinked(sessions, classes)
    PROVE  /\ DOMAIN exps' = DOMAIN exps
           /\ \A g \in DOMAIN exps : exps'[g].status = exps[g].status /\ exps'[g].confidence = exps[g].confidence
BY DEF Linked, Unlinked

LEMMA PInvIsInductive == ASSUME PInv, [Next]_vars PROVE PInv'
<1>1. KInv' /\ TInv'
  BY KInvIsInductive, TInvIsInductive DEF PInv
<1> SUFFICES Rated'
  BY <1>1 DEF PInv
<1> USE DEF PInv
<1>2. /\ Rated /\ Linked
      /\ gen = [pc |-> gen.pc, work |-> gen.work, calm |-> gen.calm]
  BY DEF TInv, EInv, Proposed
<1>3. CASE UNCHANGED <<exps, sets, gen>>
  BY <1>2, <1>3, OthersKeepRates
<1>4. CASE Persist
  <2>1. Unlinked({Session}, Classes) /\ gen' = [gen EXCEPT !.calm = FALSE] /\ sets' = sets
    BY <1>4 DEF Persist, CascadeTrajectory
  <2>2. gen'.pc = gen.pc /\ gen'.work = gen.work
    BY <1>2, <2>1
  <2> QED BY <1>2, <2>1, <2>2, UnlinkedKeepsRates, OthersKeepRates
<1>5. ASSUME NEW f, NEW r, Extract(f, r) PROVE Rated'
  <2>1. UNCHANGED <<sets, gen>> /\ (Unlinked(Sessions, Classes) \/ exps' = exps)
    BY <1>5 DEF Extract, cmd_experiences_extract, clear_experience_data, stageSix
  <2> QED BY <1>2, <2>1, UnlinkedKeepsRates, OthersKeepRates
<1>6. CASE ExtractStep /\ UNCHANGED <<importVars, stageSix>>
  <2>1. UNCHANGED <<sets, gen>> /\ (Unlinked({Current.session}, Classes \ {"contradiction"}) \/ exps' = exps)
    BY <1>6
    DEF ExtractStep, Scan, replace_trajectory_occurrences, set_extraction_state, load_occurrences, RebuildFails,
        CrashExtract, stageSix
  <2> QED BY <1>2, <2>1, UnlinkedKeepsRates, OthersKeepRates
<1>7. CASE Rebuild
  <2>1. /\ exps' = [g \in DOMAIN Grouped |->
                        [status |-> Grouped[g].status, confidence |-> Grouped[g].confidence,
                         review |-> Review(g), evidence |-> Links(Grouped[g].evidence)]]
        /\ DOMAIN sets' = {} /\ gen' = gen
    BY <1>7 DEF Rebuild, rebuild_experiences
  <2>2. \A g \in DOMAIN Grouped :
            Grouped[g].status \in {"candidate", "needs_more_evidence"} /\ Grouped[g].confidence \in 0 .. 100
    BY GroupedRows DEF TInv
  <2> QED BY <1>2, <2>1, <2>2 DEF Rated
<1>8. ASSUME NEW g, NEW t, set_experience_review(g, t) PROVE Rated'
  <2>1. /\ exps' = [exps EXCEPT ![g].review = t] /\ g \in DOMAIN exps
        /\ DOMAIN sets' \subseteq DOMAIN sets
        /\ gen' = [gen EXCEPT !.calm = FALSE]
    BY <1>8 DEF set_experience_review
  <2>2. /\ DOMAIN exps' = DOMAIN exps
        /\ \A h \in DOMAIN exps : exps'[h].status = exps[h].status /\ exps'[h].confidence = exps[h].confidence
    BY <1>2, <2>1 DEF Linked
  <2>3. gen'.pc = gen.pc /\ gen'.work = gen.work
    BY <1>2, <2>1
  <2> QED BY <1>2, <2>1, <2>2, <2>3, OthersKeepRates
<1>9. CASE cmd_placements_generate
  <2> DEFINE W == {h \in Groups : Eligible(h)}
             work == [g \in W |-> [inputs |-> _fingerprint(g), ranked |-> Ranked(g)]]
  <2>1. /\ gen' = [pc |-> IF DOMAIN work = {} THEN "idle" ELSE "write", work |-> work, calm |-> TRUE]
        /\ UNCHANGED <<exps, sets>>
    BY <1>9 DEF cmd_placements_generate, extractVars
  <2>2. DOMAIN work = W /\ (W = {} => work = <<>>)
    OBVIOUS
  <2> HIDE DEF work, W
  <2>3. gen'.pc = (IF DOMAIN work = {} THEN "idle" ELSE "write") /\ gen'.work = work
    BY <2>1
  <2> QED BY <1>2, <2>1, <2>2, <2>3 DEF Rated
<1>10. ASSUME NEW g \in DOMAIN gen.work, Keep(g) \/ replace_placement_proposal_set(g) PROVE Rated'
  <2>1. exps' = exps /\ DOMAIN sets' \subseteq DOMAIN exps
    BY <1>2, <1>10 DEF Keep, replace_placement_proposal_set, Belongs, Rated, extractVars
  <2>2. CASE DOMAIN gen.work = {g}
    <3>1. gen'.pc = "idle" /\ gen'.work = <<>>
      BY <1>10, <2>2 DEF Keep, replace_placement_proposal_set, Done, NotGenerating
    <3> QED BY <1>2, <2>1, <3>1 DEF Rated
  <2>3. CASE DOMAIN gen.work # {g}
    <3>1. gen' = [gen EXCEPT !.work = [h \in DOMAIN gen.work \ {g} |-> gen.work[h]]]
      BY <1>10, <2>3 DEF Keep, replace_placement_proposal_set, Done
    <3>2. gen'.pc = gen.pc /\ DOMAIN gen'.work = DOMAIN gen.work \ {g} /\ gen.pc # "idle"
      BY <1>2, <1>10, <3>1 DEF TInv, Proposed
    <3>3. DOMAIN gen'.work # {}
      BY <1>10, <2>3, <3>2
    <3> QED BY <1>2, <2>1, <3>2, <3>3 DEF Rated
  <2> QED BY <2>2, <2>3
<1>11. CASE (\E g : Refuse(g)) \/ CrashGenerate
  BY <1>2, <1>11, OthersKeepRates DEF Refuse, CrashGenerate, extractVars
<1>12. CASE ImportStep /\ UNCHANGED <<extractVars, stageSix>>
  BY <1>3, <1>12 DEF extractVars, stageSix
<1>13. CASE UNCHANGED vars
  BY <1>3, <1>13 DEF vars, extractVars, stageSix
<1> QED
  BY <1>4, <1>5, <1>6, <1>7, <1>8, <1>9, <1>10, <1>11, <1>12, <1>13 DEF Next, Write

\* The tables of Stages 1-6 and the locals of their commands keep their shape, for
\* any sessions, transcripts and bounds: no two trajectories share a number, no state
\* is left of a trajectory that is gone, a confidence is a share, proposals are of
\* experiences that have a row.
THEOREM TypesOfPipeline == Spec => []TypeOK
<1>1. ASSUME PInv PROVE TypeOK
  <2>1. /\ EInv /\ RInv /\ IInv /\ Listing /\ Rated
        /\ \A s \in Sessions : MatchedAt(s)
    BY <1>1 DEF PInv, KInv, EInv
  <2>2. /\ files \in [Sessions -> Nat]
        /\ \A s \in Sessions : files[s] \in 1 .. Versions[s] /\ Versions[s] \in Nat
    BY <2>1, SessionsAssumption DEF IInv, Shaped
  <2>3. \A s \in Sessions : rows[s] # None => rows[s] \in [status : Statuses, hash : 1 .. Versions[s]]
    <3>1. \A s \in Sessions : rows[s] # None => rows[s] \in [status : Statuses, hash : 1 .. files[s]]
      BY <2>1 DEF RInv, Recorded
    <3>2. \A s \in Sessions : 1 .. files[s] \subseteq 1 .. Versions[s]
      BY <2>2
    <3> QED BY <3>1, <3>2
  <2>4. \A s \in Sessions : HasTrajectory(s) => trajs[s].version \in 1 .. Versions[s] /\ trajs[s].number \in Nat
    <3>1. \A s \in Sessions : trajs[s].version \in 0 .. Versions[s]
      BY <2>1, StoredVersions
    <3>2. \A s \in Sessions : HasTrajectory(s) => trajs[s].number \in Numbers
      BY DEF Numbers
    <3>3. Numbers \subseteq Nat
      BY <2>1 DEF RInv, Numbered
    <3>4. ASSUME NEW s \in Sessions, HasTrajectory(s) PROVE trajs[s].version \in 1 .. Versions[s]
      <4>1. trajs[s].version \in 0 .. Versions[s] /\ Versions[s] \in Nat /\ trajs[s].version # 0
        BY <2>2, <3>1, <3>4 DEF HasTrajectory
      <4> QED BY <4>1
    <3> QED BY <3>2, <3>3, <3>4
  <2>5. /\ \A s, t \in Sessions : s # t /\ HasTrajectory(s) /\ HasTrajectory(t) => trajs[s].number # trajs[t].number
        /\ marker \subseteq Roots /\ projects \subseteq Roots
        /\ imp.pc \in {"idle", "take", "parse", "persist", "finish"}
        /\ imp.pc = "idle" \/ imp.left # <<>>
    BY <2>1 DEF RInv, Recorded, Numbered
  <2>6. \A s \in Sessions : occs[s] \in 0 .. Versions[s] /\ (extracted[s] # None => HasTrajectory(s))
    BY <2>1 DEF EInv, Detected, MatchedAt
  <2>7. \A g \in DOMAIN exps :
            /\ exps[g].status \in {"candidate", "needs_more_evidence"}
            /\ exps[g].confidence \in 0 .. 100
            /\ exps[g].evidence \subseteq Sessions \X Classes
    BY <2>1 DEF Rated, EInv, Linked
  <2>8. /\ ext.pc \in {"idle", "scan", "detect", "state", "load", "rebuild"}
        /\ ext.pc \in {"scan", "detect", "state"} => ext.left # <<>>
    BY <2>1 DEF Listing
  <2>9. (gen.pc = "idle" <=> gen.work = <<>>) /\ DOMAIN sets \subseteq DOMAIN exps
    BY <2>1 DEF Rated
  <2> QED BY <2>2, <2>3, <2>4, <2>5, <2>6, <2>7, <2>8, <2>9 DEF TypeOK
<1> QED BY <1>1, PInvHoldsInitially, PInvIsInductive, PTL DEF Spec

-----------------------------------------------------------------------------
\* Scores.

LEMMA Ranges ==
    ASSUME NEW f, Scored(f)
    PROVE  /\ f.supported \in 0 .. 12 /\ f.contradicted \in 0 .. 12 /\ f.recurrence \in 0 .. 12
           /\ f.breadth \in 0 .. 12 /\ f.concentration \in 0 .. 12 /\ f.complexity \in 0 .. 12
           /\ f.actionability \in 0 .. 100 /\ f.confidence \in 0 .. 100
           /\ f.consistency \in Int /\ f.scope.share \in Nat /\ f.scope.specificity \in Nat
           /\ f.support \in Nat /\ (f.support >= 2 => f.recurrence >= 2)
BY DEF Scored, AtMost

LEMMA ClipRounds ==
    ASSUME NEW x \in Int
    PROVE  /\ Clip(x) \in Int
           /\ x <= GlobalCap => Clip(x) <= 2400
           /\ x >= 28812 => Clip(x) > 2400
BY DEF Clip, Unit, GlobalCap

LEMMA PartsAreIntegers ==
    ASSUME NEW f, Scored(f), NEW w \in Int
    PROVE  /\ Part(w, f.supported) \in Int /\ Part(w, 12 - f.supported) \in Int
           /\ Part(w, f.contradicted) \in Int /\ Part(w, f.recurrence) \in Int
           /\ Part(w, f.breadth) \in Int /\ Part(w, f.concentration) \in Int
           /\ Part(w, f.complexity) \in Int /\ Part(w, f.consistency) \in Int
           /\ Percent(w, f.actionability) \in Int /\ Percent(w, 100 - f.actionability) \in Int
           /\ Percent(w, f.confidence) \in Int /\ Percent(w, 100 - f.confidence) \in Int
           /\ ScopeSignal(w, f) \in Int
<1>1. \A x \in Int : Part(w, x) \in Int /\ Percent(w, x) \in Int
  BY DEF Part, Percent
<1>2. \A x, y \in Int : w * x * y \in Int
  OBVIOUS
<1>3. f.scope.share \in Int /\ f.scope.specificity \in Int
  BY Ranges
<1>4. ScopeSignal(w, f) \in Int
  BY <1>2, <1>3 DEF ScopeSignal
<1>5. /\ f.supported \in Int /\ 12 - f.supported \in Int /\ f.contradicted \in Int
      /\ f.recurrence \in Int /\ f.breadth \in Int /\ f.concentration \in Int
      /\ f.complexity \in Int /\ f.consistency \in Int /\ f.actionability \in Int
      /\ 100 - f.actionability \in Int /\ f.confidence \in Int /\ 100 - f.confidence \in Int
  BY Ranges
<1> QED BY <1>1, <1>4, <1>5

LEMMA RawIsAnInteger ==
    ASSUME NEW f, Scored(f), NEW kind \in PlacementTypes PROVE raw(kind, f) \in Int
<1>1. CASE kind = "ignore"
  <2>1. /\ Part(35, 12 - f.supported) \in Int /\ Part(40, f.contradicted) \in Int
        /\ Percent(15, 100 - f.actionability) \in Int
        /\ Percent(10, 100 - f.confidence) \in Int
    BY PartsAreIntegers
  <2> QED BY <1>1, <2>1 DEF raw
<1>2. CASE kind = "global_rule"
  <2>1. /\ Part(24, f.supported) \in Int /\ Part(22, f.recurrence) \in Int
        /\ Part(35, f.breadth) \in Int /\ Percent(14, f.actionability) \in Int
        /\ Percent(10, f.confidence) \in Int /\ Part(10, f.concentration) \in Int
        /\ ScopeSignal(15, f) \in Int /\ Part(20, f.contradicted) \in Int
    BY PartsAreIntegers
  <2> QED BY <1>2, <2>1 DEF raw
<1>3. CASE kind = "project_rule"
  <2>1. /\ Part(20, f.supported) \in Int /\ Part(20, f.recurrence) \in Int
        /\ Part(25, f.concentration) \in Int /\ Percent(15, f.actionability) \in Int
        /\ Percent(10, f.confidence) \in Int /\ ScopeSignal(12, f) \in Int
        /\ Part(25, f.breadth) \in Int /\ Part(40, f.contradicted) \in Int
    BY PartsAreIntegers
  <2> QED BY <1>3, <2>1 DEF raw
<1>4. CASE kind = "scoped_rule"
  <2>1. /\ Part(16, f.supported) \in Int /\ Part(10, f.recurrence) \in Int
        /\ ScopeSignal(40, f) \in Int /\ Percent(12, f.actionability) \in Int
        /\ Percent(7, f.confidence) \in Int /\ Part(5, f.consistency) \in Int
        /\ Part(35, f.contradicted) \in Int
    BY PartsAreIntegers
  <2> QED BY <1>4, <2>1 DEF raw
<1>5. CASE kind = "skill"
  <2>1. /\ Part(15, f.supported) \in Int /\ Part(10, f.recurrence) \in Int
        /\ Part(50, f.complexity) \in Int /\ Percent(12, f.actionability) \in Int
        /\ Percent(8, f.confidence) \in Int /\ Part(10, f.contradicted) \in Int
    BY PartsAreIntegers
  <2> QED BY <1>5, <2>1 DEF raw
<1> QED BY <1>1, <1>2, <1>3, <1>4, <1>5 DEF PlacementTypes, Kinds

LEMMA ScoresAreIntegers ==
    ASSUME NEW f, Scored(f), NEW kind \in PlacementTypes PROVE score(kind, f) \in Int
<1>1. AtMost(raw(kind, f), GlobalCap) \in Int
  BY RawIsAnInteger DEF AtMost, GlobalCap
<1> QED BY <1>1, RawIsAnInteger, ClipRounds DEF score

LEMMA Capped ==
    ASSUME NEW f, Scored(f), ~ f.eligible PROVE score("global_rule", f) <= 2400
<1>1. raw("global_rule", f) \in Int
  BY RawIsAnInteger DEF PlacementTypes, Kinds
<1>2. /\ AtMost(raw("global_rule", f), GlobalCap) \in Int
      /\ AtMost(raw("global_rule", f), GlobalCap) <= GlobalCap
  BY <1>1 DEF AtMost, GlobalCap
<1> QED BY <1>2, ClipRounds DEF score

\* The two sums together, of whatever shares.
Both(s, c, r, x, a, k, low) ==
    (12000 + 3500 * (12 - s) + 4000 * c + 180 * (100 - a) + 120 * (100 - k) + low)
    + (3600 + 1500 * s + 1000 * r + 5000 * x + 144 * a + 96 * k - 1000 * c)

LEMMA IgnoredOrSkill ==
    ASSUME NEW f, Scored(f)
    PROVE  score("ignore", f) > 2400 \/ score("skill", f) > 2400
<1> DEFINE low == IF f.support < 2 THEN 12000 ELSE 0
<1>1. /\ raw("ignore", f) = 12000 + 3500 * (12 - f.supported) + 4000 * f.contradicted
                    + 180 * (100 - f.actionability) + 120 * (100 - f.confidence) + low
      /\ raw("skill", f) = 3600 + 1500 * f.supported + 1000 * f.recurrence + 5000 * f.complexity
                    + 144 * f.actionability + 96 * f.confidence - 1000 * f.contradicted
  <2>1. raw("ignore", f) = 12000 + Part(35, 12 - f.supported) + Part(40, f.contradicted)
            + Percent(15, 100 - f.actionability) + Percent(10, 100 - f.confidence) + low
    <3>1. CASE f.support < 2
      BY <3>1 DEF raw
    <3>2. CASE ~ (f.support < 2)
      BY <3>2 DEF raw
    <3> QED BY <3>1, <3>2
  <2>2. raw("skill", f) = 3600 + Part(15, f.supported) + Part(10, f.recurrence) + Part(50, f.complexity)
            + Percent(12, f.actionability) + Percent(8, f.confidence) - Part(10, f.contradicted)
    BY DEF raw
  <2>3. /\ Part(35, 12 - f.supported) = 3500 * (12 - f.supported)
        /\ Part(40, f.contradicted) = 4000 * f.contradicted
        /\ Percent(15, 100 - f.actionability) = 180 * (100 - f.actionability)
        /\ Percent(10, 100 - f.confidence) = 120 * (100 - f.confidence)
    BY Ranges DEF Part, Percent
  <2>4. /\ Part(15, f.supported) = 1500 * f.supported /\ Part(10, f.recurrence) = 1000 * f.recurrence
        /\ Part(50, f.complexity) = 5000 * f.complexity /\ Part(10, f.contradicted) = 1000 * f.contradicted
        /\ Percent(12, f.actionability) = 144 * f.actionability
        /\ Percent(8, f.confidence) = 96 * f.confidence
    BY Ranges DEF Part, Percent
  <2> HIDE DEF low
  <2> QED BY <2>1, <2>2, <2>3, <2>4
<1>2. low \in {0, 12000} /\ (low = 0 => f.recurrence >= 2)
  BY Ranges
<1> HIDE DEF low
<1>3. raw("ignore", f) + raw("skill", f) >= 59600
  <2>1. Both(f.supported, f.contradicted, f.recurrence, f.complexity,
             f.actionability, f.confidence, low) >= 59600
    <3>1. PICK s \in 0 .. 12 : s = f.supported
      BY Ranges
    <3>2. PICK c \in 0 .. 12 : c = f.contradicted
      BY Ranges
    <3>3. PICK r \in 0 .. 12 : r = f.recurrence
      BY Ranges
    <3>4. PICK x \in 0 .. 12 : x = f.complexity
      BY Ranges
    <3>5. PICK a \in 0 .. 100 : a = f.actionability
      BY Ranges
    <3>6. PICK k \in 0 .. 100 : k = f.confidence
      BY Ranges
    <3>7. Both(s, c, r, x, a, k, low) >= 59600
      <4>1. low = 0 => r >= 2
        BY <1>2, <3>3
      <4>2. /\ s \in 0 .. 12 /\ c \in 0 .. 12 /\ r \in 0 .. 12 /\ x \in 0 .. 12
            /\ a \in 0 .. 100 /\ k \in 0 .. 100 /\ low \in {0, 12000}
        BY <1>2, <3>1, <3>2, <3>3, <3>4, <3>5, <3>6
      <4> QED BY ONLY <4>1, <4>2 DEF Both
    <3> QED BY <3>1, <3>2, <3>3, <3>4, <3>5, <3>6, <3>7
  <2> QED BY <1>1, <2>1 DEF Both
<1>4. raw("ignore", f) \in Int /\ raw("skill", f) \in Int
  BY RawIsAnInteger DEF PlacementTypes, Kinds
<1>5. raw("ignore", f) >= 28812 \/ raw("skill", f) >= 28812
  BY <1>3, <1>4
<1> QED BY <1>4, <1>5, ClipRounds DEF score

\* A kind that another precedes is not first, and there is a first one.
LEMMA FirstIsUnpreceded ==
    ASSUME NEW f, \A i \in 1 .. 5 : score(Kinds[i], f) \in Int,
           NEW i \in 1 .. 5, NEW j \in 1 .. 5, i # j, Precedes(f, j, i)
    PROVE  build_proposals(f)[1] # Kinds[i]
<1>1. \A k \in 1 .. 5 : IsFiniteSet({l \in 1 .. 5 : Precedes(f, l, k)})
  BY FS_Interval, FS_Subset, SMTT(30)
<1>2. PICK top \in 1 .. 5 : \A k \in 1 .. 5 : Precedes(f, k, top) <=> k = top
  BY DEF Precedes
<1>3. Rank(f, top) = 1
  <2>1. {k \in 1 .. 5 : Precedes(f, k, top)} = {top}
    BY <1>2
  <2> QED BY <2>1, FS_Singleton DEF Rank
<1>4. Rank(f, i) # 1
  <2>1. SUFFICES ASSUME Rank(f, i) = 1 PROVE FALSE
    OBVIOUS
  <2>2. PICK k : {l \in 1 .. 5 : Precedes(f, l, i)} = {k}
    BY <1>1, <2>1, FS_Singleton DEF Rank
  <2>3. Precedes(f, i, i)
    BY DEF Precedes
  <2> QED BY <2>2, <2>3
<1>5. build_proposals(f)[1] = Kinds[CHOOSE k \in 1 .. 5 : Rank(f, k) = 1]
  BY DEF build_proposals
<1>6. PICK k \in 1 .. 5 : build_proposals(f)[1] = Kinds[k] /\ k # i
  BY <1>3, <1>4, <1>5
<1> QED BY <1>6 DEF Kinds

\* Whatever its features, a pattern without balanced support of several projects
\* is not ranked first as a global rule (docs/stages/STAGE_6_REPORT.md:112).
THEOREM LocalIsNeverGlobal ==
    ASSUME NEW f, Scored(f), ~ f.eligible
    PROVE  build_proposals(f)[1] # "global_rule"
<1>1. \A i \in 1 .. 5 : score(Kinds[i], f) \in Int
  BY ScoresAreIntegers DEF PlacementTypes
<1>2. Kinds[1] = "ignore" /\ Kinds[2] = "global_rule" /\ Kinds[5] = "skill"
  BY DEF Kinds
<1>3. \E j \in {1, 5} : Precedes(f, j, 2)
  <2>1. score(Kinds[1], f) \in Int /\ score(Kinds[2], f) \in Int /\ score(Kinds[5], f) \in Int
    BY <1>1
  <2>2. score(Kinds[1], f) > score(Kinds[2], f) \/ score(Kinds[5], f) > score(Kinds[2], f)
    BY <1>2, <2>1, Capped, IgnoredOrSkill
  <2> QED BY <2>2 DEF Precedes
<1> QED BY <1>1, <1>2, <1>3, FirstIsUnpreceded
=============================================================================
