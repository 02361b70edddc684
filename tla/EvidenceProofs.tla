---------------------------- MODULE EvidenceProofs ----------------------------
(***************************************************************************)
(* Stage 5 for any transcripts, however imports, extractions and crashes    *)
(* overlap.                                                                *)
(*                                                                         *)
(* EInv: no evidence of an experience refers to an occurrence that is gone. *)
(* Every step that deletes occurrences of a session deletes the evidence    *)
(* of that session with them; the rebuild, which works on what it loaded    *)
(* earlier, writes only evidence of occurrences that are still there.       *)
(*                                                                         *)
(* KInv: a trajectory an extraction skips is detected.  It follows the row  *)
(* of a session through the import beside the extraction (RInv) and every   *)
(* item the extraction has listed: its hash is no newer than the row's, and *)
(* the occurrences written for it are those of the trajectory for as long   *)
(* as nothing has been written to the row.                                  *)
(*                                                                         *)
(* CInv: an extraction of everything that no import came in between has     *)
(* seen, detected and loaded each trajectory as it is stored, so that its   *)
(* grouping is the one the reference computes from the trajectories.        *)
(***************************************************************************)
EXTENDS ImportProofs, FiniteSetTheorems, FunctionTheorems

LEMMA RepairsAreClassified ==
    ASSUME NEW evs, NEW o \in failure_repair(evs)
    PROVE  \E key, first, last, ctx, ante :
                o = Occurrence("failure_repair_success", key, first, last, Class(ctx), ante)
BY ZenonT(40) DEF failure_repair

LEMMA ClassesOfOccurrences ==
    ASSUME NEW transcript, NEW o \in detect_occurrences(transcript)
    PROVE  o.class \in {"support", "ambiguous"}
<1> DEFINE evs == transcript.events
<1>1. \A pattern, key, first, last, class, ante :
            Occurrence(pattern, key, first, last, class, ante).class = class
  BY DEF Occurrence
<1>2. \A ctx : Class(ctx) \in {"support", "ambiguous"}
  BY DEF Class
<1>3. CASE o \in failure_repair(evs)
  <2>1. \E key, first, last, ctx, ante :
            o = Occurrence("failure_repair_success", key, first, last, Class(ctx), ante)
    BY <1>3, RepairsAreClassified
  <2> QED BY <2>1, <1>1, <1>2
<1>4. CASE o \in human_correction_repair(evs)
  <2>1. \E key, first, last, ctx, ante :
            o = Occurrence("human_correction_repair", key, first, last, Class(ctx), ante)
    BY <1>4 DEF human_correction_repair
  <2> QED BY <2>1, <1>1, <1>2
<1>5. CASE o \in repeated_failure(evs, transcript.status)
  <2>1. \E key, first, last, ante : \E class \in {"support", "ambiguous"} :
            o = Occurrence("repeated_failure", key, first, last, class, ante)
    BY <1>5 DEF repeated_failure
  <2> QED BY <2>1, <1>1
<1>6. CASE o \in file_change_pattern(evs, transcript.status)
  <2>1. \E key, first, last, ante :
            o = Occurrence("file_change_pattern", key, first, last, "support", ante)
    BY <1>6 DEF file_change_pattern
  <2> QED BY <2>1, <1>1
<1> QED BY <1>3, <1>4, <1>5, <1>6 DEF detect_occurrences, Emitted

LEMMA LabelsOfItems ==
    ASSUME NEW s \in Sessions, NEW v \in 0 .. Versions[s], NEW o \in Items[s][v]
    PROVE  o.session = s /\ o.class \in {"support", "ambiguous"}
<1>1. PICK p \in detect_occurrences(Transcript[s][v]) : o = Item(p, s, RootOf[s])
  BY DEF Items
<1> QED BY <1>1, ClassesOfOccurrences DEF Item

LEMMA EvidenceOfExperiences ==
    ASSUME NEW items, NEW profiles, NEW project,
           NEW g \in DOMAIN build_experiences(items, profiles, project),
           NEW o \in build_experiences(items, profiles, project)[g].evidence
    PROVE  \/ o \in items /\ o.key = g
           \/ o.class = "contradiction" /\ o.session \in DOMAIN profiles
<1>1. \A key, positive : \A p \in synthesize_contradictions(key, positive, profiles, project) :
            p.class = "contradiction" /\ p.session \in DOMAIN profiles
  BY DEF synthesize_contradictions, Occurrence, Item
<1> QED BY <1>1 DEF build_experiences

-----------------------------------------------------------------------------
\* The versions Stage 5 keeps and carries are versions of the transcripts.
Detected ==
    /\ occs = [s \in Sessions |-> occs[s]]
    /\ ext = [pc |-> ext.pc, filter |-> ext.filter, rebuild |-> ext.rebuild, left |-> ext.left,
              seen |-> ext.seen, loaded |-> ext.loaded, calm |-> ext.calm]
    /\ ext.seen = [s \in Sessions |-> ext.seen[s]]
    /\ \A s \in Sessions : /\ occs[s] \in 0 .. Versions[s]
                          /\ ext.seen[s] \in 0 .. Versions[s]
                          /\ ext.loaded[s] \in 0 .. Versions[s]

Evident(g, e) == e[2] = "contradiction" \/ \E o \in Items[e[1]][occs[e[1]]] : o.key = g /\ o.class = e[2]

\* Evidence names a session and a classification, and stands.
Linked ==
    \A g \in DOMAIN exps :
        /\ exps[g] = [status |-> exps[g].status, confidence |-> exps[g].confidence,
                      review |-> exps[g].review, evidence |-> exps[g].evidence]
        /\ exps[g].evidence \subseteq Sessions \X Classes
        /\ \A e \in exps[g].evidence : Evident(g, e)

EInv == IInv /\ Detected /\ Linked

LEMMA EInvHoldsInitially == ASSUME Init PROVE EInv
<1>1. Detected
  BY SessionsAssumption DEF Init, ExtractInit, Detected, NotExtracting
<1>2. Linked
  BY DEF Init, ExtractInit, Linked
<1> QED BY <1>1, <1>2, IInvHoldsInitially DEF EInv

\* Deleting the links of the sessions whose occurrences go keeps the rest standing.
LEMMA UnlinkedKeeps ==
    ASSUME Linked, NEW sessions, NEW classes, Unlinked(sessions, classes),
           Classes \ {"contradiction"} \subseteq classes,
           \A s \in Sessions \ sessions : occs'[s] = occs[s]
    PROVE  Linked'
<1> SUFFICES ASSUME NEW g \in DOMAIN exps'
             PROVE  (/\ exps[g] = [status |-> exps[g].status, confidence |-> exps[g].confidence,
                                   review |-> exps[g].review, evidence |-> exps[g].evidence]
                     /\ exps[g].evidence \subseteq Sessions \X Classes
                     /\ \A e \in exps[g].evidence : Evident(g, e))'
  BY DEF Linked
<1>1. /\ g \in DOMAIN exps
      /\ exps'[g] = [exps[g] EXCEPT !.evidence = @ \ (sessions \X classes)]
  BY DEF Unlinked
<1>2. /\ exps[g] = [status |-> exps[g].status, confidence |-> exps[g].confidence,
                    review |-> exps[g].review, evidence |-> exps[g].evidence]
      /\ exps[g].evidence \subseteq Sessions \X Classes
      /\ \A e \in exps[g].evidence : Evident(g, e)
  BY <1>1 DEF Linked
<1>3. exps'[g] = [status |-> exps[g].status, confidence |-> exps[g].confidence,
                  review |-> exps[g].review, evidence |-> exps[g].evidence \ (sessions \X classes)]
  BY <1>1, <1>2
<1>4. ASSUME NEW e \in exps'[g].evidence PROVE Evident(g, e)'
  <2>1. e \in exps[g].evidence /\ e \notin sessions \X classes /\ e \in Sessions \X Classes
    BY <1>2, <1>3
  <2>2. CASE e[2] = "contradiction"
    BY <2>2 DEF Evident
  <2>3. CASE e[2] # "contradiction"
    <3>1. e[1] \in Sessions \ sessions
      BY <2>1, <2>3
    <3>2. occs'[e[1]] = occs[e[1]]
      BY <3>1
    <3> QED BY <1>2, <2>1, <3>2 DEF Evident, Items
  <2> QED BY <2>2, <2>3
<1> QED BY <1>2, <1>3, <1>4

\* The rebuild links to occurrences it loaded and that are still as it loaded them.
LEMMA RebuildLinks ==
    ASSUME EInv, rebuild_experiences PROVE Linked'
<1>1. /\ exps' = [g \in DOMAIN Grouped |->
                    [status |-> Grouped[g].status, confidence |-> Grouped[g].confidence,
                     review |-> Review(g), evidence |-> Links(Grouped[g].evidence)]]
      /\ occs' = occs
      /\ ~ DanglingEvidence
  BY DEF rebuild_experiences
<1>2. ASSUME NEW g \in DOMAIN Grouped, NEW o \in Grouped[g].evidence
      PROVE  <<o.session, o.class>> \in Sessions \X Classes /\ Evident(g, <<o.session, o.class>>)
  <2>1. \/ \E s \in Sessions : o \in Items[s][ext.loaded[s]] /\ o.key = g
        \/ o.class = "contradiction" /\ o.session \in Sessions
    BY <1>2, EvidenceOfExperiences DEF Grouped
  <2>2. CASE o.class = "contradiction" /\ o.session \in Sessions
    BY <2>2 DEF Evident, Classes
  <2>3. ASSUME NEW s \in Sessions, o \in Items[s][ext.loaded[s]], o.key = g
        PROVE  <<o.session, o.class>> \in Sessions \X Classes /\ Evident(g, <<o.session, o.class>>)
    <3>1. o.session = s /\ o.class \in {"support", "ambiguous"}
      BY <2>3, LabelsOfItems DEF EInv, Detected
    <3>2. occs[s] = ext.loaded[s]
      BY <1>1, <1>2, <2>3, <3>1 DEF DanglingEvidence
    <3> QED BY <2>3, <3>1, <3>2 DEF Evident, Classes
  <2> QED BY <2>1, <2>2, <2>3
<1>3. SUFFICES ASSUME NEW g \in DOMAIN exps'
               PROVE  (/\ exps[g] = [status |-> exps[g].status, confidence |-> exps[g].confidence,
                                     review |-> exps[g].review, evidence |-> exps[g].evidence]
                       /\ exps[g].evidence \subseteq Sessions \X Classes
                       /\ \A e \in exps[g].evidence : Evident(g, e))'
  BY DEF Linked
<1>4. /\ g \in DOMAIN Grouped
      /\ exps'[g] = [status |-> Grouped[g].status, confidence |-> Grouped[g].confidence,
                     review |-> Review(g), evidence |-> Links(Grouped[g].evidence)]
  BY <1>1
<1>5. ASSUME NEW e \in Links(Grouped[g].evidence)
      PROVE  e \in Sessions \X Classes /\ Evident(g, e)'
  <2>1. PICK o \in Grouped[g].evidence : e = <<o.session, o.class>>
    BY <1>5 DEF Links
  <2>2. e \in Sessions \X Classes /\ Evident(g, e)
    BY <1>2, <1>4, <2>1
  <2> QED BY <1>1, <2>2 DEF Evident, Items
<1> QED BY <1>4, <1>5

\* Steps that leave Stage 5 alone, or only a local of its command.
LEMMA OthersKeepEvidence ==
    ASSUME Linked, UNCHANGED <<occs, exps>> PROVE Linked'
<1>1. \A g, e : Evident(g, e)' <=> Evident(g, e)
  BY DEF Evident, Items
<1> QED BY <1>1 DEF Linked

LEMMA EInvIsInductive == ASSUME EInv, [Next]_vars PROVE EInv'
<1>1. IInv'
  BY IInvIsInductive DEF EInv
<1>2. \A s \in Sessions : trajs[s].version \in 0 .. Versions[s] /\ 0 \in 0 .. Versions[s]
  BY SessionsAssumption DEF EInv, IInv, Shaped, Honest
<1>3. CASE Persist
  <2>1. /\ occs' = [occs EXCEPT ![Session] = 0] /\ Unlinked({Session}, Classes)
        /\ ext' = [ext EXCEPT !.calm = FALSE]
    BY <1>3 DEF Persist, CascadeTrajectory
  <2>2. Detected'
    BY <1>2, <2>1 DEF EInv, Detected
  <2>3. Linked'
    BY <2>1, UnlinkedKeeps DEF EInv, Detected
  <2> QED BY <1>1, <2>2, <2>3 DEF EInv
<1>4. ASSUME NEW f, NEW r, Extract(f, r) PROVE EInv'
  <2>1. \/ clear_experience_data
        \/ UNCHANGED <<occs, exps>>
    BY <1>4 DEF Extract, cmd_experiences_extract
  <2>2. ext' = [pc |-> ext'.pc, filter |-> ext'.filter, rebuild |-> ext'.rebuild, left |-> ext'.left,
                seen |-> [s \in Sessions |-> 0], loaded |-> [s \in Sessions |-> 0], calm |-> ext'.calm]
    BY <1>4 DEF Extract, cmd_experiences_extract, NotExtracting
  <2>3. occs' = [s \in Sessions |-> occs'[s]] /\ \A s \in Sessions : occs'[s] \in 0 .. Versions[s]
    BY <1>2, <2>1 DEF clear_experience_data, EInv, Detected
  <2>4. Detected'
    BY <1>2, <2>2, <2>3 DEF Detected
  <2>5. Linked'
    BY <2>1, UnlinkedKeeps, OthersKeepEvidence DEF clear_experience_data, EInv
  <2> QED BY <1>1, <2>4, <2>5 DEF EInv
<1>5. CASE Scan
  <2>1. /\ UNCHANGED <<occs, exps>>
        /\ ext' \in [pc : {ext'.pc}, filter : {ext.filter}, rebuild : {ext.rebuild}, left : {ext'.left},
                      seen : {[ext.seen EXCEPT ![Current.session] = trajs[Current.session].version]},
                      loaded : {ext.loaded}, calm : {ext.calm}]
    BY <1>5 DEF Scan, Onward, EInv, Detected
  <2>2. Detected'
    BY <1>2, <2>1 DEF EInv, Detected
  <2> QED BY <1>1, <2>1, <2>2, OthersKeepEvidence DEF EInv
<1>6. CASE replace_trajectory_occurrences
  <2>1. /\ occs' = [occs EXCEPT ![Current.session] = ext.seen[Current.session]]
        /\ Unlinked({Current.session}, Classes \ {"contradiction"})
        /\ ext' = [ext EXCEPT !.pc = "state"]
    BY <1>6 DEF replace_trajectory_occurrences
  <2>2. Detected'
    BY <2>1 DEF EInv, Detected
  <2>3. Linked'
    BY <2>1, UnlinkedKeeps DEF EInv, Detected
  <2> QED BY <1>1, <2>2, <2>3 DEF EInv
<1>7. CASE set_extraction_state
  <2>1. Detected' /\ UNCHANGED <<occs, exps>>
    BY <1>7 DEF set_extraction_state, Onward, EInv, Detected
  <2> QED BY <1>1, <2>1, OthersKeepEvidence DEF EInv
<1>8. CASE load_occurrences
  <2>1. Detected' /\ UNCHANGED <<occs, exps>>
    BY <1>8 DEF load_occurrences, EInv, Detected
  <2> QED BY <1>1, <2>1, OthersKeepEvidence DEF EInv
<1>9. CASE RebuildFails \/ CrashExtract
  <2>1. Detected' /\ UNCHANGED <<occs, exps>>
    BY <1>2, <1>9 DEF RebuildFails, CrashExtract, NotExtracting, EInv, Detected
  <2> QED BY <1>1, <2>1, OthersKeepEvidence DEF EInv
<1>10. CASE Rebuild
  <2>1. rebuild_experiences
    BY <1>10 DEF Rebuild
  <2>2. Detected'
    BY <1>2, <2>1 DEF rebuild_experiences, NotExtracting, EInv, Detected
  <2> QED BY <1>1, <2>1, <2>2, RebuildLinks DEF EInv
<1>11. ASSUME NEW g, NEW status, set_experience_review(g, status) PROVE EInv'
  <2>1. /\ g \in DOMAIN exps /\ exps' = [exps EXCEPT ![g].review = status]
        /\ UNCHANGED <<occs, ext>>
    BY <1>11 DEF set_experience_review
  <2>2. Detected'
    BY <2>1 DEF EInv, Detected
  <2>3. Linked'
    <3>1. \A h, e : Evident(h, e)' <=> Evident(h, e)
      BY <2>1 DEF Evident, Items
    <3>2. ASSUME NEW h \in DOMAIN exps'
          PROVE  /\ h \in DOMAIN exps /\ exps'[h].evidence = exps[h].evidence
                 /\ exps'[h] = [status |-> exps[h].status, confidence |-> exps[h].confidence,
                                review |-> exps'[h].review, evidence |-> exps[h].evidence]
      BY <2>1 DEF EInv, Linked
    <3> QED BY <3>1, <3>2 DEF EInv, Linked
  <2> QED BY <1>1, <2>2, <2>3 DEF EInv
<1>12. CASE UNCHANGED <<occs, exps, ext>>
  <2>1. Detected'
    BY <1>12 DEF EInv, Detected
  <2> QED BY <1>1, <1>12, <2>1, OthersKeepEvidence DEF EInv
<1> QED
  BY <1>3, <1>4, <1>5, <1>6, <1>7, <1>8, <1>9, <1>10, <1>11, <1>12
  DEF Next, ExtractStep, cmd_placements_generate, Write, Keep, replace_placement_proposal_set,
      Refuse, CrashGenerate, extractVars, vars

\* For any transcripts and any interleaving of imports, extractions, triage and
\* crashes, evidence refers to occurrences that are there (0002_experience.sql:68-73).
THEOREM EvidenceAlwaysStands == Spec => []EvidenceStands
<1>1. EInv => EvidenceStands
  BY DEF EInv, Linked, Evident, EvidenceStands
<1> QED BY <1>1, EInvHoldsInitially, EInvIsInductive, PTL DEF Spec

-----------------------------------------------------------------------------
LEMMA SessionsAreFinite == IsFiniteSet(Sessions)
<1> DEFINE f == [i \in 1 .. Len(Discovered) |-> Discovered[i]]
<1>1. Len(Discovered) \in Nat /\ DOMAIN Discovered = 1 .. Len(Discovered)
  BY SessionsAssumption
<1>2. f \in Surjection(1 .. Len(Discovered), Sessions)
  BY <1>1 DEF Sessions, Surjection
<1>3. ExistsSurjection(1 .. Len(Discovered), Sessions)
  BY <1>2 DEF ExistsSurjection
<1> QED BY <1>1, <1>3, FS_NatSurjection

\* Sessions with numbers of their own can be put in the order of these.
LEMMA OrderedIsAnOrder ==
    ASSUME NEW listed, IsFiniteSet(listed),
           \A s \in listed : trajs[s].number \in Nat,
           \A s, t \in listed : s # t => trajs[s].number # trajs[t].number
    PROVE  /\ Ordered(listed) \in [1 .. Cardinality(listed) -> listed]
           /\ \A i, j \in 1 .. Cardinality(listed) : i # j => Ordered(listed)[i] # Ordered(listed)[j]
           /\ \A s \in listed : \E i \in 1 .. Cardinality(listed) : Ordered(listed)[i] = s
<1> DEFINE n == Cardinality(listed)
           number(s) == trajs[s].number
           below(s) == {t \in listed : number(t) <= number(s)}
           rank == [s \in listed |-> Cardinality(below(s))]
           Sorted(order) == \A i, j \in DOMAIN order : i < j => number(order[i]) < number(order[j])
<1>0. n \in Nat /\ IsFiniteSet(1 .. n) /\ Cardinality(1 .. n) = n
  BY FS_CardinalityType, FS_Interval
<1>1. ASSUME NEW s \in listed
      PROVE  IsFiniteSet(below(s)) /\ s \in below(s) /\ Cardinality(below(s)) \in 1 .. n
  <2>1. below(s) \in SUBSET listed /\ s \in below(s)
    OBVIOUS
  <2>2. IsFiniteSet(below(s)) /\ Cardinality(below(s)) <= n
    BY <2>1, FS_Subset
  <2>3. Cardinality(below(s)) \in Nat /\ Cardinality(below(s)) # 0
    BY <2>1, <2>2, FS_CardinalityType, FS_EmptySet
  <2> QED BY <2>1, <2>2, <2>3, <1>0
<1>2. ASSUME NEW s \in listed, NEW t \in listed, number(s) < number(t)
      PROVE  rank[s] < rank[t]
  <2>1. below(s) \in SUBSET below(t) /\ t \notin below(s) /\ t \in below(t)
    BY <1>2
  <2>2. IsFiniteSet(below(t))
    BY <1>1
  <2>3. Cardinality(below(s)) <= Cardinality(below(t)) /\ Cardinality(below(t)) # Cardinality(below(s))
    BY <2>1, <2>2, FS_Subset
  <2> HIDE DEF below, n
  <2>4. Cardinality(below(s)) \in Nat /\ Cardinality(below(t)) \in Nat
    BY <1>0, <1>1
  <2> QED BY <2>3, <2>4
<1>3. ASSUME NEW s \in listed, NEW t \in listed, s # t
      PROVE  number(s) < number(t) \/ number(t) < number(s)
  BY <1>3
<1>4. rank \in [listed -> 1 .. n]
  BY <1>1
<1> HIDE DEF rank, number
<1>5. rank \in Injection(listed, 1 .. n)
  <2>1. \A s, t \in listed : rank[s] = rank[t] => s = t
    BY <1>2, <1>3, <1>4, <1>0
  <2> QED BY <2>1, <1>4 DEF Injection, IsInjective
<1>6. rank \in Surjection(listed, 1 .. n)
  BY <1>0, <1>5, FS_Injection
<1> HIDE DEF n
<1> DEFINE order == [i \in 1 .. n |-> CHOOSE s \in listed : rank[s] = i]
<1>7. \A i \in 1 .. n : order[i] \in listed /\ rank[order[i]] = i
  BY <1>6 DEF Surjection
<1>8. order \in [1 .. n -> listed] /\ Sorted(order)
  <2>1. ASSUME NEW i \in 1 .. n, NEW j \in 1 .. n, i < j
        PROVE  number(order[i]) < number(order[j])
    <3>1. order[i] \in listed /\ order[j] \in listed /\ rank[order[i]] = i /\ rank[order[j]] = j
      BY <1>7
    <3> HIDE DEF order
    <3>2. ~ rank[order[j]] < rank[order[i]] /\ order[i] # order[j]
      BY <3>1, <2>1, <1>0
    <3> QED BY <1>2, <1>3, <3>1, <3>2
  <2> QED BY <1>7, <2>1
<1>9. Ordered(listed) \in [1 .. n -> listed] /\ Sorted(Ordered(listed))
  <2>1. Ordered(listed) = CHOOSE o \in [1 .. n -> listed] : Sorted(o)
    BY DEF Ordered, n, number
  <2> HIDE DEF order, Sorted
  <2> QED BY <1>8, <2>1
<1>10. ASSUME NEW i \in 1 .. n, NEW j \in 1 .. n, i # j
       PROVE  Ordered(listed)[i] # Ordered(listed)[j]
  <2>1. i < j \/ j < i
    BY <1>10, <1>0
  <2>2. number(Ordered(listed)[i]) < number(Ordered(listed)[j]) \/ number(Ordered(listed)[j]) < number(Ordered(listed)[i])
    BY <1>9, <2>1
  <2>3. number(Ordered(listed)[i]) \in Nat /\ number(Ordered(listed)[j]) \in Nat
    BY <1>9 DEF number
  <2> QED BY <2>2, <2>3
<1>11. Ordered(listed) \in Surjection(1 .. n, listed)
  <2>1. Ordered(listed) \in Injection(1 .. n, listed)
    BY <1>9, <1>10 DEF Injection, IsInjective
  <2> QED BY <2>1, <1>0, FS_Injection DEF n
<1> QED BY <1>9, <1>10, <1>11 DEF Surjection, n

-----------------------------------------------------------------------------
\* The commands are where they can be, and a row never runs ahead of its transcript
\* nor behind the import that is about to write it.
Recorded ==
    /\ marker \subseteq Roots /\ projects \subseteq Roots
    /\ imp.pc \in {"idle", "take", "parse", "persist", "finish"}
    /\ imp.left \in Seq(Sessions)
    /\ imp.pc # "idle" => imp.left # <<>>
    /\ \A s \in Sessions :
            /\ rows[s] # None => rows[s] \in [status : Statuses, hash : 1 .. files[s]]
            /\ HasTrajectory(s) => rows[s] # None
    /\ imp.pc \in Working =>
            /\ imp.hash \in 1 .. files[Session]
            /\ rows[Session] # None => rows[Session].hash <= imp.hash
            /\ SaysImported(Session) => rows[Session].hash < imp.hash
            /\ imp.pc # "parse" => rows[Session] = [status |-> "failed", hash |-> imp.hash]

\* The numbers given out are the first ones, each to one trajectory.
Numbered ==
    /\ \E n \in Nat : Numbers = 1 .. n
    /\ \A s, t \in Sessions : s # t /\ HasTrajectory(s) /\ HasTrajectory(t) => trajs[s].number # trajs[t].number

RInv == IInv /\ Recorded /\ Numbered

LEMMA RowsAreNotNone ==
    ASSUME NEW status \in Statuses, NEW hash \in Nat PROVE [status |-> status, hash |-> hash] # None
BY SessionsAssumption

LEMMA RInvHoldsInitially == ASSUME Init PROVE RInv
<1>1. /\ files = [s \in Sessions |-> 1] /\ marker = Marked /\ projects = Known /\ imp = NotImporting
      /\ rows = [s \in Sessions |-> IF s \in Range(Stored) THEN [status |-> "imported", hash |-> 1] ELSE None]
      /\ trajs = [s \in Sessions |-> IF s \in Range(Stored)
                                  THEN [version |-> 1, number |-> CHOOSE i \in DOMAIN Stored : Stored[i] = s]
                                  ELSE NoTrajectory]
  BY DEF Init, ImportInit
<1>2. [status |-> "imported", hash |-> 1] # None
  BY RowsAreNotNone DEF Statuses
<1>3. ASSUME NEW s \in Sessions
      PROVE  /\ HasTrajectory(s) <=> s \in Range(Stored)
             /\ s \in Range(Stored) => trajs[s].number \in DOMAIN Stored /\ Stored[trajs[s].number] = s
             /\ s \in Range(Stored) => rows[s] = [status |-> "imported", hash |-> 1]
             /\ s \notin Range(Stored) => rows[s] = None
             /\ files[s] = 1
  BY <1>1 DEF HasTrajectory, NoTrajectory, Range
<1>4. Recorded
  BY <1>1, <1>2, <1>3, SessionsAssumption DEF Recorded, NotImporting, Working, Statuses
<1>5. Numbered
  <2>1. Len(Stored) \in Nat /\ DOMAIN Stored = 1 .. Len(Stored) /\ \A i \in DOMAIN Stored : Stored[i] \in Sessions
    BY SessionsAssumption
  <2>2. ASSUME NEW i \in DOMAIN Stored PROVE i \in Numbers
    <3>1. Stored[i] \in Sessions /\ Stored[i] \in Range(Stored)
      BY <2>1 DEF Range
    <3>2. trajs[Stored[i]].number \in DOMAIN Stored /\ Stored[trajs[Stored[i]].number] = Stored[i]
      BY <1>3, <3>1
    <3>3. trajs[Stored[i]].number = i
      BY <3>2, SessionsAssumption
    <3> QED BY <1>3, <3>1, <3>3 DEF Numbers
  <2>3. Numbers = DOMAIN Stored
    BY <1>3, <2>2 DEF Numbers
  <2> QED BY <1>3, <2>1, <2>3 DEF Numbered
<1> QED BY <1>4, <1>5, IInvHoldsInitially DEF RInv

LEMMA TailOfList ==
    ASSUME NEW S, NEW q \in Seq(S), q # <<>>
    PROVE  /\ Len(q) \in Nat \ {0} /\ DOMAIN q = 1 .. Len(q) /\ Head(q) = q[1] /\ q[1] \in S
           /\ Tail(q) \in Seq(S) /\ DOMAIN Tail(q) = 1 .. (Len(q) - 1)
           /\ \A i \in DOMAIN Tail(q) : i + 1 \in DOMAIN q /\ Tail(q)[i] = q[i + 1]
           /\ Len(q) # 1 => Tail(q) # <<>>
           /\ Len(q) = 1 => Tail(q) = <<>>
<1>1. Len(q) \in Nat \ {0} /\ DOMAIN q = 1 .. Len(q) /\ Head(q) = q[1] /\ q[1] \in S
  OBVIOUS
<1>2. Tail(q) \in Seq(S) /\ Len(Tail(q)) = Len(q) - 1 /\ DOMAIN Tail(q) = 1 .. (Len(q) - 1)
  OBVIOUS
<1>3. \A i \in DOMAIN Tail(q) : i + 1 \in DOMAIN q /\ Tail(q)[i] = q[i + 1]
  OBVIOUS
<1>4. Len(q) # 1 => Len(Tail(q)) # 0
  BY <1>1, <1>2
<1>5. Len(Tail(q)) = 0 <=> Tail(q) = <<>>
  <2>1. \A t \in Seq(S) : Len(t) = 0 <=> t = <<>>
    OBVIOUS
  <2> QED BY <1>2, <2>1, Zenon
<1>6. Len(q) = 1 => Len(Tail(q)) = 0
  BY <1>1, <1>2
<1> QED BY <1>1, <1>2, <1>3, <1>4, <1>5, <1>6

\* A pass that goes on has a session before it, or is over.
LEMMA NextSessionStands ==
    ASSUME IInv, Recorded, imp.pc # "idle", Next_session
    PROVE  /\ imp'.pc \in {"idle", "take"} /\ imp'.left \in Seq(Sessions)
           /\ imp'.pc # "idle" => imp'.left # <<>>
<1>1. imp' = [pc |-> IF Len(imp.left) = 1 THEN "idle" ELSE "take", left |-> Tail(imp.left),
              filter |-> imp.filter, hash |-> 0, parsed |-> 0]
  BY DEF IInv, Shaped, Next_session
<1>2. imp.left \in Seq(Sessions) /\ imp.left # <<>>
  BY DEF Recorded
<1>3. Len(imp.left) # 1 => Tail(imp.left) # <<>>
  BY <1>2, TailOfList
<1>4. Tail(imp.left) \in Seq(Sessions)
  BY <1>2, TailOfList
<1> QED BY <1>1, <1>3, <1>4

LEMMA SessionIsDiscovered ==
    ASSUME Recorded, imp.pc # "idle" PROVE Session \in Sessions
BY DEF Recorded, Session

\* A session that is not skipped has an older row, or one that does not say imported.
LEMMA TakenIsAhead ==
    ASSUME IInv, Recorded, imp.pc = "take", ~ AlreadyImported(Session, files[Session])
    PROVE  /\ files[Session] \in Nat \ {0}
           /\ rows[Session] # None => rows[Session].hash <= files[Session]
           /\ SaysImported(Session) => rows[Session].hash < files[Session]
<1>1. Session \in Sessions
  BY SessionIsDiscovered
<1> QED BY <1>1 DEF IInv, Shaped, Recorded, AlreadyImported, SaysImported

\* What the import writes into a row comes later than what is there.
LEMMA RowsAdvance ==
    ASSUME IInv, Recorded, ImportStep
    PROVE  \A s \in Sessions : rows[s] # None =>
                /\ rows'[s] # None
                /\ rows[s].hash <= rows'[s].hash
                /\ SaysImported(s) /\ rows'[s].hash = rows[s].hash => SaysImported(s)'
<1>1. CASE UNCHANGED rows
  BY <1>1 DEF SaysImported, Recorded
<1>2. ASSUME NEW status \in Statuses, NEW hash \in Nat, Session \in Sessions,
             record_source_session(Session, status, hash),
             rows[Session] # None => rows[Session].hash <= hash,
             SaysImported(Session) => rows[Session].hash < hash
      PROVE  \A s \in Sessions : rows[s] # None =>
                /\ rows'[s] # None
                /\ rows[s].hash <= rows'[s].hash
                /\ SaysImported(s) /\ rows'[s].hash = rows[s].hash => SaysImported(s)'
  <2>1. rows' = [rows EXCEPT ![Session] = [status |-> status, hash |-> hash]]
    BY <1>2 DEF record_source_session
  <2>2. rows'[Session] = [status |-> status, hash |-> hash] /\ rows'[Session] # None
    BY <1>2, <2>1, RowsAreNotNone DEF IInv, Shaped
  <2>3. \A s \in Sessions : s # Session => rows'[s] = rows[s]
    BY <2>1 DEF IInv, Shaped
  <2>4. \A s \in Sessions : rows[s] # None => rows[s].hash \in Nat
    BY DEF Recorded
  <2> QED BY <1>2, <2>2, <2>3, <2>4 DEF SaysImported
<1>3. CASE Ignore
  <2>1. imp.pc = "take" /\ record_source_session(Session, "ignored_unregistered", files[Session])
    BY <1>3 DEF Ignore
  <2>2. Session \in Sessions
    BY <2>1, SessionIsDiscovered
  <2> QED BY <1>2, <1>3, <2>1, <2>2, TakenIsAhead DEF Ignore, Statuses
<1>4. CASE Parse \/ Finish \/ Fail
  <2>1. imp.pc \in Working /\ (record_source_session(Session, "failed", imp.hash) \/ record_source_session(Session, "imported", imp.hash))
    BY <1>4 DEF Parse, Finish, Fail, Working
  <2>2. Session \in Sessions
    BY <2>1, SessionIsDiscovered DEF Working
  <2>3. /\ imp.hash \in Nat
        /\ rows[Session] # None => rows[Session].hash <= imp.hash
        /\ SaysImported(Session) => rows[Session].hash < imp.hash
    BY <2>1, <2>2 DEF IInv, Reading, Recorded
  <2> QED BY <1>2, <2>1, <2>2, <2>3 DEF Statuses
<1> QED
  BY <1>1, <1>3, <1>4 DEF ImportStep, AlreadyKnown, Resolve, CrashImport, Grow, cmd_init, cmd_import

-----------------------------------------------------------------------------
RowStands(s) ==
    /\ rows[s] # None => rows[s] \in [status : Statuses, hash : 1 .. files[s]]
    /\ HasTrajectory(s) => rows[s] # None

\* Writing a row of the session at hand leaves every row standing.
LEMMA WrittenRowsStand ==
    ASSUME IInv, Recorded, UNCHANGED <<files, trajs>>, imp.pc # "idle",
           NEW status \in Statuses, NEW hash \in 1 .. files[Session],
           record_source_session(Session, status, hash)
    PROVE  /\ \A s \in Sessions : RowStands(s)'
           /\ rows'[Session] = [status |-> status, hash |-> hash]
<1>1. Session \in Sessions
  BY SessionIsDiscovered
<1>2. /\ rows'[Session] = [status |-> status, hash |-> hash]
      /\ \A s \in Sessions : s # Session => rows'[s] = rows[s]
  BY <1>1 DEF IInv, Shaped, record_source_session
<1>3. hash \in Nat
  BY <1>1 DEF IInv, Shaped
<1>4. rows'[Session] # None
  BY <1>2, <1>3, RowsAreNotNone
<1> QED BY <1>2, <1>4 DEF RowStands, Recorded, HasTrajectory

LEMMA RecordedIsInductive ==
    ASSUME IInv, Recorded, ImportStep \/ Persist PROVE Recorded'
<1>1. /\ imp = [pc |-> imp.pc, left |-> imp.left, filter |-> imp.filter, hash |-> imp.hash, parsed |-> imp.parsed]
      /\ files \in [Sessions -> Nat \ {0}]
      /\ imp.pc # "idle" => Session \in Sessions
  BY SessionIsDiscovered DEF IInv, Shaped
<1>2. ASSUME UNCHANGED marker, projects' \subseteq Roots, imp.pc # "idle", Next_session,
             \A s \in Sessions : RowStands(s)'
      PROVE  Recorded'
  BY <1>2, NextSessionStands DEF Recorded, RowStands, Working
<1>3. \A s \in Sessions : RowStands(s)
  BY DEF Recorded, RowStands
<1>4. ASSUME UNCHANGED <<rows, trajs, files>> PROVE \A s \in Sessions : RowStands(s)'
  BY <1>3, <1>4 DEF RowStands, HasTrajectory
<1>5. ASSUME NEW s \in Sessions, Grow(s) PROVE Recorded'
  <2>1. /\ files' = [files EXCEPT ![s] = files[s] + 1]
        /\ UNCHANGED <<marker, projects, rows, trajs, imp>>
    BY <1>5 DEF Grow
  <2>2. \A t \in Sessions : 1 .. files[t] \subseteq 1 .. files'[t]
    <3>1. \A t \in Sessions : files[t] \in Nat /\ files'[t] \in {files[t], files[t] + 1}
      BY <1>1, <2>1
    <3> QED BY <3>1
  <2> QED BY <1>1, <2>1, <2>2 DEF Recorded, HasTrajectory, Working, Session, SaysImported
<1>6. ASSUME NEW r \in Roots, cmd_init(r) PROVE Recorded'
  BY <1>6 DEF cmd_init, Recorded, HasTrajectory, Session, SaysImported
<1>7. ASSUME NEW f \in Filters, cmd_import(f) PROVE Recorded'
  BY <1>7, SessionsAssumption DEF cmd_import, NotImporting, Recorded, Working, HasTrajectory
<1>8. CASE AlreadyKnown
  BY <1>2, <1>4, <1>8 DEF AlreadyKnown, Recorded
<1>9. CASE Ignore
  <2>1. files[Session] \in 1 .. files[Session]
    BY <1>1, <1>9 DEF Ignore
  <2>2. \A s \in Sessions : RowStands(s)'
    BY <1>9, <2>1, WrittenRowsStand DEF Ignore, Statuses
  <2> QED BY <1>2, <1>9, <2>2 DEF Ignore, Recorded
<1>10. CASE Resolve
  <2>1. /\ imp.pc = "take" /\ projects' \subseteq Roots
        /\ UNCHANGED <<files, marker, rows, trajs>>
        /\ imp' = [imp EXCEPT !.pc = "parse", !.hash = files[Session]] \/ Next_session
    BY <1>1, <1>10, SessionsAssumption DEF Resolve, Recorded
  <2>2. CASE Next_session
    BY <1>2, <1>4, <2>1, <2>2
  <2>3. CASE imp' = [imp EXCEPT !.pc = "parse", !.hash = files[Session]]
    <3>1. imp'.pc = "parse" /\ imp'.hash = files[Session] /\ imp'.left = imp.left /\ Session' = Session
      BY <1>1, <2>3 DEF Session
    <3>2. /\ files[Session] \in Nat \ {0}
          /\ rows[Session] # None => rows[Session].hash <= files[Session]
          /\ SaysImported(Session) => rows[Session].hash < files[Session]
      BY <1>10, TakenIsAhead DEF Resolve
    <3>3. SaysImported(Session)' <=> SaysImported(Session)
      BY <2>1, <3>1 DEF SaysImported
    <3> QED BY <1>4, <2>1, <3>1, <3>2, <3>3 DEF Recorded, RowStands
  <2> QED BY <2>1, <2>2, <2>3
<1>11. CASE Parse
  <2>1. /\ imp.pc = "parse" /\ imp'.pc = "persist" /\ imp'.hash = imp.hash /\ imp'.left = imp.left /\ Session' = Session
        /\ record_source_session(Session, "failed", imp.hash)
        /\ UNCHANGED <<files, marker, projects, trajs>>
    BY <1>1, <1>11 DEF Parse, Session
  <2>2. imp.hash \in 1 .. files[Session]
    BY <2>1 DEF Recorded, Working
  <2>3. /\ \A s \in Sessions : RowStands(s)'
        /\ rows'[Session] = [status |-> "failed", hash |-> imp.hash]
    BY <2>1, <2>2, WrittenRowsStand DEF Statuses
  <2>4. ~ SaysImported(Session)' /\ rows'[Session].hash <= imp.hash
    BY <2>1, <2>2, <2>3 DEF SaysImported
  <2> QED BY <2>1, <2>2, <2>3, <2>4 DEF Recorded, RowStands
<1>12. CASE Finish \/ Fail
  <2>1. /\ imp.pc \in Working
        /\ \E status \in Statuses : record_source_session(Session, status, imp.hash)
        /\ Next_session
        /\ UNCHANGED <<files, marker, projects, trajs>>
    BY <1>12 DEF Finish, Fail, Statuses, Working
  <2>2. imp.hash \in 1 .. files[Session]
    BY <2>1 DEF Recorded
  <2>3. \A s \in Sessions : RowStands(s)'
    BY <2>1, <2>2, WrittenRowsStand DEF Working
  <2> QED BY <1>2, <2>1, <2>3 DEF Recorded, Working
<1>13. CASE CrashImport
  BY <1>4, <1>13 DEF CrashImport, NotImporting, Recorded, RowStands, Working
<1>14. CASE Persist
  <2>1. /\ imp.pc = "persist" /\ imp'.pc = "finish" /\ imp'.hash = imp.hash /\ imp'.left = imp.left /\ Session' = Session
        /\ \A s \in Sessions : s # Session => trajs'[s] = trajs[s]
        /\ UNCHANGED <<files, marker, projects, rows>>
    BY <1>1, <1>14 DEF Persist, persist_trajectory, Session, IInv, Shaped
  <2>2. rows[Session] = [status |-> "failed", hash |-> imp.hash] /\ imp.hash \in Nat
    BY <1>1, <2>1 DEF Recorded, Working, IInv, Shaped
  <2>3. rows[Session] # None
    BY <2>2, RowsAreNotNone DEF Statuses
  <2>4. \A s \in Sessions : RowStands(s)'
    BY <1>3, <2>1, <2>3 DEF RowStands, HasTrajectory
  <2>5. SaysImported(Session)' <=> SaysImported(Session)
    BY <2>1 DEF SaysImported
  <2> QED BY <2>1, <2>2, <2>4, <2>5 DEF Recorded, RowStands, Working
<1> QED
  BY <1>5, <1>6, <1>7, <1>8, <1>9, <1>10, <1>11, <1>12, <1>13, <1>14 DEF ImportStep

\* A new trajectory gets the next number.
LEMMA NumberedIsInductive ==
    ASSUME IInv, Recorded, Numbered, persist_trajectory PROVE Numbered'
<1> PICK z \in Sessions : z = Session
  BY SessionIsDiscovered DEF persist_trajectory
<1>1. imp.parsed # 0
  BY DEF persist_trajectory, IInv, Reading, Working
<1> DEFINE number == _allocate_trajectory_id(z)
<1>2. /\ trajs'[z] = [version |-> imp.parsed, number |-> number]
      /\ \A s \in Sessions : s # z => trajs'[s] = trajs[s]
  BY DEF persist_trajectory, IInv, Shaped
<1> HIDE DEF number
<1>3. /\ HasTrajectory(z)' /\ trajs'[z].number = number
      /\ \A s \in Sessions : s # z => (HasTrajectory(s)' <=> HasTrajectory(s)) /\ trajs'[s].number = trajs[s].number
  BY <1>1, <1>2 DEF HasTrajectory
<1>4. PICK n \in Nat : Numbers = 1 .. n
  BY DEF Numbered
<1>5. /\ \A x : x \in Numbers <=> \E s \in Sessions : HasTrajectory(s) /\ x = trajs[s].number
      /\ \A x : x \in Numbers' <=> \E s \in Sessions : HasTrajectory(s)' /\ x = trajs'[s].number
  BY DEF Numbers
<1>6. CASE HasTrajectory(z)
  <2>1. number = trajs[z].number
    BY <1>6 DEF number, _allocate_trajectory_id
  <2>2. \A x : x \in Numbers' <=> x \in Numbers
    BY <1>3, <1>5, <1>6, <2>1
  <2>3. Numbers' = 1 .. n
    BY <1>4, <2>2
  <2> QED BY <1>3, <1>6, <2>1, <2>3 DEF Numbered
<1>7. CASE ~ HasTrajectory(z)
  <2>1. number = n + 1
    <3>1. CASE n = 0
      <4>1. Numbers = {}
        BY <1>4, <3>1
      <4> QED BY <1>7, <3>1, <4>1 DEF number, _allocate_trajectory_id
    <3>2. CASE n # 0
      <4>1. Numbers # {} /\ n \in Numbers
        BY <1>4, <3>2
      <4>2. Max(Numbers) = n
        BY <1>4, <4>1 DEF Max
      <4> QED BY <1>7, <4>1, <4>2 DEF number, _allocate_trajectory_id
    <3> QED BY <3>1, <3>2
  <2>2. \A x : x \in Numbers' <=> x \in Numbers \/ x = n + 1
    BY <1>3, <1>5, <1>7, <2>1
  <2>3. Numbers' = 1 .. (n + 1)
    <3>1. \A x : x \in 1 .. n \/ x = n + 1 <=> x \in 1 .. (n + 1)
      OBVIOUS
    <3>2. \A x : x \in Numbers' <=> x \in 1 .. (n + 1)
      BY <1>4, <2>2, <3>1
    <3> QED BY <3>2
  <2>4. \A s, t \in Sessions : s # t /\ HasTrajectory(s)' /\ HasTrajectory(t)' => trajs'[s].number # trajs'[t].number
    <3>1. n + 1 \notin Numbers
      BY <1>4
    <3>2. \A s \in Sessions : s # z /\ HasTrajectory(s)' => trajs'[s].number # trajs'[z].number
      BY <1>3, <1>5, <2>1, <3>1
    <3>3. \A s, t \in Sessions : s # z /\ t # z /\ s # t /\ HasTrajectory(s)' /\ HasTrajectory(t)'
                => trajs'[s].number # trajs'[t].number
      BY <1>3 DEF Numbered
    <3> QED BY <3>2, <3>3
  <2> QED BY <2>3, <2>4 DEF Numbered
<1> QED BY <1>6, <1>7

LEMMA RInvIsInductive == ASSUME RInv, [Next]_vars PROVE RInv'
<1>1. IInv'
  BY IInvIsInductive DEF RInv
<1>2. CASE UNCHANGED importVars
  BY <1>1, <1>2 DEF importVars, RInv, Recorded, Numbered, Numbers, HasTrajectory, Session, SaysImported
<1>3. CASE Persist
  BY <1>1, <1>3, RecordedIsInductive, NumberedIsInductive DEF Persist, RInv
<1>4. CASE ImportStep
  <2>1. UNCHANGED trajs
    BY <1>4 DEF ImportStep, AlreadyKnown, Ignore, Resolve, Parse, Finish, Fail, CrashImport, Grow, cmd_init, cmd_import
  <2> QED BY <1>1, <1>4, <2>1, RecordedIsInductive DEF RInv, Numbered, Numbers, HasTrajectory
<1> QED
  BY <1>2, <1>3, <1>4 DEF Next, Extract, Rebuild, set_experience_review, cmd_placements_generate,
     Write, Keep, replace_placement_proposal_set, Refuse, CrashGenerate, vars

-----------------------------------------------------------------------------
ListItems == [session : Sessions, hash : Nat, changed : BOOLEAN, unfinished : BOOLEAN]

\* What the list of trajectories to look at holds of a session.
ItemOf(s, state) ==
    [session |-> s, hash |-> rows[s].hash, changed |-> state[s] # rows[s].hash,
     unfinished |-> rows[s].status # "imported"]

\* Every trajectory of the filter's projects is listed, once.
LEMMA ListedOnce ==
    ASSUME RInv, NEW filter, NEW state
    PROVE  /\ Listed(filter, state) \in Seq(ListItems)
           /\ \A i \in DOMAIN Listed(filter, state) : \E s \in Sessions :
                    /\ HasTrajectory(s)
                    /\ Listed(filter, state)[i] = ItemOf(s, state)
           /\ \A i, j \in DOMAIN Listed(filter, state) :
                    i # j => Listed(filter, state)[i].session # Listed(filter, state)[j].session
           /\ \A s \in Sessions : HasTrajectory(s) /\ filter \in {None, RootOf[s]} =>
                    \E i \in DOMAIN Listed(filter, state) : Listed(filter, state)[i].session = s
<1> DEFINE listed == {s \in Sessions : HasTrajectory(s) /\ filter \in {None, RootOf[s]}}
           order == Ordered(listed)
           n == Cardinality(listed)
<1>1. IsFiniteSet(listed) /\ n \in Nat
  <2>1. listed \in SUBSET Sessions
    OBVIOUS
  <2> QED BY <2>1, SessionsAreFinite, FS_Subset, FS_CardinalityType
<1>2. \A s \in listed : trajs[s].number \in Nat
  <2>1. PICK m \in Nat : Numbers = 1 .. m
    BY DEF RInv, Numbered
  <2>2. \A s \in listed : trajs[s].number \in Numbers
    BY DEF Numbers
  <2> QED BY <2>1, <2>2
<1>3. \A s, t \in listed : s # t => trajs[s].number # trajs[t].number
  BY DEF RInv, Numbered
<1>4. \A s \in listed : s \in Sessions /\ HasTrajectory(s)
  OBVIOUS
<1>5. \A s \in Sessions : HasTrajectory(s) /\ filter \in {None, RootOf[s]} => s \in listed
  OBVIOUS
<1>6. \A s \in listed : ItemOf(s, state) \in ListItems
  <2>1. ASSUME NEW s \in listed PROVE ItemOf(s, state) \in ListItems
    <3>1. rows[s] \in [status : Statuses, hash : 1 .. files[s]] /\ files[s] \in Nat
      BY <1>4 DEF RInv, IInv, Shaped, Recorded
    <3>2. rows[s].hash \in Nat
      BY <3>1
    <3> QED BY <1>4, <3>2 DEF ItemOf, ListItems
  <2> QED BY <2>1
<1>7. Listed(filter, state) = [i \in DOMAIN order |-> ItemOf(order[i], state)]
  BY DEF Listed, ItemOf
<1> HIDE DEF listed, n, order
<1>8. /\ order \in [1 .. n -> listed]
      /\ \A i, j \in 1 .. n : i # j => order[i] # order[j]
      /\ \A s \in listed : \E i \in 1 .. n : order[i] = s
  BY <1>1, <1>2, <1>3, OrderedIsAnOrder DEF order, n
<1>9. Listed(filter, state) = [i \in 1 .. n |-> ItemOf(order[i], state)]
  BY <1>7, <1>8
<1>10. \A i \in 1 .. n : ItemOf(order[i], state).session = order[i] /\ order[i] \in listed
  BY <1>8 DEF ItemOf
<1>11. Listed(filter, state) \in [1 .. n -> ListItems]
  BY <1>6, <1>9, <1>10
<1>12. Listed(filter, state) \in Seq(ListItems)
  BY <1>1, <1>11
<1> QED BY <1>4, <1>5, <1>8, <1>9, <1>10, <1>12

\* An item whose row nothing has been written to since it was listed.
Fresh(c) == ~ c.unfinished /\ c.hash = rows[c.session].hash

\* The state of a session is no newer than its row, and when it is the row's hash
\* the occurrences are those of the trajectory.
MatchedAt(s) ==
    /\ extracted[s] # None =>
            HasTrajectory(s) /\ extracted[s] \in Nat /\ extracted[s] <= rows[s].hash
    /\ extracted[s] # None /\ extracted[s] = rows[s].hash /\ s \notin tainted =>
            SaysImported(s) /\ occs[s] = trajs[s].version
    /\ ~ HasTrajectory(s) => occs[s] = 0

\* An item still to be looked at.
ItemStands(c) ==
    /\ HasTrajectory(c.session)
    /\ c.hash <= rows[c.session].hash
    /\ Fresh(c) => SaysImported(c.session)
    /\ c.changed /\ extracted[c.session] # None => extracted[c.session] < c.hash

\* What the command has read of the trajectory at hand.
AtHand ==
    /\ ext.pc \in {"detect", "state"} =>
            /\ Current.changed
            /\ Fresh(Current) => ext.seen[Current.session] = trajs[Current.session].version
    /\ ext.pc = "state" /\ Fresh(Current) => occs[Current.session] = ext.seen[Current.session]

Listing ==
    /\ ext.pc \in {"idle", "scan", "detect", "state", "load", "rebuild"}
    /\ ext.left \in Seq(ListItems)
    /\ ext.pc \in {"scan", "detect", "state"} <=> ext.left # <<>>
    /\ \A i, j \in DOMAIN ext.left : i # j => ext.left[i].session # ext.left[j].session

AllStand == \A i \in DOMAIN ext.left : ItemStands(ext.left[i])

KInv ==
    /\ EInv /\ RInv
    /\ extracted = [s \in Sessions |-> extracted[s]]
    /\ \A s \in Sessions : MatchedAt(s)
    /\ Listing /\ AllStand /\ AtHand

LEMMA KInvHoldsInitially == ASSUME Init PROVE KInv
<1>1. EInv /\ RInv
  BY EInvHoldsInitially, RInvHoldsInitially
<1>2. Listing /\ AtHand /\ DOMAIN ext.left = {}
  BY DEF Init, ExtractInit, NotExtracting, Listing, AtHand
<1>3. extracted = [s \in Sessions |-> extracted[s]] /\ \A s \in Sessions : MatchedAt(s)
  BY DEF Init, ExtractInit, MatchedAt
<1> QED BY <1>1, <1>2, <1>3 DEF KInv, AllStand

\* Values of the state that every step of the import may rely on.
LEMMA KFacts ==
    ASSUME KInv
    PROVE  /\ \A s \in Sessions : HasTrajectory(s) => rows[s] # None
           /\ \A s \in Sessions : rows[s] # None => rows[s].hash \in Nat
           /\ \A i \in DOMAIN ext.left : ext.left[i] \in ListItems /\ ext.left[i].session \in Sessions /\ ext.left[i].hash \in Nat
           /\ ext.left # <<>> => 1 \in DOMAIN ext.left /\ Current = ext.left[1]
<1>1. \A s \in Sessions : rows[s] # None => rows[s] \in [status : Statuses, hash : 1 .. files[s]] /\ files[s] \in Nat
  BY DEF KInv, RInv, Recorded, IInv, Shaped
<1>2. \A s \in Sessions : rows[s] # None => rows[s].hash \in Nat
  BY <1>1
<1>3. ext.left \in Seq(ListItems)
  BY DEF KInv, Listing
<1>4. \A i \in DOMAIN ext.left : ext.left[i] \in ListItems
  BY <1>3
<1>5. ext.left # <<>> => 1 \in DOMAIN ext.left /\ Current = ext.left[1]
  BY <1>3, TailOfList DEF Current
<1> QED BY <1>2, <1>4, <1>5 DEF KInv, RInv, Recorded, ListItems

-----------------------------------------------------------------------------
\* A step of the import moves rows on and leaves the rest.
LEMMA ImportKeepsMatch ==
    ASSUME KInv, EInv', RInv', ImportStep, UNCHANGED <<extractVars, trajs>> PROVE KInv'
<1>1. \A s \in Sessions : rows[s] # None =>
            /\ rows'[s] # None /\ rows[s].hash \in Nat /\ rows'[s].hash \in Nat
            /\ rows[s].hash <= rows'[s].hash
            /\ SaysImported(s) /\ rows'[s].hash = rows[s].hash => SaysImported(s)'
  <2>1. \A s \in Sessions : rows'[s] # None => rows'[s].hash \in Nat
    <3>1. \A s \in Sessions : rows'[s] # None => rows'[s] \in [status : Statuses, hash : 1 .. files'[s]] /\ files'[s] \in Nat
      BY DEF RInv, Recorded, IInv, Shaped
    <3> QED BY <3>1
  <2> QED BY <2>1, KFacts, RowsAdvance DEF KInv, RInv
<1>2. /\ UNCHANGED <<trajs, occs, extracted, tainted, ext>>
      /\ \A s : HasTrajectory(s)' <=> HasTrajectory(s)
  BY DEF extractVars, HasTrajectory
<1>3. \A s \in Sessions : MatchedAt(s)'
  <2>1. SUFFICES ASSUME NEW s \in Sessions PROVE MatchedAt(s)'
    OBVIOUS
  <2>2. MatchedAt(s)
    BY DEF KInv
  <2>3. CASE extracted[s] = None
    BY <1>2, <2>2, <2>3 DEF MatchedAt
  <2>4. CASE extracted[s] # None
    <3>1. rows[s] # None /\ extracted[s] \in Nat /\ extracted[s] <= rows[s].hash
      BY <2>2, <2>4, KFacts DEF MatchedAt
    <3>2. extracted[s] <= rows'[s].hash /\ (extracted[s] = rows'[s].hash => extracted[s] = rows[s].hash /\ rows'[s].hash = rows[s].hash)
      BY <1>1, <3>1
    <3> QED BY <1>1, <1>2, <2>2, <2>4, <3>1, <3>2 DEF MatchedAt
  <2> QED BY <2>3, <2>4
<1>4. ASSUME NEW c \in ListItems, ItemStands(c) PROVE ItemStands(c)' /\ (Fresh(c)' => Fresh(c))
  <2>1. rows[c.session] # None /\ c.session \in Sessions /\ c.hash \in Nat
    BY <1>4, KFacts DEF ItemStands, ListItems
  <2>2. c.hash <= rows'[c.session].hash /\ (c.hash = rows'[c.session].hash => c.hash = rows[c.session].hash /\ rows'[c.session].hash = rows[c.session].hash)
    BY <1>1, <1>4, <2>1 DEF ItemStands
  <2> QED BY <1>1, <1>2, <1>4, <2>1, <2>2 DEF ItemStands, Fresh
<1>5. AllStand'
  BY <1>2, <1>4, KFacts DEF KInv, AllStand, ItemStands, Fresh, HasTrajectory, SaysImported
<1>6. AtHand'
  <2>1. ext.pc \in {"detect", "state"} => (Fresh(Current)' => Fresh(Current))
    BY <1>2, <1>4, KFacts DEF KInv, Listing, AllStand, Current
  <2>2. Current' = Current
    BY <1>2 DEF Current
  <2> QED BY <1>2, <2>1, <2>2 DEF KInv, AtHand, Fresh
<1> QED BY <1>2, <1>3, <1>5, <1>6 DEF KInv, Listing

\* The session whose trajectory is stored has a row that says failed.
LEMMA StoringKeepsMatch ==
    ASSUME KInv, EInv', RInv', Persist PROVE KInv'
<1> PICK z \in Sessions : z = Session
  BY SessionIsDiscovered DEF Persist, persist_trajectory, KInv, RInv
<1>1. /\ UNCHANGED rows
      /\ \A s \in Sessions : s # z => trajs'[s] = trajs[s]
      /\ HasTrajectory(z)'
  BY DEF Persist, persist_trajectory, KInv, RInv, IInv, Shaped, Reading, Working, HasTrajectory
<1>2. ~ SaysImported(z)
  BY DEF Persist, persist_trajectory, KInv, RInv, IInv, Reading, Working
<1>3. /\ occs' = [occs EXCEPT ![z] = 0]
      /\ extracted' = [extracted EXCEPT ![z] = None]
      /\ tainted' = tainted \ {z}
      /\ ext' = [ext EXCEPT !.calm = FALSE]
  BY DEF Persist, CascadeTrajectory
<1>4. /\ occs'[z] = 0 /\ \A s \in Sessions : s # z => occs'[s] = occs[s]
      /\ extracted'[z] = None /\ \A s \in Sessions : s # z => extracted'[s] = extracted[s]
      /\ extracted' = [s \in Sessions |-> extracted'[s]]
      /\ ext'.pc = ext.pc /\ ext'.left = ext.left /\ ext'.seen = ext.seen
  BY <1>3 DEF KInv, EInv, Detected
<1>5. \A s \in Sessions : HasTrajectory(s)' <=> HasTrajectory(s) \/ s = z
  BY <1>1 DEF HasTrajectory
<1>6. \A s : SaysImported(s)' <=> SaysImported(s)
  BY <1>1 DEF SaysImported
<1>7. \A s \in Sessions : MatchedAt(s)'
  BY <1>1, <1>3, <1>4, <1>5, <1>6 DEF KInv, MatchedAt
<1>8. ASSUME NEW c \in ListItems, ItemStands(c)
      PROVE  /\ ItemStands(c)'
             /\ Fresh(c)' <=> Fresh(c)
             /\ Fresh(c) => c.session # z
  <2>1. c.session \in Sessions
    BY DEF ListItems
  <2> QED BY <1>1, <1>2, <1>4, <1>5, <1>6, <1>8, <2>1 DEF ItemStands, Fresh
<1>9. AllStand'
  <2>1. SUFFICES ASSUME NEW i \in DOMAIN ext.left PROVE ItemStands(ext.left[i])'
    BY <1>4 DEF AllStand
  <2>2. PICK c \in ListItems : c = ext.left[i]
    BY KFacts
  <2>3. ItemStands(c)' /\ c = ext'.left[i]
    BY <1>4, <1>8, <2>2 DEF KInv, AllStand
  <2> QED BY <2>3 DEF ItemStands, Fresh, HasTrajectory, SaysImported
<1>10. AtHand'
  <2>1. Current' = Current
    BY <1>4 DEF Current
  <2>2. CASE ext.pc \in {"detect", "state"}
    <3>1. Current \in ListItems /\ ItemStands(Current) /\ Current.session \in Sessions
      BY <2>2, KFacts DEF KInv, Listing, AllStand, Current
    <3> QED BY <1>1, <1>4, <1>8, <2>1, <2>2, <3>1 DEF KInv, AtHand, Fresh
  <2> QED BY <1>4, <2>2 DEF AtHand
<1> QED BY <1>4, <1>7, <1>9, <1>10 DEF KInv, Listing

-----------------------------------------------------------------------------
LEMMA ListingStarts ==
    ASSUME KInv, EInv', RInv', NEW f, NEW r, Extract(f, r) PROVE KInv'
<1>1. /\ UNCHANGED <<rows, trajs>>
      /\ \/ /\ occs' = [s \in Sessions |-> 0] /\ extracted' = [s \in Sessions |-> None]
         \/ UNCHANGED <<occs, extracted, tainted>>
  BY DEF Extract, cmd_experiences_extract, clear_experience_data, importVars
<1>2. PICK todo : /\ todo = Listed(f, extracted')
                  /\ ext' = [NotExtracting EXCEPT !.pc = IF todo = <<>> THEN "load" ELSE "scan",
                                !.filter = f, !.rebuild = r, !.left = todo]
  BY DEF Extract, cmd_experiences_extract, clear_experience_data
<1>3. ext'.left = todo /\ ext'.pc = IF todo = <<>> THEN "load" ELSE "scan"
  BY <1>2 DEF NotExtracting
<1>4. /\ todo \in Seq(ListItems)
      /\ \A i \in DOMAIN todo : \E s \in Sessions : HasTrajectory(s) /\ todo[i] = ItemOf(s, extracted')
      /\ \A i, j \in DOMAIN todo : i # j => todo[i].session # todo[j].session
  BY <1>2, ListedOnce DEF KInv
<1>5. Listing'
  BY <1>3, <1>4 DEF Listing
<1>6. extracted' = [s \in Sessions |-> extracted'[s]] /\ \A s \in Sessions : MatchedAt(s)'
  BY <1>1 DEF KInv, MatchedAt, HasTrajectory, SaysImported
<1>7. AllStand'
  <2>1. SUFFICES ASSUME NEW i \in DOMAIN todo PROVE ItemStands(todo[i])'
    BY <1>3 DEF AllStand, ItemStands, Fresh, HasTrajectory, SaysImported
  <2>2. PICK s \in Sessions : HasTrajectory(s) /\ todo[i] = ItemOf(s, extracted')
    BY <1>4
  <2>3. /\ todo[i].session = s /\ todo[i].hash = rows[s].hash
        /\ todo[i].changed = (extracted'[s] # rows[s].hash)
        /\ todo[i].unfinished = (rows[s].status # "imported")
    BY <2>2 DEF ItemOf
  <2>4. rows[s] # None /\ rows[s].hash \in Nat
    BY <2>2, KFacts
  <2>5. extracted'[s] # None => extracted'[s] \in Nat /\ extracted'[s] <= rows[s].hash
    BY <1>1, <1>6, <2>2 DEF MatchedAt, HasTrajectory
  <2>6. ItemStands(todo[i])' <=>
            /\ HasTrajectory(s)
            /\ rows[s].hash <= rows[s].hash
            /\ ~ todo[i].unfinished => SaysImported(s)
            /\ todo[i].changed /\ extracted'[s] # None => extracted'[s] < rows[s].hash
    BY <1>1, <2>3 DEF ItemStands, Fresh, HasTrajectory, SaysImported
  <2>7. /\ todo[i].changed => extracted'[s] # rows[s].hash
        /\ ~ todo[i].unfinished => rows[s].status = "imported"
    BY <2>3, Zenon
  <2>8. /\ rows[s].hash <= rows[s].hash
        /\ todo[i].changed /\ extracted'[s] # None => extracted'[s] < rows[s].hash
    BY <2>4, <2>5, <2>7
  <2> QED BY <2>2, <2>4, <2>6, <2>7, <2>8, Zenon DEF SaysImported
<1>8. AtHand'
  BY <1>3 DEF AtHand
<1> QED BY <1>5, <1>6, <1>7, <1>8 DEF KInv

\* Going on with the list drops its first item.
LEMMA OnwardKeepsList ==
    ASSUME KInv, ext.left # <<>>, ext'.left = Tail(ext.left),
           ext'.pc = IF Len(ext.left) = 1 THEN "load" ELSE "scan"
    PROVE  /\ Listing' /\ AtHand'
           /\ \A i \in DOMAIN ext'.left : i + 1 \in DOMAIN ext.left /\ ext'.left[i] = ext.left[i + 1]
           /\ \A i \in DOMAIN ext'.left : ext'.left[i].session # Current.session
<1>1. ext.left \in Seq(ListItems)
  BY DEF KInv, Listing
<1>2. /\ Len(ext.left) \in Nat \ {0} /\ DOMAIN ext.left = 1 .. Len(ext.left) /\ Current = ext.left[1]
      /\ ext'.left \in Seq(ListItems) /\ DOMAIN ext'.left = 1 .. (Len(ext.left) - 1)
      /\ \A i \in DOMAIN ext'.left : i + 1 \in DOMAIN ext.left /\ ext'.left[i] = ext.left[i + 1]
      /\ Len(ext.left) # 1 => ext'.left # <<>>
      /\ Len(ext.left) = 1 => ext'.left = <<>>
  BY <1>1, TailOfList DEF Current
<1>3. \A i, j \in DOMAIN ext'.left : i # j => i + 1 # j + 1
  BY <1>2
<1>4. \A i \in DOMAIN ext'.left : i + 1 # 1 /\ 1 \in DOMAIN ext.left
  BY <1>2
<1>5. \A i, j \in DOMAIN ext.left : i # j => ext.left[i].session # ext.left[j].session
  BY DEF KInv, Listing
<1>6. \A i \in DOMAIN ext'.left : ext'.left[i].session # Current.session
  BY <1>2, <1>4, <1>5
<1>7. \A i, j \in DOMAIN ext'.left : i # j => ext'.left[i].session # ext'.left[j].session
  BY <1>2, <1>3, <1>5
<1>8. Listing'
  BY <1>2, <1>7 DEF Listing
<1>9. AtHand'
  BY DEF AtHand
<1> QED BY <1>2, <1>6, <1>8, <1>9

LEMMA ScanKeepsMatch ==
    ASSUME KInv, EInv', RInv', Scan, UNCHANGED importVars PROVE KInv'
<1>1. UNCHANGED <<rows, trajs, occs, extracted, tainted>> /\ ext.pc = "scan" /\ ext.left # <<>>
  BY DEF Scan, importVars, KInv, Listing
<1>2. Current.session \in Sessions
  BY <1>1, KFacts
<1> DEFINE seen == [ext.seen EXCEPT ![Current.session] = trajs[Current.session].version]
<1>3. \A s \in Sessions : MatchedAt(s)'
  BY <1>1 DEF KInv, MatchedAt, HasTrajectory, SaysImported
<1>4. \A c : ItemStands(c) => ItemStands(c)'
  BY <1>1 DEF ItemStands, Fresh, HasTrajectory, SaysImported
<1>5. CASE Current.changed
  <2>1. ext'.pc = "detect" /\ ext'.left = ext.left /\ ext'.seen = seen
    BY <1>5 DEF Scan, KInv, EInv, Detected
  <2>2. Listing' /\ Current' = Current
    BY <1>1, <2>1 DEF KInv, Listing, Current
  <2>3. AllStand'
    BY <1>1, <2>1 DEF KInv, AllStand, ItemStands, Fresh, HasTrajectory, SaysImported
  <2>4. seen[Current.session] = trajs[Current.session].version
    BY <1>2 DEF KInv, EInv, Detected
  <2>5. AtHand'
    BY <1>1, <1>5, <2>1, <2>2, <2>4 DEF AtHand
  <2> QED BY <1>1, <1>3, <2>2, <2>3, <2>5 DEF KInv
<1>6. CASE ~ Current.changed
  <2>1. ext'.left = Tail(ext.left) /\ ext'.pc = IF Len(ext.left) = 1 THEN "load" ELSE "scan"
    BY <1>6 DEF Scan, Onward, KInv, EInv, Detected
  <2>2. /\ Listing' /\ AtHand'
        /\ \A i \in DOMAIN ext'.left : i + 1 \in DOMAIN ext.left /\ ext'.left[i] = ext.left[i + 1]
    BY <1>1, <2>1, OnwardKeepsList
  <2>3. AllStand'
    BY <1>1, <2>2 DEF KInv, AllStand, ItemStands, Fresh, HasTrajectory, SaysImported
  <2> QED BY <1>1, <1>3, <2>2, <2>3 DEF KInv
<1> QED BY <1>5, <1>6

\* The occurrences are replaced while the state is still an older one, or none.
LEMMA DetectionKeepsMatch ==
    ASSUME KInv, EInv', RInv', replace_trajectory_occurrences, UNCHANGED importVars PROVE KInv'
<1>1. /\ UNCHANGED <<rows, trajs, extracted, tainted>>
      /\ ext.pc = "detect" /\ ext.left # <<>>
      /\ occs' = [occs EXCEPT ![Current.session] = ext.seen[Current.session]]
      /\ ext' = [ext EXCEPT !.pc = "state"]
  BY DEF replace_trajectory_occurrences, importVars, KInv, Listing
<1>2. ext'.pc = "state" /\ ext'.left = ext.left /\ ext'.seen = ext.seen /\ Current' = Current
  BY <1>1 DEF KInv, EInv, Detected, Current
<1> PICK z \in Sessions : z = Current.session
  BY <1>1, KFacts
<1>3. occs'[z] = ext.seen[z] /\ \A s \in Sessions : s # z => occs'[s] = occs[s]
  BY <1>1 DEF KInv, EInv, Detected
<1>4. /\ Current.changed /\ ItemStands(Current) /\ Current.hash \in Nat
      /\ Fresh(Current) => ext.seen[z] = trajs[z].version
  BY <1>1, KFacts DEF KInv, AtHand, AllStand
<1>5. rows[z].hash \in Nat
  BY <1>4, KFacts DEF ItemStands
<1>6. MatchedAt(z)'
  <2>1. extracted[z] # None => extracted[z] \in Nat /\ extracted[z] # rows[z].hash
    BY <1>4, <1>5 DEF ItemStands, KInv, MatchedAt
  <2>2. MatchedAt(z) /\ HasTrajectory(z)
    BY <1>4 DEF KInv, ItemStands
  <2> QED BY <1>1, <2>1, <2>2 DEF MatchedAt, HasTrajectory, SaysImported
<1>7. \A s \in Sessions : s # z => MatchedAt(s)'
  BY <1>1, <1>3 DEF KInv, MatchedAt, HasTrajectory, SaysImported
<1>8. AllStand' /\ Listing'
  <2>1. AllStand'
    BY <1>1, <1>2, ZenonT(40) DEF KInv, AllStand, ItemStands, Fresh, HasTrajectory, SaysImported
  <2>2. Listing'
    BY <1>1, <1>2 DEF KInv, Listing
  <2> QED BY <2>1, <2>2
<1>9. AtHand'
  BY <1>1, <1>2, <1>3, <1>4 DEF AtHand, Fresh
<1> QED BY <1>1, <1>6, <1>7, <1>8, <1>9 DEF KInv

\* The state is that of the row as it was listed.
LEMMA MarkingKeepsMatch ==
    ASSUME KInv, EInv', RInv', set_extraction_state, UNCHANGED importVars PROVE KInv'
<1>1. /\ UNCHANGED <<rows, trajs, occs>>
      /\ ext.pc = "state" /\ ext.left # <<>>
      /\ extracted' = [extracted EXCEPT ![Current.session] = Current.hash]
      /\ tainted' = IF Current.unfinished THEN tainted \cup {Current.session} ELSE tainted \ {Current.session}
      /\ ext' = Onward
  BY DEF set_extraction_state, importVars, KInv, Listing
<1>2. ext'.left = Tail(ext.left) /\ ext'.pc = IF Len(ext.left) = 1 THEN "load" ELSE "scan"
  BY <1>1 DEF Onward, KInv, EInv, Detected
<1>3. /\ Listing' /\ AtHand'
      /\ \A i \in DOMAIN ext'.left : i + 1 \in DOMAIN ext.left /\ ext'.left[i] = ext.left[i + 1]
      /\ \A i \in DOMAIN ext'.left : ext'.left[i].session # Current.session
  BY <1>1, <1>2, OnwardKeepsList
<1> PICK z \in Sessions : z = Current.session
  BY <1>1, KFacts
<1>4. /\ extracted'[z] = Current.hash /\ \A s \in Sessions : s # z => extracted'[s] = extracted[s]
      /\ extracted' = [s \in Sessions |-> extracted'[s]]
      /\ \A s \in Sessions : s # z => (s \in tainted' <=> s \in tainted)
      /\ z \in tainted' <=> Current.unfinished
  BY <1>1 DEF KInv
<1>5. /\ ItemStands(Current) /\ Current.hash \in Nat
      /\ Fresh(Current) => ext.seen[z] = trajs[z].version /\ occs[z] = ext.seen[z]
  BY <1>1, KFacts DEF KInv, AtHand, AllStand
<1>6. MatchedAt(z)'
  BY <1>1, <1>4, <1>5 DEF MatchedAt, ItemStands, Fresh, HasTrajectory, SaysImported
<1>7. \A s \in Sessions : s # z => MatchedAt(s)'
  BY <1>1, <1>4 DEF KInv, MatchedAt, HasTrajectory, SaysImported
<1>8. AllStand'
  <2>1. ASSUME NEW c \in ListItems, ItemStands(c), c.session # z PROVE ItemStands(c)'
    BY <1>1, <1>4, <2>1 DEF ItemStands, Fresh, HasTrajectory, SaysImported, ListItems
  <2>2. \A i \in DOMAIN ext'.left : ext'.left[i] \in ListItems /\ ItemStands(ext'.left[i]) /\ ext'.left[i].session # z
    BY <1>3, KFacts DEF KInv, AllStand
  <2>3. SUFFICES ASSUME NEW i \in DOMAIN ext'.left, NEW c \in ListItems, c = ext'.left[i]
                 PROVE  ItemStands(c)'
    BY <2>2 DEF AllStand, ItemStands, Fresh, HasTrajectory, SaysImported
  <2> QED BY <2>1, <2>2, <2>3
<1> QED BY <1>3, <1>4, <1>6, <1>7, <1>8 DEF KInv

-----------------------------------------------------------------------------
LEMMA KInvIsInductive == ASSUME KInv, [Next]_vars PROVE KInv'
<1>1. EInv' /\ RInv'
  BY EInvIsInductive, RInvIsInductive DEF KInv
<1>2. CASE ImportStep /\ UNCHANGED <<extractVars, stageSix>>
  <2>1. UNCHANGED trajs
    BY <1>2 DEF ImportStep, AlreadyKnown, Ignore, Resolve, Parse, Finish, Fail, CrashImport, Grow, cmd_init, cmd_import
  <2> QED BY <1>1, <1>2, <2>1, ImportKeepsMatch
<1>3. CASE Persist
  BY <1>1, <1>3, StoringKeepsMatch
<1>4. ASSUME NEW f, NEW r, Extract(f, r) PROVE KInv'
  BY <1>1, <1>4, ListingStarts
<1>5. ASSUME UNCHANGED <<rows, trajs, occs, extracted, tainted>>,
             \/ ext'.left = ext.left /\ ext.pc = "load" /\ ext'.pc = "rebuild"
             \/ ext'.left = <<>> /\ ext'.pc = "idle"
             \/ ext' = ext
      PROVE  KInv'
  <2>1. \A s \in Sessions : MatchedAt(s)'
    BY <1>5 DEF KInv, MatchedAt, HasTrajectory, SaysImported
  <2>2. Listing'
    <3>1. Listing
      BY DEF KInv
    <3>2. CASE ext'.left = ext.left /\ ext.pc = "load" /\ ext'.pc = "rebuild"
      BY <3>1, <3>2 DEF Listing
    <3>3. CASE ext'.left = <<>> /\ ext'.pc = "idle"
      BY <3>3 DEF Listing
    <3>4. CASE ext' = ext
      BY <3>1, <3>4 DEF Listing
    <3> QED BY <1>5, <3>2, <3>3, <3>4
  <2>3. AllStand'
    BY <1>5 DEF KInv, AllStand, ItemStands, Fresh, HasTrajectory, SaysImported
  <2>4. AtHand'
    BY <1>5 DEF KInv, AtHand, Current, Fresh
  <2> QED BY <1>1, <1>5, <2>1, <2>2, <2>3, <2>4 DEF KInv
<1>6. CASE ExtractStep /\ UNCHANGED <<importVars, stageSix>>
  <2>1. CASE load_occurrences
    <3>1. ext.pc = "load" /\ ext' = [ext EXCEPT !.pc = "rebuild", !.loaded = occs]
      BY <2>1 DEF load_occurrences
    <3>2. ext'.left = ext.left /\ ext'.pc = "rebuild"
      BY <3>1 DEF KInv, EInv, Detected
    <3>3. UNCHANGED <<rows, trajs, occs, extracted, tainted>>
      BY <1>6, <2>1 DEF load_occurrences, importVars
    <3> QED BY <1>5, <3>1, <3>2, <3>3
  <2>2. CASE RebuildFails \/ CrashExtract
    BY <1>5, <1>6, <2>2 DEF RebuildFails, CrashExtract, NotExtracting, importVars
  <2> QED
    BY <1>1, <1>6, <2>1, <2>2, ScanKeepsMatch, DetectionKeepsMatch, MarkingKeepsMatch DEF ExtractStep
<1>7. CASE Rebuild
  BY <1>5, <1>7 DEF Rebuild, rebuild_experiences, NotExtracting, importVars
<1>8. CASE UNCHANGED <<importVars, occs, extracted, tainted, ext>>
  BY <1>5, <1>8 DEF importVars
<1> QED
  BY <1>2, <1>3, <1>4, <1>6, <1>7, <1>8
  DEF Next, set_experience_review, cmd_placements_generate, Write, Keep, replace_placement_proposal_set,
      Refuse, CrashGenerate, extractVars, vars

\* For any sessions, imports, extractions and crashes: a trajectory the next
\* extraction would skip has the occurrences of the events it holds, unless its row
\* was listed in the middle of an import (extract.py:153-158, importer.py:180-214).
THEOREM SkippedAreDetected == Spec => []SkippedIsDetected
<1>1. KInv => SkippedIsDetected
  BY DEF KInv, MatchedAt, SkippedIsDetected
<1> QED BY <1>1, KInvHoldsInitially, KInvIsInductive, PTL DEF Spec

-----------------------------------------------------------------------------
LEMMA EmittedOnce ==
    ASSUME NEW found, NEW o \in Emitted(found), NEW p \in Emitted(found), o.key = p.key, o.class = p.class
    PROVE  o = p
<1> DEFINE alike(q) == {x \in found : <<x.key, x.class>> = <<q.key, q.class>>}
<1>1. alike(o) = alike(p)
  OBVIOUS
<1> QED BY <1>1 DEF Emitted

LEMMA EmittedAreFound ==
    ASSUME NEW found PROVE Emitted(found) \subseteq found
BY DEF Emitted

LEMMA KeyOfOccurrence ==
    \A pattern, key, first, last, class, ante : Occurrence(pattern, key, first, last, class, ante).key = key
BY DEF Occurrence

LEMMA KeyOfRepair ==
    ASSUME NEW evs, NEW o \in failure_repair(evs) PROVE \E c, f : o.key = <<"fr", c, f>>
<1>1. \E c, f, first, last, class, ante :
            o = Occurrence("failure_repair_success", <<"fr", c, f>>, first, last, class, ante)
  BY ZenonT(40) DEF failure_repair
<1> QED BY <1>1, KeyOfOccurrence

LEMMA KeyOfCorrection ==
    ASSUME NEW evs, NEW o \in human_correction_repair(evs) PROVE \E c, f : o.key = <<"hc", c, f>>
<1>1. \E c, f, first, last, class, ante :
            o = Occurrence("human_correction_repair", <<"hc", c, f>>, first, last, class, ante)
  BY DEF human_correction_repair
<1> QED BY <1>1, KeyOfOccurrence

LEMMA OneRepeatedFailure ==
    ASSUME NEW evs, NEW status, NEW o \in repeated_failure(evs, status)
    PROVE  /\ \E s : o.key = <<"rf", s, "">>
           /\ \A p \in repeated_failure(evs, status) : p.key = o.key => p = o
<1> DEFINE text(i) == DiagnosticText(evs, i)
           fails == {i \in DOMAIN evs : /\ evs[i].type \in FailTypes \cup {"error"}
                                        /\ LooksDiagnostic(text(i))}
           hits(s) == {i \in fails : text(i) = s}
           bad == status \in {"partial", "aborted", "failure"}
           class(s) == IF Earliest(hits(s)) # Latest(hits(s)) \/ bad THEN "support" ELSE "ambiguous"
           of(s) == Occurrence("repeated_failure", <<"rf", s, "">>, Earliest(hits(s)), Latest(hits(s)), class(s), {})
<1>1. \A p \in repeated_failure(evs, status) : \E s : p = of(s)
  BY DEF repeated_failure
<1> HIDE DEF hits, class
<1>2. ASSUME NEW s PROVE of(s).key = <<"rf", s, "">>
  <2> DEFINE key == <<"rf", s, "">>
  <2> HIDE DEF key
  <2>1. Occurrence("repeated_failure", key, Earliest(hits(s)), Latest(hits(s)), class(s), {}).key = key
    BY KeyOfOccurrence
  <2> QED BY <2>1 DEF key
<1> HIDE DEF of
<1>0. \A s, t : <<"rf", s, "">> = <<"rf", t, "">> => s = t
  OBVIOUS
<1>3. PICK s : o = of(s) /\ o.key = <<"rf", s, "">>
  BY <1>1, <1>2
<1>4. ASSUME NEW p \in repeated_failure(evs, status), p.key = o.key
      PROVE  p = o
  <2>1. PICK t : p = of(t) /\ p.key = <<"rf", t, "">>
    BY <1>1, <1>2
  <2>2. s = t
    BY <1>0, <1>3, <1>4, <2>1
  <2> QED BY <1>3, <2>1, <2>2
<1> QED BY <1>3, <1>4

\* A session has one occurrence of a group and classification (detect.py:224-242).
LEMMA OncePerSession ==
    ASSUME NEW transcript,
           NEW o \in detect_occurrences(transcript), NEW p \in detect_occurrences(transcript),
           o.key = p.key, o.class = p.class
    PROVE  o = p
<1> DEFINE evs == transcript.events
           FR == Emitted(failure_repair(evs))
           HC == Emitted(human_correction_repair(evs))
           RF == repeated_failure(evs, transcript.status)
           FC == Emitted(file_change_pattern(evs, transcript.status))
           found == FR \cup HC \cup RF
           claimed == {q.key : q \in found}
<1>1. detect_occurrences(transcript) = found \cup {q \in FC : q.key \notin claimed}
  BY DEF detect_occurrences
<1>2. \A q \in FR : \E c, f : q.key = <<"fr", c, f>>
  BY EmittedAreFound, KeyOfRepair
<1>3. \A q \in HC : \E c, f : q.key = <<"hc", c, f>>
  BY EmittedAreFound, KeyOfCorrection
<1>4. \A q \in RF : \E s : q.key = <<"rf", s, "">>
  BY OneRepeatedFailure
<1>5. ASSUME o \in RF, p \in RF PROVE o = p
  BY <1>5, OneRepeatedFailure
<1>6. (o \in FR /\ p \in FR) \/ (o \in HC /\ p \in HC) \/ (o \in FC /\ p \in FC) => o = p
  BY EmittedOnce
<1> HIDE DEF FR, HC, RF, FC
<1>7. \/ o \in found /\ p \in found
      \/ o \in FC /\ p \in FC
  BY <1>1
<1>8. CASE o \in found /\ p \in found
  <2>1. \A a, b, c, d : /\ <<"fr", a, b>> # <<"hc", c, d>>
                        /\ <<"fr", a, b>> # <<"rf", c, d>>
                        /\ <<"hc", a, b>> # <<"rf", c, d>>
    OBVIOUS
  <2>3. \A q \in FR, r \in HC : q.key # r.key
    BY <1>2, <1>3, <2>1
  <2>4. \A q \in FR, r \in RF : q.key # r.key
    <3> TAKE q \in FR, r \in RF
    <3>1. PICK c, f : q.key = <<"fr", c, f>>
      BY <1>2
    <3>2. PICK s : r.key = <<"rf", s, "">>
      BY <1>4
    <3> QED BY <2>1, <3>1, <3>2
  <2>5. \A q \in HC, r \in RF : q.key # r.key
    <3> TAKE q \in HC, r \in RF
    <3>1. PICK c, f : q.key = <<"hc", c, f>>
      BY <1>3
    <3>2. PICK s : r.key = <<"rf", s, "">>
      BY <1>4
    <3> QED BY <2>1, <3>1, <3>2
  <2> QED BY <2>3, <2>4, <2>5, <1>5, <1>6, <1>8
<1> QED BY <1>6, <1>7, <1>8

LEMMA OneItemOfAClass ==
    ASSUME NEW s \in Sessions, NEW v \in 0 .. Versions[s], NEW o \in Items[s][v], NEW p \in Items[s][v],
           o.key = p.key, o.class = p.class
    PROVE  o = p
<1>1. v # 0
  BY DEF Items
<1>2. PICK x \in detect_occurrences(Transcript[s][v]) : o = Item(x, s, RootOf[s])
  BY <1>1 DEF Items
<1>3. PICK y \in detect_occurrences(Transcript[s][v]) : p = Item(y, s, RootOf[s])
  BY <1>1 DEF Items
<1>4. x.key = y.key /\ x.class = y.class
  BY <1>2, <1>3 DEF Item
<1> QED BY <1>2, <1>3, <1>4, OncePerSession

-----------------------------------------------------------------------------
\* The sessions the extraction has still to look at.
Ahead == {ext.left[i].session : i \in DOMAIN ext.left}

Exact(s) == occs[s] = trajs[s].version \/ s \in tainted

\* What an extraction has seen and detected so far, when no import stored a
\* trajectory since it began: those it will skip, those behind it, the one at hand.
SkippedAreExact == \A i \in DOMAIN ext.left : ~ ext.left[i].changed => Exact(ext.left[i].session)

BehindAreExact ==
    ext.filter = None =>
        \A s \in Sessions \ Ahead : HasTrajectory(s) => ext.seen[s] = trajs[s].version /\ Exact(s)

Covers ==
    /\ \A s \in Sessions : ~ HasTrajectory(s) => ext.seen[s] = 0
    /\ SkippedAreExact
    /\ BehindAreExact
    /\ ext.pc \in {"detect", "state"} => ext.seen[Current.session] = trajs[Current.session].version
    /\ ext.pc = "state" => occs[Current.session] = trajs[Current.session].version
    /\ ext.pc = "rebuild" => ext.loaded = occs

CInv == KInv /\ (ext.calm /\ ext.pc # "idle" => Covers)

LEMMA CInvHoldsInitially == ASSUME Init PROVE CInv
<1>1. ext.pc = "idle"
  BY DEF Init, ExtractInit, NotExtracting
<1> QED BY <1>1, KInvHoldsInitially DEF CInv

LEMMA CoverStarts ==
    ASSUME CInv, KInv', NEW f, NEW r, Extract(f, r) PROVE Covers'
<1>1. UNCHANGED <<rows, trajs>>
  BY DEF Extract, importVars
<1>2. PICK todo : /\ todo = Listed(f, extracted')
                  /\ ext' = [NotExtracting EXCEPT !.pc = IF todo = <<>> THEN "load" ELSE "scan",
                                !.filter = f, !.rebuild = r, !.left = todo]
  BY DEF Extract, cmd_experiences_extract, clear_experience_data
<1>3. /\ ext'.left = todo /\ ext'.pc \in {"load", "scan"} /\ ext'.filter = f
      /\ \A s \in Sessions : ext'.seen[s] = 0
  BY <1>2 DEF NotExtracting
<1>4. /\ \A i \in DOMAIN todo : \E s \in Sessions : HasTrajectory(s) /\ todo[i] = ItemOf(s, extracted')
      /\ \A s \in Sessions : HasTrajectory(s) /\ f \in {None, RootOf[s]} =>
             \E i \in DOMAIN todo : todo[i].session = s
  BY <1>2, ListedOnce DEF CInv, KInv
<1>5. ASSUME NEW i \in DOMAIN todo, ~ todo[i].changed PROVE Exact(todo[i].session)'
  <2>1. PICK s \in Sessions : HasTrajectory(s) /\ todo[i] = ItemOf(s, extracted')
    BY <1>4
  <2>2. todo[i].session = s /\ todo[i].changed = (extracted'[s] # rows[s].hash)
    BY <2>1 DEF ItemOf
  <2>3. rows[s].hash \in Nat
    BY <2>1, KFacts DEF CInv
  <2>4. extracted'[s] = rows'[s].hash /\ extracted'[s] # None
    BY <1>1, <1>5, <2>2, <2>3, SessionsAssumption, Zenon
  <2>5. s \in tainted' \/ occs'[s] = trajs'[s].version
    BY <2>4 DEF KInv, MatchedAt
  <2> QED BY <2>2, <2>5 DEF Exact
<1>6. BehindAreExact'
  BY <1>1, <1>3, <1>4 DEF BehindAreExact, Ahead, HasTrajectory
<1>7. SkippedAreExact'
  BY <1>3, <1>5 DEF SkippedAreExact, Exact
<1> QED BY <1>3, <1>6, <1>7 DEF Covers

\* Going on, the session at hand is no longer ahead and the others still are.
LEMMA OnwardLeavesOne ==
    ASSUME KInv, ext.left # <<>>, ext'.left = Tail(ext.left)
    PROVE  /\ \A s : s \in Ahead => s \in Ahead' \/ s = Current.session
           /\ \A i \in DOMAIN ext'.left : i + 1 \in DOMAIN ext.left /\ ext'.left[i] = ext.left[i + 1]
<1>1. ext.left \in Seq(ListItems)
  BY DEF KInv, Listing
<1>2. /\ Len(ext.left) \in Nat \ {0} /\ DOMAIN ext.left = 1 .. Len(ext.left) /\ Current = ext.left[1]
      /\ DOMAIN ext'.left = 1 .. (Len(ext.left) - 1)
      /\ \A i \in DOMAIN ext'.left : i + 1 \in DOMAIN ext.left /\ ext'.left[i] = ext.left[i + 1]
  BY <1>1, TailOfList DEF Current
<1>3. ASSUME NEW i \in DOMAIN ext.left, i # 1
      PROVE  i - 1 \in DOMAIN ext'.left /\ ext'.left[i - 1] = ext.left[i]
  BY <1>2, <1>3
<1>4. \A s : s \in Ahead => s \in Ahead' \/ s = Current.session
  BY <1>2, <1>3 DEF Ahead
<1> QED BY <1>2, <1>4

LEMMA ScanCovers ==
    ASSUME CInv, KInv', ext.calm, Scan, UNCHANGED importVars PROVE Covers'
<1>1. UNCHANGED <<trajs, occs, tainted>> /\ ext.pc = "scan" /\ ext.left # <<>>
  BY DEF Scan, importVars, CInv, KInv, Listing
<1>2. Covers
  BY <1>1 DEF CInv
<1> PICK z \in Sessions : z = Current.session
  BY <1>1, KFacts DEF CInv
<1> DEFINE seen == [ext.seen EXCEPT ![z] = trajs[z].version]
<1>3. seen[z] = trajs[z].version /\ \A s \in Sessions : s # z => seen[s] = ext.seen[s]
  BY DEF CInv, KInv, EInv, Detected
<1>4. HasTrajectory(z) /\ z \in Ahead /\ 1 \in DOMAIN ext.left /\ Current = ext.left[1]
  BY <1>1, KFacts DEF CInv, KInv, AllStand, ItemStands, Ahead
<1>5. \A s \in Sessions : ~ HasTrajectory(s) => seen[s] = 0
  BY <1>2, <1>3, <1>4 DEF Covers
<1>6. CASE Current.changed
  <2>1. /\ ext'.pc = "detect" /\ ext'.left = ext.left /\ ext'.seen = seen /\ ext'.filter = ext.filter
        /\ Current' = Current
    BY <1>6 DEF Scan, CInv, KInv, EInv, Detected, Current
  <2>2. Ahead' = Ahead
    BY <2>1 DEF Ahead
  <2>3. SkippedAreExact'
    BY <1>1, <1>2, <2>1 DEF Covers, SkippedAreExact, Exact
  <2>4. BehindAreExact'
    BY <1>1, <1>2, <1>3, <1>4, <2>1, <2>2 DEF Covers, BehindAreExact, Exact, HasTrajectory
  <2> QED BY <1>1, <1>3, <1>5, <2>1, <2>3, <2>4 DEF Covers, HasTrajectory
<1>7. CASE ~ Current.changed
  <2>1. /\ ext'.left = Tail(ext.left) /\ ext'.pc \in {"load", "scan"}
        /\ ext'.seen = seen /\ ext'.filter = ext.filter
    BY <1>7 DEF Scan, Onward, CInv, KInv, EInv, Detected
  <2>2. /\ \A s : s \in Ahead => s \in Ahead' \/ s = z
        /\ \A i \in DOMAIN ext'.left : i + 1 \in DOMAIN ext.left /\ ext'.left[i] = ext.left[i + 1]
    BY <1>1, <2>1, OnwardLeavesOne DEF CInv
  <2>3. Exact(z)
    BY <1>2, <1>4, <1>7 DEF Covers, SkippedAreExact
  <2>4. SkippedAreExact'
    BY <1>1, <1>2, <2>2 DEF Covers, SkippedAreExact, Exact
  <2>5. BehindAreExact'
    BY <1>1, <1>2, <1>3, <2>1, <2>2, <2>3 DEF Covers, BehindAreExact, Exact, HasTrajectory
  <2> QED BY <1>1, <1>5, <2>1, <2>4, <2>5 DEF Covers, HasTrajectory
<1> QED BY <1>6, <1>7

LEMMA DetectionCovers ==
    ASSUME CInv, KInv', ext.calm, replace_trajectory_occurrences, UNCHANGED importVars PROVE Covers'
<1>1. /\ UNCHANGED <<trajs, tainted>> /\ ext.pc = "detect" /\ ext.left # <<>>
      /\ occs' = [occs EXCEPT ![Current.session] = ext.seen[Current.session]]
      /\ ext' = [ext EXCEPT !.pc = "state"]
  BY DEF replace_trajectory_occurrences, importVars, CInv, KInv, Listing
<1>2. Covers
  BY <1>1 DEF CInv
<1> PICK z \in Sessions : z = Current.session
  BY <1>1, KFacts DEF CInv
<1>3. /\ ext'.pc = "state" /\ ext'.left = ext.left /\ ext'.seen = ext.seen /\ ext'.filter = ext.filter
      /\ Current' = Current /\ Ahead' = Ahead
  BY <1>1 DEF CInv, KInv, EInv, Detected, Current, Ahead
<1>4. occs'[z] = trajs[z].version /\ \A s \in Sessions : s # z => occs'[s] = occs[s]
  BY <1>1, <1>2 DEF Covers, CInv, KInv, EInv, Detected
<1>5. \A s \in Sessions : Exact(s) => Exact(s)'
  BY <1>1, <1>4 DEF Exact
<1>6. SkippedAreExact'
  <2>1. \A i \in DOMAIN ext.left : ~ ext.left[i].changed => \E s \in Sessions : s = ext.left[i].session /\ Exact(s)'
    BY <1>2, <1>5, KFacts DEF Covers, SkippedAreExact, CInv
  <2> QED BY <1>3, <2>1 DEF SkippedAreExact, Exact
<1>7. BehindAreExact'
  BY <1>1, <1>2, <1>3, <1>5 DEF Covers, BehindAreExact, HasTrajectory
<1> QED BY <1>1, <1>2, <1>3, <1>4, <1>6, <1>7 DEF Covers, HasTrajectory

LEMMA MarkingCovers ==
    ASSUME CInv, KInv', ext.calm, set_extraction_state, UNCHANGED importVars PROVE Covers'
<1>1. /\ UNCHANGED <<trajs, occs>> /\ ext.pc = "state" /\ ext.left # <<>>
      /\ tainted' = IF Current.unfinished THEN tainted \cup {Current.session} ELSE tainted \ {Current.session}
      /\ ext' = Onward
  BY DEF set_extraction_state, importVars, CInv, KInv, Listing
<1>2. Covers
  BY <1>1 DEF CInv
<1> PICK z \in Sessions : z = Current.session
  BY <1>1, KFacts DEF CInv
<1>3. /\ ext'.left = Tail(ext.left) /\ ext'.pc \in {"load", "scan"}
      /\ ext'.seen = ext.seen /\ ext'.filter = ext.filter
  BY <1>1 DEF Onward, CInv, KInv, EInv, Detected
<1>4. /\ \A s : s \in Ahead => s \in Ahead' \/ s = z
      /\ \A i \in DOMAIN ext'.left : i + 1 \in DOMAIN ext.left /\ ext'.left[i] = ext.left[i + 1]
  BY <1>1, <1>3, OnwardLeavesOne DEF CInv
<1>5. ext.seen[z] = trajs[z].version /\ occs[z] = trajs[z].version
  BY <1>1, <1>2 DEF Covers
<1>6. \A s \in Sessions : Exact(s) => Exact(s)'
  BY <1>1, <1>5 DEF Exact
<1>7. SkippedAreExact'
  <2>1. \A i \in DOMAIN ext.left : ~ ext.left[i].changed => \E s \in Sessions : s = ext.left[i].session /\ Exact(s)'
    BY <1>2, <1>6, KFacts DEF Covers, SkippedAreExact, CInv
  <2> QED BY <1>4, <2>1 DEF SkippedAreExact, Exact
<1>8. BehindAreExact'
  BY <1>1, <1>2, <1>3, <1>4, <1>5, <1>6 DEF Covers, BehindAreExact, Exact, HasTrajectory
<1> QED BY <1>1, <1>2, <1>3, <1>7, <1>8 DEF Covers, HasTrajectory

LEMMA CInvIsInductive == ASSUME CInv, [Next]_vars PROVE CInv'
<1>1. KInv'
  BY KInvIsInductive DEF CInv
<1> SUFFICES ASSUME ext'.calm, ext'.pc # "idle" PROVE Covers'
  BY <1>1 DEF CInv
<1>2. CASE Persist
  BY <1>2 DEF Persist, CascadeTrajectory, CInv, KInv, EInv, Detected
<1>3. ASSUME NEW f, NEW r, Extract(f, r) PROVE Covers'
  BY <1>1, <1>3, CoverStarts
<1>4. CASE UNCHANGED <<trajs, occs, tainted, ext>>
  BY <1>4 DEF CInv, Covers, SkippedAreExact, BehindAreExact, Ahead, Exact, HasTrajectory, Current
<1>5. CASE ImportStep /\ UNCHANGED <<extractVars, stageSix>>
  <2>1. UNCHANGED trajs
    BY <1>5 DEF ImportStep, AlreadyKnown, Ignore, Resolve, Parse, Finish, Fail, CrashImport, Grow, cmd_init, cmd_import
  <2> QED BY <1>4, <1>5, <2>1 DEF extractVars
<1>6. CASE ExtractStep /\ UNCHANGED <<importVars, stageSix>>
  <2>1. CASE Scan
    <3>1. ext.calm
      BY <2>1 DEF Scan, Onward, CInv, KInv, EInv, Detected
    <3> QED BY <1>1, <1>6, <2>1, <3>1, ScanCovers
  <2>2. CASE replace_trajectory_occurrences
    <3>1. ext.calm
      BY <2>2 DEF replace_trajectory_occurrences, CInv, KInv, EInv, Detected
    <3> QED BY <1>1, <1>6, <2>2, <3>1, DetectionCovers
  <2>3. CASE set_extraction_state
    <3>1. ext.calm
      BY <2>3 DEF set_extraction_state, Onward, CInv, KInv, EInv, Detected
    <3> QED BY <1>1, <1>6, <2>3, <3>1, MarkingCovers
  <2>4. CASE load_occurrences
    <3>1. /\ UNCHANGED <<trajs, occs, tainted>> /\ ext.pc = "load"
          /\ ext' = [ext EXCEPT !.pc = "rebuild", !.loaded = occs]
      BY <1>6, <2>4 DEF load_occurrences, importVars
    <3>2. /\ ext'.pc = "rebuild" /\ ext'.loaded = occs /\ ext'.left = ext.left /\ ext'.seen = ext.seen
          /\ ext'.filter = ext.filter /\ ext'.calm = ext.calm
      BY <3>1 DEF CInv, KInv, EInv, Detected
    <3>3. Covers
      BY <3>1, <3>2 DEF CInv
    <3> QED BY <3>1, <3>2, <3>3 DEF Covers, SkippedAreExact, BehindAreExact, Ahead, Exact, HasTrajectory
  <2>5. CASE RebuildFails \/ CrashExtract
    BY <2>5 DEF RebuildFails, CrashExtract, NotExtracting
  <2> QED BY <1>6, <2>1, <2>2, <2>3, <2>4, <2>5 DEF ExtractStep
<1>7. CASE Rebuild
  BY <1>7 DEF Rebuild, rebuild_experiences, NotExtracting
<1> QED
  BY <1>2, <1>3, <1>4, <1>5, <1>6, <1>7
  DEF Next, set_experience_review, cmd_placements_generate, Write, Keep, replace_placement_proposal_set,
      Refuse, CrashGenerate, importVars, extractVars, vars

-----------------------------------------------------------------------------
LEMMA StoredVersions ==
    ASSUME EInv PROVE \A s \in Sessions : trajs[s].version \in 0 .. Versions[s]
BY SessionsAssumption DEF EInv, IInv, Shaped, Honest

LEMMA LabelsOfFound ==
    ASSUME EInv, NEW o \in Found
    PROVE  /\ o.session \in Sessions /\ HasTrajectory(o.session)
           /\ o \in Items[o.session][trajs[o.session].version]
           /\ o.project = RootOf[o.session] /\ o.class \in {"support", "ambiguous"}
<1>1. PICK s \in Sessions : o \in Items[s][trajs[s].version]
  BY DEF Found
<1>2. trajs[s].version \in 0 .. Versions[s] /\ trajs[s].version # 0
  BY <1>1, StoredVersions, SessionsAssumption DEF Items
<1>3. o.session = s /\ o.class \in {"support", "ambiguous"}
  BY <1>1, <1>2, LabelsOfItems
<1>4. o.project = RootOf[s]
  BY <1>1, <1>2 DEF Items, Item
<1> QED BY <1>1, <1>2, <1>3, <1>4 DEF HasTrajectory

\* The occurrences of a group in these versions of the transcripts.
GroupIn(at, g) == {o \in UNION {Items[s][at[s]] : s \in Sessions} : o.key = g}

\* Of every group, a link to an occurrence names one occurrence.
LEMMA OneLinkEach ==
    ASSUME NEW at, \A s \in Sessions : at[s] \in 0 .. Versions[s], NEW g
    PROVE  IsFiniteSet(GroupIn(at, g)) /\ Cardinality(GroupIn(at, g)) = Cardinality(Links(GroupIn(at, g)))
<1> DEFINE found == GroupIn(at, g)
<1>1. ASSUME NEW o \in found
      PROVE  /\ o.key = g /\ o.session \in Sessions /\ o.class \in {"support", "ambiguous"}
             /\ o \in Items[o.session][at[o.session]] /\ at[o.session] \in 0 .. Versions[o.session]
  <2>1. PICK s \in Sessions : o \in Items[s][at[s]] /\ o.key = g
    BY DEF GroupIn
  <2>2. o.session = s /\ o.class \in {"support", "ambiguous"}
    BY <2>1, LabelsOfItems
  <2> QED BY <2>1, <2>2
<1>2. \A o, p \in found : <<o.session, o.class>> = <<p.session, p.class>> => o = p
  <2> SUFFICES ASSUME NEW o \in found, NEW p \in found, o.session = p.session, o.class = p.class
               PROVE  o = p
    OBVIOUS
  <2>1. p \in Items[o.session][at[o.session]] /\ o.key = p.key
    BY <1>1
  <2> QED BY <1>1, <2>1, OneItemOfAClass
<1>3. IsFiniteSet(Links(found))
  <2>1. IsFiniteSet({"support", "ambiguous"})
    <3>1. IsFiniteSet({"support"}) /\ {"support", "ambiguous"} = {"support"} \cup {"ambiguous"}
      BY FS_Singleton
    <3> QED BY <3>1, FS_AddElement
  <2>2. Links(found) \in SUBSET (Sessions \X {"support", "ambiguous"})
    BY <1>1 DEF Links
  <2> QED BY <2>1, <2>2, SessionsAreFinite, FS_Product, FS_Subset
<1> DEFINE f == [o \in found |-> <<o.session, o.class>>]
<1>4. f \in Bijection(found, Links(found))
  <2>1. f \in [found -> Links(found)]
    BY DEF Links
  <2>2. \A e \in Links(found) : \E o \in found : f[o] = e
    BY DEF Links
  <2>3. \A o, p \in found : f[o] = f[p] => o = p
    BY <1>2
  <2> HIDE DEF f
  <2> QED BY <2>1, <2>2, <2>3 DEF Bijection, Injection, Surjection, IsInjective
<1>5. ExistsBijection(Links(found), found)
  <2>1. ExistsBijection(found, Links(found))
    BY <1>4 DEF ExistsBijection
  <2> QED BY <2>1, Fun_ExistsBijSymmetric
<1> QED BY <1>3, <1>5, FS_Bijection

LEMMA LinksOfFound ==
    ASSUME EInv, NEW g
    PROVE  /\ Links(FoundOf(g)) = LinksOf(g)
           /\ IsFiniteSet(FoundOf(g))
           /\ Cardinality(FoundOf(g)) = Cardinality(LinksOf(g))
           /\ Of(FoundOf(g), "support") # {} <=> Showing(g, "support") # {}
           /\ Projects(FoundOf(g)) = {RootOf[e[1]] : e \in LinksOf(g)}
<1>1. \A s \in Sessions : \A c : s \in Showing(g, c) <=> \E o \in FoundOf(g) : o.session = s /\ o.class = c
  <2> TAKE s \in Sessions
  <2> TAKE c
  <2>1. ASSUME s \in Showing(g, c) PROVE \E o \in FoundOf(g) : o.session = s /\ o.class = c
    <3>1. PICK o \in Items[s][trajs[s].version] : o.key = g /\ o.class = c
      BY <2>1 DEF Showing
    <3>2. trajs[s].version \in 0 .. Versions[s]
      BY StoredVersions
    <3>3. o.session = s
      BY <3>1, <3>2, LabelsOfItems
    <3> QED BY <3>1, <3>3 DEF FoundOf, Found
  <2>2. ASSUME NEW o \in FoundOf(g), o.session = s, o.class = c PROVE s \in Showing(g, c)
    BY <2>2, LabelsOfFound DEF FoundOf, Showing
  <2> QED BY <2>1, <2>2
<1>2. \A o \in FoundOf(g) : o.session \in Sessions /\ o.class \in {"support", "ambiguous"} /\ o.project = RootOf[o.session]
  BY LabelsOfFound DEF FoundOf
<1>3. Links(FoundOf(g)) = LinksOf(g)
  <2>1. ASSUME NEW e \in Links(FoundOf(g)) PROVE e \in LinksOf(g)
    BY <1>1, <1>2 DEF Links, LinksOf
  <2>2. ASSUME NEW e \in LinksOf(g) PROVE e \in Links(FoundOf(g))
    <3>1. PICK s \in Sessions, c \in {"support", "ambiguous"} : e = <<s, c>> /\ s \in Showing(g, c)
      BY DEF LinksOf, Showing
    <3> QED BY <1>1, <3>1 DEF Links
  <2> QED BY <2>1, <2>2
<1>4. IsFiniteSet(FoundOf(g)) /\ Cardinality(FoundOf(g)) = Cardinality(LinksOf(g))
  <2> DEFINE at == [s \in Sessions |-> trajs[s].version]
  <2>1. FoundOf(g) = GroupIn(at, g)
    BY DEF FoundOf, Found, GroupIn
  <2>2. \A s \in Sessions : at[s] \in 0 .. Versions[s]
    BY StoredVersions
  <2> HIDE DEF at
  <2>3. IsFiniteSet(FoundOf(g)) /\ Cardinality(FoundOf(g)) = Cardinality(Links(FoundOf(g)))
    BY <2>1, <2>2, OneLinkEach
  <2> QED BY <1>3, <2>3
<1>5. Of(FoundOf(g), "support") # {} <=> Showing(g, "support") # {}
  <2>1. Showing(g, "support") \subseteq Sessions
    BY DEF Showing
  <2> QED BY <1>1, <1>2, <2>1 DEF Of
<1>6. Projects(FoundOf(g)) = {RootOf[e[1]] : e \in LinksOf(g)}
  <2>1. Projects(FoundOf(g)) = {RootOf[o.session] : o \in FoundOf(g)}
    BY <1>2 DEF Projects
  <2>2. LinksOf(g) = {<<o.session, o.class>> : o \in FoundOf(g)}
    BY <1>3 DEF Links
  <2>3. \A o \in FoundOf(g) : <<o.session, o.class>>[1] = o.session
    OBVIOUS
  <2>4. \A r : r \in {RootOf[e[1]] : e \in LinksOf(g)} <=> \E o \in FoundOf(g) : r = RootOf[o.session]
    BY <2>2, <2>3
  <2> QED BY <2>1, <2>4
<1> QED BY <1>3, <1>4, <1>5, <1>6

-----------------------------------------------------------------------------
\* The contradictions of a group are one for every session that is opposed to it.
LEMMA ContradictionsOfFound ==
    ASSUME EInv, NEW g, NEW profiles,
           profiles = [s \in {t \in Sessions : HasTrajectory(t)} |-> Profiles[s][trajs[s].version]]
    PROVE  /\ Links(synthesize_contradictions(g, FoundOf(g), profiles, RootOf)) =
                  {<<s, "contradiction">> : s \in Opposed(g)}
           /\ Projects(synthesize_contradictions(g, FoundOf(g), profiles, RootOf)) = {RootOf[s] : s \in Opposed(g)}
<1> DEFINE antecedents == UNION {o.ante : o \in FoundOf(g)}
           against(s) == /\ \A o \in FoundOf(g) : o.session # s
                         /\ g[3] \in profiles[s].clean
                         /\ profiles[s].edits \cap antecedents # {}
                         /\ g[2] \notin profiles[s].edits
           opposing == {t \in DOMAIN profiles : against(t)}
           contradiction(s) ==
                Item(Occurrence("failure_repair_success", g, 1, 1, "contradiction", {}), s, RootOf[s])
           C == synthesize_contradictions(g, FoundOf(g), profiles, RootOf)
<1>1. C = IF g[1] # "fr" \/ g[2] \in {"other", "mixed"} THEN {} ELSE {contradiction(s) : s \in opposing}
  BY DEF synthesize_contradictions
<1>2. \A s : (\A o \in FoundOf(g) : o.session # s) <=> (\A e \in LinksOf(g) : e[1] # s)
  <2>1. LinksOf(g) = {<<o.session, o.class>> : o \in FoundOf(g)}
    BY LinksOfFound DEF Links
  <2>2. \A o \in FoundOf(g) : <<o.session, o.class>>[1] = o.session
    OBVIOUS
  <2> QED BY <2>1, <2>2
<1>3. \A s : s \in Opposed(g) <=> s \in opposing /\ g[1] = "fr" /\ g[2] \notin {"other", "mixed"}
  BY <1>2 DEF Opposed
<1>4. \A s : /\ contradiction(s).session = s /\ contradiction(s).class = "contradiction"
             /\ contradiction(s).project = RootOf[s]
  BY DEF Item, Occurrence
<1> HIDE DEF contradiction, opposing
<1>5. C = {contradiction(s) : s \in Opposed(g)}
  BY <1>1, <1>3
<1> HIDE DEF C
<1>6. \A e : e \in Links(C) <=> \E s \in Opposed(g) : e = <<s, "contradiction">>
  BY <1>4, <1>5, SMTT(30) DEF Links
<1>7. \A r : r \in Projects(C) <=> \E s \in Opposed(g) : r = RootOf[s]
  BY <1>4, <1>5 DEF Projects
<1> QED BY <1>6, <1>7 DEF C

\* What an extraction groups that has seen and loaded every trajectory as it is
\* stored is the reference.
LEMMA GroupedIsReference ==
    ASSUME EInv, \A s \in Sessions : ext.seen[s] = trajs[s].version /\ ext.loaded[s] = trajs[s].version
    PROVE  /\ DOMAIN Grouped = DOMAIN Reference
           /\ \A g \in DOMAIN Grouped :
                /\ Grouped[g].status = "candidate" <=> Reference[g].candidate
                /\ Links(Grouped[g].evidence) = Reference[g].evidence
<1> DEFINE profiles == [s \in {t \in Sessions : HasTrajectory(t)} |-> Profiles[s][trajs[s].version]]
           against(k) == IF Cardinality(FoundOf(k)) >= LargerOf(2, MinOccurrences - 1)
                         THEN synthesize_contradictions(k, FoundOf(k), profiles, RootOf) ELSE {}
           evidence(k) == FoundOf(k) \cup against(k)
           groups == {k \in {o.key : o \in Found} :
                          /\ Of(FoundOf(k), "support") # {}
                          /\ Cardinality(FoundOf(k)) >= MinOccurrences - 1}
           confidence(k) == compute_confidence(
                                Cardinality(Of(FoundOf(k), "support")), Cardinality(against(k)), Cardinality(FoundOf(k)),
                                Cardinality(Projects(Of(FoundOf(k), "support"))), Recency(evidence(k), profiles))
           candidate(k) == /\ Cardinality(FoundOf(k)) >= MinOccurrences
                           /\ Cardinality(Projects(evidence(k))) >= MinProjects
<1>1. Grouped = build_experiences(Found, profiles, RootOf)
  <2>1. {s \in Sessions : ext.seen[s] # 0} = {t \in Sessions : HasTrajectory(t)}
    BY DEF HasTrajectory
  <2>2. UNION {Items[s][ext.loaded[s]] : s \in Sessions} = Found
    BY DEF Found
  <2>3. [s \in {s \in Sessions : ext.seen[s] # 0} |-> Profiles[s][ext.seen[s]]] = profiles
    BY <2>1
  <2> QED BY <2>2, <2>3 DEF Grouped
<1>2. build_experiences(Found, profiles, RootOf) =
        [k \in groups |-> [status |-> IF candidate(k) THEN "candidate" ELSE "needs_more_evidence",
                           confidence |-> confidence(k), evidence |-> evidence(k)]]
  BY DEF build_experiences, FoundOf
<1> HIDE DEF confidence, profiles
<1>3. \A k : /\ Links(against(k)) = {<<s, "contradiction">> : s \in Against(k)}
             /\ Projects(against(k)) = {RootOf[s] : s \in Against(k)}
  <2> TAKE k
  <2>1. CASE Cardinality(FoundOf(k)) >= LargerOf(2, MinOccurrences - 1)
    BY <2>1, LinksOfFound, ContradictionsOfFound DEF Against, profiles
  <2>2. CASE ~ Cardinality(FoundOf(k)) >= LargerOf(2, MinOccurrences - 1)
    BY <2>2, LinksOfFound DEF Against, Links, Projects
  <2> QED BY <2>1, <2>2
<1> HIDE DEF against
<1>4. \A k : /\ Links(evidence(k)) = LinksOf(k) \cup {<<s, "contradiction">> : s \in Against(k)}
             /\ Projects(evidence(k)) = {RootOf[e[1]] : e \in LinksOf(k)} \cup {RootOf[s] : s \in Against(k)}
  <2> TAKE k
  <2>1. Links(evidence(k)) = Links(FoundOf(k)) \cup Links(against(k))
    BY DEF Links
  <2>2. Projects(evidence(k)) = Projects(FoundOf(k)) \cup Projects(against(k))
    BY DEF Projects
  <2> QED BY <1>3, <2>1, <2>2, LinksOfFound
<1> HIDE DEF evidence
<1>5. \A k : /\ candidate(k) <=> /\ Cardinality(LinksOf(k)) >= MinOccurrences
                                  /\ Cardinality({RootOf[e[1]] : e \in LinksOf(k)} \cup {RootOf[s] : s \in Against(k)}) >= MinProjects
  BY <1>4, LinksOfFound
<1>6. groups = {h \in Groups : Groupable(h)}
  <2>1. ASSUME NEW k \in groups PROVE k \in Groups /\ Groupable(k)
    <3>1. PICK o \in Found : k = o.key
      BY <2>1
    <3>2. /\ o.session \in Sessions /\ o \in Items[o.session][trajs[o.session].version]
          /\ trajs[o.session].version \in 0 .. Versions[o.session]
      BY <3>1, LabelsOfFound, StoredVersions
    <3>3. Items[o.session][trajs[o.session].version] \in Range(Items[o.session])
      BY <3>2 DEF Range, Items
    <3>4. k \in Groups
      BY <3>1, <3>2, <3>3 DEF Groups
    <3> QED BY <2>1, <3>4, LinksOfFound DEF Groupable
  <2>2. ASSUME NEW k \in Groups, Groupable(k) PROVE k \in groups
    <3>1. Of(FoundOf(k), "support") # {} /\ Cardinality(FoundOf(k)) >= MinOccurrences - 1
      BY <2>2, LinksOfFound DEF Groupable
    <3>2. \E o \in Found : o.key = k
      BY <3>1 DEF Of, FoundOf
    <3> QED BY <3>1, <3>2
  <2> QED BY <2>1, <2>2
<1> HIDE DEF groups, candidate
<1>7. Grouped = [k \in groups |-> [status |-> IF candidate(k) THEN "candidate" ELSE "needs_more_evidence",
                                  confidence |-> confidence(k), evidence |-> evidence(k)]]
  BY <1>1, <1>2
<1>8. DOMAIN Grouped = DOMAIN Reference
  BY <1>6, <1>7 DEF Reference
<1>9. ASSUME NEW g \in DOMAIN Grouped
      PROVE  /\ Grouped[g].status = "candidate" <=> Reference[g].candidate
             /\ Links(Grouped[g].evidence) = Reference[g].evidence
  <2>1. Grouped[g].status = (IF candidate(g) THEN "candidate" ELSE "needs_more_evidence") /\ Grouped[g].evidence = evidence(g)
    BY <1>7, <1>9
  <2>2. /\ Reference[g].candidate = (/\ Cardinality(LinksOf(g)) >= MinOccurrences
                                     /\ Cardinality({RootOf[e[1]] : e \in LinksOf(g)} \cup {RootOf[s] : s \in Against(g)}) >= MinProjects)
        /\ Reference[g].evidence = LinksOf(g) \cup {<<s, "contradiction">> : s \in Against(g)}
    BY <1>8, <1>9 DEF Reference
  <2>3. Grouped[g].status = "candidate" <=> candidate(g)
    BY <2>1
  <2>4. Links(Grouped[g].evidence) = Reference[g].evidence
    BY <1>4, <2>1, <2>2
  <2>5. candidate(g) <=> Reference[g].candidate
    BY <1>5, <2>2, Zenon
  <2> QED BY <2>3, <2>4, <2>5
<1> QED BY <1>8, <1>9

-----------------------------------------------------------------------------
\* How much of each bound is spent (the bounds are the model's, not the code's).
Counters == {"growth", "inits", "imports", "extracts", "generates", "triages", "faults"}

LEMMA SpendingCounts ==
    ASSUME used \in [Counters -> Nat], NEW what \in Counters, Spend(what)
    PROVE  used' \in [Counters -> Nat] /\ used' # used
<1>1. used' = [used EXCEPT ![what] = @ + 1]
  BY DEF Spend
<1>2. used'[what] = used[what] + 1 /\ used[what] \in Nat
  BY <1>1
<1> QED BY <1>1, <1>2

LEMMA CountersStayCounters ==
    ASSUME used \in [Counters -> Nat], [Next]_vars PROVE used' \in [Counters -> Nat]
<1>1. ASSUME used' = used \/ \E what \in Counters : Spend(what) PROVE used' \in [Counters -> Nat]
  BY <1>1, SpendingCounts
<1>2. CASE ImportStep \/ Persist
  BY <1>1, <1>2 DEF ImportStep, AlreadyKnown, Ignore, Resolve, Parse, Finish, Fail, CrashImport, Grow,
     cmd_init, cmd_import, Persist, persist_trajectory, Counters
<1>3. CASE ExtractStep \/ Rebuild \/ \E f, r : Extract(f, r)
  BY <1>1, <1>3 DEF ExtractStep, Scan, replace_trajectory_occurrences, set_extraction_state, load_occurrences,
     RebuildFails, CrashExtract, Rebuild, rebuild_experiences, Extract, cmd_experiences_extract, Counters
<1>4. CASE \/ \E g, t : set_experience_review(g, t)
           \/ cmd_placements_generate \/ (\E g : Write(g)) \/ CrashGenerate \/ UNCHANGED vars
  BY <1>1, <1>4 DEF set_experience_review, cmd_placements_generate, Write, Keep, replace_placement_proposal_set,
     Refuse, CrashGenerate, Counters, vars
<1> QED BY <1>2, <1>3, <1>4 DEF Next

\* An undisturbed extraction of everything has seen and loaded what is stored.
LEMMA RebuildKnowsAll ==
    ASSUME CInv, ext.pc = "rebuild", ext.calm, ext.filter = None, tainted = {}
    PROVE  /\ \A s \in Sessions : ext.seen[s] = trajs[s].version /\ ext.loaded[s] = trajs[s].version
           /\ ext.loaded = occs
<1>1. Covers /\ ext.left = <<>>
  BY DEF CInv, KInv, Listing
<1>2. Ahead = {} /\ ext.loaded = occs
  BY <1>1 DEF Covers, Ahead
<1>3. \A s \in Sessions : HasTrajectory(s) => ext.seen[s] = trajs[s].version /\ occs[s] = trajs[s].version
  BY <1>1, <1>2 DEF Covers, BehindAreExact, Exact
<1>4. \A s \in Sessions : ~ HasTrajectory(s) => ext.seen[s] = 0 /\ occs[s] = 0 /\ trajs[s].version = 0
  BY <1>1 DEF Covers, CInv, KInv, MatchedAt, HasTrajectory
<1> QED BY <1>2, <1>3, <1>4

\* For any transcripts and whatever imports, filtered, rebuilt, crashed and failed
\* extractions came before: an extraction of all projects that no import came in
\* between makes the experiences a first extraction would, out of the occurrences it
\* detected and those it skipped (extract.py:125-134).
THEOREM IncrementalStaysExact == Spec => IncrementalIsExact
<1> DEFINE Rebuilt ==
        (ext.pc = "rebuild" /\ ext'.pc = "idle" /\ used' = used /\ ext.calm /\ ext.filter = None /\ tainted = {})
        => /\ DOMAIN exps' = DOMAIN Reference
           /\ \A g \in DOMAIN exps' : /\ exps'[g].status = "candidate" <=> Reference[g].candidate
                                      /\ exps'[g].evidence = Reference[g].evidence
           FInv == CInv /\ used \in [Counters -> Nat]
<1>1. ASSUME FInv, [Next]_vars PROVE Rebuilt
  <2>1. SUFFICES ASSUME ext.pc = "rebuild", ext'.pc = "idle", used' = used, ext.calm, ext.filter = None, tainted = {}
                 PROVE  /\ DOMAIN exps' = DOMAIN Reference
                        /\ \A g \in DOMAIN exps' : /\ exps'[g].status = "candidate" <=> Reference[g].candidate
                                                   /\ exps'[g].evidence = Reference[g].evidence
    OBVIOUS
  <2>2. /\ \A s \in Sessions : ext.seen[s] = trajs[s].version /\ ext.loaded[s] = trajs[s].version
        /\ ext.loaded = occs
    BY <1>1, <2>1, RebuildKnowsAll
  <2>3. ~ CrashExtract
    BY <1>1, <2>1, SpendingCounts DEF CrashExtract, Counters
  <2>4. ~ RebuildFails
    BY <2>2 DEF RebuildFails, DanglingEvidence
  <2>5. ext' # ext
    BY <2>1
  <2>6. rebuild_experiences
    <3>1. ~ Persist
      BY <1>1, <2>1 DEF Persist, CascadeTrajectory, CInv, KInv, EInv, Detected
    <3>2. ~ ExtractStep
      BY <2>1, <2>3, <2>4
      DEF ExtractStep, Scan, replace_trajectory_occurrences, set_extraction_state, load_occurrences
    <3> QED
      BY <1>1, <2>1, <2>5, <3>1, <3>2
      DEF Next, Rebuild, Extract, cmd_experiences_extract, set_experience_review, cmd_placements_generate, Write,
          Keep, replace_placement_proposal_set, Refuse, CrashGenerate, extractVars, vars
  <2>7. exps' = [g \in DOMAIN Grouped |->
                    [status |-> Grouped[g].status, confidence |-> Grouped[g].confidence,
                     review |-> Review(g), evidence |-> Links(Grouped[g].evidence)]]
    BY <2>6 DEF rebuild_experiences
  <2>8. /\ DOMAIN Grouped = DOMAIN Reference
        /\ \A g \in DOMAIN Grouped :
                /\ Grouped[g].status = "candidate" <=> Reference[g].candidate
                /\ Links(Grouped[g].evidence) = Reference[g].evidence
    BY <1>1, <2>2, GroupedIsReference DEF CInv, KInv
  <2> QED BY <2>7, <2>8
<1>2. Init => FInv
  BY CInvHoldsInitially DEF Init, Counters
<1>3. FInv /\ [Next]_vars => FInv'
  BY CInvIsInductive, CountersStayCounters
<1>4. FInv /\ [Next]_vars => [Rebuilt]_vars
  BY <1>1
<1> QED BY <1>2, <1>3, <1>4, PTL DEF Spec, IncrementalIsExact
=============================================================================
