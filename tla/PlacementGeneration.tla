------------------------- MODULE PlacementGeneration -------------------------
(***************************************************************************)
(* Stages 1-6 together: sessions are imported, experiences extracted from   *)
(* them and triaged by a person, and placement proposals generated          *)
(* (placement/generate.py and its part of storage/repository.py).           *)
(*                                                                         *)
(* An import runs beside the other commands; extract and generate are run   *)
(* one after the other; a person triages in the viewer at any time.         *)
(***************************************************************************)
EXTENDS ExperienceExtraction, PlacementScoring

CONSTANTS
    Triages,      \* triage statuses a person may choose
    MaxTriages,   \* bound on triage decisions
    MaxCommands   \* bound on extract and generate commands together

VARIABLES
    sets,     \* the groups with a proposal set -> its fingerprinted inputs and its ranking
    gen,      \* locals of the generate command: the work it has left
    triaged,  \* history: group -> the last triage a person gave it
    late      \* history: groups triaged while a generate command had them in its work

stageSix == <<sets, gen, triaged, late>>
vars == <<importVars, extractVars, stageSix, used>>

Excluded == {"false_positive", "needs_more_evidence"}

NotGenerating == [pc |-> "idle", work |-> <<>>, calm |-> TRUE]

Init ==
    /\ ImportInit
    /\ ExtractInit
    /\ sets = [g \in {} |-> None]
    /\ gen = NotGenerating
    /\ triaged = [g \in Groups |-> "unreviewed"]
    /\ late = {}
    /\ used = [growth |-> 0, inits |-> 0, imports |-> 0, extracts |-> 0,
               generates |-> 0, triages |-> 0, faults |-> 0]

-----------------------------------------------------------------------------
\* Replacing a trajectory reaches through occurrences and evidence.
Persist ==
    /\ persist_trajectory
    /\ CascadeTrajectory(Session)
    /\ gen' = [gen EXCEPT !.calm = FALSE]
    /\ UNCHANGED <<sets, triaged, late>>

Extract(filter, rebuild) ==
    /\ gen.pc = "idle"
    /\ used.extracts + used.generates < MaxCommands
    /\ cmd_experiences_extract(filter, rebuild)
    /\ UNCHANGED <<importVars, stageSix>>

\* DELETE FROM experiences takes every proposal set with it.
Rebuild ==
    /\ rebuild_experiences
    /\ sets' = [g \in {} |-> None]
    /\ late' = {}
    /\ UNCHANGED <<importVars, gen, triaged>>

\* Mutant: the proposals outlive the exclusion.
set_review_only(g, status) ==
    /\ Happens("triages", MaxTriages)
    /\ g \in DOMAIN exps
    /\ exps' = [exps EXCEPT ![g].review = status]
    /\ triaged' = [triaged EXCEPT ![g] = status]
    /\ gen' = [gen EXCEPT !.calm = FALSE]
    /\ Spend("triages")
    /\ UNCHANGED <<importVars, occs, extracted, ext, tainted, vanished, sets, late>>

\* A triage that excludes an experience deletes its proposals with it.
set_experience_review(g, status) ==
    /\ Happens("triages", MaxTriages)
    /\ g \in DOMAIN exps
    /\ exps' = [exps EXCEPT ![g].review = status]
    /\ triaged' = [triaged EXCEPT ![g] = status]
    /\ sets' = IF status \in Excluded THEN [h \in DOMAIN sets \ {g} |-> sets[h]] ELSE sets
    /\ late' = IF g \in DOMAIN gen.work THEN late \cup {g}
               ELSE IF status \in Excluded THEN late \ {g} ELSE late
    /\ gen' = [gen EXCEPT !.calm = FALSE]
    /\ Spend("triages")
    /\ UNCHANGED <<importVars, occs, extracted, ext, tainted, vanished>>

-----------------------------------------------------------------------------
Eligible(g) ==
    /\ g \in DOMAIN exps
    /\ exps[g].status = "candidate"
    /\ exps[g].review \notin Excluded

\* The evidence rows of an experience joined with their occurrences.
get_placement_evidence(g) ==
    {o \in UNION {Items[s][occs[s]] : s \in Sessions} : o.key = g /\ <<o.session, o.class>> \in exps[g].evidence}
        \cup {[class |-> "contradiction", session |-> e[1], project |-> RootOf[e[1]]] :
                e \in {d \in exps[g].evidence : d[2] = "contradiction"}}

\* What the fingerprint hashes: the experience, its evidence with the occurrences
\* as they were detected, and their events.
_fingerprint(g) ==
    [status |-> exps[g].status, confidence |-> exps[g].confidence, review |-> exps[g].review,
     evidence |-> exps[g].evidence, found |-> get_placement_evidence(g),
     read |-> [s \in {e[1] : e \in exps[g].evidence} |-> trajs[s].version]]

\* The pattern of the experience's row, as far as its actionability tells apart.
Headline(g) == IF g[1] = "rf" THEN "repeated_failure" ELSE "failure_repair_success"

Ranked(g) ==
    LET evidence == get_placement_evidence(g)
    IN build_proposals(extract_features(Headline(g), exps[g].confidence, evidence,
            [s \in {o.session : o \in evidence} |-> Transcript[s][trajs[s].version].events]))

\* Reads every eligible experience before it writes anything.
cmd_placements_generate ==
    /\ gen.pc = "idle" /\ ext.pc = "idle"
    /\ used.extracts + used.generates < MaxCommands
    /\ LET work == [g \in {h \in Groups : Eligible(h)} |->
                        [inputs |-> _fingerprint(g), ranked |-> Ranked(g)]]
       IN gen' = [pc |-> IF DOMAIN work = {} THEN "idle" ELSE "write", work |-> work, calm |-> TRUE]
    /\ Spend("generates")
    /\ UNCHANGED <<importVars, extractVars, sets, triaged, late>>

Done(g) ==
    gen' = IF DOMAIN gen.work = {g} THEN NotGenerating
           ELSE [gen EXCEPT !.work = [h \in DOMAIN @ \ {g} |-> @[h]]]

\* Mutant: a set is kept for as long as the experience's own row is the same.
UnchangedRow(g) ==
    /\ g \in DOMAIN sets
    /\ sets[g].inputs.confidence = gen.work[g].inputs.confidence
    /\ sets[g].inputs.review = gen.work[g].inputs.review

Unchanged(g) == g \in DOMAIN sets /\ sets[g].inputs = gen.work[g].inputs

\* A set with the same fingerprint stays as it is.
Keep(g) ==
    /\ Unchanged(g)
    /\ Done(g)
    /\ UNCHANGED <<importVars, extractVars, sets, triaged, late, used>>

\* The evidence a proposal links to must still be its experience's.
Belongs(g) == g \in DOMAIN exps /\ gen.work[g].inputs.evidence \subseteq exps[g].evidence

replace_placement_proposal_set(g) ==
    /\ ~ Unchanged(g)
    /\ Belongs(g)
    /\ sets' = [h \in DOMAIN sets \cup {g} |-> IF h = g THEN gen.work[g] ELSE sets[h]]
    /\ Done(g)
    /\ UNCHANGED <<importVars, extractVars, triaged, late, used>>

\* A ValueError ends the command; the sets it wrote stay.
Refuse(g) ==
    /\ ~ Unchanged(g)
    /\ ~ Belongs(g)
    /\ gen' = NotGenerating
    /\ UNCHANGED <<importVars, extractVars, sets, triaged, late, used>>

CrashGenerate ==
    /\ gen.pc # "idle"
    /\ Happens("faults", MaxFaults)
    /\ gen' = NotGenerating
    /\ Spend("faults")
    /\ UNCHANGED <<importVars, extractVars, sets, triaged, late>>

Write(g) == Keep(g) \/ replace_placement_proposal_set(g) \/ Refuse(g)

Next ==
    \/ ImportStep /\ UNCHANGED <<extractVars, stageSix>>
    \/ Persist
    \/ \E f \in Filters, r \in BOOLEAN : Extract(f, r)
    \/ ExtractStep /\ UNCHANGED <<importVars, stageSix>>
    \/ Rebuild
    \/ \E g \in Groups, t \in Triages : set_experience_review(g, t)
    \/ cmd_placements_generate
    \/ \E g \in DOMAIN gen.work : Write(g)
    \/ CrashGenerate

Spec == Init /\ [][Next]_vars

-----------------------------------------------------------------------------
\* The tables and the locals of the commands hold what their columns and
\* dataclasses allow; an import under way has a session before it, and
\* trajectory numbers are unique.
TypeOK ==
    /\ files \in [Sessions -> Nat] /\ \A s \in Sessions : files[s] \in 1 .. Versions[s]
    /\ marker \subseteq Roots /\ projects \subseteq Roots
    /\ \A s \in Sessions : rows[s] # None => rows[s] \in [status : Statuses, hash : 1 .. Versions[s]]
    /\ \A s \in Sessions : HasTrajectory(s) => trajs[s].version \in 1 .. Versions[s] /\ trajs[s].number \in Nat
    /\ \A s, t \in Sessions : s # t /\ HasTrajectory(s) /\ HasTrajectory(t) => trajs[s].number # trajs[t].number
    /\ imp.pc \in {"idle", "take", "parse", "persist", "finish"}
    /\ imp.pc = "idle" \/ imp.left # <<>>
    /\ \A s \in Sessions : occs[s] \in 0 .. Versions[s] /\ (extracted[s] # None => HasTrajectory(s))
    /\ \A g \in DOMAIN exps :
            /\ exps[g].status \in {"candidate", "needs_more_evidence"}
            /\ exps[g].confidence \in 0 .. 100
            /\ exps[g].evidence \subseteq Sessions \X Classes
    /\ ext.pc \in {"idle", "scan", "detect", "state", "load", "rebuild"}
    /\ ext.pc \in {"scan", "detect", "state"} => ext.left # <<>>
    /\ gen.pc = "idle" <=> gen.work = <<>>
    /\ DOMAIN sets \subseteq DOMAIN exps

\* Only sessions of repositories somebody opted in leave a trajectory, and the
\* trajectory's project has its row (importer.py:153-170, registry.py:224-282).
OptedInOnly ==
    \A s \in Sessions : HasTrajectory(s) =>
        /\ RootOf[s] \in projects
        /\ RootOf[s] \in marker \cup Known

\* What a row calls imported, and an import would skip, is stored as it is on
\* disk, whatever failed, died or grew in between (importer.py:143-151).
ImportedIsCurrent ==
    \A s \in Sessions : AlreadyImported(s, files[s]) => trajs[s].version = files[s]

\* An imported session again keeps its trajectory and its number, which all of
\* Stages 5 and 6 refer to (repository.py:192-200).
TrajectoryKeepsItsNumber ==
    [][\A s \in Sessions : HasTrajectory(s) => HasTrajectory(s)' /\ trajs'[s].number = trajs[s].number]_vars

\* No evidence of an experience is about an occurrence that is gone, however
\* imports and extractions overlap (0002_experience.sql:68-73).
EvidenceStands ==
    \A g \in DOMAIN exps :
        \A e \in exps[g].evidence :
            e[2] = "contradiction" \/ \E o \in Items[e[1]][occs[e[1]]] : o.key = g /\ o.class = e[2]

\* A trajectory the next extraction would skip has the occurrences of the events
\* it holds, unless its row was read in the middle of an import: then the hash was
\* already the new one (extract.py:153-158, importer.py:180-214).
SkippedIsDetected ==
    \A s \in Sessions \ tainted :
        HasTrajectory(s) /\ extracted[s] # None /\ extracted[s] = rows[s].hash
            => occs[s] = trajs[s].version

\* What the experiences should be, from the stored trajectories alone: every
\* occurrence, those of a group, the sessions that show a group and those whose
\* profile speaks against it.
Found == UNION {Items[s][trajs[s].version] : s \in Sessions}
FoundOf(g) == {o \in Found : o.key = g}

Showing(g, class) ==
    {s \in Sessions : HasTrajectory(s) /\ \E o \in Items[s][trajs[s].version] : o.key = g /\ o.class = class}

LinksOf(g) ==
    {<<s, "support">> : s \in Showing(g, "support")} \cup {<<s, "ambiguous">> : s \in Showing(g, "ambiguous")}

Opposed(g) ==
    {s \in Sessions :
        /\ HasTrajectory(s)
        /\ \A e \in LinksOf(g) : e[1] # s
        /\ g[1] = "fr" /\ g[2] \notin {"other", "mixed"}
        /\ g[3] \in Profiles[s][trajs[s].version].clean
        /\ Profiles[s][trajs[s].version].edits \cap UNION {o.ante : o \in FoundOf(g)} # {}
        /\ g[2] \notin Profiles[s][trajs[s].version].edits}

Against(g) == IF Cardinality(LinksOf(g)) >= LargerOf(2, MinOccurrences - 1) THEN Opposed(g) ELSE {}

Groupable(g) == Showing(g, "support") # {} /\ Cardinality(LinksOf(g)) >= MinOccurrences - 1

Reference ==
    [g \in {h \in Groups : Groupable(h)} |->
        [candidate |-> /\ Cardinality(LinksOf(g)) >= MinOccurrences
                       /\ Cardinality({RootOf[e[1]] : e \in LinksOf(g)} \cup {RootOf[s] : s \in Against(g)}) >= MinProjects,
         evidence |-> LinksOf(g) \cup {<<s, "contradiction">> : s \in Against(g)}]]

\* An extraction over all projects that no import came in between ends with the
\* experiences a first one would find, after whatever crashes, filtered runs and
\* re-imports: being incremental changes nothing (extract.py:125-134).
IncrementalIsExact ==
    [][(ext.pc = "rebuild" /\ ext'.pc = "idle" /\ used' = used /\ ext.calm /\ ext.filter = None /\ tainted = {})
        => /\ DOMAIN exps' = DOMAIN Reference
           /\ \A g \in DOMAIN exps' : /\ exps'[g].status = "candidate" <=> Reference[g].candidate
                                      /\ exps'[g].evidence = Reference[g].evidence]_vars

\* An experience shows the last triage a person gave its group, as long as no
\* extraction dropped the group in between (repository.py:586-636).
TriageKept ==
    \A g \in DOMAIN exps \ vanished : exps[g].review = triaged[g]

\* Human triage is never lost when the aggregate is recomputed
\* (docs/stages/STAGE_5_REPORT.md:113-115).
TriageSurvives ==
    \A g \in DOMAIN exps : exps[g].review = triaged[g]

\* Proposals exist for eligible experiences only, but for those a person excluded
\* while a generate command already had them in its work (repository.py:728-740).
ProposalsAreEligible ==
    \A g \in DOMAIN sets : Eligible(g) \/ g \in late

\* A generate command nothing came in between leaves every eligible experience
\* with the proposals of its evidence as it is now, and refuses none
\* (generate.py:139-157).
GenerationIsExact ==
    [][(gen.pc = "write" /\ gen'.pc = "idle" /\ used' = used /\ gen.calm)
        => \A g \in Groups : Eligible(g) => g \in DOMAIN sets' /\ sets'[g] = [inputs |-> _fingerprint(g), ranked |-> Ranked(g)]]_vars
=============================================================================
