------------------------- MODULE ExperienceExtraction -------------------------
(***************************************************************************)
(* Stage 5, `experiences extract` (experience/extract.py and its part of    *)
(* storage/repository.py) over the trajectories SessionImport stores.       *)
(*                                                                         *)
(* Occurrences are detected again only for a trajectory whose transcript    *)
(* hash changed, one trajectory at a time and in two transactions; the      *)
(* experiences are then recomputed from all stored occurrences.  Deleting a *)
(* trajectory or an occurrence deletes, by foreign key, what refers to it.  *)
(***************************************************************************)
EXTENDS SessionImport, ExperienceGrouping

CONSTANTS
    Transcript,   \* session -> version -> [status, events]
    MaxExtracts   \* bound on extract commands

VARIABLES
    occs,       \* session -> the version its stored occurrences were detected in, or 0
    extracted,  \* session -> hash in experience_extraction_state, or None
    exps,       \* the groups with an experiences row -> the row and its evidence
    ext,        \* locals of the extract command
    tainted,    \* history: sessions whose state came from the row of an unfinished import
    vanished    \* history: groups an extraction dropped

extractVars == <<occs, extracted, exps, ext, tainted, vanished>>

\* What detection and profiling make of every version of every transcript.
Items == [s \in Sessions |-> [v \in 0 .. Versions[s] |->
            IF v = 0 THEN {}
            ELSE {Item(o, s, RootOf[s]) : o \in detect_occurrences(Transcript[s][v])}]]
Profiles == [s \in Sessions |-> [v \in 1 .. Versions[s] |-> build_profile(Transcript[s][v])]]
Groups == {o.key : o \in UNION {UNION Range(Items[s]) : s \in Sessions}}

NotExtracting == [pc |-> "idle", filter |-> None, rebuild |-> FALSE, left |-> <<>>,
                  seen |-> [s \in Sessions |-> 0], loaded |-> [s \in Sessions |-> 0], calm |-> TRUE]

ExtractInit ==
    /\ occs = [s \in Sessions |-> 0]
    /\ extracted = [s \in Sessions |-> None]
    /\ exps = [g \in {} |-> None]
    /\ ext = NotExtracting
    /\ tainted = {}
    /\ vanished = {}

Classes == {"support", "ambiguous", "contradiction"}

\* experience_evidence without the rows of the occurrences deleted of some sessions.
Unlinked(sessions, classes) ==
    exps' = [g \in DOMAIN exps |-> [exps[g] EXCEPT !.evidence = @ \ (sessions \X classes)]]

-----------------------------------------------------------------------------
\* Mutant: only the occurrences go with the trajectory, not the evidence.
CascadeKeepingEvidence(s) ==
    /\ occs' = [occs EXCEPT ![s] = 0]
    /\ extracted' = [extracted EXCEPT ![s] = None]
    /\ ext' = [ext EXCEPT !.calm = FALSE]
    /\ tainted' = tainted \ {s}
    /\ UNCHANGED <<exps, vanished>>

\* Mutant: the extraction state is not tied to the trajectory.
CascadeKeepingState(s) ==
    /\ occs' = [occs EXCEPT ![s] = 0]
    /\ Unlinked({s}, Classes)
    /\ ext' = [ext EXCEPT !.calm = FALSE]
    /\ tainted' = tainted \ {s}
    /\ UNCHANGED <<extracted, vanished>>

\* Replacing a trajectory deletes all that Stage 5 derived from it.
CascadeTrajectory(s) ==
    /\ occs' = [occs EXCEPT ![s] = 0]
    /\ extracted' = [extracted EXCEPT ![s] = None]
    /\ Unlinked({s}, Classes)
    /\ ext' = [ext EXCEPT !.calm = FALSE]
    /\ tainted' = tainted \ {s}
    /\ UNCHANGED vanished

\* --rebuild forgets the occurrences and the state of every project.
clear_experience_data ==
    /\ occs' = [s \in Sessions |-> 0]
    /\ extracted' = [s \in Sessions |-> None]
    /\ Unlinked(Sessions, Classes)
    /\ tainted' = {}

\* ORDER BY the trajectories' numbers.
Ordered(listed) ==
    CHOOSE order \in [1 .. Cardinality(listed) -> listed] :
        \A i, j \in DOMAIN order : i < j => trajs[order[i]].number < trajs[order[j]].number

\* list_trajectories_for_extraction with the hash of the session's row, and
\* whether the state knows that hash.
Listed(filter, state) ==
    LET inOrder == Ordered({s \in Sessions : HasTrajectory(s) /\ filter \in {None, RootOf[s]}})
    IN [i \in DOMAIN inOrder |->
            [session |-> inOrder[i], hash |-> rows[inOrder[i]].hash,
             changed |-> state[inOrder[i]] # rows[inOrder[i]].hash,
             unfinished |-> rows[inOrder[i]].status # "imported"]]

cmd_experiences_extract(filter, rebuild) ==
    /\ ext.pc = "idle"
    /\ used.extracts < MaxExtracts
    /\ filter \in projects \cup {None}
    /\ IF rebuild THEN clear_experience_data ELSE UNCHANGED <<occs, extracted, exps, tainted>>
    /\ LET todo == Listed(filter, IF rebuild THEN [s \in Sessions |-> None] ELSE extracted)
       IN ext' = [NotExtracting EXCEPT !.pc = IF todo = <<>> THEN "load" ELSE "scan",
                        !.filter = filter, !.rebuild = rebuild, !.left = todo]
    /\ Spend("extracts")
    /\ UNCHANGED vanished

Current == Head(ext.left)
Onward == [ext EXCEPT !.pc = IF Len(ext.left) = 1 THEN "load" ELSE "scan", !.left = Tail(ext.left)]

\* Mutant: the state is written with the occurrences still to come.
ScanMarking ==
    /\ ext.pc = "scan"
    /\ LET seen == [ext.seen EXCEPT ![Current.session] = trajs[Current.session].version]
       IN ext' = IF Current.changed THEN [ext EXCEPT !.pc = "detect", !.seen = seen]
                 ELSE [Onward EXCEPT !.seen = seen]
    /\ extracted' = [extracted EXCEPT ![Current.session] = Current.hash]
    /\ UNCHANGED <<occs, exps, tainted, vanished, used>>

\* Reads the events of a trajectory for its profile and, when it is new or its
\* hash changed, for detection.
Scan ==
    /\ ext.pc = "scan"
    /\ LET seen == [ext.seen EXCEPT ![Current.session] = trajs[Current.session].version]
       IN ext' = IF Current.changed THEN [ext EXCEPT !.pc = "detect", !.seen = seen]
                 ELSE [Onward EXCEPT !.seen = seen]
    /\ UNCHANGED <<occs, extracted, exps, tainted, vanished, used>>

replace_trajectory_occurrences ==
    /\ ext.pc = "detect"
    /\ occs' = [occs EXCEPT ![Current.session] = ext.seen[Current.session]]
    /\ Unlinked({Current.session}, Classes \ {"contradiction"})
    /\ ext' = [ext EXCEPT !.pc = "state"]
    /\ UNCHANGED <<extracted, tainted, vanished, used>>

set_extraction_state ==
    /\ ext.pc = "state"
    /\ extracted' = [extracted EXCEPT ![Current.session] = Current.hash]
    /\ tainted' = IF Current.unfinished THEN tainted \cup {Current.session}
                  ELSE tainted \ {Current.session}
    /\ ext' = Onward
    /\ UNCHANGED <<occs, exps, vanished, used>>

\* All supporting and ambiguous occurrences of all projects.
load_occurrences ==
    /\ ext.pc = "load"
    /\ ext' = [ext EXCEPT !.pc = "rebuild", !.loaded = occs]
    /\ UNCHANGED <<occs, extracted, exps, tainted, vanished, used>>

-----------------------------------------------------------------------------
\* The grouping of what was loaded; only what this run scanned has a profile.
Grouped ==
    LET scanned == {s \in Sessions : ext.seen[s] # 0}
    IN build_experiences(UNION {Items[s][ext.loaded[s]] : s \in Sessions},
                         [s \in scanned |-> Profiles[s][ext.seen[s]]], RootOf)

Links(evidence) == {<<o.session, o.class>> : o \in evidence}

\* Mutant: the new rows start without the triage of the old ones.
NoReview(g) == "unreviewed"

Review(g) == IF g \in DOMAIN exps THEN exps[g].review ELSE "unreviewed"

\* Evidence of an occurrence deleted since it was loaded breaks the foreign key
\* and with it the whole transaction.
DanglingEvidence ==
    \E s \in Sessions : /\ occs[s] # ext.loaded[s]
                        /\ \E g \in DOMAIN Grouped : \E o \in Grouped[g].evidence :
                                o.session = s /\ o.class # "contradiction"

\* One transaction replaces all experiences; those whose group is there already
\* keep their identifier and their triage.
rebuild_experiences ==
    /\ ext.pc = "rebuild"
    /\ ~ DanglingEvidence
    /\ LET grouped == Grouped
       IN /\ exps' = [g \in DOMAIN grouped |->
                        [status |-> grouped[g].status, confidence |-> grouped[g].confidence,
                         review |-> Review(g), evidence |-> Links(grouped[g].evidence)]]
          /\ vanished' = vanished \cup (DOMAIN exps \ DOMAIN grouped)
    /\ ext' = NotExtracting
    /\ UNCHANGED <<occs, extracted, tainted, used>>

RebuildFails ==
    /\ ext.pc = "rebuild"
    /\ DanglingEvidence
    /\ ext' = NotExtracting
    /\ UNCHANGED <<occs, extracted, exps, tainted, vanished, used>>

\* The command is killed, or a transaction of it does not go through.
CrashExtract ==
    /\ ext.pc # "idle"
    /\ Happens("faults", MaxFaults)
    /\ ext' = NotExtracting
    /\ Spend("faults")
    /\ UNCHANGED <<occs, extracted, exps, tainted, vanished>>

\* Every step but rebuild_experiences, which deletes the proposals of Stage 6,
\* and the start of a command.
ExtractStep ==
    \/ Scan \/ replace_trajectory_occurrences \/ set_extraction_state
    \/ load_occurrences \/ RebuildFails \/ CrashExtract
=============================================================================
