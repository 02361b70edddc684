---------------------------- MODULE SessionImport ----------------------------
(***************************************************************************)
(* Stages 1-3, opting repositories in and importing agent sessions          *)
(* (projects/registry.py, ingest/importer.py and their part of              *)
(* storage/repository.py).                                                  *)
(*                                                                         *)
(* A session is a transcript on disk that its agent keeps appending to; the *)
(* n-th version of it stands for its content and for its hash.  One import  *)
(* command walks over the discovered sessions, writing the row of a session *)
(* and its trajectory in separate transactions.                             *)
(***************************************************************************)
EXTENDS Naturals, Sequences, FiniteSetsExt, Functions

CONSTANTS
    Discovered,  \* the sessions, in the order the adapters find them
    Roots,       \* repositories
    RootOf,      \* session -> the repository its working directory is in
    Versions,    \* session -> how many versions its transcript may go through
    Marked,      \* repositories with a marker when the model starts
    Known,       \* repositories with a row when the model starts
    Stored,      \* the sessions imported before the model starts, in that order
    None,        \* Python's None
    Filters,     \* --project arguments somebody uses, None for none
    MaxImports,  \* bound on import commands
    MaxInits,    \* bound on init commands
    MaxGrowth,   \* bound on versions the agents add
    MaxEvents,   \* bound on growth, inits, triage decisions and faults together
    MaxFaults    \* bound on crashes and on transcripts or transactions that fail

Sessions == {Discovered[i] : i \in DOMAIN Discovered}
Statuses == {"imported", "failed", "ignored_unregistered"}

ASSUME SessionsAssumption ==
    /\ Discovered \in Seq(Sessions) /\ Discovered # <<>>
    /\ RootOf \in [Sessions -> Roots]
    /\ Versions \in [Sessions -> Nat \ {0}]
    /\ Marked \subseteq Roots /\ Known \subseteq Roots
    /\ Stored \in Seq(Sessions)
    /\ \A i, j \in DOMAIN Stored : i # j => Stored[i] # Stored[j]
    /\ \A i \in DOMAIN Stored : RootOf[Stored[i]] \in Known
    /\ Filters \subseteq Roots \cup {None}
    /\ None \notin Nat /\ None \notin [status : Statuses, hash : Nat]

VARIABLES
    files,     \* session -> the version on disk
    marker,    \* repositories with .trajweave/project.json
    projects,  \* repositories with a projects row
    rows,      \* session -> its source_sessions row, or None
    trajs,     \* session -> its trajectory: the version of its events, 0 for none, and its number
    imp,       \* locals of the import command
    used       \* how much of each bound is spent

importVars == <<files, marker, projects, rows, trajs, imp>>

Happens(what, most) ==
    used[what] < most /\ used.growth + used.inits + used.triages + used.faults < MaxEvents
Spend(what) == used' = [used EXCEPT ![what] = @ + 1]

NotImporting == [pc |-> "idle", left |-> <<>>, filter |-> None, hash |-> 0, parsed |-> 0]

NoTrajectory == [version |-> 0, number |-> 0]

ImportInit ==
    /\ files = [s \in Sessions |-> 1]
    /\ marker = Marked
    /\ projects = Known
    /\ rows = [s \in Sessions |-> IF s \in Range(Stored) THEN [status |-> "imported", hash |-> 1] ELSE None]
    /\ trajs = [s \in Sessions |-> IF s \in Range(Stored)
                                  THEN [version |-> 1, number |-> CHOOSE i \in DOMAIN Stored : Stored[i] = s]
                                  ELSE NoTrajectory]
    /\ imp = NotImporting

-----------------------------------------------------------------------------
\* The agent goes on: its transcript only ever grows.
Grow(s) ==
    /\ files[s] < Versions[s]
    /\ Happens("growth", MaxGrowth)
    /\ files' = [files EXCEPT ![s] = @ + 1]
    /\ Spend("growth")
    /\ UNCHANGED <<marker, projects, rows, trajs, imp>>

\* trajweave init writes the marker, then the row; a crash in between leaves a
\* marker that the next import heals the row from.
cmd_init(r) ==
    /\ Happens("inits", MaxInits)
    /\ r \notin marker \/ r \notin projects
    /\ marker' = marker \cup {r}
    /\ projects' \in {projects \cup {r}, projects}
    /\ Spend("inits")
    /\ UNCHANGED <<files, rows, trajs, imp>>

-----------------------------------------------------------------------------
cmd_import(filter) ==
    /\ imp.pc = "idle"
    /\ used.imports < MaxImports
    /\ imp' = [NotImporting EXCEPT !.pc = "take", !.left = Discovered, !.filter = filter]
    /\ Spend("imports")
    /\ UNCHANGED <<files, marker, projects, rows, trajs>>

Session == Head(imp.left)

\* Mutant: the pass does not notice its last session.
Next_unbounded ==
    imp' = [imp EXCEPT !.pc = "take", !.left = Tail(imp.left), !.hash = 0, !.parsed = 0]

\* The pass goes on with the next session, or ends.
Next_session ==
    imp' = [imp EXCEPT !.pc = IF Len(imp.left) = 1 THEN "idle" ELSE "take",
                       !.left = Tail(imp.left), !.hash = 0, !.parsed = 0]

record_source_session(s, status, hash) ==
    rows' = [rows EXCEPT ![s] = [status |-> status, hash |-> hash]]

\* Mutant: any repository will do.
resolve_any_path(s) == RootOf[s] \in Roots

\* A row in the database or, failing that, a marker on disk.
resolve_for_path(s) == RootOf[s] \in projects \cup marker

AlreadyImported(s, hash) ==
    /\ rows[s] # None
    /\ rows[s].status = "imported"
    /\ rows[s].hash = hash

\* Hashes the transcript, and skips it when a row says it is imported so.
AlreadyKnown ==
    /\ imp.pc = "take"
    /\ AlreadyImported(Session, files[Session])
    /\ Next_session
    /\ UNCHANGED <<files, marker, projects, rows, trajs, used>>

Ignore ==
    /\ imp.pc = "take"
    /\ ~ AlreadyImported(Session, files[Session])
    /\ ~ resolve_for_path(Session)
    /\ record_source_session(Session, "ignored_unregistered", files[Session])
    /\ Next_session
    /\ UNCHANGED <<files, marker, projects, trajs, used>>

\* Resolution makes a lost projects row again; a session of another repository
\* than the command's is left alone.
Resolve ==
    /\ imp.pc = "take"
    /\ ~ AlreadyImported(Session, files[Session])
    /\ resolve_for_path(Session)
    /\ projects' = projects \cup {RootOf[Session]}
    /\ IF imp.filter \in {None, RootOf[Session]}
       THEN imp' = [imp EXCEPT !.pc = "parse", !.hash = files[Session]]
       ELSE Next_session
    /\ UNCHANGED <<files, marker, rows, trajs, used>>

\* Mutant: the row says imported from the start.
ParseHopefully ==
    /\ imp.pc = "parse"
    /\ imp' = [imp EXCEPT !.pc = "persist", !.parsed = files[Session]]
    /\ record_source_session(Session, "imported", imp.hash)
    /\ UNCHANGED <<files, marker, projects, trajs, used>>

\* Reads the transcript, which may have grown since it was hashed, and marks the
\* row failed until the trajectory is stored.
Parse ==
    /\ imp.pc = "parse"
    /\ imp' = [imp EXCEPT !.pc = "persist", !.parsed = files[Session]]
    /\ record_source_session(Session, "failed", imp.hash)
    /\ UNCHANGED <<files, marker, projects, trajs, used>>

HasTrajectory(s) == trajs[s].version # 0

Numbers == {trajs[s].number : s \in {t \in Sessions : HasTrajectory(t)}}

\* Mutant: a replaced trajectory gets a number of its own.
_allocate_next_id(s) == IF Numbers = {} THEN 1 ELSE Max(Numbers) + 1

\* The identifier of a trajectory is kept when it is replaced.
_allocate_trajectory_id(s) ==
    IF HasTrajectory(s) THEN trajs[s].number
    ELSE IF Numbers = {} THEN 1 ELSE Max(Numbers) + 1

persist_trajectory ==
    /\ imp.pc = "persist"
    /\ trajs' = [trajs EXCEPT ![Session] =
            [version |-> imp.parsed, number |-> _allocate_trajectory_id(Session)]]
    /\ imp' = [imp EXCEPT !.pc = "finish"]
    /\ UNCHANGED <<files, marker, projects, rows, used>>

Finish ==
    /\ imp.pc = "finish"
    /\ record_source_session(Session, "imported", imp.hash)
    /\ Next_session
    /\ UNCHANGED <<files, marker, projects, trajs, used>>

\* A transcript that cannot be parsed, or a transaction that does not go through:
\* the row says so and the pass goes on.
Fail ==
    /\ imp.pc \in {"parse", "persist", "finish"}
    /\ Happens("faults", MaxFaults)
    /\ record_source_session(Session, "failed", imp.hash)
    /\ Next_session
    /\ Spend("faults")
    /\ UNCHANGED <<files, marker, projects, trajs>>

CrashImport ==
    /\ imp.pc # "idle"
    /\ Happens("faults", MaxFaults)
    /\ imp' = NotImporting
    /\ Spend("faults")
    /\ UNCHANGED <<files, marker, projects, rows, trajs>>

\* Every step but persist_trajectory, whose transaction reaches into Stages 5 and 6.
ImportStep ==
    \/ AlreadyKnown \/ Ignore \/ Resolve \/ Parse \/ Finish \/ Fail \/ CrashImport
    \/ \E s \in Sessions : Grow(s)
    \/ \E r \in Roots : cmd_init(r)
    \/ \E f \in Filters : cmd_import(f)
=============================================================================
