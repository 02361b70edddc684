---------------------- MODULE ImportProofs -----------------------------------
(***************************************************************************)
(* What Stages 1-3 promise holds for any transcripts, repositories and      *)
(* bounds, beside every step of Stages 5 and 6.                             *)
(*                                                                         *)
(* A row is marked imported in another transaction than the trajectory is   *)
(* stored, with a hash read before the transcript was.  The invariant that  *)
(* carries the argument compares versions: a transcript only grows, so what *)
(* was parsed is at least what was hashed and at most what is on disk.      *)
(* When the row's hash is the file's, the two ends meet.                    *)
(***************************************************************************)
EXTENDS PlacementGeneration, TLAPS

\* The tables are functions over the sessions, and the locals a record.
Shaped ==
    /\ files \in [Sessions -> Nat \ {0}]
    /\ \A s \in Sessions : files[s] <= Versions[s]
    /\ rows = [s \in Sessions |-> rows[s]]
    /\ trajs = [s \in Sessions |-> trajs[s]]
    /\ imp = [pc |-> imp.pc, left |-> imp.left, filter |-> imp.filter,
              hash |-> imp.hash, parsed |-> imp.parsed]

Working == {"parse", "persist", "finish"}

SaysImported(s) == rows[s] # None /\ rows[s].status = "imported"

\* A row that says imported is no further than the trajectory, which is no
\* further than the transcript.
Honest ==
    \A s \in Sessions :
        /\ trajs[s].version \in Nat /\ trajs[s].version <= files[s]
        /\ SaysImported(s) =>
                rows[s].hash \in Nat /\ rows[s].hash <= trajs[s].version

\* What the import has read of its session, as far as it has got.
Reading ==
    \A s \in Sessions : imp.pc \in Working /\ s = Session =>
        /\ imp.hash \in Nat /\ imp.hash <= files[s]
        /\ RootOf[s] \in projects
        /\ imp.pc \in {"persist", "finish"} =>
                imp.parsed \in Nat \ {0} /\ imp.hash <= imp.parsed /\ imp.parsed <= files[s]
        /\ imp.pc \in {"persist", "finish"} => ~ SaysImported(s)
        /\ imp.pc = "finish" => imp.hash <= trajs[s].version

\* Every row of a repository goes back to a marker, or was there before.
Registered ==
    /\ projects \subseteq marker \cup Known
    /\ \A s \in Sessions : HasTrajectory(s) => RootOf[s] \in projects

IInv == Shaped /\ Honest /\ Reading /\ Registered

-----------------------------------------------------------------------------
LEMMA IInvHoldsInitially == ASSUME Init PROVE IInv
<1> USE SessionsAssumption
<1>1. \A s \in Range(Stored) : RootOf[s] \in Known
  BY DEF Range
<1>2. Shaped
  BY DEF Init, ImportInit, Shaped, NotImporting
<1>3. Honest
  BY DEF Init, ImportInit, Honest, NoTrajectory, SaysImported
<1>4. Reading
  BY DEF Init, ImportInit, Reading, Working, NotImporting
<1>5. Registered
  BY <1>1 DEF Init, ImportInit, Registered, HasTrajectory, NoTrajectory
<1> QED BY <1>2, <1>3, <1>4, <1>5 DEF IInv

\* A pass that goes on with the next session has read nothing of it.
LEMMA NextSessionReadsNothing ==
    ASSUME Shaped, Next_session
    PROVE  /\ imp' = [pc |-> imp'.pc, left |-> imp'.left, filter |-> imp'.filter,
                      hash |-> imp'.hash, parsed |-> imp'.parsed]
           /\ imp'.pc \notin Working
BY DEF Shaped, Next_session, Working

\* Steps that leave the tables of the import alone.
LEMMA OthersKeep == ASSUME IInv, UNCHANGED importVars PROVE IInv'
BY DEF importVars, IInv, Shaped, Honest, Reading, Registered, Session, HasTrajectory, SaysImported

\* The row of a session changes to one that does not say imported.
LEMMA NotImportedKeeps ==
    ASSUME IInv, NEW t, NEW status, NEW hash, status # "imported",
           record_source_session(t, status, hash), UNCHANGED <<files, trajs>>
    PROVE  Honest' /\ rows' = [s \in Sessions |-> rows'[s]]
BY DEF IInv, Shaped, Honest, SaysImported, record_source_session

LEMMA IInvIsInductive == ASSUME IInv, [Next]_vars PROVE IInv'
<1>1. ASSUME NEW s \in Sessions, Grow(s) PROVE IInv'
  <2>1. /\ files' = [files EXCEPT ![s] = @ + 1]
        /\ UNCHANGED <<marker, projects, rows, trajs, imp>>
    BY <1>1 DEF Grow
  <2>2. /\ files' \in [Sessions -> Nat \ {0}]
        /\ \A t \in Sessions : /\ files[t] \in Nat /\ files[t] <= files'[t]
                               /\ files'[t] <= Versions[t]
    <3>1. files[s] < Versions[s] /\ Versions[s] \in Nat
      BY <1>1, SessionsAssumption DEF Grow
    <3>2. files'[s] = files[s] + 1 /\ \A t \in Sessions : t # s => files'[t] = files[t]
      BY <2>1 DEF IInv, Shaped
    <3>3. files' \in [Sessions -> Nat \ {0}]
      BY <2>1 DEF IInv, Shaped
    <3> QED BY <3>1, <3>2, <3>3 DEF IInv, Shaped
  <2>3. Shaped'
    BY <2>1, <2>2 DEF IInv, Shaped
  <2>4. Honest'
    BY <2>1, <2>2 DEF IInv, Honest, SaysImported
  <2>5. Reading'
    BY <2>1, <2>2 DEF IInv, Reading, Session, SaysImported
  <2>6. Registered'
    BY <2>1 DEF IInv, Registered, HasTrajectory
  <2> QED BY <2>3, <2>4, <2>5, <2>6 DEF IInv
<1>2. ASSUME NEW r \in Roots, cmd_init(r) PROVE IInv'
  BY <1>2 DEF cmd_init, IInv, Shaped, Honest, Reading, Registered, Session, HasTrajectory, SaysImported
<1>3. ASSUME NEW f \in Filters, cmd_import(f) PROVE IInv'
  BY <1>3 DEF cmd_import, NotImporting, Working, IInv, Shaped, Honest, Reading, Registered, HasTrajectory, SaysImported
<1>4. CASE AlreadyKnown
  BY <1>4, NextSessionReadsNothing
     DEF AlreadyKnown, IInv, Shaped, Honest, Reading, Registered, HasTrajectory, SaysImported
<1>5. CASE Ignore
  <2>1. Honest' /\ rows' = [s \in Sessions |-> rows'[s]]
    BY <1>5, NotImportedKeeps DEF Ignore
  <2> QED BY <1>5, <2>1, NextSessionReadsNothing
             DEF Ignore, IInv, Shaped, Reading, Registered, HasTrajectory
<1>6. CASE Resolve
  <2>1. /\ projects' = projects \cup {RootOf[Session]}
        /\ RootOf[Session] \in projects \cup marker
        /\ UNCHANGED <<files, marker, rows, trajs>>
        /\ \/ imp' = [imp EXCEPT !.pc = "parse", !.hash = files[Session]]
           \/ Next_session
    BY <1>6 DEF Resolve, resolve_for_path
  <2>2. Honest' /\ Registered'
    BY <2>1 DEF IInv, Honest, Registered, HasTrajectory, SaysImported
  <2>3. CASE imp' = [imp EXCEPT !.pc = "parse", !.hash = files[Session]]
    <3>1. imp'.pc = "parse" /\ imp'.hash = files[Session] /\ Session' = Session
      BY <2>3 DEF IInv, Shaped, Session
    <3>2. Reading'
      BY <2>1, <3>1 DEF IInv, Shaped, Reading
    <3>3. Shaped'
      BY <2>1, <2>3 DEF IInv, Shaped
    <3> QED BY <2>2, <3>2, <3>3 DEF IInv
  <2>4. CASE Next_session
    BY <2>1, <2>2, <2>4, NextSessionReadsNothing DEF IInv, Shaped, Reading
  <2> QED BY <2>1, <2>3, <2>4
<1>7. CASE Parse
  <2>1. Honest' /\ rows' = [s \in Sessions |-> rows'[s]]
    BY <1>7, NotImportedKeeps DEF Parse
  <2>2. /\ imp.pc = "parse" /\ imp' = [imp EXCEPT !.pc = "persist", !.parsed = files[Session]]
        /\ rows' = [rows EXCEPT ![Session] = [status |-> "failed", hash |-> imp.hash]]
        /\ UNCHANGED <<files, marker, projects, trajs>>
    BY <1>7 DEF Parse, record_source_session
  <2>3. Reading'
    BY <2>2 DEF IInv, Shaped, Reading, Session, Working, SaysImported
  <2> QED BY <2>1, <2>2, <2>3 DEF IInv, Shaped, Registered, HasTrajectory
<1>8. CASE Finish
  <2>1. /\ imp.pc = "finish"
        /\ rows' = [rows EXCEPT ![Session] = [status |-> "imported", hash |-> imp.hash]]
        /\ Next_session
        /\ UNCHANGED <<files, marker, projects, trajs>>
    BY <1>8 DEF Finish, record_source_session
  <2>2. Honest'
    BY <2>1 DEF IInv, Shaped, Honest, Reading, Working, SaysImported
  <2> QED BY <2>1, <2>2, NextSessionReadsNothing
             DEF IInv, Shaped, Reading, Registered, HasTrajectory
<1>9. CASE Fail
  <2>1. Honest' /\ rows' = [s \in Sessions |-> rows'[s]]
    BY <1>9, NotImportedKeeps DEF Fail
  <2> QED BY <1>9, <2>1, NextSessionReadsNothing
             DEF Fail, IInv, Shaped, Reading, Registered, HasTrajectory
<1>10. CASE CrashImport
  BY <1>10 DEF CrashImport, NotImporting, Working, IInv, Shaped, Honest, Reading, Registered, HasTrajectory, SaysImported
<1>11. CASE Persist
  <2>1. /\ imp.pc = "persist"
        /\ \E n : trajs' = [trajs EXCEPT ![Session] = [version |-> imp.parsed, number |-> n]]
        /\ imp' = [imp EXCEPT !.pc = "finish"]
        /\ UNCHANGED <<files, marker, projects, rows>>
    BY <1>11 DEF Persist, persist_trajectory
  <2>2. \A s \in Sessions : /\ s # Session => trajs'[s] = trajs[s]
                            /\ s = Session => trajs'[s].version = imp.parsed
    BY <2>1 DEF IInv, Shaped
  <2>3. Shaped'
    BY <2>1 DEF IInv, Shaped
  <2>4. Honest'
    BY <2>1, <2>2 DEF IInv, Honest, Reading, Working, SaysImported
  <2>5. Reading'
    BY <2>1, <2>2 DEF IInv, Shaped, Reading, Working, Session, SaysImported
  <2>6. Registered'
    BY <2>1, <2>2 DEF IInv, Registered, Reading, Working, HasTrajectory
  <2> QED BY <2>3, <2>4, <2>5, <2>6 DEF IInv
<1>12. CASE UNCHANGED importVars
  BY <1>12, OthersKeep
<1> QED
  BY <1>1, <1>2, <1>3, <1>4, <1>5, <1>6, <1>7, <1>8, <1>9, <1>10, <1>11, <1>12
  DEF Next, ImportStep, Extract, Rebuild, set_experience_review, cmd_placements_generate,
      Write, Keep, replace_placement_proposal_set, Refuse, CrashGenerate, vars

\* For every number of sessions, repositories, imports, extractions and crashes:
\* a session an import would skip is stored as it is on disk (importer.py:143-151).
THEOREM ImportedStaysCurrent == Spec => []ImportedIsCurrent
<1>1. ASSUME IInv PROVE ImportedIsCurrent
  <2>1. SUFFICES ASSUME NEW s \in Sessions, AlreadyImported(s, files[s])
                 PROVE  trajs[s].version = files[s]
    BY DEF ImportedIsCurrent
  <2>2. rows[s].hash \in Nat /\ rows[s].hash <= trajs[s].version /\ rows[s].hash = files[s]
    BY <1>1, <2>1 DEF IInv, Honest, AlreadyImported, SaysImported
  <2>3. trajs[s].version \in Nat /\ trajs[s].version <= files[s]
    BY <1>1, <2>1 DEF IInv, Honest
  <2> QED BY <2>2, <2>3
<1> QED BY <1>1, IInvHoldsInitially, IInvIsInductive, PTL DEF Spec

\* Likewise, only sessions of repositories somebody opted in are ever stored
\* (importer.py:153-170, registry.py:224-282).
THEOREM OnlyOptedInAreStored == Spec => []OptedInOnly
<1>1. IInv => OptedInOnly
  BY DEF IInv, Registered, OptedInOnly
<1> QED BY <1>1, IInvHoldsInitially, IInvIsInductive, PTL DEF Spec

\* A trajectory is never lost to a later import, and keeps the number Stages 5
\* and 6 know it by (repository.py:192-200).
THEOREM TrajectoriesKeepTheirNumber == Spec => TrajectoryKeepsItsNumber
<1> DEFINE Kept == \A s \in Sessions :
                HasTrajectory(s) => HasTrajectory(s)' /\ trajs'[s].number = trajs[s].number
<1>1. ASSUME IInv, [Next]_vars PROVE Kept
  <2>1. CASE Persist
    <3>1. imp.pc = "persist" /\ trajs' = [trajs EXCEPT ![Session] =
                [version |-> imp.parsed, number |-> _allocate_trajectory_id(Session)]]
      BY <2>1 DEF Persist, persist_trajectory
    <3>2. SUFFICES ASSUME NEW s \in Sessions, HasTrajectory(s)
                   PROVE  HasTrajectory(s)' /\ trajs'[s].number = trajs[s].number
      OBVIOUS
    <3>3. CASE s # Session
      BY <1>1, <3>1, <3>2, <3>3 DEF IInv, Shaped, HasTrajectory
    <3>4. CASE s = Session
      <4>1. imp.parsed # 0
        BY <1>1, <3>1, <3>4 DEF IInv, Reading, Working
      <4>2. trajs'[s] = [version |-> imp.parsed, number |-> trajs[s].number]
        BY <1>1, <3>1, <3>2, <3>4 DEF IInv, Shaped, _allocate_trajectory_id
      <4> QED BY <4>1, <4>2 DEF HasTrajectory
    <3> QED BY <3>3, <3>4
  <2>2. CASE UNCHANGED trajs
    BY <2>2 DEF HasTrajectory
  <2> QED
    BY <1>1, <2>1, <2>2
    DEF Next, ImportStep, Grow, cmd_init, cmd_import, AlreadyKnown, Ignore, Resolve, Parse, Finish,
        Fail, CrashImport, Extract, Rebuild, set_experience_review, cmd_placements_generate, Write,
        Keep, replace_placement_proposal_set, Refuse, CrashGenerate, importVars, vars
<1>2. Init => IInv
  BY IInvHoldsInitially
<1>3. IInv /\ [Next]_vars => IInv'
  BY IInvIsInductive
<1>4. IInv /\ [Next]_vars => [Kept]_vars
  BY <1>1
<1> QED BY <1>2, <1>3, <1>4, PTL DEF Spec, TrajectoryKeepsItsNumber
=============================================================================
