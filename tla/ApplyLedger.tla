----------------------------- MODULE ApplyLedger -----------------------------
(***************************************************************************)
(* What Apply promises about the disk, whoever runs it and however it      *)
(* ends: TrajWeave writes a policy file only under an intent the database  *)
(* already holds as pending, the bytes it writes are the ones the intent   *)
(* names, an intent is written at most once, and an intent is settled as   *)
(* applied only after its write.  Reviews, previews and processes are not  *)
(* part of this view; people may change the files at any time.             *)
(***************************************************************************)
EXTENDS Naturals, Sequences

CONSTANTS Paths, Files
VARIABLES files,    \* path -> file
          apps,     \* policy_applications, by id
          written   \* the ids whose content has reached the disk

ledgerVars == <<files, apps, written>>

Init ==
    /\ files \in [Paths -> Files]
    /\ apps = <<>>
    /\ written = {}

\* A person, or another program, changes a file.
Outside ==
    /\ \E path \in Paths, file \in Files : files' = [files EXCEPT ![path] = file]
    /\ UNCHANGED <<apps, written>>

Intend ==
    /\ \E path \in Paths, before, after \in Files :
          apps' = Append(apps, [path |-> path, before |-> before,
                                after |-> after, outcome |-> "pending"])
    /\ UNCHANGED <<files, written>>

Write(a) ==
    /\ apps[a].outcome = "pending"
    /\ a \notin written
    /\ files' = [files EXCEPT ![apps[a].path] = apps[a].after]
    /\ written' = written \cup {a}
    /\ UNCHANGED apps

Settle(a) ==
    /\ apps[a].outcome = "pending"
    /\ \E outcome \in {"applied", "already_applied", "safety_refused"} :
          /\ outcome = "applied" => a \in written
          /\ outcome = "already_applied" => a \notin written
          /\ apps' = [apps EXCEPT ![a].outcome = outcome]
    /\ UNCHANGED <<files, written>>

Next ==
    \/ Outside
    \/ Intend
    \/ \E a \in DOMAIN apps : Write(a) \/ Settle(a)

Spec == Init /\ [][Next]_ledgerVars
=============================================================================
