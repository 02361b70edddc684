---------------------------- MODULE PolicyTarget ----------------------------
(***************************************************************************)
(* Policy files and the managed blocks in them (review/targets.py).        *)
(*                                                                         *)
(* A policy file is human text plus at most one managed block per key.     *)
(* Where in the text a block stands, its line endings and its marker       *)
(* syntax are abstracted away: two files are equal, and so are their       *)
(* SHA-256 hashes, exactly when their human text and their blocks are.     *)
(***************************************************************************)
CONSTANTS
    Agents,      \* the policy agents in use, out of codex and claude
    Placements,  \* the placement types in use
    Contents,    \* bodies a managed block can have
    Reserved,    \* those that hold TrajWeave marker syntax
    HumanTexts,  \* what a person may have written in a policy file
    None,        \* Python's None
    Missing      \* the policy file does not exist

\* Human text that no read or render accepts: malformed or duplicated markers,
\* bytes that are not UTF-8, a NUL byte.
Unsafe == "unsafe"

\* The human part of a file that TrajWeave itself creates.
Blank == "blank"
FrontMatter == "front matter"

AllPlacements == {"ignore", "global_rule", "project_rule", "scoped_rule", "skill"}

ASSUME AgentsAssumption == Agents \subseteq {"codex", "claude"}
ASSUME PlacementsAssumption == Placements \subseteq AllPlacements
ASSUME ContentsAssumption == None \notin Contents /\ Reserved \subseteq Contents
ASSUME HumanTextsAssumption == {Blank, FrontMatter} \subseteq HumanTexts

AgentFile(agent) == IF agent = "codex" THEN "AGENTS.md" ELSE "CLAUDE.md"

\* A path is a pair of an approved root and a file name under it: the
\* repository, or the global policy directory of one agent.
Path(root, name) == <<root, name>>

DefaultPath(placement, agent) ==
    CASE placement = "global_rule" -> Path(agent, AgentFile(agent))
      [] placement = "skill"       -> Path("repo", "SKILL.md")
      [] OTHER                     -> Path("repo", AgentFile(agent))

Paths == {DefaultPath(pt, ag) : pt \in Placements \ {"ignore"}, ag \in Agents}

\* The approved locations an explicit target may name.
InRoot(placement, agent, target) ==
    /\ target[1] = (IF placement = "global_rule" THEN agent ELSE "repo")
    /\ placement = "skill" => target[2] = "SKILL.md"

\* resolve_target raises SafetyError unless this holds.
Resolvable(placement, agent, target) ==
    /\ placement # "ignore"
    /\ agent # None
    /\ target # None => InRoot(placement, agent, target)

Resolve(placement, agent, target) ==
    IF target # None THEN target ELSE DefaultPath(placement, agent)

\* managed_key also hashes the owner, which is one experience here, and the
\* path, which is the file the block is in.
managed_key(placement, agent) == <<placement, agent>>
Keys == Placements \X Agents

Files == {Missing} \cup [human : HumanTexts, blocks : [Keys -> Contents \cup {None}]]

NoBlocks == [k \in Keys |-> None]
BlankFile == [human |-> Blank, blocks |-> NoBlocks]

\* _read_existing gives "" for a file that is not there.
Existing(file) == IF file = Missing THEN BlankFile ELSE file

Renderable(file, content) ==
    /\ Existing(file).human # Unsafe
    /\ content \notin Reserved

\* The file with this policy's block put in or replaced, all else kept.
render_target(file, placement, agent, content) ==
    LET old == Existing(file)
        front == IF placement = "skill" /\ old = BlankFile THEN FrontMatter ELSE old.human
    IN  [human |-> front,
         blocks |-> [old.blocks EXCEPT ![managed_key(placement, agent)] = content]]

\* `after` keeps what people wrote in `before`, and every block but one.
KeepsOthers(before, after, key) ==
    LET old == Existing(before)
    IN  /\ after.human = old.human \/ (old = BlankFile /\ after.human = FrontMatter)
        /\ \A k \in Keys \ {key} : after.blocks[k] = old.blocks[k]
=============================================================================
