----------------------------- MODULE Migrations -----------------------------
(***************************************************************************)
(* Opening the database (storage/database.py).                             *)
(*                                                                         *)
(* Every process that opens the database brings its schema up to date: it  *)
(* reads the newest version recorded, runs the scripts of all later ones   *)
(* statement by statement, and records each after its script.  Every       *)
(* statement commits by itself, so that others open the same database in   *)
(* between, and a process may be gone between any two.                     *)
(*                                                                         *)
(* The scripts only create tables, indexes and triggers, each unless its   *)
(* name is taken; an index or a trigger needs its table.  Two scripts may  *)
(* create the same thing: 0005 repeats a table of 0004 and its index.      *)
(***************************************************************************)
EXTENDS Naturals, Sequences

CONSTANTS
    Procs,       \* processes that open the database
    N,           \* the newest version (SCHEMA_VERSION)
    Names,       \* names of tables, indexes and triggers
    Scripts,     \* version -> the statements of its script
    Newest,      \* process -> the newest version its program knows
    MaxOpens,    \* bound on openings
    MaxFaults    \* bound on kills and on a database that stays locked

\* CREATE ... IF NOT EXISTS makes [ON needs].
Statements == [makes : Names, needs : SUBSET Names]

Positions(version) == 1 .. Len(Scripts[version])
Makes(version, i) == Scripts[version][i].makes
Needs(version, i) == Scripts[version][i].needs

ASSUME VersionsAssumption == N \in Nat /\ Scripts \in [1 .. N -> Seq(Statements) \ {<<>>}]
ASSUME NewestAssumption == Newest \in [Procs -> 0 .. N]

\* What a statement needs is made before it, in its script or an earlier one.
ASSUME OrderAssumption ==
    \A v \in 1 .. N : \A i \in Positions(v) : \A o \in Needs(v, i) :
        \/ \E j \in 1 .. i - 1 : Makes(v, j) = o
        \/ \E w \in 1 .. v - 1 : \E j \in Positions(w) : Makes(w, j) = o

VARIABLES
    objects,     \* the names in sqlite_master
    recorded,    \* schema_migrations
    beside,      \* history: openers beside which another one recorded a version
    loc,         \* process -> where its Database() stands
    used         \* how much of each bound is spent

vars == <<objects, recorded, beside, loc, used>>

Closed == [pc |-> "closed", version |-> 0, statement |-> 1]

\* A database that some earlier program has left.
Init ==
    /\ \E n \in 0 .. N :
        /\ recorded = 1 .. n
        /\ objects = UNION {{Makes(v, i) : i \in Positions(v)} : v \in 1 .. n}
    /\ beside = {}
    /\ loc = [p \in Procs |-> Closed]
    /\ used = [opens |-> 0, faults |-> 0]

\* What comes after a version: the script of the next one, or the database is
\* open.
After(p, version) ==
    IF version < Newest[p] THEN [pc |-> "script", version |-> version + 1, statement |-> 1]
    ELSE [pc |-> "open", version |-> version, statement |-> 1]

\* MAX(version) is read once.
_migrate(p) ==
    /\ loc[p].pc \in {"closed", "open", "failed"}
    /\ used.opens < MaxOpens
    /\ \E current \in recorded \cup {0} :
        /\ \A v \in recorded : v <= current
        /\ loc' = [loc EXCEPT ![p] = After(p, current)]
    /\ beside' = beside \ {p}
    /\ used' = [used EXCEPT !.opens = @ + 1]
    /\ UNCHANGED <<objects, recorded>>

\* Where a script goes on.
Advanced(p) ==
    IF loc[p].statement < Len(Scripts[loc[p].version])
    THEN [pc |-> "script", version |-> loc[p].version, statement |-> loc[p].statement + 1]
    ELSE [pc |-> "record", version |-> loc[p].version, statement |-> 1]

\* Mutant: CREATE without IF NOT EXISTS.
create_once(p) ==
    /\ loc[p].pc = "script"
    /\ LET o == Makes(loc[p].version, loc[p].statement) IN
       IF o \in objects \/ ~ Needs(loc[p].version, loc[p].statement) \subseteq objects
       THEN loc' = [loc EXCEPT ![p].pc = "failed"] /\ UNCHANGED objects
       ELSE objects' = objects \cup {o} /\ loc' = [loc EXCEPT ![p] = Advanced(p)]
    /\ UNCHANGED <<recorded, beside, used>>

\* One statement of executescript: what is there already is left as it is; what
\* is not is created, unless its table is missing.
executescript(p) ==
    /\ loc[p].pc = "script"
    /\ LET o == Makes(loc[p].version, loc[p].statement) IN
       IF o \in objects \/ Needs(loc[p].version, loc[p].statement) \subseteq objects
       THEN objects' = objects \cup {o} /\ loc' = [loc EXCEPT ![p] = Advanced(p)]
       ELSE loc' = [loc EXCEPT ![p].pc = "failed"] /\ UNCHANGED objects
    /\ UNCHANGED <<recorded, beside, used>>

Opening == {q \in Procs : loc[q].pc \in {"script", "record"}}

\* Mutant: INSERT OR IGNORE of the newest version, once, at the end.
record_newest(p) ==
    /\ loc[p].pc = "record"
    /\ recorded' = recorded \cup {Newest[p]}
    /\ beside' = beside \cup (Opening \ {p})
    /\ loc' = [loc EXCEPT ![p] = After(p, loc[p].version)]
    /\ UNCHANGED <<objects, used>>

\* Mutant: a version that is recorded by now means that all is done.
record_or_leave(p) ==
    /\ loc[p].pc = "record"
    /\ recorded' = recorded \cup {loc[p].version}
    /\ beside' = beside \cup (Opening \ {p})
    /\ loc' = [loc EXCEPT ![p] = IF loc[p].version \in recorded THEN [@ EXCEPT !.pc = "open"]
                                 ELSE After(p, loc[p].version)]
    /\ UNCHANGED <<objects, used>>

\* The insertion into schema_migrations; its primary key stops whoever is late.
record(p) ==
    /\ loc[p].pc = "record"
    /\ IF loc[p].version \in recorded
       THEN loc' = [loc EXCEPT ![p].pc = "failed"] /\ UNCHANGED <<recorded, beside>>
       ELSE /\ recorded' = recorded \cup {loc[p].version}
            /\ beside' = beside \cup (Opening \ {p})
            /\ loc' = [loc EXCEPT ![p] = After(p, loc[p].version)]
    /\ UNCHANGED <<objects, used>>

\* The process is killed, or finds the database locked for too long.
Crash(p) ==
    /\ loc[p].pc \in {"script", "record"}
    /\ used.faults < MaxFaults
    /\ loc' = [loc EXCEPT ![p] = Closed]
    /\ used' = [used EXCEPT !.faults = @ + 1]
    /\ UNCHANGED <<objects, recorded, beside>>

Next == \E p \in Procs : _migrate(p) \/ executescript(p) \/ record(p) \/ Crash(p)

Spec == Init /\ [][Next]_vars

-----------------------------------------------------------------------------
\* Type invariant.

\* Names, versions and positions are those of the scripts.
TypeOK ==
    /\ objects \subseteq Names
    /\ recorded \subseteq 1 .. N
    /\ beside \subseteq Procs
    /\ loc \in [Procs -> [pc : {"closed", "script", "record", "open", "failed"},
                          version : 0 .. N, statement : Nat \ {0}]]

-----------------------------------------------------------------------------
\* Safety.

Whole(version) == \A i \in Positions(version) : Makes(version, i) \in objects

\* A version that is recorded has everything of its script and every version
\* before it, whoever ran which statement, and whoever was killed between two:
\* an opener that skips it misses nothing (_migrate).
RecordedIsWhole ==
    \A v \in recorded : \A w \in 1 .. v : w \in recorded /\ Whole(w)

\* A process that has the database open has all of the schema its program
\* knows, also when others were opening it at the same time (Database.__init__).
OpenIsCurrent ==
    \A p \in Procs : loc[p].pc = "open" => \A v \in 1 .. Newest[p] : Whole(v)

\* Whatever kills, scripts cut short and programs of another age have left, an
\* opening beside which nobody records a version does not fail: what exists
\* already does not stop it, and nothing it needs is missing (database.py:79-81).
AloneNeverFails == \A p \in Procs : loc[p].pc = "failed" => p \in beside

=============================================================================
