--------------------------- MODULE PatternDetection ---------------------------
(***************************************************************************)
(* Stage 5, pattern detection over one transcript (experience/detect.py,    *)
(* with the profile of extract.py:97-122).                                  *)
(*                                                                         *)
(* An event keeps what the detectors tell apart: its type, the path it      *)
(* touches (directory, extension, context, vendored or not), the command it *)
(* runs, the error signature its text names and whether it reads as a      *)
(* meaningful, directive correction.  Its sequence number is its place in   *)
(* the transcript (models/trajectory.py:134).                               *)
(***************************************************************************)
EXTENDS Naturals, Sequences, SequencesExt

CONSTANT MaxEventGap   \* most events between a failure and its resolution

ASSUME GapAssumption == MaxEventGap \in Nat \ {0}

Families == {"test", "lint", "build"}
Fails == [f \in Families |-> f \o "_fail"]
Passes == [f \in Families |-> f \o "_pass"]
FailTypes == {Fails[f] : f \in Families}

EditTypes == {"file_edit", "file_create", "file_delete"}
ChangeTypes == {"file_edit", "file_create"}

NoPath == [dir |-> "", ext |-> "", ctx |-> "", vendored |-> FALSE]
NoCommand == [family |-> "", migrates |-> FALSE]

\* An event with nothing but its type.
Plain(type) == [type |-> type, path |-> NoPath, command |-> NoCommand,
                says |-> "", directive |-> FALSE]

OwnPath(e) == e.path # NoPath /\ ~ e.path.vendored
Edits(evs, is) == {i \in is : evs[i].type \in EditTypes /\ OwnPath(evs[i])}
Changes(evs, is) == {i \in is : evs[i].type \in ChangeTypes /\ OwnPath(evs[i])}
Contexts(evs, is) == {evs[i].path.ctx : i \in is}

Earliest(S) == CHOOSE i \in S : \A j \in S : i <= j
Latest(S) == CHOOSE i \in S : \A j \in S : i >= j
After(evs, i) == {j \in DOMAIN evs : i < j /\ j <= i + MaxEventGap}

-----------------------------------------------------------------------------
\* The context most of the edits are in; a tie is "mixed", nothing known "other".
\* detect.py:182-192
DominantContext(evs, edits) ==
    LET real == Contexts(evs, edits) \ {"other"}
        votes(c) == Cardinality({i \in edits : evs[i].path.ctx = c})
        winners == {c \in real : \A d \in real : votes(c) >= votes(d)}
    IN CASE real = {}                 -> "other"
         [] Cardinality(winners) > 1  -> "mixed"
         [] OTHER                     -> CHOOSE c \in winners : TRUE

Class(ctx) == IF ctx \in {"other", "mixed"} THEN "ambiguous" ELSE "support"

Occurrence(pattern, key, first, last, class, ante) ==
    [pattern |-> pattern, key |-> key, first |-> first, last |-> last,
     class |-> class, ante |-> ante \ {"other"}]

\* A failing check, edits, and the same check passing within the gap.  Its own
\* migration command outweighs the edits.
failure_repair(evs) ==
    LET passes(i, f) == {j \in After(evs, i) : evs[j].type = Passes[f]}
        between(i, f) == (i + 1) .. (Earliest(passes(i, f)) - 1)
        migrated(i, f) == \E k \in between(i, f) : evs[k].command.migrates
        context(i, f) == IF migrated(i, f) THEN "migration"
                         ELSE DominantContext(evs, Edits(evs, between(i, f)))
        repaired == {r \in (DOMAIN evs) \X Families :
                        /\ evs[r[1]].type = Fails[r[2]]
                        /\ passes(r[1], r[2]) # {}
                        /\ migrated(r[1], r[2]) \/ Edits(evs, between(r[1], r[2])) # {}}
        before(i) == {k \in DOMAIN evs : k < i /\ k + MaxEventGap >= i}
    IN {Occurrence("failure_repair_success", <<"fr", context(r[1], r[2]), r[2]>>,
                   r[1], Earliest(passes(r[1], r[2])), Class(context(r[1], r[2])),
                   Contexts(evs, Changes(evs, before(r[1])))) : r \in repaired}

\* A directive correction, then the first failing check of the window, work,
\* and that check passing: where it is, where it passes, the check, the context.
Corrections(evs) ==
    LET fails(i) == {j \in After(evs, i) : evs[j].type \in FailTypes}
        failed(i) == Earliest(fails(i))
        family(i) == CHOOSE f \in Families : evs[failed(i)].type = Fails[f]
        passes(i) == {j \in After(evs, i) : j > failed(i) /\ evs[j].type = Passes[family(i)]}
        between(i) == (failed(i) + 1) .. Earliest(passes(i))
        commands(i) == {k \in between(i) : evs[k].type = "command"}
        context(i) ==
            IF Edits(evs, between(i)) # {} THEN DominantContext(evs, Edits(evs, between(i)))
            ELSE IF \E k \in commands(i) : evs[k].command.migrates THEN "migration"
            ELSE "other"
        corrected == {i \in DOMAIN evs :
                        /\ evs[i].type = "human_correction" /\ evs[i].directive
                        /\ fails(i) # {} /\ passes(i) # {}
                        /\ Edits(evs, between(i)) # {} \/ commands(i) # {}}
    IN {<<i, Earliest(passes(i)), family(i), context(i)>> : i \in corrected}

human_correction_repair(evs) ==
    {Occurrence("human_correction_repair", <<"hc", c[4], c[3]>>, c[1], c[2], Class(c[4]), {}) :
        c \in Corrections(evs)}

\* What a failure says: its own text, or that of a command one or two before it.
DiagnosticText(evs, i) ==
    LET earlier == {k \in {i - 1, i - 2} \cap DOMAIN evs :
                       evs[k].type \in {"command", "tool_call"} /\ evs[k].says # ""}
    IN IF evs[i].says # "" THEN evs[i].says
       ELSE IF earlier # {} THEN evs[Latest(earlier)].says ELSE ""

LooksDiagnostic(signature) == signature \notin {"", "generic"}

\* An error that is still there at the end, or a session that ended badly with it.
repeated_failure(evs, status) ==
    LET fails == {i \in DOMAIN evs : /\ evs[i].type \in FailTypes \cup {"error"}
                                     /\ LooksDiagnostic(DiagnosticText(evs, i))}
        hits(s) == {i \in fails : DiagnosticText(evs, i) = s}
        resolved(s) == \E f \in Families, j \in DOMAIN evs :
                            /\ evs[Earliest(hits(s))].type = Fails[f]
                            /\ j > Latest(hits(s)) /\ evs[j].type = Passes[f]
        bad == status \in {"partial", "aborted", "failure"}
        class(s) == IF Earliest(hits(s)) # Latest(hits(s)) \/ bad THEN "support" ELSE "ambiguous"
    IN {Occurrence("repeated_failure", <<"rf", s, "">>, Earliest(hits(s)), Latest(hits(s)), class(s), {}) :
            s \in {t \in {DiagnosticText(evs, i) : i \in fails} : bad \/ ~ resolved(t)}}

Transitions == {<<"model", "migration">>, <<"model", "database">>, <<"database", "migration">>}

ChecksPassed(evs, i) == {j \in After(evs, i) : \E f \in Families : evs[j].type = Passes[f]}

\* A change of one schema context followed by one of another and a check that
\* passes; every pair of contexts once.
SchemaChanges(evs) ==
    LET pair(a, b) == <<evs[a].path.ctx, evs[b].path.ctx>>
        changes == Changes(evs, DOMAIN evs)
        partners(a, seen) == {b \in changes \cap After(evs, a) :
                                /\ pair(a, b) \in Transitions \ seen
                                /\ ChecksPassed(evs, b) # {}}
        step(acc, a) ==
            IF a \notin changes \/ partners(a, acc.seen) = {} THEN acc
            ELSE LET b == Earliest(partners(a, acc.seen))
                 IN [seen |-> acc.seen \cup {pair(a, b)}, found |-> acc.found \cup {<<a, b>>}]
    IN FoldLeft(step, [seen |-> {}, found |-> {}], [i \in DOMAIN evs |-> i]).found

\* Such changes count in a session that succeeded.
file_change_pattern(evs, status) ==
    LET family(b) == CHOOSE f \in Families : evs[Earliest(ChecksPassed(evs, b))].type = Passes[f]
    IN IF status # "success" THEN {}
       ELSE {Occurrence("file_change_pattern", <<"fr", evs[c[2]].path.ctx, family(c[2])>>,
                        c[1], c[2], "support", {evs[c[1]].path.ctx}) : c \in SchemaChanges(evs)}

\* The first occurrence of every group and classification: repeated episodes of
\* one session are not independent evidence.
Emitted(found) ==
    LET alike(o) == {p \in found : <<p.key, p.class>> = <<o.key, o.class>>}
    IN {o \in found : o = CHOOSE p \in alike(o) : \A q \in alike(o) : p.first <= q.first}

detect_occurrences(transcript) ==
    LET evs == transcript.events
        found == Emitted(failure_repair(evs)) \cup Emitted(human_correction_repair(evs))
                    \cup repeated_failure(evs, transcript.status)
        claimed == {o.key : o \in found}
    IN found \cup {o \in Emitted(file_change_pattern(evs, transcript.status)) : o.key \notin claimed}

\* What the grouping asks of a trajectory without the pattern: the contexts it
\* changed, and the checks that passed before they ever failed.
build_profile(transcript) ==
    LET evs == transcript.events
        clean(f) == \E j \in DOMAIN evs :
                        /\ evs[j].type = Passes[f]
                        /\ \A i \in 1 .. (j - 1) : evs[i].type # Fails[f]
    IN [edits |-> Contexts(evs, Changes(evs, DOMAIN evs)) \ {"other"},
        clean |-> {f \in Families : clean(f)}]
=============================================================================
