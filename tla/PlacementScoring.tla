--------------------------- MODULE PlacementScoring ---------------------------
(***************************************************************************)
(* Stage 6, the pure placement engine (placement/engine.py and scope.py):   *)
(* from the evidence of one experience to five ranked alternatives.         *)
(*                                                                         *)
(* Shares are twelfths, specificities and confidence hundredths, so that    *)
(* the weighted sums, in units of 1/120000, are exact for groups whose      *)
(* sizes divide twelve; a score is rounded to units of 1/10000.             *)
(***************************************************************************)
EXTENDS PatternDetection, Integers, FiniteSetsExt, TLC

Kinds == <<"ignore", "global_rule", "project_rule", "scoped_rule", "skill">>
PlacementTypes == {Kinds[i] : i \in 1 .. 5}
Unit == 120000

\* n out of m, in twelfths.
Share(n, m) == IF m = 0 THEN 0 ELSE (12 * n) \div m
AtMost(n, most) == IF n <= most THEN n ELSE most

Specificity == [directory |-> 95, subsystem |-> 65, command |-> 90, language |-> 72, extension |-> 60]

\* What the language of a file is known from.
LanguageOf == ".py" :> "python" @@ ".sql" :> "sql"

NoScope == [type |-> "global", value |-> "", count |-> 0, share |-> 0, specificity |-> 0]

-----------------------------------------------------------------------------
\* The events of an occurrence: support items are [session, project, first,
\* last, key, ante, pattern]; `events` gives the transcript of a session.
Slice(o, events) == {events[o.session][i] : i \in (o.first .. o.last) \cap DOMAIN events[o.session]}

support_values(o, events) ==
    LET paths == {e.path : e \in Slice(o, events)}
        exts == {p.ext : p \in paths} \ {""}
    IN [directory |-> {p.dir : p \in paths} \ {""},
        extension |-> exts,
        language  |-> {LanguageOf[x] : x \in exts \cap DOMAIN LanguageOf},
        command   |-> {e.command.family : e \in Slice(o, events)} \ {"", "unknown"},
        subsystem |-> IF o.key[1] = "rf" THEN {}
                      ELSE ({o.key[2]} \cup o.ante) \ {"other", "mixed"}]

\* The strongest value that at least two supports and three quarters of them have.
infer_scope(support, events) ==
    LET values(t) == UNION {support_values(o, events)[t] : o \in support}
        having(t, v) == Cardinality({o \in support : v \in support_values(o, events)[t]})
        scope(t, v) == [type |-> t, value |-> v, count |-> having(t, v),
                        share |-> Share(having(t, v), Cardinality(support)),
                        specificity |-> Specificity[t]]
        found == UNION {{scope(t, v) : v \in values(t)} : t \in DOMAIN Specificity}
        candidates == {c \in found : c.count >= 2 /\ 4 * c.count >= 3 * Cardinality(support)}
        signal(c) == c.share * c.specificity
        strongest == {c \in candidates : \A d \in candidates :
                        \/ signal(c) > signal(d)
                        \/ signal(c) = signal(d) /\ c.count >= d.count}
    IN IF candidates = {} THEN NoScope ELSE CHOOSE c \in strongest : TRUE

\* Three events with a path, a command or a tool, of two types, between its ends.
MultiStep(o, events) ==
    LET acts(e) == e.path # NoPath \/ e.command # NoCommand \/ e.type = "tool_call"
        does == {i \in (o.first .. o.last) \cap DOMAIN events[o.session] : acts(events[o.session][i])}
    IN /\ Cardinality(does) >= 3
       /\ Cardinality({events[o.session][i].type : i \in does}) >= 2

Actionability(pattern, support) ==
    IF support < 2 THEN 25 ELSE IF pattern = "repeated_failure" THEN 35 ELSE 100

Balanced(perProject, support) ==
    /\ Cardinality(DOMAIN perProject) >= 2
    /\ \A p \in DOMAIN perProject : perProject[p] >= 2 /\ 4 * perProject[p] <= 3 * support

extract_features(pattern, confidence, evidence, events) ==
    LET of(class) == {o \in evidence : o.class = class}
        support == of("support")
        n == Cardinality(support)
        against == Cardinality(of("contradiction"))
        projects == [p \in {o.project : o \in support} |-> Cardinality({o \in support : o.project = p})]
        largest == IF n = 0 THEN 0 ELSE Max({projects[p] : p \in DOMAIN projects})
        known == {o \in support : o.key[1] # "rf" /\ o.key[2] \notin {"other", "mixed"}}
        alike(c) == Cardinality({o \in known : o.key[2] = c})
        scope == infer_scope(support, events)
    IN [support |-> n, against |-> against,
        supported |-> Share(n, n + against),
        contradicted |-> Share(against, n + against),
        recurrence |-> 2 * AtMost(n + Cardinality(of("ambiguous")), 6),
        breadth |-> 6 * AtMost(Cardinality(DOMAIN projects) - (IF n = 0 THEN 0 ELSE 1), 2),
        concentration |-> Share(largest, n),
        consistency |-> IF known = {} THEN 0 ELSE Share(Max({alike(o.key[2]) : o \in known}), n),
        actionability |-> Actionability(pattern, n),
        complexity |-> 6 * AtMost(Cardinality({o \in support : MultiStep(o, events)}), 2),
        confidence |-> confidence,
        scope |-> scope,
        eligible |-> Balanced(projects, n)]

-----------------------------------------------------------------------------
Clip(x) == ((IF x < 0 THEN 0 ELSE IF x > Unit THEN Unit ELSE x) + 6) \div 12

\* A weight in hundredths of a share in twelfths, or of hundredths.
Part(weight, share) == 100 * weight * share
Percent(weight, hundredths) == 12 * weight * hundredths

ScopeSignal(weight, f) == weight * f.scope.share * f.scope.specificity

GlobalCap == 28800   \* 0.24

\* The weighted sum of a kind.
raw(kind, f) ==
    CASE kind = "ignore" ->
            12000 + Part(35, 12 - f.supported) + Part(40, f.contradicted)
            + Percent(15, 100 - f.actionability) + Percent(10, 100 - f.confidence)
            + (IF f.support < 2 THEN 12000 ELSE 0)
      [] kind = "global_rule" ->
            6000 + Part(24, f.supported) + Part(22, f.recurrence) + Part(35, f.breadth)
            + Percent(14, f.actionability) + Percent(10, f.confidence)
            - Part(10, f.concentration) - ScopeSignal(15, f) - Part(20, f.contradicted)
      [] kind = "project_rule" ->
            12000 + Part(20, f.supported) + Part(20, f.recurrence) + Part(25, f.concentration)
            + Percent(15, f.actionability) + Percent(10, f.confidence)
            - ScopeSignal(12, f) - Part(25, f.breadth) - Part(40, f.contradicted)
      [] kind = "scoped_rule" ->
            6000 + Part(16, f.supported) + Part(10, f.recurrence) + ScopeSignal(40, f)
            + Percent(12, f.actionability) + Percent(7, f.confidence)
            + Part(5, f.consistency) - Part(35, f.contradicted)
      [] kind = "skill" ->
            3600 + Part(15, f.supported) + Part(10, f.recurrence) + Part(50, f.complexity)
            + Percent(12, f.actionability) + Percent(8, f.confidence) - Part(10, f.contradicted)

\* A global rule of one project, or of unbalanced projects, is capped.
score(kind, f) ==
    Clip(IF kind = "global_rule" /\ ~ f.eligible THEN AtMost(raw(kind, f), GlobalCap) ELSE raw(kind, f))

\* Better score first; on a tie the safer kind.
Precedes(f, i, j) ==
    \/ score(Kinds[i], f) > score(Kinds[j], f)
    \/ score(Kinds[i], f) = score(Kinds[j], f) /\ i <= j

Rank(f, i) == Cardinality({j \in 1 .. 5 : Precedes(f, j, i)})

build_proposals(f) == [r \in 1 .. 5 |-> Kinds[CHOOSE i \in 1 .. 5 : Rank(f, i) = r]]

\* What extract_features promises the scores: shares are shares, and a pattern
\* with support has recurred as often.
Scored(f) ==
    /\ {f.supported, f.contradicted, f.recurrence, f.breadth, f.concentration, f.complexity} \subseteq 0 .. 12
    /\ {f.actionability, f.confidence} \subseteq 0 .. 100
    /\ f.support \in Nat /\ f.recurrence >= 2 * AtMost(f.support, 6)
    /\ f.consistency \in Int /\ f.scope.share \in Nat /\ f.scope.specificity \in Nat
    /\ f.eligible \in BOOLEAN
=============================================================================
