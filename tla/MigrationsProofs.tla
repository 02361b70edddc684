-------------------------- MODULE MigrationsProofs --------------------------
(***************************************************************************)
(* Opening the database is safe for any number of processes, of whatever   *)
(* age, any scripts and any number of kills.                               *)
(*                                                                         *)
(* A process has behind it what its position says: all versions before its *)
(* own are recorded, and the statements of its script up to where it       *)
(* stands have been run, by whoever.  Nothing is ever dropped.  So no      *)
(* statement finds its table missing, and only an opener beside which       *)
(* another one recorded a version can find its own recorded.               *)
(***************************************************************************)
EXTENDS Migrations, TLAPS

\* What the position of an opener says.
Behind(p) ==
    /\ loc[p].pc \in {"script", "record"} =>
         /\ loc[p].version \in 1 .. Newest[p]
         /\ \A v \in 1 .. loc[p].version - 1 : v \in recorded
         /\ p \notin beside => \A v \in recorded : v < loc[p].version
    /\ loc[p].pc = "script" =>
         /\ loc[p].statement <= Len(Scripts[loc[p].version])
         /\ \A s \in 1 .. loc[p].statement - 1 : Makes(loc[p].version, s) \in objects
    /\ loc[p].pc = "record" => Whole(loc[p].version)
    /\ loc[p].pc = "open" => \A v \in 1 .. Newest[p] : v \in recorded
    /\ loc[p].pc = "failed" => p \in beside

IInv == TypeOK /\ RecordedIsWhole /\ \A p \in Procs : Behind(p)

USE VersionsAssumption, NewestAssumption

-----------------------------------------------------------------------------
\* The statements of a script, what they make and what they need.
LEMMA ScriptsTyped ==
    ASSUME NEW v \in 1 .. N
    PROVE  /\ Len(Scripts[v]) \in Nat \ {0}
           /\ \A i \in Positions(v) : Makes(v, i) \in Names /\ Needs(v, i) \subseteq Names
<1>1. Scripts[v] \in Seq(Statements) /\ Scripts[v] # <<>>
  OBVIOUS
<1>2. Len(Scripts[v]) \in Nat \ {0}
  BY <1>1
<1>3. \A i \in Positions(v) : Scripts[v][i] \in Statements
  BY <1>1, <1>2 DEF Positions
<1> QED BY <1>2, <1>3 DEF Statements, Makes, Needs

LEMMA IInvHoldsInitially == ASSUME Init PROVE IInv
<1>1. PICK n \in 0 .. N : /\ recorded = 1 .. n
                          /\ objects = UNION {{Makes(v, i) : i \in Positions(v)} : v \in 1 .. n}
  BY DEF Init
<1>2. \A p \in Procs : loc[p] = Closed /\ loc[p].pc = "closed"
  BY DEF Init, Closed
<1>3. \A v \in 1 .. n : \A i \in Positions(v) : Makes(v, i) \in objects
  BY <1>1
<1>4. objects \subseteq Names
  <2>1. \A v \in 1 .. n : {Makes(v, i) : i \in Positions(v)} \subseteq Names
    BY ScriptsTyped
  <2> QED BY <1>1, <2>1
<1>5. TypeOK
  BY <1>1, <1>4 DEF Init, TypeOK, Closed
<1>6. RecordedIsWhole
  BY <1>1, <1>3 DEF RecordedIsWhole, Whole
<1>7. \A p \in Procs : Behind(p)
  BY <1>2 DEF Behind
<1> QED BY <1>5, <1>6, <1>7 DEF IInv

\* A step that only adds, and leaves its own process where it may stand.
LEMMA OnlyAdds ==
    ASSUME IInv, TypeOK', NEW p \in Procs, objects \subseteq objects', recorded \subseteq recorded',
           beside \ {p} \subseteq beside',
           recorded' = recorded \/ Opening \ {p} \subseteq beside',
           \A q \in Procs \ {p} : loc'[q] = loc[q], Behind(p)', RecordedIsWhole'
    PROVE  IInv'
<1>1. ASSUME NEW q \in Procs, q # p PROVE Behind(q)'
  <2>1. Behind(q) /\ loc'[q] = loc[q] /\ (q \in beside => q \in beside')
    BY <1>1 DEF IInv
  <2>2. loc'[q].pc \in {"script", "record"} /\ q \notin beside' => recorded' = recorded
    BY <1>1, <2>1 DEF Opening
  <2>3. \A v : Whole(v) => Whole(v)'
    BY DEF Whole
  <2> QED BY <2>1, <2>2, <2>3 DEF Behind
<1> QED BY <1>1 DEF IInv

\* Where an opener stands when everything up to a version is recorded, and
\* nothing after it unless by another one.
LEMMA Continues ==
    ASSUME NEW p \in Procs, NEW version \in 0 .. N, loc'[p] = After(p, version), TypeOK',
           \A v \in 1 .. version : v \in recorded',
           p \notin beside' => \A v \in recorded' : v <= version
    PROVE  Behind(p)'
<1>1. CASE version < Newest[p]
  <2>1. /\ loc'[p].pc = "script" /\ loc'[p].version = version + 1 /\ loc'[p].statement = 1
        /\ version + 1 \in 1 .. Newest[p] /\ Newest[p] \in 0 .. N
    BY <1>1 DEF After
  <2>2. 1 <= Len(Scripts[version + 1])
    BY <2>1, ScriptsTyped
  <2>3. recorded' \subseteq 1 .. N
    BY DEF TypeOK
  <2>4. p \notin beside' => \A v \in recorded' : v < version + 1
    BY <2>3
  <2> QED BY <2>1, <2>2, <2>4 DEF Behind
<1>2. CASE ~ (version < Newest[p])
  <2>1. loc'[p].pc = "open" /\ Newest[p] <= version
    BY <1>2 DEF After
  <2> QED BY <2>1 DEF Behind
<1> QED BY <1>1, <1>2

LEMMA AfterTyped ==
    ASSUME NEW p \in Procs, NEW version \in 0 .. N
    PROVE  After(p, version) \in [pc : {"closed", "script", "record", "open", "failed"},
                                  version : 0 .. N, statement : Nat \ {0}]
BY DEF After

-----------------------------------------------------------------------------
LEMMA Opens == ASSUME IInv, NEW p \in Procs, _migrate(p) PROVE IInv'
<1>1. PICK current \in recorded \cup {0} :
         (\A v \in recorded : v <= current) /\ loc' = [loc EXCEPT ![p] = After(p, current)]
  BY DEF _migrate
<1>2. UNCHANGED <<objects, recorded>> /\ current \in 0 .. N /\ beside' = beside \ {p}
  BY DEF _migrate, IInv, TypeOK
<1>3. TypeOK'
  BY <1>1, <1>2, AfterTyped DEF IInv, TypeOK
<1>4. \A v \in 1 .. current : v \in recorded
  BY DEF IInv, RecordedIsWhole
<1>5. loc'[p] = After(p, current) /\ \A q \in Procs \ {p} : loc'[q] = loc[q]
  BY <1>1 DEF IInv, TypeOK
<1>6. Behind(p)'
  BY <1>1, <1>2, <1>3, <1>4, <1>5, Continues
<1>7. RecordedIsWhole'
  BY <1>2 DEF IInv, RecordedIsWhole, Whole
<1> QED BY <1>2, <1>3, <1>5, <1>6, <1>7, OnlyAdds

\* Where an opener stands, everything before it is there: nothing that its
\* statement needs is missing.
LEMMA NothingIsMissing ==
    ASSUME IInv, NEW p \in Procs, loc[p].pc = "script"
    PROVE  Needs(loc[p].version, loc[p].statement) \subseteq objects
<1> DEFINE v == loc[p].version
<1> DEFINE s == loc[p].statement
<1>1. /\ v \in 1 .. N /\ s \in Nat \ {0} /\ s <= Len(Scripts[v])
      /\ \A w \in 1 .. v - 1 : w \in recorded
      /\ \A j \in 1 .. s - 1 : Makes(v, j) \in objects
  BY DEF IInv, Behind, TypeOK
<1>2. s \in Positions(v)
  BY <1>1, ScriptsTyped DEF Positions
<1>3. \A w \in 1 .. v - 1 : Whole(w)
  BY <1>1 DEF IInv, RecordedIsWhole
<1>4. ASSUME NEW o \in Needs(v, s) PROVE o \in objects
  <2>1. CASE \E j \in 1 .. s - 1 : Makes(v, j) = o
    BY <1>1, <2>1
  <2>2. CASE \E w \in 1 .. v - 1 : \E j \in Positions(w) : Makes(w, j) = o
    BY <1>3, <2>2 DEF Whole
  <2> QED BY <1>1, <1>2, <1>4, <2>1, <2>2, OrderAssumption
<1> QED BY <1>4

LEMMA Runs == ASSUME IInv, NEW p \in Procs, executescript(p) PROVE IInv'
<1> DEFINE v == loc[p].version
<1> DEFINE s == loc[p].statement
<1>1. /\ loc[p].pc = "script" /\ objects' = objects \cup {Makes(v, s)} /\ UNCHANGED <<recorded, beside>>
      /\ loc'[p] = Advanced(p) /\ \A q \in Procs \ {p} : loc'[q] = loc[q]
      /\ loc' = [loc EXCEPT ![p] = Advanced(p)]
  BY NothingIsMissing DEF executescript, IInv, TypeOK
<1>2. /\ v \in 1 .. N /\ s \in Nat \ {0} /\ s <= Len(Scripts[v]) /\ Len(Scripts[v]) \in Nat
      /\ v \in 1 .. Newest[p]
  BY <1>1, ScriptsTyped DEF IInv, Behind, TypeOK
<1>3. TypeOK'
  <2>1. Advanced(p) \in [pc : {"closed", "script", "record", "open", "failed"},
                         version : 0 .. N, statement : Nat \ {0}]
    BY <1>2 DEF Advanced
  <2>2. Makes(v, s) \in Names
    BY <1>2, ScriptsTyped DEF Positions
  <2> QED BY <1>1, <2>1, <2>2 DEF IInv, TypeOK
<1>4. /\ \A w \in 1 .. v - 1 : w \in recorded
      /\ p \notin beside => \A w \in recorded : w < v
  BY <1>1 DEF IInv, Behind
<1>5. \A t \in 1 .. s : Makes(v, t) \in objects'
  BY <1>1, <1>2 DEF IInv, Behind
<1>6. Behind(p)'
  <2>1. CASE s < Len(Scripts[v])
    <3>1. loc'[p].pc = "script" /\ loc'[p].version = v /\ loc'[p].statement = s + 1
      BY <1>1, <2>1 DEF Advanced
    <3>2. s + 1 <= Len(Scripts[v]) /\ (s + 1) - 1 = s
      BY <1>2, <2>1
    <3>3. \A t \in 1 .. loc'[p].statement - 1 : Makes(v, t) \in objects'
      BY <1>5, <3>1, <3>2
    <3>4. /\ \A w \in 1 .. loc'[p].version - 1 : w \in recorded'
          /\ p \notin beside' => \A w \in recorded' : w < loc'[p].version
      BY <1>1, <1>4, <3>1
    <3>5. loc'[p].version \in 1 .. Newest[p] /\ loc'[p].statement <= Len(Scripts[loc'[p].version])
      BY <1>2, <3>1, <3>2
    <3> HIDE DEF v, s
    <3> QED BY <3>1, <3>3, <3>4, <3>5 DEF Behind
  <2>2. CASE s = Len(Scripts[v])
    <3>1. loc'[p].pc = "record" /\ loc'[p].version = v
      BY <1>1, <1>2, <2>2 DEF Advanced
    <3>2. \A t \in Positions(loc'[p].version) : Makes(loc'[p].version, t) \in objects'
      BY <1>5, <2>2, <3>1 DEF Positions
    <3>3. /\ \A w \in 1 .. loc'[p].version - 1 : w \in recorded'
          /\ p \notin beside' => \A w \in recorded' : w < loc'[p].version
      BY <1>1, <1>4, <3>1
    <3> HIDE DEF v, s
    <3> QED BY <1>2, <3>1, <3>2, <3>3 DEF Behind, Whole
  <2> QED BY <1>2, <2>1, <2>2
<1>7. RecordedIsWhole'
  BY <1>1 DEF IInv, RecordedIsWhole, Whole
<1> QED BY <1>1, <1>3, <1>6, <1>7, OnlyAdds

LEMMA Records == ASSUME IInv, NEW p \in Procs, record(p) PROVE IInv'
<1> DEFINE v == loc[p].version
<1>1. loc[p].pc = "record" /\ objects' = objects
  BY DEF record
<1>2. /\ v \in 1 .. N /\ Whole(v) /\ \A w \in 1 .. v - 1 : w \in recorded
      /\ p \notin beside => \A w \in recorded : w < v
  BY <1>1 DEF IInv, Behind, TypeOK
<1>3. CASE v \in recorded
  <2>1. /\ UNCHANGED <<recorded, beside>> /\ loc' = [loc EXCEPT ![p] = [loc[p] EXCEPT !.pc = "failed"]]
        /\ p \in beside
    BY <1>2, <1>3 DEF record
  <2>2. TypeOK' /\ loc'[p].pc = "failed" /\ \A q \in Procs \ {p} : loc'[q] = loc[q]
    BY <1>1, <2>1 DEF IInv, TypeOK
  <2>3. Behind(p)' /\ RecordedIsWhole'
    BY <1>1, <2>1, <2>2 DEF IInv, Behind, RecordedIsWhole, Whole
  <2> QED BY <1>1, <2>1, <2>2, <2>3, OnlyAdds
<1>4. CASE v \notin recorded
  <2>1. /\ recorded' = recorded \cup {v} /\ loc' = [loc EXCEPT ![p] = After(p, v)]
        /\ beside' = beside \cup (Opening \ {p})
    BY <1>4 DEF record
  <2>2. TypeOK'
    BY <1>1, <1>2, <2>1, AfterTyped DEF IInv, TypeOK, Opening
  <2>3. loc'[p] = After(p, v) /\ \A q \in Procs \ {p} : loc'[q] = loc[q]
    BY <2>1 DEF IInv, TypeOK
  <2>4. \A w \in 1 .. v : w \in recorded'
    BY <1>2, <2>1
  <2>5. p \notin beside' => \A w \in recorded' : w <= v
    <3>1. recorded \subseteq 1 .. N
      BY DEF IInv, TypeOK
    <3> QED BY <1>2, <2>1, <3>1
  <2>6. Behind(p)'
    <3>1. v \in 0 .. N
      BY <1>2
    <3> HIDE DEF v
    <3> QED BY <2>2, <2>3, <2>4, <2>5, <3>1, Continues
  <2>7. RecordedIsWhole'
    <3>1. ASSUME NEW u \in recorded', NEW w \in 1 .. u
          PROVE  w \in recorded' /\ Whole(w)
      <4>1. CASE u \in recorded
        BY <2>1, <4>1 DEF IInv, RecordedIsWhole
      <4>2. CASE u = v
        <5>1. CASE w = v
          BY <1>2, <2>1, <5>1
        <5>2. CASE w # v
          <6>1. w \in 1 .. v - 1 /\ w \in 1 .. w
            BY <1>2, <4>2, <5>2
          <6> QED BY <1>2, <2>1, <6>1 DEF IInv, RecordedIsWhole
        <5> QED BY <5>1, <5>2
      <4> QED BY <2>1, <4>1, <4>2
    <3> QED BY <1>1, <3>1 DEF RecordedIsWhole, Whole
  <2> QED BY <1>1, <2>1, <2>2, <2>3, <2>6, <2>7, OnlyAdds
<1> QED BY <1>3, <1>4

LEMMA Gone == ASSUME IInv, NEW p \in Procs, Crash(p) PROVE IInv'
<1>1. UNCHANGED <<objects, recorded, beside>> /\ loc' = [loc EXCEPT ![p] = Closed]
  BY DEF Crash
<1>2. TypeOK' /\ loc'[p] = Closed /\ \A q \in Procs \ {p} : loc'[q] = loc[q]
  BY <1>1 DEF IInv, TypeOK, Closed
<1>3. Behind(p)' /\ RecordedIsWhole'
  BY <1>1, <1>2 DEF IInv, Behind, RecordedIsWhole, Whole, Closed
<1> QED BY <1>1, <1>2, <1>3, OnlyAdds

LEMMA IInvIsInductive == ASSUME IInv, [Next]_vars PROVE IInv'
<1>1. CASE UNCHANGED vars
  BY <1>1 DEF vars, IInv, TypeOK, RecordedIsWhole, Whole, Behind
<1> QED BY <1>1, Opens, Runs, Records, Gone DEF Next

LEMMA IInvHolds == Spec => []IInv
<1>1. Init => IInv
  BY IInvHoldsInitially
<1>2. IInv /\ [Next]_vars => IInv'
  BY IInvIsInductive
<1> QED BY <1>1, <1>2, PTL DEF Spec

-----------------------------------------------------------------------------
\* What schema_migrations lists is there, without gaps, in any interleaving of
\* openers and kills (_migrate).
THEOREM SchemaIsWhole == Spec => []RecordedIsWhole
<1>1. IInv => RecordedIsWhole
  BY DEF IInv
<1> QED BY <1>1, IInvHolds, PTL

\* Whoever has the database open has the schema of its program, whatever others
\* do (Database.__init__).
THEOREM OpenedIsCurrent == Spec => []OpenIsCurrent
<1>1. ASSUME IInv PROVE OpenIsCurrent
  <2>1. ASSUME NEW p \in Procs, loc[p].pc = "open", NEW v \in 1 .. Newest[p]
        PROVE  Whole(v)
    <3>1. v \in recorded /\ v \in 1 .. v
      BY <1>1, <2>1 DEF IInv, Behind
    <3> QED BY <1>1, <3>1 DEF IInv, RecordedIsWhole
  <2> QED BY <2>1 DEF OpenIsCurrent
<1> QED BY <1>1, IInvHolds, PTL

\* Names, versions and positions are always those of the scripts, for any
\* scripts and programs of any age (migrations/*.sql, _migrate).
THEOREM TypesOfMigrations == Spec => []TypeOK
<1>1. IInv => TypeOK
  BY DEF IInv
<1> QED BY <1>1, IInvHolds, PTL

\* No script that was cut short, no program of another age and no repeated
\* statement keeps anybody out: whoever fails to open the database was beside
\* another one that recorded a version meanwhile (database.py:79-81).
THEOREM FailsOnlyBesideAnother == Spec => []AloneNeverFails
<1>1. IInv => AloneNeverFails
  BY DEF IInv, Behind, AloneNeverFails
<1> QED BY <1>1, IInvHolds, PTL

=============================================================================
