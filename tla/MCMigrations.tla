---------------------------- MODULE MCMigrations ----------------------------
(***************************************************************************)
(* A small instance of Migrations for TLC.                                 *)
(***************************************************************************)
EXTENDS Migrations, TLC

CONSTANTS p1, p2, p3, sessions, reviews, reviews_index, variants, variants_index, guard

Table(o) == [makes |-> o, needs |-> {}]
On(table, o) == [makes |-> o, needs |-> {table}]

\* The third script repeats a table and its index of the second, as 0005 does of
\* 0004, and then creates a trigger on a table of the first.
ThreeScripts ==
    << << Table(sessions) >>,
       << Table(reviews), On(reviews, reviews_index), Table(variants), On(variants, variants_index) >>,
       << Table(variants), On(variants, variants_index), On(sessions, guard) >> >>

\* Two processes of the new program and one of the program before it.
OneIsOlder == p1 :> 3 @@ p2 :> 3 @@ p3 :> 2
=============================================================================
