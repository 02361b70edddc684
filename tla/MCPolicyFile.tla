---------------------------- MODULE MCPolicyFile ----------------------------
(***************************************************************************)
(* A small instance of PolicyFile for TLC.                                 *)
(***************************************************************************)
EXTENDS PolicyFile

CONSTANTS K1, K2

\* One line, and two lines as a browser sends them.
TwoPolicies == {<<"u">>, <<CR, LF, "u", CR, "u", CR, LF>>}

\* Nothing, a line, two lines with the line breaks of Windows, and texts with a
\* block that outweighs the other line breaks.
MixedTexts ==
    LET u == <<"u", CR, LF>>
        v == <<"u", LF>>
    IN {<<>>, v, u \o u}
       \cup {<<k, LF>> \o u \o u \o u \o u \o u \o <<End>> \o v \o v \o v : k \in Keys}
       \cup {<<k, LF>> \o v \o v \o v \o v \o v \o <<End>> \o u \o u \o u : k \in Keys}

\* Single tokens, a line break of Windows, a block copied from elsewhere.
TokensAndBlock ==
    {<<t>> : t \in {"u", CR, LF, K1, K2, End, Bad}} \cup {<<CR, LF>>, <<K2, LF, "u", LF, End>>}

Alike == Permutations(Keys)
=============================================================================
