----------------------------- MODULE PolicyFile -----------------------------
(***************************************************************************)
(* The text of one policy file and the block that Apply keeps in it        *)
(* (review/targets.py), where PolicyTarget.tla only has human text and     *)
(* blocks.                                                                 *)
(*                                                                         *)
(* A text is a sequence of tokens: words, line break characters, and       *)
(* markers.  The start marker of a key is the key itself.  A token is what *)
(* the regular expressions and searches of the renderer can tell apart; a  *)
(* marker that is cut or misspelt is the token Bad, or words.              *)
(***************************************************************************)
EXTENDS Naturals, SequencesExt

CONSTANTS
    Keys,        \* managed keys, each standing for its start marker
    Words,       \* text without line breaks or markers
    Texts,       \* what a person may have written before the model starts
    Pieces,      \* what a person may insert
    Policies,    \* approved contents
    Kinds,       \* kinds of target: "policy", "skill"
    None,        \* nothing was applied last
    MaxEdits,    \* bound on what people change
    MaxLength,   \* bound on the texts they change
    MaxApplies   \* bound on what TrajWeave applies

CR == "\r"
LF == "\n"
End == "<!-- trajweave:end -->"
Bad == "<!-- trajweave:"

Markers == Keys \cup {End, Bad}
Breaks == {CR, LF}
Fields == {"---", "name", "description"}  \* of the front matter of a Skill
Tokens == Words \cup Fields \cup Breaks \cup Markers

ASSUME TokensAssumption ==
    /\ Words \cap (Breaks \cup Markers) = {}
    /\ Keys \cap (Fields \cup Breaks \cup {End, Bad}) = {}
ASSUME InputAssumption == Texts \cup Pieces \cup Policies \subseteq Seq(Tokens)

VARIABLES
    kind,        \* kind of the target
    file,        \* its text; a missing file reads as an empty one
    last,        \* history: the key and content of the last step, if it applied one
    used         \* how much of each bound is spent

vars == <<kind, file, last, used>>

-----------------------------------------------------------------------------
\* _START, `$` also matching at the end of a search that stops at `stop`.
IsStart(text, i, stop) ==
    /\ text[i] \in Keys
    /\ i = 1 \/ text[i - 1] = LF
    /\ i + 1 = stop \/ text[i + 1] = LF

Starts(text) == {i \in DOMAIN text : IsStart(text, i, Len(text) + 1)}
Ends(text) == {i \in DOMAIN text : text[i] = End}

EndOf(text, start) == Min({e \in Ends(text) : e > start})

\* Mutant: without the count of end markers.
validate_without_count(text) ==
    /\ Range(text) \cap Markers # {} => Starts(text) # {}
    /\ \A s \in Starts(text) :
        /\ \E e \in Ends(text) : e > s
        /\ \A i \in s + 1 .. EndOf(text, s) - 1 : ~ IsStart(text, i, EndOf(text, s))

\* _validate_markers does not raise: markers in a text have a start among them,
\* a start has an end and no other start before it, and no end is left over.
\* (A start before the last block's end is found by that block's search.)
_validate_markers(text) ==
    /\ Range(text) \cap Markers # {} => Starts(text) # {}
    /\ \A s \in Starts(text) :
        /\ \E e \in Ends(text) : e > s
        /\ \A i \in s + 1 .. EndOf(text, s) - 1 : ~ IsStart(text, i, EndOf(text, s))
    /\ Cardinality(Ends(text)) = Cardinality(Starts(text))

\* The line breaks of a text are CR LF when it has one and at least half of
\* its LFs are part of one.
_line_ending(text) ==
    LET lf == {i \in DOMAIN text : text[i] = LF}
        crlf == {i \in lf : i > 1 /\ text[i - 1] = CR}
    IN IF crlf # {} /\ 2 * Cardinality(crlf) >= Cardinality(lf) THEN <<CR, LF>> ELSE <<LF>>

\* Every line break of the content becomes newline, and those at its ends go.
body(content, newline) ==
    LET broken(i) == content[i] \in Breaks
        kept == {i \in DOMAIN content : ~ broken(i)}
        Piece(i) == IF content[i] = CR /\ i < Len(content) /\ content[i + 1] = LF THEN <<>>
                    ELSE IF broken(i) THEN newline ELSE <<content[i]>>
    IN IF kept = {} THEN <<>>
       ELSE FlattenSeq([n \in 1 .. Max(kept) - Min(kept) + 1 |-> Piece(Min(kept) + n - 1)])

_block(key, content, newline) == <<key>> \o newline \o body(content, newline) \o newline \o <<End>>

\* What a Skill file that is new or empty begins with.
FrontMatter(newline) ==
    <<"---">> \o newline \o <<"name">> \o newline \o <<"description">> \o newline \o <<"---">> \o newline

\* Mutant: the line breaks at the end of the text are tidied up.
separated_tidily(prefix, newline) ==
    LET kept == {i \in DOMAIN prefix : prefix[i] \notin Breaks}
    IN IF kept = {} THEN <<>> ELSE SubSeq(prefix, 1, Max(kept)) \o newline \o newline

\* The text a block is appended to: it ends its line, and an empty one follows.
separated(prefix, newline) ==
    LET ended == IF prefix = <<>> \/ Last(prefix) \in Breaks THEN prefix ELSE prefix \o newline
    IN IF ended = <<>> \/ IsSuffix(newline \o newline, ended) THEN ended ELSE ended \o newline

BlocksOf(text, key) == {s \in Starts(text) : text[s] = key}

\* render_target does not raise.
Renderable(text, key, content) ==
    /\ _validate_markers(text)
    /\ Cardinality(BlocksOf(text, key)) <= 1
    /\ Range(content) \cap Markers = {}

\* Mutant: the line break after an appended block comes with every rendering.
render_target_growing(text, key, content) ==
    LET newline == _line_ending(text)
        replacement == _block(key, content, newline) \o newline
        s == CHOOSE i \in BlocksOf(text, key) : TRUE
        prefix == IF kind = "skill" /\ text = <<>> THEN FrontMatter(newline) ELSE text
    IN IF BlocksOf(text, key) # {}
       THEN SubSeq(text, 1, s - 1) \o replacement \o SubSeq(text, EndOf(text, s) + 1, Len(text))
       ELSE separated(prefix, newline) \o replacement

render_target(text, key, content) ==
    LET newline == _line_ending(text)
        replacement == _block(key, content, newline)
        s == CHOOSE i \in BlocksOf(text, key) : TRUE
        prefix == IF kind = "skill" /\ text = <<>> THEN FrontMatter(newline) ELSE text
    IN IF BlocksOf(text, key) # {}
       THEN SubSeq(text, 1, s - 1) \o replacement \o SubSeq(text, EndOf(text, s) + 1, Len(text))
       ELSE separated(prefix, newline) \o replacement \o newline

-----------------------------------------------------------------------------
Init ==
    /\ kind \in Kinds
    /\ file \in Texts
    /\ last = None
    /\ used = [edits |-> 0, applies |-> 0]

\* build_preview and apply_preview with nothing in between (ReviewApply.tla has
\* what may come in between).
apply_preview ==
    /\ used.applies < MaxApplies
    /\ \E k \in Keys, c \in Policies :
        /\ Renderable(file, k, c)
        /\ file' = render_target(file, k, c)
        /\ last' = [key |-> k, content |-> c]
    /\ used' = [used EXCEPT !.applies = @ + 1]
    /\ UNCHANGED kind

\* A person inserts something, deletes a token, or has an editor convert the
\* line breaks.
HumanEdit ==
    /\ used.edits < MaxEdits /\ Len(file) <= MaxLength
    /\ \/ \E i \in 0 .. Len(file), piece \in Pieces :
            file' = SubSeq(file, 1, i) \o piece \o SubSeq(file, i + 1, Len(file))
       \/ \E i \in DOMAIN file : file' = RemoveAt(file, i)
       \/ \E newline \in {<<LF>>, <<CR, LF>>} :
            /\ file' = FlattenSeq([i \in DOMAIN file |->
                           IF file[i] = LF THEN newline ELSE IF file[i] = CR THEN <<>> ELSE <<file[i]>>])
            /\ file' # file
    /\ last' = None
    /\ used' = [used EXCEPT !.edits = @ + 1]
    /\ UNCHANGED kind

Next == apply_preview \/ HumanEdit

Spec == Init /\ [][Next]_vars

-----------------------------------------------------------------------------
\* Safety.

Unix(text) == _line_ending(text) = <<LF>>

\* Positions in their order: the n-th has n of them up to itself.
InOrder(positions) ==
    [n \in 1 .. Cardinality(positions) |->
        CHOOSE i \in positions : Cardinality({j \in positions : j <= i}) = n]

\* The blocks that begin at some positions of a text.
Parsed(text, starts) ==
    LET Ordered == InOrder(starts)
    IN [n \in DOMAIN Ordered |->
           [key |-> text[Ordered[n]], body |-> SubSeq(text, Ordered[n] + 1, EndOf(text, Ordered[n]) - 1)]]

OfPolicy(text, key) == Parsed(text, BlocksOf(text, key))
OfOthers(text, key) == Parsed(text, Starts(text) \ BlocksOf(text, key))

\* What is left of a text without its blocks.
Inside(text, i) == \E s \in Starts(text) : s <= i /\ i <= EndOf(text, s)

Human(text) ==
    LET Outside == InOrder({i \in DOMAIN text : ~ Inside(text, i)})
    IN [n \in DOMAIN Outside |-> text[Outside[n]]]

\* The step applies a policy.
Applies(k, c) == last' = [key |-> k, content |-> c] /\ used'.applies # used.applies

\* A text the renderer accepts reads in one way only: each of its end markers
\* closes one start, no block begins within another (_validate_markers).
AcceptedIsUnambiguous ==
    _validate_markers(file) =>
        /\ \A e \in Ends(file) : \E s \in Starts(file) : EndOf(file, s) = e
        /\ \A s, t \in Starts(file) : s < t => EndOf(file, s) < t

Written(content) == <<LF>> \o body(content, <<LF>>) \o <<LF>>

\* The policy has no block, or one that is as TrajWeave writes it.
AsWritten(text, key) ==
    \A n \in DOMAIN OfPolicy(text, key) : \E c \in Policies : OfPolicy(text, key)[n].body = Written(c)

\* Apply inserts or updates exactly its own block, whatever people have written
\* around and between the blocks: the policy has one block afterwards, with the
\* approved content; all other blocks and all human text stay as they are, but
\* for line breaks added where the block is appended and the front matter of an
\* empty Skill file.  For texts with Unix line breaks (render_target;
\* STAGE_7_REPORT.md:114).  A policy's block that somebody has edited inside is
\* left out of it: STAGE_7_REPORT.md:125 says such an edit is not overwritten,
\* and render_target replaces it.
OnlyOwnBlockChanges ==
    [][ \A k \in Keys, c \in Policies :
          Applies(k, c) /\ Unix(file) =>
            /\ _validate_markers(file') /\ Len(OfPolicy(file', k)) = 1
            /\ AsWritten(file, k) => OfPolicy(file', k) = <<[key |-> k, body |-> Written(c)]>>
            /\ OfOthers(file', k) = OfOthers(file, k)
            /\ IF OfPolicy(file, k) # <<>> THEN Human(file') = Human(file)
               ELSE IF file = <<>> /\ kind = "skill" THEN Human(file') = FrontMatter(<<LF>>) \o <<LF, LF>>
               ELSE /\ IsPrefix(Human(file), Human(file'))
                    /\ \A i \in Len(Human(file)) + 1 .. Len(Human(file')) : Human(file')[i] = LF ]_vars

\* Rendering twice is rendering once: a policy that was just applied needs no
\* change, so that Apply reports it as already applied (apply_preview).  For
\* texts whose line breaks are Unix ones before and after the first rendering:
\* a block that goes or comes can tip the count of _line_ending.
TwiceIsOnce ==
    [][ \A k \in Keys, c \in Policies :
          Applies(k, c) /\ Unix(file) /\ Unix(file') =>
            /\ Renderable(file', k, c)
            /\ render_target(file', k, c) = file' ]_vars

\* A policy that was applied can be updated: what TrajWeave has written is
\* never malformed to itself (STAGE_7_REPORT.md:114).
OwnBlockIsRecognised ==
    last # None => Renderable(file, last.key, last.content)

=============================================================================
