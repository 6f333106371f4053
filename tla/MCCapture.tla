----------------------------- MODULE MCCapture -----------------------------
(* Instances of Capture for TLC.                                           *)
EXTENDS Capture, TLC

\* Two ordinary turns and a break between them.
Kinds2     == <<"work", "work">>
Quotes2    == <<{}, {}>>
Boundary2  == {<<1, 2>>}

\* A question to Elepha, a turn that repeats its answer, and a break between
\* the two ordinary turns after it.
Kinds4     == <<"mcp", "work", "work", "work">>
Quotes4    == <<{}, {1}, {}, {}>>
Boundary4  == {<<3, 4>>}

\* A turn without receipts and two questions to Elepha with room for one
\* receipt; turn 5 opens a segment and repeats the answer whose receipt was
\* refused, turn 6, of another project, the one that was retained.
Kinds6     == <<"work", "bare", "mcp", "mcp", "work", "work">>
Quotes6    == <<{}, {}, {}, {}, {4}, {3}>>
Boundary6  == {<<1, 5>>, <<5, 6>>}
TwoRoots6  == <<"p", "p", "p", "p", "p", "q">>

OneRoot    == {"p"}
TwoRoots   == {"p", "q"}
OneRoots2  == [t \in 1..2 |-> "p"]
OneRoots4  == [t \in 1..4 |-> "p"]
=============================================================================
