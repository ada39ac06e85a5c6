---------------------------- MODULE MCPairCommand ----------------------------
EXTENDS PairCommand

CONSTANTS mac, phone, none, garbled, example, mom, p, q

MCIds == {mac, phone}
MCProcs == {p, q}

\* Nothing tells one process from another, and no liveness is checked.
Symmetry == Permutations(MCProcs)
MCNames == {none, garbled, example, mom}

\* What people write: a named peer either way, a bare one, a note, a typo.
TypedLines ==
    {Blank, Junk, Comment(mom), IdLine(mac, none), IdLine(mac, mom), IdLine(phone, none)}

TypedTexts == BoundedSeq(TypedLines, 2)

EndedFiles == {[lines |-> t, ended |-> TRUE] : t \in TypedTexts}

\* The last line may lack its newline, if there is a line at all.
AllFiles == EndedFiles \cup {[lines |-> t, ended |-> FALSE] : t \in TypedTexts \ {<<>>}}
==============================================================================
