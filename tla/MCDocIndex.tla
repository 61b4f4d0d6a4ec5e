----------------------------- MODULE MCDocIndex -----------------------------
(* The instance of DocIndex that TLC checks: two files with the ID of one   *)
(* document, one without an ID, and one nothing can be extracted from.      *)
EXTENDS DocIndex, TLC

CONSTANTS r1, r2

Block(section, text, mandatory, front) ==
    [section |-> section, text |-> text, mandatory |-> mandatory, front |-> front]

Heading == Block("a", 1, FALSE, TRUE)
Step    == Block("a", 2, TRUE, FALSE)
Long    == Block("b", 4, FALSE, FALSE)

Old   == [name |-> "old.docx", id |-> "A", blocks |-> <<Heading, Step, Step>>]
New   == [name |-> "new.docx", id |-> "A", blocks |-> <<Heading, Step, Step, Long>>]
Again == [name |-> "old.docx", id |-> "A", blocks |-> <<Step>>]
Other == [name |-> "other.odt", id |-> None, blocks |-> <<>>]

TheFiles   == {Old, New, Again, Other}
TheUploads == {Old}
TheSeeds   == {<<Old, Other>>, <<Again, New>>}
TheIds     == <<"doc-1", "doc-2", "doc-3", "doc-4">>
TheRequests == {r1, r2}

Symmetry == Permutations(TheRequests)

SomeBlocks == {Block(s, n, m, FALSE) : s \in {"a", "b"}, n \in {1, 2, 4}, m \in BOOLEAN}
                \union {Heading, Block("b", 0, TRUE, FALSE)}
TheSamples == UNION {[1 .. n -> SomeBlocks] : n \in 0 .. 4}
=============================================================================
