------------------------------ MODULE MC_Boot ------------------------------
(***************************************************************************)
(* Small instances of Boot for TLC; the values are in the cfg file.        *)
(***************************************************************************)
EXTENDS Boot

CONSTANTS r1, c1, p1

SeedOf(repos, once, kind, pins, parses) ==
    [repos |-> repos, once |-> once, persist |-> [p \in Paths |-> kind],
     pins |-> pins, parses |-> parses]

\* Two versions of the pins, of which the second may not be Strict, both kinds
\* of a mapping, a seed without [tools], one that forgot the bootstrap, and one
\* with a typo.
McSeeds == {
    SeedOf({r1}, {Mise, c1}, "dir", 1, TRUE),
    SeedOf({r1}, {Mise}, "dir", 2, TRUE),
    SeedOf({}, {c1}, "file", 0, TRUE),
    SeedOf({}, {}, "no", 1, TRUE),
    SeedOf({}, {c1}, "no", 0, FALSE)}

=============================================================================
