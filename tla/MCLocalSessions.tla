--------------------------- MODULE MCLocalSessions ---------------------------
EXTENDS LocalSessions, TLC
Symmetry == Permutations(Sessions)

\* Mail from outside goes to one of the sessions, whichever it is; the other
\* hears only of sessions, and of its deadlines.
OneRoot == Cardinality({s \in Sessions : Accepted(s) \cap Mail # {}}) <= 1
=============================================================================
