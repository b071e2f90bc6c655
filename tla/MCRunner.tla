------------------------------- MODULE MCRunner -------------------------------
(* a is an eager member with a reserved worker; b and c run on demand.       *)
EXTENDS Runner, TLC
CONSTANTS a, b, c, da, db, dc, s1, s2
AB == <<a, b>>
BC == <<b, c>>
OnlyB == <<b>>
MCDefinition == [m \in Members |-> CASE m = a -> da [] m = b -> db [] m = c -> dc]
MCReserved == [m \in Members |-> IF m = a THEN 1 ELSE 0]
AlwaysOne == [m \in Members |-> 1]
AlwaysTwo == [m \in Members |-> 2]
TwoOfA == [m \in Members |-> IF m = a THEN 2 ELSE 1]
Notices == {Notice(<<s, r, n>>) : s \in Sessions, r \in 0..MaxRevision, n \in 0..MaxAttempts}
\* The sessions are alike, and a behaviour has one retry or one fault, not both.
Alike == Permutations(Sessions)
OneTrouble == retries + faults <= 1
=============================================================================
