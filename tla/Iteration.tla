------------------------------- MODULE Iteration -------------------------------
(***************************************************************************)
(* A for loop over a list, as the modules that transcribe one use it: Do   *)
(* takes the state so far and the next item.                               *)
(***************************************************************************)
EXTENDS Naturals, Sequences

ForEach(Do(_, _), first, items) ==
  LET at[i \in 0..Len(items)] == IF i = 0 THEN first ELSE Do(at[i - 1], items[i])
  IN  at[Len(items)]
=============================================================================
