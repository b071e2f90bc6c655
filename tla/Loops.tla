---------------------------------- MODULE Loops ----------------------------------
(***************************************************************************)
(* What a for loop keeps: induction over a list, for any body and any      *)
(* invariant.  Whoever needs it for a loop of its own instantiates Do and  *)
(* Inv; s stands for what the body and the invariant refer to besides.     *)
(* That induction over the natural numbers is sound is a hypothesis here,  *)
(* which the modules that instantiate this one prove (NatIsAll).           *)
(***************************************************************************)
EXTENDS Naturals, Sequences, TLAPS

CONSTANTS
  Do(_, _, _),   \* s, the state so far, the next member
  Inv(_, _, _)   \* s, how many members were done, the state so far

Looped(s, first, items) ==
  LET at[i \in 0..Len(items)] == IF i = 0 THEN first ELSE Do(s, at[i - 1], items[i])
  IN  at[Len(items)]
-----------------------------------------------------------------------------
\* What holds of 0, and of n + 1 whenever of n, holds of every natural number.
Induction == \A G : 0 \in G /\ (\A n \in Nat : n \in G => n + 1 \in G) => Nat \subseteq G

\* The loop goes through a state after each member.
LEMMA LoopIs ==
  ASSUME Induction, NEW s, NEW first, NEW items, Len(items) \in Nat
  PROVE  \E at : /\ Looped(s, first, items) = at[Len(items)] /\ at[0] = first
                 /\ \A i \in 1..Len(items) : at[i] = Do(s, at[i - 1], items[i])
<1> DEFINE Trace(g, n) == g = [i \in 0..n |-> IF i = 0 THEN first ELSE Do(s, g[i - 1], items[i])]
           G == {n \in Nat : \E g : Trace(g, n)}
<1>1. 0 \in G
  <2>1. PICK g : g = [i \in 0..0 |-> first]  OBVIOUS
  <2>2. Trace(g, 0)  BY <2>1
  <2> QED  BY <2>2
<1>2. ASSUME NEW n \in Nat, n \in G  PROVE n + 1 \in G
  <2>1. PICK g : Trace(g, n)  BY <1>2
  <2>2. PICK h : h = [i \in 0..(n + 1) |-> IF i <= n THEN g[i] ELSE Do(s, g[n], items[n + 1])]
    OBVIOUS
  <2>3. ASSUME NEW i \in 0..(n + 1)
        PROVE  h[i] = IF i = 0 THEN first ELSE Do(s, h[i - 1], items[i])
    <3>1. CASE i = 0  BY <2>1, <2>2, <3>1
    <3>2. CASE i # 0 /\ i <= n
      <4>1. i - 1 \in 0..n /\ i - 1 \in 0..(n + 1) /\ i - 1 <= n /\ i \in 0..n  BY <3>2
      <4>2. h[i] = g[i] /\ h[i - 1] = g[i - 1]  BY <2>2, <3>2, <4>1
      <4>3. g[i] = Do(s, g[i - 1], items[i])  BY <2>1, <3>2, <4>1
      <4> QED  BY <3>2, <4>2, <4>3
    <3>3. CASE i = n + 1
      <4>1. i # 0 /\ i - 1 = n /\ ~(i <= n) /\ n \in 0..(n + 1) /\ n <= n  BY <3>3
      <4>2. h[i] = Do(s, g[n], items[i]) /\ h[n] = g[n]  BY <2>2, <3>3, <4>1
      <4> QED  BY <4>1, <4>2
    <3> QED  BY <3>1, <3>2, <3>3
  <2>4. Trace(h, n + 1)
    <3>1. h = [i \in 0..(n + 1) |-> h[i]]  BY <2>2
    <3> QED  BY <2>3, <3>1
  <2> QED  BY <2>4
<1>3. PICK n : n = Len(items) /\ n \in Nat  OBVIOUS
<1>4. n \in G
  <2> HIDE DEF G
  <2> QED  BY <1>1, <1>2, <1>3 DEF Induction
<1>5. PICK at : at = CHOOSE g : Trace(g, n)  OBVIOUS
<1>6. at = [i \in 0..n |-> IF i = 0 THEN first ELSE Do(s, at[i - 1], items[i])]
  BY <1>4, <1>5
<1>7. Looped(s, first, items) = at[Len(items)]  BY <1>3, <1>5 DEF Looped
<1> QED  BY <1>3, <1>6, <1>7

\* What holds before a loop and is kept by every turn of it holds after it.
LEMMA LoopKeeps ==
  ASSUME Induction, NEW s, NEW first, NEW items, Len(items) \in Nat, Inv(s, 0, first),
         \A i \in 1..Len(items) : \A b :
           Inv(s, i - 1, b) => Inv(s, i, Do(s, b, items[i]))
  PROVE  Inv(s, Len(items), Looped(s, first, items))
<1>1. PICK at : /\ Looped(s, first, items) = at[Len(items)] /\ at[0] = first
                /\ \A i \in 1..Len(items) : at[i] = Do(s, at[i - 1], items[i])
  BY LoopIs
<1>2. PICK n : n = Len(items) /\ n \in Nat  OBVIOUS
<1> DEFINE G == {i \in Nat : i <= n => Inv(s, i, at[i])}
<1>3. 0 \in G  BY <1>1
<1>4. ASSUME NEW i \in Nat, i \in G  PROVE i + 1 \in G
  <2>1. SUFFICES ASSUME i + 1 <= n  PROVE Inv(s, i + 1, at[i + 1])
    OBVIOUS
  <2>2. i <= n /\ i + 1 \in 1..n /\ (i + 1) - 1 = i  BY <1>2, <2>1
  <2>3. Inv(s, i, at[i])  BY <1>4, <2>2
  <2>4. at[i + 1] = Do(s, at[i], items[i + 1])  BY <1>1, <1>2, <2>2
  <2> QED  BY <1>2, <2>2, <2>3, <2>4
<1>5. n \in G
  <2> HIDE DEF G
  <2> QED  BY <1>2, <1>3, <1>4 DEF Induction
<1> QED  BY <1>1, <1>2, <1>5
=============================================================================
