---------------------------- MODULE GraphRuntimeProofs ----------------------------
(***************************************************************************)
(* Proofs about the graph engine on either store, for every program,       *)
(* every number of crashes and every bound.                                *)
(*                                                                         *)
(* The store: StoreOK says that its index sets are exact and the           *)
(* executions of a session numbered without a gap; one lemma for each      *)
(* operation of the Redis store (RedisX) and of SQLite's (SqliteX) says    *)
(* that it keeps StoreOK and what it may change (Moves), and DoesX covers  *)
(* both.                                                                   *)
(*                                                                         *)
(* The engine: TodoOK says that what is left of a call can be done, as     *)
(* each of its operations needs executions and sessions the store has.     *)
(* EngineInv is StoreOK and TodoOK together, and is inductive.  StepIs     *)
(* sorts the steps into EngineSteps, the few kinds that matter to mail.    *)
(*                                                                         *)
(* Mail: MailInv says that an execution with mail not acknowledged yet     *)
(* owes the acknowledgement in its outbox row, and that a running worker   *)
(* has those effects in todo, so that at the next commit nothing is owed.  *)
(***************************************************************************)
EXTENDS GraphRuntime, SequenceTheorems, FiniteSetTheorems, TLAPS

-----------------------------------------------------------------------------
(* Induction over the natural numbers.                                    *)

\* A set of natural numbers that has members has a least one.
LEMMA LeastNat ==
  ASSUME NEW T \in SUBSET Nat, T # {}
  PROVE  \E n \in T : \A m \in T : n <= m
<1> DEFINE R == StrictSubsetOrdering(Nat)
           U == {0..n : n \in T}
<1>1. IsWellFoundedOn(R, FiniteSubsetsOf(Nat))  BY FS_StrictSubsetOrderingWellFounded
<1>2. U \subseteq FiniteSubsetsOf(Nat)
  <2>1. \A n \in Nat : IsFiniteSet(0..n)  BY FS_Interval
  <2> QED  BY <2>1 DEF FiniteSubsetsOf
<1>3. U # {}  OBVIOUS
<1> HIDE DEF U, R
<1>4. PICK u \in U : \A v \in U : ~(<<v, u>> \in R)
  BY <1>1, <1>2, <1>3, WFMin
<1>5. PICK n \in T : u = 0..n  BY DEF U
<1>6. ASSUME NEW m \in T  PROVE n <= m
  <2>1. ~(<<0..m, 0..n>> \in R)  BY <1>4, <1>5 DEF U
  <2>2. SUFFICES ASSUME m < n PROVE FALSE  OBVIOUS
  <2>3. 0..m \subseteq 0..n /\ 0..m # 0..n
    <3>1. n \in 0..n /\ n \notin 0..m  BY <2>2
    <3> QED  BY <2>2, <3>1
  <2>4. 0..m \in SUBSET Nat /\ 0..n \in SUBSET Nat  OBVIOUS
  <2> QED  BY <2>1, <2>3, <2>4 DEF R, StrictSubsetOrdering
<1> QED  BY <1>6

\* What holds of 0, and of n + 1 whenever of n, holds of every natural number.
LEMMA NatIsAll ==
  \A G : 0 \in G /\ (\A n \in Nat : n \in G => n + 1 \in G) => Nat \subseteq G
<1> SUFFICES ASSUME NEW G, 0 \in G, \A n \in Nat : n \in G => n + 1 \in G, Nat \ G # {}
             PROVE  FALSE
  OBVIOUS
<1>1. PICK n \in Nat \ G : \A m \in Nat \ G : n <= m  BY LeastNat
<1>2. n # 0  OBVIOUS
<1>3. n - 1 \in Nat  BY <1>2
<1>4. n - 1 \in G  BY <1>1, <1>3
<1>5. (n - 1) + 1 = n  OBVIOUS
<1> QED  BY <1>3, <1>4, <1>5

-----------------------------------------------------------------------------
(* Lists.                                                                  *)

IsList(q) == \E T : q \in Seq(T)
Items(q) == {q[i] : i \in 1..Len(q)}

LEMMA ListIs ==
  ASSUME NEW q, IsList(q)
  PROVE  Len(q) \in Nat /\ DOMAIN q = 1..Len(q) /\ q = [i \in 1..Len(q) |-> q[i]]
BY DEF IsList

\* Any function on the first numbers is a list.
LEMMA ListOf ==
  ASSUME NEW n \in Nat, NEW q, q = [i \in 1..n |-> q[i]]
  PROVE  IsList(q) /\ Len(q) = n
<1>1. q \in [1..n -> {q[i] : i \in 1..n}]  OBVIOUS
<1>2. q \in Seq({q[i] : i \in 1..n}) /\ Len(q) = n  BY <1>1
<1> QED  BY <1>2 DEF IsList

LEMMA NilList == IsList(<<>>) /\ Items(<<>>) = {} /\ Len(<<>>) = 0
<1>1. <<>> \in Seq({})  OBVIOUS
<1> QED  BY <1>1 DEF IsList, Items

LEMMA OneList ==
  ASSUME NEW x
  PROVE  IsList(<<x>>) /\ Items(<<x>>) = {x} /\ Len(<<x>>) = 1 /\ <<x>>[1] = x /\ <<x>> # <<>>
<1>1. <<x>> \in Seq({x}) /\ Len(<<x>>) = 1 /\ <<x>>[1] = x  OBVIOUS
<1>2. 1..1 = {1}  OBVIOUS
<1> QED  BY <1>1, <1>2 DEF IsList, Items

LEMMA TwoList ==
  ASSUME NEW x, NEW y
  PROVE  /\ IsList(<<x, y>>) /\ Items(<<x, y>>) = {x, y} /\ Len(<<x, y>>) = 2 /\ <<x, y>> # <<>>
         /\ <<x, y>>[1] = x /\ <<x, y>>[2] = y
<1>1. <<x, y>> \in Seq({x, y}) /\ Len(<<x, y>>) = 2 /\ <<x, y>>[1] = x /\ <<x, y>>[2] = y  OBVIOUS
<1>2. 1..2 = {1, 2}  OBVIOUS
<1> QED  BY <1>1, <1>2 DEF IsList, Items

LEMMA Cat ==
  ASSUME NEW p, IsList(p), NEW q, IsList(q)
  PROVE  /\ IsList(p \o q) /\ Len(p \o q) = Len(p) + Len(q)
         /\ \A i \in 1..Len(p) : (p \o q)[i] = p[i]
         /\ \A i \in 1..Len(q) : (p \o q)[Len(p) + i] = q[i]
         /\ Items(p \o q) = Items(p) \cup Items(q)
<1>1. PICK A : p \in Seq(A)  BY DEF IsList
<1>2. PICK B : q \in Seq(B)  BY DEF IsList
<1>3. p \in Seq(A \cup B) /\ q \in Seq(A \cup B)  BY <1>1, <1>2
<1>4. PICK m, n : m = Len(p) /\ n = Len(q) /\ m \in Nat /\ n \in Nat  BY <1>3
<1>5. PICK r : r = p \o q  OBVIOUS
<1>6. /\ r \in Seq(A \cup B) /\ Len(r) = m + n
      /\ \A i \in 1..m : r[i] = p[i]
      /\ \A i \in 1..n : r[m + i] = q[i]
  BY <1>3, <1>4, <1>5
<1>7. Items(r) \subseteq Items(p) \cup Items(q)
  <2>1. ASSUME NEW i \in 1..(m + n)  PROVE r[i] \in Items(p) \cup Items(q)
    <3>1. CASE i <= m
      <4>1. i \in 1..m /\ r[i] = p[i]  BY <1>4, <1>6, <3>1
      <4> QED  BY <1>4, <4>1 DEF Items
    <3>2. CASE ~(i <= m)
      <4>1. i - m \in 1..n /\ m + (i - m) = i  BY <1>4, <3>2
      <4>2. r[i] = q[i - m]  BY <1>6, <4>1
      <4> QED  BY <1>4, <4>1, <4>2 DEF Items
    <3> QED  BY <3>1, <3>2
  <2> QED  BY <1>6, <2>1 DEF Items
<1>8. Items(p) \cup Items(q) \subseteq Items(r)
  <2>1. ASSUME NEW i \in 1..m  PROVE p[i] \in Items(r)
    <3>1. i \in 1..(m + n) /\ r[i] = p[i]  BY <1>4, <1>6
    <3> QED  BY <1>6, <3>1 DEF Items
  <2>2. ASSUME NEW i \in 1..n  PROVE q[i] \in Items(r)
    <3>1. m + i \in 1..(m + n) /\ r[m + i] = q[i]  BY <1>4, <1>6
    <3> QED  BY <1>6, <3>1 DEF Items
  <2> QED  BY <1>4, <2>1, <2>2 DEF Items
<1> QED  BY <1>4, <1>5, <1>6, <1>7, <1>8 DEF IsList

LEMMA TailList ==
  ASSUME NEW q, IsList(q), q # <<>>
  PROVE  /\ IsList(Tail(q)) /\ Head(q) = q[1] /\ Len(q) \in Nat \ {0} /\ Len(Tail(q)) = Len(q) - 1
         /\ \A i \in 1..Len(Tail(q)) : Tail(q)[i] = q[i + 1]
         /\ Items(Tail(q)) \subseteq Items(q) /\ q[1] \in Items(q)
<1>1. PICK A : q \in Seq(A)  BY DEF IsList
<1>2. PICK r, n : r = Tail(q) /\ n = Len(q)  OBVIOUS
<1>3. n \in Nat \ {0}  BY <1>1, <1>2
<1>4. r \in Seq(A) /\ Len(r) = n - 1 /\ Head(q) = q[1] /\ \A i \in 1..(n - 1) : r[i] = q[i + 1]
  BY <1>1, <1>2, <1>3, HeadTailProperties
<1>5. \A i \in 1..(n - 1) : i + 1 \in 1..n  BY <1>3
<1>6. 1 \in 1..n  BY <1>3
<1> QED  BY <1>2, <1>3, <1>4, <1>5, <1>6 DEF IsList, Items

LEMMA AppendList ==
  ASSUME NEW q, IsList(q), NEW x
  PROVE  /\ IsList(Append(q, x)) /\ Len(Append(q, x)) = Len(q) + 1
         /\ Append(q, x)[Len(q) + 1] = x /\ \A i \in 1..Len(q) : Append(q, x)[i] = q[i]
         /\ Items(Append(q, x)) = Items(q) \cup {x}
<1>1. PICK A : q \in Seq(A)  BY DEF IsList
<1>2. q \in Seq(A \cup {x})  BY <1>1
<1>3. PICK r, n : r = Append(q, x) /\ n = Len(q)  OBVIOUS
<1>4. /\ n \in Nat /\ r \in Seq(A \cup {x}) /\ Len(r) = n + 1 /\ r[n + 1] = x
      /\ \A i \in 1..n : r[i] = q[i]
  BY <1>2, <1>3
<1>5. 1..(n + 1) = 1..n \cup {n + 1}  BY <1>4
<1>6. Items(r) = Items(q) \cup {x}
  BY <1>3, <1>4, <1>5 DEF Items
<1> QED  BY <1>3, <1>4, <1>6 DEF IsList

\* The members of a finite set, one after the other.
LEMMA ListOfSet ==
  ASSUME NEW S, IsFiniteSet(S)
  PROVE  IsList(SetToSeq(S)) /\ Items(SetToSeq(S)) = S
<1>1. PICK n : n = Cardinality(S) /\ n \in Nat  BY FS_CardinalityType
<1>2. PICK q : q = SetToSeq(S)  OBVIOUS
<1>3. ExistsBijection(1..n, S)  BY <1>1, FS_CountingElements, FS_NatBijection, FS_CardinalityType
<1>4. PICK g : g \in Bijection(1..n, S)  BY <1>3 DEF ExistsBijection
<1>5. g \in [1..n -> S] /\ IsInjective(g)
  BY <1>4 DEF Bijection, Injection, IsInjective
<1>6. q \in [1..n -> S] /\ IsInjective(q)  BY <1>1, <1>2, <1>5 DEF SetToSeq
<1>7. IsList(q) /\ Len(q) = n
  <2>1. q = [i \in 1..n |-> q[i]]  BY <1>6
  <2> QED  BY <1>1, <2>1, ListOf
<1> DEFINE U == {q[i] : i \in 1..n}
<1>8. q \in Bijection(1..n, U)
  BY <1>6 DEF Bijection, Injection, Surjection, IsInjective
<1>9. U \subseteq S  BY <1>6
<1>10. U = S
  <2>1. Items(q) = U  BY <1>7 DEF Items
  <2> HIDE DEF U
  <2>2. IsFiniteSet(1..n) /\ Cardinality(1..n) = n  BY <1>1, FS_Interval
  <2>3. IsFiniteSet(U) /\ Cardinality(U) = n  BY <1>8, <2>2, FS_Bijection DEF ExistsBijection
  <2> QED  BY <1>1, <1>9, <2>3, FS_Subset
<1> QED  BY <1>2, <1>7, <1>10 DEF Items
-----------------------------------------------------------------------------
(* What every operation of a store keeps.                                  *)

Statuses == {"pending", "running", "waiting", "completed", "failed"}
EffectsOK(f) == IsList(f.publish) /\ IsList(f.arm) /\ IsFiniteSet(f.acknowledge)
RowOK(d, x) ==
  /\ DOMAIN x = {"session", "node", "policy", "status", "attempts", "result", "got",
                 "effects", "wake", "retry"}
  /\ x.status \in Statuses /\ x.session \in DOMAIN d.sess /\ EffectsOK(x.effects)
SessOK(d, s) ==
  /\ DOMAIN d.sess[s] = {"status", "key", "initial", "lineage"}
  /\ s \in Items(d.terminal) <=> d.sess[s].status # "running"

\* The executions of a session are numbered without a gap.
Slots(s, n) == {<<s, k>> : k \in 0..(n - 1)}
Numbered(d, s) == \E n \in Nat : ExecutionsOf(d, s) = Slots(s, n)

Rows(d) ==
  /\ DOMAIN d = {"sess", "exec", "edges", "running", "terminal", "pending", "waiting",
                 "outbox", "serial"}
  /\ \A e \in DOMAIN d.exec : RowOK(d, d.exec[e])
  /\ \A s \in DOMAIN d.sess : SessOK(d, s) /\ Numbered(d, s)
  /\ IsList(d.terminal) /\ Items(d.terminal) \subseteq DOMAIN d.sess
  /\ IsFiniteSet(DOMAIN d.sess) /\ IsFiniteSet(DOMAIN d.exec)

Having(d, status) == {e \in DOMAIN d.exec : d.exec[e].status = status}
Owing(d) == {e \in DOMAIN d.exec : d.exec[e].effects # NoEffects}
Live(d) == {s \in DOMAIN d.sess : d.sess[s].status = "running"}
Indexed(d) ==
  /\ d.running = Live(d) /\ d.outbox = Owing(d)
  /\ d.pending = Having(d, "pending") /\ d.waiting = Having(d, "waiting")

StoreOK(d) == Rows(d) /\ Indexed(d)

\* From c to d nothing is lost; W may be parked and the mail of M may change.
MovedRow(c, d, e, W, M) ==
  IF e \in DOMAIN c.exec
    THEN /\ d.exec[e].node = c.exec[e].node /\ d.exec[e].session = c.exec[e].session
         /\ d.exec[e].status = "waiting" /\ e \notin W => c.exec[e].status = "waiting"
         /\ e \notin M => d.exec[e].got = c.exec[e].got /\ d.exec[e].effects = c.exec[e].effects
    ELSE /\ d.exec[e].status = "waiting" => e \in W
         /\ e \notin M => d.exec[e].got = {} /\ d.exec[e].effects = NoEffects
Moves(c, d, W, M) ==
  /\ DOMAIN c.exec \subseteq DOMAIN d.exec /\ DOMAIN c.sess \subseteq DOMAIN d.sess
  /\ \A e \in DOMAIN d.exec : MovedRow(c, d, e, W, M)

\* The same sessions with the same executions.
SameIds(c, d) ==
  DOMAIN d.sess = DOMAIN c.sess /\ \A s : ExecutionsOf(d, s) = ExecutionsOf(c, s)

LEMMA MovesOn ==
  ASSUME NEW b, NEW c, NEW d, NEW W, NEW M, Moves(b, c, W, M), Moves(c, d, W, M)
  PROVE  Moves(b, d, W, M)
<1>1. ASSUME NEW e \in DOMAIN d.exec  PROVE MovedRow(b, d, e, W, M)
  BY DEF Moves, MovedRow
<1> QED  BY <1>1 DEF Moves

LEMMA MovesMore ==
  ASSUME NEW c, NEW d, NEW W, NEW M, NEW V, NEW N, Moves(c, d, W, M),
         W \subseteq V, M \subseteq N
  PROVE  Moves(c, d, V, N)
BY DEF Moves, MovedRow

LEMMA MovesNot == \A d, W, M : Moves(d, d, W, M)  BY DEF Moves, MovedRow

-----------------------------------------------------------------------------
(* One row changes.                                                        *)

\* d is c with row e replaced by x; indexes aside.
Rewrites(c, d, e, x) ==
  /\ DOMAIN d = DOMAIN c /\ d.sess = c.sess /\ d.terminal = c.terminal
  /\ DOMAIN d.exec = DOMAIN c.exec /\ d.exec[e] = x
  /\ \A f \in DOMAIN c.exec : f # e => d.exec[f] = c.exec[f]

\* x is what row y may become.
Becomes(y, x) ==
  /\ DOMAIN x = DOMAIN y /\ x.session = y.session /\ x.node = y.node
  /\ x.status \in Statuses /\ EffectsOK(x.effects)

LEMMA RewriteRows ==
  ASSUME NEW c, Rows(c), NEW d, NEW e \in DOMAIN c.exec, NEW x, Rewrites(c, d, e, x),
         Becomes(c.exec[e], x)
  PROVE  /\ Rows(d) /\ SameIds(c, d) /\ DOMAIN d.exec = DOMAIN c.exec /\ d.exec[e] = x
         /\ \A f \in DOMAIN c.exec : f # e => d.exec[f] = c.exec[f]
<1>1. DOMAIN d.exec = DOMAIN c.exec /\ d.exec[e] = x /\ \A f \in DOMAIN c.exec : f # e => d.exec[f] = c.exec[f]
  BY DEF Rewrites
<1>2. \A f \in DOMAIN d.exec : d.exec[f].session = c.exec[f].session
  BY <1>1 DEF Becomes
<1>3. \A s : ExecutionsOf(d, s) = ExecutionsOf(c, s)
  BY <1>1, <1>2 DEF ExecutionsOf
<1>4. ASSUME NEW f \in DOMAIN d.exec  PROVE RowOK(d, d.exec[f])
  <2>1. RowOK(c, c.exec[f])  BY <1>1 DEF Rows
  <2>2. CASE f = e  BY <1>1, <2>1, <2>2 DEF RowOK, Becomes, Rewrites
  <2>3. CASE f # e  BY <1>1, <2>1, <2>3 DEF RowOK, Rewrites
  <2> QED  BY <2>2, <2>3
<1>5. ASSUME NEW s \in DOMAIN d.sess  PROVE SessOK(d, s) /\ Numbered(d, s)
  <2>1. s \in DOMAIN c.sess /\ SessOK(c, s) /\ Numbered(c, s)  BY DEF Rows, Rewrites
  <2>2. SessOK(d, s)  BY <2>1 DEF SessOK, Rewrites
  <2>3. Numbered(d, s)  BY <1>3, <2>1 DEF Numbered
  <2> QED  BY <2>2, <2>3
<1>6. Rows(d)
  BY <1>1, <1>4, <1>5 DEF Rows, Rewrites
<1>7. SameIds(c, d)  BY <1>3 DEF SameIds, Rewrites
<1> QED  BY <1>1, <1>6, <1>7

\* How the row may change so that Moves holds.
MayMove(y, x, e, W, M) ==
  /\ x.status = "waiting" => e \in W \/ y.status = "waiting"
  /\ e \notin M => x.got = y.got /\ x.effects = y.effects

LEMMA RewriteMoves ==
  ASSUME NEW c, Rows(c), NEW d, NEW e \in DOMAIN c.exec, NEW x, Rewrites(c, d, e, x),
         Becomes(c.exec[e], x), NEW W, NEW M, MayMove(c.exec[e], x, e, W, M)
  PROVE  Moves(c, d, W, M)
<1>1. DOMAIN d.exec = DOMAIN c.exec /\ d.exec[e] = x /\ \A f \in DOMAIN c.exec : f # e => d.exec[f] = c.exec[f]
  BY DEF Rewrites
<1>2. ASSUME NEW f \in DOMAIN d.exec  PROVE MovedRow(c, d, f, W, M)
  <2>1. CASE f = e  BY <1>1, <2>1 DEF MovedRow, Becomes, MayMove
  <2>2. CASE f # e  BY <1>1, <2>2 DEF MovedRow
  <2> QED  BY <2>1, <2>2
<1> QED  BY <1>1, <1>2 DEF Moves, Rewrites

\* The Redis store moves the row between its index sets.
Reindexes(c, d, e, x) ==
  /\ d.running = c.running
  /\ d.pending = IF x.status = "pending" THEN c.pending \cup {e} ELSE c.pending \ {e}
  /\ d.waiting = IF x.status = "waiting" THEN c.waiting \cup {e} ELSE c.waiting \ {e}
  /\ d.outbox = IF x.effects # NoEffects THEN c.outbox \cup {e} ELSE c.outbox \ {e}

LEMMA RewriteIndexed ==
  ASSUME NEW c, StoreOK(c), NEW d, NEW e \in DOMAIN c.exec, NEW x, Rewrites(c, d, e, x),
         Reindexes(c, d, e, x)
  PROVE  Indexed(d)
<1>1. DOMAIN d.exec = DOMAIN c.exec /\ d.exec[e] = x /\ \A f \in DOMAIN c.exec : f # e => d.exec[f] = c.exec[f]
  BY DEF Rewrites
<1>2. d.running = Live(d)  BY DEF StoreOK, Indexed, Live, Rewrites, Reindexes
<1>3. d.pending = Having(d, "pending")
  BY <1>1 DEF StoreOK, Indexed, Having, Reindexes
<1>4. d.waiting = Having(d, "waiting")
  BY <1>1 DEF StoreOK, Indexed, Having, Reindexes
<1>5. d.outbox = Owing(d)
  BY <1>1 DEF StoreOK, Indexed, Owing, Reindexes
<1> QED  BY <1>2, <1>3, <1>4, <1>5 DEF Indexed

LEMMA Rewrite ==
  ASSUME NEW c, StoreOK(c), NEW d, NEW e \in DOMAIN c.exec, NEW x, Rewrites(c, d, e, x),
         Becomes(c.exec[e], x), Reindexes(c, d, e, x), NEW W, NEW M,
         MayMove(c.exec[e], x, e, W, M)
  PROVE  StoreOK(d) /\ SameIds(c, d) /\ Moves(c, d, W, M)
<1>1. Rows(c)  BY DEF StoreOK
<1>2. Rows(d)  BY <1>1, RewriteRows
<1>3. SameIds(c, d)  BY <1>1, RewriteRows
<1>4. Moves(c, d, W, M)  BY <1>1, RewriteMoves
<1>5. Indexed(d)  BY RewriteIndexed
<1> QED  BY <1>2, <1>3, <1>4, <1>5 DEF StoreOK
-----------------------------------------------------------------------------
(* The marks of the Redis store.                                           *)

\* Nothing is lost, parked or born, and no mail changes.
Marks(c, d) ==
  /\ StoreOK(d) /\ SameIds(c, d) /\ Moves(c, d, {}, {})
  /\ DOMAIN d.exec = DOMAIN c.exec

\* Nothing of it changes but its edges and the keys of its sessions.
Alike(c, d) ==
  /\ DOMAIN d = DOMAIN c /\ d.terminal = c.terminal
  /\ d.running = c.running /\ d.waiting = c.waiting /\ d.outbox = c.outbox
  /\ d.pending = c.pending
  /\ DOMAIN d.exec = DOMAIN c.exec /\ \A f \in DOMAIN c.exec : d.exec[f] = c.exec[f]
  /\ DOMAIN d.sess = DOMAIN c.sess
  /\ \A s \in DOMAIN c.sess : /\ DOMAIN d.sess[s] = DOMAIN c.sess[s]
                              /\ d.sess[s].status = c.sess[s].status

LEMMA AlikeMarks ==
  ASSUME NEW c, StoreOK(c), NEW d, Alike(c, d)
  PROVE  Marks(c, d)
<1>1. \A s : ExecutionsOf(d, s) = ExecutionsOf(c, s)  BY DEF Alike, ExecutionsOf
<1>2. SameIds(c, d)  BY <1>1 DEF SameIds, Alike
<1>3. Moves(c, d, {}, {})  BY DEF Moves, MovedRow, Alike
<1>4. ASSUME NEW f \in DOMAIN d.exec  PROVE RowOK(d, d.exec[f])
  BY DEF StoreOK, Rows, RowOK, Alike
<1>5. ASSUME NEW s \in DOMAIN d.sess  PROVE SessOK(d, s) /\ Numbered(d, s)
  <2>1. s \in DOMAIN c.sess /\ SessOK(c, s) /\ Numbered(c, s)  BY DEF StoreOK, Rows, Alike
  <2>2. SessOK(d, s)  BY <2>1 DEF SessOK, Alike
  <2> QED  BY <1>1, <2>1, <2>2 DEF Numbered
<1>6. Rows(d)  BY <1>4, <1>5 DEF StoreOK, Rows, Alike
<1>7. d.running = Live(d)  BY DEF StoreOK, Indexed, Live, Alike
<1>8. d.outbox = Owing(d)  BY DEF StoreOK, Indexed, Owing, Alike
<1>9. \A st : Having(d, st) = Having(c, st)  BY DEF Having, Alike
<1>10. Indexed(d)  BY <1>7, <1>8, <1>9 DEF StoreOK, Indexed, Alike
<1> QED  BY <1>2, <1>3, <1>6, <1>10 DEF Marks, StoreOK, Alike

LEMMA RedisMark ==
  ASSUME NEW c, StoreOK(c), NEW d, NEW e \in DOMAIN c.exec, ~IsWaiting(c, e),
         NEW x, Rewrites(c, d, e, x),
         DOMAIN x = DOMAIN c.exec[e], x.session = c.exec[e].session, x.node = c.exec[e].node,
         x.got = c.exec[e].got, x.effects = c.exec[e].effects,
         x.status \in Statuses \ {"waiting"}, d.running = c.running,
         d.pending = IF x.status = "pending" THEN c.pending \cup {e} ELSE c.pending \ {e},
         d.waiting = c.waiting, d.outbox = c.outbox
  PROVE  Marks(c, d) /\ d.exec[e].status = x.status
<1>1. RowOK(c, c.exec[e]) /\ c.waiting = Having(c, "waiting") /\ c.outbox = Owing(c)
  BY DEF StoreOK, Rows, Indexed
<1>2. Becomes(c.exec[e], x)  BY <1>1 DEF Becomes, RowOK
<1>3. c.waiting = c.waiting \ {e}  BY <1>1 DEF Having, IsWaiting
<1>4. c.outbox = IF x.effects # NoEffects THEN c.outbox \cup {e} ELSE c.outbox \ {e}
  BY <1>1 DEF Owing
<1>5. Reindexes(c, d, e, x)  BY <1>3, <1>4 DEF Reindexes
<1>6. MayMove(c.exec[e], x, e, {}, {})  BY DEF MayMove
<1>7. StoreOK(d) /\ SameIds(c, d) /\ Moves(c, d, {}, {})
  BY <1>2, <1>5, <1>6, Rewrite
<1> QED  BY <1>7 DEF Marks, Rewrites

LEMMA SetStatusIs ==
  ASSUME NEW c, StoreOK(c), NEW e \in DOMAIN c.exec, NEW st, NEW d, d = SetStatus(c, e, st)
  PROVE  /\ DOMAIN d = DOMAIN c /\ d.sess = c.sess /\ d.terminal = c.terminal
         /\ d.running = c.running /\ d.waiting = c.waiting /\ d.outbox = c.outbox
         /\ d.pending = c.pending \ {e} /\ d.edges = c.edges
         /\ DOMAIN d.exec = DOMAIN c.exec /\ d.exec[e] = [c.exec[e] EXCEPT !.status = st]
         /\ \A f \in DOMAIN c.exec : f # e => d.exec[f] = c.exec[f]
<1>1. DOMAIN c = {"sess", "exec", "edges", "running", "terminal", "pending", "waiting",
                 "outbox", "serial"}
  BY DEF StoreOK, Rows
<1> QED  BY <1>1 DEF SetStatus

LEMMA RedisRunning ==
  ASSUME NEW c, StoreOK(c), NEW e \in DOMAIN c.exec, ~IsWaiting(c, e)
  PROVE  Marks(c, MarkRunning(c, e))
<1>1. PICK d : d = SetStatus(c, e, "running")  OBVIOUS
<1>2. PICK y : y = c.exec[e]  OBVIOUS
<1>3. PICK z : z = [y EXCEPT !.status = "running"]  OBVIOUS
<1>4. PICK x : x = [z EXCEPT !.attempts = @ + 1]  OBVIOUS
<1>5. PICK b : b = MarkRunning(c, e)  OBVIOUS
<1>6. RowOK(c, y)  BY <1>2 DEF StoreOK, Rows
<1>7. /\ DOMAIN d = DOMAIN c /\ d.sess = c.sess /\ d.terminal = c.terminal
      /\ d.running = c.running /\ d.waiting = c.waiting /\ d.outbox = c.outbox
      /\ d.pending = c.pending \ {e}
      /\ DOMAIN d.exec = DOMAIN c.exec /\ d.exec[e] = z
      /\ \A f \in DOMAIN c.exec : f # e => d.exec[f] = c.exec[f]
  BY <1>1, <1>2, <1>3, SetStatusIs
<1>8. DOMAIN c = {"sess", "exec", "edges", "running", "terminal", "pending", "waiting",
                 "outbox", "serial"}
  BY DEF StoreOK, Rows
<1>9. b = [d EXCEPT !.exec[e].attempts = @ + 1]  BY <1>1, <1>5 DEF MarkRunning
<1>10. /\ DOMAIN b = DOMAIN c /\ b.sess = c.sess /\ b.terminal = c.terminal
       /\ b.running = c.running /\ b.waiting = c.waiting /\ b.outbox = c.outbox
       /\ b.pending = c.pending \ {e}
       /\ DOMAIN b.exec = DOMAIN c.exec /\ b.exec[e] = x
       /\ \A f \in DOMAIN c.exec : f # e => b.exec[f] = c.exec[f]
  BY <1>4, <1>7, <1>8, <1>9
<1>11. DOMAIN x = DOMAIN y /\ x.status = "running" /\ x.session = y.session /\ x.node = y.node
       /\ x.got = y.got /\ x.effects = y.effects
  BY <1>3, <1>4, <1>6 DEF RowOK
<1>12. Rewrites(c, b, e, x)  BY <1>10 DEF Rewrites
<1>13. Marks(c, b)
  <2>1. x.status \in Statuses \ {"waiting"} /\ x.status # "pending"  BY <1>11 DEF Statuses
  <2> QED  BY <1>2, <1>10, <1>11, <1>12, <2>1, RedisMark
<1> QED  BY <1>5, <1>13
LEMMA RedisCompleted ==
  ASSUME NEW c, StoreOK(c), NEW e \in DOMAIN c.exec, ~IsWaiting(c, e), NEW r
  PROVE  Marks(c, MarkCompleted(c, e, r))
<1>1. PICK d : d = SetStatus(c, e, "completed")  OBVIOUS
<1>2. PICK y : y = c.exec[e]  OBVIOUS
<1>3. PICK z : z = [y EXCEPT !.status = "completed"]  OBVIOUS
<1>4. PICK x : x = [z EXCEPT !.result = r]  OBVIOUS
<1>5. PICK b : b = MarkCompleted(c, e, r)  OBVIOUS
<1>6. RowOK(c, y)  BY <1>2 DEF StoreOK, Rows
<1>7. /\ DOMAIN d = DOMAIN c /\ d.sess = c.sess /\ d.terminal = c.terminal
      /\ d.running = c.running /\ d.waiting = c.waiting /\ d.outbox = c.outbox
      /\ d.pending = c.pending \ {e}
      /\ DOMAIN d.exec = DOMAIN c.exec /\ d.exec[e] = z
      /\ \A f \in DOMAIN c.exec : f # e => d.exec[f] = c.exec[f]
  BY <1>1, <1>2, <1>3, SetStatusIs
<1>8. DOMAIN c = {"sess", "exec", "edges", "running", "terminal", "pending", "waiting",
                 "outbox", "serial"}
  BY DEF StoreOK, Rows
<1>9. b = [d EXCEPT !.exec[e].result = r]  BY <1>1, <1>5 DEF MarkCompleted
<1>10. /\ DOMAIN b = DOMAIN c /\ b.sess = c.sess /\ b.terminal = c.terminal
       /\ b.running = c.running /\ b.waiting = c.waiting /\ b.outbox = c.outbox
       /\ b.pending = c.pending \ {e}
       /\ DOMAIN b.exec = DOMAIN c.exec /\ b.exec[e] = x
       /\ \A f \in DOMAIN c.exec : f # e => b.exec[f] = c.exec[f]
  BY <1>4, <1>7, <1>8, <1>9
<1>11. DOMAIN x = DOMAIN y /\ x.status = "completed" /\ x.session = y.session /\ x.node = y.node
       /\ x.got = y.got /\ x.effects = y.effects
  BY <1>3, <1>4, <1>6 DEF RowOK
<1>12. Rewrites(c, b, e, x)  BY <1>10 DEF Rewrites
<1>13. Marks(c, b)
  <2>1. x.status \in Statuses \ {"waiting"} /\ x.status # "pending"  BY <1>11 DEF Statuses
  <2> QED  BY <1>2, <1>10, <1>11, <1>12, <2>1, RedisMark
<1> QED  BY <1>5, <1>13
LEMMA RedisFailed ==
  ASSUME NEW c, StoreOK(c), NEW e \in DOMAIN c.exec, ~IsWaiting(c, e)
  PROVE  Marks(c, MarkFailed(c, e))
<1>1. PICK d : d = SetStatus(c, e, "failed")  OBVIOUS
<1>2. PICK y : y = c.exec[e]  OBVIOUS
<1>3. PICK z : z = [y EXCEPT !.status = "failed"]  OBVIOUS
<1>4. PICK x : x = [z EXCEPT !.result = {"error"}]  OBVIOUS
<1>5. PICK b : b = MarkFailed(c, e)  OBVIOUS
<1>6. RowOK(c, y)  BY <1>2 DEF StoreOK, Rows
<1>7. /\ DOMAIN d = DOMAIN c /\ d.sess = c.sess /\ d.terminal = c.terminal
      /\ d.running = c.running /\ d.waiting = c.waiting /\ d.outbox = c.outbox
      /\ d.pending = c.pending \ {e}
      /\ DOMAIN d.exec = DOMAIN c.exec /\ d.exec[e] = z
      /\ \A f \in DOMAIN c.exec : f # e => d.exec[f] = c.exec[f]
  BY <1>1, <1>2, <1>3, SetStatusIs
<1>8. DOMAIN c = {"sess", "exec", "edges", "running", "terminal", "pending", "waiting",
                 "outbox", "serial"}
  BY DEF StoreOK, Rows
<1>9. b = [d EXCEPT !.exec[e].result = {"error"}]  BY <1>1, <1>5 DEF MarkFailed
<1>10. /\ DOMAIN b = DOMAIN c /\ b.sess = c.sess /\ b.terminal = c.terminal
       /\ b.running = c.running /\ b.waiting = c.waiting /\ b.outbox = c.outbox
       /\ b.pending = c.pending \ {e}
       /\ DOMAIN b.exec = DOMAIN c.exec /\ b.exec[e] = x
       /\ \A f \in DOMAIN c.exec : f # e => b.exec[f] = c.exec[f]
  BY <1>4, <1>7, <1>8, <1>9
<1>11. DOMAIN x = DOMAIN y /\ x.status = "failed" /\ x.session = y.session /\ x.node = y.node
       /\ x.got = y.got /\ x.effects = y.effects
  BY <1>3, <1>4, <1>6 DEF RowOK
<1>12. Rewrites(c, b, e, x)  BY <1>10 DEF Rewrites
<1>13. Marks(c, b)
  <2>1. x.status \in Statuses \ {"waiting"} /\ x.status # "pending"  BY <1>11 DEF Statuses
  <2> QED  BY <1>2, <1>10, <1>11, <1>12, <2>1, RedisMark
<1> QED  BY <1>5, <1>13

\* Completing a head that was never put in changes nothing.
LEMMA RedisCompletedNone ==
  ASSUME NEW c, StoreOK(c), NEW e, e \notin DOMAIN c.exec, NEW r
  PROVE  Marks(c, MarkCompleted(c, e, r))
<1>1. PICK d : d = MarkCompleted(c, e, r)  OBVIOUS
<1>2. DOMAIN c = {"sess", "exec", "edges", "running", "terminal", "pending", "waiting",
                 "outbox", "serial"}
  BY DEF StoreOK, Rows
<1>3. PICK b : b = SetStatus(c, e, "completed")  OBVIOUS
<1>4. /\ DOMAIN b = DOMAIN c /\ b.sess = c.sess /\ b.terminal = c.terminal
      /\ b.running = c.running /\ b.waiting = c.waiting /\ b.outbox = c.outbox
      /\ b.pending = c.pending \ {e}
      /\ DOMAIN b.exec = DOMAIN c.exec /\ \A f \in DOMAIN c.exec : b.exec[f] = c.exec[f]
  BY <1>2, <1>3 DEF SetStatus
<1>5. /\ DOMAIN d = DOMAIN c /\ d.sess = c.sess /\ d.terminal = c.terminal
      /\ d.running = c.running /\ d.waiting = c.waiting /\ d.outbox = c.outbox
      /\ d.pending = c.pending \ {e}
      /\ DOMAIN d.exec = DOMAIN c.exec /\ \A f \in DOMAIN c.exec : d.exec[f] = c.exec[f]
  BY <1>1, <1>2, <1>3, <1>4 DEF MarkCompleted
<1>6. d.pending = c.pending  BY <1>5 DEF StoreOK, Indexed, Having
<1>7. Alike(c, d)  BY <1>5, <1>6 DEF Alike
<1> QED  BY <1>1, <1>7, AlikeMarks

LEMMA RedisRetrying ==
  ASSUME NEW c, StoreOK(c), NEW e \in DOMAIN c.exec, ~IsWaiting(c, e), NEW r
  PROVE  Marks(c, MarkRetrying(c, e, r))
<1>1. PICK y : y = c.exec[e]  OBVIOUS
<1>2. PICK z : z = [y EXCEPT !.status = "pending"]  OBVIOUS
<1>3. PICK x : x = [z EXCEPT !.retry = r]  OBVIOUS
<1>4. PICK d : d = MarkRetrying(c, e, r)  OBVIOUS
<1>5. RowOK(c, y)  BY <1>1 DEF StoreOK, Rows
<1>6. DOMAIN c = {"sess", "exec", "edges", "running", "terminal", "pending", "waiting",
                 "outbox", "serial"}
  BY DEF StoreOK, Rows
<1>7. PICK g : g = [[c.exec EXCEPT ![e].status = "pending"] EXCEPT ![e].retry = r]  OBVIOUS
<1>8. DOMAIN g = DOMAIN c.exec /\ g[e] = x /\ \A f \in DOMAIN c.exec : f # e => g[f] = c.exec[f]
  BY <1>1, <1>2, <1>3, <1>7
<1>9. /\ DOMAIN d = DOMAIN c /\ d.sess = c.sess /\ d.terminal = c.terminal
      /\ d.running = c.running /\ d.waiting = c.waiting /\ d.outbox = c.outbox
      /\ d.pending = c.pending \cup {e} /\ d.exec = g
  BY <1>4, <1>6, <1>7 DEF MarkRetrying
<1>10. DOMAIN x = DOMAIN y /\ x.status = "pending" /\ x.session = y.session /\ x.node = y.node
       /\ x.got = y.got /\ x.effects = y.effects
  BY <1>2, <1>3, <1>5 DEF RowOK
<1>11. Rewrites(c, d, e, x)  BY <1>8, <1>9 DEF Rewrites
<1>12. Marks(c, d)
  <2>1. x.status \in Statuses \ {"waiting"}  BY <1>10 DEF Statuses
  <2> QED  BY <1>1, <1>9, <1>10, <1>11, <2>1, RedisMark
<1> QED  BY <1>4, <1>12

LEMMA RedisWaiting ==
  ASSUME NEW c, StoreOK(c), NEW e \in DOMAIN c.exec, NEW w, NEW b, b = MarkWaiting(c, e, w)
  PROVE  StoreOK(b) /\ SameIds(c, b) /\ Moves(c, b, {e}, {})
<1>1. PICK d : d = SetStatus(c, e, "waiting")  OBVIOUS
<1>2. PICK y : y = c.exec[e]  OBVIOUS
<1>3. PICK z : z = [y EXCEPT !.status = "waiting"]  OBVIOUS
<1>4. PICK x : x = [z EXCEPT !.wake = w]  OBVIOUS
<1>6. RowOK(c, y)  BY <1>2 DEF StoreOK, Rows
<1>7. /\ DOMAIN d = DOMAIN c /\ d.sess = c.sess /\ d.terminal = c.terminal
      /\ d.running = c.running /\ d.waiting = c.waiting /\ d.outbox = c.outbox
      /\ d.pending = c.pending \ {e}
      /\ DOMAIN d.exec = DOMAIN c.exec /\ d.exec[e] = z
      /\ \A f \in DOMAIN c.exec : f # e => d.exec[f] = c.exec[f]
  BY <1>1, <1>2, <1>3, SetStatusIs
<1>8. DOMAIN c = {"sess", "exec", "edges", "running", "terminal", "pending", "waiting",
                 "outbox", "serial"}
  BY DEF StoreOK, Rows
<1>9. b = [d EXCEPT !.exec[e].wake = w, !.waiting = @ \cup {e}]  BY <1>1 DEF MarkWaiting
<1>10. /\ DOMAIN b = DOMAIN c /\ b.sess = c.sess /\ b.terminal = c.terminal
       /\ b.running = c.running /\ b.waiting = c.waiting \cup {e} /\ b.outbox = c.outbox
       /\ b.pending = c.pending \ {e}
       /\ DOMAIN b.exec = DOMAIN c.exec /\ b.exec[e] = x
       /\ \A f \in DOMAIN c.exec : f # e => b.exec[f] = c.exec[f]
  BY <1>4, <1>7, <1>8, <1>9
<1>11. DOMAIN x = DOMAIN y /\ x.status = "waiting" /\ x.session = y.session /\ x.node = y.node
       /\ x.got = y.got /\ x.effects = y.effects
  BY <1>3, <1>4, <1>6 DEF RowOK
<1>12. Rewrites(c, b, e, x)  BY <1>10 DEF Rewrites
<1>13. Becomes(y, x)  BY <1>6, <1>11 DEF Becomes, RowOK, Statuses
<1>14. c.outbox = IF x.effects # NoEffects THEN c.outbox \cup {e} ELSE c.outbox \ {e}
  BY <1>2, <1>11 DEF StoreOK, Indexed, Owing
<1>15. Reindexes(c, b, e, x)  BY <1>10, <1>11, <1>14 DEF Reindexes
<1>16. MayMove(y, x, e, {e}, {})  BY <1>11 DEF MayMove
<1> QED  BY <1>2, <1>12, <1>13, <1>15, <1>16, Rewrite

LEMMA RedisWakes ==
  ASSUME NEW c, StoreOK(c), NEW e
  PROVE  Marks(c, WakeExecution(c, e))
<1>1. CASE IsWaiting(c, e)
  <2>1. PICK y : y = c.exec[e] /\ e \in DOMAIN c.exec /\ y.status = "waiting"
    BY <1>1 DEF IsWaiting
  <2>2. PICK x : x = [y EXCEPT !.status = "pending"]  OBVIOUS
  <2>3. PICK d : d = WakeExecution(c, e)  OBVIOUS
  <2>4. RowOK(c, y)  BY <2>1 DEF StoreOK, Rows
  <2>5. DOMAIN c = {"sess", "exec", "edges", "running", "terminal", "pending", "waiting",
                   "outbox", "serial"}
    BY DEF StoreOK, Rows
  <2>6. /\ DOMAIN d = DOMAIN c /\ d.sess = c.sess /\ d.terminal = c.terminal
        /\ d.running = c.running /\ d.waiting = c.waiting \ {e} /\ d.outbox = c.outbox
        /\ d.pending = c.pending \cup {e}
        /\ DOMAIN d.exec = DOMAIN c.exec /\ d.exec[e] = x
        /\ \A f \in DOMAIN c.exec : f # e => d.exec[f] = c.exec[f]
    BY <1>1, <2>1, <2>2, <2>3, <2>5 DEF WakeExecution
  <2>7. DOMAIN x = DOMAIN y /\ x.status = "pending" /\ x.session = y.session /\ x.node = y.node
        /\ x.got = y.got /\ x.effects = y.effects
    BY <2>2, <2>4 DEF RowOK
  <2>8. Rewrites(c, d, e, x)  BY <2>6 DEF Rewrites
  <2>9. Becomes(y, x)  BY <2>4, <2>7 DEF Becomes, RowOK, Statuses
  <2>10. c.outbox = IF x.effects # NoEffects THEN c.outbox \cup {e} ELSE c.outbox \ {e}
    BY <2>1, <2>7 DEF StoreOK, Indexed, Owing
  <2>11. Reindexes(c, d, e, x)  BY <2>6, <2>7, <2>10 DEF Reindexes
  <2>12. MayMove(y, x, e, {}, {})  BY <2>7 DEF MayMove
  <2>13. StoreOK(d) /\ SameIds(c, d) /\ Moves(c, d, {}, {})
    BY <2>1, <2>8, <2>9, <2>11, <2>12, Rewrite
  <2> QED  BY <2>3, <2>6, <2>13 DEF Marks
<1>2. CASE ~IsWaiting(c, e)
  <2>1. WakeExecution(c, e) = c  BY <1>2 DEF WakeExecution
  <2>2. Alike(c, c)  BY DEF Alike
  <2> QED  BY <2>1, <2>2, AlikeMarks
<1> QED  BY <1>1, <1>2

LEMMA NoEffectsOK == EffectsOK(NoEffects)
<1>1. NoEffects.publish = <<>> /\ NoEffects.arm = <<>> /\ NoEffects.acknowledge = {}
  BY DEF NoEffects
<1> QED  BY <1>1, NilList, FS_EmptySet DEF EffectsOK

LEMMA RedisClears ==
  ASSUME NEW c, StoreOK(c), NEW e, NEW d, d = ClearEffects(c, e)
  PROVE  /\ StoreOK(d) /\ SameIds(c, d) /\ Moves(c, d, {}, {e})
         /\ DOMAIN d.exec = DOMAIN c.exec /\ \A f \in DOMAIN c.exec : d.exec[f].got = c.exec[f].got
<1>0. DOMAIN c = {"sess", "exec", "edges", "running", "terminal", "pending", "waiting",
                   "outbox", "serial"}
    BY DEF StoreOK, Rows
<1>1. CASE e \in DOMAIN c.exec
  <2>1. PICK y : y = c.exec[e]  OBVIOUS
  <2>2. PICK x : x = [y EXCEPT !.effects = NoEffects]  OBVIOUS
  <2>4. RowOK(c, y)  BY <1>1, <2>1 DEF StoreOK, Rows
  <2>6. /\ DOMAIN d = DOMAIN c /\ d.sess = c.sess /\ d.terminal = c.terminal
        /\ d.running = c.running /\ d.waiting = c.waiting /\ d.outbox = c.outbox \ {e}
        /\ d.pending = c.pending
        /\ DOMAIN d.exec = DOMAIN c.exec /\ d.exec[e] = x
        /\ \A f \in DOMAIN c.exec : f # e => d.exec[f] = c.exec[f]
    BY <1>0, <1>1, <2>1, <2>2 DEF ClearEffects
  <2>7. DOMAIN x = DOMAIN y /\ x.status = y.status /\ x.session = y.session /\ x.node = y.node
        /\ x.got = y.got /\ x.effects = NoEffects
    BY <2>2, <2>4 DEF RowOK
  <2>8. Rewrites(c, d, e, x)  BY <2>6 DEF Rewrites
  <2>9. Becomes(y, x)  BY <2>4, <2>7, NoEffectsOK DEF Becomes, RowOK
  <2>10. /\ c.pending = IF x.status = "pending" THEN c.pending \cup {e} ELSE c.pending \ {e}
         /\ c.waiting = IF x.status = "waiting" THEN c.waiting \cup {e} ELSE c.waiting \ {e}
    BY <1>1, <2>1, <2>7 DEF StoreOK, Indexed, Having
  <2>11. Reindexes(c, d, e, x)  BY <2>6, <2>7, <2>10 DEF Reindexes
  <2>12. MayMove(y, x, e, {}, {e})  BY <2>7 DEF MayMove
  <2>13. StoreOK(d) /\ SameIds(c, d) /\ Moves(c, d, {}, {e})
    BY <1>1, <2>1, <2>8, <2>9, <2>11, <2>12, Rewrite
  <2> QED  BY <2>1, <2>6, <2>7, <2>13
<1>2. CASE e \notin DOMAIN c.exec
  <2>1. PICK g : g = [c.exec EXCEPT ![e].effects = NoEffects]  OBVIOUS
  <2>2. DOMAIN g = DOMAIN c.exec /\ \A f \in DOMAIN c.exec : g[f] = c.exec[f]  BY <1>2, <2>1
  <2>3. /\ DOMAIN d = DOMAIN c /\ d.sess = c.sess /\ d.terminal = c.terminal
        /\ d.running = c.running /\ d.waiting = c.waiting /\ d.outbox = c.outbox \ {e}
        /\ d.pending = c.pending /\ d.exec = g
    BY <1>0, <2>1 DEF ClearEffects
  <2>4. c.outbox \ {e} = c.outbox  BY <1>2 DEF StoreOK, Indexed, Owing
  <2>5. Alike(c, d)  BY <2>2, <2>3, <2>4 DEF Alike
  <2>6. StoreOK(d) /\ SameIds(c, d) /\ Moves(c, d, {}, {})  BY <2>5, AlikeMarks DEF Marks
  <2>7. Moves(c, d, {}, {e})
    <3>1. {} \subseteq {e} /\ {} \subseteq {}  OBVIOUS
    <3> QED  BY <2>6, <3>1, MovesMore
  <2> QED  BY <2>2, <2>3, <2>6, <2>7
<1> QED  BY <1>1, <1>2
-----------------------------------------------------------------------------
(* Rows of sessions, in either store.                                      *)

DropDo(x, r, y) == IF y = x.out THEN r ELSE Append(r, y)
DropOK(x, i, r) == IsList(r) /\ Items(r) = {x.of[j] : j \in 1..i} \ {x.out}
Dropping == INSTANCE Loops WITH Do <- DropDo, Inv <- DropOK

LEMMA OthersAre ==
  ASSUME NEW q, IsList(q), NEW s
  PROVE  IsList(Others(q, s)) /\ Items(Others(q, s)) = Items(q) \ {s}
<1>1. PICK x : x = [of |-> q, out |-> s]  OBVIOUS
<1>2. x.of = q /\ x.out = s  BY <1>1
<1>3. Len(q) \in Nat  BY ListIs
<1>4. DropOK(x, 0, <<>>)
  <2>1. 1..0 = {}  OBVIOUS
  <2> QED  BY <2>1, NilList DEF DropOK
<1>5. ASSUME NEW i \in 1..Len(q), NEW r, DropOK(x, i - 1, r)
      PROVE  DropOK(x, i, DropDo(x, r, q[i]))
  <2>1. 1..i = (1..(i - 1)) \cup {i}  BY <1>3
  <2>2. {q[j] : j \in 1..i} = {q[j] : j \in 1..(i - 1)} \cup {q[i]}  BY <2>1
  <2>3. IsList(r) /\ Items(r) = {q[j] : j \in 1..(i - 1)} \ {s}  BY <1>2, <1>5 DEF DropOK
  <2>4. CASE q[i] = s
    <3>1. DropDo(x, r, q[i]) = r  BY <1>2, <2>4 DEF DropDo
    <3> QED  BY <1>2, <2>2, <2>3, <2>4, <3>1 DEF DropOK
  <2>5. CASE q[i] # s
    <3>1. DropDo(x, r, q[i]) = Append(r, q[i])  BY <1>2, <2>5 DEF DropDo
    <3>2. IsList(Append(r, q[i])) /\ Items(Append(r, q[i])) = Items(r) \cup {q[i]}
      BY <2>3, AppendList
    <3> QED  BY <1>2, <2>2, <2>3, <2>5, <3>1, <3>2 DEF DropOK
  <2> QED  BY <2>4, <2>5
<1>0. Dropping!Induction  BY NatIsAll DEF Dropping!Induction
<1>6. DropOK(x, Len(q), Dropping!Looped(x, <<>>, q))
  BY <1>0, <1>3, <1>4, <1>5, Dropping!LoopKeeps
<1>7. Others(q, s) = Dropping!Looped(x, <<>>, q)
  BY <1>2 DEF Others, ForEach, Dropping!Looped, DropDo
<1> QED  BY <1>2, <1>6, <1>7 DEF DropOK, Items

SameRows(c, d) == DOMAIN d.exec = DOMAIN c.exec /\ \A f \in DOMAIN c.exec : d.exec[f] = c.exec[f]

\* s is a new session without executions.
Births(c, d, s) ==
  /\ DOMAIN d = DOMAIN c /\ d.terminal = c.terminal /\ SameRows(c, d)
  /\ s \notin DOMAIN c.sess /\ DOMAIN d.sess = DOMAIN c.sess \cup {s}
  /\ \A t \in DOMAIN c.sess : d.sess[t] = c.sess[t]
  /\ DOMAIN d.sess[s] = {"status", "key", "initial", "lineage"} /\ d.sess[s].status = "running"

Born(c, d, s) ==
  /\ DOMAIN d.sess = DOMAIN c.sess \cup {s} /\ Moves(c, d, {}, {})
  /\ DOMAIN d.exec = DOMAIN c.exec /\ ExecutionsOf(d, s) = {}
  /\ \A t : ExecutionsOf(d, t) = ExecutionsOf(c, t)

LEMMA BirthRows ==
  ASSUME NEW c, Rows(c), NEW d, NEW s, Births(c, d, s)
  PROVE  Rows(d) /\ Born(c, d, s)
<1>1. \A t : ExecutionsOf(d, t) = ExecutionsOf(c, t)  BY DEF Births, SameRows, ExecutionsOf
<1>2. ExecutionsOf(c, s) = {}  BY DEF Births, Rows, RowOK, ExecutionsOf
<1>3. ExecutionsOf(d, s) = Slots(s, 0)
  <2>1. 0..(0 - 1) = {}  OBVIOUS
  <2> QED  BY <1>1, <1>2, <2>1 DEF Slots
<1>4. \A f \in DOMAIN d.exec : RowOK(d, d.exec[f])  BY DEF Rows, RowOK, Births, SameRows
<1>5. ASSUME NEW t \in DOMAIN d.sess  PROVE SessOK(d, t) /\ Numbered(d, t)
  <2>1. CASE t = s
    <3>1. s \notin Items(d.terminal)  BY DEF Births, Rows
    <3> QED  BY <1>3, <2>1, <3>1 DEF SessOK, Numbered, Births
  <2>2. CASE t # s
    <3>1. t \in DOMAIN c.sess /\ SessOK(c, t) /\ Numbered(c, t)  BY <2>2 DEF Births, Rows
    <3> QED  BY <1>1, <3>1 DEF SessOK, Numbered, Births
  <2> QED  BY <2>1, <2>2
<1>6. IsFiniteSet(DOMAIN d.sess)  BY FS_AddElement DEF Births, Rows
<1>7. Rows(d)  BY <1>4, <1>5, <1>6 DEF Rows, Births, SameRows
<1>8. Moves(c, d, {}, {})  BY DEF Moves, MovedRow, Births, SameRows
<1> QED  BY <1>1, <1>2, <1>7, <1>8 DEF Born, Births, SameRows

\* s is a session that ends.
Ends(c, d, s) ==
  /\ DOMAIN d = DOMAIN c /\ d.terminal = Append(Others(c.terminal, s), s) /\ SameRows(c, d)
  /\ s \in DOMAIN c.sess /\ DOMAIN d.sess = DOMAIN c.sess
  /\ \A t \in DOMAIN c.sess : t # s => d.sess[t] = c.sess[t]
  /\ DOMAIN d.sess[s] = {"status", "key", "initial", "lineage"}
  /\ d.sess[s].status \in {"completed", "failed"}

LEMMA EndRows ==
  ASSUME NEW c, Rows(c), NEW d, NEW s, Ends(c, d, s)
  PROVE  Rows(d) /\ SameIds(c, d) /\ Moves(c, d, {}, {}) /\ DOMAIN d.exec = DOMAIN c.exec
<1>1. \A t : ExecutionsOf(d, t) = ExecutionsOf(c, t)  BY DEF Ends, SameRows, ExecutionsOf
<1>2. \A f \in DOMAIN d.exec : RowOK(d, d.exec[f])  BY DEF Rows, RowOK, Ends, SameRows
<1>3. PICK q : q = Others(c.terminal, s)  OBVIOUS
<1>4. IsList(c.terminal)  BY DEF Rows
<1>5. IsList(q) /\ Items(q) = Items(c.terminal) \ {s}  BY <1>3, <1>4, OthersAre
<1>6. IsList(d.terminal) /\ Items(d.terminal) = Items(q) \cup {s}
  <2>1. d.terminal = Append(q, s)  BY <1>3 DEF Ends
  <2> QED  BY <1>5, <2>1, AppendList
<1>7. ASSUME NEW t \in DOMAIN d.sess  PROVE SessOK(d, t) /\ Numbered(d, t)
  <2>1. t \in DOMAIN c.sess /\ SessOK(c, t) /\ Numbered(c, t)  BY DEF Ends, Rows
  <2>2. Numbered(d, t)  BY <1>1, <2>1 DEF Numbered
  <2>3. SessOK(d, t)  BY <1>5, <1>6, <2>1 DEF SessOK, Ends
  <2> QED  BY <2>2, <2>3
<1>8. Items(d.terminal) \subseteq DOMAIN d.sess  BY <1>5, <1>6 DEF Ends, Rows
<1>9. Rows(d)  BY <1>2, <1>6, <1>7, <1>8 DEF Rows, Ends, SameRows
<1>10. Moves(c, d, {}, {})  BY DEF Moves, MovedRow, Ends, SameRows
<1> QED  BY <1>1, <1>9, <1>10 DEF SameIds, Ends, SameRows

\* s and its executions go.
Deletes(c, d, s) ==
  /\ DOMAIN d = DOMAIN c /\ d.terminal = Others(c.terminal, s)
  /\ DOMAIN d.sess = DOMAIN c.sess \ {s} /\ DOMAIN d.exec = DOMAIN c.exec \ ExecutionsOf(c, s)
  /\ \A t \in DOMAIN d.sess : d.sess[t] = c.sess[t]
  /\ \A f \in DOMAIN d.exec : d.exec[f] = c.exec[f]

LEMMA DeleteRowsOK ==
  ASSUME NEW c, Rows(c), NEW d, NEW s, Deletes(c, d, s)
  PROVE  Rows(d)
<1>1. \A t : t # s => ExecutionsOf(d, t) = ExecutionsOf(c, t)  BY DEF Deletes, ExecutionsOf
<1>2. \A f \in DOMAIN d.exec : RowOK(d, d.exec[f])
  BY DEF Rows, RowOK, Deletes, ExecutionsOf
<1>3. IsList(c.terminal)  BY DEF Rows
<1>4. IsList(d.terminal) /\ Items(d.terminal) = Items(c.terminal) \ {s}
  BY <1>3, OthersAre DEF Deletes
<1>5. ASSUME NEW t \in DOMAIN d.sess  PROVE SessOK(d, t) /\ Numbered(d, t)
  <2>1. t \in DOMAIN c.sess /\ t # s /\ SessOK(c, t) /\ Numbered(c, t)  BY DEF Deletes, Rows
  <2>2. Numbered(d, t)  BY <1>1, <2>1 DEF Numbered
  <2>3. SessOK(d, t)  BY <1>4, <2>1 DEF SessOK, Deletes
  <2> QED  BY <2>2, <2>3
<1>6. IsFiniteSet(DOMAIN d.sess) /\ IsFiniteSet(DOMAIN d.exec)
  BY FS_Subset DEF Deletes, Rows
<1>7. Items(d.terminal) \subseteq DOMAIN d.sess  BY <1>4 DEF Deletes, Rows
<1> QED  BY <1>2, <1>4, <1>5, <1>6, <1>7 DEF Rows, Deletes

-----------------------------------------------------------------------------
(* Rows of executions.                                                     *)

NumbersFrom(xs, s, n) == IsList(xs) /\ \A i \in 1..Len(xs) : xs[i].id = <<s, n + i - 1>>

\* x is as it was put in.
IsNew(x, s) == \E node, policy : x = NewExecution(s, node, policy)

LEMMA GivenAre ==
  ASSUME NEW s, NEW n \in Nat, NEW xs, NumbersFrom(xs, s, n), NEW g, g = Given(s, xs)
  PROVE  /\ Len(xs) \in Nat
         /\ DOMAIN g = {<<s, k>> : k \in n..(n + Len(xs) - 1)}
         /\ \A e \in DOMAIN g : IsNew(g[e], s)
<1>1. PICK m : m = Len(xs) /\ m \in Nat /\ DOMAIN xs = 1..m  BY ListIs DEF NumbersFrom
<1>2. DOMAIN g = {xs[i].id : i \in 1..m}  BY <1>1 DEF Given
<1>3. {xs[i].id : i \in 1..m} = {<<s, k>> : k \in n..(n + m - 1)}
  <2>1. ASSUME NEW i \in 1..m  PROVE xs[i].id \in {<<s, k>> : k \in n..(n + m - 1)}
    <3>1. n + i - 1 \in n..(n + m - 1)  BY <1>1
    <3>2. xs[i].id = <<s, n + i - 1>>  BY <1>1 DEF NumbersFrom
    <3> QED  BY <3>1, <3>2
  <2>2. ASSUME NEW k \in n..(n + m - 1)  PROVE <<s, k>> \in {xs[i].id : i \in 1..m}
    <3>1. PICK i : i = k - n + 1  OBVIOUS
    <3>2. i \in 1..m /\ n + i - 1 = k  BY <1>1, <3>1
    <3>3. xs[i].id = <<s, k>>  BY <1>1, <3>2 DEF NumbersFrom
    <3> QED  BY <3>2, <3>3
  <2> QED  BY <2>1, <2>2
<1>4. ASSUME NEW e \in DOMAIN g
      PROVE  IsNew(g[e], s)
  <2>1. PICK x : x = xs[CHOOSE i \in DOMAIN xs : xs[i].id = e]  OBVIOUS
  <2>2. g[e] = NewExecution(s, x.node, x.policy)  BY <2>1 DEF Given
  <2> QED  BY <2>2 DEF IsNew
<1> QED  BY <1>1, <1>2, <1>3, <1>4

\* Executions n, n + 1, ... of s are added.
Puts(c, d, s, xs) ==
  /\ DOMAIN d = DOMAIN c /\ d.terminal = c.terminal /\ d.sess = c.sess
  /\ d.exec = Over(Given(s, xs), c.exec)

\* s has grown from n executions to m.
Grown(c, d, s, n, m) ==
  /\ DOMAIN d.sess = DOMAIN c.sess /\ Moves(c, d, {}, {})
  /\ DOMAIN d.exec = DOMAIN c.exec \cup Slots(s, m) /\ ExecutionsOf(d, s) = Slots(s, m)
  /\ \A f \in DOMAIN c.exec : d.exec[f] = c.exec[f]
  /\ \A e \in Slots(s, m) \ DOMAIN c.exec : IsNew(d.exec[e], s)
  /\ \A t : t # s => ExecutionsOf(d, t) = ExecutionsOf(c, t)

LEMMA NewIs ==
  ASSUME NEW s, NEW x, IsNew(x, s)
  PROVE  /\ x.session = s /\ x.status = "pending" /\ x.got = {} /\ x.effects = NoEffects
         /\ DOMAIN x = {"session", "node", "policy", "status", "attempts", "result", "got",
                        "effects", "wake", "retry"}
BY DEF IsNew, NewExecution

LEMMA SlotsAre ==
  ASSUME NEW s, NEW n \in Nat
  PROVE  IsFiniteSet(Slots(s, n)) /\ Cardinality(Slots(s, n)) = n
<1>1. PICK f : f = [k \in 0..(n - 1) |-> <<s, k>>]  OBVIOUS
<1>2. f \in Bijection(0..(n - 1), Slots(s, n))
  <2>1. f \in [0..(n - 1) -> Slots(s, n)]  BY <1>1 DEF Slots
  <2>2. \A j, k \in 0..(n - 1) : f[j] = f[k] => j = k  BY <1>1
  <2>3. \A e \in Slots(s, n) : \E k \in 0..(n - 1) : f[k] = e  BY <1>1 DEF Slots
  <2> QED  BY <2>1, <2>2, <2>3 DEF Bijection, Injection, Surjection, IsInjective
<1>3. IsFiniteSet(0..(n - 1)) /\ Cardinality(0..(n - 1)) = n
  <2>1. CASE n = 0
    <3>1. 0..(n - 1) = {}  BY <2>1
    <3> QED  BY <2>1, <3>1, FS_EmptySet
  <2>2. CASE n # 0
    <3>1. 0 \in Int /\ n - 1 \in Int /\ ~(0 > n - 1)  BY <2>2
    <3>2. IsFiniteSet(0..(n - 1)) /\ Cardinality(0..(n - 1)) = (n - 1) - 0 + 1
      BY <3>1, FS_Interval
    <3> QED  BY <3>2
  <2> QED  BY <2>1, <2>2
<1>4. ExistsBijection(0..(n - 1), Slots(s, n))  BY <1>2 DEF ExistsBijection
<1> QED  BY <1>3, <1>4, FS_Bijection

\* An execution's id names its session.
LEMMA OwnName ==
  ASSUME NEW c, Rows(c), NEW e \in DOMAIN c.exec
  PROVE  c.exec[e].session = e[1] /\ \E k \in Nat : e = <<e[1], k>>
<1>1. PICK s : s = c.exec[e].session /\ s \in DOMAIN c.sess  BY DEF Rows, RowOK
<1>2. PICK n \in Nat : ExecutionsOf(c, s) = Slots(s, n)  BY <1>1 DEF Rows, Numbered
<1>3. e \in Slots(s, n)  BY <1>1, <1>2 DEF ExecutionsOf
<1>4. PICK k \in 0..(n - 1) : e = <<s, k>>  BY <1>3 DEF Slots
<1> QED  BY <1>1, <1>4

LEMMA PutRows ==
  ASSUME NEW c, Rows(c), NEW d, NEW s \in DOMAIN c.sess, NEW n \in Nat,
         ExecutionsOf(c, s) = Slots(s, n), NEW xs, NumbersFrom(xs, s, n), Puts(c, d, s, xs)
  PROVE  /\ Len(xs) \in Nat /\ Rows(d) /\ Grown(c, d, s, n, n + Len(xs))
         /\ DOMAIN Given(s, xs) = Slots(s, n + Len(xs)) \ DOMAIN c.exec
         /\ DOMAIN Given(s, xs) \cap DOMAIN c.exec = {}
<1>1. PICK g : g = Given(s, xs)  OBVIOUS
<1>2. PICK m : m = Len(xs) /\ m \in Nat  BY ListIs DEF NumbersFrom
<1>30. DOMAIN g = {<<s, k>> : k \in n..(n + Len(xs) - 1)}  BY <1>1, GivenAre
<1>31. \A e \in DOMAIN g : IsNew(g[e], s)
  BY <1>1, GivenAre
<1>3. /\ DOMAIN g = {<<s, k>> : k \in n..(n + m - 1)}
      /\ \A e \in DOMAIN g : IsNew(g[e], s)
  BY <1>2, <1>30, <1>31
<1>4. Slots(s, n + m) = Slots(s, n) \cup DOMAIN g
  <2>1. 0..((n + m) - 1) = (0..(n - 1)) \cup (n..(n + m - 1))  BY <1>2
  <2> QED  BY <1>3, <2>1 DEF Slots
<1>5. DOMAIN g \cap Slots(s, n) = {}
  <2>1. (0..(n - 1)) \cap (n..(n + m - 1)) = {}  OBVIOUS
  <2> QED  BY <1>3, <2>1 DEF Slots
<1>6. \A e \in DOMAIN g : /\ g[e].session = s /\ g[e].status = "pending" /\ g[e].got = {}
                          /\ g[e].effects = NoEffects
                          /\ DOMAIN g[e] = {"session", "node", "policy", "status", "attempts",
                               "result", "got", "effects", "wake", "retry"}
  BY <1>3, NewIs
<1>7. DOMAIN g \cap DOMAIN c.exec = {}
  <2>1. SUFFICES ASSUME NEW e \in DOMAIN g, e \in DOMAIN c.exec PROVE FALSE  OBVIOUS
  <2>2. c.exec[e].session = e[1] /\ e[1] = s  BY <1>3, <2>1, OwnName
  <2>3. e \in ExecutionsOf(c, s)  BY <2>1, <2>2 DEF ExecutionsOf
  <2> QED  BY <1>5, <2>1, <2>3
<1>8. /\ DOMAIN d.exec = DOMAIN g \cup DOMAIN c.exec
      /\ \A f \in DOMAIN g : d.exec[f] = g[f]
      /\ \A f \in DOMAIN c.exec : f \notin DOMAIN g => d.exec[f] = c.exec[f]
  BY <1>1 DEF Puts, Over
<1>9. \A f \in DOMAIN c.exec : d.exec[f] = c.exec[f]  BY <1>7, <1>8
<1>10. ExecutionsOf(d, s) = Slots(s, n + m)
  BY <1>4, <1>6, <1>8, <1>9 DEF ExecutionsOf
<1>11. \A t : t # s => ExecutionsOf(d, t) = ExecutionsOf(c, t)
  BY <1>6, <1>8, <1>9 DEF ExecutionsOf
<1>12. Slots(s, n) \subseteq DOMAIN c.exec  BY DEF ExecutionsOf
<1>13. DOMAIN g = Slots(s, n + m) \ DOMAIN c.exec  BY <1>4, <1>7, <1>12
<1>14. ASSUME NEW f \in DOMAIN d.exec  PROVE RowOK(d, d.exec[f])
  <2>1. CASE f \in DOMAIN g
    <3>1. d.exec[f] = g[f]  BY <1>8, <2>1
    <3> QED  BY <1>6, <2>1, <3>1, NoEffectsOK DEF RowOK, Statuses, Puts
  <2>2. CASE f \in DOMAIN c.exec
    <3>1. d.exec[f] = c.exec[f] /\ RowOK(c, c.exec[f])  BY <1>9, <2>2 DEF Rows
    <3> QED  BY <3>1 DEF RowOK, Puts
  <2> QED  BY <1>8, <2>1, <2>2
<1>15. ASSUME NEW t \in DOMAIN d.sess  PROVE SessOK(d, t) /\ Numbered(d, t)
  <2>1. t \in DOMAIN c.sess /\ SessOK(c, t) /\ Numbered(c, t)  BY DEF Puts, Rows
  <2>2. SessOK(d, t)  BY <2>1 DEF SessOK, Puts
  <2>3. Numbered(d, t)
    <3>1. n + m \in Nat  BY <1>2
    <3> QED  BY <1>10, <1>11, <2>1, <3>1 DEF Numbered
  <2> QED  BY <2>2, <2>3
<1>16. IsFiniteSet(DOMAIN d.exec)
  <2>1. IsFiniteSet(Slots(s, n + m))  BY <1>2, SlotsAre
  <2>2. IsFiniteSet(DOMAIN c.exec)  BY DEF Rows
  <2>3. IsFiniteSet(DOMAIN c.exec \cup Slots(s, n + m))  BY <2>1, <2>2, FS_Union
  <2>4. DOMAIN d.exec = DOMAIN c.exec \cup Slots(s, n + m)  BY <1>8, <1>13
  <2> QED  BY <2>3, <2>4
<1>17. Rows(d)  BY <1>14, <1>15, <1>16 DEF Rows, Puts
<1>18. Moves(c, d, {}, {})
  <2>1. ASSUME NEW f \in DOMAIN d.exec  PROVE MovedRow(c, d, f, {}, {})
    <3>1. CASE f \in DOMAIN g  BY <1>6, <1>7, <1>8, <3>1 DEF MovedRow
    <3>2. CASE f \in DOMAIN c.exec  BY <1>9, <3>2 DEF MovedRow
    <3> QED  BY <1>8, <3>1, <3>2
  <2> QED  BY <1>8, <2>1 DEF Moves, Puts
<1>19. \A e \in Slots(s, n + m) \ DOMAIN c.exec : IsNew(d.exec[e], s)
  BY <1>3, <1>8, <1>13
<1>20. DOMAIN d.exec = DOMAIN c.exec \cup Slots(s, n + m)  BY <1>8, <1>13
<1>21. Grown(c, d, s, n, n + m)
  BY <1>9, <1>10, <1>11, <1>18, <1>19, <1>20 DEF Grown, Puts
<1> QED  BY <1>1, <1>2, <1>7, <1>13, <1>17, <1>21
-----------------------------------------------------------------------------
(* Sessions, plans and commits of the Redis store.                         *)

Fields == {"sess", "exec", "edges", "running", "terminal", "pending", "waiting",
           "outbox", "serial"}

LEMMA HasFields == \A c : StoreOK(c) => DOMAIN c = Fields /\ Rows(c) /\ Indexed(c)
BY DEF StoreOK, Rows, Fields

LEMMA RedisCreate ==
  ASSUME NEW c, StoreOK(c), NEW s, s \notin DOMAIN c.sess, NEW key, NEW initial,
         NEW d, d = CreateSession(c, s, key, initial)
  PROVE  StoreOK(d) /\ Born(c, d, s)
<1>1. DOMAIN c = Fields /\ Rows(c) /\ Indexed(c)  BY HasFields
<1>2. PICK r : r = [status |-> "running", key |-> key, initial |-> initial, lineage |-> NoLineage]
  OBVIOUS
<1>3. DOMAIN r = {"status", "key", "initial", "lineage"} /\ r.status = "running"  BY <1>2
<1>4. /\ DOMAIN d = DOMAIN c /\ d.exec = c.exec /\ d.terminal = c.terminal
      /\ d.sess = With(c.sess, s, r) /\ d.running = c.running \cup {s}
      /\ d.pending = c.pending /\ d.waiting = c.waiting /\ d.outbox = c.outbox
  BY <1>1, <1>2 DEF CreateSession, Fields
<1>5. /\ DOMAIN d.sess = DOMAIN c.sess \cup {s} /\ d.sess[s] = r
      /\ \A t \in DOMAIN c.sess : d.sess[t] = c.sess[t]
  BY <1>4 DEF With
<1>6. Births(c, d, s)  BY <1>3, <1>4, <1>5 DEF Births, SameRows
<1>7. Rows(d) /\ Born(c, d, s)  BY <1>1, <1>6, BirthRows
<1>8. Indexed(d)
  <2>1. d.running = Live(d)  BY <1>1, <1>3, <1>4, <1>5 DEF Indexed, Live
  <2>2. d.outbox = Owing(d)  BY <1>1, <1>4 DEF Indexed, Owing
  <2>3. d.pending = Having(d, "pending") /\ d.waiting = Having(d, "waiting")
    BY <1>1, <1>4 DEF Indexed, Having
  <2> QED  BY <2>1, <2>2, <2>3 DEF Indexed
<1> QED  BY <1>7, <1>8 DEF StoreOK

LEMMA RedisFinish ==
  ASSUME NEW c, StoreOK(c), NEW s \in DOMAIN c.sess, NEW st \in {"completed", "failed"}
  PROVE  Marks(c, FinishSession(c, s, st))
<1>1. DOMAIN c = Fields /\ Rows(c) /\ Indexed(c)  BY HasFields
<1>2. PICK d : d = FinishSession(c, s, st)  OBVIOUS
<1>3. PICK r : r = [c.sess[s] EXCEPT !.status = st]  OBVIOUS
<1>4. DOMAIN c.sess[s] = {"status", "key", "initial", "lineage"}  BY <1>1 DEF Rows, SessOK
<1>5. DOMAIN r = {"status", "key", "initial", "lineage"} /\ r.status = st  BY <1>3, <1>4
<1>6. /\ DOMAIN d = DOMAIN c /\ d.exec = c.exec /\ d.running = c.running \ {s}
      /\ d.pending = c.pending /\ d.waiting = c.waiting /\ d.outbox = c.outbox
      /\ d.sess = [c.sess EXCEPT ![s].status = st]
  BY <1>1, <1>2 DEF FinishSession, Fields
<1>7. d.terminal = Append(Others(c.terminal, s), s)
  BY <1>1, <1>2 DEF FinishSession, Fields
<1>8. /\ DOMAIN d.sess = DOMAIN c.sess /\ d.sess[s] = r
      /\ \A t \in DOMAIN c.sess : t # s => d.sess[t] = c.sess[t]
  BY <1>3, <1>6
<1>9. Ends(c, d, s)  BY <1>5, <1>6, <1>7, <1>8 DEF Ends, SameRows
<1>10. Rows(d) /\ SameIds(c, d) /\ Moves(c, d, {}, {})  BY <1>1, <1>9, EndRows
<1>11. Indexed(d)
  <2>1. d.running = Live(d)  BY <1>1, <1>5, <1>6, <1>8 DEF Indexed, Live
  <2>2. d.outbox = Owing(d)  BY <1>1, <1>6 DEF Indexed, Owing
  <2>3. d.pending = Having(d, "pending") /\ d.waiting = Having(d, "waiting")
    BY <1>1, <1>6 DEF Indexed, Having
  <2> QED  BY <2>1, <2>2, <2>3 DEF Indexed
<1> QED  BY <1>2, <1>6, <1>10, <1>11 DEF Marks, StoreOK

\* What is left of c after a deletion.
Remains(c, d) ==
  /\ DOMAIN d.exec \subseteq DOMAIN c.exec /\ DOMAIN d.sess \subseteq DOMAIN c.sess
  /\ \A f \in DOMAIN d.exec : d.exec[f] = c.exec[f]

LEMMA RedisDelete ==
  ASSUME NEW c, StoreOK(c), NEW s, NEW d, d = DeleteTerminal(c, s)
  PROVE  StoreOK(d) /\ Remains(c, d)
<1>1. DOMAIN c = Fields /\ Rows(c) /\ Indexed(c)  BY HasFields
<1>2. PICK gone : gone = ExecutionsOf(c, s)  OBVIOUS
<1>3. /\ DOMAIN d = DOMAIN c /\ d.sess = Without(c.sess, {s}) /\ d.exec = Without(c.exec, gone)
      /\ d.running = c.running \ {s} /\ d.terminal = Others(c.terminal, s)
      /\ d.pending = c.pending \ gone /\ d.waiting = c.waiting \ gone /\ d.outbox = c.outbox \ gone
  BY <1>1, <1>2 DEF DeleteTerminal, Fields
<1>4. /\ DOMAIN d.sess = DOMAIN c.sess \ {s} /\ DOMAIN d.exec = DOMAIN c.exec \ gone
      /\ \A t \in DOMAIN d.sess : d.sess[t] = c.sess[t]
      /\ \A f \in DOMAIN d.exec : d.exec[f] = c.exec[f]
  BY <1>3 DEF Without
<1>5. Deletes(c, d, s)  BY <1>2, <1>3, <1>4 DEF Deletes
<1>6. Rows(d)  BY <1>1, <1>5, DeleteRowsOK
<1>7. Indexed(d)
  <2>1. d.running = Live(d)  BY <1>1, <1>3, <1>4 DEF Indexed, Live
  <2>2. d.outbox = Owing(d)  BY <1>1, <1>3, <1>4 DEF Indexed, Owing
  <2>3. d.pending = Having(d, "pending") /\ d.waiting = Having(d, "waiting")
    BY <1>1, <1>3, <1>4 DEF Indexed, Having
  <2> QED  BY <2>1, <2>2, <2>3 DEF Indexed
<1> QED  BY <1>4, <1>6, <1>7 DEF StoreOK, Remains

LEMMA RedisPut ==
  ASSUME NEW c, StoreOK(c), NEW s \in DOMAIN c.sess, NEW n \in Nat,
         ExecutionsOf(c, s) = Slots(s, n), NEW xs, NumbersFrom(xs, s, n),
         NEW d, d = PutExecutions(c, s, xs)
  PROVE  Len(xs) \in Nat /\ StoreOK(d) /\ Grown(c, d, s, n, n + Len(xs))
<1>1. DOMAIN c = Fields /\ Rows(c) /\ Indexed(c)  BY HasFields
<1>2. PICK g : g = Given(s, xs)  OBVIOUS
<1>3. /\ DOMAIN d = DOMAIN c /\ d.sess = c.sess /\ d.terminal = c.terminal /\ d.running = c.running
      /\ d.exec = Over(g, c.exec) /\ d.pending = c.pending \cup DOMAIN g
      /\ d.waiting = c.waiting /\ d.outbox = c.outbox
  BY <1>1, <1>2 DEF PutExecutions, Fields
<1>4. Puts(c, d, s, xs)  BY <1>2, <1>3 DEF Puts
<1>5. Len(xs) \in Nat /\ Rows(d) /\ Grown(c, d, s, n, n + Len(xs))
  BY <1>1, <1>4, PutRows
<1>6. DOMAIN g = Slots(s, n + Len(xs)) \ DOMAIN c.exec  BY <1>1, <1>2, <1>4, PutRows
<1>7. /\ DOMAIN d.exec = DOMAIN c.exec \cup DOMAIN g
      /\ \A f \in DOMAIN c.exec : d.exec[f] = c.exec[f]
      /\ \A e \in DOMAIN g : IsNew(d.exec[e], s)
  BY <1>5, <1>6 DEF Grown
<1>8. \A e \in DOMAIN g : d.exec[e].status = "pending" /\ d.exec[e].effects = NoEffects
  BY <1>7, NewIs
<1>9. Indexed(d)
  <2>1. d.running = Live(d)  BY <1>1, <1>3 DEF Indexed, Live
  <2>2. d.outbox = Owing(d)  BY <1>1, <1>3, <1>7, <1>8 DEF Indexed, Owing
  <2>3. d.pending = Having(d, "pending")
    BY <1>1, <1>3, <1>7, <1>8 DEF Indexed, Having
  <2>4. d.waiting = Having(d, "waiting")
    BY <1>1, <1>3, <1>7, <1>8 DEF Indexed, Having
  <2> QED  BY <2>1, <2>2, <2>3, <2>4 DEF Indexed
<1> QED  BY <1>5, <1>9 DEF StoreOK

-----------------------------------------------------------------------------
Sentinels(s) == <<[id |-> Head0(s), node |-> "__HEAD__", policy |-> NoPolicy],
                  [id |-> End1(s), node |-> "__END__", policy |-> NoPolicy]>>

LEMMA SentinelsFirst ==
  ASSUME NEW s
  PROVE  /\ NumbersFrom(Sentinels(s), s, 0) /\ Len(Sentinels(s)) = 2
         /\ \A xs : NumbersFrom(xs, s, 2) => NumbersFrom(Sentinels(s) \o xs, s, 0)
<1>1. PICK x : x = [id |-> Head0(s), node |-> "__HEAD__", policy |-> NoPolicy]  OBVIOUS
<1>2. PICK y : y = [id |-> End1(s), node |-> "__END__", policy |-> NoPolicy]  OBVIOUS
<1>3. x.id = <<s, 0>> /\ y.id = <<s, 1>>  BY <1>1, <1>2 DEF Head0, End1
<1>4. PICK q : q = Sentinels(s)  OBVIOUS
<1>5. q = <<x, y>>  BY <1>1, <1>2, <1>4 DEF Sentinels
<1>6. IsList(q) /\ Len(q) = 2 /\ q[1] = x /\ q[2] = y  BY <1>5, TwoList
<1>7. \A i \in 1..2 : q[i].id = <<s, 0 + i - 1>>
  <2>1. 1..2 = {1, 2} /\ 0 + 1 - 1 = 0 /\ 0 + 2 - 1 = 1  OBVIOUS
  <2> QED  BY <1>3, <1>6, <2>1
<1>8. ASSUME NEW xs, NumbersFrom(xs, s, 2)  PROVE NumbersFrom(q \o xs, s, 0)
  <2>1. IsList(xs)  BY <1>8 DEF NumbersFrom
  <2>2. PICK m : m = Len(xs) /\ m \in Nat  BY <2>1, ListIs
  <2>3. PICK r : r = q \o xs  OBVIOUS
  <2>4. /\ IsList(r) /\ Len(r) = 2 + m /\ \A i \in 1..2 : r[i] = q[i]
        /\ \A i \in 1..m : r[2 + i] = xs[i]
    <3>1. IsList(q)  BY <1>6
    <3>2. IsList(q \o xs) /\ Len(q \o xs) = Len(q) + Len(xs)  BY <2>1, <3>1, Cat
    <3>3. \A i \in 1..Len(q) : (q \o xs)[i] = q[i]  BY <2>1, <3>1, Cat
    <3>4. \A i \in 1..Len(xs) : (q \o xs)[Len(q) + i] = xs[i]  BY <2>1, <3>1, Cat
    <3> QED  BY <1>6, <2>2, <2>3, <3>2, <3>3, <3>4
  <2>5. ASSUME NEW i \in 1..(2 + m)  PROVE r[i].id = <<s, 0 + i - 1>>
    <3>1. CASE i \in 1..2  BY <1>7, <2>4, <3>1
    <3>2. CASE i \notin 1..2
      <4>1. i - 2 \in 1..m /\ 2 + (i - 2) = i /\ 2 + (i - 2) - 1 = 0 + i - 1  BY <2>2, <3>2
      <4>2. r[i] = xs[i - 2]  BY <2>4, <4>1
      <4>3. xs[i - 2].id = <<s, 2 + (i - 2) - 1>>  BY <1>8, <2>2, <4>1 DEF NumbersFrom
      <4> QED  BY <4>1, <4>2, <4>3
    <3> QED  BY <3>1, <3>2
  <2> QED  BY <2>3, <2>4, <2>5 DEF NumbersFrom
<1> QED  BY <1>4, <1>6, <1>7, <1>8 DEF NumbersFrom

\* Some sessions named in S are new, and nothing else changes.
Spawns(c, d, S) ==
  /\ StoreOK(d) /\ Moves(c, d, {}, {}) /\ DOMAIN d.sess \subseteq DOMAIN c.sess \cup S
  /\ \A t \in DOMAIN c.sess : ExecutionsOf(d, t) = ExecutionsOf(c, t)

LEMMA SpawnsOn ==
  ASSUME NEW b, NEW c, NEW d, NEW S, Spawns(b, c, S), Spawns(c, d, S)
  PROVE  Spawns(b, d, S)
<1>1. Moves(b, d, {}, {})  BY MovesOn DEF Spawns
<1>2. DOMAIN b.sess \subseteq DOMAIN c.sess  BY DEF Spawns, Moves
<1> QED  BY <1>1, <1>2 DEF Spawns

ChildOK(child) == NumbersFrom(child.executions, child.session, 2)

LEMMA RedisSpawn ==
  ASSUME NEW c, StoreOK(c), NEW child, ChildOK(child)
  PROVE  Spawns(c, SpawnSession(c, child), {child.session})
<1>1. PICK s : s = child.session  OBVIOUS
<1>2. CASE s \in DOMAIN c.sess
  <2>1. SpawnSession(c, child) = c  BY <1>1, <1>2 DEF SpawnSession
  <2> QED  BY <2>1, MovesNot DEF Spawns
<1>3. CASE s \notin DOMAIN c.sess
  <2>1. PICK b : b = CreateSession(c, s, "", {})  OBVIOUS
  <2>2. StoreOK(b) /\ Born(c, b, s)  BY <1>3, <2>1, RedisCreate
  <2>3. PICK xs : xs = Sentinels(s) \o child.executions  OBVIOUS
  <2>4. NumbersFrom(xs, s, 0)  BY <1>1, <2>3, SentinelsFirst DEF ChildOK
  <2>5. PICK p : p = PutExecutions(b, s, xs)  OBVIOUS
  <2>6. s \in DOMAIN b.sess /\ ExecutionsOf(b, s) = Slots(s, 0)
    <3>1. 0..(0 - 1) = {}  OBVIOUS
    <3> QED  BY <2>2, <3>1 DEF Born, Slots
  <2>7. Len(xs) \in Nat /\ StoreOK(p) /\ Grown(b, p, s, 0, 0 + Len(xs))
    BY <2>2, <2>4, <2>5, <2>6, RedisPut
  <2>8. Moves(c, p, {}, {})
    <3>1. Moves(c, b, {}, {}) /\ Moves(b, p, {}, {})  BY <2>2, <2>7 DEF Born, Grown
    <3> QED  BY <3>1, MovesOn
  <2>9. DOMAIN p.sess = DOMAIN c.sess \cup {s}  BY <2>2, <2>7 DEF Born, Grown
  <2>10. \A t \in DOMAIN c.sess : ExecutionsOf(p, t) = ExecutionsOf(c, t)
    BY <1>3, <2>2, <2>7 DEF Born, Grown
  <2>11. PICK k : k = MarkCompleted(p, Head0(s), {})  OBVIOUS
  <2>12. Marks(p, k)
    <3>1. Head0(s) \notin DOMAIN c.exec
      <4>1. Rows(c)  BY HasFields
      <4>2. Head0(s)[1] = s  BY DEF Head0
      <4>3. SUFFICES ASSUME Head0(s) \in DOMAIN c.exec PROVE FALSE  OBVIOUS
      <4>4. c.exec[Head0(s)].session = s  BY <4>1, <4>2, <4>3, OwnName
      <4> QED  BY <1>3, <4>1, <4>3, <4>4 DEF Rows, RowOK
    <3>2. ~IsWaiting(p, Head0(s))  BY <2>8, <3>1 DEF Moves, MovedRow, IsWaiting
    <3> QED  BY <2>7, <2>11, <3>2, RedisCompleted, RedisCompletedNone
  <2>13. PICK l : l = [k EXCEPT !.sess[s].lineage = child.lineage]  OBVIOUS
  <2>14. PICK d : d = SpawnSession(c, child)  OBVIOUS
  <2>15. d = AddEdges(l, child.edges)
    BY <1>1, <1>3, <2>1, <2>3, <2>5, <2>11, <2>13, <2>14 DEF SpawnSession, Sentinels
  <2>16. Alike(k, d)
    <3>1. DOMAIN k = Fields  BY <2>12, HasFields DEF Marks
    <3>2. PICK g : g = [k.sess EXCEPT ![s].lineage = child.lineage]  OBVIOUS
    <3>3. /\ DOMAIN g = DOMAIN k.sess
          /\ \A t \in DOMAIN k.sess : DOMAIN g[t] = DOMAIN k.sess[t] /\ g[t].status = k.sess[t].status
      <4>1. DOMAIN g = DOMAIN k.sess  BY <3>2
      <4>2. ASSUME NEW t \in DOMAIN k.sess
            PROVE  DOMAIN g[t] = DOMAIN k.sess[t] /\ g[t].status = k.sess[t].status
        <5>1. DOMAIN k.sess[t] = {"status", "key", "initial", "lineage"}
          BY <2>12, HasFields DEF Marks, Rows, SessOK
        <5>2. CASE t = s
          <6>1. g[t] = [k.sess[t] EXCEPT !.lineage = child.lineage]  BY <3>2, <5>2
          <6> QED  BY <5>1, <6>1
        <5>3. CASE t # s  BY <3>2, <5>3
        <5> QED  BY <5>2, <5>3
      <4> QED  BY <4>1, <4>2
    <3>4. /\ DOMAIN d = Fields /\ d.sess = g /\ d.exec = k.exec /\ d.terminal = k.terminal
          /\ d.running = k.running /\ d.pending = k.pending /\ d.waiting = k.waiting
          /\ d.outbox = k.outbox
      BY <2>13, <2>15, <3>1, <3>2 DEF AddEdges, Fields
    <3> QED  BY <3>1, <3>3, <3>4 DEF Alike
  <2>17. Marks(k, d)  BY <2>12, <2>16, AlikeMarks DEF Marks
  <2>18. Moves(c, d, {}, {})
    <3>1. Moves(p, k, {}, {}) /\ Moves(k, d, {}, {})  BY <2>12, <2>17 DEF Marks
    <3>2. Moves(c, k, {}, {})  BY <2>8, <3>1, MovesOn
    <3> QED  BY <3>1, <3>2, MovesOn
  <2>19. DOMAIN d.sess = DOMAIN p.sess /\ \A t : ExecutionsOf(d, t) = ExecutionsOf(p, t)
    BY <2>12, <2>17 DEF Marks, SameIds
  <2>20. Spawns(c, d, {s})  BY <2>9, <2>10, <2>17, <2>18, <2>19 DEF Spawns, Marks
  <2> QED  BY <1>1, <2>14, <2>20
<1> QED  BY <1>2, <1>3

LEMMA SpawnsWiden ==
  ASSUME NEW c, NEW d, NEW S, NEW T, Spawns(c, d, S), S \subseteq T
  PROVE  Spawns(c, d, T)
BY DEF Spawns

ChildrenOK(spawns, names) ==
  /\ IsList(spawns)
  /\ \A i \in 1..Len(spawns) : ChildOK(spawns[i]) /\ spawns[i].session \in names

SpawnDo(x, b, child) == SpawnSession(b, child)
SpawnOK(x, i, b) == Spawns(x.from, b, x.names)
Spawning == INSTANCE Loops WITH Do <- SpawnDo, Inv <- SpawnOK

LEMMA RedisSpawns ==
  ASSUME NEW c, StoreOK(c), NEW spawns, NEW names, ChildrenOK(spawns, names),
         NEW d, d = ForEach(SpawnSession, c, spawns)
  PROVE  Spawns(c, d, names)
<1>1. PICK x : x = [from |-> c, names |-> names]  OBVIOUS
<1>2. x.from = c /\ x.names = names  BY <1>1
<1>3. Len(spawns) \in Nat  BY ListIs DEF ChildrenOK
<1>4. SpawnOK(x, 0, c)  BY <1>2, MovesNot DEF SpawnOK, Spawns
<1>5. ASSUME NEW i \in 1..Len(spawns), NEW b, SpawnOK(x, i - 1, b)
      PROVE  SpawnOK(x, i, SpawnDo(x, b, spawns[i]))
  <2>1. PICK child : child = spawns[i]  OBVIOUS
  <2>2. ChildOK(child) /\ child.session \in names  BY <2>1 DEF ChildrenOK
  <2>3. Spawns(c, b, names)  BY <1>2, <1>5 DEF SpawnOK
  <2>4. StoreOK(b)  BY <2>3 DEF Spawns
  <2>5. Spawns(b, SpawnSession(b, child), {child.session})  BY <2>2, <2>4, RedisSpawn
  <2>6. Spawns(b, SpawnSession(b, child), names)
    <3>1. {child.session} \subseteq names  BY <2>2
    <3> QED  BY <2>5, <3>1, SpawnsWiden
  <2>7. Spawns(c, SpawnSession(b, child), names)  BY <2>3, <2>6, SpawnsOn
  <2> QED  BY <1>2, <2>1, <2>7 DEF SpawnOK, SpawnDo
<1>0. Spawning!Induction  BY NatIsAll DEF Spawning!Induction
<1>6. SpawnOK(x, Len(spawns), Spawning!Looped(x, c, spawns))
  BY <1>0, <1>3, <1>4, <1>5, Spawning!LoopKeeps
<1>7. ForEach(SpawnSession, c, spawns) = Spawning!Looped(x, c, spawns)
  BY DEF ForEach, Spawning!Looped, SpawnDo
<1> QED  BY <1>2, <1>6, <1>7 DEF SpawnOK
-----------------------------------------------------------------------------
WithGot(c, e, got) == [c EXCEPT !.exec[e].got = got]
WithEffects(c, e, f) == [c EXCEPT !.exec[e].effects = f, !.outbox = @ \cup {e}]

Gains(c, d, e, got) ==
  /\ StoreOK(d) /\ SameIds(c, d) /\ Moves(c, d, {}, {e}) /\ DOMAIN d.exec = DOMAIN c.exec
  /\ d.exec[e].got = got /\ d.exec[e].effects = c.exec[e].effects

LEMMA GotSet ==
  ASSUME NEW c, StoreOK(c), NEW e \in DOMAIN c.exec, NEW got,
         NEW d, d = WithGot(c, e, got)
  PROVE  Gains(c, d, e, got)
<1>1. DOMAIN c = Fields /\ Rows(c) /\ Indexed(c)  BY HasFields
<1>2. PICK y : y = c.exec[e] /\ RowOK(c, y)  BY <1>1 DEF Rows
<1>3. PICK x : x = [y EXCEPT !.got = got]  OBVIOUS
<1>4. /\ DOMAIN d = DOMAIN c /\ d.sess = c.sess /\ d.terminal = c.terminal
      /\ d.running = c.running /\ d.waiting = c.waiting /\ d.outbox = c.outbox
      /\ d.pending = c.pending
      /\ DOMAIN d.exec = DOMAIN c.exec /\ d.exec[e] = x
      /\ \A f \in DOMAIN c.exec : f # e => d.exec[f] = c.exec[f]
  BY <1>1, <1>2, <1>3 DEF Fields, WithGot
<1>5. DOMAIN x = DOMAIN y /\ x.status = y.status /\ x.session = y.session /\ x.node = y.node
      /\ x.got = got /\ x.effects = y.effects
  BY <1>2, <1>3 DEF RowOK
<1>6. Rewrites(c, d, e, x)  BY <1>4 DEF Rewrites
<1>7. Becomes(y, x)  BY <1>2, <1>5 DEF Becomes, RowOK
<1>8. /\ c.pending = IF x.status = "pending" THEN c.pending \cup {e} ELSE c.pending \ {e}
      /\ c.waiting = IF x.status = "waiting" THEN c.waiting \cup {e} ELSE c.waiting \ {e}
  BY <1>1, <1>2, <1>5 DEF Indexed, Having
<1>9. c.outbox = IF x.effects # NoEffects THEN c.outbox \cup {e} ELSE c.outbox \ {e}
  BY <1>1, <1>2, <1>5 DEF Indexed, Owing
<1>10. Reindexes(c, d, e, x)  BY <1>4, <1>8, <1>9 DEF Reindexes
<1>11. MayMove(y, x, e, {}, {e})  BY <1>5 DEF MayMove
<1>12. StoreOK(d) /\ SameIds(c, d) /\ Moves(c, d, {}, {e})
  BY <1>2, <1>6, <1>7, <1>10, <1>11, Rewrite
<1> QED  BY <1>2, <1>4, <1>5, <1>12 DEF Gains

CanOwe(c, e, f) == StoreOK(c) /\ e \in DOMAIN c.exec /\ EffectsOK(f) /\ f # NoEffects
Owes(c, d, e, f) ==
  /\ StoreOK(d) /\ SameIds(c, d) /\ Moves(c, d, {}, {e})
  /\ d.exec[e].effects = f /\ d.exec[e].got = c.exec[e].got

LEMMA EffectsSet == \A c, e, f : CanOwe(c, e, f) => Owes(c, WithEffects(c, e, f), e, f)
<1> SUFFICES ASSUME NEW c, NEW e, NEW f, CanOwe(c, e, f)
             PROVE  Owes(c, WithEffects(c, e, f), e, f)
  OBVIOUS
<1>0. StoreOK(c) /\ e \in DOMAIN c.exec /\ EffectsOK(f) /\ f # NoEffects  BY DEF CanOwe
<1>d. PICK d : d = WithEffects(c, e, f)  OBVIOUS
<1>1. DOMAIN c = Fields /\ Rows(c) /\ Indexed(c)  BY <1>0, HasFields
<1>2. PICK y : y = c.exec[e] /\ RowOK(c, y)  BY <1>0, <1>1 DEF Rows
<1>3. PICK x : x = [y EXCEPT !.effects = f]  OBVIOUS
<1>4. /\ DOMAIN d = DOMAIN c /\ d.sess = c.sess /\ d.terminal = c.terminal
      /\ d.running = c.running /\ d.waiting = c.waiting /\ d.outbox = c.outbox \cup {e}
      /\ d.pending = c.pending
      /\ DOMAIN d.exec = DOMAIN c.exec /\ d.exec[e] = x
      /\ \A g \in DOMAIN c.exec : g # e => d.exec[g] = c.exec[g]
  BY <1>0, <1>1, <1>2, <1>3, <1>d DEF Fields, WithEffects
<1>5. DOMAIN x = DOMAIN y /\ x.status = y.status /\ x.session = y.session /\ x.node = y.node
      /\ x.got = y.got /\ x.effects = f
  BY <1>2, <1>3 DEF RowOK
<1>6. Rewrites(c, d, e, x)  BY <1>4 DEF Rewrites
<1>7. Becomes(y, x)  BY <1>0, <1>2, <1>5 DEF Becomes, RowOK
<1>8. /\ c.pending = IF x.status = "pending" THEN c.pending \cup {e} ELSE c.pending \ {e}
      /\ c.waiting = IF x.status = "waiting" THEN c.waiting \cup {e} ELSE c.waiting \ {e}
  BY <1>0, <1>1, <1>2, <1>5 DEF Indexed, Having
<1>10. Reindexes(c, d, e, x)  BY <1>0, <1>4, <1>5, <1>8 DEF Reindexes
<1>11. MayMove(y, x, e, {}, {e})  BY <1>5 DEF MayMove
<1>12. StoreOK(d) /\ SameIds(c, d) /\ Moves(c, d, {}, {e})
  BY <1>0, <1>2, <1>6, <1>7, <1>10, <1>11, Rewrite
<1> QED  BY <1>d, <1>2, <1>4, <1>5, <1>12 DEF Owes

\* A plan that goes into e's session continues its numbers.
StagedOK(c, e, staged) ==
  staged # <<>> =>
    \E n \in Nat : /\ ExecutionsOf(c, c.exec[e].session) = Slots(c.exec[e].session, n)
                   /\ NumbersFrom(staged[1].executions, c.exec[e].session, n)

Committed(c, d, e, got, effects, names) ==
  /\ StoreOK(d) /\ Moves(c, d, {}, {e}) /\ DOMAIN d.sess \subseteq DOMAIN c.sess \cup names
  /\ d.exec[e].got = got
  /\ effects # NoEffects => d.exec[e].effects = effects
  /\ effects = NoEffects => d.exec[e].effects = c.exec[e].effects

LEMMA Widen == \A c, d, e : Moves(c, d, {}, {}) => Moves(c, d, {}, {e})
<1> SUFFICES ASSUME NEW c, NEW d, NEW e, Moves(c, d, {}, {})  PROVE Moves(c, d, {}, {e})
  OBVIOUS
<1>1. {} \subseteq {} /\ {} \subseteq {e}  OBVIOUS
<1> QED  BY <1>1, MovesMore

\* Splicing, indexes included.
LEMMA RedisSplice ==
  ASSUME NEW c, StoreOK(c), NEW e \in DOMAIN c.exec, NEW staged, staged # <<>>,
         StagedOK(c, e, staged), NEW d, d = Splice(c, e, staged[1])
  PROVE  StoreOK(d) /\ Moves(c, d, {}, {}) /\ DOMAIN d.sess = DOMAIN c.sess
<1>1. PICK st, s : st = staged[1] /\ s = c.exec[e].session  OBVIOUS
<1>2. s \in DOMAIN c.sess  BY <1>1, HasFields DEF Rows, RowOK
<1>3. PICK n \in Nat : ExecutionsOf(c, s) = Slots(s, n) /\ NumbersFrom(st.executions, s, n)
  BY <1>1 DEF StagedOK
<1>4. PICK p : p = PutExecutions(c, s, st.executions)  OBVIOUS
<1>5. StoreOK(p) /\ Grown(c, p, s, n, n + Len(st.executions))  BY <1>2, <1>3, <1>4, RedisPut
<1>6. PICK children : children = Children(c, e)  OBVIOUS
<1>7. PICK new : new = (p.edges \ children) \cup st.edges
         \cup {<<e, t, "">> : t \in st.starts} \cup {<<st.end, x[2], x[3]>> : x \in children}
  OBVIOUS
<1>8. DOMAIN p = Fields  BY <1>5, HasFields
<1>9. d = [p EXCEPT !.edges = new]  BY <1>1, <1>4, <1>6, <1>7 DEF Splice
<1>10. Alike(p, d)  BY <1>8, <1>9 DEF Alike, Fields
<1>11. Marks(p, d)  BY <1>5, <1>10, AlikeMarks
<1>12. Moves(c, p, {}, {}) /\ Moves(p, d, {}, {})  BY <1>5, <1>11 DEF Grown, Marks
<1>13. Moves(c, d, {}, {})  BY <1>12, MovesOn
<1> QED  BY <1>5, <1>11, <1>13 DEF Marks, SameIds, Grown

LEMMA RedisCommit ==
  ASSUME NEW c, StoreOK(c), NEW e \in DOMAIN c.exec, ~IsWaiting(c, e),
         NEW result, NEW got, NEW staged, StagedOK(c, e, staged), NEW effects, EffectsOK(effects),
         NEW spawns, NEW names, ChildrenOK(spawns, names),
         NEW d, d = CommitTransition(c, e, result, got, staged, effects, spawns)
  PROVE  Committed(c, d, e, got, effects, names)
<1>1. PICK a : a = ForEach(SpawnSession, c, spawns)  OBVIOUS
<1>2. Spawns(c, a, names)  BY <1>1, RedisSpawns
<1>3. StoreOK(a) /\ Moves(c, a, {}, {}) /\ e \in DOMAIN a.exec
  BY <1>2 DEF Spawns, Moves
<1>4. a.exec[e].session = c.exec[e].session  BY <1>3 DEF Moves, MovedRow
<1>5. ExecutionsOf(a, c.exec[e].session) = ExecutionsOf(c, c.exec[e].session)
  BY <1>2, HasFields DEF Spawns, Rows, RowOK
<1>6. StagedOK(a, e, staged)  BY <1>4, <1>5 DEF StagedOK
<1>7. PICK b : b = IF staged = <<>> THEN a ELSE Splice(a, e, staged[1])  OBVIOUS
<1>8. StoreOK(b) /\ Moves(a, b, {}, {}) /\ DOMAIN b.sess = DOMAIN a.sess
  <2>1. CASE staged = <<>>
    <3>1. b = a  BY <1>7, <2>1
    <3> QED  BY <1>3, <3>1, MovesNot
  <2>2. CASE staged # <<>>
    <3>1. b = Splice(a, e, staged[1])  BY <1>7, <2>2
    <3> QED  BY <1>3, <1>6, <2>2, <3>1, RedisSplice
  <2> QED  BY <2>1, <2>2
<1>9. Moves(c, b, {}, {})  BY <1>3, <1>8, MovesOn
<1>10. e \in DOMAIN b.exec /\ ~IsWaiting(b, e)  BY <1>9 DEF Moves, MovedRow, IsWaiting
<1>11. PICK m : m = MarkCompleted(b, e, result)  OBVIOUS
<1>12. Marks(b, m)  BY <1>8, <1>10, <1>11, RedisCompleted
<1>13. PICK k : k = WithGot(m, e, got)  OBVIOUS
<1>14. StoreOK(m) /\ e \in DOMAIN m.exec  BY <1>10, <1>12 DEF Marks
<1>15. /\ StoreOK(k) /\ SameIds(m, k) /\ Moves(m, k, {}, {e}) /\ DOMAIN k.exec = DOMAIN m.exec
       /\ k.exec[e].got = got /\ k.exec[e].effects = m.exec[e].effects
  <2>1. Gains(m, k, e, got)  BY <1>13, <1>14, GotSet
  <2> QED  BY <2>1 DEF Gains
<1>16. m.exec[e].effects = c.exec[e].effects
  <2>1. Moves(b, m, {}, {})  BY <1>12 DEF Marks
  <2>2. Moves(c, m, {}, {})  BY <1>9, <2>1, MovesOn
  <2> QED  BY <1>14, <2>2 DEF Moves, MovedRow
<1>17. Moves(c, k, {}, {e})
  <2>1. Moves(b, m, {}, {})  BY <1>12 DEF Marks
  <2>2. Moves(c, m, {}, {})  BY <1>9, <2>1, MovesOn
  <2>3. Moves(c, m, {}, {e})  BY <2>2, Widen
  <2> QED  BY <1>15, <2>3, MovesOn
<1>18. DOMAIN k.sess \subseteq DOMAIN c.sess \cup names
  BY <1>2, <1>8, <1>12, <1>15 DEF Spawns, Marks, SameIds
<1>19. CASE effects = NoEffects
  <2>1. d = k  BY <1>1, <1>7, <1>11, <1>13, <1>19 DEF CommitTransition, WithGot
  <2> QED  BY <1>15, <1>16, <1>17, <1>18, <1>19, <2>1 DEF Committed
<1>20. CASE effects # NoEffects
  <2>0. PICK w : w = WithEffects(k, e, effects)  OBVIOUS
  <2>1. d = w
    BY <1>1, <1>7, <1>11, <1>13, <1>20, <2>0 DEF CommitTransition, WithGot, WithEffects
  <2>2. e \in DOMAIN k.exec /\ StoreOK(k)  BY <1>14, <1>15
  <2>5. CanOwe(k, e, effects)  BY <1>20, <2>2 DEF CanOwe
  <2>6. Owes(k, w, e, effects)  BY <2>0, <2>5, EffectsSet
  <2>3. /\ StoreOK(w) /\ SameIds(k, w) /\ Moves(k, w, {}, {e})
        /\ w.exec[e].effects = effects /\ w.exec[e].got = k.exec[e].got
    BY <2>6 DEF Owes
  <2>4. Moves(c, w, {}, {e})  BY <1>17, <2>3, MovesOn
  <2> QED  BY <1>15, <1>18, <1>20, <2>1, <2>3, <2>4 DEF Committed, SameIds
<1> QED  BY <1>19, <1>20
-----------------------------------------------------------------------------
(* The SQLite store: rows, and queries instead of indexes.                 *)

\* The rows are the same.
Same(c, d) ==
  /\ DOMAIN d = DOMAIN c /\ d.sess = c.sess /\ d.exec = c.exec /\ d.terminal = c.terminal

LEMMA QueriedIs ==
  ASSUME NEW c, DOMAIN c = Fields, NEW d, d = Queried(c)
  PROVE  Same(c, d) /\ Indexed(d)
<1>1. PICK p, w, o, r : /\ p = Having(c, "pending") /\ w = Having(c, "waiting")
                        /\ o = Owing(c) /\ r = Live(c)
  OBVIOUS
<1>2. DOMAIN d = DOMAIN c  BY DEF Queried, Fields
<1>3. d.sess = c.sess /\ d.exec = c.exec /\ d.terminal = c.terminal  BY DEF Queried, Fields
<1>4. d.running = r  BY <1>1 DEF Queried, Fields, Live
<1>5. d.pending = p  BY <1>1 DEF Queried, Fields, Having
<1>6. d.waiting = w  BY <1>1 DEF Queried, Fields, Having
<1>7. d.outbox = o  BY <1>1 DEF Queried, Fields, Owing
<1>8. d.running = Live(d) /\ d.outbox = Owing(d)
  BY <1>1, <1>3, <1>4, <1>7 DEF Live, Owing
<1>9. d.pending = Having(d, "pending") /\ d.waiting = Having(d, "waiting")
  BY <1>1, <1>3, <1>5, <1>6 DEF Having
<1> QED  BY <1>2, <1>3, <1>8, <1>9 DEF Same, Indexed

LEMMA RowsHave == \A c : Rows(c) => DOMAIN c = Fields  BY DEF Rows, Fields

LEMMA SameKeeps ==
  ASSUME NEW c, NEW d, Same(c, d)
  PROVE  Rows(c) => Rows(d)
<1>1. \A s : ExecutionsOf(d, s) = ExecutionsOf(c, s)  BY DEF Same, ExecutionsOf
<1>2. \A s : SessOK(c, s) => SessOK(d, s)  BY DEF Same, SessOK
<1>3. \A s : Numbered(c, s) => Numbered(d, s)  BY <1>1 DEF Numbered
<1>4. \A x : RowOK(c, x) => RowOK(d, x)  BY DEF Same, RowOK
<1> QED  BY <1>2, <1>3, <1>4 DEF Same, Rows

\* A query result has what the rows have.
LEMMA QueriedOK ==
  ASSUME NEW c, Rows(c), NEW d, d = Queried(c)
  PROVE  StoreOK(d) /\ Same(c, d)
<1>1. Same(c, d) /\ Indexed(d)  BY RowsHave, QueriedIs
<1>2. Rows(d)  BY <1>1, SameKeeps
<1> QED  BY <1>1, <1>2 DEF StoreOK

\* Row e of c may become x, and has become it in d.
Writable(c, e, x, W, M) ==
  /\ StoreOK(c) /\ e \in DOMAIN c.exec
  /\ Becomes(c.exec[e], x) /\ MayMove(c.exec[e], x, e, W, M)
Written(c, d, e, x, W, M) ==
  /\ StoreOK(d) /\ SameIds(c, d) /\ Moves(c, d, W, M) /\ DOMAIN d.exec = DOMAIN c.exec
  /\ d.exec[e] = x /\ \A f \in DOMAIN c.exec : f # e => d.exec[f] = c.exec[f]

LEMMA RowUpdate ==
  ASSUME NEW c, NEW e, NEW x, NEW W, NEW M, Writable(c, e, x, W, M),
         NEW d, d = Update(c, e, x)
  PROVE  Written(c, d, e, x, W, M)
<1>0. /\ StoreOK(c) /\ e \in DOMAIN c.exec
      /\ Becomes(c.exec[e], x) /\ MayMove(c.exec[e], x, e, W, M)
  BY DEF Writable
<1>1. DOMAIN c = Fields /\ Rows(c)  BY <1>0, HasFields
<1>2. PICK b : b = [c EXCEPT !.exec[e] = x]  OBVIOUS
<1>3. d = Queried(b)  BY <1>0, <1>2 DEF Update
<1>4. /\ DOMAIN b = DOMAIN c /\ b.sess = c.sess /\ b.terminal = c.terminal
      /\ DOMAIN b.exec = DOMAIN c.exec /\ b.exec[e] = x
      /\ \A f \in DOMAIN c.exec : f # e => b.exec[f] = c.exec[f]
  BY <1>0, <1>1, <1>2 DEF Fields
<1>5. Rewrites(c, b, e, x)  BY <1>4 DEF Rewrites
<1>6. Rows(b)  BY <1>0, <1>1, <1>5, RewriteRows
<1>7. StoreOK(d) /\ Same(b, d)  BY <1>3, <1>6, QueriedOK
<1>8. Rewrites(c, d, e, x)  BY <1>4, <1>7 DEF Rewrites, Same
<1>9. SameIds(c, d)  BY <1>0, <1>1, <1>8, RewriteRows
<1>10. Moves(c, d, W, M)  BY <1>0, <1>1, <1>8, RewriteMoves
<1> QED  BY <1>7, <1>8, <1>9, <1>10 DEF Rewrites, Written

\* A mark of a row that nobody waits for.
LEMMA RowMark ==
  ASSUME NEW c, StoreOK(c), NEW e \in DOMAIN c.exec, NEW x, Becomes(c.exec[e], x),
         x.status # "waiting", x.got = c.exec[e].got, x.effects = c.exec[e].effects,
         NEW d, d = Update(c, e, x)
  PROVE  Marks(c, d)
<1>1. MayMove(c.exec[e], x, e, {}, {})  BY DEF MayMove
<1>2. Writable(c, e, x, {}, {})  BY <1>1 DEF Writable
<1>3. Written(c, d, e, x, {}, {})  BY <1>2, RowUpdate
<1> QED  BY <1>3 DEF Marks, Written

LEMMA NoMark == \A c : StoreOK(c) => Marks(c, c)  BY MovesNot DEF Marks, SameIds

LEMMA SqliteRunning ==
  ASSUME NEW c, StoreOK(c), NEW e \in DOMAIN c.exec, NEW d, d = RowRunning(c, e)
  PROVE  Marks(c, d)
<1>1. PICK y : y = c.exec[e]  OBVIOUS
<1>2. RowOK(c, y)  BY <1>1 DEF StoreOK, Rows
<1>3. PICK x : x = [y EXCEPT !.status = "running", !.attempts = @ + 1]  OBVIOUS
<1>4. DOMAIN x = DOMAIN y /\ x.status = "running" /\ x.session = y.session /\ x.node = y.node
      /\ x.got = y.got /\ x.effects = y.effects
  BY <1>2, <1>3 DEF RowOK
<1>5. Becomes(y, x)  BY <1>2, <1>4 DEF Becomes, RowOK, Statuses
<1>6. d = Update(c, e, x)  BY <1>1, <1>3 DEF RowRunning
<1> QED  BY <1>1, <1>4, <1>5, <1>6, RowMark

LEMMA SqliteCompleted ==
  ASSUME NEW c, StoreOK(c), NEW e, NEW r, NEW d, d = RowCompleted(c, e, r)
  PROVE  Marks(c, d)
<1>1. PICK y : y = c.exec[e]  OBVIOUS
<1>3. PICK x : x = [y EXCEPT !.status = "completed", !.result = r]  OBVIOUS
<1>6. d = Update(c, e, x)  BY <1>1, <1>3 DEF RowCompleted
<1>7. CASE e \in DOMAIN c.exec
  <2>2. RowOK(c, y)  BY <1>1, <1>7 DEF StoreOK, Rows
  <2>4. DOMAIN x = DOMAIN y /\ x.status = "completed" /\ x.session = y.session /\ x.node = y.node
        /\ x.got = y.got /\ x.effects = y.effects
    BY <2>2, <1>3 DEF RowOK
  <2>5. Becomes(y, x)  BY <2>2, <2>4 DEF Becomes, RowOK, Statuses
  <2> QED  BY <1>1, <1>6, <1>7, <2>4, <2>5, RowMark
<1>8. CASE e \notin DOMAIN c.exec
  <2>1. d = c  BY <1>6, <1>8 DEF Update
  <2> QED  BY <2>1, NoMark
<1> QED  BY <1>7, <1>8

LEMMA SqliteFailed ==
  ASSUME NEW c, StoreOK(c), NEW e \in DOMAIN c.exec, NEW d, d = RowFailed(c, e)
  PROVE  Marks(c, d)
<1>1. PICK y : y = c.exec[e]  OBVIOUS
<1>2. RowOK(c, y)  BY <1>1 DEF StoreOK, Rows
<1>3. PICK x : x = [y EXCEPT !.status = "failed", !.result = {"error"}]  OBVIOUS
<1>4. DOMAIN x = DOMAIN y /\ x.status = "failed" /\ x.session = y.session /\ x.node = y.node
      /\ x.got = y.got /\ x.effects = y.effects
  BY <1>2, <1>3 DEF RowOK
<1>5. Becomes(y, x)  BY <1>2, <1>4 DEF Becomes, RowOK, Statuses
<1>6. d = Update(c, e, x)  BY <1>1, <1>3 DEF RowFailed
<1> QED  BY <1>1, <1>4, <1>5, <1>6, RowMark

LEMMA SqliteRetrying ==
  ASSUME NEW c, StoreOK(c), NEW e \in DOMAIN c.exec, NEW r, NEW d, d = RowRetrying(c, e, r)
  PROVE  Marks(c, d)
<1>1. PICK y : y = c.exec[e]  OBVIOUS
<1>2. RowOK(c, y)  BY <1>1 DEF StoreOK, Rows
<1>3. PICK x : x = [y EXCEPT !.status = "pending", !.retry = r]  OBVIOUS
<1>4. DOMAIN x = DOMAIN y /\ x.status = "pending" /\ x.session = y.session /\ x.node = y.node
      /\ x.got = y.got /\ x.effects = y.effects
  BY <1>2, <1>3 DEF RowOK
<1>5. Becomes(y, x)  BY <1>2, <1>4 DEF Becomes, RowOK, Statuses
<1>6. d = Update(c, e, x)  BY <1>1, <1>3 DEF RowRetrying
<1> QED  BY <1>1, <1>4, <1>5, <1>6, RowMark

LEMMA SqliteWaiting ==
  ASSUME NEW c, StoreOK(c), NEW e \in DOMAIN c.exec, NEW w, NEW d, d = RowWaiting(c, e, w)
  PROVE  StoreOK(d) /\ SameIds(c, d) /\ Moves(c, d, {e}, {})
<1>1. PICK y : y = c.exec[e]  OBVIOUS
<1>2. RowOK(c, y)  BY <1>1 DEF StoreOK, Rows
<1>3. PICK x : x = [y EXCEPT !.status = "waiting", !.wake = w]  OBVIOUS
<1>4. DOMAIN x = DOMAIN y /\ x.status = "waiting" /\ x.session = y.session /\ x.node = y.node
      /\ x.got = y.got /\ x.effects = y.effects
  BY <1>2, <1>3 DEF RowOK
<1>5. Becomes(y, x)  BY <1>2, <1>4 DEF Becomes, RowOK, Statuses
<1>6. d = Update(c, e, x)  BY <1>1, <1>3 DEF RowWaiting
<1>7. MayMove(y, x, e, {e}, {})  BY <1>4 DEF MayMove
<1>8. Writable(c, e, x, {e}, {})  BY <1>1, <1>5, <1>7 DEF Writable
<1>9. Written(c, d, e, x, {e}, {})  BY <1>6, <1>8, RowUpdate
<1> QED  BY <1>9 DEF Written

LEMMA SqliteWakes ==
  ASSUME NEW c, StoreOK(c), NEW e, NEW d, d = RowWoken(c, e)
  PROVE  Marks(c, d)
<1>7. CASE IsWaiting(c, e)
  <2>0. e \in DOMAIN c.exec  BY <1>7 DEF IsWaiting
  <2>1. PICK y : y = c.exec[e]  OBVIOUS
  <2>2. RowOK(c, y)  BY <2>0, <2>1 DEF StoreOK, Rows
  <2>3. PICK x : x = [y EXCEPT !.status = "pending"]  OBVIOUS
  <2>4. DOMAIN x = DOMAIN y /\ x.status = "pending" /\ x.session = y.session /\ x.node = y.node
        /\ x.got = y.got /\ x.effects = y.effects
    BY <2>2, <2>3 DEF RowOK
  <2>5. Becomes(y, x)  BY <2>2, <2>4 DEF Becomes, RowOK, Statuses
  <2>6. d = Update(c, e, x)  BY <1>7, <2>1, <2>3 DEF RowWoken
  <2> QED  BY <2>0, <2>1, <2>4, <2>5, <2>6, RowMark
<1>8. CASE ~IsWaiting(c, e)
  <2>1. d = c  BY <1>8 DEF RowWoken
  <2> QED  BY <2>1, NoMark
<1> QED  BY <1>7, <1>8

LEMMA RowOwes ==
  ASSUME NEW c, StoreOK(c), NEW e \in DOMAIN c.exec, NEW f, EffectsOK(f),
         NEW d, d = RowEffects(c, e, f)
  PROVE  /\ Owes(c, d, e, f) /\ DOMAIN d.exec = DOMAIN c.exec
         /\ \A g \in DOMAIN c.exec : d.exec[g].got = c.exec[g].got
<1>1. PICK y : y = c.exec[e]  OBVIOUS
<1>2. RowOK(c, y)  BY <1>1 DEF StoreOK, Rows
<1>3. PICK x : x = [y EXCEPT !.effects = f]  OBVIOUS
<1>4. DOMAIN x = DOMAIN y /\ x.status = y.status /\ x.session = y.session /\ x.node = y.node
      /\ x.got = y.got /\ x.effects = f
  BY <1>2, <1>3 DEF RowOK
<1>5. Becomes(y, x)  BY <1>2, <1>4 DEF Becomes, RowOK
<1>6. d = Update(c, e, x)  BY <1>1, <1>3 DEF RowEffects
<1>7. MayMove(y, x, e, {}, {e})  BY <1>4 DEF MayMove
<1>8. Writable(c, e, x, {}, {e})  BY <1>1, <1>5, <1>7 DEF Writable
<1>9. Written(c, d, e, x, {}, {e})  BY <1>6, <1>8, RowUpdate
<1> QED  BY <1>1, <1>4, <1>9 DEF Owes, Written

LEMMA SqliteClears ==
  ASSUME NEW c, StoreOK(c), NEW e, NEW d, d = RowEffects(c, e, NoEffects)
  PROVE  /\ StoreOK(d) /\ SameIds(c, d) /\ Moves(c, d, {}, {e})
         /\ DOMAIN d.exec = DOMAIN c.exec /\ \A f \in DOMAIN c.exec : d.exec[f].got = c.exec[f].got
<1>1. CASE e \in DOMAIN c.exec
  <2>1. /\ Owes(c, d, e, NoEffects) /\ DOMAIN d.exec = DOMAIN c.exec
        /\ \A g \in DOMAIN c.exec : d.exec[g].got = c.exec[g].got
    BY <1>1, NoEffectsOK, RowOwes
  <2> QED  BY <2>1 DEF Owes
<1>2. CASE e \notin DOMAIN c.exec
  <2>1. d = c  BY <1>2 DEF RowEffects, Update
  <2> QED  BY <2>1, MovesNot DEF SameIds
<1> QED  BY <1>1, <1>2
-----------------------------------------------------------------------------
(* Sessions, plans and commits of the SQLite store.                        *)

LEMMA SqliteCreate ==
  ASSUME NEW c, StoreOK(c), NEW s, s \notin DOMAIN c.sess, NEW key, SerialFree(c, key),
         NEW initial, NEW d, d = InsertSession(c, s, key, initial)
  PROVE  StoreOK(d) /\ Born(c, d, s)
<1>1. DOMAIN c = Fields /\ Rows(c)  BY HasFields
<1>2. PICK r : r = [status |-> "running", key |-> key, initial |-> initial, lineage |-> NoLineage]
  OBVIOUS
<1>3. DOMAIN r = {"status", "key", "initial", "lineage"} /\ r.status = "running"  BY <1>2
<1>4. PICK b : b = [c EXCEPT !.sess = With(@, s, r)]  OBVIOUS
<1>5. d = Queried(b)  BY <1>2, <1>4 DEF InsertSession
<1>6. DOMAIN b = DOMAIN c /\ b.exec = c.exec /\ b.terminal = c.terminal /\ b.sess = With(c.sess, s, r)
  BY <1>1, <1>4 DEF Fields
<1>7. /\ DOMAIN b.sess = DOMAIN c.sess \cup {s} /\ b.sess[s] = r
      /\ \A t \in DOMAIN c.sess : b.sess[t] = c.sess[t]
  BY <1>6 DEF With
<1>8. Births(c, b, s)  BY <1>3, <1>6, <1>7 DEF Births, SameRows
<1>9. Rows(b)  BY <1>1, <1>8, BirthRows
<1>10. StoreOK(d) /\ Same(b, d)  BY <1>5, <1>9, QueriedOK
<1>11. Births(c, d, s)  BY <1>8, <1>10 DEF Births, SameRows, Same
<1> QED  BY <1>1, <1>10, <1>11, BirthRows

LEMMA SqliteFinish ==
  ASSUME NEW c, StoreOK(c), NEW s \in DOMAIN c.sess, NEW st \in {"completed", "failed"},
         NEW d, d = EndSession(c, s, st)
  PROVE  Marks(c, d)
<1>1. DOMAIN c = Fields /\ Rows(c)  BY HasFields
<1>2. DOMAIN c.sess[s] = {"status", "key", "initial", "lineage"}  BY <1>1 DEF Rows, SessOK
<1>3. PICK y : y = c.sess[s]  OBVIOUS
<1>4. PICK r : r = [y EXCEPT !.status = st, !.key = ""]  OBVIOUS
<1>5. DOMAIN r = {"status", "key", "initial", "lineage"} /\ r.status = st  BY <1>2, <1>3, <1>4
<1>6. PICK b : b = [c EXCEPT !.sess[s] = r, !.terminal = Append(Others(@, s), s)]  OBVIOUS
<1>7. d = Queried(b)  BY <1>3, <1>4, <1>6 DEF EndSession
<1>8. /\ DOMAIN b = DOMAIN c /\ b.exec = c.exec /\ b.terminal = Append(Others(c.terminal, s), s)
      /\ b.sess = [c.sess EXCEPT ![s] = r]
  BY <1>1, <1>6 DEF Fields
<1>9. /\ DOMAIN b.sess = DOMAIN c.sess /\ b.sess[s] = r
      /\ \A t \in DOMAIN c.sess : t # s => b.sess[t] = c.sess[t]
  BY <1>8
<1>10. Ends(c, b, s)  BY <1>5, <1>8, <1>9 DEF Ends, SameRows
<1>11. Rows(b)  BY <1>1, <1>10, EndRows
<1>12. StoreOK(d) /\ Same(b, d)  BY <1>7, <1>11, QueriedOK
<1>13. Ends(c, d, s)  BY <1>10, <1>12 DEF Ends, SameRows, Same
<1>14. SameIds(c, d) /\ Moves(c, d, {}, {}) /\ DOMAIN d.exec = DOMAIN c.exec
  BY <1>1, <1>13, EndRows
<1> QED  BY <1>12, <1>14 DEF Marks

LEMMA SqliteDelete ==
  ASSUME NEW c, StoreOK(c), NEW s, NEW d, d = DeleteRows(c, s)
  PROVE  StoreOK(d) /\ Remains(c, d)
<1>1. DOMAIN c = Fields /\ Rows(c)  BY HasFields
<1>2. PICK gone : gone = ExecutionsOf(c, s)  OBVIOUS
<1>3. PICK edges : edges = {x \in c.edges : x[1] \notin gone}  OBVIOUS
<1>4. PICK b : b = [c EXCEPT !.sess = Without(@, {s}), !.exec = Without(@, gone),
                             !.edges = edges, !.terminal = Others(@, s)]
  OBVIOUS
<1>5. d = Queried(b)  BY <1>2, <1>3, <1>4 DEF DeleteRows
<1>6. /\ DOMAIN b = DOMAIN c /\ b.sess = Without(c.sess, {s}) /\ b.exec = Without(c.exec, gone)
      /\ b.terminal = Others(c.terminal, s)
  BY <1>1, <1>4 DEF Fields
<1>7. /\ DOMAIN b.sess = DOMAIN c.sess \ {s} /\ DOMAIN b.exec = DOMAIN c.exec \ gone
      /\ \A t \in DOMAIN b.sess : b.sess[t] = c.sess[t]
      /\ \A f \in DOMAIN b.exec : b.exec[f] = c.exec[f]
  BY <1>6 DEF Without
<1>8. Deletes(c, b, s)  BY <1>2, <1>6, <1>7 DEF Deletes
<1>9. Rows(b)  BY <1>1, <1>8, DeleteRowsOK
<1>10. StoreOK(d) /\ Same(b, d)  BY <1>5, <1>9, QueriedOK
<1> QED  BY <1>7, <1>10 DEF Remains, Same

LEMMA SqlitePut ==
  ASSUME NEW c, StoreOK(c), NEW s \in DOMAIN c.sess, NEW n \in Nat,
         ExecutionsOf(c, s) = Slots(s, n), NEW xs, NumbersFrom(xs, s, n),
         NEW d, d = InsertExecutions(c, s, xs)
  PROVE  Len(xs) \in Nat /\ StoreOK(d) /\ Grown(c, d, s, n, n + Len(xs))
<1>1. DOMAIN c = Fields /\ Rows(c)  BY HasFields
<1>2. PICK g : g = Given(s, xs)  OBVIOUS
<1>3. PICK b : b = [c EXCEPT !.exec = Over(g, @)]  OBVIOUS
<1>4. d = Queried(b)  BY <1>2, <1>3 DEF InsertExecutions
<1>5. /\ DOMAIN b = DOMAIN c /\ b.sess = c.sess /\ b.terminal = c.terminal
      /\ b.exec = Over(g, c.exec)
  BY <1>1, <1>3 DEF Fields
<1>6. Puts(c, b, s, xs)  BY <1>2, <1>5 DEF Puts
<1>7. Rows(b)  BY <1>1, <1>6, PutRows
<1>8. StoreOK(d) /\ Same(b, d)  BY <1>4, <1>7, QueriedOK
<1>9. Puts(c, d, s, xs)  BY <1>6, <1>8 DEF Puts, Same
<1> QED  BY <1>1, <1>8, <1>9, PutRows

\* Only edges change.
LEMMA EdgesAlike ==
  ASSUME NEW c, StoreOK(c), NEW edges, NEW d, d = [c EXCEPT !.edges = edges]
  PROVE  Marks(c, d)
<1>1. DOMAIN c = Fields  BY HasFields
<1>2. Alike(c, d)  BY <1>1 DEF Alike, Fields
<1> QED  BY <1>2, AlikeMarks

LEMMA MarksOn == \A b, c, d : Marks(b, c) /\ Marks(c, d) => Marks(b, d)
<1> SUFFICES ASSUME NEW b, NEW c, NEW d, Marks(b, c), Marks(c, d)  PROVE Marks(b, d)
  OBVIOUS
<1>1. Moves(b, c, {}, {}) /\ Moves(c, d, {}, {})  BY DEF Marks
<1>2. Moves(b, d, {}, {})  BY <1>1, MovesOn
<1> QED  BY <1>2 DEF Marks, SameIds

LEMMA InsertMarks == \A c, edges : StoreOK(c) => Marks(c, InsertEdges(c, edges))
<1> SUFFICES ASSUME NEW c, NEW edges, StoreOK(c)  PROVE Marks(c, InsertEdges(c, edges))
  OBVIOUS
<1>1. PICK g : g = {x \in c.edges : \A y \in edges : <<x[1], x[2]>> # <<y[1], y[2]>>} \cup edges
  OBVIOUS
<1>2. InsertEdges(c, edges) = [c EXCEPT !.edges = g]  BY <1>1 DEF InsertEdges
<1> QED  BY <1>2, EdgesAlike

LEMMA DeleteMarks == \A c, edges : StoreOK(c) => Marks(c, DeleteEdges(c, edges))
<1> SUFFICES ASSUME NEW c, NEW edges, StoreOK(c)  PROVE Marks(c, DeleteEdges(c, edges))
  OBVIOUS
<1>1. PICK g : g = c.edges \ edges  OBVIOUS
<1>2. DeleteEdges(c, edges) = [c EXCEPT !.edges = g]  BY <1>1 DEF DeleteEdges
<1> QED  BY <1>2, EdgesAlike

LEMMA AddMarks == \A c, edges : StoreOK(c) => Marks(c, AddEdges(c, edges))
<1> SUFFICES ASSUME NEW c, NEW edges, StoreOK(c)  PROVE Marks(c, AddEdges(c, edges))
  OBVIOUS
<1>1. PICK g : g = c.edges \cup edges  OBVIOUS
<1>2. AddEdges(c, edges) = [c EXCEPT !.edges = g]  BY <1>1 DEF AddEdges
<1> QED  BY <1>2, EdgesAlike

LEMMA SqliteSplice ==
  ASSUME NEW c, StoreOK(c), NEW e \in DOMAIN c.exec, NEW staged, staged # <<>>,
         StagedOK(c, e, staged), NEW d, d = SpliceRows(c, e, staged[1])
  PROVE  /\ StoreOK(d) /\ Moves(c, d, {}, {}) /\ DOMAIN d.sess = DOMAIN c.sess
<1>1. PICK st, s : st = staged[1] /\ s = c.exec[e].session  OBVIOUS
<1>2. s \in DOMAIN c.sess  BY <1>1, HasFields DEF Rows, RowOK
<1>3. PICK n \in Nat : ExecutionsOf(c, s) = Slots(s, n) /\ NumbersFrom(st.executions, s, n)
  BY <1>1 DEF StagedOK
<1>4. PICK p : p = InsertExecutions(c, s, st.executions)  OBVIOUS
<1>5. StoreOK(p) /\ Grown(c, p, s, n, n + Len(st.executions))  BY <1>2, <1>3, <1>4, SqlitePut
<1>6. PICK q : q = InsertEdges(p, st.edges)  OBVIOUS
<1>7. PICK children, first, last :
         /\ children = Children(c, e) /\ first = {<<e, t, "">> : t \in st.starts}
         /\ last = {<<st.end, x[2], x[3]>> : x \in children}
  OBVIOUS
<1>8. PICK r : r = DeleteEdges(q, children)  OBVIOUS
<1>9. PICK u : u = InsertEdges(r, first)  OBVIOUS
<1>10. d = InsertEdges(u, last)
  BY <1>1, <1>4, <1>6, <1>7, <1>8, <1>9 DEF SpliceRows
<1>11. Marks(p, q)  BY <1>5, <1>6, InsertMarks
<1>12. Marks(q, r)  BY <1>8, <1>11, DeleteMarks DEF Marks
<1>13. Marks(r, u)  BY <1>9, <1>12, InsertMarks DEF Marks
<1>14. Marks(u, d)  BY <1>10, <1>13, InsertMarks DEF Marks
<1>15. Marks(p, d)  BY <1>11, <1>12, <1>13, <1>14, MarksOn
<1>16. Moves(c, p, {}, {}) /\ Moves(p, d, {}, {})  BY <1>5, <1>15 DEF Grown, Marks
<1>17. Moves(c, d, {}, {})  BY <1>16, MovesOn
<1> QED  BY <1>5, <1>15, <1>17 DEF Marks, SameIds, Grown

LEMMA SqliteSpawn ==
  ASSUME NEW c, StoreOK(c), NEW child, ChildOK(child)
  PROVE  Spawns(c, SpawnRows(c, child), {child.session})
<1>1. PICK s : s = child.session  OBVIOUS
<1>2. CASE s \in DOMAIN c.sess
  <2>1. SpawnRows(c, child) = c  BY <1>1, <1>2 DEF SpawnRows
  <2> QED  BY <2>1, MovesNot DEF Spawns
<1>3. CASE s \notin DOMAIN c.sess
  <2>1. PICK b : b = InsertSession(c, s, "", {})  OBVIOUS
  <2>2. StoreOK(b) /\ Born(c, b, s)
    <3>1. SerialFree(c, "")  BY DEF SerialFree
    <3> QED  BY <1>3, <2>1, <3>1, SqliteCreate
  <2>3. PICK xs : xs = Sentinels(s) \o child.executions  OBVIOUS
  <2>4. NumbersFrom(xs, s, 0)  BY <1>1, <2>3, SentinelsFirst DEF ChildOK
  <2>5. PICK p : p = InsertExecutions(b, s, xs)  OBVIOUS
  <2>6. s \in DOMAIN b.sess /\ ExecutionsOf(b, s) = Slots(s, 0)
    <3>1. 0..(0 - 1) = {}  OBVIOUS
    <3> QED  BY <2>2, <3>1 DEF Born, Slots
  <2>7. Len(xs) \in Nat /\ StoreOK(p) /\ Grown(b, p, s, 0, 0 + Len(xs))
    BY <2>2, <2>4, <2>5, <2>6, SqlitePut
  <2>8. Moves(c, p, {}, {})
    <3>1. Moves(c, b, {}, {}) /\ Moves(b, p, {}, {})  BY <2>2, <2>7 DEF Born, Grown
    <3> QED  BY <3>1, MovesOn
  <2>9. DOMAIN p.sess = DOMAIN c.sess \cup {s}  BY <2>2, <2>7 DEF Born, Grown
  <2>10. \A t \in DOMAIN c.sess : ExecutionsOf(p, t) = ExecutionsOf(c, t)
    BY <1>3, <2>2, <2>7 DEF Born, Grown
  <2>11. PICK k : k = InsertEdges(p, child.edges)  OBVIOUS
  <2>12. Marks(p, k)  BY <2>7, <2>11, InsertMarks
  <2>13. PICK l : l = [k EXCEPT !.sess[s].lineage = child.lineage]  OBVIOUS
  <2>14. PICK d : d = SpawnRows(c, child)  OBVIOUS
  <2>15. d = RowCompleted(l, Head0(s), {})
    BY <1>1, <1>3, <2>1, <2>3, <2>5, <2>11, <2>13, <2>14 DEF SpawnRows, Sentinels
  <2>16. Alike(k, l)
    <3>1. DOMAIN k = Fields  BY <2>12, HasFields DEF Marks
    <3>2. PICK g : g = [k.sess EXCEPT ![s].lineage = child.lineage]  OBVIOUS
    <3>3. /\ DOMAIN g = DOMAIN k.sess
          /\ \A t \in DOMAIN k.sess : DOMAIN g[t] = DOMAIN k.sess[t] /\ g[t].status = k.sess[t].status
      <4>1. DOMAIN g = DOMAIN k.sess  BY <3>2
      <4>2. ASSUME NEW t \in DOMAIN k.sess
            PROVE  DOMAIN g[t] = DOMAIN k.sess[t] /\ g[t].status = k.sess[t].status
        <5>1. DOMAIN k.sess[t] = {"status", "key", "initial", "lineage"}
          BY <2>12, HasFields DEF Marks, Rows, SessOK
        <5>2. CASE t = s
          <6>1. g[t] = [k.sess[t] EXCEPT !.lineage = child.lineage]  BY <3>2, <5>2
          <6> QED  BY <5>1, <6>1
        <5>3. CASE t # s  BY <3>2, <5>3
        <5> QED  BY <5>2, <5>3
      <4> QED  BY <4>1, <4>2
    <3>4. /\ DOMAIN l = Fields /\ l.sess = g /\ l.exec = k.exec /\ l.terminal = k.terminal
          /\ l.running = k.running /\ l.pending = k.pending /\ l.waiting = k.waiting
          /\ l.outbox = k.outbox
      BY <2>13, <3>1, <3>2 DEF Fields
    <3> QED  BY <3>1, <3>3, <3>4 DEF Alike
  <2>17. Marks(k, l)  BY <2>12, <2>16, AlikeMarks DEF Marks
  <2>18. Marks(l, d)  BY <2>15, <2>17, SqliteCompleted DEF Marks
  <2>19. Marks(p, d)  BY <2>12, <2>17, <2>18, MarksOn
  <2>20. Moves(c, d, {}, {})
    <3>1. Moves(p, d, {}, {})  BY <2>19 DEF Marks
    <3> QED  BY <2>8, <3>1, MovesOn
  <2>21. DOMAIN d.sess = DOMAIN p.sess /\ \A t : ExecutionsOf(d, t) = ExecutionsOf(p, t)
    BY <2>19 DEF Marks, SameIds
  <2>22. Spawns(c, d, {s})  BY <2>9, <2>10, <2>19, <2>20, <2>21 DEF Spawns, Marks
  <2> QED  BY <1>1, <2>14, <2>22
<1> QED  BY <1>2, <1>3

RowSpawnDo(x, b, child) == SpawnRows(b, child)
RowSpawning == INSTANCE Loops WITH Do <- RowSpawnDo, Inv <- SpawnOK

LEMMA SqliteSpawns ==
  ASSUME NEW c, StoreOK(c), NEW spawns, NEW names, ChildrenOK(spawns, names),
         NEW d, d = ForEach(SpawnRows, c, spawns)
  PROVE  Spawns(c, d, names)
<1>1. PICK x : x = [from |-> c, names |-> names]  OBVIOUS
<1>2. x.from = c /\ x.names = names  BY <1>1
<1>3. Len(spawns) \in Nat  BY ListIs DEF ChildrenOK
<1>4. SpawnOK(x, 0, c)  BY <1>2, MovesNot DEF SpawnOK, Spawns
<1>5. ASSUME NEW i \in 1..Len(spawns), NEW b, SpawnOK(x, i - 1, b)
      PROVE  SpawnOK(x, i, RowSpawnDo(x, b, spawns[i]))
  <2>1. PICK child : child = spawns[i]  OBVIOUS
  <2>2. ChildOK(child) /\ child.session \in names  BY <2>1 DEF ChildrenOK
  <2>3. Spawns(c, b, names)  BY <1>2, <1>5 DEF SpawnOK
  <2>4. StoreOK(b)  BY <2>3 DEF Spawns
  <2>5. Spawns(b, SpawnRows(b, child), {child.session})  BY <2>2, <2>4, SqliteSpawn
  <2>6. Spawns(b, SpawnRows(b, child), names)
    <3>1. {child.session} \subseteq names  BY <2>2
    <3> QED  BY <2>5, <3>1, SpawnsWiden
  <2>7. Spawns(c, SpawnRows(b, child), names)  BY <2>3, <2>6, SpawnsOn
  <2> QED  BY <1>2, <2>1, <2>7 DEF SpawnOK, RowSpawnDo
<1>0. RowSpawning!Induction  BY NatIsAll DEF RowSpawning!Induction
<1>6. SpawnOK(x, Len(spawns), RowSpawning!Looped(x, c, spawns))
  BY <1>0, <1>3, <1>4, <1>5, RowSpawning!LoopKeeps
<1>7. ForEach(SpawnRows, c, spawns) = RowSpawning!Looped(x, c, spawns)
  BY DEF ForEach, RowSpawning!Looped, RowSpawnDo
<1> QED  BY <1>2, <1>6, <1>7 DEF SpawnOK

LEMMA SqliteCommit ==
  ASSUME NEW c, StoreOK(c), NEW e \in DOMAIN c.exec,
         NEW result, NEW got, NEW staged, StagedOK(c, e, staged), NEW effects, EffectsOK(effects),
         NEW spawns, NEW names, ChildrenOK(spawns, names),
         NEW d, d = CommitRows(c, e, result, got, staged, effects, spawns)
  PROVE  Committed(c, d, e, got, effects, names)
<1>1. PICK b : b = IF staged = <<>> THEN c ELSE SpliceRows(c, e, staged[1])  OBVIOUS
<1>2. StoreOK(b) /\ Moves(c, b, {}, {}) /\ DOMAIN b.sess = DOMAIN c.sess
  <2>1. CASE staged = <<>>
    <3>1. b = c  BY <1>1, <2>1
    <3> QED  BY <3>1, MovesNot
  <2>2. CASE staged # <<>>
    <3>1. b = SpliceRows(c, e, staged[1])  BY <1>1, <2>2
    <3> QED  BY <2>2, <3>1, SqliteSplice
  <2> QED  BY <2>1, <2>2
<1>3. PICK a : a = ForEach(SpawnRows, b, spawns)  OBVIOUS
<1>4. Spawns(b, a, names)  BY <1>2, <1>3, SqliteSpawns
<1>5. Moves(c, a, {}, {}) /\ StoreOK(a)
  <2>1. Moves(b, a, {}, {}) /\ StoreOK(a)  BY <1>4 DEF Spawns
  <2> QED  BY <1>2, <2>1, MovesOn
<1>6. e \in DOMAIN a.exec /\ a.exec[e].effects = c.exec[e].effects
  BY <1>5 DEF Moves, MovedRow
<1>7. DOMAIN a.sess \subseteq DOMAIN c.sess \cup names  BY <1>2, <1>4 DEF Spawns
<1>8. PICK o : o = IF effects = NoEffects THEN a ELSE RowEffects(a, e, effects)  OBVIOUS
<1>9. /\ StoreOK(o) /\ Moves(c, o, {}, {e}) /\ DOMAIN o.sess = DOMAIN a.sess
      /\ effects # NoEffects => o.exec[e].effects = effects
      /\ effects = NoEffects => o.exec[e].effects = c.exec[e].effects
  <2>0. Moves(c, a, {}, {e})  BY <1>5, Widen
  <2>1. CASE effects = NoEffects
    <3>1. o = a  BY <1>8, <2>1
    <3> QED  BY <1>5, <1>6, <2>0, <2>1, <3>1
  <2>2. CASE effects # NoEffects
    <3>1. o = RowEffects(a, e, effects)  BY <1>8, <2>2
    <3>2. Owes(a, o, e, effects)  BY <1>5, <1>6, <3>1, RowOwes
    <3>3. Moves(a, o, {}, {e}) /\ StoreOK(o) /\ DOMAIN o.sess = DOMAIN a.sess
          /\ o.exec[e].effects = effects
      BY <3>2 DEF Owes, SameIds
    <3>4. Moves(c, o, {}, {e})  BY <2>0, <3>3, MovesOn
    <3> QED  BY <2>2, <3>3, <3>4
  <2> QED  BY <2>1, <2>2
<1>10. PICK m : m = RowCompleted(o, e, result)  OBVIOUS
<1>11. Marks(o, m)  BY <1>9, <1>10, SqliteCompleted
<1>12. StoreOK(m) /\ Moves(o, m, {}, {}) /\ DOMAIN m.sess = DOMAIN o.sess
  BY <1>11 DEF Marks, SameIds
<1>13. Moves(c, m, {}, {e})
  <2>1. Moves(o, m, {}, {e})  BY <1>12, Widen
  <2> QED  BY <1>9, <2>1, MovesOn
<1>14. e \in DOMAIN m.exec /\ m.exec[e].effects = o.exec[e].effects
  <2>1. e \in DOMAIN o.exec  BY <1>9 DEF Moves
  <2> QED  BY <1>12, <2>1 DEF Moves, MovedRow
<1>15. d = WithGot(m, e, got)
  BY <1>1, <1>3, <1>8, <1>10 DEF CommitRows, WithGot
<1>16. /\ StoreOK(d) /\ SameIds(m, d) /\ Moves(m, d, {}, {e}) /\ DOMAIN d.exec = DOMAIN m.exec
       /\ d.exec[e].got = got /\ d.exec[e].effects = m.exec[e].effects
  <2>1. Gains(m, d, e, got)  BY <1>12, <1>14, <1>15, GotSet
  <2> QED  BY <2>1 DEF Gains
<1>17. Moves(c, d, {}, {e})  BY <1>13, <1>16, MovesOn
<1>18. DOMAIN d.sess \subseteq DOMAIN c.sess \cup names
  BY <1>7, <1>9, <1>12, <1>16 DEF SameIds
<1> QED  BY <1>9, <1>14, <1>16, <1>17, <1>18 DEF Committed
-----------------------------------------------------------------------------
(* Calls of either store.                                                  *)

LEMMA DoesMark ==
  ASSUME NEW c, StoreOK(c), NEW e \in DOMAIN c.exec, ~IsWaiting(c, e), NEW call, call[2] = e,
         call[1] \in {"mark_running", "mark_completed", "mark_failed", "mark_retrying"},
         NEW d, d = Does(c, call)
  PROVE  Marks(c, d)
<1>1. CASE world.sqlite
  <2>1. d = SqliteDoes(c, call)  BY <1>1 DEF Does
  <2>2. CASE call[1] = "mark_running"
    <3>1. d = RowRunning(c, e)  BY <2>1, <2>2 DEF SqliteDoes
    <3> QED  BY <3>1, SqliteRunning
  <2>3. CASE call[1] = "mark_completed"
    <3>1. PICK r : r = call[3]  OBVIOUS
    <3>2. d = RowCompleted(c, e, r)  BY <2>1, <2>3, <3>1 DEF SqliteDoes
    <3> QED  BY <3>2, SqliteCompleted
  <2>4. CASE call[1] = "mark_failed"
    <3>1. d = RowFailed(c, e)  BY <2>1, <2>4 DEF SqliteDoes
    <3> QED  BY <3>1, SqliteFailed
  <2>5. CASE call[1] = "mark_retrying"
    <3>1. PICK r : r = call[3]  OBVIOUS
    <3>2. d = RowRetrying(c, e, r)  BY <2>1, <2>5, <3>1 DEF SqliteDoes
    <3> QED  BY <3>2, SqliteRetrying
  <2> QED  BY <2>2, <2>3, <2>4, <2>5
<1>2. CASE ~world.sqlite
  <2>1. d = RedisDoes(c, call)  BY <1>2 DEF Does
  <2>2. CASE call[1] = "mark_running"
    <3>1. d = MarkRunning(c, e)  BY <2>1, <2>2 DEF RedisDoes
    <3> QED  BY <3>1, RedisRunning
  <2>3. CASE call[1] = "mark_completed"
    <3>1. PICK r : r = call[3]  OBVIOUS
    <3>2. d = MarkCompleted(c, e, r)  BY <2>1, <2>3, <3>1 DEF RedisDoes
    <3> QED  BY <3>2, RedisCompleted
  <2>4. CASE call[1] = "mark_failed"
    <3>1. d = MarkFailed(c, e)  BY <2>1, <2>4 DEF RedisDoes
    <3> QED  BY <3>1, RedisFailed
  <2>5. CASE call[1] = "mark_retrying"
    <3>1. PICK r : r = call[3]  OBVIOUS
    <3>2. d = MarkRetrying(c, e, r)  BY <2>1, <2>5, <3>1 DEF RedisDoes
    <3> QED  BY <3>2, RedisRetrying
  <2> QED  BY <2>2, <2>3, <2>4, <2>5
<1> QED  BY <1>1, <1>2

\* start_session completes its head, which nothing can have parked.
LEMMA DoesHead ==
  ASSUME NEW c, StoreOK(c), NEW e, ~IsWaiting(c, e),
         NEW d, d = Does(c, <<"mark_completed", e, {}>>)
  PROVE  Marks(c, d)
<1>0. PICK call : call = <<"mark_completed", e, {}>>  OBVIOUS
<1>1. call[1] = "mark_completed" /\ call[2] = e /\ call[3] = {}  BY <1>0
<1>2. CASE world.sqlite
  <2>1. d = RowCompleted(c, e, {})  BY <1>0, <1>1, <1>2 DEF Does, SqliteDoes
  <2> QED  BY <2>1, SqliteCompleted
<1>3. CASE ~world.sqlite
  <2>1. d = MarkCompleted(c, e, {})  BY <1>0, <1>1, <1>3 DEF Does, RedisDoes
  <2> QED  BY <2>1, RedisCompleted, RedisCompletedNone
<1> QED  BY <1>2, <1>3

LEMMA DoesFinish ==
  ASSUME NEW c, StoreOK(c), NEW s \in DOMAIN c.sess, NEW call, call[2] = s,
         call[1] \in {"complete_session", "fail_session"}, NEW d, d = Does(c, call)
  PROVE  Marks(c, d)
<1>1. CASE world.sqlite
  <2>1. d = SqliteDoes(c, call)  BY <1>1 DEF Does
  <2>2. \E st \in {"completed", "failed"} : d = EndSession(c, s, st)  BY <2>1 DEF SqliteDoes
  <2> QED  BY <2>2, SqliteFinish
<1>2. CASE ~world.sqlite
  <2>1. d = RedisDoes(c, call)  BY <1>2 DEF Does
  <2>2. \E st \in {"completed", "failed"} : d = FinishSession(c, s, st)  BY <2>1 DEF RedisDoes
  <2> QED  BY <2>2, RedisFinish
<1> QED  BY <1>1, <1>2

LEMMA DoesWaiting ==
  ASSUME NEW c, StoreOK(c), NEW e \in DOMAIN c.exec, NEW call, call[2] = e,
         call[1] = "mark_waiting", NEW d, d = Does(c, call)
  PROVE  StoreOK(d) /\ SameIds(c, d) /\ Moves(c, d, {e}, {})
<1>0. PICK w : w = call[3]  OBVIOUS
<1>1. CASE world.sqlite
  <2>1. d = RowWaiting(c, e, w)  BY <1>0, <1>1 DEF Does, SqliteDoes
  <2> QED  BY <2>1, SqliteWaiting
<1>2. CASE ~world.sqlite
  <2>1. d = MarkWaiting(c, e, w)  BY <1>0, <1>2 DEF Does, RedisDoes
  <2> QED  BY <2>1, RedisWaiting
<1> QED  BY <1>1, <1>2

LEMMA DoesWake ==
  ASSUME NEW c, StoreOK(c), NEW call, call[1] = "wake", NEW d, d = Does(c, call)
  PROVE  Marks(c, d)
<1>0. PICK e : e = call[2]  OBVIOUS
<1>1. CASE world.sqlite
  <2>1. d = RowWoken(c, e)  BY <1>0, <1>1 DEF Does, SqliteDoes
  <2> QED  BY <2>1, SqliteWakes
<1>2. CASE ~world.sqlite
  <2>1. d = WakeExecution(c, e)  BY <1>0, <1>2 DEF Does, RedisDoes
  <2> QED  BY <2>1, RedisWakes
<1> QED  BY <1>1, <1>2

\* The outbox row of e is cleared.
Cleared(c, d, e) ==
  /\ StoreOK(d) /\ SameIds(c, d) /\ Moves(c, d, {}, {e})
  /\ DOMAIN d.exec = DOMAIN c.exec /\ \A f \in DOMAIN c.exec : d.exec[f].got = c.exec[f].got

LEMMA DoesClear ==
  ASSUME NEW c, StoreOK(c), NEW call, call[1] = "clear", NEW d, d = Does(c, call)
  PROVE  Cleared(c, d, call[2])
<1>0. PICK e : e = call[2]  OBVIOUS
<1>1. CASE world.sqlite
  <2>1. d = RowEffects(c, e, NoEffects)  BY <1>0, <1>1 DEF Does, SqliteDoes
  <2> QED  BY <1>0, <2>1, SqliteClears DEF Cleared
<1>2. CASE ~world.sqlite
  <2>1. d = ClearEffects(c, e)  BY <1>0, <1>2 DEF Does, RedisDoes
  <2> QED  BY <1>0, <2>1, RedisClears DEF Cleared
<1> QED  BY <1>1, <1>2

LEMMA DoesCreate ==
  ASSUME NEW c, StoreOK(c), NEW s, s \notin DOMAIN c.sess, NEW key, SerialFree(c, key),
         NEW d, d = Does(c, <<"create_session", s, key>>)
  PROVE  StoreOK(d) /\ Born(c, d, s)
<1>0. PICK call : call = <<"create_session", s, key>>  OBVIOUS
<1>1. call[1] = "create_session" /\ call[2] = s /\ call[3] = key  BY <1>0
<1>2. CASE world.sqlite
  <2>1. d = InsertSession(c, s, key, {})  BY <1>0, <1>1, <1>2 DEF Does, SqliteDoes
  <2> QED  BY <2>1, SqliteCreate
<1>3. CASE ~world.sqlite
  <2>1. d = CreateSession(c, s, key, {})  BY <1>0, <1>1, <1>3 DEF Does, RedisDoes
  <2> QED  BY <2>1, RedisCreate
<1> QED  BY <1>2, <1>3

LEMMA DoesPut ==
  ASSUME NEW c, StoreOK(c), NEW s \in DOMAIN c.sess, NEW n \in Nat,
         ExecutionsOf(c, s) = Slots(s, n), NEW xs, NumbersFrom(xs, s, n),
         NEW d, d = Does(c, <<"add_executions", s, xs>>)
  PROVE  Len(xs) \in Nat /\ StoreOK(d) /\ Grown(c, d, s, n, n + Len(xs))
<1>0. PICK call : call = <<"add_executions", s, xs>>  OBVIOUS
<1>1. call[1] = "add_executions" /\ call[2] = s /\ call[3] = xs  BY <1>0
<1>2. CASE world.sqlite
  <2>1. d = InsertExecutions(c, s, xs)  BY <1>0, <1>1, <1>2 DEF Does, SqliteDoes
  <2> QED  BY <2>1, SqlitePut
<1>3. CASE ~world.sqlite
  <2>1. d = PutExecutions(c, s, xs)  BY <1>0, <1>1, <1>3 DEF Does, RedisDoes
  <2> QED  BY <2>1, RedisPut
<1> QED  BY <1>2, <1>3

LEMMA DoesEdges ==
  ASSUME NEW c, StoreOK(c), NEW edges, NEW d, d = Does(c, <<"add_edges", edges>>)
  PROVE  Marks(c, d)
<1>0. PICK call : call = <<"add_edges", edges>>  OBVIOUS
<1>1. call[1] = "add_edges" /\ call[2] = edges  BY <1>0
<1>2. CASE world.sqlite
  <2>1. d = InsertEdges(c, edges)  BY <1>0, <1>1, <1>2 DEF Does, SqliteDoes
  <2> QED  BY <2>1, InsertMarks
<1>3. CASE ~world.sqlite
  <2>1. d = AddEdges(c, edges)  BY <1>0, <1>1, <1>3 DEF Does, RedisDoes
  <2> QED  BY <2>1, AddMarks
<1> QED  BY <1>2, <1>3

LEMMA DoesDelete ==
  ASSUME NEW c, StoreOK(c), NEW s, NEW d, d = Does(c, <<"delete_session", s>>)
  PROVE  StoreOK(d) /\ Remains(c, d)
<1>0. PICK call : call = <<"delete_session", s>>  OBVIOUS
<1>1. call[1] = "delete_session" /\ call[2] = s  BY <1>0
<1>2. CASE world.sqlite
  <2>1. d = DeleteRows(c, s)  BY <1>0, <1>1, <1>2 DEF Does, SqliteDoes
  <2> QED  BY <2>1, SqliteDelete
<1>3. CASE ~world.sqlite
  <2>1. d = DeleteTerminal(c, s)  BY <1>0, <1>1, <1>3 DEF Does, RedisDoes
  <2> QED  BY <2>1, RedisDelete
<1> QED  BY <1>2, <1>3

\* A transition the store can commit: its plan continues the numbers of its
\* session, and its children are named after it.
CommitOK(c, call, names) ==
  /\ StagedOK(c, call[2], call[5]) /\ EffectsOK(call[6]) /\ ChildrenOK(call[7], names)

LEMMA DoesCommit ==
  ASSUME NEW c, StoreOK(c), NEW call, call[1] = "commit", call[2] \in DOMAIN c.exec,
         ~IsWaiting(c, call[2]), NEW names, CommitOK(c, call, names), NEW d, d = Does(c, call)
  PROVE  Committed(c, d, call[2], call[4], call[6], names)
<1>0. PICK e, result, got, staged, effects, spawns :
        /\ e = call[2] /\ result = call[3] /\ got = call[4] /\ staged = call[5]
        /\ effects = call[6] /\ spawns = call[7]
  OBVIOUS
<1>1. e \in DOMAIN c.exec /\ ~IsWaiting(c, e) /\ StagedOK(c, e, staged) /\ EffectsOK(effects)
      /\ ChildrenOK(spawns, names)
  BY <1>0 DEF CommitOK
<1>2. CASE world.sqlite
  <2>1. d = CommitRows(c, e, result, got, staged, effects, spawns)
    BY <1>0, <1>2 DEF Does, SqliteDoes
  <2>2. Committed(c, d, e, got, effects, names)  BY <1>1, <2>1, SqliteCommit
  <2> QED  BY <1>0, <2>2
<1>3. CASE ~world.sqlite
  <2>1. d = CommitTransition(c, e, result, got, staged, effects, spawns)
    BY <1>0, <1>3 DEF Does, RedisDoes
  <2>2. Committed(c, d, e, got, effects, names)  BY <1>1, <2>1, RedisCommit
  <2> QED  BY <1>0, <2>2
<1> QED  BY <1>2, <1>3

-----------------------------------------------------------------------------
(* Waking several, as the ingress thread does.                             *)

WakeDo(x, b, e) == IF x.sqlite THEN SqliteDoes(b, <<"wake", e>>) ELSE RedisDoes(b, <<"wake", e>>)
WakeOK(x, i, b) == StoreOK(b) /\ Marks(x.from, b)
Waking == INSTANCE Loops WITH Do <- WakeDo, Inv <- WakeOK

LEMMA WakesMark ==
  ASSUME NEW c, StoreOK(c), NEW q, IsList(q),
         NEW d, d = ForEach(LAMBDA b, e : Does(b, <<"wake", e>>), c, q)
  PROVE  Marks(c, d)
<1>1. PICK x : x = [from |-> c, sqlite |-> world.sqlite]  OBVIOUS
<1>2. x.from = c /\ x.sqlite = world.sqlite  BY <1>1
<1>3. Len(q) \in Nat  BY ListIs
<1>4. WakeOK(x, 0, c)  BY <1>2, NoMark DEF WakeOK
<1>5. ASSUME NEW i \in 1..Len(q), NEW b, WakeOK(x, i - 1, b)
      PROVE  WakeOK(x, i, WakeDo(x, b, q[i]))
  <2>1. PICK call : call = <<"wake", q[i]>>  OBVIOUS
  <2>2. call[1] = "wake"  BY <2>1
  <2>3. WakeDo(x, b, q[i]) = Does(b, call)  BY <1>2, <2>1 DEF WakeDo, Does
  <2>4. StoreOK(b) /\ Marks(c, b)  BY <1>2, <1>5 DEF WakeOK
  <2>5. PICK a : a = Does(b, call)  OBVIOUS
  <2>6. Marks(b, a)  BY <2>2, <2>4, <2>5, DoesWake
  <2>7. Marks(c, a) /\ StoreOK(a)  BY <2>4, <2>6, MarksOn DEF Marks
  <2> QED  BY <1>2, <2>3, <2>5, <2>7 DEF WakeOK
<1>0. Waking!Induction  BY NatIsAll DEF Waking!Induction
<1>6. WakeOK(x, Len(q), Waking!Looped(x, c, q))
  BY <1>0, <1>3, <1>4, <1>5, Waking!LoopKeeps
<1>7. d = Waking!Looped(x, c, q)
  BY <1>2 DEF ForEach, Waking!Looped, WakeDo, Does
<1> QED  BY <1>2, <1>6, <1>7 DEF WakeOK
-----------------------------------------------------------------------------
(* What is left to do can be done.                                         *)

\* Sessions are started one after the other, <<1>>, <<2>>, ..., or spawned under
\* longer names.
IsChild(s) == IsList(s) /\ Len(s) > 1
NamedIn(c, n) == \A s \in DOMAIN c.sess : IsChild(s) \/ \E k \in 1..n : s = <<k>>

\* The plans of a program: of its triggers, its actors and its nodes.
PlanOf(p) ==
  \E i \in DOMAIN Worlds :
    \/ \E k \in DOMAIN Worlds[i].triggers : p = Worlds[i].triggers[k].plan
    \/ \E k \in DOMAIN Worlds[i].actors : p = Worlds[i].actors[k]
    \/ \E n \in DOMAIN Worlds[i].nodes : \E t \in Worlds[i].nodes[n] :
         \/ \E k \in DOMAIN t.plan : p = t.plan[k]
         \/ \E k \in DOMAIN t.spawn : p = t.spawn[k].plan

\* The steps of _apply_effects: the outbox row is cleared once, and then come
\* actors and waits.
PartsOK(q) ==
  /\ IsList(q)
  /\ \E k \in 1..Len(q) : /\ q[k][1] = "clear"
                          /\ \A j \in 1..(k - 1) : q[j][1] # "clear"
                          /\ \A j \in (k + 1)..Len(q) : q[j][1] \in {"actors", "wakes"}

\* Acknowledgements come before everything else.
AcksFirst(q) ==
  \A j \in 1..Len(q) : q[j][1] = "acknowledge" => \A i \in 1..j : q[i][1] = "acknowledge"

\* Operations that only come first, and those that only come last.
Eager == {"commit", "sentinels", "stage"}
Final == {"wait", "mark_waiting", "run"}
OnExecution == {"mark_running", "mark_completed", "mark_failed", "mark_retrying", "commit"}
                 \cup Final
Calm(x) == x[1] \notin Eager \cup Final

\* What an operation needs of the store and the registered nodes at any time.
Needs(nodes, c, x) ==
  /\ x[1] \in OnExecution => x[2] \in DOMAIN c.exec /\ ~IsWaiting(c, x[2])
  /\ x[1] = "run" => c.exec[x[2]].node \in nodes
  /\ x[1] = "head" => ~IsWaiting(c, x[2])
  /\ x[1] \in {"complete_session", "fail_session"} => x[2] \in DOMAIN c.sess
  /\ x[1] = "apply" => PartsOK(x[2]) /\ AcksFirst(x[2])
  /\ x[1] = "create" => PlanOf(x[3])

\* What it needs when it is next.
FirstOK(c, x) ==
  /\ x[1] = "commit" =>
       /\ StagedOK(c, x[2], x[5]) /\ EffectsOK(x[6]) /\ IsList(x[7])
       /\ \A i \in 1..Len(x[7]) : ChildOK(x[7][i]) /\ IsChild(x[7][i].session)
       /\ x[4] # {} => \E conversation : x[6] = Drained(conversation, x[4])
  /\ x[1] = "sentinels" => x[2] \in DOMAIN c.sess /\ ExecutionsOf(c, x[2]) = Slots(x[2], 0)
  /\ x[1] = "stage" =>
       x[2] \in DOMAIN c.sess /\ ExecutionsOf(c, x[2]) = Slots(x[2], 2) /\ PlanOf(x[3])

AllCalm(nodes, c, q) == IsList(q) /\ \A x \in Items(q) : Calm(x) /\ Needs(nodes, c, x)

\* What follows the operation x: the effects of a commit that merged mail come next.
Heeds(x, q) ==
  x[1] = "commit" /\ x[4] # {} => q # <<>> /\ q[1] = <<"apply", EffectSteps(x[2], x[6])>>
Plainly(nodes, c, x, q) ==
  x[1] \notin Final \cup {"sentinels"} /\ AllCalm(nodes, c, q) /\ Heeds(x, q)
Follows(nodes, c, x, q) ==
  \/ Plainly(nodes, c, x, q)
  \/ x[1] \in Final /\ q = <<>>
  \/ /\ x[1] = "sentinels"
     /\ IsList(q) /\ q # <<>> /\ q[1][1] = "stage" /\ q[1][2] = x[2] /\ PlanOf(q[1][3])
     /\ AllCalm(nodes, c, Tail(q))
  \/ /\ x[1] = "mark_running"
     /\ IsList(q) /\ q # <<>> /\ q[1][1] = "run" /\ Needs(nodes, c, q[1]) /\ Tail(q) = <<>>

\* No effects are applied, nothing is committed, or no mail with it.
NoApply(q) == IsList(q) /\ \A x \in Items(q) : x[1] # "apply"
NoCommit(q) == q = <<>> \/ q[1][1] # "commit"
Unmerged(q) == q # <<>> /\ q[1][1] = "commit" => q[1][4] = {}

TodoOK(nodes, c, q) ==
  q # <<>> => /\ IsList(q) /\ Needs(nodes, c, q[1]) /\ FirstOK(c, q[1])
              /\ Follows(nodes, c, q[1], Tail(q))
-----------------------------------------------------------------------------
LEMMA NilFirst ==
  ASSUME NEW q, IsList(q)
  PROVE  <<>> \o q = q
<1>1. PICK T : q \in Seq(T)  BY DEF IsList
<1>2. <<>> \in Seq(T)  OBVIOUS
<1> QED  BY <1>1, ConcatEmptySeq

LEMMA NilOnly ==
  ASSUME NEW q, IsList(q), Len(q) = 0
  PROVE  q = <<>>
<1>1. PICK T : q \in Seq(T)  BY DEF IsList
<1> QED  BY <1>1

LEMMA Joined ==
  ASSUME NEW p, IsList(p), p # <<>>, NEW q, IsList(q), NEW r, r = p \o q
  PROVE  IsList(r) /\ r # <<>> /\ Head(r) = p[1] /\ r[1] = p[1] /\ Tail(r) = Tail(p) \o q
<1>1. PICK m, n : m = Len(p) /\ n = Len(q)  OBVIOUS
<1>2. m \in Nat \ {0} /\ n \in Nat  BY <1>1, TailList, ListIs
<1>30. IsList(p \o q) /\ Len(p \o q) = Len(p) + Len(q)  BY Cat
<1>31. \A i \in 1..Len(p) : (p \o q)[i] = p[i]  BY Cat
<1>32. \A i \in 1..Len(q) : (p \o q)[Len(p) + i] = q[i]  BY Cat
<1>3. IsList(r) /\ Len(r) = m + n /\ (\A i \in 1..m : r[i] = p[i]) /\ \A i \in 1..n : r[m + i] = q[i]
  BY <1>1, <1>30, <1>31, <1>32
<1>4. r # <<>>
  <2>1. Len(r) # 0  BY <1>2, <1>3
  <2> QED  BY <2>1, NilList
<1>5. r[1] = p[1] /\ Head(r) = p[1]
  <2>1. 1 \in 1..m  BY <1>2
  <2>2. Head(r) = r[1]  BY <1>3, <1>4, TailList
  <2> QED  BY <1>3, <2>1, <2>2
<1>6. PICK t, u : t = Tail(r) /\ u = Tail(p)  OBVIOUS
<1>7. IsList(t) /\ Len(t) = m + n - 1 /\ \A i \in 1..(m + n - 1) : t[i] = r[i + 1]
  <2>1. IsList(t) /\ Len(t) = Len(r) - 1  BY <1>3, <1>4, <1>6, TailList
  <2>2. \A i \in 1..Len(t) : t[i] = r[i + 1]  BY <1>3, <1>4, <1>6, TailList
  <2>3. Len(t) = m + n - 1  BY <1>2, <1>3, <2>1
  <2> QED  BY <2>1, <2>2, <2>3
<1>8. IsList(u) /\ Len(u) = m - 1 /\ \A i \in 1..(m - 1) : u[i] = p[i + 1]
  BY <1>1, <1>6, TailList
<1>9. PICK v : v = u \o q  OBVIOUS
<1>100. IsList(u \o q) /\ Len(u \o q) = Len(u) + Len(q)  BY <1>8, Cat
<1>101. \A i \in 1..Len(u) : (u \o q)[i] = u[i]  BY <1>8, Cat
<1>102. \A i \in 1..Len(q) : (u \o q)[Len(u) + i] = q[i]  BY <1>8, Cat
<1>10. /\ IsList(v) /\ Len(v) = (m - 1) + n /\ \A i \in 1..(m - 1) : v[i] = u[i]
       /\ \A i \in 1..n : v[(m - 1) + i] = q[i]
  BY <1>1, <1>8, <1>9, <1>100, <1>101, <1>102
<1>11. ASSUME NEW i \in 1..(m + n - 1)  PROVE t[i] = v[i]
  <2>1. CASE i \in 1..(m - 1)
    <3>1. t[i] = r[i + 1] /\ v[i] = p[i + 1]  BY <1>7, <1>8, <1>10, <2>1
    <3>2. i + 1 \in 1..m  BY <1>2, <2>1
    <3> QED  BY <1>3, <3>1, <3>2
  <2>2. CASE i \notin 1..(m - 1)
    <3>1. i - (m - 1) \in 1..n  BY <1>2, <2>2
    <3>2. PICK j : j = i - (m - 1)  OBVIOUS
    <3>3. j \in 1..n /\ i = (m - 1) + j /\ i + 1 = m + j  BY <1>2, <3>1, <3>2
    <3>4. v[i] = q[j]  BY <1>10, <3>3
    <3>5. t[i] = r[m + j]  BY <1>7, <3>3
    <3> QED  BY <1>3, <3>3, <3>4, <3>5
  <2> QED  BY <2>1, <2>2
<1>12. t = v
  <2>1. Len(t) = m + n - 1 /\ Len(v) = m + n - 1  BY <1>2, <1>7, <1>10
  <2>2. t = [i \in 1..(m + n - 1) |-> t[i]]  BY <1>7, <2>1, ListIs
  <2>3. v = [i \in 1..(m + n - 1) |-> v[i]]  BY <1>10, <2>1, ListIs
  <2> QED  BY <1>11, <2>2, <2>3
<1> QED  BY <1>3, <1>4, <1>5, <1>6, <1>9, <1>12

LEMMA Pushed ==
  ASSUME NEW x, NEW q, IsList(q), NEW r, r = <<x>> \o q
  PROVE  IsList(r) /\ r # <<>> /\ Head(r) = x /\ r[1] = x /\ Tail(r) = q
<1>1. PICK p : p = <<x>>  OBVIOUS
<1>2. IsList(p) /\ p # <<>> /\ p[1] = x /\ Len(p) = 1  BY <1>1, OneList
<1>3. Tail(p) = <<>>
  <2>1. IsList(Tail(p)) /\ Len(Tail(p)) = 0  BY <1>2, TailList
  <2> QED  BY <2>1, NilOnly
<1>4. IsList(r) /\ r # <<>> /\ Head(r) = p[1] /\ r[1] = p[1] /\ Tail(r) = Tail(p) \o q
  BY <1>1, <1>2, Joined
<1> QED  BY <1>2, <1>3, <1>4, NilFirst
-----------------------------------------------------------------------------
LEMMA CalmCat ==
  ASSUME NEW nodes, NEW c, NEW p, AllCalm(nodes, c, p), NEW q, AllCalm(nodes, c, q)
  PROVE  AllCalm(nodes, c, p \o q)
<1>1. IsList(p) /\ IsList(q)  BY DEF AllCalm
<1>2. IsList(p \o q) /\ Items(p \o q) = Items(p) \cup Items(q)  BY <1>1, Cat
<1> QED  BY <1>2 DEF AllCalm

LEMMA CalmNone == \A nodes, c : AllCalm(nodes, c, <<>>)  BY NilList DEF AllCalm

LEMMA CalmOne ==
  ASSUME NEW nodes, NEW c, NEW x, Calm(x), Needs(nodes, c, x)
  PROVE  AllCalm(nodes, c, <<x>>)
BY OneList DEF AllCalm

LEMMA CalmTwo ==
  ASSUME NEW nodes, NEW c, NEW x, Calm(x), Needs(nodes, c, x), NEW y, Calm(y), Needs(nodes, c, y)
  PROVE  AllCalm(nodes, c, <<x, y>>)
BY TwoList DEF AllCalm

LEMMA CalmTail ==
  ASSUME NEW nodes, NEW c, NEW q, AllCalm(nodes, c, q), q # <<>>
  PROVE  AllCalm(nodes, c, Tail(q)) /\ Calm(q[1]) /\ Needs(nodes, c, q[1])
BY TailList DEF AllCalm

LEMMA CalmTodo ==
  ASSUME NEW nodes, NEW c, NEW q, AllCalm(nodes, c, q)
  PROVE  TodoOK(nodes, c, q)
<1> SUFFICES ASSUME q # <<>>
             PROVE  /\ IsList(q) /\ Needs(nodes, c, q[1]) /\ FirstOK(c, q[1])
                    /\ Follows(nodes, c, q[1], Tail(q))
  BY DEF TodoOK
<1>1. AllCalm(nodes, c, Tail(q)) /\ Calm(q[1]) /\ Needs(nodes, c, q[1])  BY CalmTail
<1>2. FirstOK(c, q[1])  BY <1>1 DEF FirstOK, Calm, Eager
<1>3. Plainly(nodes, c, q[1], Tail(q))  BY <1>1 DEF Plainly, Calm, Eager, Heeds
<1> QED  BY <1>1, <1>2, <1>3 DEF Follows, AllCalm

LEMMA CalmUnmerged == \A nodes, c, q : AllCalm(nodes, c, q) => Unmerged(q)
BY CalmTail DEF Unmerged, Calm, Eager

\* One operation, and calm ones after it.
LEMMA AheadTodo ==
  ASSUME NEW nodes, NEW c, NEW x, Needs(nodes, c, x), FirstOK(c, x),
         x[1] \notin Final \cup {"sentinels"}, NEW q, AllCalm(nodes, c, q), Heeds(x, q)
  PROVE  TodoOK(nodes, c, <<x>> \o q)
<1>1. PICK r : r = <<x>> \o q  OBVIOUS
<1>2. IsList(q)  BY DEF AllCalm
<1>3. IsList(r) /\ r[1] = x /\ Tail(r) = q  BY <1>1, <1>2, Pushed
<1>4. Plainly(nodes, c, x, q)  BY DEF Plainly
<1> QED  BY <1>1, <1>3, <1>4 DEF TodoOK, Follows

LEMMA ExtendTodo ==
  ASSUME NEW nodes, NEW c, NEW p, TodoOK(nodes, c, p), p # <<>>,
         p[1][1] \notin Final \cup {"sentinels", "mark_running"}, NEW q, AllCalm(nodes, c, q)
  PROVE  TodoOK(nodes, c, p \o q)
<1>1. /\ IsList(p) /\ Needs(nodes, c, p[1]) /\ FirstOK(c, p[1])
      /\ Follows(nodes, c, p[1], Tail(p))
  BY DEF TodoOK
<1>2. AllCalm(nodes, c, Tail(p)) /\ Heeds(p[1], Tail(p))  BY <1>1 DEF Follows, Plainly
<1>3. PICK r : r = p \o q  OBVIOUS
<1>4. IsList(q)  BY DEF AllCalm
<1>5. IsList(r) /\ r[1] = p[1] /\ Tail(r) = Tail(p) \o q  BY <1>1, <1>3, <1>4, Joined
<1>6. AllCalm(nodes, c, Tail(r))  BY <1>2, <1>5, CalmCat
<1>8. Heeds(r[1], Tail(r))
  <2>1. SUFFICES ASSUME r[1][1] = "commit", r[1][4] # {}
                 PROVE  Tail(r) # <<>> /\ Tail(r)[1] = <<"apply", EffectSteps(r[1][2], r[1][6])>>
    BY DEF Heeds
  <2>2. PICK t, u : t = Tail(p) /\ u = Tail(r)  OBVIOUS
  <2>3. t # <<>> /\ t[1] = <<"apply", EffectSteps(r[1][2], r[1][6])>>
    BY <1>2, <1>5, <2>1, <2>2 DEF Heeds
  <2>4. IsList(t)  BY <1>2, <2>2 DEF AllCalm
  <2>5. u = t \o q  BY <1>5, <2>2
  <2>6. u # <<>> /\ u[1] = t[1]  BY <1>4, <2>3, <2>4, <2>5, Joined
  <2> QED  BY <2>2, <2>3, <2>6
<1>7. Plainly(nodes, c, r[1], Tail(r))  BY <1>5, <1>6, <1>8 DEF Plainly
<1> QED  BY <1>1, <1>3, <1>5, <1>7 DEF TodoOK, Follows

LEMMA NilTodo == \A nodes, c : TodoOK(nodes, c, <<>>)  BY DEF TodoOK
-----------------------------------------------------------------------------
\* The store goes on without parking anything.
LEMMA NeedsOn ==
  ASSUME NEW nodes, NEW c, NEW d, NEW M, Moves(c, d, {}, M), NEW x, Needs(nodes, c, x)
  PROVE  Needs(nodes, d, x)
<1>1. \A e : IsWaiting(d, e) => IsWaiting(c, e)
  BY DEF Moves, MovedRow, IsWaiting
<1>2. \A e \in DOMAIN c.exec : e \in DOMAIN d.exec /\ d.exec[e].node = c.exec[e].node
  BY DEF Moves, MovedRow
<1>3. x[1] \in OnExecution => x[2] \in DOMAIN d.exec /\ ~IsWaiting(d, x[2])
  BY <1>1, <1>2 DEF Needs
<1>4. x[1] = "run" => d.exec[x[2]].node \in nodes
  BY <1>2 DEF Needs, OnExecution, Final
<1>5. x[1] = "head" => ~IsWaiting(d, x[2])  BY <1>1 DEF Needs
<1>6. x[1] \in {"complete_session", "fail_session"} => x[2] \in DOMAIN d.sess
  BY DEF Needs, Moves
<1>7. x[1] = "apply" => PartsOK(x[2]) /\ AcksFirst(x[2])  BY DEF Needs
<1>8. x[1] = "create" => PlanOf(x[3])  BY DEF Needs
<1> QED  BY <1>3, <1>4, <1>5, <1>6, <1>7, <1>8 DEF Needs

LEMMA CalmOn ==
  ASSUME NEW nodes, NEW c, NEW d, NEW M, Moves(c, d, {}, M), NEW q, AllCalm(nodes, c, q)
  PROVE  AllCalm(nodes, d, q)
BY NeedsOn DEF AllCalm

\* The first operation is done.
LEMMA DoneTodo ==
  ASSUME NEW nodes, NEW c, NEW d, NEW M, Moves(c, d, {}, M), NEW q, TodoOK(nodes, c, q),
         q # <<>>, q[1][1] # "sentinels"
  PROVE  TodoOK(nodes, d, Tail(q))
<1>1. IsList(q) /\ Follows(nodes, c, q[1], Tail(q))  BY DEF TodoOK
<1>2. PICK t : t = Tail(q)  OBVIOUS
<1>3. CASE AllCalm(nodes, c, t)
  <2>1. AllCalm(nodes, d, t)  BY <1>3, CalmOn
  <2> QED  BY <1>2, <2>1, CalmTodo
<1>4. CASE t = <<>>  BY <1>2, <1>4, NilTodo
<1>5. CASE IsList(t) /\ t # <<>> /\ t[1][1] = "run" /\ Needs(nodes, c, t[1]) /\ Tail(t) = <<>>
  <2>1. Needs(nodes, d, t[1])  BY <1>5, NeedsOn
  <2>2. FirstOK(d, t[1])  BY <1>5 DEF FirstOK
  <2>3. Follows(nodes, d, t[1], Tail(t))  BY <1>5 DEF Follows, Final
  <2> QED  BY <1>2, <1>5, <2>1, <2>2, <2>3 DEF TodoOK
<1> QED  BY <1>1, <1>2, <1>3, <1>4, <1>5 DEF Follows, Plainly

\* What follows an operation that is neither of the first nor of the last.
LEMMA RestCalm ==
  ASSUME NEW nodes, NEW c, NEW d, NEW M, Moves(c, d, {}, M), NEW q, TodoOK(nodes, c, q),
         q # <<>>, q[1][1] \notin {"sentinels", "mark_running"}
  PROVE  AllCalm(nodes, d, Tail(q)) /\ (q[1][1] \in Final => Tail(q) = <<>>)
<1>1. IsList(q) /\ Follows(nodes, c, q[1], Tail(q))  BY DEF TodoOK
<1>2. CASE AllCalm(nodes, c, Tail(q)) /\ q[1][1] \notin Final  BY <1>2, CalmOn
<1>3. CASE Tail(q) = <<>>  BY <1>3, CalmNone
<1> QED  BY <1>1, <1>2, <1>3 DEF Follows, Plainly

\* Nothing of it was done, but others went on.
LEMMA SameTodo ==
  ASSUME NEW nodes, NEW c, NEW d, SameIds(c, d), Moves(c, d, {}, {}), NEW q,
         TodoOK(nodes, c, q)
  PROVE  TodoOK(nodes, d, q)
<1> SUFFICES ASSUME q # <<>>
             PROVE  /\ IsList(q) /\ Needs(nodes, d, q[1]) /\ FirstOK(d, q[1])
                    /\ Follows(nodes, d, q[1], Tail(q))
  BY DEF TodoOK
<1>1. /\ IsList(q) /\ Needs(nodes, c, q[1]) /\ FirstOK(c, q[1])
      /\ Follows(nodes, c, q[1], Tail(q))
  BY DEF TodoOK
<1>2. Needs(nodes, d, q[1])  BY <1>1, NeedsOn
<1>3. FirstOK(d, q[1])
  <2>1. PICK x : x = q[1] /\ FirstOK(c, x) /\ Needs(nodes, c, x)  BY <1>1
  <2>2. CASE x[1] = "commit"
    <3>1. x[2] \in DOMAIN c.exec  BY <2>1, <2>2 DEF Needs, OnExecution
    <3>2. d.exec[x[2]].session = c.exec[x[2]].session  BY <3>1 DEF Moves, MovedRow
    <3>3. StagedOK(c, x[2], x[5])  BY <2>1, <2>2 DEF FirstOK
    <3>4. StagedOK(d, x[2], x[5])  BY <3>2, <3>3 DEF StagedOK, SameIds
    <3> QED  BY <2>1, <2>2, <3>4 DEF FirstOK
  <2>3. CASE x[1] # "commit"  BY <2>1, <2>3 DEF FirstOK, SameIds
  <2> QED  BY <2>1, <2>2, <2>3
<1>4. Follows(nodes, d, q[1], Tail(q))
  <2>1. PICK x, t : x = q[1] /\ t = Tail(q) /\ Follows(nodes, c, x, t)  BY <1>1
  <2>2. CASE Plainly(nodes, c, x, t)
    <3>1. AllCalm(nodes, d, t)  BY <2>2, CalmOn DEF Plainly
    <3> QED  BY <2>1, <2>2, <3>1 DEF Plainly, Follows
  <2>3. CASE x[1] \in Final /\ t = <<>>  BY <2>1, <2>3 DEF Follows
  <2>4. CASE x[1] = "sentinels" /\ IsList(t) /\ t # <<>> /\ t[1][1] = "stage" /\ t[1][2] = x[2]
             /\ PlanOf(t[1][3]) /\ AllCalm(nodes, c, Tail(t))
    <3>1. AllCalm(nodes, d, Tail(t))  BY <2>4, CalmOn
    <3> QED  BY <2>1, <2>4, <3>1 DEF Follows
  <2>5. CASE x[1] = "mark_running" /\ IsList(t) /\ t # <<>> /\ t[1][1] = "run"
             /\ Needs(nodes, c, t[1]) /\ Tail(t) = <<>>
    <3>1. Needs(nodes, d, t[1])  BY <2>5, NeedsOn
    <3> QED  BY <2>1, <2>5, <3>1 DEF Follows
  <2> QED  BY <2>1, <2>2, <2>3, <2>4, <2>5 DEF Follows
<1> QED  BY <1>1, <1>2, <1>3, <1>4
-----------------------------------------------------------------------------
(* The steps that apply the effects of a commit.                           *)

LEMMA ImageFinite ==
  ASSUME NEW S, IsFiniteSet(S), NEW f, DOMAIN f = S, NEW T, T = {f[x] : x \in S}
  PROVE  IsFiniteSet(T)
<1>1. PICK g : g = [x \in S |-> f[x]]  OBVIOUS
<1>2. g \in Surjection(S, T)  BY <1>1 DEF Surjection
<1> QED  BY <1>2, FS_Surjection

AckOf(a) == <<"acknowledge", a.conversation, a.ids>>

LEMMA AcksList ==
  ASSUME NEW S, IsFiniteSet(S), NEW q,
         q = SetToSeq({<<"acknowledge", a.conversation, a.ids>> : a \in S})
  PROVE  IsList(q) /\ Items(q) = {AckOf(a) : a \in S}
<1>1. PICK f : f = [a \in S |-> AckOf(a)]  OBVIOUS
<1>2. PICK T : T = {f[a] : a \in S}  OBVIOUS
<1>3. DOMAIN f = S /\ T = {AckOf(a) : a \in S}  BY <1>1, <1>2
<1>4. IsFiniteSet(T)  BY <1>2, <1>3, ImageFinite
<1>5. q = SetToSeq(T)  BY <1>3 DEF AckOf
<1> QED  BY <1>3, <1>4, <1>5, ListOfSet

LEMMA TwiceList ==
  ASSUME NEW letters, IsList(letters), NEW q, q = Twice(letters, "publish", "observe")
  PROVE  IsList(q) /\ \A x \in Items(q) : x[1] \in {"publish", "observe"}
<1>1. PICK n : n = Len(letters) /\ n \in Nat  BY ListIs
<1>2. PICK m : m = 2 * n /\ m \in Nat  BY <1>1
<1>3. q = [k \in 1..m |-> <<IF k % 2 = 1 THEN "publish" ELSE "observe", letters[(k + 1) \div 2]>>]
  BY <1>1, <1>2 DEF Twice
<1>4. q = [k \in 1..m |-> q[k]]  BY <1>3
<1>5. IsList(q) /\ Len(q) = m  BY <1>2, <1>4, ListOf
<1>6. ASSUME NEW k \in 1..m  PROVE q[k][1] \in {"publish", "observe"}
  <2>1. q[k] = <<IF k % 2 = 1 THEN "publish" ELSE "observe", letters[(k + 1) \div 2]>>  BY <1>3
  <2>2. q[k][1] = IF k % 2 = 1 THEN "publish" ELSE "observe"  BY <2>1
  <2> QED  BY <2>2
<1> QED  BY <1>5, <1>6 DEF Items

LEMMA ArmsList ==
  ASSUME NEW arms, IsList(arms), NEW q, q = [i \in DOMAIN arms |-> <<"arm", arms[i]>>]
  PROVE  IsList(q) /\ \A x \in Items(q) : x[1] = "arm"
<1>1. PICK n : n = Len(arms) /\ n \in Nat /\ DOMAIN arms = 1..n  BY ListIs
<1>2. q = [k \in 1..n |-> q[k]]  BY <1>1
<1>3. IsList(q) /\ Len(q) = n  BY <1>1, <1>2, ListOf
<1> QED  BY <1>1, <1>3 DEF Items

LEMMA AcksOn ==
  ASSUME NEW p, IsList(p), AcksFirst(p), NEW q, IsList(q),
         \A x \in Items(q) : x[1] # "acknowledge"
  PROVE  AcksFirst(p \o q)
<1>1. PICK m, n, r : m = Len(p) /\ n = Len(q) /\ r = p \o q  OBVIOUS
<1>2. m \in Nat /\ n \in Nat  BY <1>1, ListIs
<1>3. IsList(p \o q) /\ Len(p \o q) = Len(p) + Len(q)  BY Cat
<1>4. \A i \in 1..Len(p) : (p \o q)[i] = p[i]  BY Cat
<1>5. \A i \in 1..Len(q) : (p \o q)[Len(p) + i] = q[i]  BY Cat
<1>6. Len(r) = m + n /\ (\A i \in 1..m : r[i] = p[i]) /\ \A i \in 1..n : r[m + i] = q[i]
  BY <1>1, <1>3, <1>4, <1>5
<1>7. ASSUME NEW j \in 1..(m + n), r[j][1] = "acknowledge", NEW i \in 1..j
      PROVE  r[i][1] = "acknowledge"
  <2>1. CASE j \in 1..m
    <3>1. i \in 1..m  BY <1>2, <2>1
    <3>2. r[i] = p[i] /\ r[j] = p[j]  BY <1>6, <2>1, <3>1
    <3> QED  BY <1>1, <1>7, <2>1, <3>1, <3>2 DEF AcksFirst
  <2>2. CASE j \notin 1..m
    <3>1. PICK k : k = j - m  OBVIOUS
    <3>2. k \in 1..n /\ j = m + k  BY <1>2, <2>2, <3>1
    <3>3. q[k][1] # "acknowledge"  BY <1>1, <3>2 DEF Items
    <3> QED  BY <1>6, <1>7, <3>2, <3>3
  <2> QED  BY <2>1, <2>2
<1> QED  BY <1>1, <1>6, <1>7 DEF AcksFirst

\* A list that clears e, after what does not and before actors and waits.
LEMMA PartsAre ==
  ASSUME NEW p, IsList(p), \A x \in Items(p) : x[1] # "clear", NEW e, NEW y, y[1] # "clear",
         NEW q, IsList(q), \A x \in Items(q) : x[1] \in {"actors", "wakes"},
         NEW r, r = (p \o <<y, <<"clear", e>>>>) \o q
  PROVE  PartsOK(r)
<1>1. PICK z, c : c = <<"clear", e>> /\ z = <<y, c>>  OBVIOUS
<1>2. IsList(z) /\ Len(z) = 2 /\ z[1] = y /\ z[2] = c /\ c[1] = "clear"  BY <1>1, TwoList
<1>3. PICK a : a = p \o z  OBVIOUS
<1>4. r = a \o q  BY <1>1, <1>3
<1>5. PICK m, n : m = Len(p) /\ n = Len(q)  OBVIOUS
<1>6. m \in Nat /\ n \in Nat  BY <1>5, ListIs
<1>7. IsList(a) /\ Len(a) = m + 2 /\ (\A i \in 1..m : a[i] = p[i]) /\ a[m + 1] = y /\ a[m + 2] = c
  <2>0. IsList(p) /\ IsList(z)  BY <1>2
  <2>1. IsList(p \o z) /\ Len(p \o z) = Len(p) + Len(z)  BY <2>0, Cat
  <2>2. \A i \in 1..Len(p) : (p \o z)[i] = p[i]  BY <2>0, Cat
  <2>3. \A i \in 1..Len(z) : (p \o z)[Len(p) + i] = z[i]  BY <2>0, Cat
  <2>4. 1 \in 1..2 /\ 2 \in 1..2  OBVIOUS
  <2> QED  BY <1>2, <1>3, <1>5, <2>1, <2>2, <2>3, <2>4
<1>8. IsList(r) /\ Len(r) = m + 2 + n /\ (\A i \in 1..(m + 2) : r[i] = a[i])
      /\ \A i \in 1..n : r[m + 2 + i] = q[i]
  <2>1. IsList(a \o q) /\ Len(a \o q) = Len(a) + Len(q)  BY <1>7, Cat
  <2>2. \A i \in 1..Len(a) : (a \o q)[i] = a[i]  BY <1>7, Cat
  <2>3. \A i \in 1..Len(q) : (a \o q)[Len(a) + i] = q[i]  BY <1>7, Cat
  <2> QED  BY <1>4, <1>5, <1>7, <2>1, <2>2, <2>3
<1>9. PICK k : k = m + 2  OBVIOUS
<1>10. k \in 1..Len(r) /\ r[k][1] = "clear"
  <2>1. k \in 1..(m + 2 + n) /\ k \in 1..(m + 2)  BY <1>6, <1>9
  <2>2. r[k] = c  BY <1>7, <1>8, <1>9, <2>1
  <2> QED  BY <1>2, <1>8, <2>1, <2>2
<1>11. ASSUME NEW j \in 1..(k - 1)  PROVE r[j][1] # "clear"
  <2>1. j \in 1..(m + 1) /\ j \in 1..(m + 2)  BY <1>6, <1>9
  <2>2. r[j] = a[j]  BY <1>8, <2>1
  <2>3. CASE j = m + 1  BY <1>7, <2>2, <2>3
  <2>4. CASE j # m + 1
    <3>1. j \in 1..m  BY <1>6, <2>1, <2>4
    <3>2. p[j][1] # "clear"  BY <1>5, <3>1 DEF Items
    <3> QED  BY <1>7, <2>2, <3>1, <3>2
  <2> QED  BY <2>3, <2>4
<1>12. ASSUME NEW j \in (k + 1)..Len(r)  PROVE r[j][1] \in {"actors", "wakes"}
  <2>1. PICK i : i = j - (m + 2)  OBVIOUS
  <2>2. i \in 1..n /\ j = m + 2 + i  BY <1>6, <1>8, <1>9, <2>1
  <2>3. q[i][1] \in {"actors", "wakes"}  BY <1>5, <2>2 DEF Items
  <2> QED  BY <1>8, <2>2, <2>3
<1> QED  BY <1>8, <1>10, <1>11, <1>12 DEF PartsOK

\* What the steps for the effects f of e are.
StepsOK(q, e, f) ==
  /\ PartsOK(q) /\ AcksFirst(q)
  /\ \A x \in Items(q) : x[1] = "clear" => x = <<"clear", e>>
  /\ <<"clear", e>> \in Items(q) /\ \A a \in f.acknowledge : AckOf(a) \in Items(q)

LEMMA EffectStepsAre ==
  ASSUME NEW e, NEW f, EffectsOK(f), NEW q, q = EffectSteps(e, f)
  PROVE  StepsOK(q, e, f)
<1>1. PICK S : S = f.acknowledge /\ IsFiniteSet(S)  BY DEF EffectsOK
<1>2. PICK A : A = SetToSeq({<<"acknowledge", a.conversation, a.ids>> : a \in S})  OBVIOUS
<1>3. IsList(A) /\ Items(A) = {AckOf(a) : a \in S}  BY <1>1, <1>2, AcksList
<1>4. PICK T : T = Twice(f.publish, "publish", "observe")  OBVIOUS
<1>5. IsList(f.publish) /\ IsList(f.arm)  BY DEF EffectsOK
<1>6. IsList(T) /\ \A x \in Items(T) : x[1] \in {"publish", "observe"}  BY <1>4, <1>5, TwiceList
<1>7. PICK R : R = [i \in DOMAIN f.arm |-> <<"arm", f.arm[i]>>]  OBVIOUS
<1>8. IsList(R) /\ \A x \in Items(R) : x[1] = "arm"  BY <1>5, <1>7, ArmsList
<1>9. PICK y, c : y = <<"disarm", f.disarm>> /\ c = <<"clear", e>>  OBVIOUS
<1>10. y[1] = "disarm" /\ c[1] = "clear"  BY <1>9
<1>11. PICK L : L = IF f.publish # <<>> THEN <<<<"actors">>, <<"wakes">>>> ELSE <<>>  OBVIOUS
<1>12. IsList(L) /\ \A x \in Items(L) : x[1] \in {"actors", "wakes"}
  <2>1. CASE L = <<>>  BY <2>1, NilList
  <2>2. CASE L = <<<<"actors">>, <<"wakes">>>>
    <3>1. PICK a, w : a = <<"actors">> /\ w = <<"wakes">>  OBVIOUS
    <3>2. a[1] = "actors" /\ w[1] = "wakes"  BY <3>1
    <3>3. L = <<a, w>>  BY <2>2, <3>1
    <3>4. IsList(L) /\ Items(L) = {a, w}  BY <3>3, TwoList
    <3> QED  BY <3>2, <3>4
  <2> QED  BY <1>11, <2>1, <2>2
<1>13. q = ((((A \o T) \o R) \o <<y, c>>) \o L)
  BY <1>1, <1>2, <1>4, <1>7, <1>9, <1>11 DEF EffectSteps
<1>14. PICK P, Q : P = A \o T /\ Q = P \o R  OBVIOUS
<1>15. IsList(P) /\ Items(P) = Items(A) \cup Items(T)  BY <1>3, <1>6, <1>14, Cat
<1>16. IsList(Q) /\ Items(Q) = Items(P) \cup Items(R)  BY <1>8, <1>14, <1>15, Cat
<1>17. \A a : AckOf(a)[1] = "acknowledge"  BY DEF AckOf
<1>18. \A x \in Items(Q) : x[1] \in {"acknowledge", "publish", "observe", "arm"}
  BY <1>3, <1>6, <1>8, <1>15, <1>16, <1>17
<1>19. PICK Z, U : Z = <<y, c>> /\ U = Q \o Z  OBVIOUS
<1>20. IsList(Z) /\ Items(Z) = {y, c}  BY <1>19, TwoList
<1>21. IsList(U) /\ Items(U) = Items(Q) \cup {y, c}  BY <1>16, <1>19, <1>20, Cat
<1>22. q = U \o L  BY <1>13, <1>14, <1>19
<1>23. Items(q) = Items(Q) \cup {y, c} \cup Items(L)  BY <1>12, <1>21, <1>22, Cat
<1>24. PartsOK(q)
  <2>1. q = (Q \o <<y, <<"clear", e>>>>) \o L  BY <1>9, <1>13, <1>14
  <2>2. \A x \in Items(Q) : x[1] # "clear"  BY <1>18
  <2>3. y[1] # "clear"  BY <1>10
  <2> QED  BY <1>12, <1>16, <2>1, <2>2, <2>3, PartsAre
<1>25. AcksFirst(q)
  <2>1. AcksFirst(A)
    <3>1. \A i \in 1..Len(A) : A[i] \in Items(A)  BY DEF Items
    <3>2. \A i \in 1..Len(A) : A[i][1] = "acknowledge"  BY <1>3, <1>17, <3>1
    <3>3. Len(A) \in Nat  BY <1>3, ListIs
    <3> QED  BY <3>2, <3>3 DEF AcksFirst
  <2>2. AcksFirst(P)
    <3>1. \A x \in Items(T) : x[1] # "acknowledge"  BY <1>6
    <3> QED  BY <1>3, <1>6, <1>14, <2>1, <3>1, AcksOn
  <2>3. AcksFirst(Q)
    <3>1. \A x \in Items(R) : x[1] # "acknowledge"  BY <1>8
    <3> QED  BY <1>8, <1>14, <1>15, <2>2, <3>1, AcksOn
  <2>4. AcksFirst(U)
    <3>1. \A x \in Items(Z) : x[1] # "acknowledge"  BY <1>10, <1>20
    <3> QED  BY <1>16, <1>19, <1>20, <2>3, <3>1, AcksOn
  <2>5. \A x \in Items(L) : x[1] # "acknowledge"  BY <1>12
  <2> QED  BY <1>12, <1>21, <1>22, <2>4, <2>5, AcksOn
<1>26. \A x \in Items(q) : x[1] = "clear" => x = c
  BY <1>10, <1>12, <1>18, <1>23
<1>27. \A a \in S : AckOf(a) \in Items(q)  BY <1>3, <1>15, <1>16, <1>23
<1> QED  BY <1>1, <1>9, <1>23, <1>24, <1>25, <1>26, <1>27 DEF StepsOK

\* One step further.
LEMMA PartsOn ==
  ASSUME NEW q, PartsOK(q)
  PROVE  /\ q # <<>> /\ IsList(q) /\ Head(q) = q[1]
         /\ q[1][1] # "clear" => PartsOK(Tail(q)) /\ (AcksFirst(q) => AcksFirst(Tail(q)))
         /\ q[1][1] = "clear" =>
              IsList(Tail(q)) /\ \A x \in Items(Tail(q)) : x[1] \in {"actors", "wakes"}
<1>1. IsList(q)  BY DEF PartsOK
<1>2. PICK k \in 1..Len(q) : /\ q[k][1] = "clear"
                             /\ \A j \in 1..(k - 1) : q[j][1] # "clear"
                             /\ \A j \in (k + 1)..Len(q) : q[j][1] \in {"actors", "wakes"}
  BY DEF PartsOK
<1>3. q # <<>>
  <2>1. Len(q) # 0  BY <1>1, <1>2, ListIs
  <2> QED  BY <2>1, NilList
<1>4. PICK n, t : n = Len(q) /\ t = Tail(q)  OBVIOUS
<1>5. n \in Nat \ {0} /\ Head(q) = q[1]  BY <1>1, <1>3, <1>4, TailList
<1>6. IsList(t) /\ Len(t) = n - 1  BY <1>1, <1>3, <1>4, TailList
<1>7. \A i \in 1..(n - 1) : t[i] = q[i + 1]
  <2>1. \A i \in 1..Len(t) : t[i] = q[i + 1]  BY <1>1, <1>3, <1>4, TailList
  <2> QED  BY <1>6, <2>1
<1>8. ASSUME q[1][1] # "clear"  PROVE PartsOK(t)
  <2>1. k # 1  BY <1>2, <1>8
  <2>2. PICK h : h = k - 1  OBVIOUS
  <2>3. h \in 1..(n - 1) /\ k = h + 1  BY <1>4, <1>5, <2>1, <2>2
  <2>4. t[h][1] = "clear"  BY <1>2, <1>7, <2>3
  <2>5. ASSUME NEW j \in 1..(h - 1)  PROVE t[j][1] # "clear"
    <3>1. j \in 1..(n - 1) /\ j + 1 \in 1..(k - 1)  BY <1>5, <2>3
    <3> QED  BY <1>2, <1>7, <3>1
  <2>6. ASSUME NEW j \in (h + 1)..(n - 1)  PROVE t[j][1] \in {"actors", "wakes"}
    <3>1. j \in 1..(n - 1) /\ j + 1 \in (k + 1)..n  BY <1>5, <2>3
    <3> QED  BY <1>2, <1>4, <1>7, <3>1
  <2> QED  BY <1>6, <2>3, <2>4, <2>5, <2>6 DEF PartsOK
<1>9. ASSUME q[1][1] = "clear"  PROVE \A x \in Items(t) : x[1] \in {"actors", "wakes"}
  <2>1. k = 1
    <3>1. 1 \notin 1..(k - 1)  BY <1>2, <1>9
    <3> QED  BY <1>4, <1>5, <3>1
  <2>2. ASSUME NEW i \in 1..(n - 1)  PROVE t[i][1] \in {"actors", "wakes"}
    <3>1. i + 1 \in (k + 1)..n  BY <1>5, <2>1
    <3> QED  BY <1>2, <1>4, <1>7, <3>1
  <2> QED  BY <1>6, <2>2 DEF Items
<1>10. ASSUME AcksFirst(q)  PROVE AcksFirst(t)
  <2>1. ASSUME NEW j \in 1..(n - 1), t[j][1] = "acknowledge", NEW i \in 1..j
        PROVE  t[i][1] = "acknowledge"
    <3>1. j + 1 \in 1..n /\ i + 1 \in 1..(j + 1) /\ i \in 1..(n - 1)  BY <1>5
    <3>2. q[j + 1][1] = "acknowledge"  BY <1>7, <2>1
    <3> QED  BY <1>4, <1>7, <1>10, <3>1, <3>2 DEF AcksFirst
  <2> QED  BY <1>6, <2>1 DEF AcksFirst
<1> QED  BY <1>1, <1>3, <1>4, <1>5, <1>6, <1>8, <1>9, <1>10
-----------------------------------------------------------------------------
(* The scripts of the engine can be done.                                  *)

\* Operations that need nothing.
FreeOps == {"enqueue", "send", "notice", "observe", "lapse", "lapsed", "actors", "wakes", "wake",
          "wire"}

LEMMA FreeCalm ==
  ASSUME NEW nodes, NEW c, NEW x, x[1] \in FreeOps
  PROVE  Calm(x) /\ Needs(nodes, c, x)
BY DEF FreeOps, Calm, Needs, Eager, Final, OnExecution

LEMMA SetCalm ==
  ASSUME NEW nodes, NEW c, NEW S, IsFiniteSet(S), NEW f, DOMAIN f = S,
         NEW T, T = {f[x] : x \in S}, \A x \in S : Calm(f[x]) /\ Needs(nodes, c, f[x])
  PROVE  AllCalm(nodes, c, SetToSeq(T))
<1>1. IsFiniteSet(T)  BY ImageFinite
<1>2. IsList(SetToSeq(T)) /\ Items(SetToSeq(T)) = T  BY <1>1, ListOfSet
<1> QED  BY <1>2 DEF AllCalm

LEMMA FailCalm ==
  ASSUME NEW nodes, NEW c, NEW s \in DOMAIN c.sess
  PROVE  AllCalm(nodes, c, FailSession(s))
<1>1. PICK x, y : x = <<"fail_session", s>> /\ y = <<"notice", s>>  OBVIOUS
<1>2. x[1] = "fail_session" /\ x[2] = s /\ y[1] = "notice"  BY <1>1
<1>3. Calm(x) /\ Needs(nodes, c, x)  BY <1>2 DEF Calm, Needs, Eager, Final, OnExecution
<1>4. Calm(y) /\ Needs(nodes, c, y)  BY <1>2, FreeCalm DEF FreeOps
<1>5. FailSession(s) = <<x, y>>  BY <1>1 DEF FailSession
<1> QED  BY <1>3, <1>4, <1>5, CalmTwo

\* A mark, and the session fails.
LEMMA GivesUpCalm ==
  ASSUME NEW nodes, NEW c, NEW s \in DOMAIN c.sess, NEW e \in DOMAIN c.exec, ~IsWaiting(c, e)
  PROVE  AllCalm(nodes, c, <<<<"mark_failed", e>>>> \o FailSession(s))
<1>1. PICK x : x = <<"mark_failed", e>>  OBVIOUS
<1>2. x[1] = "mark_failed" /\ x[2] = e  BY <1>1
<1>3. Calm(x) /\ Needs(nodes, c, x)  BY <1>2 DEF Calm, Needs, Eager, Final, OnExecution
<1>4. AllCalm(nodes, c, <<x>>)  BY <1>3, CalmOne
<1>5. AllCalm(nodes, c, FailSession(s))  BY FailCalm
<1> QED  BY <1>1, <1>4, <1>5, CalmCat

LEMMA ApplyCalm ==
  ASSUME NEW nodes, NEW c, NEW e, NEW f, EffectsOK(f)
  PROVE  AllCalm(nodes, c, Apply(e, f))
<1>1. CASE f = NoEffects  BY <1>1, CalmNone DEF Apply
<1>2. CASE f # NoEffects
  <2>1. PICK q : q = EffectSteps(e, f)  OBVIOUS
  <2>2. PICK x : x = <<"apply", q>>  OBVIOUS
  <2>3. x[1] = "apply" /\ x[2] = q  BY <2>2
  <2>4. PartsOK(q) /\ AcksFirst(q)  BY <2>1, EffectStepsAre DEF StepsOK
  <2>5. Calm(x) /\ Needs(nodes, c, x)  BY <2>3, <2>4 DEF Calm, Needs, Eager, Final, OnExecution
  <2>6. Apply(e, f) = <<x>>  BY <1>2, <2>1, <2>2 DEF Apply
  <2> QED  BY <2>5, <2>6, CalmOne
<1> QED  BY <1>1, <1>2

LEMMA ChildResultOK == \A s : EffectsOK(ChildResult(s))
<1> SUFFICES ASSUME NEW s  PROVE EffectsOK(ChildResult(s))  OBVIOUS
<1>1. CASE ChildResult(s) = NoEffects  BY <1>1, NoEffectsOK
<1>2. CASE ChildResult(s) # NoEffects
  <2>1. PICK m : m = Letter(<<"result", s>>, Lineage(s).notify, Lineage(s).correlation,
                            <<"session", s>>)
    OBVIOUS
  <2>2. PICK f : f = ChildResult(s)  OBVIOUS
  <2>3. f = [NoEffects EXCEPT !.publish = <<m>>]  BY <1>2, <2>1, <2>2 DEF ChildResult
  <2>4. f.publish = <<m>> /\ f.arm = <<>> /\ f.acknowledge = {}  BY <2>3 DEF NoEffects
  <2>5. IsList(f.publish) /\ IsList(f.arm) /\ IsFiniteSet(f.acknowledge)
    BY <2>4, NilList, OneList, FS_EmptySet
  <2> QED  BY <2>2, <2>5 DEF EffectsOK
<1> QED  BY <1>1, <1>2

\* The effects of a commit that merges mail are its acknowledgement.
Drains(f, got) == got # {} => \E conversation : f = Drained(conversation, got)

\* A commit that puts nothing in.
LEMMA PlainCommit ==
  ASSUME NEW nodes, NEW c, NEW e \in DOMAIN c.exec, ~IsWaiting(c, e), NEW r, NEW got,
         NEW f, EffectsOK(f), Drains(f, got), NEW x,
         x = <<"commit", e, r, got, <<>>, f, <<>>>>
  PROVE  Needs(nodes, c, x) /\ FirstOK(c, x) /\ x[1] \notin Final \cup {"sentinels", "mark_running"}
<1>1. x[1] = "commit" /\ x[2] = e /\ x[4] = got /\ x[5] = <<>> /\ x[6] = f /\ x[7] = <<>>
  OBVIOUS
<1>2. Needs(nodes, c, x)  BY <1>1 DEF Needs, OnExecution, Final
<1>3. StagedOK(c, x[2], x[5])  BY <1>1 DEF StagedOK
<1>4. IsList(x[7]) /\ \A i \in 1..Len(x[7]) : ChildOK(x[7][i]) /\ IsChild(x[7][i].session)
  <2>1. IsList(<<>>) /\ Len(<<>>) = 0  BY NilList
  <2>2. 1..0 = {}  OBVIOUS
  <2> QED  BY <1>1, <2>1, <2>2
<1>5. FirstOK(c, x)  BY <1>1, <1>3, <1>4 DEF FirstOK, Drains
<1> QED  BY <1>1, <1>2, <1>5 DEF Final

LEMMA FinishTodo ==
  ASSUME NEW nodes, NEW e \in DOMAIN db.exec, ~IsWaiting(db, e), NEW s \in DOMAIN db.sess, NEW r
  PROVE  TodoOK(nodes, db, Finish(e, s, r)) /\ Unmerged(Finish(e, s, r))
<1>1. PICK f : f = ChildResult(s) /\ EffectsOK(f)  BY ChildResultOK
<1>2. PICK z : z = <<"complete_session", s>>  OBVIOUS
<1>3. z[1] = "complete_session" /\ z[2] = s  BY <1>2
<1>4. Calm(z) /\ Needs(nodes, db, z)  BY <1>3 DEF Calm, Needs, Eager, Final, OnExecution
<1>5. AllCalm(nodes, db, <<z>>)  BY <1>4, CalmOne
<1>6. CASE f = NoEffects
  <2>1. PICK x : x = <<"mark_completed", e, r>>  OBVIOUS
  <2>2. x[1] = "mark_completed" /\ x[2] = e  BY <2>1
  <2>3. Calm(x) /\ Needs(nodes, db, x)  BY <2>2 DEF Calm, Needs, Eager, Final, OnExecution
  <2>4. AllCalm(nodes, db, <<x>>)  BY <2>3, CalmOne
  <2>5. PICK q : q = <<x>> \o <<z>>  OBVIOUS
  <2>6. AllCalm(nodes, db, q)  BY <1>5, <2>4, <2>5, CalmCat
  <2>7. Finish(e, s, r) = q  BY <1>1, <1>2, <1>6, <2>1, <2>5 DEF Finish
  <2> QED  BY <2>6, <2>7, CalmTodo, CalmUnmerged
<1>7. CASE f # NoEffects
  <2>1. PICK x : x = <<"commit", e, r, {}, <<>>, f, <<>>>>  OBVIOUS
  <2>2. /\ Needs(nodes, db, x) /\ FirstOK(db, x)
        /\ x[1] \notin Final \cup {"sentinels", "mark_running"}
    <3>1. Drains(f, {})  BY DEF Drains
    <3> QED  BY <1>1, <2>1, <3>1, PlainCommit
  <2>21. x[4] = {}  BY <2>1
  <2>3. PICK a : a = Apply(e, f) /\ AllCalm(nodes, db, a)  BY <1>1, ApplyCalm
  <2>4. PICK p : p = <<x>> \o a  OBVIOUS
  <2>22. Heeds(x, a)  BY <2>21 DEF Heeds
  <2>5. TodoOK(nodes, db, p)  BY <2>2, <2>22, <2>3, <2>4, AheadTodo
  <2>6. p # <<>> /\ p[1] = x  BY <2>3, <2>4, Pushed DEF AllCalm
  <2>7. TodoOK(nodes, db, p \o <<z>>)  BY <1>5, <2>2, <2>5, <2>6, ExtendTodo
  <2>8. Finish(e, s, r) = p \o <<z>>  BY <1>1, <1>2, <1>7, <2>1, <2>3, <2>4 DEF Finish
  <2>9. IsList(p) /\ IsList(<<z>>)  BY <2>3, <2>4, Pushed, OneList DEF AllCalm
  <2>10. (p \o <<z>>)[1] = x  BY <2>6, <2>9, Joined
  <2> QED  BY <2>7, <2>8, <2>10, <2>21 DEF Unmerged
<1> QED  BY <1>6, <1>7
-----------------------------------------------------------------------------
\* The planner numbers what it stages from where it is told to.
PlannerOK ==
  \A plan, s, n, names :
    PlanOf(plan) /\ n \in Nat => NumbersFrom(Stages(plan, s, n, names).executions, s, n)

\* The program that runs, and what its nodes return.
WorldOK == \E i \in DOMAIN Worlds : world = Worlds[i]
TransitionOK(t) ==
  /\ IsList(t.plan) /\ IsList(t.publish) /\ IsList(t.arm) /\ IsList(t.spawn)
  /\ IsFiniteSet(t.acknowledge)
  /\ \A k \in DOMAIN t.plan : PlanOf(t.plan[k])
  /\ \A k \in DOMAIN t.spawn : PlanOf(t.spawn[k].plan)

LEMMA TransitionsAre ==
  ASSUME WorldOK, NEW n \in DOMAIN world.nodes, NEW t \in world.nodes[n]
  PROVE  TransitionOK(t)
<1>1. PICK i \in DOMAIN Worlds : world = Worlds[i]  BY DEF WorldOK
<1>2. n \in DOMAIN Worlds[i].nodes /\ t \in Worlds[i].nodes[n]  BY <1>1
<1>3. \A q \in {t.plan, t.publish, t.arm, t.spawn} :
        Len(q) \in Nat /\ q = [k \in 1..Len(q) |-> q[k]]
  BY <1>2, WorldsAssumption
<1>7. IsFiniteSet(t.acknowledge)  BY <1>2, WorldsAssumption
<1>4. ASSUME NEW q \in {t.plan, t.publish, t.arm, t.spawn}  PROVE IsList(q)
  <2>1. Len(q) \in Nat /\ q = [k \in 1..Len(q) |-> q[k]]  BY <1>3
  <2>2. PICK m : m = Len(q)  OBVIOUS
  <2>3. m \in Nat /\ q = [k \in 1..m |-> q[k]]  BY <2>1, <2>2
  <2> QED  BY <2>3, ListOf
<1>5. \A k \in DOMAIN t.plan : PlanOf(t.plan[k])  BY <1>2 DEF PlanOf
<1>6. \A k \in DOMAIN t.spawn : PlanOf(t.spawn[k].plan)  BY <1>2 DEF PlanOf
<1> QED  BY <1>4, <1>5, <1>6, <1>7 DEF TransitionOK

LEMMA MapList ==
  ASSUME NEW q, IsList(q), NEW r, DOMAIN r = DOMAIN q, r = [i \in DOMAIN q |-> r[i]]
  PROVE  IsList(r) /\ Len(r) = Len(q)
<1>1. PICK n : n = Len(q) /\ n \in Nat /\ DOMAIN q = 1..n  BY ListIs
<1>2. r = [i \in 1..n |-> r[i]]  BY <1>1
<1> QED  BY <1>1, <1>2, ListOf

LEMMA StageEffectsOK == \A e, t : TransitionOK(t) => EffectsOK(StageEffects(e, t))
<1> SUFFICES ASSUME NEW e, NEW t, TransitionOK(t)  PROVE EffectsOK(StageEffects(e, t))  OBVIOUS
<1>1. CASE StageEffects(e, t) = NoEffects  BY <1>1, NoEffectsOK
<1>2. CASE StageEffects(e, t) # NoEffects
  <2>1. PICK p : p = [i \in DOMAIN t.publish |->
             Letter(<<"txn", e, i>>, t.publish[i].conversation, t.publish[i].correlation, <<>>)]
    OBVIOUS
  <2>2. PICK a : a = [i \in DOMAIN t.arm |-> <<<<"mon", e, i>>, t.arm[i]>>]  OBVIOUS
  <2>3. PICK f : f = StageEffects(e, t)  OBVIOUS
  <2>4. f = [NoEffects EXCEPT !.acknowledge = t.acknowledge, !.publish = p, !.arm = a,
                              !.disarm = t.disarm]
    BY <1>2, <2>1, <2>2, <2>3 DEF StageEffects
  <2>5. f.publish = p /\ f.arm = a /\ f.acknowledge = t.acknowledge  BY <2>4 DEF NoEffects
  <2>6. IsList(t.publish) /\ IsList(t.arm) /\ IsFiniteSet(t.acknowledge)  BY DEF TransitionOK
  <2>7. IsList(p)
    <3>1. DOMAIN p = DOMAIN t.publish /\ p = [i \in DOMAIN t.publish |-> p[i]]  BY <2>1
    <3> QED  BY <2>6, <3>1, MapList
  <2>8. IsList(a)
    <3>1. DOMAIN a = DOMAIN t.arm /\ a = [i \in DOMAIN t.arm |-> a[i]]  BY <2>2
    <3> QED  BY <2>6, <3>1, MapList
  <2> QED  BY <2>3, <2>5, <2>6, <2>7, <2>8 DEF EffectsOK
<1> QED  BY <1>1, <1>2

\* A child's name and its plan.
LEMMA ChildStaged ==
  ASSUME PlannerOK, NEW spawn, PlanOf(spawn.plan), NEW e, IsList(e[1]), Len(e[1]) > 0, NEW i,
         NEW child, child = StageSpawn(spawn, e, i)
  PROVE  ChildOK(child) /\ IsChild(child.session)
<1>1. PICK s, p : s = Append(e[1], e[2]) /\ p = spawn.plan  OBVIOUS
<1>2. PICK u : u = Append(s, i)  OBVIOUS
<1>3. IsList(s) /\ Len(s) = Len(e[1]) + 1  BY <1>1, AppendList
<1>4. IsList(u) /\ Len(u) = Len(s) + 1  BY <1>2, <1>3, AppendList
<1>5. Len(u) > 1
  <2>1. PICK n : n = Len(e[1])  OBVIOUS
  <2>2. n \in Nat /\ n > 0  BY <2>1, ListIs
  <2>3. Len(u) = n + 1 + 1  BY <1>3, <1>4, <2>1
  <2> QED  BY <2>2, <2>3
<1>6. PICK st : st = Stages(p, u, 2, <<>>)  OBVIOUS
<1>7. child.session = u /\ child.executions = st.executions
  BY <1>1, <1>2, <1>6 DEF StageSpawn
<1>8. NumbersFrom(st.executions, u, 2)
  <2>1. PlanOf(p) /\ 2 \in Nat  BY <1>1
  <2> QED  BY <1>6, <2>1 DEF PlannerOK
<1> QED  BY <1>4, <1>5, <1>7, <1>8 DEF ChildOK, IsChild

\* The name of a session is a list.
LEMMA NamesAre ==
  ASSUME NEW c, NEW n, NamedIn(c, n), NEW s \in DOMAIN c.sess
  PROVE  IsList(s) /\ Len(s) > 0
<1>1. CASE IsChild(s)
  <2>1. IsList(s) /\ Len(s) > 1 /\ Len(s) \in Nat  BY <1>1, ListIs DEF IsChild
  <2> QED  BY <2>1
<1>2. CASE \E k \in 1..n : s = <<k>>  BY <1>2, OneList
<1> QED  BY <1>1, <1>2 DEF NamedIn

\* A pending execution is not parked.
LEMMA PendingNot == \A c, e : c.exec[e].status \in {"pending", "running"} => ~IsWaiting(c, e)
BY DEF IsWaiting

LEMMA RowSession ==
  ASSUME NEW c, StoreOK(c), NEW e \in DOMAIN c.exec
  PROVE  c.exec[e].session \in DOMAIN c.sess
BY DEF StoreOK, Rows, RowOK

LEMMA ExecuteTodo ==
  ASSUME NEW nodes, nodes = DOMAIN world.nodes, StoreOK(db), NEW e
  PROVE  TodoOK(nodes, db, Execute(e)) /\ Unmerged(Execute(e))
<1>1. CASE e \notin DOMAIN db.exec \/ ~Guard(e)
  <2>1. Execute(e) = <<>>  BY <1>1 DEF Execute
  <2> QED  BY <2>1, NilTodo DEF Unmerged
<1>2. CASE e \in DOMAIN db.exec /\ Guard(e)
  <2>1. PICK s, node, in, n : s = db.exec[e].session /\ node = db.exec[e].node /\ in = InputState(db, e)
          /\ n = db.exec[e].policy.condition
    OBVIOUS
  <2>2. s \in DOMAIN db.sess  BY <1>2, <2>1, RowSession
  <2>3. ~IsWaiting(db, e)  BY <1>2, PendingNot DEF Guard
  <2>4. PICK q : q = Execute(e)  OBVIOUS
  <2>5. q = IF node = "__END__" THEN Finish(e, s, {})
            ELSE IF node = "__GATE__" /\ n \notin in THEN Finish(e, s, in)
            ELSE IF node \in {"__GATE__", "__MERGE__"}
              THEN <<<<"mark_completed", e, in>>, <<"enqueue", s>>>>
            ELSE IF node = "__WAIT__" THEN <<<<"wait", e>>>>
            ELSE IF node \notin nodes THEN <<<<"mark_failed", e>>>> \o FailSession(s)
            ELSE <<<<"mark_running", e>>, <<"run", e>>>>
    BY <1>2, <2>1, <2>4 DEF Execute
  <2>6. CASE \E r : q = Finish(e, s, r)
    BY <1>2, <2>2, <2>3, <2>4, <2>6, FinishTodo
  <2>7. CASE q = <<<<"mark_completed", e, in>>, <<"enqueue", s>>>>
    <3>1. PICK x, y : x = <<"mark_completed", e, in>> /\ y = <<"enqueue", s>>  OBVIOUS
    <3>2. x[1] = "mark_completed" /\ x[2] = e /\ y[1] = "enqueue"  BY <3>1
    <3>3. Calm(x) /\ Needs(nodes, db, x)
      BY <1>2, <2>3, <3>2 DEF Calm, Needs, Eager, Final, OnExecution
    <3>4. Calm(y) /\ Needs(nodes, db, y)  BY <3>2, FreeCalm DEF FreeOps
    <3>5. AllCalm(nodes, db, <<x, y>>)  BY <3>3, <3>4, CalmTwo
    <3> QED  BY <2>4, <2>7, <3>1, <3>5, CalmTodo, CalmUnmerged
  <2>8. CASE q = <<<<"wait", e>>>>
    <3>1. PICK x : x = <<"wait", e>>  OBVIOUS
    <3>2. x[1] = "wait" /\ x[2] = e  BY <3>1
    <3>3. Needs(nodes, db, x)  BY <1>2, <2>3, <3>2 DEF Needs, OnExecution, Final
    <3>4. FirstOK(db, x)  BY <3>2 DEF FirstOK
    <3>5. q = <<x>>  BY <2>8, <3>1
    <3>6. IsList(q) /\ q[1] = x /\ q # <<>> /\ Len(q) = 1  BY <3>5, OneList
    <3>7. Tail(q) = <<>>
      <4>1. IsList(Tail(q)) /\ Len(Tail(q)) = 0  BY <3>6, TailList
      <4> QED  BY <4>1, NilOnly
    <3>8. Follows(nodes, db, x, Tail(q))  BY <3>2, <3>7 DEF Follows, Final
    <3>9. Unmerged(q)  BY <3>2, <3>6 DEF Unmerged
    <3> QED  BY <2>4, <3>3, <3>4, <3>6, <3>8, <3>9 DEF TodoOK
  <2>9. CASE q = <<<<"mark_failed", e>>>> \o FailSession(s)
    <3>1. AllCalm(nodes, db, q)  BY <1>2, <2>2, <2>3, <2>9, GivesUpCalm
    <3> QED  BY <2>4, <3>1, CalmTodo, CalmUnmerged
  <2>10. CASE q = <<<<"mark_running", e>>, <<"run", e>>>> /\ node \in nodes
    <3>1. PICK x, y : x = <<"mark_running", e>> /\ y = <<"run", e>>  OBVIOUS
    <3>2. x[1] = "mark_running" /\ x[2] = e /\ y[1] = "run" /\ y[2] = e  BY <3>1
    <3>3. Needs(nodes, db, x)  BY <1>2, <2>3, <3>2 DEF Needs, OnExecution, Final
    <3>4. Needs(nodes, db, y)  BY <1>2, <2>1, <2>3, <2>10, <3>2 DEF Needs, OnExecution, Final
    <3>5. FirstOK(db, x)  BY <3>2 DEF FirstOK
    <3>6. PICK p : p = <<y>>  OBVIOUS
    <3>7. IsList(p) /\ p # <<>> /\ p[1] = y /\ Len(p) = 1  BY <3>6, OneList
    <3>8. Tail(p) = <<>>
      <4>1. IsList(Tail(p)) /\ Len(Tail(p)) = 0  BY <3>7, TailList
      <4> QED  BY <4>1, NilOnly
    <3>9. Follows(nodes, db, x, p)  BY <3>2, <3>4, <3>7, <3>8 DEF Follows
    <3>10. q = <<x>> \o p  BY <2>10, <3>1, <3>6
    <3>11. IsList(q) /\ q[1] = x /\ Tail(q) = p  BY <3>7, <3>10, Pushed
    <3>12. Unmerged(q)  BY <3>2, <3>11 DEF Unmerged
    <3> QED  BY <2>4, <3>3, <3>5, <3>9, <3>11, <3>12 DEF TodoOK
  <2> QED  BY <2>5, <2>6, <2>7, <2>8, <2>9, <2>10
<1> QED  BY <1>1, <1>2

LEMMA RecoilsTodo ==
  ASSUME NEW nodes, StoreOK(db), NEW e \in DOMAIN db.exec, ~IsWaiting(db, e)
  PROVE  AllCalm(nodes, db, Recoils(e))
<1>1. PICK s, r : s = db.exec[e].session
        /\ r = IF db.exec[e].policy.delay THEN "later" ELSE "none"
  OBVIOUS
<1>2. s \in DOMAIN db.sess  BY <1>1, RowSession
<1>3. PICK q : q = Recoils(e)  OBVIOUS
<1>4. \/ q = <<<<"mark_retrying", e, r>>, <<"send", e>>>>
      \/ q = <<<<"mark_failed", e>>>> \o FailSession(s)
  BY <1>1, <1>3 DEF Recoils
<1>5. CASE q = <<<<"mark_retrying", e, r>>, <<"send", e>>>>
  <2>1. PICK x, y : x = <<"mark_retrying", e, r>> /\ y = <<"send", e>>  OBVIOUS
  <2>2. x[1] = "mark_retrying" /\ x[2] = e /\ y[1] = "send"  BY <2>1
  <2>3. Calm(x) /\ Needs(nodes, db, x)  BY <2>2 DEF Calm, Needs, Eager, Final, OnExecution
  <2>4. Calm(y) /\ Needs(nodes, db, y)  BY <2>2, FreeCalm DEF FreeOps
  <2>5. AllCalm(nodes, db, <<x, y>>)  BY <2>3, <2>4, CalmTwo
  <2> QED  BY <1>3, <1>5, <2>1, <2>5
<1>6. CASE q = <<<<"mark_failed", e>>>> \o FailSession(s)  BY <1>2, <1>3, <1>6, GivesUpCalm
<1> QED  BY <1>4, <1>5, <1>6
LEMMA OneTail == \A x : Tail(<<x>>) = <<>>  OBVIOUS
LEMMA TwoTail == \A x, y : Tail(<<x, y>>) = <<y>>  OBVIOUS
LEMMA ThreeList ==
  ASSUME NEW x, NEW y, NEW z
  PROVE  IsList(<<x, y, z>>) /\ Items(<<x, y, z>>) = {x, y, z}
<1>1. PICK q : q = <<x, y, z>>  OBVIOUS
<1>2. q \in Seq({x, y, z}) /\ Len(q) = 3 /\ q[1] = x /\ q[2] = y /\ q[3] = z  BY <1>1
<1>3. 1..3 = {1, 2, 3}  OBVIOUS
<1> QED  BY <1>1, <1>2, <1>3 DEF IsList, Items
LEMMA FourList ==
  ASSUME NEW w, NEW x, NEW y, NEW z
  PROVE  /\ IsList(<<w, x, y, z>>) /\ Tail(<<w, x, y, z>>) = <<x, y, z>>
         /\ <<w, x, y, z>>[1] = w /\ <<w, x, y, z>> # <<>>
<1>1. PICK q : q = <<w, x, y, z>>  OBVIOUS
<1>2. q \in Seq({w, x, y, z}) /\ Len(q) = 4 /\ q[1] = w  BY <1>1
<1>3. Tail(<<w, x, y, z>>) = <<x, y, z>>  OBVIOUS
<1>4. q # <<>>  BY <1>2
<1> QED  BY <1>1, <1>2, <1>3, <1>4 DEF IsList
LEMMA FiveList ==
  ASSUME NEW v, NEW w, NEW x, NEW y, NEW z
  PROVE  /\ IsList(<<v, w, x, y, z>>) /\ Tail(<<v, w, x, y, z>>) = <<w, x, y, z>>
         /\ <<v, w, x, y, z>>[1] = v
<1>1. PICK q : q = <<v, w, x, y, z>>  OBVIOUS
<1>2. q \in Seq({v, w, x, y, z}) /\ q[1] = v  BY <1>1
<1>3. Tail(<<v, w, x, y, z>>) = <<w, x, y, z>>  OBVIOUS
<1> QED  BY <1>1, <1>2, <1>3 DEF IsList
-----------------------------------------------------------------------------
\* The plan of a transition continues the numbers of its session.
LEMMA PlanStaged ==
  ASSUME PlannerOK, StoreOK(db), NEW e \in DOMAIN db.exec, NEW s, s = db.exec[e].session,
         NEW t, TransitionOK(t), NEW held, held = ExecutionsOf(db, s), NEW names, NEW staged,
         staged = [i \in DOMAIN t.plan |-> Stages(t.plan[i], s, Cardinality(held), names)]
  PROVE  StagedOK(db, e, staged)
<1> SUFFICES ASSUME staged # <<>>
             PROVE  \E n \in Nat : /\ ExecutionsOf(db, s) = Slots(s, n)
                                   /\ NumbersFrom(staged[1].executions, s, n)
  BY DEF StagedOK
<1>1. s \in DOMAIN db.sess  BY RowSession
<1>2. PICK n \in Nat : ExecutionsOf(db, s) = Slots(s, n)
  BY <1>1 DEF StoreOK, Rows, Numbered
<1>3. Cardinality(held) = n  BY <1>2, SlotsAre
<1>4. IsList(t.plan)  BY DEF TransitionOK
<1>5. DOMAIN staged = DOMAIN t.plan /\ staged = [i \in DOMAIN t.plan |-> staged[i]]  OBVIOUS
<1>6. IsList(staged) /\ Len(staged) = Len(t.plan)  BY <1>4, <1>5, MapList
<1>7. Len(staged) # 0  BY <1>6, NilOnly
<1>8. 1 \in DOMAIN t.plan
  <2>1. PICK m : m = Len(t.plan) /\ m \in Nat /\ DOMAIN t.plan = 1..m  BY <1>4, ListIs
  <2>2. m # 0  BY <1>6, <1>7, <2>1
  <2> QED  BY <2>1, <2>2
<1>9. staged[1] = Stages(t.plan[1], s, n, names)  BY <1>3, <1>8
<1>10. PlanOf(t.plan[1])  BY <1>8 DEF TransitionOK
<1>11. NumbersFrom(Stages(t.plan[1], s, n, names).executions, s, n)  BY <1>10 DEF PlannerOK
<1> QED  BY <1>2, <1>9, <1>11

LEMMA ChildrenStaged ==
  ASSUME PlannerOK, NEW e, IsList(e[1]), Len(e[1]) > 0, NEW t, TransitionOK(t), NEW spawns,
         spawns = [i \in DOMAIN t.spawn |-> StageSpawn(t.spawn[i], e, i)]
  PROVE  /\ IsList(spawns)
         /\ \A i \in 1..Len(spawns) : ChildOK(spawns[i]) /\ IsChild(spawns[i].session)
<1>1. IsList(t.spawn)  BY DEF TransitionOK
<1>2. DOMAIN spawns = DOMAIN t.spawn /\ spawns = [i \in DOMAIN t.spawn |-> spawns[i]]  OBVIOUS
<1>3. IsList(spawns) /\ DOMAIN spawns = 1..Len(spawns)  BY <1>1, <1>2, MapList, ListIs
<1>4. ASSUME NEW i \in 1..Len(spawns)
      PROVE  ChildOK(spawns[i]) /\ IsChild(spawns[i].session)
  <2>1. i \in DOMAIN t.spawn  BY <1>2, <1>3
  <2>2. PICK child, spawn : spawn = t.spawn[i] /\ child = StageSpawn(spawn, e, i) /\ child = spawns[i]
    BY <2>1
  <2>3. PlanOf(spawn.plan)  BY <2>1, <2>2 DEF TransitionOK
  <2>4. child = StageSpawn(spawn, e, i)  BY <2>2
  <2>5. ChildOK(child) /\ IsChild(child.session)  BY <2>3, <2>4, ChildStaged
  <2> QED  BY <2>2, <2>5
<1> QED  BY <1>3, <1>4

LEMMA ProposesTodo ==
  ASSUME PlannerOK, NEW nodes, StoreOK(db), NEW n, NamedIn(db, n), NEW e \in DOMAIN db.exec,
         ~IsWaiting(db, e), NEW t, TransitionOK(t)
  PROVE  TodoOK(nodes, db, Proposes(e, t)) /\ Unmerged(Proposes(e, t))
<1>1. PICK s, held : s = db.exec[e].session /\ held = ExecutionsOf(db, s)  OBVIOUS
<1>2. PICK names : names = [x \in held |-> db.exec[x].node]  OBVIOUS
<1>3. PICK staged : staged = [i \in DOMAIN t.plan |-> Stages(t.plan[i], s, Cardinality(held), names)]
  OBVIOUS
<1>4. PICK spawns : spawns = [i \in DOMAIN t.spawn |-> StageSpawn(t.spawn[i], e, i)]  OBVIOUS
<1>5. PICK f : f = StageEffects(e, t)  OBVIOUS
<1>6. EffectsOK(f)  BY <1>5, StageEffectsOK
<1>7. PICK x : x = <<"commit", e, t.result, {}, staged, f, spawns>>  OBVIOUS
<1>8. PICK ons : ons = [i \in DOMAIN spawns |-> <<"enqueue", spawns[i].session>>]  OBVIOUS
<1>9. PICK z : z = <<"enqueue", s>>  OBVIOUS
<1>10. PICK q : q = Proposes(e, t)  OBVIOUS
<1>11. \/ q = <<<<"mark_failed", e>>>> \o FailSession(s)
       \/ q = ((<<x>> \o Apply(e, f)) \o ons) \o <<z>>
  BY <1>1, <1>2, <1>3, <1>4, <1>5, <1>7, <1>8, <1>9, <1>10 DEF Proposes
<1>12. s \in DOMAIN db.sess  BY <1>1, RowSession
<1>13. CASE q = <<<<"mark_failed", e>>>> \o FailSession(s)
  <2>1. AllCalm(nodes, db, q)  BY <1>12, <1>13, GivesUpCalm
  <2> QED  BY <1>10, <2>1, CalmTodo, CalmUnmerged
<1>14. CASE q = ((<<x>> \o Apply(e, f)) \o ons) \o <<z>>
  <2>1. /\ x[1] = "commit" /\ x[2] = e /\ x[4] = {} /\ x[5] = staged /\ x[6] = f /\ x[7] = spawns
    BY <1>7
  <2>2. StagedOK(db, e, staged)  BY <1>1, <1>3, PlanStaged
  <2>3. IsList(e[1]) /\ Len(e[1]) > 0
    <3>1. e[1] = s  BY <1>1, OwnName DEF StoreOK
    <3>2. IsList(s) /\ Len(s) > 0  BY <1>12, NamesAre
    <3> QED  BY <3>1, <3>2
  <2>40. IsList(spawns)  BY <1>4, <2>3, ChildrenStaged
  <2>41. \A i \in 1..Len(spawns) : ChildOK(spawns[i]) /\ IsChild(spawns[i].session)
    BY <1>4, <2>3, ChildrenStaged
  <2>5. Needs(nodes, db, x)  BY <2>1 DEF Needs, OnExecution, Final
  <2>6. FirstOK(db, x)  BY <1>6, <2>1, <2>2, <2>40, <2>41 DEF FirstOK
  <2>7. x[1] \notin Final \cup {"sentinels", "mark_running"}  BY <2>1 DEF Final
  <2>8. PICK a : a = Apply(e, f) /\ AllCalm(nodes, db, a)  BY <1>6, ApplyCalm
  <2>9. PICK p : p = <<x>> \o a  OBVIOUS
  <2>91. Heeds(x, a)  BY <2>1 DEF Heeds
  <2>10. TodoOK(nodes, db, p)  BY <2>91, <2>5, <2>6, <2>7, <2>8, <2>9, AheadTodo
  <2>11. p # <<>> /\ p[1] = x /\ IsList(p)  BY <2>8, <2>9, Pushed DEF AllCalm
  <2>12. IsList(ons) /\ Len(ons) = Len(spawns)
    <3>1. DOMAIN ons = DOMAIN spawns /\ ons = [i \in DOMAIN spawns |-> ons[i]]  BY <1>8
    <3> QED  BY <2>40, <3>1, MapList
  <2>13. AllCalm(nodes, db, ons)
    <3>1. DOMAIN spawns = 1..Len(spawns)  BY <2>40, ListIs
    <3>2. ASSUME NEW i \in 1..Len(ons)  PROVE ons[i][1] \in FreeOps
      <4>1. ons[i] = <<"enqueue", spawns[i].session>>  BY <1>8, <2>12, <3>1
      <4>2. ons[i][1] = "enqueue"  BY <4>1
      <4> QED  BY <4>2 DEF FreeOps
    <3>3. ASSUME NEW y \in Items(ons)  PROVE Calm(y) /\ Needs(nodes, db, y)
      <4>1. y[1] \in FreeOps  BY <3>2 DEF Items
      <4> QED  BY <4>1, FreeCalm
    <3> QED  BY <2>12, <3>3 DEF AllCalm
  <2>14. PICK r : r = p \o ons  OBVIOUS
  <2>15. TodoOK(nodes, db, r)  BY <2>7, <2>10, <2>11, <2>13, <2>14, ExtendTodo
  <2>16. r # <<>> /\ r[1] = x  BY <2>11, <2>12, <2>14, Joined
  <2>17. AllCalm(nodes, db, <<z>>)
    <3>1. z[1] = "enqueue"  BY <1>9
    <3>2. Calm(z) /\ Needs(nodes, db, z)  BY <3>1, FreeCalm DEF FreeOps
    <3> QED  BY <3>2, CalmOne
  <2>18. TodoOK(nodes, db, r \o <<z>>)  BY <2>7, <2>15, <2>16, <2>17, ExtendTodo
  <2>19. q = r \o <<z>>  BY <1>14, <2>8, <2>9, <2>14
  <2>20. Unmerged(q)
    <3>1. IsList(r) /\ IsList(<<z>>)  BY <2>11, <2>12, <2>14, Joined, OneList
    <3>2. q[1] = x  BY <2>16, <2>19, <3>1, Joined
    <3> QED  BY <2>1, <3>2 DEF Unmerged
  <2> QED  BY <1>10, <2>18, <2>19, <2>20
<1> QED  BY <1>11, <1>13, <1>14
-----------------------------------------------------------------------------
(* The outcomes of a wait.                                                 *)

\* The commit of the mail, its acknowledgement, and what is ready by then.
Begins(q, x) == q[1] = x
Merging(e, r, got, f) == <<"commit", e, r, got, <<>>, f, <<>>>>
\* x is the only list of effects in q.
Sole(q, x) == \A y \in Items(q) : y[1] = "apply" => y = x
DrainSteps(e, r, got, f, s) ==
  <<<<"commit", e, r, got, <<>>, f, <<>>>>>> \o Apply(e, f) \o <<<<"enqueue", s>>>>

LEMMA DrainsTodo ==
  ASSUME NEW nodes, NEW c, NEW e \in DOMAIN c.exec, ~IsWaiting(c, e), NEW r, NEW got, NEW f,
         EffectsOK(f), Drains(f, got), f # NoEffects,
         NEW s, NEW q, q = DrainSteps(e, r, got, f, s)
  PROVE  /\ TodoOK(nodes, c, q) /\ q # <<>> /\ IsList(q) /\ Begins(q, Merging(e, r, got, f))
         /\ Sole(q, <<"apply", EffectSteps(e, f)>>)
<1>1. PICK x, z : x = <<"commit", e, r, got, <<>>, f, <<>>>> /\ z = <<"enqueue", s>>  OBVIOUS
<1>2. /\ Needs(nodes, c, x) /\ FirstOK(c, x)
      /\ x[1] \notin Final \cup {"sentinels", "mark_running"}
  BY <1>1, PlainCommit
<1>3. PICK a : a = Apply(e, f) /\ AllCalm(nodes, c, a)  BY ApplyCalm
<1>4. PICK p : p = <<x>> \o a  OBVIOUS
<1>41. Heeds(x, a)
  <2>1. PICK y : y = <<"apply", EffectSteps(e, f)>>  OBVIOUS
  <2>2. a = <<y>>  BY <1>3, <2>1 DEF Apply
  <2>3. a # <<>> /\ a[1] = y  BY <2>2, OneList
  <2>4. x[2] = e /\ x[6] = f  BY <1>1
  <2> QED  BY <2>1, <2>3, <2>4 DEF Heeds
<1>5. TodoOK(nodes, c, p)  BY <1>2, <1>3, <1>4, <1>41, AheadTodo
<1>6. p # <<>> /\ p[1] = x  BY <1>3, <1>4, Pushed DEF AllCalm
<1>7. AllCalm(nodes, c, <<z>>)
  <2>1. z[1] = "enqueue"  BY <1>1
  <2>2. Calm(z) /\ Needs(nodes, c, z)  BY <2>1, FreeCalm DEF FreeOps
  <2> QED  BY <2>2, CalmOne
<1>8. TodoOK(nodes, c, p \o <<z>>)  BY <1>2, <1>5, <1>6, <1>7, ExtendTodo
<1>9. q = p \o <<z>>  BY <1>1, <1>3, <1>4 DEF DrainSteps
<1>10. IsList(p) /\ IsList(<<z>>)  BY <1>3, <1>4, Pushed, OneList DEF AllCalm
<1>11. q # <<>> /\ q[1] = x /\ IsList(q)  BY <1>6, <1>9, <1>10, Joined
<1>12. x = Merging(e, r, got, f)  BY <1>1 DEF Merging
<1>13. Begins(q, Merging(e, r, got, f))  BY <1>11, <1>12 DEF Begins
<1>14. Sole(q, <<"apply", EffectSteps(e, f)>>)
  <2>1. PICK y : y = <<"apply", EffectSteps(e, f)>>  OBVIOUS
  <2>2. a = <<y>>  BY <1>3, <2>1 DEF Apply
  <2>3. IsList(<<x>>) /\ Items(<<x>>) = {x} /\ IsList(a) /\ Items(a) = {y}
        /\ IsList(<<z>>) /\ Items(<<z>>) = {z}
    BY <2>2, OneList
  <2>4. Items(p) = {x} \cup {y}  BY <1>4, <2>3, Cat
  <2>5. Items(p \o <<z>>) = Items(p) \cup {z}  BY <1>10, <2>3, Cat
  <2>6. x[1] = "commit" /\ z[1] = "enqueue"  BY <1>1
  <2>7. Items(q) = {x, y, z}  BY <1>9, <2>4, <2>5
  <2> QED  BY <2>1, <2>6, <2>7 DEF Sole
<1> QED  BY <1>8, <1>9, <1>11, <1>13, <1>14

LEMMA TimesOutTodo ==
  ASSUME NEW nodes, NEW c, NEW e \in DOMAIN c.exec, ~IsWaiting(c, e), NEW r, NEW s, NEW q,
         q = <<<<"commit", e, r, {}, <<>>, NoEffects, <<>>>>, <<"enqueue", s>>>>
  PROVE  TodoOK(nodes, c, q) /\ Unmerged(q)
<1>1. PICK x, z : x = <<"commit", e, r, {}, <<>>, NoEffects, <<>>>> /\ z = <<"enqueue", s>>  OBVIOUS
<1>2. /\ Needs(nodes, c, x) /\ FirstOK(c, x)
      /\ x[1] \notin Final \cup {"sentinels", "mark_running"}
  <2>1. EffectsOK(NoEffects) /\ Drains(NoEffects, {})  BY NoEffectsOK DEF Drains
  <2> QED  BY <1>1, <2>1, PlainCommit
<1>3. AllCalm(nodes, c, <<z>>)
  <2>1. z[1] = "enqueue"  BY <1>1
  <2>2. Calm(z) /\ Needs(nodes, c, z)  BY <2>1, FreeCalm DEF FreeOps
  <2> QED  BY <2>2, CalmOne
<1>4. q = <<x, z>>  BY <1>1
<1>5. IsList(q) /\ q[1] = x /\ Tail(q) = <<z>>  BY <1>4, TwoList, TwoTail
<1>6. Plainly(nodes, c, x, <<z>>)
  <2>1. x[4] = {}  BY <1>1
  <2> QED  BY <1>2, <1>3, <2>1 DEF Plainly, Heeds
<1>7. Unmerged(q)
  <2>1. x[4] = {}  BY <1>1
  <2> QED  BY <1>5, <2>1 DEF Unmerged
<1> QED  BY <1>2, <1>5, <1>6, <1>7 DEF TodoOK, Follows

LEMMA ParksTodo ==
  ASSUME NEW nodes, NEW c, NEW e \in DOMAIN c.exec, ~IsWaiting(c, e), NEW w, NEW q,
         q = <<<<"mark_waiting", e, w>>>>
  PROVE  TodoOK(nodes, c, q) /\ Unmerged(q)
<1>1. PICK x : x = <<"mark_waiting", e, w>>  OBVIOUS
<1>2. x[1] = "mark_waiting" /\ x[2] = e  BY <1>1
<1>3. Needs(nodes, c, x)  BY <1>2 DEF Needs, OnExecution, Final
<1>4. FirstOK(c, x)  BY <1>2 DEF FirstOK
<1>5. q = <<x>>  BY <1>1
<1>6. IsList(q) /\ q[1] = x /\ q # <<>> /\ Len(q) = 1  BY <1>5, OneList
<1>7. Tail(q) = <<>>  BY <1>5, OneTail
<1>8. Follows(nodes, c, x, Tail(q))  BY <1>2, <1>7 DEF Follows, Final
<1>9. Unmerged(q)  BY <1>2, <1>6 DEF Unmerged
<1> QED  BY <1>3, <1>4, <1>6, <1>8, <1>9 DEF TodoOK
-----------------------------------------------------------------------------
(* A session starts.                                                       *)

LEMMA StartTodo ==
  ASSUME NEW nodes, NEW c, StoreOK(c), NEW s \in DOMAIN c.sess, ExecutionsOf(c, s) = {}, NEW plan,
         PlanOf(plan)
  PROVE  TodoOK(nodes, c, StartSteps(s, plan))
<1>1. PICK x, y, w, h, z : /\ x = <<"sentinels", s>> /\ y = <<"stage", s, plan>>
                           /\ w = <<"wire", s, plan>> /\ h = <<"head", Head0(s)>>
                           /\ z = <<"enqueue", s>>
  OBVIOUS
<1>2. /\ x[1] = "sentinels" /\ x[2] = s /\ y[1] = "stage" /\ y[2] = s /\ y[3] = plan
      /\ w[1] = "wire" /\ h[1] = "head" /\ h[2] = Head0(s) /\ z[1] = "enqueue"
  BY <1>1
<1>3. PICK q : q = StartSteps(s, plan)  OBVIOUS
<1>4. q = <<x, y, w, h, z>>  BY <1>1, <1>3 DEF StartSteps
<1>5. PICK p : p = <<w, h, z>>  OBVIOUS
<1>6. ~IsWaiting(c, Head0(s))
  <2>1. SUFFICES ASSUME IsWaiting(c, Head0(s)) PROVE FALSE  OBVIOUS
  <2>2. PICK e : e = Head0(s) /\ e \in DOMAIN c.exec  BY <2>1 DEF IsWaiting
  <2>3. c.exec[e].session = e[1]  BY <2>2, OwnName DEF StoreOK
  <2>4. e[1] = s  BY <2>2 DEF Head0
  <2>5. e \in ExecutionsOf(c, s)  BY <2>2, <2>3, <2>4 DEF ExecutionsOf
  <2> QED  BY <2>5
<1>7. Calm(h) /\ Needs(nodes, c, h)
  BY <1>2, <1>6 DEF Calm, Needs, Eager, Final, OnExecution
<1>8. Calm(w) /\ Needs(nodes, c, w)  BY <1>2, FreeCalm DEF FreeOps
<1>9. Calm(z) /\ Needs(nodes, c, z)  BY <1>2, FreeCalm DEF FreeOps
<1>12. AllCalm(nodes, c, p)
  <2>1. IsList(p) /\ Items(p) = {w, h, z}  BY <1>5, ThreeList
  <2> QED  BY <1>7, <1>8, <1>9, <2>1 DEF AllCalm
<1>13. PICK r : r = <<y, w, h, z>>  OBVIOUS
<1>14. IsList(r) /\ r # <<>> /\ r[1] = y /\ Tail(r) = p  BY <1>5, <1>13, FourList
<1>16. IsList(q) /\ q[1] = x /\ Tail(q) = r  BY <1>4, <1>13, FiveList
<1>17. Needs(nodes, c, x)  BY <1>2 DEF Needs, OnExecution, Final
<1>18. FirstOK(c, x)
  <2>1. Slots(s, 0) = {}
    <3>1. 0..(0 - 1) = {}  OBVIOUS
    <3> QED  BY <3>1 DEF Slots
  <2> QED  BY <1>2, <2>1 DEF FirstOK
<1>19. Follows(nodes, c, x, r)  BY <1>2, <1>12, <1>14 DEF Follows
<1> QED  BY <1>3, <1>16, <1>17, <1>18, <1>19 DEF TodoOK
-----------------------------------------------------------------------------
(* What a tick and a recovery find is finite.                              *)

LEMMA DueWaitsFinite ==
  ASSUME StoreOK(db)
  PROVE  IsFiniteSet(DueWaits) /\ DueWaits \subseteq DOMAIN db.exec
<1>1. IsFiniteSet(DOMAIN db.exec) /\ db.waiting = Having(db, "waiting")
  BY DEF StoreOK, Rows, Indexed
<1>2. DueWaits \subseteq DOMAIN db.exec  BY <1>1 DEF DueWaits, WaitingExecutions, Having
<1> QED  BY <1>1, <1>2, FS_Subset

LEMMA ActorMailFinite ==
  ASSUME IsList(box.events)
  PROVE  IsFiniteSet(ActorMail) /\ ActorMail \subseteq DOMAIN world.actors
<1>1. PICK n : n = Len(box.events) /\ n \in Nat /\ DOMAIN box.events = 1..n  BY ListIs
<1>2. PICK S : S = {k \in DOMAIN box.events : Claimable(box.events[k])}  OBVIOUS
<1>3. IsFiniteSet(S)
  <2>1. IsFiniteSet(1..n)  BY <1>1, FS_Interval
  <2>2. S \subseteq 1..n  BY <1>1, <1>2
  <2> QED  BY <2>1, <2>2, FS_Subset
<1>4. PICK f : f = [i \in S |-> box.events[i].letter.conversation]  OBVIOUS
<1>5. PICK T : T = {f[i] : i \in S}  OBVIOUS
<1>6. IsFiniteSet(T)
  <2>1. DOMAIN f = S  BY <1>4
  <2> QED  BY <1>3, <1>5, <2>1, ImageFinite
<1>7. ClaimableConversations(box) = T  BY <1>2, <1>4, <1>5 DEF ClaimableConversations
<1>8. ActorMail \subseteq T /\ ActorMail \subseteq DOMAIN world.actors  BY <1>7 DEF ActorMail
<1> QED  BY <1>6, <1>8, FS_Subset

LEMMA WakesCalm ==
  ASSUME NEW nodes, StoreOK(db)
  PROVE  AllCalm(nodes, db, Wakes)
<1>1. PICK S : S = DueWaits /\ IsFiniteSet(S)  BY DueWaitsFinite
<1>2. PICK f : f = [e \in S |-> <<"wake", e>>]  OBVIOUS
<1>3. PICK T : T = {f[e] : e \in S}  OBVIOUS
<1>4. ASSUME NEW e \in S  PROVE Calm(f[e]) /\ Needs(nodes, db, f[e])
  <2>1. f[e] = <<"wake", e>>  BY <1>2
  <2>2. f[e][1] = "wake"  BY <2>1
  <2> QED  BY <2>2, FreeCalm DEF FreeOps
<1>5. DOMAIN f = S  BY <1>2
<1>6. AllCalm(nodes, db, SetToSeq(T))  BY <1>1, <1>3, <1>4, <1>5, SetCalm
<1>7. T = {<<"wake", e>> : e \in DueWaits}  BY <1>1, <1>2, <1>3
<1> QED  BY <1>6, <1>7 DEF Wakes

LEMMA ActorsCalm ==
  ASSUME NEW nodes, WorldOK, IsList(box.events)
  PROVE  AllCalm(nodes, db, Actors)
<1>1. PICK S : S = ActorMail /\ IsFiniteSet(S) /\ S \subseteq DOMAIN world.actors
  BY ActorMailFinite
<1>2. PICK f : f = [c \in S |-> <<"create", c, world.actors[c], 0>>]  OBVIOUS
<1>3. PICK T : T = {f[c] : c \in S}  OBVIOUS
<1>4. ASSUME NEW c \in S  PROVE Calm(f[c]) /\ Needs(nodes, db, f[c])
  <2>1. f[c] = <<"create", c, world.actors[c], 0>>  BY <1>2
  <2>2. f[c][1] = "create" /\ f[c][3] = world.actors[c]  BY <2>1
  <2>3. c \in DOMAIN world.actors  BY <1>1
  <2>4. PlanOf(f[c][3])  BY <2>2, <2>3 DEF WorldOK, PlanOf
  <2> QED  BY <2>2, <2>4 DEF Calm, Needs, Eager, Final, OnExecution
<1>5. DOMAIN f = S  BY <1>2
<1>6. AllCalm(nodes, db, SetToSeq(T))  BY <1>1, <1>3, <1>4, <1>5, SetCalm
<1>7. T = {<<"create", c, world.actors[c], 0>> : c \in ActorMail}  BY <1>1, <1>2, <1>3
<1> QED  BY <1>6, <1>7 DEF Actors

LEMMA LapsesCalm ==
  ASSUME NEW nodes, IsFiniteSet(DOMAIN mons)
  PROVE  AllCalm(nodes, db, SetToSeq({<<"lapse", id>> : id \in Due(mons)}))
<1>1. PICK S : S = Due(mons)  OBVIOUS
<1>2. IsFiniteSet(S)
  <2>1. S \subseteq DOMAIN mons  BY <1>1 DEF Due
  <2> QED  BY <2>1, FS_Subset
<1>3. PICK f : f = [e \in S |-> <<"lapse", e>>]  OBVIOUS
<1>4. PICK T : T = {f[e] : e \in S}  OBVIOUS
<1>5. ASSUME NEW e \in S  PROVE Calm(f[e]) /\ Needs(nodes, db, f[e])
  <2>1. f[e] = <<"lapse", e>>  BY <1>3
  <2>2. f[e][1] = "lapse"  BY <2>1
  <2> QED  BY <2>2, FreeCalm DEF FreeOps
<1>6. DOMAIN f = S  BY <1>3
<1>7. AllCalm(nodes, db, SetToSeq(T))  BY <1>2, <1>4, <1>5, <1>6, SetCalm
<1>8. T = {<<"lapse", e>> : e \in Due(mons)}  BY <1>1, <1>3, <1>4
<1> QED  BY <1>7, <1>8
-----------------------------------------------------------------------------
(* Recovery: a loop over the running sessions, and then the outbox.        *)

Retried(c, s) == {<<"mark_retrying", e, "none">> : e \in RunningOf(c, s)}
RecoverDo(x, r, s) == r \o SetToSeq(Retried(x.db, s)) \o <<<<"enqueue", s>>>>
RecoverOK(x, i, r) ==
  AllCalm(x.nodes, x.db, r) /\ \A y \in Items(r) : y[1] \in {"mark_retrying", "enqueue"}
Recovering == INSTANCE Loops WITH Do <- RecoverDo, Inv <- RecoverOK

Recovers(nodes, c, r) ==
  AllCalm(nodes, c, r) /\ \A y \in Items(r) : y[1] \in {"mark_retrying", "enqueue"}

LEMMA RetriedCalm ==
  ASSUME NEW nodes, NEW c, StoreOK(c), NEW s, NEW q, q = SetToSeq(Retried(c, s))
  PROVE  Recovers(nodes, c, q)
<1>1. PICK S : S = RunningOf(c, s)  OBVIOUS
<1>2. IsFiniteSet(S) /\ S \subseteq DOMAIN c.exec
  <2>1. S \subseteq DOMAIN c.exec  BY <1>1 DEF RunningOf, ExecutionsOf
  <2>2. IsFiniteSet(DOMAIN c.exec)  BY DEF StoreOK, Rows
  <2> QED  BY <2>1, <2>2, FS_Subset
<1>3. PICK f : f = [e \in S |-> <<"mark_retrying", e, "none">>]  OBVIOUS
<1>4. PICK T : T = {f[e] : e \in S}  OBVIOUS
<1>5. ASSUME NEW e \in S  PROVE Calm(f[e]) /\ Needs(nodes, c, f[e]) /\ f[e][1] = "mark_retrying"
  <2>1. f[e] = <<"mark_retrying", e, "none">>  BY <1>3
  <2>2. f[e][1] = "mark_retrying" /\ f[e][2] = e  BY <2>1
  <2>3. c.exec[e].status = "running"  BY <1>1 DEF RunningOf
  <2>4. e \in DOMAIN c.exec /\ ~IsWaiting(c, e)  BY <1>2, <2>3, PendingNot
  <2> QED  BY <2>2, <2>4 DEF Calm, Needs, Eager, Final, OnExecution
<1>6. DOMAIN f = S  BY <1>3
<1>7. AllCalm(nodes, c, SetToSeq(T))  BY <1>2, <1>4, <1>5, <1>6, SetCalm
<1>8. T = Retried(c, s)  BY <1>1, <1>3, <1>4 DEF Retried
<1>9. IsFiniteSet(T)  BY <1>2, <1>4, <1>6, ImageFinite
<1>10. Items(q) = T  BY <1>8, <1>9, ListOfSet
<1>11. AllCalm(nodes, c, q)  BY <1>7, <1>8
<1>12. ASSUME NEW y \in Items(q)  PROVE y[1] \in {"mark_retrying", "enqueue"}
  <2>1. PICK e \in S : y = f[e]  BY <1>4, <1>10
  <2> QED  BY <1>5, <2>1
<1> QED  BY <1>11, <1>12 DEF Recovers

LEMMA RecoverOn ==
  ASSUME NEW nodes, NEW c, StoreOK(c), NEW r, Recovers(nodes, c, r), NEW s,
         NEW q, q = r \o SetToSeq(Retried(c, s)) \o <<<<"enqueue", s>>>>
  PROVE  Recovers(nodes, c, q)
<1>1. PICK p : p = SetToSeq(Retried(c, s))  OBVIOUS
<1>2. Recovers(nodes, c, p)  BY <1>1, RetriedCalm
<1>3. PICK z : z = <<"enqueue", s>>  OBVIOUS
<1>4. z[1] = "enqueue"  BY <1>3
<1>5. Calm(z) /\ Needs(nodes, c, z)  BY <1>4, FreeCalm DEF FreeOps
<1>6. AllCalm(nodes, c, <<z>>) /\ Items(<<z>>) = {z} /\ IsList(<<z>>)  BY <1>5, CalmOne, OneList
<1>7. PICK a : a = r \o p  OBVIOUS
<1>8. AllCalm(nodes, c, r) /\ AllCalm(nodes, c, p) /\ IsList(r) /\ IsList(p)
  BY <1>2 DEF Recovers, AllCalm
<1>9. AllCalm(nodes, c, a)  BY <1>7, <1>8, CalmCat
<1>10. IsList(a) /\ Items(a) = Items(r) \cup Items(p)  BY <1>7, <1>8, Cat
<1>11. q = a \o <<z>>  BY <1>1, <1>3, <1>7
<1>12. AllCalm(nodes, c, q)  BY <1>6, <1>9, <1>11, CalmCat
<1>13. Items(q) = Items(a) \cup {z}
  <2>1. PICK w : w = <<z>>  OBVIOUS
  <2>2. IsList(w) /\ Items(w) = {z}  BY <1>6, <2>1
  <2>3. IsList(a)  BY <1>10
  <2>4. Items(a \o w) = Items(a) \cup Items(w)  BY <2>2, <2>3, Cat
  <2> QED  BY <1>11, <2>1, <2>2, <2>4
<1> QED  BY <1>2, <1>4, <1>10, <1>12, <1>13 DEF Recovers

OutboxSteps == SetToSeq({<<"apply", EffectSteps(e, db.exec[e].effects)>> : e \in PendingEffects(db)})

LEMMA RecoveryIs ==
  ASSUME NEW nodes, StoreOK(db)
  PROVE  \E r : Recovers(nodes, db, r) /\ Recovery = r \o OutboxSteps
<1>1. PICK x : x = [db |-> db, nodes |-> nodes]  OBVIOUS
<1>2. x.db = db /\ x.nodes = nodes  BY <1>1
<1>3. PICK q : q = SetToSeq(db.running)  OBVIOUS
<1>4. IsList(q)
  <2>1. db.running = Live(db) /\ IsFiniteSet(DOMAIN db.sess)  BY DEF StoreOK, Indexed, Rows
  <2>2. db.running \subseteq DOMAIN db.sess  BY <2>1 DEF Live
  <2>3. IsFiniteSet(db.running)  BY <2>1, <2>2, FS_Subset
  <2> QED  BY <1>3, <2>3, ListOfSet
<1>5. Len(q) \in Nat  BY <1>4, ListIs
<1>6. RecoverOK(x, 0, <<>>)
  <2>1. AllCalm(x.nodes, x.db, <<>>)  BY CalmNone
  <2> QED  BY <2>1, NilList DEF RecoverOK
<1>7. ASSUME NEW i \in 1..Len(q), NEW b, RecoverOK(x, i - 1, b)
      PROVE  RecoverOK(x, i, RecoverDo(x, b, q[i]))
  <2>1. PICK s, a : s = q[i] /\ a = RecoverDo(x, b, q[i])  OBVIOUS
  <2>2. a = b \o SetToSeq(Retried(db, s)) \o <<<<"enqueue", s>>>>  BY <1>2, <2>1 DEF RecoverDo
  <2>3. Recovers(nodes, db, b)  BY <1>2, <1>7 DEF RecoverOK, Recovers
  <2>4. Recovers(nodes, db, a)  BY <2>2, <2>3, RecoverOn
  <2> QED  BY <1>2, <2>1, <2>4 DEF RecoverOK, Recovers
<1>8. PICK r : r = Recovering!Looped(x, <<>>, q)  OBVIOUS
<1>0. Recovering!Induction  BY NatIsAll DEF Recovering!Induction
<1>9. RecoverOK(x, Len(q), Recovering!Looped(x, <<>>, q))
  BY <1>0, <1>5, <1>6, <1>7, Recovering!LoopKeeps
<1>10. Recovers(nodes, db, r)  BY <1>2, <1>8, <1>9 DEF RecoverOK, Recovers
<1>11. Recovery = r \o OutboxSteps
  BY <1>2, <1>3, <1>8 DEF Recovery, OutboxSteps, ForEach, Recovering!Looped, RecoverDo, Retried
<1> QED  BY <1>10, <1>11

LEMMA OutboxAre ==
  ASSUME NEW nodes, StoreOK(db)
  PROVE  /\ AllCalm(nodes, db, OutboxSteps) /\ IsList(OutboxSteps)
         /\ Items(OutboxSteps) = {<<"apply", EffectSteps(e, db.exec[e].effects)>> : e \in PendingEffects(db)}
<1>1. PICK S : S = PendingEffects(db)  OBVIOUS
<1>2. IsFiniteSet(S) /\ S \subseteq DOMAIN db.exec
  <2>1. S \subseteq DOMAIN db.exec  BY <1>1 DEF PendingEffects
  <2>2. IsFiniteSet(DOMAIN db.exec)  BY DEF StoreOK, Rows
  <2> QED  BY <2>1, <2>2, FS_Subset
<1>3. PICK f : f = [e \in S |-> <<"apply", EffectSteps(e, db.exec[e].effects)>>]  OBVIOUS
<1>4. PICK T : T = {f[e] : e \in S}  OBVIOUS
<1>5. ASSUME NEW e \in S  PROVE Calm(f[e]) /\ Needs(nodes, db, f[e])
  <2>1. PICK q : q = EffectSteps(e, db.exec[e].effects)  OBVIOUS
  <2>2. f[e] = <<"apply", q>>  BY <1>3, <2>1
  <2>3. f[e][1] = "apply" /\ f[e][2] = q  BY <2>2
  <2>4. EffectsOK(db.exec[e].effects)  BY <1>2 DEF StoreOK, Rows, RowOK
  <2>5. PartsOK(q) /\ AcksFirst(q)  BY <2>1, <2>4, EffectStepsAre DEF StepsOK
  <2> QED  BY <2>3, <2>5 DEF Calm, Needs, Eager, Final, OnExecution
<1>6. DOMAIN f = S  BY <1>3
<1>7. AllCalm(nodes, db, SetToSeq(T))  BY <1>2, <1>4, <1>5, <1>6, SetCalm
<1>8. IsFiniteSet(T)  BY <1>2, <1>4, <1>6, ImageFinite
<1>9. IsList(SetToSeq(T)) /\ Items(SetToSeq(T)) = T  BY <1>8, ListOfSet
<1>10. T = {<<"apply", EffectSteps(e, db.exec[e].effects)>> : e \in PendingEffects(db)}
  BY <1>1, <1>3, <1>4
<1> QED  BY <1>7, <1>9, <1>10 DEF OutboxSteps

LEMMA RecoveryCalm ==
  ASSUME NEW nodes, StoreOK(db)
  PROVE  AllCalm(nodes, db, Recovery)
<1>1. PICK r : Recovers(nodes, db, r) /\ Recovery = r \o OutboxSteps  BY RecoveryIs
<1>2. AllCalm(nodes, db, r)  BY <1>1 DEF Recovers
<1>3. AllCalm(nodes, db, OutboxSteps)  BY OutboxAre
<1> QED  BY <1>1, <1>2, <1>3, CalmCat
-----------------------------------------------------------------------------
(* The mailbox keeps its letters, and what was acknowledged stays so.      *)

BoxOK(b) ==
  /\ DOMAIN b = {"events", "ids"} /\ IsList(b.events)
  /\ \A i \in 1..Len(b.events) : /\ DOMAIN b.events[i] = {"letter", "status", "consumer", "lease"}
                                 /\ b.events[i].letter.id \in DOMAIN b.ids
  /\ \A i, j \in 1..Len(b.events) : b.events[i].letter.id = b.events[j].letter.id => i = j

Onward(b, a) ==
  \A i \in 1..Len(b.events) :
    /\ i \in 1..Len(a.events) /\ a.events[i].letter = b.events[i].letter
    /\ b.events[i].status = "acknowledged" => a.events[i].status = "acknowledged"

\* Nothing in it was acknowledged since.
Spares(b, a) ==
  \A i \in 1..Len(b.events) :
    a.events[i].status = "acknowledged" => b.events[i].status = "acknowledged"

BoxOn(b, a) == BoxOK(a) /\ Onward(b, a)

LEMMA BoxSame == \A b : BoxOK(b) => BoxOn(b, b) /\ Spares(b, b)  BY DEF BoxOn, Onward, Spares

LEMMA EmptyBoxOK == BoxOK(EmptyBox)
<1>1. EmptyBox.events = <<>> /\ DOMAIN EmptyBox = {"events", "ids"}  BY DEF EmptyBox
<1>2. 1..0 = {}  OBVIOUS
<1> QED  BY <1>1, <1>2, NilList DEF BoxOK

LEMMA DeliverOn ==
  ASSUME NEW b, BoxOK(b), NEW m, NEW a, a = Deliver(b, m)
  PROVE  BoxOn(b, a) /\ Spares(b, a)
<1>1. CASE Known(b, m)
  <2>1. a = b  BY <1>1 DEF Deliver
  <2> QED  BY <2>1, BoxSame
<1>2. CASE ~Known(b, m)
  <2>1. PICK x : x = [letter |-> m, status |-> "pending", consumer |-> <<>>, lease |-> "none"]
    OBVIOUS
  <2>2. DOMAIN x = {"letter", "status", "consumer", "lease"} /\ x.letter = m /\ x.status = "pending"
    BY <2>1
  <2>3. a.events = Append(b.events, x) /\ DOMAIN a = {"events", "ids"}
        /\ DOMAIN a.ids = DOMAIN b.ids \cup {m.id}
    BY <1>2, <2>1 DEF Deliver
  <2>4. PICK p, q, n : p = b.events /\ q = a.events /\ n = Len(p)  OBVIOUS
  <2>5. IsList(p) /\ n \in Nat  BY <2>4, ListIs DEF BoxOK
  <2>6. IsList(q) /\ Len(q) = n + 1 /\ q[n + 1] = x /\ \A i \in 1..n : q[i] = p[i]
    <3>1. q = Append(p, x)  BY <2>3, <2>4
    <3>2. IsList(q) /\ Len(q) = Len(p) + 1 /\ q[Len(p) + 1] = x /\ \A i \in 1..Len(p) : q[i] = p[i]
      BY <2>5, <3>1, AppendList
    <3> QED  BY <2>4, <3>2
  <2>7. m.id \notin DOMAIN b.ids  BY <1>2 DEF Known
  <2>8. 1..(n + 1) = 1..n \cup {n + 1}  BY <2>5
  <2>9. \A i \in 1..n : DOMAIN p[i] = {"letter", "status", "consumer", "lease"} /\ p[i].letter.id \in DOMAIN b.ids
    BY <2>4 DEF BoxOK
  <2>10. \A i, j \in 1..n : p[i].letter.id = p[j].letter.id => i = j  BY <2>4 DEF BoxOK
  <2>11. \A i \in 1..(n + 1) : DOMAIN q[i] = {"letter", "status", "consumer", "lease"}
    BY <2>2, <2>6, <2>8, <2>9
  <2>12. \A i \in 1..(n + 1) : q[i].letter.id \in DOMAIN a.ids
    BY <2>2, <2>3, <2>6, <2>8, <2>9
  <2>13. \A i, j \in 1..(n + 1) : q[i].letter.id = q[j].letter.id => i = j
    BY <2>2, <2>6, <2>7, <2>8, <2>9, <2>10
  <2>14. BoxOK(a)  BY <2>3, <2>4, <2>6, <2>11, <2>12, <2>13 DEF BoxOK
  <2>15. Onward(b, a)  BY <2>4, <2>6, <2>8 DEF Onward
  <2>16. Spares(b, a)  BY <2>4, <2>6 DEF Spares
  <2> QED  BY <2>14, <2>15, <2>16 DEF BoxOn
<1> QED  BY <1>1, <1>2

\* Events change their status in place.
Restates(b, a) ==
  /\ DOMAIN a = DOMAIN b /\ a.ids = b.ids
  /\ DOMAIN a.events = DOMAIN b.events /\ a.events = [i \in DOMAIN b.events |-> a.events[i]]
  /\ \A i \in 1..Len(b.events) : /\ DOMAIN a.events[i] = DOMAIN b.events[i]
                                 /\ a.events[i].letter = b.events[i].letter
                                 /\ b.events[i].status = "acknowledged" => a.events[i].status = "acknowledged"

LEMMA RestateOn ==
  ASSUME NEW b, BoxOK(b), NEW a, Restates(b, a)
  PROVE  BoxOn(b, a) /\ Len(a.events) = Len(b.events)
<1>1. PICK p, q, n : p = b.events /\ q = a.events /\ n = Len(p)  OBVIOUS
<1>2. IsList(p)  BY <1>1 DEF BoxOK
<1>3. DOMAIN q = DOMAIN p /\ q = [i \in DOMAIN p |-> q[i]]  BY <1>1 DEF Restates
<1>4. IsList(q) /\ Len(q) = n  BY <1>1, <1>2, <1>3, MapList
<1>5. \A i \in 1..n : /\ DOMAIN q[i] = DOMAIN p[i] /\ q[i].letter = p[i].letter
                      /\ p[i].status = "acknowledged" => q[i].status = "acknowledged"
  BY <1>1 DEF Restates
<1>6. \A i \in 1..n : DOMAIN p[i] = {"letter", "status", "consumer", "lease"} /\ p[i].letter.id \in DOMAIN b.ids
  BY <1>1 DEF BoxOK
<1>7. \A i, j \in 1..n : p[i].letter.id = p[j].letter.id => i = j  BY <1>1 DEF BoxOK
<1>8. DOMAIN a = {"events", "ids"} /\ a.ids = b.ids  BY DEF BoxOK, Restates
<1>9. BoxOK(a)  BY <1>1, <1>4, <1>5, <1>6, <1>7, <1>8 DEF BoxOK
<1>10. Onward(b, a)  BY <1>1, <1>4, <1>5 DEF Onward
<1> QED  BY <1>1, <1>4, <1>9, <1>10 DEF BoxOn

LEMMA LeaseOn ==
  ASSUME NEW b, BoxOK(b), NEW P, \A i \in P : Claimable(b.events[i]), NEW who,
         NEW a, a = Lease(b, P, who)
  PROVE  BoxOn(b, a) /\ Spares(b, a)
<1>1. PICK p, n : p = b.events /\ n = Len(p) /\ DOMAIN p = 1..n  BY ListIs DEF BoxOK
<1>2. DOMAIN b = {"events", "ids"}  BY DEF BoxOK
<1>3. PICK q : q = [i \in DOMAIN p |->
         IF i \in P THEN [p[i] EXCEPT !.status = "leased", !.consumer = who, !.lease = "held"]
         ELSE p[i]]
  OBVIOUS
<1>4. a = [b EXCEPT !.events = q]  BY <1>1, <1>3 DEF Lease
<1>5. a.events = q /\ a.ids = b.ids /\ DOMAIN a = DOMAIN b  BY <1>2, <1>4
<1>6. ASSUME NEW i \in 1..n
      PROVE  /\ DOMAIN q[i] = DOMAIN p[i] /\ q[i].letter = p[i].letter
             /\ p[i].status = "acknowledged" => q[i].status = "acknowledged"
             /\ q[i].status = "acknowledged" => p[i].status = "acknowledged"
  <2>1. DOMAIN p[i] = {"letter", "status", "consumer", "lease"}  BY <1>1 DEF BoxOK
  <2>2. CASE i \in P
    <3>1. q[i] = [p[i] EXCEPT !.status = "leased", !.consumer = who, !.lease = "held"]
      BY <1>1, <1>3, <2>2
    <3>2. DOMAIN q[i] = DOMAIN p[i] /\ q[i].letter = p[i].letter /\ q[i].status = "leased"  BY <2>1, <3>1
    <3>3. p[i].status # "acknowledged"  BY <1>1, <2>2 DEF Claimable
    <3> QED  BY <3>2, <3>3
  <2>3. CASE i \notin P  BY <1>1, <1>3, <2>3
  <2> QED  BY <2>2, <2>3
<1>7. DOMAIN q = DOMAIN p /\ q = [i \in DOMAIN p |-> q[i]]  BY <1>3
<1>8. Restates(b, a)  BY <1>1, <1>5, <1>6, <1>7 DEF Restates
<1>9. Spares(b, a)  BY <1>1, <1>5, <1>6 DEF Spares
<1> QED  BY <1>8, <1>9, RestateOn

LEMMA AcknowledgeOn ==
  ASSUME NEW b, BoxOK(b), NEW conversation, NEW ids, NEW a, a = Acknowledge(b, conversation, ids)
  PROVE  /\ BoxOn(b, a)
         /\ \A i \in 1..Len(b.events) :
              b.events[i].letter.conversation = conversation /\ b.events[i].letter.id \in ids
                => a.events[i].status = "acknowledged"
<1>1. PICK p, n : p = b.events /\ n = Len(p) /\ DOMAIN p = 1..n  BY ListIs DEF BoxOK
<1>2. DOMAIN b = {"events", "ids"}  BY DEF BoxOK
<1>3. PICK P : P = {i \in Selected(b, conversation, ids) : b.events[i].status # "acknowledged"}
  OBVIOUS
<1>4. PICK q : q = [i \in DOMAIN p |->
         IF i \in P THEN [p[i] EXCEPT !.status = "acknowledged", !.consumer = <<>>, !.lease = "none"]
         ELSE p[i]]
  OBVIOUS
<1>5. a = [b EXCEPT !.events = q]  BY <1>1, <1>3, <1>4 DEF Acknowledge
<1>6. a.events = q /\ a.ids = b.ids /\ DOMAIN a = DOMAIN b  BY <1>2, <1>5
<1>7. ASSUME NEW i \in 1..n
      PROVE  /\ DOMAIN q[i] = DOMAIN p[i] /\ q[i].letter = p[i].letter
             /\ p[i].status = "acknowledged" => q[i].status = "acknowledged"
             /\ i \in P => q[i].status = "acknowledged"
  <2>1. DOMAIN p[i] = {"letter", "status", "consumer", "lease"}  BY <1>1 DEF BoxOK
  <2>2. CASE i \in P
    <3>1. q[i] = [p[i] EXCEPT !.status = "acknowledged", !.consumer = <<>>, !.lease = "none"]
      BY <1>1, <1>4, <2>2
    <3>2. DOMAIN q[i] = DOMAIN p[i] /\ q[i].letter = p[i].letter /\ q[i].status = "acknowledged"
      BY <2>1, <3>1
    <3> QED  BY <3>2
  <2>3. CASE i \notin P  BY <1>1, <1>4, <2>3
  <2> QED  BY <2>2, <2>3
<1>8. DOMAIN q = DOMAIN p /\ q = [i \in DOMAIN p |-> q[i]]  BY <1>4
<1>9. Restates(b, a)  BY <1>1, <1>6, <1>7, <1>8 DEF Restates
<1>10. ASSUME NEW i \in 1..n, p[i].letter.conversation = conversation, p[i].letter.id \in ids
       PROVE  q[i].status = "acknowledged"
  <2>1. i \in Selected(b, conversation, ids)  BY <1>1, <1>10 DEF Selected, In
  <2>2. i \in P \/ p[i].status = "acknowledged"  BY <1>1, <1>3, <2>1
  <2> QED  BY <1>7, <2>2
<1> QED  BY <1>1, <1>6, <1>9, <1>10, RestateOn

Expired(b, i) == [b EXCEPT !.events[i].lease = "expired"]

LEMMA ExpireOn ==
  ASSUME NEW b, BoxOK(b), NEW i \in DOMAIN b.events, NEW a, a = Expired(b, i)
  PROVE  BoxOn(b, a) /\ Spares(b, a)
<1>1. PICK p, n : p = b.events /\ n = Len(p) /\ DOMAIN p = 1..n  BY ListIs DEF BoxOK
<1>2. DOMAIN b = {"events", "ids"}  BY DEF BoxOK
<1>3. PICK x : x = [p[i] EXCEPT !.lease = "expired"]  OBVIOUS
<1>4. PICK q : q = [p EXCEPT ![i] = x]  OBVIOUS
<1>5. a = [b EXCEPT !.events = q]  BY <1>1, <1>2, <1>3, <1>4 DEF Expired
<1>6. a.events = q /\ a.ids = b.ids /\ DOMAIN a = DOMAIN b  BY <1>2, <1>5
<1>7. ASSUME NEW j \in 1..n
      PROVE  /\ DOMAIN q[j] = DOMAIN p[j] /\ q[j].letter = p[j].letter
             /\ q[j].status = p[j].status
  <2>1. DOMAIN p[j] = {"letter", "status", "consumer", "lease"}  BY <1>1 DEF BoxOK
  <2>2. CASE j = i
    <3>1. q[j] = x  BY <1>1, <1>4, <2>2
    <3> QED  BY <1>3, <2>1, <2>2, <3>1
  <2>3. CASE j # i
    <3>1. q[j] = p[j]  BY <1>1, <1>4, <2>3
    <3> QED  BY <3>1
  <2> QED  BY <2>2, <2>3
<1>8. DOMAIN q = DOMAIN p /\ q = [j \in DOMAIN p |-> q[j]]  BY <1>4
<1>9. Restates(b, a)  BY <1>1, <1>6, <1>7, <1>8 DEF Restates
<1>10. Spares(b, a)  BY <1>1, <1>6, <1>7 DEF Spares
<1> QED  BY <1>9, <1>10, RestateOn
-----------------------------------------------------------------------------
(* The monitors stay finitely many.                                        *)

MonsOK(m) == IsFiniteSet(DOMAIN m)

LEMMA ArmOK == \A m, id, x : MonsOK(m) => MonsOK(Arm(m, id, x))
<1> SUFFICES ASSUME NEW m, NEW id, NEW x, MonsOK(m)  PROVE MonsOK(Arm(m, id, x))  OBVIOUS
<1>1. DOMAIN Arm(m, id, x) \in {DOMAIN m, DOMAIN m \cup {id}}  BY DEF Arm
<1>2. IsFiniteSet(DOMAIN m \cup {id})  BY FS_AddElement DEF MonsOK
<1> QED  BY <1>1, <1>2 DEF MonsOK

LEMMA DisarmOK == \A m, ids : MonsOK(m) => MonsOK(Disarm(m, ids))
<1> SUFFICES ASSUME NEW m, NEW ids, MonsOK(m)  PROVE MonsOK(Disarm(m, ids))  OBVIOUS
<1>1. DOMAIN Disarm(m, ids) \subseteq DOMAIN m  BY DEF Disarm
<1> QED  BY <1>1, FS_Subset DEF MonsOK

LEMMA ObserveOK == \A m, corr, src : MonsOK(m) => MonsOK(Observe(m, corr, src))
<1> SUFFICES ASSUME NEW m, NEW corr, NEW src, MonsOK(m)  PROVE MonsOK(Observe(m, corr, src))  OBVIOUS
<1>1. DOMAIN Observe(m, corr, src) \subseteq DOMAIN m  BY DEF Observe
<1> QED  BY <1>1, FS_Subset DEF MonsOK

LEMMA MarkLapsedOK == \A m, id : MonsOK(m) => MonsOK(MarkLapsed(m, id))
<1> SUFFICES ASSUME NEW m, NEW id, MonsOK(m)  PROVE MonsOK(MarkLapsed(m, id))  OBVIOUS
<1>1. CASE id \notin DOMAIN m  BY <1>1 DEF MarkLapsed
<1>2. CASE id \in DOMAIN m /\ m[id].heartbeat
  <2>1. DOMAIN MarkLapsed(m, id) = DOMAIN m  BY <1>2 DEF MarkLapsed
  <2> QED  BY <2>1 DEF MonsOK
<1>3. CASE id \in DOMAIN m /\ ~m[id].heartbeat
  <2>1. MarkLapsed(m, id) = Disarm(m, {id})  BY <1>3 DEF MarkLapsed
  <2> QED  BY <2>1, DisarmOK
<1> QED  BY <1>1, <1>2, <1>3
-----------------------------------------------------------------------------
(* The inductive invariant of the engine, and how steps keep it.           *)

EngineInv ==
  /\ StoreOK(db) /\ born \in Nat /\ NamedIn(db, born) /\ WorldOK
  /\ BoxOK(box) /\ MonsOK(mons)
  /\ TodoOK(DOMAIN world.nodes, db, todo) /\ (~up => todo = <<>>)

\* The mail that executions merged, and what they owe, stay.
Quiet == EngineInv' /\ BoxOn(box, box') /\ \E W : Moves(db, db', W, {})

\* The first operation gives way to others that neither apply nor commit.
Onwards ==
  /\ Quiet /\ up /\ up' = up /\ todo # <<>> /\ todo[1][1] \notin {"apply", "commit"} /\ NoCommit(todo')
  /\ \E more : NoApply(more) /\ todo' = more \o Tail(todo)

\* A call begins, or comes to its commit.
Scripted == Quiet /\ up /\ up' = up /\ NoApply(todo) /\ Unmerged(todo')

LEMMA HeadIs ==
  ASSUME NEW nodes, NEW c, NEW q, TodoOK(nodes, c, q), q # <<>>, NEW x, x = Head(q)
  PROVE  IsList(q) /\ x = q[1] /\ Needs(nodes, c, x) /\ FirstOK(c, x) /\ Follows(nodes, c, x, Tail(q))
BY TailList DEF TodoOK

LEMMA DoneStep ==
  ASSUME NEW nodes, NEW c, NEW d, NEW M, Moves(c, d, {}, M), NEW q, TodoOK(nodes, c, q),
         q # <<>>, q[1][1] # "sentinels", NEW r, r = <<>> \o Tail(q)
  PROVE  TodoOK(nodes, d, r) /\ r = Tail(q) /\ NoCommit(r)
<1>1. IsList(q) /\ Follows(nodes, c, q[1], Tail(q))  BY DEF TodoOK
<1>2. PICK t : t = Tail(q) /\ IsList(t)  BY <1>1, TailList
<1>3. r = t  BY <1>2, NilFirst
<1>4. TodoOK(nodes, d, Tail(q))  BY DoneTodo
<1>5. NoCommit(t)
  <2>1. CASE AllCalm(nodes, c, t) /\ t # <<>>
    <3>1. Calm(t[1])  BY <2>1, CalmTail
    <3> QED  BY <3>1 DEF Calm, Eager, NoCommit
  <2>2. CASE t = <<>>  BY <2>2 DEF NoCommit
  <2>3. CASE t[1][1] = "run"  BY <2>3 DEF NoCommit
  <2> QED  BY <1>1, <1>2, <2>1, <2>2, <2>3 DEF Follows, Plainly
<1> QED  BY <1>2, <1>3, <1>4, <1>5

LEMMA MoreStep ==
  ASSUME NEW nodes, NEW c, NEW d, NEW M, Moves(c, d, {}, M), NEW q, TodoOK(nodes, c, q),
         q # <<>>, q[1][1] \notin {"sentinels", "mark_running"}, NEW more, AllCalm(nodes, d, more),
         NEW r, r = more \o Tail(q)
  PROVE  TodoOK(nodes, d, r) /\ NoCommit(r)
<1>1. AllCalm(nodes, d, Tail(q))  BY RestCalm
<1>2. AllCalm(nodes, d, r)  BY <1>1, CalmCat
<1>3. NoCommit(r)
  <2>1. CASE r = <<>>  BY <2>1 DEF NoCommit
  <2>2. CASE r # <<>>
    <3>1. Calm(r[1])  BY <1>2, <2>2, CalmTail
    <3> QED  BY <3>1 DEF Calm, Eager, NoCommit
  <2> QED  BY <2>1, <2>2
<1> QED  BY <1>2, <1>3, CalmTodo

LEMMA NilLast ==
  ASSUME NEW q, IsList(q)
  PROVE  q \o <<>> = q
<1>1. PICK T : q \in Seq(T)  BY DEF IsList
<1> QED  BY <1>1, ConcatEmptySeq

LEMMA LastStep ==
  ASSUME NEW nodes, NEW c, NEW q, TodoOK(nodes, c, q), q # <<>>, q[1][1] \in Final, NEW more,
         IsList(more), NEW r, r = more \o Tail(q)
  PROVE  r = more /\ NoApply(q)
<1>1. IsList(q) /\ Follows(nodes, c, q[1], Tail(q))  BY DEF TodoOK
<1>2. Tail(q) = <<>>  BY <1>1 DEF Follows, Plainly, Final
<1>3. r = more  BY <1>2, NilLast
<1>4. PICK n : n = Len(q) /\ n \in Nat \ {0}  BY <1>1, TailList
<1>5. n = 1
  <2>1. Len(Tail(q)) = n - 1  BY <1>1, <1>4, TailList
  <2>2. n - 1 = 0  BY <1>2, <2>1, NilList
  <2>3. n \in Nat  BY <1>4
  <2> QED  BY <2>2, <2>3
<1>6. ASSUME NEW x \in Items(q)  PROVE x[1] # "apply"
  <2>1. 1..1 = {1}  OBVIOUS
  <2>2. x = q[1]  BY <1>4, <1>5, <2>1 DEF Items
  <2> QED  BY <2>2 DEF Final
<1> QED  BY <1>1, <1>3, <1>6 DEF NoApply

LEMMA TodoList == \A nodes, c, q : TodoOK(nodes, c, q) => IsList(q)  BY NilList DEF TodoOK
LEMMA NilNone == NoApply(<<>>)  BY NilList DEF NoApply
LEMMA NamedOn == \A c, d, n : NamedIn(c, n) /\ DOMAIN d.sess = DOMAIN c.sess => NamedIn(d, n)
BY DEF NamedIn

\* What most steps leave alone.
LEMMA StoreKeeps ==
  ASSUME EngineInv, StoreOK(db'), DOMAIN db'.sess = DOMAIN db.sess, World, up, UNCHANGED <<box, mons>>,
         TodoOK(DOMAIN world.nodes, db', todo')
  PROVE  EngineInv' /\ BoxOn(box, box') /\ up' = up
<1>1. world' = world /\ born' = born /\ up' = up /\ box' = box /\ mons' = mons  BY DEF World
<1>2. NamedIn(db', born')  BY <1>1, NamedOn DEF EngineInv
<1>3. WorldOK'  BY <1>1 DEF EngineInv, WorldOK
<1>4. BoxOK(box') /\ MonsOK(mons')  BY <1>1 DEF EngineInv
<1>5. born' \in Nat  BY <1>1 DEF EngineInv
<1>6. TodoOK(DOMAIN world'.nodes, db', todo')  BY <1>1
<1>7. EngineInv'  BY <1>1, <1>2, <1>3, <1>4, <1>5, <1>6 DEF EngineInv
<1>8. BoxOn(box, box')  BY <1>1, BoxSame DEF EngineInv
<1> QED  BY <1>1, <1>7, <1>8
-----------------------------------------------------------------------------
(* Writes to the store.                                                    *)

\* A write that marks rows.
LEMMA MarksOnwards ==
  ASSUME EngineInv, up, todo # <<>>, todo[1][1] \notin {"sentinels", "apply", "commit"},
         Marks(db, db'), OnlyStore(db', <<>>)
  PROVE  Onwards
<1>1. PICK nodes : nodes = DOMAIN world.nodes /\ TodoOK(nodes, db, todo)  BY DEF EngineInv
<1>2. PICK c, d, q, r : c = db /\ d = db' /\ q = todo /\ r = todo'  OBVIOUS
<1>3. StoreOK(d) /\ SameIds(c, d) /\ Moves(c, d, {}, {})  BY <1>2 DEF Marks
<1>4. r = <<>> \o Tail(q)  BY <1>2 DEF OnlyStore, Goes
<1>5. TodoOK(nodes, c, q) /\ q # <<>> /\ q[1][1] # "sentinels"  BY <1>1, <1>2
<1>6. TodoOK(nodes, d, r) /\ NoCommit(r)  BY <1>3, <1>4, <1>5, DoneStep
<1>7. EngineInv' /\ BoxOn(box, box') /\ up' = up
  <2>1. StoreOK(db') /\ DOMAIN db'.sess = DOMAIN db.sess  BY <1>2, <1>3 DEF SameIds
  <2>2. World /\ UNCHANGED <<box, mons>>  BY DEF OnlyStore
  <2>3. TodoOK(DOMAIN world.nodes, db', todo')  BY <1>1, <1>2, <1>6
  <2> QED  BY <2>1, <2>2, <2>3, StoreKeeps
<1>8. Quiet  BY <1>2, <1>3, <1>7 DEF Quiet
<1> QED  BY <1>2, <1>4, <1>6, <1>7, <1>8, NilNone DEF Onwards

LEMMA MarkWrites ==
  ASSUME EngineInv, NEW name, Is(name), OnlyStore(Does(db, op), <<>>),
         name \in {"mark_running", "mark_completed", "mark_failed", "mark_retrying",
                   "complete_session", "fail_session"}
  PROVE  Onwards
<1>1. up /\ todo # <<>> /\ TodoOK(DOMAIN world.nodes, db, todo) /\ StoreOK(db)
  BY DEF Is, EngineInv
<1>2. PICK x : x = op  OBVIOUS
<1>3. x = todo[1] /\ Needs(DOMAIN world.nodes, db, x)
  BY <1>1, <1>2, HeadIs DEF op
<1>4. x[1] = name  BY <1>2 DEF Is
<1>5. PICK c, d : c = db /\ d = Does(c, x) /\ d = db'  BY <1>2 DEF OnlyStore
<1>6. Marks(c, d)
  <2>1. CASE name \in {"mark_running", "mark_completed", "mark_failed", "mark_retrying"}
    <3>1. PICK e : e = x[2]  OBVIOUS
    <3>2. e \in DOMAIN c.exec /\ ~IsWaiting(c, e)
      BY <1>3, <1>4, <1>5, <2>1, <3>1 DEF Needs, OnExecution
    <3>3. x[2] = e /\ x[1] \in {"mark_running", "mark_completed", "mark_failed", "mark_retrying"}
      BY <1>4, <2>1, <3>1
    <3>4. StoreOK(c) /\ d = Does(c, x)  BY <1>1, <1>5
    <3> QED  BY <3>2, <3>3, <3>4, DoesMark
  <2>2. CASE name \in {"complete_session", "fail_session"}
    <3>1. PICK s : s = x[2]  OBVIOUS
    <3>2. s \in DOMAIN c.sess  BY <1>3, <1>4, <1>5, <2>2, <3>1 DEF Needs
    <3>3. x[2] = s /\ x[1] \in {"complete_session", "fail_session"}  BY <1>4, <2>2, <3>1
    <3>4. StoreOK(c) /\ d = Does(c, x)  BY <1>1, <1>5
    <3> QED  BY <3>2, <3>3, <3>4, DoesFinish
  <2> QED  BY <2>1, <2>2
<1>7. OnlyStore(db', <<>>)  BY <1>2, <1>5
<1>8. todo[1][1] \notin {"sentinels", "apply", "commit"}  BY <1>3, <1>4
<1> QED  BY <1>1, <1>5, <1>6, <1>7, <1>8, MarksOnwards

LEMMA WaitingWrites ==
  ASSUME EngineInv, Is("mark_waiting"), OnlyStore(Does(db, op), <<>>)
  PROVE  Onwards
<1>1. PICK nodes : nodes = DOMAIN world.nodes /\ TodoOK(nodes, db, todo)  BY DEF EngineInv
<1>2. PICK c, d, q, r, x : c = db /\ d = db' /\ q = todo /\ r = todo' /\ x = op  OBVIOUS
<1>3. x = Head(q) /\ q # <<>> /\ up /\ x[1] = "mark_waiting"  BY <1>2 DEF op, Is
<1>4. TodoOK(nodes, c, q) /\ StoreOK(c)  BY <1>1, <1>2 DEF EngineInv
<1>5. x = q[1] /\ Needs(nodes, c, x)  BY <1>3, <1>4, HeadIs
<1>6. PICK e : e = x[2] /\ e \in DOMAIN c.exec  BY <1>3, <1>5 DEF Needs, OnExecution, Final
<1>7. StoreOK(d) /\ SameIds(c, d) /\ Moves(c, d, {e}, {})
  <2>1. x[2] = e /\ x[1] = "mark_waiting" /\ d = Does(c, x)  BY <1>2, <1>3, <1>6 DEF OnlyStore
  <2> QED  BY <1>4, <1>6, <2>1, DoesWaiting
<1>8. r = <<>> \o Tail(q)  BY <1>2 DEF OnlyStore, Goes
<1>9. r = <<>>
  <2>1. q[1][1] \in Final  BY <1>3, <1>5 DEF Final
  <2> QED  BY <1>3, <1>4, <1>8, <2>1, NilList, LastStep
<1>10. TodoOK(nodes, d, r) /\ NoCommit(r)  BY <1>9, NilTodo DEF NoCommit
<1>11. EngineInv' /\ BoxOn(box, box') /\ up' = up
  <2>1. StoreOK(db') /\ DOMAIN db'.sess = DOMAIN db.sess  BY <1>2, <1>7 DEF SameIds
  <2>2. World /\ UNCHANGED <<box, mons>>  BY DEF OnlyStore
  <2>3. TodoOK(DOMAIN world.nodes, db', todo')  BY <1>1, <1>2, <1>10
  <2> QED  BY <1>3, <2>1, <2>2, <2>3, StoreKeeps
<1>12. Quiet  BY <1>2, <1>7, <1>11 DEF Quiet
<1>13. todo[1][1] \notin {"apply", "commit"}  BY <1>2, <1>3, <1>5
<1> QED  BY <1>2, <1>3, <1>8, <1>10, <1>11, <1>12, <1>13, NilNone DEF Onwards

LEMMA WakeWrites ==
  ASSUME EngineInv, Is("wake"),
         OnlyStore(Does(db, op), IF IsWaiting(db, op[2]) THEN <<<<"send", op[2]>>>> ELSE <<>>)
  PROVE  Onwards
<1>1. PICK nodes : nodes = DOMAIN world.nodes /\ TodoOK(nodes, db, todo)  BY DEF EngineInv
<1>2. PICK c, d, q, r, x : c = db /\ d = db' /\ q = todo /\ r = todo' /\ x = op  OBVIOUS
<1>3. x = Head(q) /\ q # <<>> /\ up /\ x[1] = "wake"  BY <1>2 DEF op, Is
<1>4. TodoOK(nodes, c, q) /\ StoreOK(c)  BY <1>1, <1>2 DEF EngineInv
<1>5. x = q[1]  BY <1>3, <1>4, HeadIs
<1>6. StoreOK(d) /\ SameIds(c, d) /\ Moves(c, d, {}, {})
  <2>1. d = Does(c, x)  BY <1>2 DEF OnlyStore
  <2> QED  BY <1>3, <1>4, <2>1, DoesWake DEF Marks
<1>7. PICK more : /\ more = IF IsWaiting(db, op[2]) THEN <<<<"send", op[2]>>>> ELSE <<>>
                  /\ r = more \o Tail(q)
  BY <1>2 DEF OnlyStore, Goes
<1>8. AllCalm(nodes, d, more) /\ NoApply(more)
  <2>1. CASE more = <<>>  BY <2>1, CalmNone, NilNone
  <2>2. CASE more # <<>>
    <3>1. PICK y : y = <<"send", op[2]>>  OBVIOUS
    <3>2. y[1] = "send"  BY <3>1
    <3>3. more = <<y>>  BY <1>7, <2>2, <3>1
    <3>4. AllCalm(nodes, d, <<y>>)  BY <3>2, FreeCalm, CalmOne DEF FreeOps
    <3>5. NoApply(<<y>>)  BY <3>2, OneList DEF NoApply
    <3> QED  BY <3>3, <3>4, <3>5
  <2> QED  BY <2>1, <2>2
<1>9. q[1][1] \notin {"sentinels", "mark_running"}  BY <1>3, <1>5
<1>10. TodoOK(nodes, d, r) /\ NoCommit(r)
  BY <1>3, <1>4, <1>6, <1>7, <1>8, <1>9, MoreStep
<1>11. EngineInv' /\ BoxOn(box, box') /\ up' = up
  <2>1. StoreOK(db') /\ DOMAIN db'.sess = DOMAIN db.sess  BY <1>2, <1>6 DEF SameIds
  <2>2. World /\ UNCHANGED <<box, mons>>  BY DEF OnlyStore
  <2>3. TodoOK(DOMAIN world.nodes, db', todo')  BY <1>1, <1>2, <1>10
  <2> QED  BY <1>3, <2>1, <2>2, <2>3, StoreKeeps
<1>12. Quiet  BY <1>2, <1>6, <1>11 DEF Quiet
<1>13. todo[1][1] \notin {"apply", "commit"}  BY <1>2, <1>3, <1>5
<1> QED  BY <1>2, <1>3, <1>7, <1>8, <1>10, <1>11, <1>12, <1>13 DEF Onwards
-----------------------------------------------------------------------------
(* A commit.                                                               *)

\* x, which is first, is committed.
Commits(x, names) ==
  /\ EngineInv' /\ box' = box /\ up /\ up' = up
  /\ todo # <<>> /\ IsList(todo) /\ x = todo[1] /\ x[1] = "commit" /\ x[2] \in DOMAIN db.exec
  /\ FirstOK(db, x) /\ Committed(db, db', x[2], x[4], x[6], names)
  /\ todo' = Tail(todo) /\ NoCommit(todo') /\ Heeds(x, todo')

LEMMA CommitWrites ==
  ASSUME EngineInv, Is("commit"), OnlyStore(Does(db, op), <<>>)
  PROVE  \E x, names : Commits(x, names)
<1>1. PICK nodes : nodes = DOMAIN world.nodes /\ TodoOK(nodes, db, todo)  BY DEF EngineInv
<1>2. PICK c, d, q, r, x : c = db /\ d = db' /\ q = todo /\ r = todo' /\ x = op  OBVIOUS
<1>3. x = Head(q) /\ q # <<>> /\ up /\ x[1] = "commit"  BY <1>2 DEF op, Is
<1>4. TodoOK(nodes, c, q) /\ StoreOK(c)  BY <1>1, <1>2 DEF EngineInv
<1>5. /\ x = q[1] /\ Needs(nodes, c, x) /\ FirstOK(c, x) /\ IsList(q)
      /\ Follows(nodes, c, x, Tail(q))
  BY <1>3, <1>4, HeadIs
<1>6. x[2] \in DOMAIN c.exec /\ ~IsWaiting(c, x[2])  BY <1>3, <1>5 DEF Needs, OnExecution
<1>7. PICK names : names = {x[7][i].session : i \in 1..Len(x[7])}  OBVIOUS
<1>8. StagedOK(c, x[2], x[5]) /\ EffectsOK(x[6]) /\ IsList(x[7])  BY <1>3, <1>5 DEF FirstOK
<1>9. \A i \in 1..Len(x[7]) : ChildOK(x[7][i]) /\ IsChild(x[7][i].session)
  BY <1>3, <1>5 DEF FirstOK
<1>10. CommitOK(c, x, names)  BY <1>7, <1>8, <1>9 DEF CommitOK, ChildrenOK
<1>11. d = Does(c, x)  BY <1>2 DEF OnlyStore
<1>12. Committed(c, d, x[2], x[4], x[6], names)
  BY <1>3, <1>4, <1>6, <1>10, <1>11, DoesCommit
<1>13. StoreOK(d) /\ Moves(c, d, {}, {x[2]}) /\ DOMAIN d.sess \subseteq DOMAIN c.sess \cup names
  BY <1>12 DEF Committed
<1>14. r = <<>> \o Tail(q)  BY <1>2 DEF OnlyStore, Goes
<1>15. TodoOK(nodes, d, r) /\ r = Tail(q) /\ NoCommit(r)
  <2>1. q[1][1] # "sentinels"  BY <1>3, <1>5
  <2> QED  BY <1>3, <1>4, <1>13, <1>14, <2>1, DoneStep
<1>16. Heeds(x, r)
  BY <1>3, <1>5, <1>15 DEF Follows, Plainly, Final
<1>17. NamedIn(d, born)
  <2>1. NamedIn(c, born)  BY <1>2 DEF EngineInv
  <2>2. \A s \in names : IsChild(s)  BY <1>7, <1>9
  <2> QED  BY <1>13, <2>1, <2>2 DEF NamedIn
<1>18. EngineInv' /\ box' = box /\ up' = up
  <2>1. world' = world /\ born' = born /\ up' = up /\ box' = box /\ mons' = mons
    BY DEF OnlyStore, World
  <2>2. WorldOK' /\ BoxOK(box') /\ MonsOK(mons') /\ born' \in Nat
    BY <2>1 DEF EngineInv, WorldOK
  <2>3. NamedIn(db', born') /\ StoreOK(db')  BY <1>2, <1>13, <1>17, <2>1
  <2>4. TodoOK(DOMAIN world'.nodes, db', todo')  BY <1>1, <1>2, <1>15, <2>1
  <2> QED  BY <1>3, <2>1, <2>2, <2>3, <2>4 DEF EngineInv
<1>19. Commits(x, names)
  BY <1>2, <1>3, <1>5, <1>6, <1>12, <1>15, <1>16, <1>18 DEF Commits
<1> QED  BY <1>19
-----------------------------------------------------------------------------
\* What steps that leave the store alone keep.
LEMMA RestKeeps ==
  ASSUME EngineInv, UNCHANGED <<db, world, born>>, ~up' => todo' = <<>>, BoxOn(box, box'),
         MonsOK(mons'), TodoOK(DOMAIN world.nodes, db, todo')
  PROVE  Quiet
<1>1. StoreOK(db') /\ NamedIn(db', born') /\ born' \in Nat /\ WorldOK'
  BY DEF EngineInv, WorldOK
<1>2. BoxOK(box')  BY DEF BoxOn
<1>3. TodoOK(DOMAIN world'.nodes, db', todo')  OBVIOUS
<1>4. EngineInv'  BY <1>1, <1>2, <1>3 DEF EngineInv
<1>5. Moves(db, db', {}, {})  BY MovesNot
<1> QED  BY <1>4, <1>5 DEF Quiet

LEMMA Runs ==
  ASSUME PlannerOK, EngineInv, Run
  PROVE  Scripted
<1>1. PICK nodes : nodes = DOMAIN world.nodes /\ TodoOK(nodes, db, todo)  BY DEF EngineInv
<1>2. PICK q, r, x : q = todo /\ r = todo' /\ x = op  OBVIOUS
<1>3. x = Head(q) /\ q # <<>> /\ up /\ x[1] = "run"  BY <1>2 DEF op, Is, Run
<1>4. TodoOK(nodes, db, q) /\ StoreOK(db)  BY <1>1, <1>2 DEF EngineInv
<1>5. x = q[1] /\ Needs(nodes, db, x)  BY <1>3, <1>4, HeadIs
<1>6. PICK e : e = x[2] /\ e \in DOMAIN db.exec /\ ~IsWaiting(db, e) /\ db.exec[e].node \in nodes
  BY <1>3, <1>5 DEF Needs, OnExecution, Final
<1>7. PICK t \in world.nodes[db.exec[e].node] :
        OnlyStore(db, IF t.raises THEN Recoils(e) ELSE Proposes(e, t))
  BY <1>2, <1>6 DEF Run
<1>8. TransitionOK(t)
  <2>1. WorldOK /\ db.exec[e].node \in DOMAIN world.nodes  BY <1>1, <1>6 DEF EngineInv
  <2> QED  BY <2>1, TransitionsAre
<1>9. PICK more : more = IF t.raises THEN Recoils(e) ELSE Proposes(e, t)  OBVIOUS
<1>10. r = more \o Tail(q)  BY <1>2, <1>7, <1>9 DEF OnlyStore, Goes
<1>11. TodoOK(nodes, db, more) /\ Unmerged(more)
  <2>1. CASE t.raises
    <3>1. AllCalm(nodes, db, Recoils(e))  BY <1>4, <1>6, RecoilsTodo
    <3> QED  BY <1>9, <2>1, <3>1, CalmTodo, CalmUnmerged
  <2>2. CASE ~t.raises
    <3>1. NamedIn(db, born)  BY DEF EngineInv
    <3>2. TodoOK(nodes, db, Proposes(e, t)) /\ Unmerged(Proposes(e, t))
      BY <1>4, <1>6, <1>8, <3>1, ProposesTodo
    <3> QED  BY <1>9, <2>2, <3>2
  <2> QED  BY <2>1, <2>2
<1>12. r = more /\ NoApply(q)
  <2>1. IsList(more)  BY <1>11, TodoList
  <2>2. q[1][1] \in Final  BY <1>3, <1>5 DEF Final
  <2> QED  BY <1>3, <1>4, <1>10, <2>1, <2>2, LastStep
<1>13. world' = world /\ born' = born /\ up' = up /\ box' = box /\ mons' = mons /\ db' = db
  BY <1>7 DEF OnlyStore, World
<1>14. BoxOn(box, box') /\ MonsOK(mons')  BY <1>13, BoxSame DEF EngineInv
<1>15. TodoOK(DOMAIN world.nodes, db, todo')  BY <1>1, <1>2, <1>11, <1>12
<1>16. Quiet  BY <1>3, <1>13, <1>14, <1>15, RestKeeps
<1> QED  BY <1>2, <1>3, <1>11, <1>12, <1>13, <1>16 DEF Scripted
-----------------------------------------------------------------------------
(* A wait.                                                                 *)

\* A wait that drained is about to commit.
Draining ==
  \E P : /\ \A i \in P : i \in 1..Len(box.events) /\ box.events[i].status # "acknowledged"
         /\ Spares(box, box')
         /\ todo' # <<>> /\ IsList(todo') /\ todo'[1][1] = "commit" /\ todo'[1][4] = LetterIds(box, P)
         /\ Sole(todo', <<"apply", EffectSteps(todo'[1][2], todo'[1][6])>>)
         /\ \E conversation :
              /\ todo'[1][6] = Drained(conversation, LetterIds(box, P))
              /\ \A i \in P : box.events[i].letter.conversation = conversation

Waited == Quiet /\ up /\ up' = up /\ db' = db /\ NoApply(todo) /\ (Unmerged(todo') \/ Draining)

LEMMA DrainedIs ==
  ASSUME NEW conversation, NEW ids, NEW f, f = Drained(conversation, ids)
  PROVE  EffectsOK(f) /\ f # NoEffects /\ f.acknowledge = {[conversation |-> conversation, ids |-> ids]}
<1>1. PICK a : a = [conversation |-> conversation, ids |-> ids]  OBVIOUS
<1>2. f = [NoEffects EXCEPT !.acknowledge = {a}]  BY <1>1 DEF Drained
<1>3. f.acknowledge = {a} /\ f.publish = <<>> /\ f.arm = <<>>  BY <1>2 DEF NoEffects
<1>4. f # NoEffects  BY <1>3 DEF NoEffects
<1>5. EffectsOK(f)
  <2>1. IsFiniteSet({a})  BY FS_Singleton
  <2>2. IsFiniteSet(f.acknowledge) /\ IsList(f.publish) /\ IsList(f.arm)  BY <1>3, <2>1, NilList
  <2> QED  BY <2>2 DEF EffectsOK
<1> QED  BY <1>1, <1>3, <1>4, <1>5

LEMMA Waits ==
  ASSUME EngineInv, Wait
  PROVE  Waited
<1>1. PICK nodes : nodes = DOMAIN world.nodes /\ TodoOK(nodes, db, todo)  BY DEF EngineInv
<1>2. PICK q, r, x : q = todo /\ r = todo' /\ x = op  OBVIOUS
<1>3. x = Head(q) /\ q # <<>> /\ up /\ x[1] = "wait"  BY <1>2 DEF op, Is, Wait
<1>4. TodoOK(nodes, db, q) /\ StoreOK(db)  BY <1>1, <1>2 DEF EngineInv
<1>5. x = q[1] /\ Needs(nodes, db, x)  BY <1>3, <1>4, HeadIs
<1>6. PICK e : e = x[2] /\ e \in DOMAIN db.exec /\ ~IsWaiting(db, e)
  BY <1>3, <1>5 DEF Needs, OnExecution, Final
<1>7. PICK s, in, conversation, mail :
        /\ s = db.exec[e].session /\ in = InputState(db, e)
        /\ conversation = db.exec[e].policy.conversation
        /\ mail = ToClaim(box, conversation, db.exec[e].policy.limit)
  OBVIOUS
<1>8. PICK effects, ids, at : /\ ids = LetterIds(box, mail) /\ effects = Drained(conversation, ids)
        /\ at = IF db.exec[e].wake.at = "none" /\ db.exec[e].policy.timeout THEN "later"
                ELSE db.exec[e].wake.at
  OBVIOUS
<1>9. PICK more : more = (IF conversation = "" THEN <<<<"mark_failed", e>>>> \o FailSession(s)
              ELSE IF mail # {}
                THEN <<<<"commit", e, in \cup {"events"}, ids, <<>>, effects, <<>>>>>>
                       \o Apply(e, effects) \o <<<<"enqueue", s>>>>
              ELSE IF at = "passed"
                THEN <<<<"commit", e, in \cup {"events"}, {}, <<>>, NoEffects, <<>>>>, <<"enqueue", s>>>>
              ELSE <<<<"mark_waiting", e, [conversation |-> conversation, at |-> at]>>>>)
  OBVIOUS
<1>10. r = more \o Tail(q) /\ box' = Lease(box, mail, <<"wait", e>>)
  BY <1>2, <1>6, <1>7, <1>8, <1>9 DEF Wait, Goes
<1>11. world' = world /\ born' = born /\ up' = up /\ mons' = mons /\ db' = db
  BY DEF Wait, World
<1>12. PICK b, a : b = box /\ a = box' /\ BoxOK(b)  BY DEF EngineInv
<1>13. \A i \in mail : /\ i \in 1..Len(b.events) /\ Claimable(b.events[i])
                       /\ b.events[i].letter.conversation = conversation
  <2>1. DOMAIN b.events = 1..Len(b.events)  BY <1>12, ListIs DEF BoxOK
  <2>2. mail \subseteq ClaimableIn(b, conversation)  BY <1>7, <1>12 DEF ToClaim, First
  <2> QED  BY <2>1, <2>2 DEF ClaimableIn, In
<1>14. PICK who : who = <<"wait", e>>  OBVIOUS
<1>15. BoxOn(b, a) /\ Spares(b, a)
  <2>1. a = Lease(b, mail, who)  BY <1>10, <1>12, <1>14
  <2>2. \A i \in mail : Claimable(b.events[i])  BY <1>13
  <2> QED  BY <1>12, <2>1, <2>2, LeaseOn
<1>16. s \in DOMAIN db.sess  BY <1>4, <1>6, <1>7, RowSession
<1>17. TodoOK(nodes, db, more) /\ IsList(more) /\ (mail = {} \/ conversation = "" => Unmerged(more))
       /\ (mail # {} /\ conversation # "" => /\ more # <<>>
              /\ more[1] = <<"commit", e, in \cup {"events"}, ids, <<>>, effects, <<>>>>
              /\ Sole(more, <<"apply", EffectSteps(e, effects)>>))
  <2>1. CASE conversation = ""
    <3>1. AllCalm(nodes, db, more)  BY <1>6, <1>9, <1>16, <2>1, GivesUpCalm
    <3> QED  BY <2>1, <3>1, CalmTodo, CalmUnmerged DEF AllCalm
  <2>2. CASE conversation # "" /\ mail # {}
    <3>1. more = <<<<"commit", e, in \cup {"events"}, ids, <<>>, effects, <<>>>>>>
                       \o Apply(e, effects) \o <<<<"enqueue", s>>>>
      BY <1>9, <2>2
    <3>2. EffectsOK(effects) /\ effects # NoEffects  BY <1>8, DrainedIs
    <3>3. Drains(effects, ids)  BY <1>8 DEF Drains
    <3>4. PICK res : res = in \cup {"events"}  OBVIOUS
    <3>5. more = DrainSteps(e, res, ids, effects, s)  BY <3>1, <3>4 DEF DrainSteps
    <3>6. PICK c : c = db  OBVIOUS
    <3>61. e \in DOMAIN c.exec  BY <1>6, <3>6
    <3>62. ~IsWaiting(c, e)  BY <1>6, <3>6
    <3>63. EffectsOK(effects)  BY <3>2
    <3>64. effects # NoEffects  BY <3>2
    <3>71. TodoOK(nodes, c, more)  BY <3>63, <3>64, <3>3, <3>5, <3>61, <3>62, DrainsTodo
    <3>72. more # <<>> /\ IsList(more)  BY <3>63, <3>64, <3>3, <3>5, <3>61, <3>62, DrainsTodo
    <3>73. Begins(more, Merging(e, res, ids, effects))
      BY <3>63, <3>64, <3>3, <3>5, <3>61, <3>62, DrainsTodo
    <3>74. Sole(more, <<"apply", EffectSteps(e, effects)>>)
      BY <3>63, <3>64, <3>3, <3>5, <3>61, <3>62, DrainsTodo
    <3>7. TodoOK(nodes, c, more) /\ more # <<>> /\ IsList(more)
          /\ more[1] = Merging(e, res, ids, effects)
          /\ Sole(more, <<"apply", EffectSteps(e, effects)>>)
      BY <3>71, <3>72, <3>73, <3>74 DEF Begins
    <3> QED  BY <2>2, <3>4, <3>6, <3>7 DEF Merging
  <2>3. CASE conversation # "" /\ mail = {} /\ at = "passed"
    <3>1. PICK res : res = in \cup {"events"}  OBVIOUS
    <3>2. more = <<<<"commit", e, res, {}, <<>>, NoEffects, <<>>>>, <<"enqueue", s>>>>
      BY <1>9, <2>3, <3>1
    <3>3. TodoOK(nodes, db, more) /\ Unmerged(more)  BY <1>6, <3>2, TimesOutTodo
    <3> QED  BY <2>3, <3>3, TodoList
  <2>4. CASE conversation # "" /\ mail = {} /\ at # "passed"
    <3>1. PICK w : w = [conversation |-> conversation, at |-> at]  OBVIOUS
    <3>2. more = <<<<"mark_waiting", e, w>>>>  BY <1>9, <2>4, <3>1
    <3>3. TodoOK(nodes, db, more) /\ Unmerged(more)  BY <1>6, <3>2, ParksTodo
    <3> QED  BY <2>4, <3>3, TodoList
  <2> QED  BY <2>1, <2>2, <2>3, <2>4
<1>18. r = more /\ NoApply(q)
  <2>1. q[1][1] \in Final  BY <1>3, <1>5 DEF Final
  <2> QED  BY <1>3, <1>4, <1>10, <1>17, <2>1, LastStep
<1>19. Quiet
  <2>1. BoxOn(box, box') /\ MonsOK(mons')  BY <1>11, <1>12, <1>15 DEF EngineInv
  <2>2. TodoOK(DOMAIN world.nodes, db, todo')  BY <1>1, <1>2, <1>17, <1>18
  <2> QED  BY <1>3, <1>11, <2>1, <2>2, RestKeeps
<1>20. Unmerged(todo') \/ Draining
  <2>1. CASE mail = {} \/ conversation = ""  BY <1>2, <1>17, <1>18, <2>1
  <2>2. CASE mail # {} /\ conversation # ""
    <3>1. r # <<>> /\ IsList(r) /\ r[1] = <<"commit", e, in \cup {"events"}, ids, <<>>, effects, <<>>>>
      BY <1>17, <1>18, <2>2
    <3>2. r[1][1] = "commit" /\ r[1][2] = e /\ r[1][4] = ids /\ r[1][6] = effects  BY <3>1
    <3>4. Sole(r, <<"apply", EffectSteps(r[1][2], r[1][6])>>)  BY <1>17, <1>18, <2>2, <3>2
    <3>3. \A i \in mail : i \in 1..Len(b.events) /\ b.events[i].status # "acknowledged"
                          /\ b.events[i].letter.conversation = conversation
      BY <1>13 DEF Claimable
    <3> QED  BY <1>2, <1>8, <1>12, <1>15, <3>1, <3>2, <3>3, <3>4 DEF Draining
  <2> QED  BY <2>1, <2>2
<1> QED  BY <1>2, <1>3, <1>11, <1>18, <1>19, <1>20 DEF Waited
-----------------------------------------------------------------------------
(* The other operations.                                                   *)

\* A step that writes nothing to the store and goes on with more.
LEMMA StandsOnwards ==
  ASSUME EngineInv, up, todo # <<>>,
         todo[1][1] \notin {"sentinels", "mark_running", "apply", "commit"},
         UNCHANGED <<db, world, born, up>>, BoxOn(box, box'), MonsOK(mons'),
         NEW more, AllCalm(DOMAIN world.nodes, db, more), NoApply(more), Goes(more)
  PROVE  Onwards
<1>1. PICK nodes : nodes = DOMAIN world.nodes /\ TodoOK(nodes, db, todo)  BY DEF EngineInv
<1>2. PICK c, q, r : c = db /\ q = todo /\ r = todo'  OBVIOUS
<1>3. r = more \o Tail(q)  BY <1>2 DEF Goes
<1>4. Moves(c, c, {}, {})  BY MovesNot
<1>5. TodoOK(nodes, c, q) /\ q # <<>> /\ AllCalm(nodes, c, more)  BY <1>1, <1>2
<1>6. q[1][1] \notin {"sentinels", "mark_running"}  BY <1>2
<1>7. TodoOK(nodes, c, r) /\ NoCommit(r)  BY <1>3, <1>4, <1>5, <1>6, MoreStep
<1>8. TodoOK(DOMAIN world.nodes, db, todo')  BY <1>1, <1>2, <1>7
<1>9. ~up' => todo' = <<>>  OBVIOUS
<1>10. UNCHANGED <<db, world, born>>  OBVIOUS
<1>11. Quiet  BY <1>8, <1>9, <1>10, RestKeeps
<1>12. todo[1][1] \notin {"apply", "commit"} /\ up' = up  OBVIOUS
<1> QED  BY <1>2, <1>3, <1>7, <1>11, <1>12 DEF Onwards

\* One operation that is free.
LEMMA FreeOne ==
  ASSUME NEW nodes, NEW c, NEW x, x[1] \in FreeOps, NEW q, q = <<x>>
  PROVE  AllCalm(nodes, c, q) /\ NoApply(q)
<1>1. AllCalm(nodes, c, <<x>>)  BY FreeCalm, CalmOne
<1>2. x[1] # "apply"  BY DEF FreeOps
<1>3. NoApply(<<x>>)  BY <1>2, OneList DEF NoApply
<1> QED  BY <1>1, <1>3

LEMMA FreeTwo ==
  ASSUME NEW nodes, NEW c, NEW x, x[1] \in FreeOps, NEW y, y[1] \in FreeOps, NEW q, q = <<x, y>>
  PROVE  AllCalm(nodes, c, q) /\ NoApply(q)
<1>1. AllCalm(nodes, c, <<x, y>>)  BY FreeCalm, CalmTwo
<1>2. x[1] # "apply" /\ y[1] # "apply"  BY DEF FreeOps
<1>3. NoApply(<<x, y>>)  BY <1>2, TwoList DEF NoApply
<1> QED  BY <1>1, <1>3

\* The first operation and its name.
LEMMA OpIs ==
  ASSUME EngineInv, NEW name, Is(name)
  PROVE  up /\ todo # <<>> /\ todo[1] = op /\ todo[1][1] = name
<1>1. up /\ todo # <<>> /\ TodoOK(DOMAIN world.nodes, db, todo)  BY DEF Is, EngineInv
<1>2. PICK x : x = op  OBVIOUS
<1>3. x = todo[1]  BY <1>1, <1>2, HeadIs DEF op
<1> QED  BY <1>1, <1>2, <1>3 DEF Is

LEMMA NilCalm == \A nodes, c : AllCalm(nodes, c, <<>>) /\ NoApply(<<>>)  BY CalmNone, NilNone

LEMMA BoxStays == EngineInv /\ box' = box => BoxOn(box, box')  BY BoxSame DEF EngineInv

LEMMA Sends ==
  ASSUME EngineInv, Send
  PROVE  Onwards
<1>1. PICK name \in {"enqueue", "send"} : Is(name)  BY DEF Send
<1>2. up /\ todo # <<>> /\ todo[1][1] = name  BY <1>1, OpIs
<1>3. todo[1][1] \notin {"sentinels", "mark_running", "apply", "commit"}  BY <1>1, <1>2
<1>4. UNCHANGED <<db, world, born, up>> /\ box' = box /\ mons' = mons /\ Goes(<<>>)
  BY DEF Send, World, stores
<1>5. BoxOn(box, box') /\ MonsOK(mons')  BY <1>4, BoxStays DEF EngineInv
<1>6. AllCalm(DOMAIN world.nodes, db, <<>>) /\ NoApply(<<>>)  BY NilCalm
<1> QED  BY <1>2, <1>3, <1>4, <1>5, <1>6, StandsOnwards

LEMMA Notifies ==
  ASSUME EngineInv, Notify
  PROVE  Onwards
<1>1. up /\ todo # <<>> /\ todo[1][1] = "notice"  BY OpIs DEF Notify
<1>2. todo[1][1] \notin {"sentinels", "mark_running", "apply", "commit"}  BY <1>1
<1>3. UNCHANGED <<db, world, born, up>> /\ mons' = mons  BY DEF Notify, World
<1>4. MonsOK(mons')  BY <1>3 DEF EngineInv
<1>5. CASE UNCHANGED box /\ Goes(<<>>)
  <2>1. BoxOn(box, box')  BY <1>5, BoxStays
  <2>2. AllCalm(DOMAIN world.nodes, db, <<>>) /\ NoApply(<<>>)  BY NilCalm
  <2> QED  BY <1>1, <1>2, <1>3, <1>4, <1>5, <2>1, <2>2, StandsOnwards
<1>6. CASE box' = Deliver(box, Death(op[2])) /\ Goes(<<<<"observe", Death(op[2])>>, <<"wakes">>>>)
  <2>1. PICK m : m = Death(op[2])  OBVIOUS
  <2>2. BoxOK(box) /\ box' = Deliver(box, m)  BY <1>6, <2>1 DEF EngineInv
  <2>3. BoxOn(box, box')  BY <2>2, DeliverOn
  <2>4. PICK x, y, more : x = <<"observe", m>> /\ y = <<"wakes">> /\ more = <<x, y>>  OBVIOUS
  <2>5. x[1] \in FreeOps /\ y[1] \in FreeOps  BY <2>4 DEF FreeOps
  <2>6. AllCalm(DOMAIN world.nodes, db, more) /\ NoApply(more)  BY <2>4, <2>5, FreeTwo
  <2>7. Goes(more)  BY <1>6, <2>1, <2>4
  <2> QED  BY <1>1, <1>2, <1>3, <1>4, <2>3, <2>6, <2>7, StandsOnwards
<1> QED  BY <1>5, <1>6 DEF Notify

LEMMA Refuses ==
  ASSUME EngineInv, NotifyRefused
  PROVE  Onwards
<1>1. up /\ todo # <<>> /\ todo[1][1] = "notice"  BY OpIs DEF NotifyRefused
<1>2. todo[1][1] \notin {"sentinels", "mark_running", "apply", "commit"}  BY <1>1
<1>3. UNCHANGED <<db, world, born, up>> /\ mons' = mons /\ box' = box /\ Goes(<<>>)
  BY DEF NotifyRefused, stores
<1>4. BoxOn(box, box') /\ MonsOK(mons')  BY <1>3, BoxStays DEF EngineInv
<1>5. AllCalm(DOMAIN world.nodes, db, <<>>) /\ NoApply(<<>>)  BY NilCalm
<1> QED  BY <1>1, <1>2, <1>3, <1>4, <1>5, StandsOnwards

LEMMA Ticks ==
  ASSUME EngineInv, Tick
  PROVE  Onwards
<1>1. UNCHANGED <<db, world, born, up>>  BY DEF Tick, World
<1>2. CASE Is("observe") /\ mons' = Observe(mons, op[2].correlation, op[2].source) /\ Goes(<<>>)
           /\ UNCHANGED box
  <2>1. up /\ todo # <<>> /\ todo[1][1] = "observe"  BY <1>2, OpIs
  <2>2. todo[1][1] \notin {"sentinels", "mark_running", "apply", "commit"}  BY <2>1
  <2>3. BoxOn(box, box')  BY <1>2, BoxStays
  <2>4. MonsOK(mons')  BY <1>2, ObserveOK DEF EngineInv
  <2>5. AllCalm(DOMAIN world.nodes, db, <<>>) /\ NoApply(<<>>)  BY NilCalm
  <2> QED  BY <1>1, <1>2, <2>1, <2>2, <2>3, <2>4, <2>5, StandsOnwards
<1>3. CASE Is("lapse") /\ box' = (IF op[2] \in DOMAIN mons THEN Deliver(box, Lapse(op[2])) ELSE box)
           /\ Goes(<<<<"lapsed", op[2]>>>>) /\ UNCHANGED mons
  <2>1. up /\ todo # <<>> /\ todo[1][1] = "lapse"  BY <1>3, OpIs
  <2>2. todo[1][1] \notin {"sentinels", "mark_running", "apply", "commit"}  BY <2>1
  <2>3. BoxOn(box, box')
    <3>1. PICK m : m = Lapse(op[2])  OBVIOUS
    <3>2. box' = Deliver(box, m) \/ box' = box  BY <1>3, <3>1
    <3>3. BoxOK(box)  BY DEF EngineInv
    <3> QED  BY <3>2, <3>3, DeliverOn, BoxStays
  <2>4. MonsOK(mons')  BY <1>3 DEF EngineInv
  <2>5. PICK x, more : x = <<"lapsed", op[2]>> /\ more = <<x>>  OBVIOUS
  <2>6. x[1] \in FreeOps  BY <2>5 DEF FreeOps
  <2>7. AllCalm(DOMAIN world.nodes, db, more) /\ NoApply(more)  BY <2>5, <2>6, FreeOne
  <2>8. Goes(more)  BY <1>3, <2>5
  <2> QED  BY <1>1, <2>1, <2>2, <2>3, <2>4, <2>7, <2>8, StandsOnwards
<1>4. CASE Is("lapsed") /\ mons' = MarkLapsed(mons, op[2]) /\ Goes(<<>>) /\ UNCHANGED box
  <2>1. up /\ todo # <<>> /\ todo[1][1] = "lapsed"  BY <1>4, OpIs
  <2>2. todo[1][1] \notin {"sentinels", "mark_running", "apply", "commit"}  BY <2>1
  <2>3. BoxOn(box, box')  BY <1>4, BoxStays
  <2>4. MonsOK(mons')  BY <1>4, MarkLapsedOK DEF EngineInv
  <2>5. AllCalm(DOMAIN world.nodes, db, <<>>) /\ NoApply(<<>>)  BY NilCalm
  <2> QED  BY <1>1, <1>4, <2>1, <2>2, <2>3, <2>4, <2>5, StandsOnwards
<1> QED  BY <1>2, <1>3, <1>4 DEF Tick

\* Actors and waits are called on, and nothing else.
LEMMA NamesOnly ==
  ASSUME NEW S, IsFiniteSet(S), NEW f, DOMAIN f = S, NEW T, T = {f[x] : x \in S},
         \A x \in S : f[x][1] # "apply"
  PROVE  NoApply(SetToSeq(T))
<1>1. IsFiniteSet(T)  BY ImageFinite
<1>2. IsList(SetToSeq(T)) /\ Items(SetToSeq(T)) = T  BY <1>1, ListOfSet
<1> QED  BY <1>2 DEF NoApply

LEMMA Calls ==
  ASSUME EngineInv, Call
  PROVE  Onwards
<1>1. UNCHANGED <<db, world, born, up>> /\ box' = box /\ mons' = mons  BY DEF Call, World, stores
<1>2. BoxOn(box, box') /\ MonsOK(mons')  BY <1>1, BoxStays DEF EngineInv
<1>3. StoreOK(db) /\ WorldOK /\ IsList(box.events)  BY DEF EngineInv, BoxOK
<1>4. PICK nodes : nodes = DOMAIN world.nodes  OBVIOUS
<1>5. CASE Is("actors") /\ Goes(Actors)
  <2>1. up /\ todo # <<>> /\ todo[1][1] = "actors"  BY <1>5, OpIs
  <2>2. todo[1][1] \notin {"sentinels", "mark_running", "apply", "commit"}  BY <2>1
  <2>3. AllCalm(nodes, db, Actors)  BY <1>3, ActorsCalm
  <2>4. NoApply(Actors)
    <3>1. PICK S : S = ActorMail /\ IsFiniteSet(S)  BY <1>3, ActorMailFinite
    <3>2. PICK f : f = [c \in S |-> <<"create", c, world.actors[c], 0>>]  OBVIOUS
    <3>3. PICK T : T = {f[c] : c \in S}  OBVIOUS
    <3>4. T = {<<"create", c, world.actors[c], 0>> : c \in ActorMail}  BY <3>1, <3>2, <3>3
    <3>5. DOMAIN f = S /\ \A x \in S : f[x][1] # "apply"  BY <3>2
    <3>6. NoApply(SetToSeq(T))  BY <3>1, <3>3, <3>5, NamesOnly
    <3> QED  BY <3>4, <3>6 DEF Actors
  <2> QED  BY <1>1, <1>2, <1>4, <1>5, <2>1, <2>2, <2>3, <2>4, StandsOnwards
<1>6. CASE Is("wakes") /\ Goes(Wakes)
  <2>1. up /\ todo # <<>> /\ todo[1][1] = "wakes"  BY <1>6, OpIs
  <2>2. todo[1][1] \notin {"sentinels", "mark_running", "apply", "commit"}  BY <2>1
  <2>3. AllCalm(nodes, db, Wakes)  BY <1>3, WakesCalm
  <2>4. NoApply(Wakes)
    <3>1. PICK S : S = DueWaits /\ IsFiniteSet(S)  BY <1>3, DueWaitsFinite
    <3>2. PICK f : f = [e \in S |-> <<"wake", e>>]  OBVIOUS
    <3>3. PICK T : T = {f[e] : e \in S}  OBVIOUS
    <3>4. T = {<<"wake", e>> : e \in DueWaits}  BY <3>1, <3>2, <3>3
    <3>5. DOMAIN f = S /\ \A x \in S : f[x][1] # "apply"  BY <3>2
    <3>6. NoApply(SetToSeq(T))  BY <3>1, <3>3, <3>5, NamesOnly
    <3> QED  BY <3>4, <3>6 DEF Wakes
  <2> QED  BY <1>1, <1>2, <1>4, <1>6, <2>1, <2>2, <2>3, <2>4, StandsOnwards
<1> QED  BY <1>5, <1>6 DEF Call
-----------------------------------------------------------------------------
(* Sessions start.                                                         *)

LEMMA ExtendStart ==
  ASSUME NEW nodes, NEW c, NEW p, TodoOK(nodes, c, p), p # <<>>, p[1][1] = "sentinels",
         NEW q, AllCalm(nodes, c, q), NEW r, r = p \o q
  PROVE  TodoOK(nodes, c, r) /\ NoCommit(r)
<1>1. /\ IsList(p) /\ Needs(nodes, c, p[1]) /\ FirstOK(c, p[1])
      /\ Follows(nodes, c, p[1], Tail(p))
  BY DEF TodoOK
<1>2. PICK t : t = Tail(p)  OBVIOUS
<1>3. /\ IsList(t) /\ t # <<>> /\ t[1][1] = "stage" /\ t[1][2] = p[1][2] /\ PlanOf(t[1][3])
      /\ AllCalm(nodes, c, Tail(t))
  BY <1>1, <1>2 DEF Follows, Plainly, Final
<1>4. IsList(q)  BY DEF AllCalm
<1>5. IsList(r) /\ r # <<>> /\ r[1] = p[1] /\ Tail(r) = Tail(p) \o q  BY <1>1, <1>4, Joined
<1>6. PICK u : u = t \o q  OBVIOUS
<1>7. IsList(u) /\ u # <<>> /\ u[1] = t[1] /\ Tail(u) = Tail(t) \o q  BY <1>3, <1>4, <1>6, Joined
<1>8. AllCalm(nodes, c, Tail(u))  BY <1>3, <1>7, CalmCat
<1>9. Follows(nodes, c, r[1], u)  BY <1>3, <1>5, <1>7, <1>8 DEF Follows
<1>10. Tail(r) = u  BY <1>2, <1>5, <1>6
<1> QED  BY <1>1, <1>5, <1>9, <1>10 DEF TodoOK, NoCommit

LEMMA ListIn ==
  ASSUME NEW T, NEW q \in Seq(T)
  PROVE  IsList(q) /\ Items(q) \subseteq T
<1>1. \A i \in 1..Len(q) : q[i] \in T  OBVIOUS
<1> QED  BY <1>1 DEF IsList, Items

LEMMA StartOnly ==
  ASSUME NEW s, NEW plan, NEW q, q = StartSteps(s, plan)
  PROVE  NoApply(q) /\ q # <<>> /\ q[1][1] = "sentinels"
<1>1. PICK x, y, w, h, z : /\ x = <<"sentinels", s>> /\ y = <<"stage", s, plan>>
                           /\ w = <<"wire", s, plan>> /\ h = <<"head", Head0(s)>>
                           /\ z = <<"enqueue", s>>
  OBVIOUS
<1>2. q = <<x, y, w, h, z>>  BY <1>1 DEF StartSteps
<1>3. x[1] = "sentinels" /\ y[1] = "stage" /\ w[1] = "wire" /\ h[1] = "head" /\ z[1] = "enqueue"
  BY <1>1
<1>4. PICK T : T = {x, y, w, h, z}  OBVIOUS
<1>5. q \in Seq(T) /\ Len(q) = 5 /\ q[1] = x  BY <1>2, <1>4
<1>6. IsList(q) /\ Items(q) \subseteq T  BY <1>5, ListIn
<1>7. \A v \in T : v[1] # "apply"  BY <1>3, <1>4
<1> QED  BY <1>3, <1>5, <1>6, <1>7 DEF NoApply

LEMMA FreshName ==
  ASSUME NEW c, NEW n \in Nat, NamedIn(c, n), NEW s, s = <<n + 1>>
  PROVE  s \notin DOMAIN c.sess
<1>1. SUFFICES ASSUME s \in DOMAIN c.sess PROVE FALSE  OBVIOUS
<1>2. Len(s) = 1 /\ s[1] = n + 1  OBVIOUS
<1>3. ~IsChild(s)  BY <1>2 DEF IsChild
<1>4. PICK k \in 1..n : s = <<k>>  BY <1>1, <1>3 DEF NamedIn
<1>5. k = n + 1  BY <1>2, <1>4
<1> QED  BY <1>4, <1>5

LEMMA NamedMore ==
  ASSUME NEW c, NEW n \in Nat, NamedIn(c, n), NEW d, DOMAIN d.sess = DOMAIN c.sess \cup {<<n + 1>>}
  PROVE  NamedIn(d, n + 1)
<1>1. \A k \in 1..n : k \in 1..(n + 1)  OBVIOUS
<1>2. n + 1 \in 1..(n + 1)  OBVIOUS
<1> QED  BY <1>1, <1>2 DEF NamedIn

LEMMA Creates ==
  ASSUME EngineInv, Create
  PROVE  Onwards
<1>1. up /\ todo # <<>> /\ todo[1] = op /\ todo[1][1] = "create"  BY OpIs DEF Create
<1>2. PICK nodes : nodes = DOMAIN world.nodes /\ TodoOK(nodes, db, todo)  BY DEF EngineInv
<1>3. PICK c, q, r, x, n : c = db /\ q = todo /\ r = todo' /\ x = op /\ n = born  OBVIOUS
<1>4. x = q[1] /\ q # <<>> /\ q[1][1] = "create" /\ TodoOK(nodes, c, q) /\ StoreOK(c)
      /\ n \in Nat /\ NamedIn(c, n)
  BY <1>1, <1>2, <1>3 DEF EngineInv
<1>5. Needs(nodes, c, q[1])  BY <1>4, HeadIs
<1>6. PlanOf(x[3])  BY <1>4, <1>5 DEF Needs
<1>7. PICK s, key, plan : s = <<n + 1>> /\ key = x[2] /\ plan = x[3]  OBVIOUS
<1>8. UNCHANGED <<world, up>> /\ box' = box /\ mons' = mons  BY DEF Create
<1>9. BoxOn(box, box') /\ MonsOK(mons')  BY <1>8, BoxStays DEF EngineInv
<1>10. CASE db' = Does(db, <<"create_session", s, key>>) /\ born' = born + 1 /\ SerialFree(db, key)
            /\ Goes(StartSteps(s, plan))
  <2>1. PICK d : d = db'  OBVIOUS
  <2>2. s \notin DOMAIN c.sess  BY <1>4, <1>7, FreshName
  <2>3. SerialFree(c, key)  BY <1>3, <1>10
  <2>4. d = Does(c, <<"create_session", s, key>>)  BY <1>3, <1>10, <2>1
  <2>5. StoreOK(d) /\ Born(c, d, s)  BY <1>4, <2>2, <2>3, <2>4, DoesCreate
  <2>6. Moves(c, d, {}, {}) /\ DOMAIN d.sess = DOMAIN c.sess \cup {s} /\ ExecutionsOf(d, s) = {}
    BY <2>5 DEF Born
  <2>7. PICK p : p = StartSteps(s, plan)  OBVIOUS
  <2>8. NoApply(p) /\ p # <<>> /\ p[1][1] = "sentinels"  BY <2>7, StartOnly
  <2>9. TodoOK(nodes, d, p)
    <3>1. s \in DOMAIN d.sess /\ PlanOf(plan)  BY <1>6, <1>7, <2>6
    <3> QED  BY <2>5, <2>6, <2>7, <3>1, StartTodo
  <2>10. AllCalm(nodes, d, Tail(q))
    <3>1. q[1][1] \notin {"sentinels", "mark_running"}  BY <1>4
    <3> QED  BY <1>4, <2>6, <3>1, RestCalm
  <2>11. r = p \o Tail(q)  BY <1>3, <1>10, <2>7 DEF Goes
  <2>12. TodoOK(nodes, d, r) /\ NoCommit(r)  BY <2>8, <2>9, <2>10, <2>11, ExtendStart
  <2>13. NamedIn(d, n + 1)  BY <1>4, <1>7, <2>6, NamedMore
  <2>14. EngineInv'
    <3>1. StoreOK(db') /\ NamedIn(db', born') /\ born' \in Nat
      BY <1>3, <1>4, <1>10, <2>1, <2>5, <2>13
    <3>2. WorldOK' /\ BoxOK(box') /\ (~up' => todo' = <<>>)
      BY <1>1, <1>8, <1>9 DEF EngineInv, WorldOK, BoxOn
    <3>3. TodoOK(DOMAIN world'.nodes, db', todo')  BY <1>2, <1>3, <1>8, <2>1, <2>12
    <3> QED  BY <1>9, <3>1, <3>2, <3>3 DEF EngineInv
  <2>15. Quiet  BY <1>3, <1>9, <2>1, <2>6, <2>14 DEF Quiet
  <2>16. up' = up /\ todo[1][1] \notin {"apply", "commit"}  BY <1>1, <1>8
  <2> QED  BY <1>1, <1>3, <2>8, <2>11, <2>12, <2>15, <2>16 DEF Onwards
<1>11. CASE UNCHANGED <<db, born>> /\ Goes(<<>>)
  <2>1. todo[1][1] \notin {"sentinels", "mark_running", "apply", "commit"}  BY <1>1
  <2>2. AllCalm(DOMAIN world.nodes, db, <<>>) /\ NoApply(<<>>)  BY NilCalm
  <2>3. UNCHANGED <<db, world, born, up>>  BY <1>8, <1>11
  <2> QED  BY <1>1, <1>9, <1>11, <2>1, <2>2, <2>3, StandsOnwards
<1> QED  BY <1>3, <1>7, <1>10, <1>11 DEF Create
-----------------------------------------------------------------------------
\* Executions are put in.
LEMMA PutsOnwards ==
  ASSUME EngineInv, up, todo # <<>>, todo[1][1] \in {"sentinels", "stage"}, StoreOK(db'),
         DOMAIN db'.sess = DOMAIN db.sess, Moves(db, db', {}, {}), OnlyStore(db', <<>>),
         TodoOK(DOMAIN world.nodes, db', todo'), NoCommit(todo')
  PROVE  Onwards
<1>1. World /\ UNCHANGED <<box, mons>>  BY DEF OnlyStore
<1>2. EngineInv' /\ BoxOn(box, box') /\ up' = up  BY <1>1, StoreKeeps
<1>3. Quiet  BY <1>2 DEF Quiet
<1>4. todo' = <<>> \o Tail(todo)  BY DEF OnlyStore, Goes
<1>5. todo[1][1] \notin {"apply", "commit"}  OBVIOUS
<1> QED  BY <1>2, <1>3, <1>4, <1>5, NilNone DEF Onwards

LEMMA PutsSentinels ==
  ASSUME EngineInv, Is("sentinels"),
         OnlyStore(Does(db, <<"add_executions", op[2], Sentinels(op[2])>>), <<>>)
  PROVE  Onwards
<1>1. up /\ todo # <<>> /\ todo[1] = op /\ todo[1][1] = "sentinels"  BY OpIs
<1>2. PICK nodes : nodes = DOMAIN world.nodes /\ TodoOK(nodes, db, todo)  BY DEF EngineInv
<1>3. PICK c, d, q, r, x : c = db /\ d = db' /\ q = todo /\ r = todo' /\ x = op  OBVIOUS
<1>4. x = q[1] /\ q # <<>> /\ x[1] = "sentinels" /\ TodoOK(nodes, c, q) /\ StoreOK(c)
  BY <1>1, <1>2, <1>3 DEF EngineInv
<1>5. IsList(q) /\ FirstOK(c, x) /\ Follows(nodes, c, x, Tail(q))  BY <1>4 DEF TodoOK
<1>6. PICK s, xs : s = x[2] /\ xs = Sentinels(s)  OBVIOUS
<1>7. s \in DOMAIN c.sess /\ ExecutionsOf(c, s) = Slots(s, 0)  BY <1>4, <1>5, <1>6 DEF FirstOK
<1>8. d = Does(c, <<"add_executions", s, xs>>)  BY <1>3, <1>6 DEF OnlyStore
<1>9. NumbersFrom(xs, s, 0) /\ Len(xs) = 2  BY <1>6, SentinelsFirst
<1>10. StoreOK(d) /\ Grown(c, d, s, 0, 2)
  <2>1. 0 \in Nat /\ 0 + 2 = 2  OBVIOUS
  <2>2. StoreOK(d) /\ Grown(c, d, s, 0, 0 + Len(xs))  BY <1>4, <1>7, <1>8, <1>9, <2>1, DoesPut
  <2> QED  BY <1>9, <2>1, <2>2
<1>11. /\ Moves(c, d, {}, {}) /\ DOMAIN d.sess = DOMAIN c.sess
       /\ ExecutionsOf(d, s) = Slots(s, 2)
  BY <1>10 DEF Grown
<1>12. PICK t : t = Tail(q)  OBVIOUS
<1>13. /\ IsList(t) /\ t # <<>> /\ t[1][1] = "stage" /\ t[1][2] = s /\ PlanOf(t[1][3])
       /\ AllCalm(nodes, c, Tail(t))
  BY <1>4, <1>5, <1>6, <1>12 DEF Follows, Plainly, Final
<1>14. r = t
  <2>1. r = <<>> \o t  BY <1>3, <1>12 DEF OnlyStore, Goes
  <2> QED  BY <1>13, <2>1, NilFirst
<1>15. TodoOK(nodes, d, t) /\ NoCommit(t)
  <2>1. AllCalm(nodes, d, Tail(t))  BY <1>11, <1>13, CalmOn
  <2>2. FirstOK(d, t[1])  BY <1>7, <1>11, <1>13 DEF FirstOK
  <2>3. Needs(nodes, d, t[1])  BY <1>13 DEF Needs, OnExecution, Final
  <2>4. Follows(nodes, d, t[1], Tail(t))  BY <1>13, <2>1 DEF Follows, Plainly, Final, Heeds
  <2> QED  BY <1>13, <2>2, <2>3, <2>4 DEF TodoOK, NoCommit
<1>16. OnlyStore(db', <<>>)  BY DEF OnlyStore
<1>17. StoreOK(db') /\ DOMAIN db'.sess = DOMAIN db.sess /\ Moves(db, db', {}, {})
  BY <1>3, <1>10, <1>11
<1>18. TodoOK(DOMAIN world.nodes, db', todo') /\ NoCommit(todo')  BY <1>2, <1>3, <1>14, <1>15
<1> QED  BY <1>1, <1>16, <1>17, <1>18, PutsOnwards

LEMMA PutsPlan ==
  ASSUME PlannerOK, EngineInv, Is("stage"),
         OnlyStore(Does(db, <<"add_executions", op[2], Stages(op[3], op[2], 2, <<>>).executions>>), <<>>)
  PROVE  Onwards
<1>1. up /\ todo # <<>> /\ todo[1] = op /\ todo[1][1] = "stage"  BY OpIs
<1>2. PICK nodes : nodes = DOMAIN world.nodes /\ TodoOK(nodes, db, todo)  BY DEF EngineInv
<1>3. PICK c, d, q, r, x : c = db /\ d = db' /\ q = todo /\ r = todo' /\ x = op  OBVIOUS
<1>4. x = q[1] /\ q # <<>> /\ x[1] = "stage" /\ TodoOK(nodes, c, q) /\ StoreOK(c)
  BY <1>1, <1>2, <1>3 DEF EngineInv
<1>5. FirstOK(c, x)  BY <1>4 DEF TodoOK
<1>6. PICK s, xs : s = x[2] /\ xs = Stages(x[3], s, 2, <<>>).executions  OBVIOUS
<1>7. s \in DOMAIN c.sess /\ ExecutionsOf(c, s) = Slots(s, 2) /\ PlanOf(x[3])
  BY <1>4, <1>5, <1>6 DEF FirstOK
<1>8. d = Does(c, <<"add_executions", s, xs>>)  BY <1>3, <1>6 DEF OnlyStore
<1>9. NumbersFrom(xs, s, 2)  BY <1>6, <1>7 DEF PlannerOK
<1>10. StoreOK(d) /\ Grown(c, d, s, 2, 2 + Len(xs))
  <2>1. 2 \in Nat  OBVIOUS
  <2> QED  BY <1>4, <1>7, <1>8, <1>9, <2>1, DoesPut
<1>11. Moves(c, d, {}, {}) /\ DOMAIN d.sess = DOMAIN c.sess  BY <1>10 DEF Grown
<1>12. r = <<>> \o Tail(q)  BY <1>3 DEF OnlyStore, Goes
<1>13. q[1][1] # "sentinels"  BY <1>4
<1>14. TodoOK(nodes, d, r) /\ NoCommit(r)  BY <1>4, <1>11, <1>12, <1>13, DoneStep
<1>15. OnlyStore(db', <<>>)  BY DEF OnlyStore
<1>16. StoreOK(db') /\ DOMAIN db'.sess = DOMAIN db.sess /\ Moves(db, db', {}, {})
  BY <1>3, <1>10, <1>11
<1>17. TodoOK(DOMAIN world.nodes, db', todo') /\ NoCommit(todo')  BY <1>2, <1>3, <1>14
<1> QED  BY <1>1, <1>15, <1>16, <1>17, PutsOnwards

LEMMA Starts ==
  ASSUME PlannerOK, EngineInv, Start
  PROVE  Onwards
<1>1. CASE Is("sentinels") /\ OnlyStore(Does(db, <<"add_executions", op[2], Sentinels(op[2])>>), <<>>)
  BY <1>1, PutsSentinels
<1>2. CASE Is("head") /\ OnlyStore(Does(db, <<"mark_completed", op[2], {}>>), <<>>)
  <2>1. up /\ todo # <<>> /\ todo[1] = op /\ todo[1][1] = "head"  BY <1>2, OpIs
  <2>2. PICK nodes : nodes = DOMAIN world.nodes /\ TodoOK(nodes, db, todo)  BY DEF EngineInv
  <2>3. PICK c, d, e : c = db /\ d = db' /\ e = op[2]  OBVIOUS
  <2>4. ~IsWaiting(c, e)
    <3>1. Needs(nodes, db, todo[1])  BY <2>1, <2>2 DEF TodoOK
    <3> QED  BY <2>1, <2>3, <3>1 DEF Needs
  <2>5. d = Does(c, <<"mark_completed", e, {}>>) /\ StoreOK(c)
    BY <1>2, <2>3 DEF OnlyStore, EngineInv
  <2>6. Marks(c, d)  BY <2>4, <2>5, DoesHead
  <2>7. OnlyStore(db', <<>>)  BY <1>2 DEF OnlyStore
  <2>8. Marks(db, db') /\ todo[1][1] \notin {"sentinels", "apply", "commit"}  BY <2>1, <2>3, <2>6
  <2> QED  BY <2>1, <2>7, <2>8, MarksOnwards
<1>3. CASE /\ Is("stage")
           /\ OnlyStore(Does(db, <<"add_executions", op[2], Stages(op[3], op[2], 2, <<>>).executions>>), <<>>)
  BY <1>3, PutsPlan
<1>4. CASE /\ Is("wire")
           /\ \E edges : OnlyStore(Does(db, <<"add_edges", edges>>), <<>>)
  <2>1. up /\ todo # <<>> /\ todo[1][1] = "wire"  BY <1>4, OpIs
  <2>2. PICK edges : OnlyStore(Does(db, <<"add_edges", edges>>), <<>>)  BY <1>4
  <2>3. PICK c, d : c = db /\ d = db'  OBVIOUS
  <2>4. d = Does(c, <<"add_edges", edges>>) /\ StoreOK(c)  BY <2>2, <2>3 DEF OnlyStore, EngineInv
  <2>5. Marks(c, d)  BY <2>4, DoesEdges
  <2>6. OnlyStore(db', <<>>)  BY <2>2 DEF OnlyStore
  <2>7. Marks(db, db') /\ todo[1][1] \notin {"sentinels", "apply", "commit"}  BY <2>1, <2>3, <2>5
  <2> QED  BY <2>1, <2>6, <2>7, MarksOnwards
<1> QED  BY <1>1, <1>2, <1>3, <1>4 DEF Start, Sentinels
-----------------------------------------------------------------------------
(* Effects are applied.                                                    *)

\* p are the effects that are first in todo, and x the first of them.
Applying(p, x) ==
  /\ EngineInv' /\ BoxOn(box, box') /\ up /\ up' = up
  /\ todo # <<>> /\ IsList(todo) /\ todo[1][1] = "apply" /\ p = todo[1][2]
  /\ PartsOK(p) /\ AcksFirst(p) /\ x = p[1] /\ NoCommit(todo')

\* x is done; and the mail it acknowledged is.
Proceeds(p, x) ==
  /\ Moves(db, db', {}, {}) /\ x[1] # "clear"
  /\ \E y : y[1] = "apply" /\ y[2] = Tail(p) /\ todo' = <<y>> \o Tail(todo)
  /\ x[1] = "acknowledge" =>
       \A i \in 1..Len(box.events) :
         box.events[i].letter.conversation = x[2] /\ box.events[i].letter.id \in x[3]
           => box'.events[i].status = "acknowledged"

\* x empties the outbox row.
Empties(p, x) ==
  /\ x[1] = "clear" /\ Cleared(db, db', x[2])
  /\ \E more : NoApply(more) /\ todo' = more \o Tail(todo)

\* x raises, and all of them stay pending.
Abandons(p, x) == db' = db /\ todo' = <<>> \o Tail(todo) /\ left' = left \cup Unpaid(p)

LEMMA ApplyFirst ==
  ASSUME EngineInv, Is("apply"), NEW p, p = op[2]
  PROVE  /\ up /\ todo # <<>> /\ IsList(todo) /\ todo[1][1] = "apply" /\ p = todo[1][2]
         /\ PartsOK(p) /\ AcksFirst(p)
<1>1. up /\ todo # <<>> /\ todo[1] = op /\ todo[1][1] = "apply"  BY OpIs
<1>2. PICK nodes : TodoOK(nodes, db, todo)  BY DEF EngineInv
<1>3. IsList(todo) /\ Needs(nodes, db, todo[1])  BY <1>1, <1>2 DEF TodoOK
<1>4. PartsOK(todo[1][2]) /\ AcksFirst(todo[1][2])  BY <1>1, <1>3 DEF Needs
<1> QED  BY <1>1, <1>3, <1>4

\* The boxes and monitors that a step of the effects leaves.
LEMMA PartDone ==
  ASSUME EngineInv, NEW x,
         box' = IF x[1] = "acknowledge" THEN Acknowledge(box, x[2], x[3])
                ELSE IF x[1] = "publish" THEN Deliver(box, x[2]) ELSE box,
         mons' = IF x[1] = "observe" THEN Observe(mons, x[2].correlation, x[2].source)
                 ELSE IF x[1] = "arm" THEN Arm(mons, x[2][1], x[2][2])
                 ELSE IF x[1] = "disarm" THEN Disarm(mons, x[2]) ELSE mons
  PROVE  /\ BoxOn(box, box') /\ MonsOK(mons')
         /\ x[1] = "acknowledge" =>
              \A i \in 1..Len(box.events) :
                box.events[i].letter.conversation = x[2] /\ box.events[i].letter.id \in x[3]
                  => box'.events[i].status = "acknowledged"
<1>1. BoxOK(box) /\ MonsOK(mons)  BY DEF EngineInv
<1>2. BoxOn(box, box')
  <2>1. CASE x[1] = "acknowledge"
    <3>1. box' = Acknowledge(box, x[2], x[3])  BY <2>1
    <3> QED  BY <1>1, <3>1, AcknowledgeOn
  <2>2. CASE x[1] = "publish"
    <3>1. box' = Deliver(box, x[2])  BY <2>2
    <3> QED  BY <1>1, <3>1, DeliverOn
  <2>3. CASE x[1] \notin {"acknowledge", "publish"}
    <3>1. box' = box  BY <2>3
    <3> QED  BY <3>1, BoxStays
  <2> QED  BY <2>1, <2>2, <2>3
<1>3. MonsOK(mons')
  <2>1. \/ mons' = mons \/ mons' = Observe(mons, x[2].correlation, x[2].source)
        \/ mons' = Arm(mons, x[2][1], x[2][2]) \/ mons' = Disarm(mons, x[2])
    OBVIOUS
  <2> QED  BY <1>1, <2>1, ObserveOK, ArmOK, DisarmOK
<1>4. ASSUME x[1] = "acknowledge"
      PROVE  \A i \in 1..Len(box.events) :
                box.events[i].letter.conversation = x[2] /\ box.events[i].letter.id \in x[3]
                  => box'.events[i].status = "acknowledged"
  <2>1. box' = Acknowledge(box, x[2], x[3])  BY <1>4
  <2> QED  BY <1>1, <2>1, AcknowledgeOn
<1> QED  BY <1>2, <1>3, <1>4

LEMMA ApplyNext ==
  ASSUME EngineInv, up, up' = up, todo # <<>>, todo[1][1] = "apply", UNCHANGED <<world, born>>,
         BoxOn(box, box'), MonsOK(mons'), NEW M, StoreOK(db'), Moves(db, db', {}, M),
         DOMAIN db'.sess = DOMAIN db.sess,
         NEW more, AllCalm(DOMAIN world.nodes, db', more), todo' = more \o Tail(todo)
  PROVE  EngineInv' /\ NoCommit(todo')
<1>1. PICK nodes : nodes = DOMAIN world.nodes /\ TodoOK(nodes, db, todo)  BY DEF EngineInv
<1>2. PICK c, d, q, r : c = db /\ d = db' /\ q = todo /\ r = todo'  OBVIOUS
<1>3. Moves(c, d, {}, M) /\ TodoOK(nodes, c, q) /\ q # <<>> /\ AllCalm(nodes, d, more)
  BY <1>1, <1>2
<1>4. q[1][1] \notin {"sentinels", "mark_running"}  BY <1>2
<1>5. r = more \o Tail(q)  BY <1>2
<1>6. TodoOK(nodes, d, r) /\ NoCommit(r)  BY <1>3, <1>4, <1>5, MoreStep
<1>7. NamedIn(db', born')  BY NamedOn DEF EngineInv
<1>8. WorldOK' /\ BoxOK(box') /\ born' \in Nat  BY DEF EngineInv, WorldOK, BoxOn
<1>9. TodoOK(DOMAIN world'.nodes, db', todo') /\ NoCommit(todo')  BY <1>1, <1>2, <1>6
<1> QED  BY <1>7, <1>8, <1>9 DEF EngineInv

LEMMA Applies ==
  ASSUME EngineInv, ApplyOne
  PROVE  \E p, x : Applying(p, x) /\ (Proceeds(p, x) \/ Empties(p, x))
<1>1. PICK p : p = op[2]  OBVIOUS
<1>2. /\ up /\ todo # <<>> /\ IsList(todo) /\ todo[1][1] = "apply" /\ p = todo[1][2]
      /\ PartsOK(p) /\ AcksFirst(p)
  <2>1. Is("apply")  BY DEF ApplyOne
  <2> QED  BY <1>1, <2>1, ApplyFirst
<1>3. PICK x, t : x = Head(p) /\ t = Tail(p)  OBVIOUS
<1>4. /\ p # <<>> /\ x = p[1]
      /\ x[1] # "clear" => PartsOK(t) /\ AcksFirst(t)
      /\ x[1] = "clear" => IsList(t) /\ \A y \in Items(t) : y[1] \in {"actors", "wakes"}
  BY <1>2, <1>3, PartsOn
<1>5. /\ box' = IF x[1] = "acknowledge" THEN Acknowledge(box, x[2], x[3])
                ELSE IF x[1] = "publish" THEN Deliver(box, x[2]) ELSE box
      /\ mons' = IF x[1] = "observe" THEN Observe(mons, x[2].correlation, x[2].source)
                 ELSE IF x[1] = "arm" THEN Arm(mons, x[2][1], x[2][2])
                 ELSE IF x[1] = "disarm" THEN Disarm(mons, x[2]) ELSE mons
      /\ db' = IF x[1] = "clear" THEN Does(db, x) ELSE db
      /\ Goes(IF x[1] = "clear" THEN t ELSE <<<<"apply", t>>>>)
  BY <1>1, <1>3 DEF ApplyOne
<1>6. BoxOn(box, box')  BY <1>5, PartDone
<1>7. MonsOK(mons')  BY <1>5, PartDone
<1>8. x[1] = "acknowledge" =>
        \A i \in 1..Len(box.events) :
          box.events[i].letter.conversation = x[2] /\ box.events[i].letter.id \in x[3]
            => box'.events[i].status = "acknowledged"
  BY <1>5, PartDone
<1>9. UNCHANGED <<world, born>> /\ up' = up  BY DEF ApplyOne, World
<1>10. PICK nodes : nodes = DOMAIN world.nodes  OBVIOUS
<1>11. StoreOK(db)  BY DEF EngineInv
<1>12. CASE x[1] # "clear"
  <2>1. PICK y, more : y = <<"apply", t>> /\ more = <<y>>  OBVIOUS
  <2>2. y[1] = "apply" /\ y[2] = t  BY <2>1
  <2>3. db' = db /\ todo' = <<y>> \o Tail(todo)  BY <1>5, <1>12, <2>1 DEF Goes
  <2>4. Calm(y) /\ Needs(nodes, db, y)
    BY <1>4, <1>12, <2>2 DEF Calm, Needs, Eager, Final, OnExecution
  <2>5. AllCalm(nodes, db, more)  BY <2>1, <2>4, CalmOne
  <2>6. Moves(db, db', {}, {}) /\ StoreOK(db') /\ DOMAIN db'.sess = DOMAIN db.sess
    BY <1>11, <2>3, MovesNot
  <2>7. AllCalm(DOMAIN world.nodes, db', more) /\ todo' = more \o Tail(todo)
    BY <1>10, <2>1, <2>3, <2>5
  <2>8. EngineInv' /\ NoCommit(todo')  BY <1>2, <1>6, <1>7, <1>9, <2>6, <2>7, ApplyNext
  <2>9. Applying(p, x)  BY <1>2, <1>4, <1>6, <1>9, <2>8 DEF Applying
  <2>10. Proceeds(p, x)  BY <1>3, <1>8, <1>12, <2>2, <2>3, <2>6 DEF Proceeds
  <2> QED  BY <2>9, <2>10
<1>13. CASE x[1] = "clear"
  <2>1. PICK c, d : c = db /\ d = db'  OBVIOUS
  <2>2. d = Does(c, x) /\ StoreOK(c)  BY <1>5, <1>11, <1>13, <2>1
  <2>3. Cleared(c, d, x[2])  BY <1>13, <2>2, DoesClear
  <2>4. StoreOK(d) /\ DOMAIN d.sess = DOMAIN c.sess /\ Moves(c, d, {}, {x[2]})
    BY <2>3 DEF Cleared, SameIds
  <2>5. todo' = t \o Tail(todo)  BY <1>5, <1>13 DEF Goes
  <2>6. AllCalm(nodes, d, t) /\ NoApply(t)
    <3>1. IsList(t) /\ \A y \in Items(t) : y[1] \in FreeOps /\ y[1] # "apply"
      BY <1>4, <1>13 DEF FreeOps
    <3> QED  BY <3>1, FreeCalm DEF AllCalm, NoApply
  <2>7. AllCalm(DOMAIN world.nodes, db', t)  BY <1>10, <2>1, <2>6
  <2>8. StoreOK(db') /\ Moves(db, db', {}, {x[2]}) /\ DOMAIN db'.sess = DOMAIN db.sess
    BY <2>1, <2>4
  <2>9. EngineInv' /\ NoCommit(todo')
    BY <1>2, <1>6, <1>7, <1>9, <2>5, <2>7, <2>8, ApplyNext
  <2>10. Applying(p, x)  BY <1>2, <1>4, <1>6, <1>9, <2>9 DEF Applying
  <2>11. Empties(p, x)  BY <1>13, <2>1, <2>3, <2>5, <2>6 DEF Empties
  <2> QED  BY <2>10, <2>11
<1> QED  BY <1>12, <1>13

LEMMA Leaves ==
  ASSUME EngineInv, ApplyRefused
  PROVE  \E p, x : Applying(p, x) /\ Abandons(p, x)
<1>1. PICK p : p = op[2]  OBVIOUS
<1>2. /\ up /\ todo # <<>> /\ IsList(todo) /\ todo[1][1] = "apply" /\ p = todo[1][2]
      /\ PartsOK(p) /\ AcksFirst(p)
  <2>1. Is("apply")  BY DEF ApplyRefused
  <2> QED  BY <1>1, <2>1, ApplyFirst
<1>3. PICK x : x = Head(p)  OBVIOUS
<1>4. x = p[1]  BY <1>2, <1>3, PartsOn
<1>5. /\ left' = left \cup Unpaid(p) /\ Goes(<<>>) /\ UNCHANGED <<world, born>> /\ up' = up
      /\ db' = db /\ box' = box /\ mons' = mons
  BY <1>1, <1>3 DEF ApplyRefused, stores
<1>6. BoxOn(box, box') /\ MonsOK(mons')  BY <1>5, BoxStays DEF EngineInv
<1>7. Moves(db, db', {}, {}) /\ StoreOK(db') /\ DOMAIN db'.sess = DOMAIN db.sess
  BY <1>5, MovesNot DEF EngineInv
<1>8. AllCalm(DOMAIN world.nodes, db', <<>>)  BY CalmNone
<1>9. todo' = <<>> \o Tail(todo)  BY <1>5 DEF Goes
<1>10. EngineInv' /\ NoCommit(todo')  BY <1>2, <1>5, <1>6, <1>7, <1>8, <1>9, ApplyNext
<1>11. Applying(p, x)  BY <1>2, <1>4, <1>5, <1>6, <1>10 DEF Applying
<1>12. Abandons(p, x)  BY <1>5, <1>9 DEF Abandons
<1> QED  BY <1>11, <1>12
-----------------------------------------------------------------------------
(* The loop.                                                               *)

\* Steps of others: ingress and clocks.
Ambient ==
  /\ EngineInv' /\ BoxOn(box, box') /\ Spares(box, box') /\ Moves(db, db', {}, {})
  /\ todo' = todo /\ up' = up

Dies == EngineInv' /\ box' = box /\ db' = db /\ ~up' /\ todo' = <<>>
Restarts == EngineInv' /\ box' = box /\ db' = db /\ ~up /\ up' /\ todo' = Recovery
Collects == EngineInv' /\ box' = box /\ Remains(db, db') /\ todo = <<>> /\ todo' = todo /\ up' = up

\* A call begins with q.
LEMMA Begun ==
  ASSUME EngineInv, up, up' = up, todo = <<>>, UNCHANGED <<db, world, born, box, mons>>,
         TodoOK(DOMAIN world.nodes, db, todo'), Unmerged(todo')
  PROVE  Scripted
<1>1. BoxOn(box, box') /\ MonsOK(mons')  BY BoxStays DEF EngineInv
<1>2. ~up' => todo' = <<>>  OBVIOUS
<1>3. UNCHANGED <<db, world, born>>  OBVIOUS
<1>4. Quiet  BY <1>1, <1>2, <1>3, RestKeeps
<1> QED  BY <1>4, NilNone DEF Scripted

LEMMA Receives ==
  ASSUME EngineInv, NEW e, Receive(e)
  PROVE  Scripted
<1>1. PICK nodes : nodes = DOMAIN world.nodes  OBVIOUS
<1>2. StoreOK(db)  BY DEF EngineInv
<1>3. TodoOK(nodes, db, Execute(e)) /\ Unmerged(Execute(e))  BY <1>1, <1>2, ExecuteTodo
<1>4. TodoOK(DOMAIN world.nodes, db, todo') /\ Unmerged(todo')  BY <1>1, <1>3 DEF Receive
<1>5. up /\ up' = up /\ todo = <<>> /\ UNCHANGED <<db, world, born, box, mons>>
  BY DEF Receive, Free, Loop, stores
<1> QED  BY <1>4, <1>5, Begun

LEMMA ReceivesTrigger ==
  ASSUME EngineInv, NEW i \in DOMAIN world.triggers, ReceiveTrigger(i)
  PROVE  Scripted
<1>1. PICK nodes : nodes = DOMAIN world.nodes  OBVIOUS
<1>2. PICK x : x = <<"create", world.triggers[i].key, world.triggers[i].plan, i>>  OBVIOUS
<1>3. PlanOf(world.triggers[i].plan)
  <2>1. PICK k \in DOMAIN Worlds : world = Worlds[k]  BY DEF EngineInv, WorldOK
  <2> QED  BY <2>1 DEF PlanOf
<1>4. x[1] = "create" /\ PlanOf(x[3])  BY <1>2, <1>3
<1>5. Calm(x) /\ Needs(nodes, db, x)  BY <1>4 DEF Calm, Needs, Eager, Final, OnExecution
<1>6. AllCalm(nodes, db, <<x>>)  BY <1>5, CalmOne
<1>7. todo' = <<x>>  BY <1>2 DEF ReceiveTrigger
<1>8. TodoOK(DOMAIN world.nodes, db, todo') /\ Unmerged(todo')
  BY <1>1, <1>6, <1>7, CalmTodo, CalmUnmerged
<1>9. up /\ up' = up /\ todo = <<>> /\ UNCHANGED <<db, world, born, box, mons>>
  BY DEF ReceiveTrigger, Free, Loop, stores
<1> QED  BY <1>8, <1>9, Begun

LEMMA Idles ==
  ASSUME EngineInv, Idle
  PROVE  Scripted
<1>1. PICK nodes : nodes = DOMAIN world.nodes  OBVIOUS
<1>2. AllCalm(nodes, db, todo')
  <2>1. CASE todo' = SetToSeq({<<"lapse", id>> : id \in Due(mons)})
    <3>1. IsFiniteSet(DOMAIN mons)  BY DEF EngineInv, MonsOK
    <3> QED  BY <2>1, <3>1, LapsesCalm
  <2>2. CASE todo' = <<<<"actors">>>>
    <3>1. PICK x : x = <<"actors">>  OBVIOUS
    <3>2. x[1] \in FreeOps /\ todo' = <<x>>  BY <2>2, <3>1 DEF FreeOps
    <3> QED  BY <3>2, FreeOne
  <2>3. CASE todo' = <<<<"wakes">>>>
    <3>1. PICK x : x = <<"wakes">>  OBVIOUS
    <3>2. x[1] \in FreeOps /\ todo' = <<x>>  BY <2>3, <3>1 DEF FreeOps
    <3> QED  BY <3>2, FreeOne
  <2> QED  BY <2>1, <2>2, <2>3 DEF Idle
<1>3. TodoOK(DOMAIN world.nodes, db, todo') /\ Unmerged(todo')
  BY <1>1, <1>2, CalmTodo, CalmUnmerged
<1>4. up /\ up' = up /\ todo = <<>> /\ UNCHANGED <<db, world, born, box, mons>>
  BY DEF Idle, Free, Loop, stores
<1> QED  BY <1>3, <1>4, Begun

LEMMA CollectsOne ==
  ASSUME EngineInv, Collect
  PROVE  Collects
<1>1. PICK s : s = TerminalSessions(db)[1]  OBVIOUS
<1>2. PICK c, d : c = db /\ d = db'  OBVIOUS
<1>3. StoreOK(c) /\ d = Does(c, <<"delete_session", s>>)  BY <1>1, <1>2 DEF Collect, EngineInv
<1>4. StoreOK(d) /\ Remains(c, d)  BY <1>3, DoesDelete
<1>5. UNCHANGED <<world, box, mons, todo, up, born>> /\ todo = <<>>  BY DEF Collect, Free
<1>6. NamedIn(db', born') /\ born' \in Nat
  <2>1. DOMAIN d.sess \subseteq DOMAIN c.sess  BY <1>4 DEF Remains
  <2> QED  BY <1>2, <1>5, <2>1 DEF EngineInv, NamedIn
<1>7. TodoOK(DOMAIN world'.nodes, db', todo')  BY <1>5, NilTodo
<1>8. WorldOK' /\ BoxOK(box') /\ MonsOK(mons') /\ StoreOK(db')
  BY <1>2, <1>4, <1>5 DEF EngineInv, WorldOK
<1>9. EngineInv'  BY <1>5, <1>6, <1>7, <1>8 DEF EngineInv
<1> QED  BY <1>2, <1>4, <1>5, <1>9 DEF Collects

LEMMA Crashes ==
  ASSUME EngineInv, Crash
  PROVE  Dies
<1>1. UNCHANGED <<world, db, box, mons, born>> /\ up' = FALSE /\ todo' = <<>>  BY DEF Crash, stores
<1>2. StoreOK(db') /\ NamedIn(db', born') /\ born' \in Nat /\ WorldOK' /\ BoxOK(box') /\ MonsOK(mons')
  BY <1>1 DEF EngineInv, WorldOK
<1>3. TodoOK(DOMAIN world'.nodes, db', todo')  BY <1>1, NilTodo
<1>4. EngineInv'  BY <1>1, <1>2, <1>3 DEF EngineInv
<1> QED  BY <1>1, <1>4 DEF Dies

LEMMA StartsUp ==
  ASSUME EngineInv, Startup
  PROVE  Restarts
<1>1. UNCHANGED <<world, db, box, mons, born>> /\ ~up /\ up' = TRUE /\ todo' = Recovery
  BY DEF Startup, stores
<1>2. StoreOK(db') /\ NamedIn(db', born') /\ born' \in Nat /\ WorldOK' /\ BoxOK(box') /\ MonsOK(mons')
  BY <1>1 DEF EngineInv, WorldOK
<1>3. PICK nodes : nodes = DOMAIN world.nodes  OBVIOUS
<1>4. AllCalm(nodes, db, Recovery)  BY RecoveryCalm DEF EngineInv
<1>5. TodoOK(nodes, db, todo')  BY <1>1, <1>4, CalmTodo
<1>6. TodoOK(DOMAIN world'.nodes, db', todo')  BY <1>1, <1>3, <1>5
<1>7. EngineInv'  BY <1>1, <1>2, <1>6 DEF EngineInv
<1> QED  BY <1>1, <1>7 DEF Restarts
-----------------------------------------------------------------------------
(* Ingress and clocks.                                                     *)

LEMMA OthersMark ==
  ASSUME EngineInv, Marks(db, db'), BoxOn(box, box'), Spares(box, box'), MonsOK(mons'),
         UNCHANGED <<world, todo, up, born>>
  PROVE  Ambient
<1>1. PICK nodes : nodes = DOMAIN world.nodes /\ TodoOK(nodes, db, todo)  BY DEF EngineInv
<1>2. PICK c, d, q : c = db /\ d = db' /\ q = todo  OBVIOUS
<1>3. StoreOK(d) /\ SameIds(c, d) /\ Moves(c, d, {}, {})  BY <1>2 DEF Marks
<1>4. TodoOK(nodes, c, q)  BY <1>1, <1>2
<1>5. TodoOK(nodes, d, q)  BY <1>3, <1>4, SameTodo
<1>6. NamedIn(db', born')
  <2>1. DOMAIN db'.sess = DOMAIN db.sess  BY <1>2, <1>3 DEF SameIds
  <2> QED  BY <2>1, NamedOn DEF EngineInv
<1>7. WorldOK' /\ BoxOK(box') /\ born' \in Nat /\ (~up' => todo' = <<>>)
  BY DEF EngineInv, WorldOK, BoxOn
<1>8. TodoOK(DOMAIN world'.nodes, db', todo') /\ StoreOK(db')  BY <1>1, <1>2, <1>3, <1>5
<1>9. EngineInv'  BY <1>6, <1>7, <1>8 DEF EngineInv
<1> QED  BY <1>2, <1>3, <1>9 DEF Ambient

LEMMA SameMarks == EngineInv /\ db' = db => Marks(db, db')
<1> SUFFICES ASSUME EngineInv, db' = db PROVE Marks(db, db')  OBVIOUS
<1>1. PICK c : c = db  OBVIOUS
<1>2. StoreOK(c) /\ Alike(c, c)  BY <1>1 DEF EngineInv, Alike
<1>3. Marks(c, c)  BY <1>2, AlikeMarks
<1> QED  BY <1>1, <1>3

LEMMA SameBox == EngineInv /\ box' = box => BoxOn(box, box') /\ Spares(box, box')
BY BoxSame DEF EngineInv

LEMMA Acks ==
  ASSUME EngineInv, Ack
  PROVE  Ambient
<1>1. UNCHANGED <<world, todo, up, born>> /\ db' = db /\ box' = box /\ mons' = mons
  BY DEF Ack, Loop, stores
<1>2. MonsOK(mons')  BY <1>1 DEF EngineInv
<1> QED  BY <1>1, <1>2, SameMarks, SameBox, OthersMark

LEMMA Resolves ==
  ASSUME EngineInv, NEW n, Resolve(n)
  PROVE  Ambient
<1>1. UNCHANGED <<world, todo, up, born>> /\ db' = db /\ box' = box /\ mons' = mons
  BY DEF Resolve, stores
<1>2. MonsOK(mons')  BY <1>1 DEF EngineInv
<1> QED  BY <1>1, <1>2, SameMarks, SameBox, OthersMark

LEMMA Accepts ==
  ASSUME EngineInv, NEW n, Accept(n)
  PROVE  Ambient
<1>1. UNCHANGED <<world, todo, up, born>>  BY DEF Accept
<1>2. PICK m : m = Letter(<<"mail", n>>, inbound[n], world.mail[n].correlation, world.mail[n].source)
  OBVIOUS
<1>3. CASE box' = Deliver(box, m) /\ UNCHANGED <<db, mons>>
  <2>1. BoxOK(box) /\ MonsOK(mons')  BY <1>3 DEF EngineInv
  <2>2. BoxOn(box, box') /\ Spares(box, box')  BY <1>3, <2>1, DeliverOn
  <2> QED  BY <1>1, <1>3, <2>1, <2>2, SameMarks, OthersMark
<1>4. CASE mons' = Observe(mons, world.mail[n].correlation, world.mail[n].source) /\ UNCHANGED <<db, box>>
  <2>1. MonsOK(mons')  BY <1>4, ObserveOK DEF EngineInv
  <2> QED  BY <1>1, <1>4, <2>1, SameMarks, SameBox, OthersMark
<1>5. CASE /\ db' = ForEach(LAMBDA d, e : Does(d, <<"wake", e>>), db, SetToSeq(DueWaits))
           /\ UNCHANGED <<box, mons>>
  <2>1. PICK c, d, q : c = db /\ d = db' /\ q = SetToSeq(DueWaits)  OBVIOUS
  <2>2. StoreOK(c)  BY <2>1 DEF EngineInv
  <2>3. IsList(q)
    <3>1. IsFiniteSet(DueWaits)  BY <2>1, <2>2, DueWaitsFinite
    <3> QED  BY <2>1, <3>1, ListOfSet
  <2>4. d = ForEach(LAMBDA b, e : Does(b, <<"wake", e>>), c, q)  BY <1>5, <2>1
  <2>5. Marks(c, d)  BY <2>2, <2>3, <2>4, WakesMark
  <2>6. MonsOK(mons')  BY <1>5 DEF EngineInv
  <2> QED  BY <1>1, <1>5, <2>1, <2>5, <2>6, SameBox, OthersMark
<1> QED  BY <1>2, <1>3, <1>4, <1>5 DEF Accept

\* A clock changes only when a row retries or is due.
Retimes(y, x) ==
  /\ DOMAIN x = DOMAIN y /\ x.session = y.session /\ x.node = y.node /\ x.status = y.status
  /\ x.got = y.got /\ x.effects = y.effects

LEMMA RetimeMarks ==
  ASSUME NEW c, StoreOK(c), NEW e \in DOMAIN c.exec, NEW x, Retimes(c.exec[e], x),
         NEW d, d = [c EXCEPT !.exec = [c.exec EXCEPT ![e] = x]]
  PROVE  Marks(c, d)
<1>1. PICK y : y = c.exec[e]  OBVIOUS
<1>2. RowOK(c, y)  BY <1>1 DEF StoreOK, Rows
<1>3. DOMAIN c = {"sess", "exec", "edges", "running", "terminal", "pending", "waiting",
                 "outbox", "serial"}
  BY DEF StoreOK, Rows
<1>4. PICK g : g = [c.exec EXCEPT ![e] = x]  OBVIOUS
<1>5. DOMAIN g = DOMAIN c.exec /\ g[e] = x /\ \A f \in DOMAIN c.exec : f # e => g[f] = c.exec[f]
  BY <1>4
<1>6. d = [c EXCEPT !.exec = g]  BY <1>4
<1>7. /\ DOMAIN d = DOMAIN c /\ d.sess = c.sess /\ d.terminal = c.terminal /\ d.exec = g
      /\ d.running = c.running /\ d.pending = c.pending /\ d.waiting = c.waiting /\ d.outbox = c.outbox
  BY <1>3, <1>6
<1>8. Rewrites(c, d, e, x)  BY <1>5, <1>7 DEF Rewrites
<1>9. Retimes(y, x)  BY <1>1
<1>10. Becomes(y, x)  BY <1>2, <1>9 DEF Becomes, RowOK, Retimes
<1>11. c.pending = IF x.status = "pending" THEN c.pending \cup {e} ELSE c.pending \ {e}
  BY <1>1, <1>9 DEF StoreOK, Indexed, Having, Retimes
<1>12. c.waiting = IF x.status = "waiting" THEN c.waiting \cup {e} ELSE c.waiting \ {e}
  BY <1>1, <1>9 DEF StoreOK, Indexed, Having, Retimes
<1>13. c.outbox = IF x.effects # NoEffects THEN c.outbox \cup {e} ELSE c.outbox \ {e}
  BY <1>1, <1>9 DEF StoreOK, Indexed, Owing, Retimes
<1>14. Reindexes(c, d, e, x)  BY <1>7, <1>11, <1>12, <1>13 DEF Reindexes
<1>15. MayMove(y, x, e, {}, {})  BY <1>9 DEF MayMove, Retimes
<1>16. Becomes(c.exec[e], x) /\ MayMove(c.exec[e], x, e, {}, {})  BY <1>1, <1>10, <1>15
<1>17. StoreOK(d) /\ SameIds(c, d) /\ Moves(c, d, {}, {})  BY <1>8, <1>14, <1>16, Rewrite
<1> QED  BY <1>5, <1>7, <1>17 DEF Marks

LEMMA Clocks ==
  ASSUME EngineInv, Clock
  PROVE  Ambient
<1>1. UNCHANGED <<world, todo, up, born>>  BY DEF Clock
<1>2. CASE /\ \E e \in DOMAIN db.exec : db' = [db EXCEPT !.exec[e].retry = "none"]
           /\ UNCHANGED <<box, mons>>
  <2>1. PICK e \in DOMAIN db.exec : db' = [db EXCEPT !.exec[e].retry = "none"]  BY <1>2
  <2>2. PICK c, d, y : c = db /\ d = db' /\ y = db.exec[e]  OBVIOUS
  <2>3. PICK x : x = [y EXCEPT !.retry = "none"]  OBVIOUS
  <2>4. StoreOK(c) /\ e \in DOMAIN c.exec /\ y = c.exec[e]  BY <2>2 DEF EngineInv
  <2>5. RowOK(c, y)  BY <2>4 DEF StoreOK, Rows
  <2>6. Retimes(y, x)  BY <2>3, <2>5 DEF RowOK, Retimes
  <2>7. d = [c EXCEPT !.exec = [c.exec EXCEPT ![e] = x]]  BY <2>1, <2>2, <2>3
  <2>8. Marks(c, d)  BY <2>4, <2>6, <2>7, RetimeMarks
  <2>9. MonsOK(mons')  BY <1>2 DEF EngineInv
  <2> QED  BY <1>1, <1>2, <2>2, <2>8, <2>9, SameBox, OthersMark
<1>3. CASE /\ \E e \in DOMAIN db.exec : db' = [db EXCEPT !.exec[e].wake.at = "passed"]
           /\ UNCHANGED <<box, mons>>
  <2>1. PICK e \in DOMAIN db.exec : db' = [db EXCEPT !.exec[e].wake.at = "passed"]  BY <1>3
  <2>2. PICK c, d, y : c = db /\ d = db' /\ y = db.exec[e]  OBVIOUS
  <2>3. PICK w : w = [y.wake EXCEPT !.at = "passed"]  OBVIOUS
  <2>31. PICK x : x = [y EXCEPT !.wake = w]  OBVIOUS
  <2>4. StoreOK(c) /\ e \in DOMAIN c.exec /\ y = c.exec[e]  BY <2>2 DEF EngineInv
  <2>5. RowOK(c, y)  BY <2>4 DEF StoreOK, Rows
  <2>6. Retimes(y, x)  BY <2>31, <2>5 DEF RowOK, Retimes
  <2>7. d = [c EXCEPT !.exec = [c.exec EXCEPT ![e] = x]]  BY <2>1, <2>2, <2>3, <2>31
  <2>8. Marks(c, d)  BY <2>4, <2>6, <2>7, RetimeMarks
  <2>9. MonsOK(mons')  BY <1>3 DEF EngineInv
  <2> QED  BY <1>1, <1>3, <2>2, <2>8, <2>9, SameBox, OthersMark
<1>4. CASE /\ \E id \in DOMAIN mons : mons' = [mons EXCEPT ![id].late = TRUE]
           /\ UNCHANGED <<db, box>>
  <2>1. DOMAIN mons' = DOMAIN mons  BY <1>4
  <2>2. MonsOK(mons')  BY <2>1 DEF EngineInv, MonsOK
  <2> QED  BY <1>1, <1>4, <2>2, SameMarks, SameBox, OthersMark
<1>5. CASE /\ \E i \in DOMAIN box.events : box' = [box EXCEPT !.events[i].lease = "expired"]
           /\ UNCHANGED <<db, mons>>
  <2>1. PICK i \in DOMAIN box.events : box' = [box EXCEPT !.events[i].lease = "expired"]  BY <1>5
  <2>2. PICK b, a : b = box /\ a = box' /\ BoxOK(b) /\ i \in DOMAIN b.events
    BY DEF EngineInv
  <2>3. a = Expired(b, i)  BY <2>1, <2>2 DEF Expired
  <2>4. BoxOn(b, a) /\ Spares(b, a)  BY <2>2, <2>3, ExpireOn
  <2>5. MonsOK(mons')  BY <1>5 DEF EngineInv
  <2> QED  BY <1>1, <1>5, <2>2, <2>4, <2>5, SameMarks, OthersMark
<1> QED  BY <1>2, <1>3, <1>4, <1>5 DEF Clock
-----------------------------------------------------------------------------
(* Every step keeps the invariant.                                         *)

LEMMA InitInv == Init => EngineInv
<1> SUFFICES ASSUME Init PROVE EngineInv  OBVIOUS
<1>1. PICK d : d = EmptyStore  OBVIOUS
<1>2. /\ DOMAIN d = {"sess", "exec", "edges", "running", "terminal", "pending", "waiting",
                     "outbox", "serial"}
      /\ d.sess = <<>> /\ d.exec = <<>> /\ d.running = {} /\ d.terminal = <<>>
      /\ d.pending = {} /\ d.waiting = {} /\ d.outbox = {}
  BY <1>1 DEF EmptyStore
<1>3. DOMAIN <<>> = {}  OBVIOUS
<1>4. IsList(<<>>) /\ Items(<<>>) = {} /\ IsFiniteSet({})  BY NilList, FS_EmptySet
<1>5. Rows(d)  BY <1>2, <1>3, <1>4 DEF Rows
<1>6. Indexed(d)  BY <1>2, <1>3 DEF Indexed, Live, Owing, Having
<1>7. NamedIn(d, 0)  BY <1>2, <1>3 DEF NamedIn
<1>8. MonsOK(NoMonitors)  BY <1>3, <1>4 DEF MonsOK, NoMonitors
<1>9. db = d /\ box = EmptyBox /\ mons = NoMonitors /\ todo = <<>> /\ up = TRUE /\ born = 0
  BY <1>1 DEF Init
<1>10. StoreOK(db) /\ NamedIn(db, born) /\ born \in Nat  BY <1>5, <1>6, <1>7, <1>9 DEF StoreOK
<1>11. BoxOK(box) /\ MonsOK(mons)  BY <1>8, <1>9, EmptyBoxOK
<1>12. WorldOK  BY DEF Init, WorldOK
<1>13. TodoOK(DOMAIN world.nodes, db, todo)  BY <1>9, NilTodo
<1> QED  BY <1>9, <1>10, <1>11, <1>12, <1>13 DEF EngineInv

LEMMA Writes ==
  ASSUME EngineInv, Write
  PROVE  Onwards \/ \E x, names : Commits(x, names)
<1>1. CASE /\ Is("wake")
           /\ OnlyStore(Does(db, op), IF IsWaiting(db, op[2]) THEN <<<<"send", op[2]>>>> ELSE <<>>)
  BY <1>1, WakeWrites
<1>2. CASE /\ \E name \in {"mark_running", "mark_completed", "mark_failed", "mark_retrying",
                           "mark_waiting", "commit", "complete_session", "fail_session"} : Is(name)
           /\ OnlyStore(Does(db, op), <<>>)
  <2>1. PICK name : /\ Is(name)
                    /\ name \in {"mark_running", "mark_completed", "mark_failed", "mark_retrying",
                           "mark_waiting", "commit", "complete_session", "fail_session"}
    BY <1>2
  <2>2. OnlyStore(Does(db, op), <<>>)  BY <1>2
  <2>3. CASE name \in {"mark_running", "mark_completed", "mark_failed", "mark_retrying",
                       "complete_session", "fail_session"}
    BY <2>1, <2>2, <2>3, MarkWrites
  <2>4. CASE name = "mark_waiting"
    <3>1. Is("mark_waiting")  BY <2>1, <2>4
    <3> QED  BY <2>2, <3>1, WaitingWrites
  <2>5. CASE name = "commit"
    <3>1. Is("commit")  BY <2>1, <2>5
    <3> QED  BY <2>2, <3>1, CommitWrites
  <2> QED  BY <2>1, <2>3, <2>4, <2>5
<1> QED  BY <1>1, <1>2 DEF Write

\* What a step of the engine is.
EngineSteps ==
  \/ Onwards \/ (\E x, names : Commits(x, names)) \/ Scripted \/ Waited
  \/ \E p, x : Applying(p, x) /\ (Proceeds(p, x) \/ Empties(p, x) \/ Abandons(p, x))
  \/ Ambient \/ Dies \/ Restarts \/ Collects

LEMMA StepIs ==
  ASSUME PlannerOK, EngineInv, [Next]_vars
  PROVE  EngineSteps
<1>1. CASE Do
  <2>1. CASE Write  BY <2>1, Writes DEF EngineSteps
  <2>2. CASE Run  BY <2>2, Runs DEF EngineSteps
  <2>3. CASE Wait  BY <2>3, Waits DEF EngineSteps
  <2>4. CASE Send  BY <2>4, Sends DEF EngineSteps
  <2>5. CASE ApplyOne  BY <2>5, Applies DEF EngineSteps
  <2>6. CASE Notify  BY <2>6, Notifies DEF EngineSteps
  <2>7. CASE Tick  BY <2>7, Ticks DEF EngineSteps
  <2>8. CASE Call  BY <2>8, Calls DEF EngineSteps
  <2>9. CASE Create  BY <2>9, Creates DEF EngineSteps
  <2>10. CASE Start  BY <2>10, Starts DEF EngineSteps
  <2> QED  BY <1>1, <2>1, <2>2, <2>3, <2>4, <2>5, <2>6, <2>7, <2>8, <2>9, <2>10 DEF Do
<1>2. CASE Ack  BY <1>2, Acks DEF EngineSteps
<1>3. CASE Idle  BY <1>3, Idles DEF EngineSteps
<1>4. CASE Startup  BY <1>4, StartsUp DEF EngineSteps
<1>5. CASE \E e \in ready : Receive(e)  BY <1>5, Receives DEF EngineSteps
<1>6. CASE \E i \in DOMAIN world.triggers : ReceiveTrigger(i)  BY <1>6, ReceivesTrigger DEF EngineSteps
<1>7. CASE ApplyRefused  BY <1>7, Leaves DEF EngineSteps
<1>8. CASE NotifyRefused  BY <1>8, Refuses DEF EngineSteps
<1>9. CASE Collect  BY <1>9, CollectsOne DEF EngineSteps
<1>10. CASE Crash  BY <1>10, Crashes DEF EngineSteps
<1>11. CASE Clock  BY <1>11, Clocks DEF EngineSteps
<1>12. CASE \E n \in DOMAIN world.mail : Resolve(n) \/ Accept(n)
  <2>1. PICK n : Resolve(n) \/ Accept(n)  BY <1>12
  <2>2. CASE Resolve(n)  BY <2>2, Resolves DEF EngineSteps
  <2>3. CASE Accept(n)  BY <2>3, Accepts DEF EngineSteps
  <2> QED  BY <2>1, <2>2, <2>3
<1>13. CASE UNCHANGED vars
  <2>1. UNCHANGED <<world, todo, up, born>> /\ db' = db /\ box' = box /\ mons' = mons
    BY <1>13 DEF vars
  <2>2. MonsOK(mons')  BY <2>1 DEF EngineInv
  <2>3. Ambient  BY <2>1, <2>2, SameMarks, SameBox, OthersMark
  <2> QED  BY <2>3 DEF EngineSteps
<1> QED
  BY <1>1, <1>2, <1>3, <1>4, <1>5, <1>6, <1>7, <1>8, <1>9, <1>10, <1>11, <1>12, <1>13
  DEF Next, Engine

LEMMA StepInv ==
  ASSUME PlannerOK, EngineInv, [Next]_vars
  PROVE  EngineInv'
<1>1. EngineSteps  BY StepIs
<1> QED
  BY <1>1 DEF EngineSteps, Onwards, Quiet, Commits, Scripted, Waited, Applying, Ambient, Dies, Restarts,
     Collects

LEMMA InvOK == EngineInv => EngineOK
<1> SUFFICES ASSUME EngineInv PROVE EngineOK  OBVIOUS
<1>1. PICK c : c = db  OBVIOUS
<1>2. Rows(c) /\ Indexed(c)  BY <1>1 DEF EngineInv, StoreOK
<1>3. ASSUME NEW e \in DOMAIN c.exec
      PROVE  LET x == c.exec[e]
             IN  /\ x.status \in {"pending", "running", "waiting", "completed", "failed"}
                 /\ x.session \in DOMAIN c.sess
                 /\ (e \in c.pending) = (x.status = "pending")
                 /\ (e \in c.waiting) = (x.status = "waiting")
                 /\ (e \in c.outbox) = (x.effects # NoEffects)
  <2>1. RowOK(c, c.exec[e])  BY <1>2 DEF Rows
  <2>2. c.exec[e].status \in Statuses /\ c.exec[e].session \in DOMAIN c.sess
    BY <2>1 DEF RowOK
  <2>3. (e \in c.pending) <=> (c.exec[e].status = "pending")  BY <1>2 DEF Indexed, Having
  <2>4. (e \in c.waiting) <=> (c.exec[e].status = "waiting")  BY <1>2 DEF Indexed, Having
  <2>5. (e \in c.outbox) <=> (c.exec[e].effects # NoEffects)  BY <1>2 DEF Indexed, Owing
  <2> QED  BY <2>2, <2>3, <2>4, <2>5 DEF Statuses
<1>4. c.pending \cup c.waiting \cup c.outbox \subseteq DOMAIN c.exec
  BY <1>2 DEF Indexed, Having, Owing
<1>5. ToSet(c.terminal) = Items(c.terminal)
  <2>1. DOMAIN c.terminal = 1..Len(c.terminal)  BY <1>2, ListIs DEF Rows
  <2> QED  BY <2>1 DEF ToSet, Items
<1>6. ASSUME NEW s \in DOMAIN c.sess
      PROVE  /\ (s \in c.running) = (c.sess[s].status = "running")
             /\ (s \in ToSet(c.terminal)) = (s \notin c.running)
  <2>1. SessOK(c, s)  BY <1>2 DEF Rows
  <2>2. (s \in c.running) <=> (c.sess[s].status = "running")  BY <1>2 DEF Indexed, Live
  <2>3. (s \in Items(c.terminal)) <=> (c.sess[s].status # "running")  BY <2>1 DEF SessOK
  <2> QED  BY <1>5, <2>2, <2>3
<1>7. todo # <<>> => up  BY DEF EngineInv
<1> QED  BY <1>1, <1>3, <1>4, <1>6, <1>7 DEF EngineOK

\* Every execution and session stays in exactly the index sets of its status,
\* in the Redis store and in SQLite's, through splices, retries, parking,
\* wake-ups, crashes, recovery and collection.
THEOREM IndexesExact ==
  ASSUME PlannerOK
  PROVE  Spec => []EngineOK
<1>1. Init => EngineInv  BY InitInv
<1>2. EngineInv /\ [Next]_vars => EngineInv'  BY StepInv
<1>3. EngineInv => EngineOK  BY InvOK
<1> QED  BY <1>1, <1>2, <1>3, PTL DEF Spec
-----------------------------------------------------------------------------
(* What executions merged is acknowledged, or will be; l are the events whose
   acknowledgement an exception has cut off.                               *)

Bears(b, i, m) == i \in 1..Len(b.events) /\ b.events[i].letter.id = m
Acked(b, m) == \E i : Bears(b, i, m) /\ b.events[i].status = "acknowledged"
\* m is in the box where an acknowledgement of the ids in a conversation finds it.
Meets(b, m, conversation, ids) ==
  m \in ids /\ \E i : Bears(b, i, m) /\ b.events[i].letter.conversation = conversation

Safe(b, m, l) == m \in l \/ Acked(b, m)
Settled(c, b, e, l) == \A m \in c.exec[e].got : Safe(b, m, l)
AllSettled(c, b, l) == \A e \in DOMAIN c.exec : Settled(c, b, e, l)

\* The effects f acknowledge m.
Promises(b, f, m) == \E k \in f.acknowledge : Meets(b, m, k.conversation, k.ids)
Owed(c, b, l) ==
  \A e \in DOMAIN c.exec : \A m \in c.exec[e].got : Safe(b, m, l) \/ Promises(b, c.exec[e].effects, m)

\* A list of effects acknowledges what its execution merged before it clears the row.
Clears(p, e) == \E x \in Items(p) : x[1] = "clear" /\ x[2] = e
Covers(b, p, m) == \E x \in Items(p) : x[1] = "acknowledge" /\ Meets(b, m, x[2], x[3])
Pays(c, b, p, l) ==
  \A e \in DOMAIN c.exec : Clears(p, e) => \A m \in c.exec[e].got : Safe(b, m, l) \/ Covers(b, p, m)
AppliesOK(c, b, q, l) == \A x \in Items(q) : x[1] = "apply" => Pays(c, b, x[2], l)

\* While the worker runs, an execution with mail not acknowledged has its
\* effects in todo.
Handled(q, e) == \E x \in Items(q) : x[1] = "apply" /\ Clears(x[2], e)
Applied(c, b, q, l) == \A e \in DOMAIN c.exec : Settled(c, b, e, l) \/ Handled(q, e)

\* A wait that is about to commit: its mail is nobody's, and acknowledged next.
Merges(c, b, q, l) ==
  (q # <<>> /\ q[1][1] = "commit") =>
    /\ AllSettled(c, b, l)
    /\ \A m \in q[1][4] : ~Acked(b, m) /\ Promises(b, q[1][6], m)
    /\ q[1][4] # {} => q[1][6] # NoEffects /\ Sole(q, <<"apply", EffectSteps(q[1][2], q[1][6])>>)

Once(c, l) == \A e, f \in DOMAIN c.exec : e # f => c.exec[e].got \cap c.exec[f].got \subseteq l

Mail(c, b, q, on, l) ==
  /\ Owed(c, b, l) /\ AppliesOK(c, b, q, l) /\ (on => Applied(c, b, q, l)) /\ Merges(c, b, q, l) /\ Once(c, l)
MailInv == Mail(db, box, todo, up, left)
-----------------------------------------------------------------------------
LEMMA AckedOn == \A b, a, m : BoxOn(b, a) /\ Acked(b, m) => Acked(a, m)
BY DEF Acked, Bears, BoxOn, Onward

LEMMA SafeOn == \A b, a, m, l : BoxOn(b, a) /\ Safe(b, m, l) => Safe(a, m, l)
BY AckedOn DEF Safe

LEMMA MeetsOn == \A b, a, m, k, ids : BoxOn(b, a) /\ Meets(b, m, k, ids) => Meets(a, m, k, ids)
BY DEF Meets, Bears, BoxOn, Onward

LEMMA PromisesOn == \A b, a, f, m : BoxOn(b, a) /\ Promises(b, f, m) => Promises(a, f, m)
BY MeetsOn DEF Promises

LEMMA StillUnacked ==
  ASSUME NEW b, NEW a, BoxOn(b, a), Spares(b, a), NEW m, NEW k, NEW ids, Meets(b, m, k, ids),
         ~Acked(b, m)
  PROVE  ~Acked(a, m)
<1>1. SUFFICES ASSUME Acked(a, m) PROVE FALSE  OBVIOUS
<1>2. PICK i : Bears(b, i, m)  BY DEF Meets
<1>3. PICK j : Bears(a, j, m) /\ a.events[j].status = "acknowledged"  BY <1>1 DEF Acked
<1>4. Bears(a, i, m)  BY <1>2 DEF Bears, BoxOn, Onward
<1>5. i = j  BY <1>3, <1>4 DEF Bears, BoxOn, BoxOK
<1>6. b.events[i].status = "acknowledged"  BY <1>2, <1>3, <1>5 DEF Bears, Spares
<1> QED  BY <1>2, <1>6 DEF Acked

\* What executions merged stays.
Holds(c, d) ==
  \A e \in DOMAIN d.exec :
    d.exec[e].got # {} => e \in DOMAIN c.exec /\ d.exec[e].got = c.exec[e].got

LEMMA MovesHold == \A c, d, W : Moves(c, d, W, {}) => Holds(c, d)
BY DEF Moves, MovedRow, Holds

LEMMA OwedOn ==
  ASSUME NEW c, NEW d, NEW W, Moves(c, d, W, {}), NEW b, NEW a, BoxOn(b, a), NEW l, Owed(c, b, l)
  PROVE  Owed(d, a, l)
<1>1. ASSUME NEW e \in DOMAIN d.exec, NEW m \in d.exec[e].got
      PROVE  Safe(a, m, l) \/ Promises(a, d.exec[e].effects, m)
  <2>1. e \in DOMAIN c.exec /\ d.exec[e].got = c.exec[e].got /\ d.exec[e].effects = c.exec[e].effects
    BY <1>1 DEF Moves, MovedRow
  <2>2. Safe(b, m, l) \/ Promises(b, c.exec[e].effects, m)  BY <1>1, <2>1 DEF Owed
  <2> QED  BY <2>1, <2>2, SafeOn, PromisesOn
<1> QED  BY <1>1 DEF Owed

LEMMA OnceOn == \A c, d, l : Holds(c, d) /\ Once(c, l) => Once(d, l)
<1> SUFFICES ASSUME NEW c, NEW d, NEW l, Holds(c, d), Once(c, l)  PROVE Once(d, l)  OBVIOUS
<1>1. ASSUME NEW e \in DOMAIN d.exec, NEW f \in DOMAIN d.exec, e # f
      PROVE  d.exec[e].got \cap d.exec[f].got \subseteq l
  <2>1. CASE d.exec[e].got # {} /\ d.exec[f].got # {}
    <3>1. e \in DOMAIN c.exec /\ d.exec[e].got = c.exec[e].got  BY <2>1 DEF Holds
    <3>2. f \in DOMAIN c.exec /\ d.exec[f].got = c.exec[f].got  BY <2>1 DEF Holds
    <3> QED  BY <1>1, <3>1, <3>2 DEF Once
  <2> QED  BY <2>1
<1> QED  BY <1>1 DEF Once

LEMMA SettledOn ==
  ASSUME NEW c, NEW d, Holds(c, d), NEW b, NEW a, BoxOn(b, a), NEW l, NEW e \in DOMAIN d.exec,
         e \notin DOMAIN c.exec \/ Settled(c, b, e, l)
  PROVE  Settled(d, a, e, l)
<1>1. ASSUME NEW m \in d.exec[e].got  PROVE Safe(a, m, l)
  <2>1. e \in DOMAIN c.exec /\ d.exec[e].got = c.exec[e].got  BY <1>1 DEF Holds
  <2>2. Safe(b, m, l)  BY <1>1, <2>1 DEF Settled
  <2> QED  BY <2>2, SafeOn
<1> QED  BY <1>1 DEF Settled

LEMMA AllSettledOn ==
  ASSUME NEW c, NEW d, Holds(c, d), NEW b, NEW a, BoxOn(b, a), NEW l, AllSettled(c, b, l)
  PROVE  AllSettled(d, a, l)
<1>1. ASSUME NEW e \in DOMAIN d.exec  PROVE Settled(d, a, e, l)
  <2>1. e \notin DOMAIN c.exec \/ Settled(c, b, e, l)  BY DEF AllSettled
  <2> QED  BY <2>1, SettledOn
<1> QED  BY <1>1 DEF AllSettled

LEMMA PaysOn ==
  ASSUME NEW c, NEW d, Holds(c, d), NEW b, NEW a, BoxOn(b, a), NEW p, NEW l, Pays(c, b, p, l)
  PROVE  Pays(d, a, p, l)
<1>1. ASSUME NEW e \in DOMAIN d.exec, Clears(p, e), NEW m \in d.exec[e].got
      PROVE  Safe(a, m, l) \/ Covers(a, p, m)
  <2>1. e \in DOMAIN c.exec /\ d.exec[e].got = c.exec[e].got  BY <1>1 DEF Holds
  <2>2. Safe(b, m, l) \/ Covers(b, p, m)  BY <1>1, <2>1 DEF Pays
  <2>3. Covers(b, p, m) => Covers(a, p, m)  BY MeetsOn DEF Covers
  <2> QED  BY <2>2, <2>3, SafeOn
<1> QED  BY <1>1 DEF Pays

LEMMA AppliesOn ==
  ASSUME NEW c, NEW d, Holds(c, d), NEW b, NEW a, BoxOn(b, a), NEW q, NEW l, AppliesOK(c, b, q, l),
         NEW r, \A x \in Items(r) : x[1] = "apply" => x \in Items(q)
  PROVE  AppliesOK(d, a, r, l)
<1>1. ASSUME NEW x \in Items(r), x[1] = "apply"  PROVE Pays(d, a, x[2], l)
  <2>1. Pays(c, b, x[2], l)  BY <1>1 DEF AppliesOK
  <2> QED  BY <2>1, PaysOn
<1> QED  BY <1>1 DEF AppliesOK

LEMMA SettledPays == \A c, b, p, l : AllSettled(c, b, l) => Pays(c, b, p, l)
BY DEF AllSettled, Settled, Pays

LEMMA SettledOwed == \A c, b, l : AllSettled(c, b, l) => Owed(c, b, l)
BY DEF AllSettled, Settled, Owed

LEMMA HeadItems ==
  ASSUME NEW q, IsList(q), q # <<>>
  PROVE  IsList(Tail(q)) /\ Items(q) = {q[1]} \cup Items(Tail(q))
<1>1. PICK n, t : n = Len(q) /\ t = Tail(q)  OBVIOUS
<1>2. n \in Nat \ {0}  BY <1>1, TailList
<1>3. IsList(t) /\ Len(t) = n - 1  BY <1>1, TailList
<1>4. \A i \in 1..(n - 1) : t[i] = q[i + 1]
  <2>1. \A i \in 1..Len(t) : t[i] = q[i + 1]  BY <1>1, TailList
  <2> QED  BY <1>3, <2>1
<1>5. Items(t) = {t[i] : i \in 1..(n - 1)} /\ Items(q) = {q[i] : i \in 1..n}  BY <1>1, <1>3 DEF Items
<1>6. ASSUME NEW i \in 1..n  PROVE q[i] \in {q[1]} \cup Items(t)
  <2>1. CASE i = 1  BY <2>1
  <2>2. CASE i # 1
    <3>1. i - 1 \in 1..(n - 1) /\ (i - 1) + 1 = i  BY <1>2, <2>2
    <3>2. t[i - 1] = q[i]  BY <1>4, <3>1
    <3> QED  BY <1>5, <3>1, <3>2
  <2> QED  BY <2>1, <2>2
<1>7. ASSUME NEW i \in 1..(n - 1)  PROVE t[i] \in Items(q)
  <2>1. i + 1 \in 1..n  BY <1>2
  <2> QED  BY <1>4, <1>5, <2>1
<1>8. q[1] \in Items(q)
  <2>1. 1 \in 1..n  BY <1>2
  <2> QED  BY <1>5, <2>1
<1> QED  BY <1>1, <1>3, <1>5, <1>6, <1>7, <1>8

\* The lists of effects of what comes after the first operation.
LEMMA GoesItems ==
  ASSUME NEW q, IsList(q), q # <<>>, NEW more, IsList(more), NEW r, r = more \o Tail(q)
  PROVE  IsList(r) /\ Items(r) = Items(more) \cup Items(Tail(q)) /\ Items(q) = {q[1]} \cup Items(Tail(q))
<1>1. PICK t : t = Tail(q)  OBVIOUS
<1>2. IsList(t) /\ Items(q) = {q[1]} \cup Items(t)  BY <1>1, HeadItems
<1>3. IsList(more \o t) /\ Items(more \o t) = Items(more) \cup Items(t)  BY <1>2, Cat
<1> QED  BY <1>1, <1>2, <1>3

\* When nothing is left to apply, all is acknowledged.
LEMMA Quieted ==
  ASSUME NEW c, NEW b, NEW q, NEW l, Applied(c, b, q, l), NoApply(q)
  PROVE  AllSettled(c, b, l)
BY DEF Applied, NoApply, Handled, AllSettled

\* More acknowledgements are cut off.
LEMMA MailGrows ==
  ASSUME NEW c, NEW b, NEW q, NEW on, NEW l, NEW k, l \subseteq k, Mail(c, b, q, on, l)
  PROVE  Mail(c, b, q, on, k)
<1>1. \A m : Safe(b, m, l) => Safe(b, m, k)  BY DEF Safe
<1>2. \A e : Settled(c, b, e, l) => Settled(c, b, e, k)  BY <1>1 DEF Settled
<1>3. Owed(c, b, k)  BY <1>1 DEF Mail, Owed
<1>4. \A p : Pays(c, b, p, l) => Pays(c, b, p, k)  BY <1>1 DEF Pays
<1>5. AppliesOK(c, b, q, k)  BY <1>4 DEF Mail, AppliesOK
<1>6. on => Applied(c, b, q, k)  BY <1>2 DEF Mail, Applied
<1>7. AllSettled(c, b, l) => AllSettled(c, b, k)  BY <1>2 DEF AllSettled
<1>8. Merges(c, b, q, k)  BY <1>7 DEF Mail, Merges
<1>9. Once(c, k)  BY DEF Mail, Once
<1> QED  BY <1>3, <1>5, <1>6, <1>8, <1>9 DEF Mail

\* Only an exception cuts one off.
LEMMA LeftGrows ==
  ASSUME [Next]_vars
  PROVE  left \subseteq left'
<1>1. CASE Do
  <2>1. World => left' = left  BY DEF World
  <2>2. \A d, more : OnlyStore(d, more) => left' = left  BY <2>1 DEF OnlyStore
  <2>3. CASE Write  BY <2>2, <2>3 DEF Write
  <2>4. CASE Run  BY <2>2, <2>4, Zenon DEF Run
  <2>5. CASE Wait  BY <2>1, <2>2, <2>5 DEF Wait
  <2>6. CASE Send \/ Notify \/ Tick  BY <2>1, <2>6 DEF Send, Notify, Tick
  <2>7. CASE ApplyOne  BY <2>1, <2>7 DEF ApplyOne
  <2>8. CASE Call  BY <2>1, <2>8 DEF Call
  <2>9. CASE Create \/ Start  BY <2>1, <2>2, <2>9 DEF Create, Start
  <2> QED  BY <1>1, <2>3, <2>4, <2>5, <2>6, <2>7, <2>8, <2>9 DEF Do
<1>2. CASE Ack \/ Idle  BY <1>2 DEF Ack, Idle, Loop
<1>3. CASE Startup \/ Crash \/ Clock \/ Collect  BY <1>3 DEF Startup, Crash, Clock, Collect
<1>4. CASE \E e \in ready : Receive(e)  BY <1>4 DEF Receive, Loop
<1>5. CASE \E i \in DOMAIN world.triggers : ReceiveTrigger(i)  BY <1>5 DEF ReceiveTrigger, Loop
<1>6. CASE ApplyRefused  BY <1>6 DEF ApplyRefused
<1>7. CASE NotifyRefused  BY <1>7 DEF NotifyRefused
<1>8. CASE \E n \in DOMAIN world.mail : Resolve(n) \/ Accept(n)  BY <1>8 DEF Resolve, Accept
<1>9. CASE UNCHANGED vars  BY <1>9 DEF vars
<1> QED
  BY <1>1, <1>2, <1>3, <1>4, <1>5, <1>6, <1>7, <1>8, <1>9 DEF Next, Engine
-----------------------------------------------------------------------------
(* How the steps keep it.                                                  *)

LEMMA AmbientKeeps ==
  ASSUME MailInv, Ambient
  PROVE  Mail(db', box', todo', up', left)
<1>1. PICK c, d, b, a, q, l : l = left /\ c = db /\ d = db' /\ b = box /\ a = box' /\ q = todo  OBVIOUS
<1>2. Owed(c, b, l) /\ AppliesOK(c, b, q, l) /\ Merges(c, b, q, l) /\ Once(c, l)  BY <1>1 DEF MailInv, Mail
<1>3. up => Applied(c, b, q, l)  BY <1>1 DEF MailInv, Mail
<1>4. BoxOn(b, a) /\ Spares(b, a) /\ Moves(c, d, {}, {})  BY <1>1 DEF Ambient
<1>5. todo' = q /\ up' = up  BY <1>1 DEF Ambient
<1>6. Holds(c, d)  BY <1>4, MovesHold
<1>7. Owed(d, a, l)  BY <1>2, <1>4, OwedOn
<1>8. Once(d, l)  BY <1>2, <1>6, OnceOn
<1>9. AppliesOK(d, a, q, l)
  <2>1. \A x \in Items(q) : x[1] = "apply" => x \in Items(q)  OBVIOUS
  <2> QED  BY <1>2, <1>4, <1>6, <2>1, AppliesOn
<1>10. ASSUME Applied(c, b, q, l)  PROVE Applied(d, a, q, l)
  <2>1. ASSUME NEW e \in DOMAIN d.exec, ~Handled(q, e)  PROVE Settled(d, a, e, l)
    <3>1. e \notin DOMAIN c.exec \/ Settled(c, b, e, l)  BY <1>10, <2>1 DEF Applied
    <3> QED  BY <1>4, <1>6, <3>1, SettledOn
  <2> QED  BY <2>1 DEF Applied
<1>11. Merges(d, a, q, l)
  <2>1. SUFFICES ASSUME q # <<>>, q[1][1] = "commit"
                 PROVE  AllSettled(d, a, l) /\ \A m \in q[1][4] : ~Acked(a, m) /\ Promises(a, q[1][6], m)
    BY <1>2 DEF Merges
  <2>2. AllSettled(c, b, l)  BY <1>2, <2>1 DEF Merges
  <2>3. AllSettled(d, a, l)  BY <1>4, <1>6, <2>2, AllSettledOn
  <2>4. ASSUME NEW m \in q[1][4]  PROVE ~Acked(a, m) /\ Promises(a, q[1][6], m)
    <3>1. ~Acked(b, m) /\ Promises(b, q[1][6], m)  BY <1>2, <2>1, <2>4 DEF Merges
    <3>2. Promises(a, q[1][6], m)  BY <1>4, <3>1, PromisesOn
    <3>3. PICK k : Meets(b, m, k.conversation, k.ids)  BY <3>1 DEF Promises
    <3>4. ~Acked(a, m)  BY <1>4, <3>1, <3>3, StillUnacked
    <3> QED  BY <3>2, <3>4
  <2> QED  BY <2>3, <2>4
<1> QED  BY <1>1, <1>3, <1>5, <1>7, <1>8, <1>9, <1>10, <1>11 DEF Mail

\* Other operations come first.
LEMMA OnwardsKeep ==
  ASSUME EngineInv, MailInv, Onwards
  PROVE  Mail(db', box', todo', up', left)
<1>1. PICK c, d, b, a, q, r, l : l = left /\ c = db /\ d = db' /\ b = box /\ a = box' /\ q = todo /\ r = todo'
  OBVIOUS
<1>2. Owed(c, b, l) /\ AppliesOK(c, b, q, l) /\ Once(c, l)  BY <1>1 DEF MailInv, Mail
<1>3. Applied(c, b, q, l)  BY <1>1 DEF MailInv, Mail, Onwards
<1>4. BoxOn(b, a)  BY <1>1 DEF Onwards, Quiet
<1>5. PICK W : Moves(c, d, W, {})  BY <1>1 DEF Onwards, Quiet
<1>6. Holds(c, d)  BY <1>5, MovesHold
<1>7. Owed(d, a, l)  BY <1>2, <1>4, <1>5, OwedOn
<1>8. Once(d, l)  BY <1>2, <1>6, OnceOn
<1>9. IsList(q) /\ q # <<>> /\ q[1][1] # "apply" /\ NoCommit(r)
  <2>1. TodoOK(DOMAIN world.nodes, db, q) /\ q # <<>>  BY <1>1 DEF Onwards, EngineInv
  <2>2. IsList(q)  BY <2>1 DEF TodoOK
  <2>3. q[1][1] # "apply" /\ NoCommit(r)  BY <1>1 DEF Onwards
  <2> QED  BY <2>1, <2>2, <2>3
<1>10. PICK more : NoApply(more) /\ r = more \o Tail(q)  BY <1>1 DEF Onwards
<1>11. Items(r) = Items(more) \cup Items(Tail(q)) /\ Items(q) = {q[1]} \cup Items(Tail(q))
  <2>1. IsList(more)  BY <1>10 DEF NoApply
  <2> QED  BY <1>9, <1>10, <2>1, GoesItems
<1>12. \A x : x[1] = "apply" => (x \in Items(r) <=> x \in Items(q))
  BY <1>9, <1>10, <1>11 DEF NoApply
<1>13. AppliesOK(d, a, r, l)
  <2>1. \A x \in Items(r) : x[1] = "apply" => x \in Items(q)  BY <1>12
  <2> QED  BY <1>2, <1>4, <1>6, <2>1, AppliesOn
<1>14. Applied(d, a, r, l)
  <2>1. ASSUME NEW e \in DOMAIN d.exec, ~Handled(r, e)  PROVE Settled(d, a, e, l)
    <3>1. ~Handled(q, e)  BY <1>12, <2>1 DEF Handled
    <3>2. e \notin DOMAIN c.exec \/ Settled(c, b, e, l)  BY <1>3, <3>1 DEF Applied
    <3> QED  BY <1>4, <1>6, <3>2, SettledOn
  <2> QED  BY <2>1 DEF Applied
<1>15. Merges(d, a, r, l)  BY <1>9 DEF Merges, NoCommit
<1> QED  BY <1>1, <1>7, <1>8, <1>13, <1>14, <1>15 DEF Mail

\* With everything acknowledged nothing is owed.
LEMMA CalmMail ==
  ASSUME NEW d, NEW a, NEW l, AllSettled(d, a, l), NEW q, NEW on, Merges(d, a, q, l), Once(d, l)
  PROVE  Mail(d, a, q, on, l)
<1>1. Owed(d, a, l)  BY SettledOwed
<1>2. AppliesOK(d, a, q, l)  BY SettledPays DEF AppliesOK
<1>3. Applied(d, a, q, l)  BY DEF AllSettled, Applied
<1> QED  BY <1>1, <1>2, <1>3 DEF Mail

LEMMA ScriptedKeeps ==
  ASSUME MailInv, Scripted
  PROVE  Mail(db', box', todo', up', left)
<1>1. PICK c, d, b, a, q, r, l : l = left /\ c = db /\ d = db' /\ b = box /\ a = box' /\ q = todo /\ r = todo'
  OBVIOUS
<1>2. Applied(c, b, q, l) /\ Once(c, l)  BY <1>1 DEF MailInv, Mail, Scripted
<1>3. NoApply(q) /\ Unmerged(r) /\ BoxOn(b, a)  BY <1>1 DEF Scripted, Quiet
<1>4. PICK W : Moves(c, d, W, {})  BY <1>1 DEF Scripted, Quiet
<1>5. Holds(c, d)  BY <1>4, MovesHold
<1>6. AllSettled(c, b, l)  BY <1>2, <1>3, Quieted
<1>7. AllSettled(d, a, l)  BY <1>3, <1>5, <1>6, AllSettledOn
<1>8. Once(d, l)  BY <1>2, <1>5, OnceOn
<1>9. Merges(d, a, r, l)  BY <1>3, <1>7 DEF Merges, Unmerged
<1>10. Mail(d, a, r, up', l)  BY <1>7, <1>8, <1>9, CalmMail
<1> QED  BY <1>1, <1>10

LEMMA WaitedKeeps ==
  ASSUME EngineInv, MailInv, Waited
  PROVE  Mail(db', box', todo', up', left)
<1>1. PICK c, b, a, q, r, l : l = left /\ c = db /\ b = box /\ a = box' /\ q = todo /\ r = todo'
  OBVIOUS
<1>2. Applied(c, b, q, l) /\ Once(c, l)  BY <1>1 DEF MailInv, Mail, Waited
<1>3. NoApply(q) /\ BoxOn(b, a)  BY <1>1 DEF Waited, Quiet
<1>4. Holds(c, c)  BY DEF Holds
<1>5. AllSettled(c, b, l)  BY <1>2, <1>3, Quieted
<1>6. AllSettled(c, a, l)  BY <1>3, <1>4, <1>5, AllSettledOn
<1>7. Merges(c, a, r, l)
  <2>1. CASE Unmerged(r)  BY <1>6, <2>1 DEF Merges, Unmerged
  <2>2. CASE Draining
    <3>1. PICK P : /\ \A i \in P : i \in 1..Len(b.events) /\ b.events[i].status # "acknowledged"
                   /\ Spares(b, a)
                   /\ r # <<>> /\ r[1][1] = "commit" /\ r[1][4] = LetterIds(b, P)
                   /\ Sole(r, <<"apply", EffectSteps(r[1][2], r[1][6])>>)
                   /\ \E conversation :
                        /\ r[1][6] = Drained(conversation, LetterIds(b, P))
                        /\ \A i \in P : b.events[i].letter.conversation = conversation
      BY <1>1, <2>2 DEF Draining
    <3>2. PICK conversation, ids : /\ ids = LetterIds(b, P) /\ r[1][6] = Drained(conversation, ids)
                                   /\ \A i \in P : b.events[i].letter.conversation = conversation
      BY <3>1
    <3>3. PICK f : f = r[1][6]  OBVIOUS
    <3>4. f # NoEffects /\ f.acknowledge = {[conversation |-> conversation, ids |-> ids]}
      BY <3>2, <3>3, DrainedIs
    <3>5. BoxOK(b)  BY <1>1 DEF EngineInv
    <3>6. ASSUME NEW m \in ids  PROVE ~Acked(a, m) /\ Promises(a, f, m)
      <4>1. PICK i \in P : m = b.events[i].letter.id  BY <3>2, <3>6 DEF LetterIds
      <4>2. Bears(b, i, m) /\ b.events[i].status # "acknowledged"  BY <3>1, <4>1 DEF Bears
      <4>3. Meets(b, m, conversation, ids)  BY <3>2, <3>6, <4>1, <4>2 DEF Meets
      <4>4. ~Acked(b, m)
        <5>1. SUFFICES ASSUME Acked(b, m) PROVE FALSE  OBVIOUS
        <5>2. PICK j : Bears(b, j, m) /\ b.events[j].status = "acknowledged"  BY <5>1 DEF Acked
        <5>3. i = j  BY <3>5, <4>2, <5>2 DEF Bears, BoxOK
        <5> QED  BY <4>2, <5>2, <5>3
      <4>5. ~Acked(a, m)  BY <1>3, <3>1, <4>3, <4>4, StillUnacked
      <4>6. Promises(b, f, m)
        <5>1. PICK k : k = [conversation |-> conversation, ids |-> ids]  OBVIOUS
        <5>2. k \in f.acknowledge /\ k.conversation = conversation /\ k.ids = ids  BY <3>4, <5>1
        <5> QED  BY <4>3, <5>2 DEF Promises
      <4>7. Promises(a, f, m)  BY <1>3, <4>6, PromisesOn
      <4> QED  BY <4>5, <4>7
    <3>7. r[1][4] = ids  BY <3>1, <3>2
    <3>8. \A m \in r[1][4] : ~Acked(a, m) /\ Promises(a, r[1][6], m)  BY <3>3, <3>6, <3>7
    <3>9. r[1][6] # NoEffects  BY <3>3, <3>4
    <3>10. Sole(r, <<"apply", EffectSteps(r[1][2], r[1][6])>>)  BY <3>1
    <3> QED  BY <1>6, <3>8, <3>9, <3>10 DEF Merges
  <2> QED  BY <1>1, <2>1, <2>2 DEF Waited
<1>8. Mail(c, a, r, up', l)  BY <1>2, <1>6, <1>7, CalmMail
<1>9. db' = c  BY <1>1 DEF Waited
<1> QED  BY <1>1, <1>8, <1>9
-----------------------------------------------------------------------------
(* Commits and their effects.                                              *)

\* The steps of effects acknowledge what the effects promise, and clear their row only.
LEMMA StepsPay ==
  ASSUME NEW e, NEW f, EffectsOK(f), NEW p, p = EffectSteps(e, f)
  PROVE  /\ Clears(p, e) /\ \A g : Clears(p, g) => g = e
         /\ \A b, m : Promises(b, f, m) => Covers(b, p, m)
<1>1. StepsOK(p, e, f)  BY EffectStepsAre
<1>2. Clears(p, e)
  <2>1. PICK x : x = <<"clear", e>>  OBVIOUS
  <2>2. x \in Items(p) /\ x[1] = "clear" /\ x[2] = e  BY <1>1, <2>1 DEF StepsOK
  <2> QED  BY <2>2 DEF Clears
<1>3. ASSUME NEW g, Clears(p, g)  PROVE g = e
  <2>1. PICK x \in Items(p) : x[1] = "clear" /\ x[2] = g  BY <1>3 DEF Clears
  <2>2. x = <<"clear", e>>  BY <1>1, <2>1 DEF StepsOK
  <2>3. x[2] = e  BY <2>2
  <2> QED  BY <2>1, <2>3
<1>4. ASSUME NEW b, NEW m, Promises(b, f, m)  PROVE Covers(b, p, m)
  <2>1. PICK k \in f.acknowledge : Meets(b, m, k.conversation, k.ids)  BY <1>4 DEF Promises
  <2>2. PICK x : x = AckOf(k)  OBVIOUS
  <2>3. x \in Items(p)  BY <1>1, <2>1, <2>2 DEF StepsOK
  <2>4. x[1] = "acknowledge" /\ x[2] = k.conversation /\ x[3] = k.ids  BY <2>2 DEF AckOf
  <2> QED  BY <2>1, <2>3, <2>4 DEF Covers
<1> QED  BY <1>2, <1>3, <1>4

LEMMA CommitKeeps ==
  ASSUME MailInv, NEW x, NEW names, Commits(x, names)
  PROVE  Mail(db', box', todo', up', left)
<1>1. PICK c, d, b, q, r, l : l = left /\ c = db /\ d = db' /\ b = box /\ q = todo /\ r = todo'
  OBVIOUS
<1>2. Merges(c, b, q, l) /\ Once(c, l)  BY <1>1 DEF MailInv, Mail
<1>3. q # <<>> /\ x = q[1] /\ x[1] = "commit"  BY <1>1 DEF Commits
<1>4. AllSettled(c, b, l)  BY <1>2, <1>3 DEF Merges
<1>5. \A m \in x[4] : ~Acked(b, m) /\ Promises(b, x[6], m)  BY <1>2, <1>3 DEF Merges
<1>6. PICK e, got, f : e = x[2] /\ got = x[4] /\ f = x[6]  OBVIOUS
<1>7. Committed(c, d, e, got, f, names)  BY <1>1, <1>6 DEF Commits
<1>8. e \in DOMAIN c.exec /\ FirstOK(c, x)  BY <1>1, <1>6 DEF Commits
<1>9. EffectsOK(f)  BY <1>3, <1>6, <1>8 DEF FirstOK
<1>10. Moves(c, d, {}, {e}) /\ d.exec[e].got = got /\ (f # NoEffects => d.exec[e].effects = f)
  BY <1>7 DEF Committed
<1>11. \A g \in DOMAIN d.exec :
         g # e => \/ g \in DOMAIN c.exec /\ d.exec[g].got = c.exec[g].got
                  \/ d.exec[g].got = {}
  BY <1>10 DEF Moves, MovedRow
<1>12. ASSUME NEW g \in DOMAIN d.exec, g # e  PROVE Settled(d, b, g, l)
  <2>1. CASE g \in DOMAIN c.exec /\ d.exec[g].got = c.exec[g].got
    BY <1>4, <2>1 DEF AllSettled, Settled
  <2>2. CASE d.exec[g].got = {}  BY <2>2 DEF Settled
  <2> QED  BY <1>11, <1>12, <2>1, <2>2
<1>13. NoCommit(r)  BY <1>1 DEF Commits
<1>14. Merges(d, b, r, l)  BY <1>13 DEF Merges, NoCommit
<1>15. Once(d, l)
  <2>1. ASSUME NEW g \in DOMAIN d.exec, g # e  PROVE d.exec[g].got \cap got \subseteq l
    <3>1. \A m \in d.exec[g].got : Safe(b, m, l)  BY <1>12, <2>1 DEF Settled
    <3> QED  BY <1>5, <1>6, <3>1 DEF Safe
  <2>2. ASSUME NEW g \in DOMAIN d.exec, NEW h \in DOMAIN d.exec, g # h, g # e, h # e
        PROVE  d.exec[g].got \cap d.exec[h].got \subseteq l
    <3>1. CASE d.exec[g].got = {} \/ d.exec[h].got = {}  BY <3>1
    <3>2. CASE d.exec[g].got # {} /\ d.exec[h].got # {}
      <4>1. g \in DOMAIN c.exec /\ d.exec[g].got = c.exec[g].got  BY <1>11, <2>2, <3>2
      <4>2. h \in DOMAIN c.exec /\ d.exec[h].got = c.exec[h].got  BY <1>11, <2>2, <3>2
      <4> QED  BY <1>2, <2>2, <4>1, <4>2 DEF Once
    <3> QED  BY <3>1, <3>2
  <2>3. ASSUME NEW g \in DOMAIN d.exec, NEW h \in DOMAIN d.exec, g # h
        PROVE  d.exec[g].got \cap d.exec[h].got \subseteq l
    <3>1. CASE g = e  BY <1>10, <2>1, <2>3, <3>1
    <3>2. CASE h = e  BY <1>10, <2>1, <2>3, <3>2
    <3> QED  BY <2>2, <2>3, <3>1, <3>2
  <2> QED  BY <2>3 DEF Once
<1>16. CASE got = {}
  <2>1. Settled(d, b, e, l)  BY <1>10, <1>16 DEF Settled
  <2>2. AllSettled(d, b, l)  BY <1>12, <2>1 DEF AllSettled
  <2>3. Mail(d, b, r, up', l)  BY <1>14, <1>15, <2>2, CalmMail
  <2>4. box' = b  BY <1>1 DEF Commits
  <2> QED  BY <1>1, <2>3, <2>4
<1>17. CASE got # {}
  <2>1. f # NoEffects  BY <1>2, <1>3, <1>6, <1>17 DEF Merges
  <2>2. PICK y : y = <<"apply", EffectSteps(e, f)>>  OBVIOUS
  <2>3. y[1] = "apply" /\ y[2] = EffectSteps(e, f)  BY <2>2
  <2>4. Sole(q, <<"apply", EffectSteps(x[2], x[6])>>)  BY <1>2, <1>3, <1>6, <1>17 DEF Merges
  <2>5. Sole(q, y)  BY <1>6, <2>2, <2>4
  <2>6. IsList(q) /\ r = Tail(q)  BY <1>1 DEF Commits
  <2>7. IsList(r) /\ Items(q) = {q[1]} \cup Items(r)  BY <1>3, <2>6, HeadItems
  <2>8. Sole(r, y)  BY <2>5, <2>7 DEF Sole
  <2>9. r # <<>> /\ r[1] = y
    <3>1. Heeds(x, r)  BY <1>1 DEF Commits
    <3>2. r # <<>> /\ r[1] = <<"apply", EffectSteps(x[2], x[6])>>  BY <1>3, <1>6, <1>17, <3>1 DEF Heeds
    <3> QED  BY <1>6, <2>2, <3>2
  <2>10. y \in Items(r)  BY <2>7, <2>9, HeadItems
  <2>11. PICK p : p = EffectSteps(e, f)  OBVIOUS
  <2>12. /\ Clears(p, e) /\ \A g : Clears(p, g) => g = e
         /\ \A a, m : Promises(a, f, m) => Covers(a, p, m)
    BY <1>9, <2>11, StepsPay
  <2>13. Pays(d, b, p, l)
    <3>1. ASSUME NEW g \in DOMAIN d.exec, Clears(p, g), NEW m \in d.exec[g].got  PROVE Covers(b, p, m)
      <4>1. g = e  BY <2>12, <3>1
      <4>2. m \in x[4]  BY <1>6, <1>10, <3>1, <4>1
      <4>3. Promises(b, f, m)  BY <1>5, <1>6, <4>2
      <4> QED  BY <2>12, <4>3
    <3> QED  BY <3>1 DEF Pays
  <2>14. AppliesOK(d, b, r, l)  BY <2>3, <2>8, <2>11, <2>13 DEF AppliesOK, Sole
  <2>15. Owed(d, b, l)
    <3>1. ASSUME NEW g \in DOMAIN d.exec, NEW m \in d.exec[g].got
          PROVE  Safe(b, m, l) \/ Promises(b, d.exec[g].effects, m)
      <4>1. CASE g # e  BY <1>12, <3>1, <4>1 DEF Settled
      <4>2. CASE g = e
        <5>1. m \in x[4] /\ d.exec[g].effects = f  BY <1>6, <1>10, <2>1, <3>1, <4>2
        <5> QED  BY <1>5, <1>6, <5>1
      <4> QED  BY <4>1, <4>2
    <3> QED  BY <3>1 DEF Owed
  <2>16. Handled(r, e)  BY <2>3, <2>10, <2>11, <2>12 DEF Handled
  <2>17. Applied(d, b, r, l)  BY <1>12, <2>16 DEF Applied
  <2>18. Mail(d, b, r, up', l)  BY <1>14, <1>15, <2>14, <2>15, <2>17 DEF Mail
  <2>19. box' = b  BY <1>1 DEF Commits
  <2> QED  BY <1>1, <2>18, <2>19
<1> QED  BY <1>16, <1>17

\* Nothing before an acknowledgement: a list that begins otherwise has none.
LEMMA NoMoreAcks ==
  ASSUME NEW p, PartsOK(p), AcksFirst(p), p[1][1] # "acknowledge"
  PROVE  \A b, m : ~Covers(b, p, m)
<1>1. SUFFICES ASSUME NEW b, NEW m, Covers(b, p, m)  PROVE FALSE  OBVIOUS
<1>2. PICK y \in Items(p) : y[1] = "acknowledge"  BY <1>1 DEF Covers
<1>3. PICK j \in 1..Len(p) : y = p[j]  BY <1>2 DEF Items
<1>4. IsList(p)  BY DEF PartsOK
<1>5. PICK n : n = Len(p) /\ n \in Nat  BY <1>4, ListIs
<1>6. 1 \in 1..j  BY <1>3, <1>5
<1>7. p[1][1] = "acknowledge"  BY <1>2, <1>3, <1>6 DEF AcksFirst
<1> QED  BY <1>7

\* Then whoever's row it clears has all its mail acknowledged.
LEMMA NoMoreOwed ==
  ASSUME NEW c, NEW b, NEW p, NEW l, Pays(c, b, p, l), \A m : ~Covers(b, p, m), NEW e \in DOMAIN c.exec, Clears(p, e)
  PROVE  Settled(c, b, e, l)
BY DEF Pays, Settled
-----------------------------------------------------------------------------
(* Effects are applied, the worker dies and recovers.                      *)

LEMMA PartItems ==
  ASSUME NEW p, PartsOK(p), NEW x, x = p[1]
  PROVE  Items(p) = {x} \cup Items(Tail(p))
<1>1. IsList(p) /\ p # <<>>  BY PartsOn
<1> QED  BY <1>1, HeadItems

LEMMA ProceedsKeeps ==
  ASSUME MailInv, NEW p, NEW x, Applying(p, x), Proceeds(p, x)
  PROVE  Mail(db', box', todo', up', left)
<1>1. PICK c, d, b, a, q, r, l : l = left /\ c = db /\ d = db' /\ b = box /\ a = box' /\ q = todo /\ r = todo'
  OBVIOUS
<1>2. Owed(c, b, l) /\ AppliesOK(c, b, q, l) /\ Once(c, l)  BY <1>1 DEF MailInv, Mail
<1>3. Applied(c, b, q, l)  BY <1>1 DEF MailInv, Mail, Applying
<1>4. BoxOn(b, a) /\ NoCommit(r)  BY <1>1 DEF Applying
<1>5. Moves(c, d, {}, {}) /\ x[1] # "clear"  BY <1>1 DEF Proceeds
<1>6. Holds(c, d)  BY <1>5, MovesHold
<1>7. Owed(d, a, l)  BY <1>2, <1>4, <1>5, OwedOn
<1>8. Once(d, l)  BY <1>2, <1>6, OnceOn
<1>9. IsList(q) /\ q # <<>> /\ q[1][1] = "apply" /\ p = q[1][2]  BY <1>1 DEF Applying
<1>10. PICK y, t : y[1] = "apply" /\ t = Tail(p) /\ y[2] = t /\ r = <<y>> \o Tail(q)
  BY <1>1 DEF Proceeds
<1>11. Items(r) = {y} \cup Items(Tail(q)) /\ Items(q) = {q[1]} \cup Items(Tail(q))
  <2>1. PICK more : more = <<y>>  OBVIOUS
  <2>2. IsList(more) /\ Items(more) = {y}  BY <2>1, OneList
  <2>3. r = more \o Tail(q)  BY <1>10, <2>1
  <2>4. Items(r) = Items(more) \cup Items(Tail(q)) /\ Items(q) = {q[1]} \cup Items(Tail(q))
    BY <1>9, <2>2, <2>3, GoesItems
  <2> QED  BY <2>2, <2>4
<1>12. Items(p) = {x} \cup Items(t)
  <2>1. PartsOK(p) /\ x = p[1]  BY DEF Applying
  <2> QED  BY <1>10, <2>1, PartItems
<1>13. \A g : Clears(t, g) <=> Clears(p, g)  BY <1>5, <1>12 DEF Clears
<1>14. ASSUME NEW m, Covers(b, p, m)  PROVE Acked(a, m) \/ Covers(a, t, m)
  <2>1. PICK z \in Items(p) : z[1] = "acknowledge" /\ Meets(b, m, z[2], z[3])  BY <1>14 DEF Covers
  <2>2. CASE z \in Items(t)
    <3>1. Meets(a, m, z[2], z[3])  BY <1>4, <2>1, MeetsOn
    <3> QED  BY <2>1, <2>2, <3>1 DEF Covers
  <2>3. CASE z = x
    <3>1. \A i \in 1..Len(b.events) :
            b.events[i].letter.conversation = x[2] /\ b.events[i].letter.id \in x[3]
              => a.events[i].status = "acknowledged"
      BY <1>1, <2>1, <2>3 DEF Proceeds
    <3>2. PICK i : Bears(b, i, m) /\ b.events[i].letter.conversation = x[2] /\ m \in x[3]
      BY <2>1, <2>3 DEF Meets
    <3>3. a.events[i].status = "acknowledged"  BY <3>1, <3>2 DEF Bears
    <3>4. Bears(a, i, m)  BY <1>4, <3>2 DEF Bears, BoxOn, Onward
    <3> QED  BY <3>3, <3>4 DEF Acked
  <2> QED  BY <1>12, <2>1, <2>2, <2>3
<1>15. Pays(d, a, t, l)
  <2>1. q[1] \in Items(q)  BY <1>11
  <2>2. Pays(c, b, p, l)  BY <1>2, <1>9, <2>1 DEF AppliesOK
  <2>3. ASSUME NEW e \in DOMAIN d.exec, Clears(t, e), NEW m \in d.exec[e].got
        PROVE  Safe(a, m, l) \/ Covers(a, t, m)
    <3>1. e \in DOMAIN c.exec /\ d.exec[e].got = c.exec[e].got  BY <1>6, <2>3 DEF Holds
    <3>2. Clears(p, e)  BY <1>13, <2>3
    <3>3. Safe(b, m, l) \/ Covers(b, p, m)  BY <2>2, <2>3, <3>1, <3>2 DEF Pays
    <3> QED  BY <1>4, <1>14, <3>3, SafeOn DEF Safe
  <2> QED  BY <2>3 DEF Pays
<1>16. AppliesOK(d, a, r, l)
  <2>1. ASSUME NEW z \in Items(r), z[1] = "apply"  PROVE Pays(d, a, z[2], l)
    <3>1. CASE z = y  BY <1>10, <1>15, <3>1
    <3>2. CASE z \in Items(Tail(q))
      <4>1. Pays(c, b, z[2], l)  BY <1>2, <1>11, <2>1, <3>2 DEF AppliesOK
      <4> QED  BY <1>4, <1>6, <4>1, PaysOn
    <3> QED  BY <1>11, <2>1, <3>1, <3>2
  <2> QED  BY <2>1 DEF AppliesOK
<1>17. Applied(d, a, r, l)
  <2>1. ASSUME NEW e \in DOMAIN d.exec, ~Handled(r, e)  PROVE Settled(d, a, e, l)
    <3>1. ~Handled(q, e)
      <4>1. SUFFICES ASSUME Handled(q, e) PROVE FALSE  OBVIOUS
      <4>2. PICK z \in Items(q) : z[1] = "apply" /\ Clears(z[2], e)  BY <4>1 DEF Handled
      <4>3. CASE z = q[1]
        <5>1. Clears(y[2], e)  BY <1>9, <1>10, <1>13, <4>2, <4>3
        <5> QED  BY <1>10, <1>11, <2>1, <5>1 DEF Handled
      <4>4. CASE z \in Items(Tail(q))  BY <1>11, <2>1, <4>2, <4>4 DEF Handled
      <4> QED  BY <1>11, <4>2, <4>3, <4>4
    <3>2. e \notin DOMAIN c.exec \/ Settled(c, b, e, l)  BY <1>3, <3>1 DEF Applied
    <3> QED  BY <1>4, <1>6, <3>2, SettledOn
  <2> QED  BY <2>1 DEF Applied
<1>18. Merges(d, a, r, l)  BY <1>4 DEF Merges, NoCommit
<1> QED  BY <1>1, <1>7, <1>8, <1>16, <1>17, <1>18 DEF Mail

\* The first effects of todo are dropped when no acknowledgement of theirs is missed.
LEMMA Dropped ==
  ASSUME NEW c, NEW b, NEW q, IsList(q), q # <<>>, q[1][1] = "apply", NEW p, p = q[1][2],
         NEW l, AppliesOK(c, b, q, l), Applied(c, b, q, l),
         \A e \in DOMAIN c.exec : Clears(p, e) => Settled(c, b, e, l),
         NEW d, Holds(c, d), NEW a, BoxOn(b, a),
         NEW more, NoApply(more), NEW r, r = more \o Tail(q)
  PROVE  AppliesOK(d, a, r, l) /\ Applied(d, a, r, l)
<1>2. Items(r) = Items(more) \cup Items(Tail(q)) /\ Items(q) = {q[1]} \cup Items(Tail(q))
  <2>1. IsList(more)  BY DEF NoApply
  <2> QED  BY <2>1, GoesItems
<1>5. AppliesOK(d, a, r, l)
  <2>1. \A x \in Items(r) : x[1] = "apply" => x \in Items(q)  BY <1>2 DEF NoApply
  <2> QED  BY <2>1, AppliesOn
<1>6. ASSUME NEW e \in DOMAIN d.exec, ~Handled(r, e)  PROVE Settled(d, a, e, l)
  <2>1. e \notin DOMAIN c.exec \/ Settled(c, b, e, l)
    <3>1. CASE Handled(q, e)
      <4>1. PICK z \in Items(q) : z[1] = "apply" /\ Clears(z[2], e)  BY <3>1 DEF Handled
      <4>2. z = q[1]  BY <1>2, <1>6, <4>1 DEF Handled
      <4> QED  BY <4>1, <4>2
    <3>2. CASE ~Handled(q, e)  BY <3>2 DEF Applied
    <3> QED  BY <3>1, <3>2
  <2> QED  BY <2>1, SettledOn
<1>7. Applied(d, a, r, l)  BY <1>6 DEF Applied
<1> QED  BY <1>5, <1>7

LEMMA EmptiesKeeps ==
  ASSUME MailInv, NEW p, NEW x, Applying(p, x), Empties(p, x)
  PROVE  Mail(db', box', todo', up', left)
<1>1. PICK c, d, b, a, q, r, l : l = left /\ c = db /\ d = db' /\ b = box /\ a = box' /\ q = todo /\ r = todo'
  OBVIOUS
<1>2. Owed(c, b, l) /\ AppliesOK(c, b, q, l) /\ Once(c, l)  BY <1>1 DEF MailInv, Mail
<1>3. Applied(c, b, q, l)  BY <1>1 DEF MailInv, Mail, Applying
<1>4. BoxOn(b, a) /\ NoCommit(r)  BY <1>1 DEF Applying
<1>5. x[1] = "clear" /\ Cleared(c, d, x[2])  BY <1>1 DEF Empties
<1>6. PICK more : NoApply(more) /\ r = more \o Tail(q)  BY <1>1 DEF Empties
<1>7. IsList(q) /\ q # <<>> /\ q[1][1] = "apply" /\ p = q[1][2]  BY <1>1 DEF Applying
<1>8. PartsOK(p) /\ AcksFirst(p) /\ x = p[1]  BY DEF Applying
<1>9. p[1][1] # "acknowledge"  BY <1>5, <1>8
<1>10. Holds(c, d)  BY <1>5 DEF Cleared, Holds
<1>16. \A e \in DOMAIN c.exec : Clears(p, e) => Settled(c, b, e, l)
  <2>1. q[1] \in Items(q)  BY <1>7, HeadItems
  <2>2. Pays(c, b, p, l)  BY <1>2, <1>7, <2>1 DEF AppliesOK
  <2>3. \A m : ~Covers(b, p, m)  BY <1>8, <1>9, NoMoreAcks
  <2> QED  BY <2>2, <2>3, NoMoreOwed
<1>11. AppliesOK(d, a, r, l) /\ Applied(d, a, r, l)
  BY <1>2, <1>3, <1>4, <1>6, <1>7, <1>10, <1>16, Dropped
<1>12. Clears(p, x[2])
  <2>1. x \in Items(p)  BY <1>8, PartItems
  <2> QED  BY <1>5, <2>1 DEF Clears
<1>13. Owed(d, a, l)
  <2>1. ASSUME NEW e \in DOMAIN d.exec, NEW m \in d.exec[e].got
        PROVE  Safe(a, m, l) \/ Promises(a, d.exec[e].effects, m)
    <3>1. e \in DOMAIN c.exec /\ d.exec[e].got = c.exec[e].got  BY <1>5 DEF Cleared
    <3>2. CASE e = x[2]
      <4>1. Safe(b, m, l)  BY <1>12, <1>16, <2>1, <3>1, <3>2 DEF Settled
      <4> QED  BY <1>4, <4>1, SafeOn
    <3>3. CASE e # x[2]
      <4>1. d.exec[e].effects = c.exec[e].effects  BY <1>5, <3>1, <3>3 DEF Cleared, Moves, MovedRow
      <4>2. Safe(b, m, l) \/ Promises(b, c.exec[e].effects, m)  BY <1>2, <2>1, <3>1 DEF Owed
      <4> QED  BY <1>4, <4>1, <4>2, SafeOn, PromisesOn
    <3> QED  BY <3>2, <3>3
  <2> QED  BY <2>1 DEF Owed
<1>14. Once(d, l)  BY <1>2, <1>10, OnceOn
<1>15. Merges(d, a, r, l)  BY <1>4 DEF Merges, NoCommit
<1> QED  BY <1>1, <1>11, <1>13, <1>14, <1>15 DEF Mail

\* What p still covers is cut off.
LEMMA AbandonsKeeps ==
  ASSUME MailInv, NEW p, NEW x, Applying(p, x), Abandons(p, x)
  PROVE  MailInv'
<1>1. PICK c, d, b, a, q, r, l :
        c = db /\ d = db' /\ b = box /\ a = box' /\ q = todo /\ r = todo' /\ l = left'
  OBVIOUS
<1>2. l = left \cup Unpaid(p) /\ d = c /\ r = <<>> \o Tail(q)  BY <1>1 DEF Abandons
<1>3. Mail(c, b, q, TRUE, l)
  <2>1. up /\ left \subseteq l  BY <1>2 DEF Applying
  <2>2. Mail(c, b, q, TRUE, left)  BY <1>1, <2>1 DEF MailInv, Mail
  <2> QED  BY <2>1, <2>2, MailGrows
<1>4. Owed(c, b, l) /\ AppliesOK(c, b, q, l) /\ Applied(c, b, q, l) /\ Once(c, l)  BY <1>3 DEF Mail
<1>5. BoxOn(b, a) /\ NoCommit(r)  BY <1>1 DEF Applying
<1>6. IsList(q) /\ q # <<>> /\ q[1][1] = "apply" /\ p = q[1][2] /\ PartsOK(p)
  BY <1>1 DEF Applying
<1>7. \A e \in DOMAIN c.exec : Clears(p, e) => Settled(c, b, e, l)
  <2>1. q[1] \in Items(q)  BY <1>6, HeadItems
  <2>2. Pays(c, b, p, l)  BY <1>4, <1>6, <2>1 DEF AppliesOK
  <2>3. ASSUME NEW m, Covers(b, p, m)  PROVE m \in l
    <3>1. PICK y \in Items(p) : y[1] = "acknowledge" /\ m \in y[3]  BY <2>3 DEF Covers, Meets
    <3>2. DOMAIN p = 1..Len(p)  BY <1>6, ListIs DEF PartsOK
    <3>3. y \in ToSet(p)  BY <3>1, <3>2 DEF Items, ToSet
    <3>4. m \in Unpaid(p)  BY <3>1, <3>3 DEF Unpaid
    <3> QED  BY <1>2, <3>4
  <2> QED  BY <2>2, <2>3 DEF Pays, Settled, Safe
<1>8. Holds(c, d)  BY <1>2 DEF Holds
<1>9. AppliesOK(d, a, r, l) /\ Applied(d, a, r, l)
  BY <1>2, <1>4, <1>5, <1>6, <1>7, <1>8, NilNone, Dropped
<1>10. Owed(d, a, l)  BY <1>2, <1>4, <1>5, SafeOn, PromisesOn DEF Owed
<1>11. Merges(d, a, r, l)  BY <1>5 DEF Merges, NoCommit
<1> QED  BY <1>1, <1>2, <1>4, <1>9, <1>10, <1>11 DEF MailInv, Mail

LEMMA DiesKeeps ==
  ASSUME MailInv, Dies
  PROVE  Mail(db', box', todo', up', left)
<1>1. db' = db /\ box' = box /\ ~up' /\ todo' = <<>>  BY DEF Dies
<1>2. Owed(db, box, left) /\ Once(db, left)  BY DEF MailInv, Mail
<1>3. Items(<<>>) = {}  BY NilList
<1>4. AppliesOK(db, box, <<>>, left) /\ Merges(db, box, <<>>, left)  BY <1>3 DEF AppliesOK, Merges
<1> QED  BY <1>1, <1>2, <1>4 DEF Mail

\* The outbox holds what acknowledges the mail of whoever died too early.
LEMMA RestartsKeeps ==
  ASSUME EngineInv, MailInv, Restarts
  PROVE  Mail(db', box', todo', up', left)
<1>1. PICK c, b, r, l : l = left /\ c = db /\ b = box /\ r = Recovery  OBVIOUS
<1>2. db' = c /\ box' = b /\ todo' = r  BY <1>1 DEF Restarts
<1>3. Owed(c, b, l) /\ Once(c, l)  BY <1>1 DEF MailInv, Mail
<1>4. StoreOK(db)  BY DEF EngineInv
<1>5. PICK nodes : nodes = DOMAIN world.nodes  OBVIOUS
<1>6. PICK s, t : Recovers(nodes, c, s) /\ t = OutboxSteps /\ r = s \o t  BY <1>1, <1>4, RecoveryIs
<1>7. IsList(s) /\ \A y \in Items(s) : y[1] # "apply"  BY <1>6 DEF Recovers, AllCalm
<1>8. IsList(t) /\ Items(t) = {<<"apply", EffectSteps(e, c.exec[e].effects)>> : e \in PendingEffects(c)}
  BY <1>1, <1>4, <1>6, OutboxAre
<1>9. Items(r) = Items(s) \cup Items(t)  BY <1>6, <1>7, <1>8, Cat
<1>10. \A e \in DOMAIN c.exec : EffectsOK(c.exec[e].effects)
  BY <1>1, <1>4 DEF StoreOK, Rows, RowOK
<1>11. PendingEffects(c) \subseteq DOMAIN c.exec  BY DEF PendingEffects
<1>12. \A e \in DOMAIN c.exec : c.exec[e].effects # NoEffects => e \in PendingEffects(c)
  <2>1. c.outbox = Owing(c)  BY <1>1, <1>4 DEF StoreOK, Indexed
  <2> QED  BY <2>1 DEF Owing, PendingEffects
<1>13. ASSUME NEW x \in Items(r), x[1] = "apply"  PROVE Pays(c, b, x[2], l)
  <2>1. x \in Items(t)  BY <1>7, <1>9, <1>13
  <2>2. PICK e \in PendingEffects(c) : x = <<"apply", EffectSteps(e, c.exec[e].effects)>>
    BY <1>8, <2>1
  <2>3. PICK f, p : f = c.exec[e].effects /\ p = EffectSteps(e, f)  OBVIOUS
  <2>4. x[2] = p  BY <2>2, <2>3
  <2>5. EffectsOK(f)  BY <1>10, <1>11, <2>3
  <2>6. (\A g : Clears(p, g) => g = e) /\ \A m : Promises(b, f, m) => Covers(b, p, m)
    BY <2>3, <2>5, StepsPay
  <2>7. ASSUME NEW g \in DOMAIN c.exec, Clears(p, g), NEW m \in c.exec[g].got
        PROVE  Safe(b, m, l) \/ Covers(b, p, m)
    <3>1. g = e  BY <2>6, <2>7
    <3>2. Safe(b, m, l) \/ Promises(b, f, m)  BY <1>3, <2>3, <2>7, <3>1 DEF Owed
    <3> QED  BY <2>6, <3>2
  <2> QED  BY <2>4, <2>7 DEF Pays
<1>14. AppliesOK(c, b, r, l)  BY <1>13 DEF AppliesOK
<1>15. ASSUME NEW e \in DOMAIN c.exec, ~Settled(c, b, e, l)  PROVE Handled(r, e)
  <2>1. PICK m \in c.exec[e].got : ~Safe(b, m, l)  BY <1>15 DEF Settled
  <2>2. PICK f, p : f = c.exec[e].effects /\ p = EffectSteps(e, f)  OBVIOUS
  <2>3. Promises(b, f, m)  BY <1>3, <2>1, <2>2 DEF Owed
  <2>4. f # NoEffects  BY <2>3 DEF Promises, NoEffects
  <2>5. e \in PendingEffects(c)  BY <1>12, <2>2, <2>4
  <2>6. PICK x : x = <<"apply", p>>  OBVIOUS
  <2>7. x[1] = "apply" /\ x[2] = p  BY <2>6
  <2>8. x \in Items(r)  BY <1>8, <1>9, <2>2, <2>5, <2>6
  <2>9. Clears(p, e)  BY <1>10, <2>2, StepsPay
  <2> QED  BY <2>7, <2>8, <2>9 DEF Handled
<1>16. Applied(c, b, r, l)  BY <1>15 DEF Applied
<1>17. Merges(c, b, r, l)
  <2>1. AllCalm(nodes, db, Recovery)  BY <1>4, RecoveryCalm
  <2>2. AllCalm(nodes, c, r)  BY <1>1, <2>1
  <2>3. r # <<>> => Calm(r[1])  BY <2>2, CalmTail
  <2> QED  BY <2>3 DEF Merges, Calm, Eager
<1>18. Mail(c, b, r, up', l)  BY <1>3, <1>14, <1>16, <1>17 DEF Mail
<1> QED  BY <1>1, <1>2, <1>18

LEMMA CollectsKeeps ==
  ASSUME MailInv, Collects
  PROVE  Mail(db', box', todo', up', left)
<1>1. PICK c, d, b, l : l = left /\ c = db /\ d = db' /\ b = box  OBVIOUS
<1>2. Owed(c, b, l) /\ Once(c, l) /\ (up => Applied(c, b, <<>>, l))  BY <1>1 DEF MailInv, Mail, Collects
<1>3. Remains(c, d) /\ box' = b /\ todo' = <<>> /\ up' = up  BY <1>1 DEF Collects
<1>4. Items(<<>>) = {}  BY NilList
<1>5. AppliesOK(d, b, <<>>, l) /\ Merges(d, b, <<>>, l)  BY <1>4 DEF AppliesOK, Merges
<1>6. \A e \in DOMAIN d.exec : e \in DOMAIN c.exec /\ d.exec[e] = c.exec[e]  BY <1>3 DEF Remains
<1>7. Owed(d, b, l)  BY <1>2, <1>6 DEF Owed
<1>8. Once(d, l)  BY <1>2, <1>6 DEF Once
<1>9. Applied(c, b, <<>>, l) => Applied(d, b, <<>>, l)  BY <1>6 DEF Applied, Settled
<1> QED  BY <1>1, <1>2, <1>3, <1>5, <1>7, <1>8, <1>9 DEF Mail

LEMMA InitMail == Init => MailInv
<1> SUFFICES ASSUME Init PROVE MailInv  OBVIOUS
<1>1. DOMAIN db.exec = {} /\ todo = <<>>
  <2>1. DOMAIN <<>> = {}  OBVIOUS
  <2> QED  BY <2>1 DEF Init, EmptyStore
<1>2. Items(<<>>) = {}  BY NilList
<1>3. Owed(db, box, left) /\ Once(db, left) /\ Applied(db, box, todo, left)  BY <1>1 DEF Owed, Once, Applied
<1>4. AppliesOK(db, box, todo, left) /\ Merges(db, box, todo, left)  BY <1>1, <1>2 DEF AppliesOK, Merges
<1> QED  BY <1>3, <1>4 DEF MailInv, Mail

LEMMA StepMail ==
  ASSUME PlannerOK, EngineInv, MailInv, [Next]_vars
  PROVE  MailInv'
<1>1. EngineSteps  BY StepIs
<1>2. Mail(db', box', todo', up', left) => MailInv'  BY LeftGrows, MailGrows DEF MailInv
<1>3. CASE Onwards  BY <1>2, <1>3, OnwardsKeep
<1>4. CASE \E x, names : Commits(x, names)  BY <1>2, <1>4, CommitKeeps
<1>5. CASE Scripted  BY <1>2, <1>5, ScriptedKeeps
<1>6. CASE Waited  BY <1>2, <1>6, WaitedKeeps
<1>7. CASE \E p, x : Applying(p, x) /\ (Proceeds(p, x) \/ Empties(p, x) \/ Abandons(p, x))
  BY <1>2, <1>7, ProceedsKeeps, EmptiesKeeps, AbandonsKeeps
<1>8. CASE Ambient  BY <1>2, <1>8, AmbientKeeps
<1>9. CASE Dies  BY <1>2, <1>9, DiesKeeps
<1>10. CASE Restarts  BY <1>2, <1>10, RestartsKeeps
<1>11. CASE Collects  BY <1>2, <1>11, CollectsKeeps
<1> QED
  BY <1>1, <1>3, <1>4, <1>5, <1>6, <1>7, <1>8, <1>9, <1>10, <1>11 DEF EngineSteps

\* A mailbox event is merged by one wait at most: by the time the engine comes
\* to another call everything merged is acknowledged, unless an exception has
\* cut its acknowledgement off; and after a crash the outbox has what is not,
\* which recovery applies first.
THEOREM LettersMergedOnce ==
  ASSUME PlannerOK
  PROVE  Spec => []MailOnce
<1>1. Init => EngineInv /\ MailInv  BY InitInv, InitMail
<1>2. EngineInv /\ MailInv /\ [Next]_vars => (EngineInv /\ MailInv)'  BY StepInv, StepMail
<1>3. MailInv => MailOnce  BY DEF MailInv, Mail, Once, MailOnce
<1> QED  BY <1>1, <1>2, <1>3, PTL DEF Spec
================================================================================
