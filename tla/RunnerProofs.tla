----------------------------- MODULE RunnerProofs -----------------------------
(* Theorems about the shard runner of Runner: it and its workers use the     *)
(* store as its specification says, and no member ever gets more processes   *)
(* than its manifest allows, whatever a tick's snapshots miss.               *)
EXTENDS Runner, LocalSessionsProofs, FiniteSetTheorems

(* What RunnerOK and ParallelBound rest on. *)

\* A name that may be given again belongs to nothing that a tick looks at.
NamesKept ==
  /\ running \subseteq Workers /\ recycled \subseteq Workers
  /\ \A p \in recycled : ~Alive(p) /\ p \notin running

FailuresTyped ==
  /\ failures \subseteq Sessions \X (0..MaxRevision) \X (0..MaxAttempts)
  /\ Notify = None => failures = {}

KillsArePlanned == stage # "kill" => stuck = {}

\* Every live worker of a member that is not yet decided is in the tick's
\* snapshot: only the tick itself starts workers, one member at a time.
AllCounted ==
  \A i \in DOMAIN Order : stage # "rest" /\ turn <= i => Workforce(Order[i]) \subseteq running

RInv ==
  /\ IInv /\ RunnerOK /\ NamesKept /\ FailuresTyped /\ KillsArePlanned /\ AllCounted
  /\ ParallelBound
-----------------------------------------------------------------------------
(* Lemmas about the operators.                                             *)

\* The larger of two numbers.
LEMMA MaxOfTwo ==
  ASSUME NEW i \in Int, NEW j \in Int
  PROVE  Max({i, j}) \in {i, j} /\ Max({i, j}) >= i /\ Max({i, j}) >= j
<1>1. CASE i >= j
  <2>1. \A y \in {i, j} : i >= y  BY <1>1
  <2> QED  BY <2>1 DEF Max
<1>2. CASE ~(i >= j)
  <2>1. \A y \in {i, j} : j >= y  BY <1>2
  <2> QED  BY <2>1 DEF Max
<1> QED  BY <1>1, <1>2

\* The smaller of two numbers.
LEMMA MinOfTwo ==
  ASSUME NEW i \in Int, NEW j \in Int
  PROVE  Min({i, j}) \in {i, j} /\ Min({i, j}) <= i /\ Min({i, j}) <= j
<1>1. CASE i <= j
  <2>1. \A y \in {i, j} : i <= y  BY <1>1
  <2> QED  BY <2>1 DEF Min
<1>2. CASE ~(i <= j)
  <2>1. \A y \in {i, j} : j <= y  BY <1>2
  <2> QED  BY <2>1 DEF Min
<1> QED  BY <1>1, <1>2

\* A backoff stays within max_backoff.
LEMMA BoundedType == \A d \in Nat : Bounded(d) \in 0..MaxBackoff
<1> SUFFICES ASSUME NEW d \in Nat
             PROVE  Bounded(d) \in 0..MaxBackoff
  OBVIOUS
<1>0. MaxBackoff \in Nat  BY MembersAssumption
<1>1. Max({1, d}) \in Nat
  <2> DEFINE one == 1
             m == Max({one, d})
  <2>1. one \in Int /\ d \in Int /\ one \in Nat  OBVIOUS
  <2> HIDE DEF one
  <2>2. m \in {one, d}  BY <2>1, MaxOfTwo
  <2>3. m \in Nat  BY <2>1, <2>2
  <2> QED  BY <2>3 DEF one
<1> DEFINE m == Max({1, d})
           b == Min({MaxBackoff, m})
<1>2. m \in Nat /\ m \in Int /\ MaxBackoff \in Int  BY <1>0, <1>1
<1> HIDE DEF m
<1>3. b \in {MaxBackoff, m} /\ b <= MaxBackoff  BY <1>2, MinOfTwo
<1>4. b \in 0..MaxBackoff  BY <1>0, <1>2, <1>3
<1> QED  BY <1>4 DEF Bounded, m

\* What an eager member wants never exceeds what it may have.
LEMMA WantedType ==
  ASSUME NEW m \in Members
  PROVE  Wanted(m) \in Nat /\ Wanted(m) <= Parallel[m]
<1>1. Reserved[m] \in Nat /\ Parallel[m] \in Nat \ {0} /\ Reserved[m] <= Parallel[m]
  BY MembersAssumption
<1> DEFINE one == 1
           r == Reserved[m]
           w == Max({r, one})
<1>2. r \in Int /\ one \in Int /\ one \in Nat /\ one <= Parallel[m] /\ r <= Parallel[m] /\ r \in Nat
  BY <1>1
<1> HIDE DEF one, r
<1>3. w \in {r, one}  BY <1>2, MaxOfTwo
<1>4. w \in Nat /\ w <= Parallel[m]  BY <1>2, <1>3
<1> QED  BY <1>1, <1>4 DEF Wanted, one, r

\* The member whose turn it is.
LEMMA OrderType ==
  ASSUME RunnerOK
  PROVE  /\ Len(Order) \in Nat \ {0} /\ DOMAIN Order = 1..Len(Order)
         /\ \A i \in DOMAIN Order : Order[i] \in Members
         /\ turn \in 0..Len(Order)
         /\ stage = "start" => turn \in DOMAIN Order
<1>1. Order \in Seq(Members) /\ Order # <<>>  BY MembersAssumption
<1> QED  BY <1>1 DEF RunnerOK

\* A member that loses workers or keeps them stays within its bound.
LEMMA FewerWorkers ==
  ASSUME ParallelBound, \A m \in Members : Workforce(m)' \subseteq Workforce(m)
  PROVE  ParallelBound'
<1> SUFFICES ASSUME NEW m \in Members
             PROVE  Cardinality(Workforce(m)') <= Parallel[m]
  BY DEF ParallelBound
<1>1. IsFiniteSet(Workforce(m))  BY MembersAssumption, FS_Subset DEF Workforce
<1>2. /\ Cardinality(Workforce(m)') <= Cardinality(Workforce(m))
      /\ IsFiniteSet(Workforce(m)')
  BY <1>1, FS_Subset
<1>3. /\ Cardinality(Workforce(m)) \in Nat /\ Cardinality(Workforce(m)') \in Nat
  BY <1>1, <1>2, FS_CardinalityType
<1>4. Cardinality(Workforce(m)) <= Parallel[m] /\ Parallel[m] \in Nat
  BY MembersAssumption DEF ParallelBound
<1> QED  BY <1>2, <1>3, <1>4
-----------------------------------------------------------------------------
(* The store under the runner.                                             *)

\* A worker at its store calls: what it serves and what it holds.
LEMMA WorkerType ==
  ASSUME RInv, NEW p \in Workers, Alive(p)
  PROVE  /\ member[p] \in Members /\ Bound(Definition[member[p]]) \in Scopes
         /\ proc[p] \in {"running", "hung"} => held[p] \in issued
<1>1. member[p] \in Members  BY DEF RInv, RunnerOK
<1>2. Definition[member[p]] \in Definitions  BY <1>1, MembersAssumption
<1> QED  BY <1>1, <1>2 DEF RInv, RunnerOK, Bound, Scopes

\* A poll that finds nothing is a claim that returns None or no step at all.
LEMMA EmptyPollIsMethod ==
  ASSUME RInv, NEW p \in Workers, Alive(p), EmptyPoll(p)
  PROVE  [Next]_vars
BY WorkerType DEF EmptyPoll, Next

\* A worker's step uses a method of the store, or leaves it alone.
LEMMA WorkIsMethod ==
  ASSUME RInv, NEW p \in Workers, Work(p) \/ IdleExit(p) \/ Hang(p) \/ Die(p)
  PROVE  [Next]_vars
<1>1. CASE Poll(p)
  <2>1. Alive(p)  BY <1>1 DEF Poll, Alive
  <2> QED  BY <1>1, <2>1, WorkerType DEF Poll, Next
<1>2. CASE StayIdle(p) \/ IdleExit(p)
  <2>1. Alive(p) /\ EmptyPoll(p)  BY <1>2 DEF StayIdle, IdleExit, Alive
  <2> QED  BY <2>1, EmptyPollIsMethod
<1>3. CASE Leave(p) \/ Hang(p) \/ Die(p)
  BY <1>3 DEF Leave, Hang, Die
<1>4. CASE Finish(p)
  <2>1. Alive(p) /\ held[p] \in issued  BY <1>4, WorkerType DEF Finish, Alive
  <2>2. \E o \in Proposals(held[p].events) : Commit(held[p], o)
    BY <1>4 DEF Finish, Outcomes
  <2>3. UNCHANGED issued  BY <1>4 DEF Finish
  <2> QED  BY <2>1, <2>2, <2>3 DEF Next
<1>5. CASE GiveBack(p)
  <2>1. Alive(p) /\ held[p] \in issued  BY <1>5, WorkerType DEF GiveBack, Alive
  <2>2. \/ \E after \in Backoffs : Release(held[p], after, held[p].attempt) /\ UNCHANGED issued
        \/ UNCHANGED vars
    BY <1>5 DEF GiveBack
  <2> QED  BY <2>1, <2>2 DEF Next
<1> QED  BY <1>1, <1>2, <1>3, <1>4, <1>5 DEF Work

\* Every step of the shard is a method of the store or leaves the store alone.
LEMMA ShardUsesMethods ==
  ASSUME RInv, [RNext]_rvars
  PROVE  [Next]_vars
<1>1. CASE UNCHANGED rvars  BY <1>1 DEF rvars
<1>2. CASE \E p \in Workers : Work(p) \/ IdleExit(p) \/ Hang(p) \/ Die(p)
  BY <1>2, WorkIsMethod
<1>3. CASE Observe \/ (\E p \in Workers, quick \in BOOLEAN : ObserveExit(p, quick))
           \/ ListActive \/ (\E p \in stuck : Kill(p)) \/ ListFailed \/ Decide
           \/ TickRaises \/ Restart
  BY <1>3 DEF Observe, ObserveExit, ListActive, Kill, ListFailed, Decide, TickRaises, Restart
<1>4. ASSUME NEW f \in failures, SendNotice(f)
      PROVE  [Next]_vars
  <2>1. f[1] \in Sessions /\ f[2] \in 0..MaxRevision /\ f[3] \in 0..MaxAttempts
        /\ f = <<f[1], f[2], f[3]>> /\ Notify # None
    BY DEF RInv, FailuresTyped
  <2>2. Notify \in Sessions /\ Notice(f) \in Mail
    BY <2>1, MembersAssumption, NoticeAssumption
  <2>3. (AppendMail(Notify, Notice(f)) /\ UNCHANGED issued) \/ UNCHANGED vars
    BY <1>4 DEF SendNotice
  <2> QED  BY <2>2, <2>3 DEF Next
<1>5. CASE Producer  BY <1>5 DEF Producer, Next
<1>6. CASE Operator  BY <1>6 DEF Operator, Next
<1>7. CASE Clock  BY <1>7 DEF Clock, Next
<1> QED  BY <1>1, <1>2, <1>3, <1>4, <1>5, <1>6, <1>7 DEF RNext, Tick1

\* No client forgets an activation.
LEMMA IssuedGrows == [Next]_vars => issued \subseteq issued'
BY DEF Next, vars, ClientClaims
-----------------------------------------------------------------------------
(* The invariant is inductive.                                             *)

\* A step that starts no process keeps every member within its bound.
LEMMA QuietBound ==
  ASSUME RInv, member' = member, \A p \in Workers : Alive(p)' => Alive(p)
  PROVE  ParallelBound' /\ \A m \in Members : Workforce(m)' \subseteq Workforce(m)
<1>1. \A m \in Members : Workforce(m)' \subseteq Workforce(m)  BY DEF Workforce
<1>2. ParallelBound  BY DEF RInv
<1> QED  BY <1>1, <1>2, FewerWorkers

\* A worker moves alone, and dead processes stay dead.
LEMMA WorkerMoves ==
  ASSUME RInv, NEW p \in Workers, Work(p) \/ IdleExit(p) \/ Hang(p) \/ Die(p)
  PROVE  /\ UNCHANGED <<member, runner>> /\ Alive(p)
         /\ \E state \in {"gone", "idle", "leaving", "running", "hung"} :
              /\ proc' = [proc EXCEPT ![p] = state]
              /\ IF state \in {"running", "hung"}
                   THEN \E a \in issued' : held' = [held EXCEPT ![p] = a]
                   ELSE held' = [held EXCEPT ![p] = None]
<1>0. /\ proc \in [Workers -> {"gone", "idle", "leaving", "running", "hung"}]
      /\ held \in [Workers -> issued \cup {None}]
      /\ IF proc[p] \in {"running", "hung"} THEN held[p] \in issued ELSE held[p] = None
  BY DEF RInv, RunnerOK
<1>1. CASE Poll(p)
  <2>1. PICK s \in Sessions : /\ ClientClaims(p, Bound(Definition[member[p]]), s)
                              /\ held' = [held EXCEPT ![p] = ActivationOf(s)]
    BY <1>1 DEF Poll
  <2>2. ActivationOf(s) \in issued'  BY <2>1 DEF ClientClaims
  <2> QED  BY <1>1, <2>1, <2>2 DEF Poll, Becomes, Alive
<1>2. CASE StayIdle(p) \/ IdleExit(p)
  <2>1. held = [held EXCEPT ![p] = None] /\ proc = [proc EXCEPT ![p] = proc[p]]
    BY <1>0, <1>2 DEF StayIdle, IdleExit
  <2> QED  BY <1>2, <2>1 DEF StayIdle, IdleExit, Becomes, Alive, procs
<1>3. CASE Leave(p)
  <2>1. held = [held EXCEPT ![p] = None]  BY <1>0, <1>3 DEF Leave
  <2> QED  BY <1>3, <2>1 DEF Leave, Becomes, Alive
<1>4. CASE Hang(p)
  <2>1. held = [held EXCEPT ![p] = held[p]] /\ held[p] \in issued' /\ held' = held
    BY <1>0, <1>4 DEF Hang, vars
  <2> QED  BY <1>4, <2>1 DEF Hang, Becomes, Alive
<1>5. CASE Finish(p) \/ GiveBack(p) \/ Die(p)
  BY <1>5 DEF Finish, GiveBack, Die, Becomes, Drops, Alive
<1> QED  BY <1>1, <1>2, <1>3, <1>4, <1>5 DEF Work

\* A worker's step keeps the invariant.
LEMMA WorkerInv ==
  ASSUME RInv, NEW p \in Workers, Work(p) \/ IdleExit(p) \/ Hang(p) \/ Die(p)
  PROVE  RInv'
<1>1. [Next]_vars  BY WorkIsMethod
<1>2. IInv' /\ issued \subseteq issued'  BY <1>1, NextInv, IssuedGrows DEF RInv
<1>3. PICK state \in {"gone", "idle", "leaving", "running", "hung"} :
        /\ proc' = [proc EXCEPT ![p] = state]
        /\ IF state \in {"running", "hung"}
             THEN \E a \in issued' : held' = [held EXCEPT ![p] = a]
             ELSE held' = [held EXCEPT ![p] = None]
  BY WorkerMoves
<1>4. UNCHANGED <<member, runner>> /\ Alive(p)  BY WorkerMoves
<1>5. \A q \in Workers : Alive(q)' => Alive(q)
  BY <1>3, <1>4 DEF Alive, RInv, RunnerOK
<1>6. ParallelBound' /\ \A m \in Members : Workforce(m)' \subseteq Workforce(m)
  BY <1>4, <1>5, QuietBound
<1>7. RunnerOK'
  <2>1. proc' \in [Workers -> {"gone", "idle", "leaving", "running", "hung"}]
    BY <1>3 DEF RInv, RunnerOK
  <2>2. /\ held' \in [Workers -> issued' \cup {None}]
        /\ \A q \in Workers : IF proc'[q] \in {"running", "hung"} THEN held'[q] \in issued'
                                                                 ELSE held'[q] = None
    <3>1. CASE state \in {"running", "hung"}
      <4>1. PICK a \in issued' : held' = [held EXCEPT ![p] = a]  BY <1>3, <3>1
      <4> QED  BY <1>2, <1>3, <3>1, <4>1 DEF RInv, RunnerOK
    <3>2. CASE state \notin {"running", "hung"}
      BY <1>2, <1>3, <3>2 DEF RInv, RunnerOK
    <3> QED  BY <3>1, <3>2
  <2>3. \A q \in Workers : Alive(q)' => member'[q] # None
    BY <1>4, <1>5 DEF RInv, RunnerOK
  <2> QED  BY <1>4, <2>1, <2>2, <2>3 DEF RInv, RunnerOK, runner, snapshot, memory
<1>8. NamesKept' /\ FailuresTyped' /\ KillsArePlanned'
  BY <1>4, <1>5 DEF RInv, NamesKept, FailuresTyped, KillsArePlanned, runner, snapshot, memory
<1>9. AllCounted'
  BY <1>4, <1>6, OrderType DEF RInv, AllCounted, runner, snapshot
<1> QED  BY <1>2, <1>6, <1>7, <1>8, <1>9 DEF RInv

\* So does a step that touches neither processes nor the tick.
LEMMA OutsideInv ==
  ASSUME RInv, Producer \/ Operator \/ Clock \/ UNCHANGED rvars
  PROVE  RInv'
<1>1. [Next]_vars
  BY ShardUsesMethods DEF RNext
<1>2. IInv' /\ issued \subseteq issued'  BY <1>1, NextInv, IssuedGrows DEF RInv
<1>3. UNCHANGED <<procs, stage, snapshot, seen, backoff, recycled>>
  BY DEF Producer, Operator, Clock, rvars, runner, memory
<1>4. hold' \in [Members -> 0..MaxBackoff]
  <2>1. CASE Clock
    <3>1. \A d \in 0..MaxBackoff : CountDown(d) \in 0..MaxBackoff
      BY NoneAssumption, MembersAssumption DEF CountDown
    <3> QED  BY <2>1, <3>1 DEF Clock, RInv, RunnerOK
  <2>2. CASE hold' = hold  BY <2>2 DEF RInv, RunnerOK
  <2> QED  BY <2>1, <2>2 DEF Producer, Operator, rvars, runner, memory
<1>5. ParallelBound' /\ \A m \in Members : Workforce(m)' \subseteq Workforce(m)
  BY <1>3, QuietBound DEF procs, Alive
<1>6. RunnerOK'
  BY <1>2, <1>3, <1>4 DEF RInv, RunnerOK, procs, snapshot, Alive
<1>7. NamesKept' /\ FailuresTyped' /\ KillsArePlanned'
  BY <1>3 DEF RInv, NamesKept, FailuresTyped, KillsArePlanned, procs, snapshot, Alive
<1>8. AllCounted'
  BY <1>3, <1>5, OrderType DEF RInv, AllCounted, snapshot
<1> QED  BY <1>2, <1>5, <1>6, <1>7, <1>8 DEF RInv

\* A tick step that only looks and remembers keeps the invariant.
LEMMA LookInv ==
  ASSUME RInv,
         \/ Observe \/ ListActive \/ ListFailed
         \/ \E p \in Workers, quick \in BOOLEAN : ObserveExit(p, quick)
         \/ \E f \in failures : SendNotice(f)
  PROVE  RInv'
<1>1. [Next]_vars  BY ShardUsesMethods DEF RNext, Tick1
<1>2. IInv' /\ issued \subseteq issued'  BY <1>1, NextInv, IssuedGrows DEF RInv
<1>3. UNCHANGED procs /\ recycled' = recycled
  BY DEF Observe, ListActive, ListFailed, ObserveExit, SendNotice, memory
<1>4. ParallelBound' /\ \A m \in Members : Workforce(m)' \subseteq Workforce(m)
  BY <1>3, QuietBound DEF procs, Alive
<1>5. /\ \A q \in Workers : Alive(q)' <=> Alive(q)
      /\ \A q \in Workers : Alive(q) => member[q] # None
      /\ proc' = proc /\ held' = held /\ member' = member
  BY <1>3 DEF RInv, RunnerOK, procs, Alive
<1>6. CASE Observe
  <2>1. RunnerOK'
    BY <1>2, <1>5, <1>6, OrderType DEF Observe, memory, RInv, RunnerOK, KillsArePlanned
  <2>2. NamesKept'
    BY <1>5, <1>6 DEF Observe, Observed, memory, RInv, NamesKept
  <2>3. FailuresTyped' /\ KillsArePlanned'
    BY <1>6 DEF Observe, RInv, FailuresTyped, KillsArePlanned
  <2>4. AllCounted'
    BY <1>5, <1>6 DEF Observe, Observed, AllCounted, Workforce
  <2> QED  BY <1>2, <1>4, <2>1, <2>2, <2>3, <2>4 DEF RInv
<1>7. CASE ListActive
  <2>1. RunnerOK'
    BY <1>2, <1>5, <1>7 DEF ListActive, Stuck, RInv, RunnerOK
  <2>2. NamesKept' /\ FailuresTyped' /\ KillsArePlanned'
    BY <1>5, <1>7 DEF ListActive, RInv, NamesKept, FailuresTyped, KillsArePlanned
  <2>3. AllCounted'
    BY <1>4, <1>7, OrderType DEF ListActive, RInv, AllCounted
  <2> QED  BY <1>2, <1>4, <2>1, <2>2, <2>3 DEF RInv
<1>8. CASE ListFailed
  <2>1. RunnerOK'
    <3>1. turn' \in 0..Len(Order) /\ turn' > 0  BY <1>8, OrderType DEF ListFailed, RInv
    <3> QED  BY <1>2, <1>5, <1>8, <3>1 DEF ListFailed, memory, RInv, RunnerOK
  <2>2. NamesKept' /\ KillsArePlanned'
    BY <1>5, <1>8 DEF ListFailed, memory, RInv, NamesKept, KillsArePlanned
  <2>3. FailuresTyped'
    <3>1. \A s \in Sessions : row[s].revision \in 0..MaxRevision /\ row[s].attempts \in 0..MaxAttempts
      BY DEF RInv, IInv, TypeOK, Row
    <3> QED  BY <1>8, <3>1 DEF ListFailed, FailuresTyped
  <2>4. AllCounted'
    <3>1. \A i \in DOMAIN Order : Workforce(Order[i]) \subseteq running
      BY <1>8, OrderType DEF ListFailed, RInv, RunnerOK, AllCounted
    <3> QED  BY <1>4, <1>8, <3>1, OrderType DEF ListFailed, RInv, AllCounted
  <2> QED  BY <1>2, <1>4, <2>1, <2>2, <2>3, <2>4 DEF RInv
<1>9. ASSUME NEW p \in Workers, NEW quick \in BOOLEAN, ObserveExit(p, quick)
      PROVE  RInv'
  <2> DEFINE m == member[p]
             wait == Bounded(2 * backoff[m])
  <2>1. /\ UNCHANGED <<stage, running, holders, stuck, turn, failures>>
        /\ \/ /\ backoff' = [backoff EXCEPT ![m] = wait]
              /\ hold' = [hold EXCEPT ![m] = wait]
           \/ /\ backoff' = [backoff EXCEPT ![m] = 0]
              /\ hold' = hold
    BY <1>9 DEF ObserveExit
  <2>2. /\ backoff \in [Members -> 0..MaxBackoff] /\ hold \in [Members -> 0..MaxBackoff]
        /\ MaxBackoff \in Nat
    BY MembersAssumption DEF RInv, RunnerOK
  <2>3. m \in Members => wait \in 0..MaxBackoff
    <3>1. m \in Members => 2 * backoff[m] \in Nat  BY <2>2
    <3> QED  BY <3>1, BoundedType
  <2> HIDE DEF m, wait
  <2>4. backoff' \in [Members -> 0..MaxBackoff] /\ hold' \in [Members -> 0..MaxBackoff]
    <3>1. 0 \in 0..MaxBackoff  BY <2>2
    <3> QED  BY <2>1, <2>2, <2>3, <3>1
  <2>5. RunnerOK'
    BY <1>2, <1>5, <2>1, <2>4 DEF RInv, RunnerOK
  <2>6. NamesKept' /\ FailuresTyped' /\ KillsArePlanned'
    BY <1>3, <1>5, <2>1 DEF RInv, NamesKept, FailuresTyped, KillsArePlanned
  <2>7. AllCounted'
    BY <1>4, <2>1, OrderType DEF RInv, AllCounted
  <2> QED  BY <1>2, <1>4, <2>5, <2>6, <2>7 DEF RInv
<1>10. ASSUME NEW f \in failures, SendNotice(f)
       PROVE  RInv'
  <2>1. /\ UNCHANGED <<memory, stage, running, holders, stuck, turn>>
        /\ failures' = failures \ {f}
    BY <1>10 DEF SendNotice
  <2>2. RunnerOK'
    BY <1>2, <1>5, <2>1 DEF memory, RInv, RunnerOK
  <2>3. NamesKept' /\ FailuresTyped' /\ KillsArePlanned'
    BY <1>3, <1>5, <2>1 DEF RInv, NamesKept, FailuresTyped, KillsArePlanned
  <2>4. AllCounted'
    BY <1>4, <2>1, OrderType DEF RInv, AllCounted
  <2> QED  BY <1>2, <1>4, <2>2, <2>3, <2>4 DEF RInv
<1> QED  BY <1>6, <1>7, <1>8, <1>9, <1>10

\* A kill takes a worker out of the member's count and out of the snapshot.
LEMMA KillInv ==
  ASSUME RInv, NEW p \in stuck, Kill(p)
  PROVE  RInv'
<1>1. [Next]_vars  BY ShardUsesMethods DEF RNext, Tick1
<1>2. IInv' /\ issued' = issued  BY <1>1, NextInv DEF RInv, Kill, vars
<1>3. /\ p \in Workers /\ p \in running
      /\ proc' = [proc EXCEPT ![p] = "gone"] /\ held' = [held EXCEPT ![p] = None]
      /\ stuck' = stuck \ {p} /\ running' = running \ {p}
      /\ UNCHANGED <<member, memory, stage, holders, failures, turn>>
  BY DEF Kill, Becomes, Drops, RInv, RunnerOK, NamesKept
<1>4. \A q \in Workers : Alive(q)' <=> Alive(q) /\ q # p
  BY <1>3 DEF Alive, RInv, RunnerOK
<1>5. ParallelBound' /\ \A m \in Members : Workforce(m)' \subseteq Workforce(m) \ {p}
  <2>1. ParallelBound'  BY <1>3, <1>4, QuietBound
  <2>2. \A m \in Members : Workforce(m)' \subseteq Workforce(m) \ {p}
    BY <1>3, <1>4 DEF Workforce
  <2> QED  BY <2>1, <2>2
<1>6. RunnerOK'
  BY <1>2, <1>3, <1>4 DEF memory, RInv, RunnerOK
<1>7. NamesKept' /\ FailuresTyped' /\ KillsArePlanned'
  BY <1>3, <1>4 DEF memory, RInv, NamesKept, FailuresTyped, KillsArePlanned
<1>8. AllCounted'
  BY <1>3, <1>5, OrderType DEF RInv, AllCounted
<1> QED  BY <1>2, <1>5, <1>6, <1>7, <1>8 DEF RInv

\* A tick that raises, and a restart, forget snapshots but start nothing.
LEMMA FaultInv ==
  ASSUME RInv, TickRaises \/ Restart
  PROVE  RInv'
<1>1. [Next]_vars  BY ShardUsesMethods DEF RNext
<1>2. IInv' /\ issued' = issued
  BY <1>1, NextInv DEF RInv, TickRaises, Restart, vars
<1>3. /\ stage' = "rest" /\ turn' = 0 /\ running' = {} /\ stuck' = {} /\ holders' = {}
      /\ failures' = {} /\ member' = member
  BY DEF TickRaises, Restart, Forgets, procs
<1>4. \A q \in Workers : Alive(q)' => Alive(q)
  BY DEF TickRaises, Restart, procs, Alive
<1>5. ParallelBound'  BY <1>3, <1>4, QuietBound
<1>6. RunnerOK'
  <2>0. /\ 0 \in 0..Len(Order) /\ 0 \in 0..MaxBackoff
    BY OrderType, MembersAssumption DEF RInv
  <2>1. CASE TickRaises
    BY <1>2, <1>3, <2>0, <2>1 DEF TickRaises, procs, RInv, RunnerOK, Alive
  <2>2. CASE Restart
    BY <1>2, <1>3, <2>0, <2>2 DEF Restart, RInv, RunnerOK, Alive
  <2> QED  BY <2>1, <2>2
<1>7. NamesKept'
  <2>1. CASE TickRaises
    BY <1>3, <1>4, <2>1 DEF TickRaises, procs, RInv, NamesKept
  <2>2. CASE Restart
    <3>1. \A s \in Sessions : row[s].worker \in Workers \cup {None}
      BY DEF RInv, IInv, TypeOK, Row
    <3> QED  BY <1>3, <2>2, <3>1 DEF Restart, NamesKept, Alive
  <2> QED  BY <2>1, <2>2
<1>8. FailuresTyped' /\ KillsArePlanned' /\ AllCounted'
  BY <1>3 DEF FailuresTyped, KillsArePlanned, AllCounted
<1> QED  BY <1>2, <1>5, <1>6, <1>7, <1>8 DEF RInv

\* Where a member is decided, a start leaves it within its bound: the tick counted
\* at least its live workers, and starts one only if it counted fewer than parallel.
LEMMA LaunchEffect ==
  ASSUME RInv, NEW m \in Members, Launch(m), Missing(m) \/ Needed(m),
         Workforce(m) \subseteq running
  PROVE  /\ \E p : /\ ~(p \in Workers /\ Alive(p)) /\ p \notin running
                   /\ proc' = [proc EXCEPT ![p] = "idle"]
                   /\ member' = [member EXCEPT ![p] = m]
                   /\ recycled' = recycled \ {p}
         /\ held' = held /\ seen' = seen /\ backoff' = backoff
         /\ hold' = [hold EXCEPT ![m] = backoff[m]]
         /\ Cardinality(Workforce(m)') <= Parallel[m]
         /\ \E p : Workforce(m)' \subseteq Workforce(m) \cup {p}
         /\ \A n \in Members \ {m} : Workforce(n)' \subseteq Workforce(n)
<1>1. PICK p : /\ Fresh(p) \/ p \in recycled
               /\ Becomes(p, "idle")
               /\ member' = [member EXCEPT ![p] = m]
               /\ recycled' = recycled \ {p}
  BY DEF Launch
<1>2. ~(p \in Workers /\ Alive(p)) /\ p \notin running
  BY <1>1 DEF Fresh, RInv, NamesKept
<1>3. held' = held /\ seen' = seen /\ backoff' = backoff /\ hold' = [hold EXCEPT ![m] = backoff[m]]
  BY DEF Launch
<1>4. /\ \A q \in Workers \ {p} : (Alive(q)' <=> Alive(q)) /\ member'[q] = member[q]
      /\ p \in Workers => member'[p] = m
  BY <1>1 DEF Becomes, Alive, RInv, RunnerOK
<1>5. \A n \in Members \ {m} : Workforce(n)' \subseteq Workforce(n)
  BY <1>4 DEF Workforce
<1>6. Workforce(m)' \subseteq Workforce(m) \cup {p}
  BY <1>4 DEF Workforce
<1>7. Cardinality(Workforce(m)') <= Parallel[m]
  <2> DEFINE counted == {q \in running : member[q] = m}
             W == Workforce(m)
             X == Workforce(m)'
  <2>1. IsFiniteSet(Workers) /\ running \subseteq Workers
    BY MembersAssumption DEF RInv, NamesKept
  <2>2. IsFiniteSet(counted) /\ counted \subseteq Workers
    BY <2>1, FS_Subset
  <2>3. W \subseteq counted  BY DEF Workforce
  <2>4. Cardinality(counted) < Parallel[m]
    <3>1. Cardinality(counted) \in Nat  BY <2>2, FS_CardinalityType
    <3>2. Count(m) = Cardinality(counted)  BY DEF Count
    <3>3. CASE Missing(m)
      <4>1. Parallel[m] \in Nat  BY MembersAssumption
      <4> HIDE DEF counted
      <4> QED  BY <3>1, <3>2, <3>3, <4>1, WantedType DEF Missing
    <3>4. CASE Needed(m)  BY <3>2, <3>4 DEF Needed
    <3> QED  BY <3>3, <3>4
  <2>5. IsFiniteSet(W) /\ Cardinality(W) <= Cardinality(counted)
    BY <2>2, <2>3, FS_Subset
  <2>6. /\ IsFiniteSet(W \cup {p})
        /\ Cardinality(W \cup {p}) = IF p \in W THEN Cardinality(W) ELSE Cardinality(W) + 1
    BY <2>5, FS_AddElement
  <2>7. Cardinality(X) <= Cardinality(W \cup {p}) /\ IsFiniteSet(X)
    BY <1>6, <2>6, FS_Subset
  <2>8. /\ Cardinality(X) \in Nat /\ Cardinality(W) \in Nat /\ Cardinality(counted) \in Nat
        /\ Parallel[m] \in Nat
    BY <2>2, <2>5, <2>7, FS_CardinalityType, MembersAssumption
  <2> HIDE DEF counted, W, X
  <2>9. Cardinality(X) <= Parallel[m]  BY <2>4, <2>5, <2>6, <2>7, <2>8
  <2> QED  BY <2>9 DEF X
<1>8. \E q : Workforce(m)' \subseteq Workforce(m) \cup {q}  BY <1>6
<1> QED  BY <1>1, <1>2, <1>3, <1>5, <1>7, <1>8 DEF Becomes

\* A member's turn launches a process for it, or nothing.
LEMMA DecideEffect ==
  ASSUME RInv, Decide
  PROVE  /\ Order[turn] \in Members /\ turn \in DOMAIN Order /\ stuck = {} /\ stuck' = {}
         /\ failures' = failures /\ UNCHANGED vars
         /\ Workforce(Order[turn]) \subseteq running
         /\ \/ UNCHANGED <<procs, memory>>
            \/ Launch(Order[turn]) /\ (Missing(Order[turn]) \/ Needed(Order[turn]))
         /\ \/ /\ turn < Len(Order) /\ turn' = turn + 1
               /\ UNCHANGED <<stage, running, holders>>
            \/ stage' = "rest" /\ turn' = 0 /\ running' = {} /\ holders' = {}
<1>1. stage = "start"  BY DEF Decide
<1>2. turn \in DOMAIN Order /\ Order[turn] \in Members  BY <1>1, OrderType DEF RInv
<1>3. Workforce(Order[turn]) \subseteq running
  <2>1. turn <= turn  BY OrderType DEF RInv
  <2> QED  BY <1>1, <1>2, <2>1 DEF RInv, AllCounted
<1>4. stuck = {} /\ stuck' = stuck /\ failures' = failures /\ UNCHANGED vars
  BY <1>1 DEF Decide, RInv, KillsArePlanned
<1>5. \/ UNCHANGED <<procs, memory>>
      \/ Launch(Order[turn]) /\ (Missing(Order[turn]) \/ Needed(Order[turn]))
  BY DEF Decide, StartEager, StartOnDemand, StartNone, Skip
<1>6. \/ /\ turn < Len(Order) /\ turn' = turn + 1
         /\ UNCHANGED <<stage, running, holders>>
      \/ stage' = "rest" /\ turn' = 0 /\ running' = {} /\ holders' = {}
  BY DEF Decide, NextMember
<1> QED  BY <1>2, <1>3, <1>4, <1>5, <1>6

\* Deciding a member keeps the invariant.
LEMMA DecideInv ==
  ASSUME RInv, Decide
  PROVE  RInv'
<1>0. PICK m \in Members : m = Order[turn]  BY DecideEffect
<1>1. /\ turn \in DOMAIN Order /\ stuck = {} /\ stuck' = {}
      /\ failures' = failures /\ UNCHANGED vars /\ Workforce(m) \subseteq running
  BY <1>0, DecideEffect
<1>2. IInv' /\ issued' = issued  BY <1>1, NextInv DEF RInv, vars
<1>3. \/ UNCHANGED <<procs, memory>>
      \/ Launch(m) /\ (Missing(m) \/ Needed(m))
  BY <1>0, DecideEffect
<1>4. \/ /\ turn < Len(Order) /\ turn' = turn + 1
         /\ UNCHANGED <<stage, running, holders>>
      \/ stage' = "rest" /\ turn' = 0 /\ running' = {} /\ holders' = {}
  BY DecideEffect
<1>5. turn \in 1..Len(Order) /\ stage = "start"
  BY <1>1, OrderType DEF RInv, Decide
<1>6. /\ turn' \in 0..Len(Order) /\ (turn' > 0 <=> stage' = "start")
      /\ stage' \in {"rest", "start"}
      /\ stuck' \subseteq running' \cap holders'
  BY <1>1, <1>4, <1>5
<1>7. /\ \A n \in Members \ {m} : Workforce(n)' \subseteq Workforce(n)
      /\ Cardinality(Workforce(m)') <= Parallel[m]
  <2>1. CASE UNCHANGED <<procs, memory>>
    <3>1. \A n \in Members : Workforce(n)' = Workforce(n)
      BY <2>1 DEF procs, Workforce, Alive
    <3> QED  BY <1>1, <3>1 DEF RInv, ParallelBound
  <2>2. CASE Launch(m) /\ (Missing(m) \/ Needed(m))
    BY <1>1, <2>2, LaunchEffect
  <2> QED  BY <1>3, <2>1, <2>2
<1>8. ParallelBound'
  <2> SUFFICES ASSUME NEW n \in Members
               PROVE  Cardinality(Workforce(n)') <= Parallel[n]
    BY DEF ParallelBound
  <2>1. CASE n = m  BY <1>7, <2>1
  <2>2. CASE n # m
    <3>1. Workforce(n)' \subseteq Workforce(n)  BY <1>7, <2>2
    <3>2. IsFiniteSet(Workforce(n))  BY MembersAssumption, FS_Subset DEF Workforce
    <3>3. /\ Cardinality(Workforce(n)') <= Cardinality(Workforce(n))
          /\ IsFiniteSet(Workforce(n)')
      BY <3>1, <3>2, FS_Subset
    <3>4. /\ Cardinality(Workforce(n)) \in Nat /\ Cardinality(Workforce(n)') \in Nat
          /\ Cardinality(Workforce(n)) <= Parallel[n] /\ Parallel[n] \in Nat
      BY <3>2, <3>3, FS_CardinalityType, MembersAssumption DEF RInv, ParallelBound
    <3> QED  BY <3>3, <3>4
  <2> QED  BY <2>1, <2>2
<1>9. AllCounted'
  <2> SUFFICES ASSUME NEW i \in DOMAIN Order, stage' # "rest", turn' <= i
               PROVE  Workforce(Order[i])' \subseteq running'
    BY DEF AllCounted
  <2>1. turn' = turn + 1 /\ running' = running /\ stage = "start"  BY <1>4, <1>5
  <2>2. i # turn /\ turn <= i /\ Order[i] \in Members
    BY <1>5, <2>1, OrderType DEF RInv
  <2>3. Order[i] # m  BY <1>0, <1>1, <2>2, MembersAssumption
  <2>4. Workforce(Order[i]) \subseteq running  BY <2>1, <2>2 DEF RInv, AllCounted
  <2> QED  BY <1>7, <2>1, <2>2, <2>3, <2>4
<1>10. RunnerOK' /\ NamesKept'
  <2>1. CASE UNCHANGED <<procs, memory>>
    BY <1>2, <1>4, <1>6, <2>1 DEF procs, memory, Alive, RInv, RunnerOK, NamesKept
  <2>2. CASE Launch(m) /\ (Missing(m) \/ Needed(m))
    <3>1. /\ held' = held /\ backoff' = backoff
          /\ hold' = [hold EXCEPT ![m] = backoff[m]]
      BY <1>1, <2>2, LaunchEffect
    <3>2. PICK p : /\ ~(p \in Workers /\ Alive(p)) /\ p \notin running
                   /\ proc' = [proc EXCEPT ![p] = "idle"]
                   /\ member' = [member EXCEPT ![p] = m]
                   /\ recycled' = recycled \ {p}
      BY <1>1, <2>2, LaunchEffect
    <3>3. /\ proc' \in [Workers -> {"gone", "idle", "leaving", "running", "hung"}]
          /\ member' \in [Workers -> Members \cup {None}]
          /\ m # None
      BY <1>1, <3>2, MembersAssumption DEF RInv, RunnerOK
    <3>4. \A q \in Workers : /\ q # p => proc'[q] = proc[q] /\ member'[q] = member[q]
                             /\ q = p => proc'[q] = "idle" /\ member'[q] = m /\ proc[q] = "gone"
      BY <3>2 DEF RInv, RunnerOK, Alive
    <3>5. \A q \in Workers :
            /\ IF proc'[q] \in {"running", "hung"} THEN held'[q] \in issued' ELSE held'[q] = None
            /\ Alive(q)' => member'[q] # None
      BY <1>2, <3>1, <3>3, <3>4 DEF RInv, RunnerOK, Alive
    <3>6. hold' \in [Members -> 0..MaxBackoff]
      BY <1>1, <3>1 DEF RInv, RunnerOK
    <3>7. RunnerOK'
      BY <1>2, <1>6, <3>1, <3>3, <3>5, <3>6 DEF RInv, RunnerOK
    <3>8. NamesKept'
      BY <1>4, <3>2, <3>4 DEF RInv, NamesKept, Alive
    <3> QED  BY <3>7, <3>8
  <2> QED  BY <1>3, <2>1, <2>2
<1>11. FailuresTyped' /\ KillsArePlanned'
  BY <1>1 DEF RInv, FailuresTyped, KillsArePlanned
<1> QED  BY <1>2, <1>8, <1>9, <1>10, <1>11 DEF RInv

LEMMA RunnerInit == RInit => RInv
<1> SUFFICES ASSUME RInit PROVE RInv  OBVIOUS
<1>1. IInv  BY InitInv DEF RInit
<1>2. RunnerOK
  <2>1. 0 \in 0..Len(Order) /\ 0 \in 0..MaxBackoff  BY MembersAssumption
  <2> QED  BY <2>1 DEF RInit, RunnerOK, Alive
<1>3. NamesKept /\ FailuresTyped /\ KillsArePlanned /\ AllCounted
  BY DEF RInit, NamesKept, FailuresTyped, KillsArePlanned, AllCounted
<1>4. ParallelBound
  <2>1. \A m \in Members : Workforce(m) = {}  BY DEF RInit, Workforce, Alive
  <2>2. \A m \in Members : Parallel[m] \in Nat /\ Cardinality({}) = 0
    BY FS_EmptySet, MembersAssumption
  <2> QED  BY <2>1, <2>2 DEF ParallelBound
<1> QED  BY <1>1, <1>2, <1>3, <1>4 DEF RInv

LEMMA RInvHolds == RSpec => []RInv
<1>1. RInv /\ [RNext]_rvars => RInv'
  BY WorkerInv, OutsideInv, LookInv, KillInv, DecideInv, FaultInv DEF RNext, Tick1
<1> QED  BY <1>1, RunnerInit, PTL DEF RSpec
-----------------------------------------------------------------------------
(* The pool.                                                               *)

\* Between the count and the last decision of a tick shared_used is at least what
\* is used of the pool, whatever dies meanwhile.
PoolKept ==
  /\ shared \in Nat
  /\ Cardinality(Overflow) <= Pool
  /\ stage = "start" => Cardinality(Overflow) <= shared

LEMMA PlacesFinite == IsFiniteSet(Places)
<1>1. IsFiniteSet(DOMAIN Order)
  <2>1. DOMAIN Order = 1..Len(Order) /\ Len(Order) \in Nat  BY MembersAssumption
  <2> QED  BY <2>1, FS_Interval
<1>2. IsFiniteSet(Members)
  <2>1. Order \in [DOMAIN Order -> Members]  BY MembersAssumption
  <2>2. \A m \in Members : \E i \in DOMAIN Order : Order[i] = m  BY DEF Members, Elements
  <2>3. Order \in Surjection(DOMAIN Order, Members)  BY <2>1, <2>2 DEF Surjection
  <2> QED  BY <1>1, <2>3, FS_Surjection
<1>3. IsFiniteSet(1..Cardinality(Workers))
  BY MembersAssumption, FS_CardinalityType, FS_Interval
<1> QED  BY <1>2, <1>3, FS_Product DEF Places

\* What a member is promised: a number, and no less than its reserved workers or,
\* if it is eager, what the tick wants of it.
Promised(m) == Max({Reserved[m], Wanted(m)})
LEMMA PromisedType ==
  ASSUME NEW m \in Members
  PROVE  Promised(m) \in Nat /\ Promised(m) >= Reserved[m] /\ Promised(m) >= Wanted(m)
<1> DEFINE r == Reserved[m]
           w == Wanted(m)
<1>1. r \in Nat /\ w \in Nat /\ r \in Int /\ w \in Int  BY MembersAssumption, WantedType
<1> HIDE DEF r, w
<1>2. Max({r, w}) \in {r, w} /\ Max({r, w}) >= r /\ Max({r, w}) >= w  BY <1>1, MaxOfTwo
<1>3. Max({r, w}) \in Nat  BY <1>1, <1>2
<1> QED  BY <1>2, <1>3 DEF Promised, r, w

LEMMA OverflowIs ==
  /\ Overflow = {w \in Places : Promised(w[1]) < w[2] /\ w[2] <= Cardinality(Workforce(w[1]))}
  /\ Overflow' = {w \in Places : Promised(w[1]) < w[2] /\ w[2] <= Cardinality(Workforce(w[1])')}
BY DEF Overflow, Promised, Places, Members, Wanted

LEMMA PlaceType ==
  ASSUME NEW w \in Places
  PROVE  w[1] \in Members /\ w[2] \in Nat /\ w = <<w[1], w[2]>>
<1>1. Cardinality(Workers) \in Nat  BY MembersAssumption, FS_CardinalityType
<1> QED  BY <1>1 DEF Places

LEMMA WorkforceSize ==
  ASSUME NEW m \in Members
  PROVE  /\ IsFiniteSet(Workforce(m)) /\ Cardinality(Workforce(m)) \in Nat
         /\ IsFiniteSet(Workforce(m)') /\ Cardinality(Workforce(m)') \in Nat
<1>1. Workforce(m) \subseteq Workers /\ Workforce(m)' \subseteq Workers  BY DEF Workforce
<1>2. IsFiniteSet(Workforce(m)) /\ IsFiniteSet(Workforce(m)')
  BY <1>1, MembersAssumption, FS_Subset
<1> QED  BY <1>2, FS_CardinalityType

LEMMA OverflowSize ==
  /\ IsFiniteSet(Overflow) /\ Cardinality(Overflow) \in Nat
  /\ IsFiniteSet(Overflow') /\ Cardinality(Overflow') \in Nat
<1>1. Overflow \subseteq Places /\ Overflow' \subseteq Places  BY OverflowIs
<1>2. IsFiniteSet(Overflow) /\ IsFiniteSet(Overflow')  BY <1>1, PlacesFinite, FS_Subset
<1> QED  BY <1>2, FS_CardinalityType

\* Where no member gets a worker, no more of the pool is used.
LEMMA OverflowShrinks ==
  ASSUME \A m \in Members : Workforce(m)' \subseteq Workforce(m)
  PROVE  Cardinality(Overflow') <= Cardinality(Overflow)
<1>1. \A m \in Members : Cardinality(Workforce(m)') <= Cardinality(Workforce(m))
  BY WorkforceSize, FS_Subset
<1>2. ASSUME NEW w \in Places, w \in Overflow'  PROVE w \in Overflow
  <2>1. w[1] \in Members /\ w[2] \in Nat  BY PlaceType
  <2>2. Promised(w[1]) < w[2] /\ w[2] <= Cardinality(Workforce(w[1])')
    BY <1>2, OverflowIs
  <2>3. w[2] <= Cardinality(Workforce(w[1]))
    BY <1>1, <2>1, <2>2, WorkforceSize
  <2> QED  BY <2>2, <2>3, OverflowIs
<1>3. Overflow' \subseteq Overflow  BY <1>2, OverflowIs
<1> QED  BY <1>3, OverflowSize, FS_Subset

\* A worker more for a member takes at most one place of the pool, and none if the
\* member had fewer than it is promised.
LEMMA OverflowGrows ==
  ASSUME NEW m \in Members, NEW p, Workforce(m)' \subseteq Workforce(m) \cup {p},
         \A n \in Members \ {m} : Workforce(n)' \subseteq Workforce(n)
  PROVE  /\ Cardinality(Overflow') <= Cardinality(Overflow) + 1
         /\ Cardinality(Workforce(m)) < Promised(m) => Cardinality(Overflow') <= Cardinality(Overflow)
<1> DEFINE c(n) == Cardinality(Workforce(n))
           d(n) == Cardinality(Workforce(n)')
<1>1. \A n \in Members : c(n) \in Nat /\ d(n) \in Nat  BY WorkforceSize
<1>2. \A n \in Members \ {m} : d(n) <= c(n)  BY WorkforceSize, FS_Subset
<1>3. d(m) <= c(m) + 1
  <2>1. /\ IsFiniteSet(Workforce(m) \cup {p})
        /\ Cardinality(Workforce(m) \cup {p}) =
             IF p \in Workforce(m) THEN c(m) ELSE c(m) + 1
    BY WorkforceSize, FS_AddElement
  <2>2. d(m) <= Cardinality(Workforce(m) \cup {p})  BY <2>1, FS_Subset
  <2> HIDE DEF c, d
  <2> QED  BY <1>1, <2>1, <2>2
<1>4. /\ Overflow = {w \in Places : Promised(w[1]) < w[2] /\ w[2] <= c(w[1])}
      /\ Overflow' = {w \in Places : Promised(w[1]) < w[2] /\ w[2] <= d(w[1])}
  BY OverflowIs
<1> HIDE DEF c, d
<1>5. ASSUME NEW w \in Places, w \in Overflow', w \notin Overflow
      PROVE  w = <<m, c(m) + 1>> /\ ~(c(m) < Promised(m))
  <2>1. w[1] \in Members /\ w[2] \in Nat /\ w = <<w[1], w[2]>>  BY PlaceType
  <2>2. Promised(w[1]) < w[2] /\ w[2] <= d(w[1]) /\ ~(w[2] <= c(w[1]))  BY <1>4, <1>5
  <2>3. w[1] = m  BY <1>1, <1>2, <2>1, <2>2
  <2>4. w[2] = c(m) + 1  BY <1>1, <1>3, <2>1, <2>2, <2>3
  <2>5. Promised(m) \in Nat  BY PromisedType
  <2> QED  BY <1>1, <2>1, <2>2, <2>3, <2>4, <2>5
<1>6. Overflow' \subseteq Overflow \cup {<<m, c(m) + 1>>}  BY <1>4, <1>5
<1>7. Cardinality(Overflow') <= Cardinality(Overflow) + 1
  <2> DEFINE more == Overflow \cup {<<m, c(m) + 1>>}
  <2>1. /\ IsFiniteSet(more)
        /\ Cardinality(more) = IF <<m, c(m) + 1>> \in Overflow THEN Cardinality(Overflow)
                               ELSE Cardinality(Overflow) + 1
    BY OverflowSize, FS_AddElement
  <2>2. Cardinality(Overflow') <= Cardinality(more)  BY <1>6, <2>1, FS_Subset
  <2> HIDE DEF more
  <2> QED  BY <2>1, <2>2, OverflowSize
<1>8. ASSUME c(m) < Promised(m)  PROVE Cardinality(Overflow') <= Cardinality(Overflow)
  <2>1. Overflow' \subseteq Overflow  BY <1>4, <1>5, <1>8
  <2> QED  BY <2>1, OverflowSize, FS_Subset
<1> QED  BY <1>7, <1>8 DEF c

\* What a tick counts is at least what is used.
LEMMA CountedOverflow ==
  ASSUME RInv, \A m \in Members : Workforce(m) \subseteq running
  PROVE  SharedUsed \in Nat /\ Cardinality(Overflow) <= SharedUsed
<1> DEFINE used == {w \in Places : Reserved[w[1]] < w[2] /\ w[2] <= Count(w[1])}
<1>1. IsFiniteSet(used)  BY PlacesFinite, FS_Subset
<1>2. ASSUME NEW m \in Members
      PROVE  /\ Count(m) \in Nat /\ Cardinality(Workforce(m)) <= Count(m)
             /\ Cardinality(Workforce(m)) \in Nat
  <2>1. running \subseteq Workers /\ IsFiniteSet(Workers)
    BY MembersAssumption DEF RInv, NamesKept
  <2>2. IsFiniteSet({p \in running : member[p] = m})  BY <2>1, FS_Subset
  <2>3. Workforce(m) \subseteq {p \in running : member[p] = m}  BY DEF Workforce
  <2> QED  BY <2>2, <2>3, FS_Subset, FS_CardinalityType, WorkforceSize DEF Count
<1>3. ASSUME NEW w \in Places, w \in Overflow  PROVE w \in used
  <2>1. w[1] \in Members /\ w[2] \in Nat  BY PlaceType
  <2>2. Promised(w[1]) < w[2] /\ w[2] <= Cardinality(Workforce(w[1]))  BY <1>3, OverflowIs
  <2>3. Reserved[w[1]] \in Nat /\ Promised(w[1]) \in Nat /\ Promised(w[1]) >= Reserved[w[1]]
    BY <2>1, PromisedType, MembersAssumption
  <2>4. Reserved[w[1]] < w[2] /\ w[2] <= Count(w[1])  BY <1>2, <2>1, <2>2, <2>3
  <2> QED  BY <2>4
<1>4. Overflow \subseteq used  BY <1>3, OverflowIs
<1>5. SharedUsed = Cardinality(used)  BY DEF SharedUsed
<1> HIDE DEF used
<1> QED  BY <1>1, <1>4, <1>5, FS_Subset, FS_CardinalityType

\* A decision takes a place only while shared_used leaves one, and counts it.
LEMMA DecidePool ==
  ASSUME RInv, PoolKept, Decide
  PROVE  PoolKept'
<1>0. PICK m \in Members : m = Order[turn]  BY DecideEffect
<1>1. stage = "start" /\ Workforce(m) \subseteq running  BY <1>0, DecideEffect DEF Decide
<1>2. /\ shared \in Nat /\ Cardinality(Overflow) <= shared /\ Cardinality(Overflow) <= Pool
      /\ Pool \in Nat /\ Cardinality(Overflow) \in Nat /\ Cardinality(Overflow') \in Nat
  BY <1>1, OverflowSize, MembersAssumption DEF PoolKept
<1>3. PICK n \in {shared, SharedWith(m)} :
        /\ Carries(n)
        /\ \/ UNCHANGED <<procs, memory>>
           \/ Launch(m) /\ Missing(m) /\ n = shared
           \/ Launch(m) /\ Needed(m) /\ Admitted(m) /\ n = SharedWith(m)
  <2>1. StartEager(m) \/ StartOnDemand(m) \/ StartNone(m)  BY <1>0 DEF Decide
  <2> QED  BY <2>1 DEF StartEager, StartOnDemand, StartNone, Skip
<1>4. n \in Nat /\ shared <= n  BY <1>2 DEF SharedWith
<1>5. /\ shared' \in Nat /\ (stage' = "start" => shared' = n)
  BY <1>2, <1>3, <1>4 DEF Carries, Decide, NextMember
<1>6. SUFFICES Cardinality(Overflow') <= n /\ Cardinality(Overflow') <= Pool
  BY <1>5 DEF PoolKept
<1>7. CASE UNCHANGED <<procs, memory>>
  <2>1. \A k \in Members : Workforce(k)' \subseteq Workforce(k)
    BY <1>7 DEF procs, Workforce, Alive
  <2>2. Cardinality(Overflow') <= Cardinality(Overflow)  BY <2>1, OverflowShrinks
  <2> QED  BY <1>2, <1>4, <2>2
<1>8. ASSUME Launch(m), Missing(m) \/ Needed(m)
      PROVE  /\ Cardinality(Overflow') <= Cardinality(Overflow) + 1
             /\ Cardinality(Workforce(m)) < Promised(m)
                  => Cardinality(Overflow') <= Cardinality(Overflow)
  <2>1. /\ \E p : Workforce(m)' \subseteq Workforce(m) \cup {p}
        /\ \A k \in Members \ {m} : Workforce(k)' \subseteq Workforce(k)
    BY <1>1, <1>8, LaunchEffect
  <2>2. PICK p : Workforce(m)' \subseteq Workforce(m) \cup {p}  BY <2>1
  <2> QED  BY <2>1, <2>2, OverflowGrows
<1>9. Cardinality(Workforce(m)) <= Count(m) /\ Count(m) \in Nat /\ Cardinality(Workforce(m)) \in Nat
  <2>1. IsFiniteSet({p \in running : member[p] = m})
    <3>1. running \subseteq Workers /\ IsFiniteSet(Workers)
      BY MembersAssumption DEF RInv, NamesKept
    <3> QED  BY <3>1, FS_Subset
  <2>2. Workforce(m) \subseteq {p \in running : member[p] = m}  BY <1>1 DEF Workforce
  <2> QED  BY <2>1, <2>2, FS_Subset, FS_CardinalityType, WorkforceSize DEF Count
<1>10. /\ Promised(m) \in Nat /\ Promised(m) >= Reserved[m] /\ Promised(m) >= Wanted(m)
       /\ Reserved[m] \in Nat /\ Wanted(m) \in Nat
  BY PromisedType, WantedType, MembersAssumption
<1>11. CASE Launch(m) /\ Missing(m) /\ n = shared
  <2>1. Cardinality(Workforce(m)) < Promised(m)  BY <1>9, <1>10, <1>11 DEF Missing
  <2> QED  BY <1>2, <1>8, <1>11, <2>1
<1>12. CASE Launch(m) /\ Needed(m) /\ Admitted(m) /\ n = SharedWith(m)
  <2>1. CASE Count(m) < Reserved[m]
    <3>1. Cardinality(Workforce(m)) < Promised(m)  BY <1>9, <1>10, <2>1
    <3> QED  BY <1>2, <1>4, <1>8, <1>12, <3>1
  <2>2. CASE ~(Count(m) < Reserved[m])
    <3>1. shared < Pool /\ n = shared + 1  BY <1>9, <1>10, <1>12, <2>2 DEF Admitted, SharedWith
    <3>2. Cardinality(Overflow') <= Cardinality(Overflow) + 1  BY <1>8, <1>12
    <3> QED  BY <1>2, <3>1, <3>2
  <2> QED  BY <2>1, <2>2
<1> QED  BY <1>3, <1>7, <1>11, <1>12

\* Any other step starts nothing.
LEMMA QuietPool ==
  ASSUME RInv, PoolKept, \A m \in Members : Workforce(m)' \subseteq Workforce(m),
         shared' \in Nat, stage' = "start" => stage = "start" /\ shared' = shared
  PROVE  PoolKept'
<1>1. Cardinality(Overflow') <= Cardinality(Overflow)  BY OverflowShrinks
<1>2. Cardinality(Overflow) \in Nat /\ Cardinality(Overflow') \in Nat /\ Pool \in Nat
  BY OverflowSize, MembersAssumption
<1> QED  BY <1>1, <1>2 DEF PoolKept

LEMMA PoolStep == RInv /\ PoolKept /\ [RNext]_rvars => PoolKept'
<1> SUFFICES ASSUME RInv, PoolKept, [RNext]_rvars  PROVE PoolKept'  OBVIOUS
<1>1. ASSUME NEW p \in Workers, Work(p) \/ IdleExit(p) \/ Hang(p) \/ Die(p)  PROVE PoolKept'
  <2>1. UNCHANGED <<member, runner>> /\ Alive(p)
        /\ \E state : proc' = [proc EXCEPT ![p] = state]
    BY <1>1, WorkerMoves
  <2>2. \A q \in Workers : Alive(q)' => Alive(q)  BY <2>1 DEF Alive, RInv, RunnerOK
  <2>3. \A m \in Members : Workforce(m)' \subseteq Workforce(m)  BY <2>1, <2>2, QuietBound
  <2> QED  BY <2>1, <2>3, QuietPool DEF runner, snapshot, PoolKept
<1>2. CASE Producer \/ Operator \/ Clock \/ UNCHANGED rvars
  <2>1. UNCHANGED <<procs, stage, snapshot>>
    BY <1>2 DEF Producer, Operator, Clock, rvars, runner, memory
  <2>2. \A m \in Members : Workforce(m)' \subseteq Workforce(m)
    BY <2>1 DEF procs, Workforce, Alive
  <2> QED  BY <2>1, <2>2, QuietPool DEF snapshot, PoolKept
<1>3. CASE \/ Observe \/ ListActive
           \/ \E p \in Workers, quick \in BOOLEAN : ObserveExit(p, quick)
           \/ \E f \in failures : SendNotice(f)
  <2>1. UNCHANGED procs /\ shared' = shared /\ (stage' = "start" => stage = "start")
    BY <1>3 DEF Observe, ListActive, ObserveExit, SendNotice
  <2>2. \A m \in Members : Workforce(m)' \subseteq Workforce(m)
    BY <2>1 DEF procs, Workforce, Alive
  <2> QED  BY <2>1, <2>2, QuietPool DEF PoolKept
<1>4. ASSUME NEW p \in stuck, Kill(p)  PROVE PoolKept'
  <2>1. /\ proc' = [proc EXCEPT ![p] = "gone"] /\ member' = member
        /\ shared' = shared /\ stage' = stage
    BY <1>4 DEF Kill, Becomes
  <2>2. \A q \in Workers : Alive(q)' => Alive(q)  BY <2>1 DEF Alive, RInv, RunnerOK
  <2>3. \A m \in Members : Workforce(m)' \subseteq Workforce(m)  BY <2>1, <2>2, QuietBound
  <2> QED  BY <2>1, <2>3, QuietPool DEF PoolKept
<1>5. CASE ListFailed
  <2>1. /\ stage = "kill" /\ shared' = SharedUsed /\ UNCHANGED procs
    BY <1>5 DEF ListFailed
  <2>2. \A m \in Members : Workforce(m) \subseteq running
    <3>1. turn = 0 /\ \A i \in DOMAIN Order : turn <= i
      BY <2>1, OrderType DEF RInv, RunnerOK
    <3>2. \A i \in DOMAIN Order : Workforce(Order[i]) \subseteq running
      BY <2>1, <3>1 DEF RInv, AllCounted
    <3> QED  BY <3>2 DEF Members, Elements
  <2>3. SharedUsed \in Nat /\ Cardinality(Overflow) <= SharedUsed  BY <2>2, CountedOverflow
  <2>4. \A m \in Members : Workforce(m)' = Workforce(m)
    BY <2>1 DEF procs, Workforce, Alive
  <2>5. Cardinality(Overflow') <= Cardinality(Overflow)  BY <2>4, OverflowShrinks
  <2>6. Cardinality(Overflow) \in Nat /\ Cardinality(Overflow') \in Nat /\ Pool \in Nat
    BY OverflowSize, MembersAssumption
  <2> QED  BY <2>1, <2>3, <2>5, <2>6 DEF PoolKept
<1>6. CASE TickRaises \/ Restart
  <2>1. stage' = "rest" /\ shared' = 0 /\ member' = member
    BY <1>6 DEF TickRaises, Restart, Forgets, procs
  <2>2. \A q \in Workers : Alive(q)' => Alive(q)
    BY <1>6 DEF TickRaises, Restart, procs, Alive
  <2>3. \A m \in Members : Workforce(m)' \subseteq Workforce(m)  BY <2>1, <2>2, QuietBound
  <2> QED  BY <2>1, <2>3, QuietPool
<1> QED
  BY <1>1, <1>2, <1>3, <1>4, <1>5, <1>6, DecidePool DEF RNext, Tick1

LEMMA PoolInit == RInit => PoolKept
<1> SUFFICES ASSUME RInit PROVE PoolKept  OBVIOUS
<1>1. \A m \in Members : Cardinality(Workforce(m)) = 0
  <2>1. \A m \in Members : Workforce(m) = {}  BY DEF RInit, Workforce, Alive
  <2> QED  BY <2>1, FS_EmptySet
<1>2. ASSUME NEW w \in Places  PROVE w \notin Overflow
  <2>1. w[1] \in Members /\ w[2] \in Nat /\ Promised(w[1]) \in Nat  BY PlaceType, PromisedType
  <2> QED  BY <1>1, <2>1, OverflowIs
<1>3. Overflow = {}  BY <1>2, OverflowIs
<1>4. Cardinality(Overflow) = 0  BY <1>3, FS_EmptySet
<1> QED  BY <1>4, MembersAssumption DEF RInit, PoolKept
-----------------------------------------------------------------------------
(* The theorems.                                                           *)

\* The runner and its workers drive the store only by its own methods, so that
\* every theorem about the store holds in a shard: no kill, restart or raised
\* tick reaches past the store's transactions.
THEOREM ShardUsesStore == RSpec => Spec
<1>1. RInit => Init  BY DEF RInit
<1>2. RInv /\ [RNext]_rvars => [Next]_vars  BY ShardUsesMethods
<1> QED  BY <1>1, <1>2, RInvHolds, PTL DEF RSpec, Spec

\* A process holds an issued activation exactly while a handler runs in it, and
\* the tick kills only processes it saw running on an active row.
THEOREM ShardTyped == RSpec => []RunnerOK
<1>1. RInv => RunnerOK  BY DEF RInv
<1> QED  BY <1>1, RInvHolds, PTL

\* No member ever has more processes than parallel allows, for any manifest and
\* any interleaving of ticks, workers, faults and restarts.
THEOREM ParallelHolds == RSpec => []ParallelBound
<1>1. RInv => ParallelBound  BY DEF RInv
<1> QED  BY <1>1, RInvHolds, PTL

\* The processes beyond what members are promised never exceed the shared pool, for
\* any members and manifest, although a tick counts once and then starts workers
\* member by member (runner.py:342-363).
THEOREM PoolHolds == RSpec => []PoolBound
<1>1. PoolKept => PoolBound  BY DEF PoolKept, PoolBound
<1> QED  BY <1>1, PoolInit, PoolStep, RInvHolds, PTL DEF RSpec
=============================================================================
