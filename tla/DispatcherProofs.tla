--------------------------- MODULE DispatcherProofs ---------------------------
(* Theorems about the workers of Dispatcher: they use the store as its       *)
(* specification says, an accepted commit stays final, and a session is      *)
(* stepped only by code of its version.                                      *)
EXTENDS Dispatcher, LocalSessionsProofs, SequenceTheorems

DInv == IInv /\ WorkersOK

\* What a concatenation contains comes from one of its parts.
LEMMA ConcatElements ==
  ASSUME NEW T, NEW p \in Seq(T), NEW q \in Seq(T)
  PROVE  /\ p \o q \in Seq(T) /\ Len(p \o q) \in Nat /\ Len(p) <= Len(p \o q)
         /\ Elements(p \o q) \subseteq Elements(p) \cup Elements(q)
<1> DEFINE m == Len(p)
           n == Len(q)
<1>1. m \in Nat /\ n \in Nat /\ DOMAIN p = 1..m /\ DOMAIN q = 1..n
  OBVIOUS
<1>2. /\ p \o q \in Seq(T) /\ Len(p \o q) = m + n
      /\ \A i \in 1..(m + n) : (p \o q)[i] = IF i <= m THEN p[i] ELSE q[i - m]
  BY ConcatProperties
<1>3. DOMAIN (p \o q) = 1..(m + n)  BY <1>2
<1> HIDE DEF m, n
<1>4. ASSUME NEW i \in 1..(m + n)
      PROVE  (p \o q)[i] \in Elements(p) \cup Elements(q)
  <2>1. CASE i <= m
    <3>1. i \in 1..m /\ (p \o q)[i] = p[i]  BY <1>1, <1>2, <2>1
    <3> QED  BY <1>1, <3>1 DEF Elements
  <2>2. CASE ~(i <= m)
    <3>1. i - m \in 1..n /\ (p \o q)[i] = q[i - m]  BY <1>1, <1>2, <2>2
    <3> QED  BY <1>1, <3>1 DEF Elements
  <2> QED  BY <2>1, <2>2
<1>5. Elements(p \o q) \subseteq Elements(p) \cup Elements(q)
  BY <1>3, <1>4 DEF Elements
<1>6. Len(p \o q) \in Nat /\ m <= Len(p \o q)  BY <1>1, <1>2
<1> QED  BY <1>2, <1>5, <1>6 DEF m

\* Every name a worker polls is one it serves or one it migrates.
LEMMA NamesType ==
  ASSUME NEW w \in Workers
  PROVE  /\ Serves[w] \in Seq(Definitions) /\ Len(Serves[w]) \in Nat \ {0}
         /\ Names(w) \in Seq(Definitions) /\ Len(Names(w)) \in Nat \ {0}
         /\ Len(Serves[w]) <= Len(Names(w))
         /\ Elements(Names(w)) \subseteq Elements(Serves[w]) \cup Elements(Supersedes[w])
<1>1. /\ Serves[w] \in Seq(Definitions) /\ Supersedes[w] \in Seq(Definitions)
      /\ Serves[w] # <<>>
  BY ServesAssumption
<1>2. Len(Serves[w]) \in Nat \ {0}  BY <1>1
<1>3. /\ Names(w) \in Seq(Definitions) /\ Len(Names(w)) \in Nat
      /\ Len(Serves[w]) <= Len(Names(w))
      /\ Elements(Names(w)) \subseteq Elements(Serves[w]) \cup Elements(Supersedes[w])
  BY <1>1, ConcatElements DEF Names
<1> QED  BY <1>1, <1>2, <1>3

\* The name that run_once looks at is one of the worker's names.
LEMMA PolledName ==
  ASSUME WorkersOK, NEW w \in Workers
  PROVE  /\ Index(w) \in 0..(Len(Names(w)) - 1)
         /\ (Index(w) + 1) % Len(Names(w)) \in 0..(Len(Names(w)) - 1)
         /\ (offset[w] + 1) % Len(Names(w)) \in 0..(Len(Names(w)) - 1)
         /\ Names(w)[Index(w) + 1] \in Elements(Names(w))
         /\ Names(w)[Index(w) + 1] \in Definitions
         /\ Bound(Names(w)[Index(w) + 1]) \in Scopes
<1>1. /\ Len(Names(w)) \in Nat \ {0} /\ Names(w) \in Seq(Definitions)
      /\ cursor[w] \in Nat /\ offset[w] \in Nat
  BY NamesType DEF WorkersOK
<1>2. ASSUME NEW n \in Nat
      PROVE  n % Len(Names(w)) \in 0..(Len(Names(w)) - 1)
  BY <1>1
<1>3. Index(w) \in 0..(Len(Names(w)) - 1)
  <2>1. cursor[w] + offset[w] \in Nat  BY <1>1
  <2> QED  BY <1>2, <2>1 DEF Index
<1>4. Index(w) + 1 \in DOMAIN Names(w)  BY <1>1, <1>3
<1>5. Names(w)[Index(w) + 1] \in Elements(Names(w)) /\ Names(w)[Index(w) + 1] \in Definitions
  BY <1>1, <1>4 DEF Elements
<1> QED  BY <1>1, <1>2, <1>3, <1>5 DEF Bound, Scopes

\* While it starts, a worker registers a definition with the contract of its
\* build.
LEMMA RegisteredName ==
  ASSUME WorkersOK, NEW w \in Workers, phase[w] = "starting"
  PROVE  /\ offset[w] + 1 \in DOMAIN Serves[w]
         /\ Serves[w][offset[w] + 1] \in Definitions
         /\ Build[w][Serves[w][offset[w] + 1]] \in Contracts
<1>1. offset[w] \in Nat /\ offset[w] < Len(Serves[w])  BY DEF WorkersOK
<1>2. offset[w] + 1 \in DOMAIN Serves[w]  BY <1>1, NamesType
<1>3. Serves[w][offset[w] + 1] \in Definitions  BY <1>2, NamesType
<1> QED  BY <1>2, <1>3, ServesAssumption

\* A worker's activation is one the store issued.
LEMMA HeldType ==
  ASSUME DInv, NEW w \in Workers, phase[w] \in {"running", "failing"}
  PROVE  /\ held[w] \in issued
         /\ held[w].attempt \in 1..MaxAttempts /\ Backoff(held[w].attempt) \in Backoffs
BY BackoffAssumption DEF DInv, WorkersOK, IInv, TypeOK, Activation

\* Every step of the system is a method of the store or leaves the store alone.
LEMMA StepsAreMethods ==
  ASSUME DInv, [DNext]_dvars
  PROVE  [Next]_vars
<1>1. CASE UNCHANGED dvars  BY <1>1 DEF dvars
<1>2. ASSUME NEW w \in Workers, Work(w)
      PROVE  [Next]_vars
  <2>1. CASE Crash(w) \/ Raise(w) \/ Refuse(w)
    BY <2>1 DEF Crash, Raise, Refuse
  <2>2. CASE GiveBack(w)
    <3>1. CASE ~Holds(held[w]) /\ UNCHANGED vars  BY <3>1
    <3>2. CASE Release(held[w], Backoff(held[w].attempt), held[w].attempt)
               /\ UNCHANGED issued
      <4>1. /\ held[w] \in issued /\ Backoff(held[w].attempt) \in Backoffs
        BY <2>2, HeldType DEF GiveBack
      <4> QED  BY <3>2, <4>1 DEF Next
    <3> QED  BY <2>2, <3>1, <3>2 DEF GiveBack
  <2>3. CASE Register(w)
    <3>1. /\ Serves[w][offset[w] + 1] \in Definitions
          /\ Build[w][Serves[w][offset[w] + 1]] \in Contracts
      BY <2>3, RegisteredName DEF Register, DInv
    <3> QED  BY <2>3, <3>1 DEF Register, Next
  <2>4. CASE PollNothing(w)
    <3>1. Bound(Names(w)[Index(w) + 1]) \in Scopes  BY PolledName DEF DInv
    <3> QED  BY <2>4, <3>1 DEF PollNothing, Next
  <2>5. CASE \E s \in Sessions : PollClaims(w, s)
    <3>1. Bound(Names(w)[Index(w) + 1]) \in Scopes  BY PolledName DEF DInv
    <3> QED  BY <2>5, <3>1 DEF PollClaims, Next
  <2>6. CASE held[w] # None /\ \E p \in Handled(w, held[w]) : Finish(w, p)
    <3>1. held[w] \in issued  BY <2>6, HeldType DEF Finish
    <3> QED  BY <2>6, <3>1 DEF Finish, Handled, Next
  <2> QED  BY <1>2, <2>1, <2>2, <2>3, <2>4, <2>5, <2>6 DEF Work
<1>3. CASE Producer  BY <1>3 DEF Producer, Next
<1>4. CASE Operator  BY <1>4 DEF Operator, Next
<1>5. CASE Clock  BY <1>5 DEF Clock, Next
<1> QED  BY <1>1, <1>2, <1>3, <1>4, <1>5 DEF DNext

\* Only claim takes a token, and only claim issues an activation.
LEMMA QuietMethods ==
  ASSUME IInv, [Next]_vars,
         ~ \E w \in Workers, scope \in Scopes, s \in Sessions : ClientClaims(w, scope, s)
  PROVE  nextToken' = nextToken /\ issued' = issued
BY DEF Next, vars, BindDefinition, Create, AppendMail, ClaimNothing, Release, Retry,
       Commit, Purge, Tick

\* A claim takes the next token and adds one activation that carries it.
LEMMA ClaimIssues ==
  ASSUME NEW w \in Workers, NEW scope \in Scopes, NEW s \in Sessions,
         ClientClaims(w, scope, s)
  PROVE  /\ nextToken' = nextToken + 1 /\ issued' = issued \cup {ActivationOf(s)}
         /\ ActivationOf(s).token = nextToken /\ ActivationOf(s).session = s
         /\ ActivationOf(s).executable = row[s].executable
         /\ s \in scope /\ contracts' = contracts
BY DEF ClientClaims, Claim, ActivationOf

\* What a step of the store leaves of the token counter and the activations.
LEMMA TokensGrow ==
  ASSUME DInv, [DNext]_dvars
  PROVE  /\ issued \subseteq issued' /\ nextToken \in Nat \ {0}
         /\ nextToken' \in Nat /\ nextToken <= nextToken'
<1>1. [Next]_vars  BY StepsAreMethods
<1>2. IInv /\ nextToken \in Nat \ {0}  BY DEF DInv, IInv, TypeOK
<1>3. CASE \E w \in Workers, scope \in Scopes, s \in Sessions : ClientClaims(w, scope, s)
  BY <1>2, <1>3, ClaimIssues
<1>4. CASE ~ \E w \in Workers, scope \in Scopes, s \in Sessions : ClientClaims(w, scope, s)
  BY <1>1, <1>2, <1>4, QuietMethods
<1> QED  BY <1>3, <1>4

\* A step of one worker that leaves it in a proper position.
LEMMA OneWorker ==
  ASSUME WorkersOK, NEW w \in Workers, NEW ph, NEW h, NEW c \in Nat, NEW o \in Nat,
         phase' = [phase EXCEPT ![w] = ph], held' = [held EXCEPT ![w] = h],
         cursor' = [cursor EXCEPT ![w] = c], offset' = [offset EXCEPT ![w] = o],
         ph \in {"starting", "refused", "polling", "running", "failing"},
         IF ph \in {"running", "failing"} THEN h \in issued' ELSE h = None,
         c < Len(Names(w)), o < Len(Names(w)),
         ph = "starting" => o < Len(Serves[w]),
         issued \subseteq issued', \A n \in spent' : n \in Nat /\ n < nextToken',
         retries' \in 0..MaxRetries
  PROVE  WorkersOK'
<1>1. /\ phase' \in [Workers -> {"starting", "refused", "polling", "running", "failing"}]
      /\ held' \in [Workers -> issued' \cup {None}]
      /\ cursor' \in [Workers -> Nat] /\ offset' \in [Workers -> Nat]
  BY DEF WorkersOK
<1>2. ASSUME NEW v \in Workers
      PROVE  /\ IF phase'[v] \in {"running", "failing"} THEN held'[v] \in issued'
                                                        ELSE held'[v] = None
             /\ cursor'[v] < Len(Names(v)) /\ offset'[v] < Len(Names(v))
             /\ phase'[v] = "starting" => offset'[v] < Len(Serves[v])
  <2>1. CASE v = w
    <3>1. phase'[v] = ph /\ held'[v] = h /\ cursor'[v] = c /\ offset'[v] = o
      BY <2>1 DEF WorkersOK
    <3> QED  BY <2>1, <3>1
  <2>2. CASE v # w
    <3>1. /\ phase'[v] = phase[v] /\ held'[v] = held[v]
          /\ cursor'[v] = cursor[v] /\ offset'[v] = offset[v]
      BY <2>2 DEF WorkersOK
    <3> QED  BY <3>1 DEF WorkersOK
  <2> QED  BY <2>1, <2>2
<1> QED  BY <1>1, <1>2 DEF WorkersOK, Names

\* Every step keeps the workers' bookkeeping consistent.
LEMMA WorkersInv ==
  ASSUME DInv, [DNext]_dvars
  PROVE  WorkersOK'
<1> USE DEF DInv
<1>1. /\ issued \subseteq issued' /\ nextToken \in Nat \ {0}
      /\ nextToken' \in Nat /\ nextToken <= nextToken'
  BY TokensGrow
<1>2. WorkersOK  OBVIOUS
<1>3. \A n \in spent : n \in Nat /\ n < nextToken'  BY <1>1, <1>2 DEF WorkersOK
<1>4. CASE UNCHANGED <<workers, spent, retries>>
  BY <1>1, <1>2, <1>3, <1>4 DEF WorkersOK, workers, Names
<1>5. ASSUME NEW w \in Workers, Work(w)
      PROVE  WorkersOK'
  <2>0. /\ Len(Names(w)) \in Nat \ {0} /\ Len(Serves[w]) \in Nat \ {0}
        /\ Len(Serves[w]) <= Len(Names(w))
    BY NamesType
  <2>1. /\ phase = [phase EXCEPT ![w] = phase[w]] /\ held = [held EXCEPT ![w] = held[w]]
        /\ cursor = [cursor EXCEPT ![w] = cursor[w]]
        /\ offset = [offset EXCEPT ![w] = offset[w]]
        /\ phase[w] \in {"starting", "refused", "polling", "running", "failing"}
        /\ cursor[w] \in Nat /\ offset[w] \in Nat /\ retries \in 0..MaxRetries
        /\ cursor[w] < Len(Names(w)) /\ offset[w] < Len(Names(w))
        /\ IF phase[w] \in {"running", "failing"} THEN held[w] \in issued
                                                  ELSE held[w] = None
        /\ phase[w] = "starting" => offset[w] < Len(Serves[w])
    BY <1>2 DEF WorkersOK
  <2>2. ASSUME Returns(w), \A n \in spent' : n \in Nat /\ n < nextToken', retries' = retries
        PROVE  WorkersOK'
    <3>1. 0 < Len(Names(w))  BY <2>0
    <3>2. /\ phase' = [phase EXCEPT ![w] = "polling"] /\ held' = [held EXCEPT ![w] = None]
          /\ cursor' = [cursor EXCEPT ![w] = cursor[w]] /\ offset' = [offset EXCEPT ![w] = 0]
      BY <2>1, <2>2 DEF Returns
    <3> QED  BY <1>1, <1>2, <2>1, <2>2, <3>1, <3>2, OneWorker
  <2>3. CASE Crash(w)
    <3>1. /\ 0 < Len(Names(w)) /\ 0 < Len(Serves[w])  BY <2>0
    <3>2. /\ phase' = [phase EXCEPT ![w] = "starting"] /\ held' = [held EXCEPT ![w] = None]
          /\ cursor' = [cursor EXCEPT ![w] = 0] /\ offset' = [offset EXCEPT ![w] = 0]
          /\ spent' = spent /\ retries' = retries
      BY <2>3 DEF Crash
    <3> QED  BY <1>1, <1>2, <1>3, <2>1, <3>1, <3>2, OneWorker
  <2>4. CASE Raise(w)
    <3>1. /\ phase' = [phase EXCEPT ![w] = "failing"]
          /\ held' = held /\ cursor' = cursor /\ offset' = offset
          /\ spent' = spent /\ retries' = retries
          /\ held[w] \in issued'
      BY <1>1, <2>1, <2>4 DEF Raise
    <3> QED  BY <1>1, <1>2, <1>3, <2>1, <3>1, OneWorker
  <2>5. CASE Refuse(w)
    <3>1. /\ phase' = [phase EXCEPT ![w] = "refused"]
          /\ held' = held /\ cursor' = cursor /\ offset' = offset
          /\ spent' = spent /\ retries' = retries /\ held[w] = None
      BY <2>1, <2>5 DEF Refuse
    <3> QED  BY <1>1, <1>2, <1>3, <2>1, <3>1, OneWorker
  <2>6. CASE GiveBack(w)
    <3>1. Returns(w) /\ spent' = spent /\ retries' = retries  BY <2>6 DEF GiveBack
    <3> QED  BY <1>3, <2>2, <3>1
  <2>7. CASE Register(w)
    <3>1. spent' = spent /\ retries' = retries  BY <2>7 DEF Register
    <3>2. CASE Returns(w)  BY <1>3, <2>2, <3>1, <3>2
    <3>3. CASE ~Returns(w)
      <4>1. /\ offset[w] + 1 < Len(Serves[w]) /\ phase[w] = "starting"
            /\ offset' = [offset EXCEPT ![w] = offset[w] + 1]
            /\ phase' = phase /\ held' = held /\ cursor' = cursor
        BY <2>7, <3>3 DEF Register
      <4>2. offset[w] + 1 \in Nat /\ offset[w] + 1 < Len(Names(w))  BY <2>0, <2>1, <4>1
      <4> QED  BY <1>1, <1>2, <1>3, <2>1, <3>1, <4>1, <4>2, OneWorker
    <3> QED  BY <3>2, <3>3
  <2>8. CASE PollNothing(w)
    <3> DEFINE o == (offset[w] + 1) % Len(Names(w))
    <3>1. o \in Nat /\ o < Len(Names(w))
      <4>1. o \in 0..(Len(Names(w)) - 1)  BY <1>2, PolledName
      <4> QED  BY <2>0, <4>1
    <3>2. /\ offset' = [offset EXCEPT ![w] = o] /\ phase[w] = "polling"
          /\ phase' = phase /\ held' = held /\ cursor' = cursor
          /\ spent' = spent /\ retries' = retries
      BY <2>8 DEF PollNothing
    <3> HIDE DEF o
    <3> QED  BY <1>1, <1>2, <1>3, <2>1, <3>1, <3>2, OneWorker
  <2>9. CASE \E s \in Sessions : PollClaims(w, s)
    <3>1. PICK s \in Sessions : PollClaims(w, s)  BY <2>9
    <3> DEFINE c == (Index(w) + 1) % Len(Names(w))
    <3>2. c \in Nat /\ c < Len(Names(w)) /\ 0 < Len(Names(w))
      <4>1. c \in 0..(Len(Names(w)) - 1)  BY <1>2, PolledName
      <4> QED  BY <2>0, <4>1
    <3>3. ActivationOf(s) \in issued'  BY <3>1 DEF PollClaims, ClientClaims
    <3>4. /\ phase' = [phase EXCEPT ![w] = "running"]
          /\ held' = [held EXCEPT ![w] = ActivationOf(s)]
          /\ cursor' = [cursor EXCEPT ![w] = c] /\ offset' = [offset EXCEPT ![w] = 0]
          /\ spent' = spent /\ retries' = retries
      BY <3>1 DEF PollClaims
    <3> HIDE DEF c
    <3> QED  BY <1>1, <1>2, <1>3, <2>1, <3>2, <3>3, <3>4, OneWorker
  <2>10. CASE held[w] # None /\ \E p \in Handled(w, held[w]) : Finish(w, p)
    <3>1. PICK p \in Handled(w, held[w]) : Finish(w, p)  BY <2>10
    <3>2. held[w] \in issued  BY <2>1, <3>1 DEF Finish
    <3>3. held[w].token \in Nat /\ held[w].token < nextToken
      BY <3>2 DEF IInv, TypeOK, Activation, TokensAreFresh
    <3>4. retries' = retries /\ \A n \in spent' : n \in Nat /\ n < nextToken'
      <4>1. held[w].token \in Nat /\ held[w].token < nextToken'  BY <1>1, <3>3
      <4>2. spent' = spent \cup {held[w].token} /\ retries' = retries
        BY <3>1 DEF Finish
      <4> QED  BY <1>3, <4>1, <4>2
    <3>5. CASE Returns(w)  BY <2>2, <3>4, <3>5
    <3>6. CASE ~Returns(w)
      <4>1. /\ phase' = [phase EXCEPT ![w] = "failing"]
            /\ held' = held /\ cursor' = cursor /\ offset' = offset
            /\ held[w] \in issued'
        BY <1>1, <3>1, <3>2, <3>6 DEF Finish
      <4> QED  BY <1>1, <1>2, <2>1, <3>4, <4>1, OneWorker
    <3> QED  BY <3>5, <3>6
  <2> QED
    BY <1>5, <2>3, <2>4, <2>5, <2>6, <2>7, <2>8, <2>9, <2>10 DEF Work
<1>6. CASE Producer  BY <1>4, <1>6 DEF Producer
<1>7. CASE Operator
  <2>1. /\ spent' = spent /\ phase' = phase /\ held' = held
        /\ cursor' = cursor /\ offset' = offset /\ issued' = issued
    BY <1>7 DEF Operator, workers
  <2>2. retries' \in 0..MaxRetries
    BY <1>2, <1>7, ServesAssumption DEF Operator, WorkersOK
  <2> QED  BY <1>2, <1>3, <2>1, <2>2 DEF WorkersOK, Names
<1>8. CASE Clock  BY <1>4, <1>8 DEF Clock
<1>9. CASE UNCHANGED dvars  BY <1>4, <1>9 DEF dvars
<1> QED  BY <1>5, <1>6, <1>7, <1>8, <1>9 DEF DNext

\* The first state of the system.
LEMMA WorkersInit == DInit => DInv
<1> SUFFICES ASSUME DInit  PROVE WorkersOK
  BY InitInv DEF DInit, DInv
<1>1. \A w \in Workers : /\ Len(Names(w)) \in Nat \ {0} /\ Len(Serves[w]) \in Nat \ {0}
  BY NamesType
<1> QED  BY <1>1, ServesAssumption DEF DInit, Init, WorkersOK

\* The invariant of the store and of the workers.
LEMMA DInvHolds == DSpec => []DInv
<1>1. DInv /\ [DNext]_dvars => DInv'
  BY StepsAreMethods, WorkersInv, NextInv DEF DInv
<1> QED  BY <1>1, WorkersInit, PTL DEF DSpec

\* Whatever the workers do, whenever they crash and in whatever order their
\* transactions come, the store runs as its specification says; every theorem
\* about the store holds under them.
THEOREM WorkersUseStore == DSpec => ImplementsStore
<1>1. DInit => Init  BY DEF DInit
<1>2. DInv /\ [DNext]_dvars => [Next]_vars  BY StepsAreMethods
<1> QED  BY <1>1, <1>2, DInvHolds, PTL DEF DSpec, Spec, ImplementsStore

\* A worker holds an issued activation exactly while it needs one, and polls and
\* registers only names it has.
THEOREM WorkersTyped == DSpec => []WorkersOK
<1>1. DInv => WorkersOK  BY DEF DInv
<1> QED  BY <1>1, DInvHolds, PTL
-----------------------------------------------------------------------------
(* What the invariants of the two version and fencing theorems rest on: how  *)
(* one step of the store moves tokens and executables.                       *)

\* No method but claim gives a row a token, and claim only a fresh one; a row
\* that keeps its token keeps its definition.
LEMMA TokensMove ==
  ASSUME IInv, [Next]_vars, NEW s \in Sessions
  PROVE  /\ row'[s].token \in {row[s].token, None, nextToken}
         /\ row'[s].token = row[s].token /\ row[s].token # None =>
              row'[s].executable = row[s].executable
<1>0. row[s] \in Row /\ TypeOK  BY DEF IInv, TypeOK
<1>01. \A d \in Definitions : NewRow(d).token = None  BY DEF NewRow
<1>1. CASE row'[s] = row[s]  BY <1>1
<1>2. CASE row'[s].token = None  BY <1>2
<1>3. CASE UNCHANGED vars \/ \E d \in Definitions, c \in Contracts : BindDefinition(d, c)
  BY <1>1, <1>3 DEF vars, rows, BindDefinition
<1>4. CASE \E t \in Sessions, d \in Definitions : Create(t, d)
  <2>1. row'[s] = row[s] \/ \E d \in Definitions : row'[s] = NewRow(d)
    BY <1>0, <1>4 DEF Create, TypeOK
  <2> QED  BY <1>01, <1>1, <1>2, <2>1
<1>5. CASE \E t \in Sessions, m \in Mail : AppendMail(t, m)
  BY <1>1, <1>5 DEF AppendMail
<1>6. CASE \E w \in Workers, scope \in Scopes, t \in Sessions : ClientClaims(w, scope, t)
  <2>1. PICK w \in Workers, scope \in Scopes, t \in Sessions : ClientClaims(w, scope, t)
    BY <1>6
  <2>2. CASE s = t
    <3>1. row'[s].token = nextToken  BY <2>1, <2>2, ClaimEffect
    <3>2. row[s].token # nextToken
      <4>1. row[s].token \in Nat \cup {None} /\ nextToken \in Nat
        BY <1>0 DEF TypeOK, Row
      <4>2. row[s].token # None => row[s].token < nextToken
        BY DEF IInv, TokensAreFresh
      <4> QED  BY <4>1, <4>2, NoneAssumption
    <3> QED  BY <3>1, <3>2
  <2>3. CASE s # t
    BY <1>0, <1>1, <1>2, <2>1, <2>3, ClaimEffect, ParkFailedEffect
  <2> QED  BY <2>2, <2>3
<1>7. CASE \E scope \in Scopes : ClaimNothing(scope)
  <2>1. row'[s] = row[s] \/ row'[s] = ParkFailed(row[s])  BY <1>7 DEF ClaimNothing
  <2>2. ParkFailed(row[s]).token = None
    <3> DEFINE r == row[s]
    <3>1. r \in Row  BY <1>0
    <3> HIDE DEF r
    <3>2. ParkFailed(r).token = None  BY <3>1 DEF ParkFailed, Row
    <3> QED  BY <3>2 DEF r
  <2> QED  BY <1>1, <1>2, <2>1, <2>2
<1>8. CASE \E a \in issued, after \in Backoffs : \E error \in {a.attempt, None} :
             Release(a, after, error)
  <2>0. PICK a \in issued, after \in Backoffs :
          \E error \in {a.attempt, None} : Release(a, after, error)
    BY <1>8
  <2>1. PICK error \in {a.attempt, None} : Release(a, after, error)
    BY <2>0
  <2>2. row'[s] = row[s] \/ row'[s].token = None
    BY <1>0, <2>1 DEF Release, TypeOK, Row
  <2> QED  BY <1>1, <1>2, <2>2
<1>9. CASE \E t \in Sessions : Retry(t)
  <2>1. /\ row'[s].token = row[s].token /\ row'[s].executable = row[s].executable
    BY <1>0, <1>9 DEF Retry, TypeOK, Row
  <2> QED  BY <2>1
<1>10. CASE \E a \in issued : \E p \in Proposals(a.events) : Commit(a, p)
  <2>1. PICK a \in issued : \E p \in Proposals(a.events) : Commit(a, p)  BY <1>10
  <2>2. PICK p \in Proposals(a.events) : Commit(a, p)  BY <2>1
  <2>3. row'[s] = row[s] \/ row'[s].token = None
    BY <1>01, <2>2, CommitEffect
  <2> QED  BY <1>1, <1>2, <2>3
<1>11. CASE \E gone \in SUBSET Sessions : Purge(gone)
  <2>1. row'[s] = row[s] \/ row'[s] = NoRow  BY <1>11 DEF Purge
  <2>2. NoRow.token = None  BY DEF NoRow, NewRow
  <2> QED  BY <1>1, <1>2, <2>1, <2>2
<1>12. CASE Tick
  <2>1. /\ row'[s].token = row[s].token /\ row'[s].executable = row[s].executable
    BY <1>0, <1>12 DEF Tick, TypeOK, Row
  <2> QED  BY <2>1
<1> QED
  BY <1>3, <1>4, <1>5, <1>6, <1>7, <1>8, <1>9, <1>10, <1>11, <1>12 DEF Next

\* A claim does not rebind what it claims.
LEMMA ClaimKeepsVersion ==
  ASSUME IInv, NEW w \in Workers, NEW scope \in Scopes, NEW s \in Sessions,
         ClientClaims(w, scope, s)
  PROVE  row'[s].executable = row[s].executable
<1>1. row[s] \in Row  BY DEF IInv, TypeOK
<1>2. PICK top \in {row[t].lastClaim : t \in Sessions} :
        row'[s] = [row[s] EXCEPT !.status = "active", !.token = nextToken,
                      !.lease = LeaseSeconds, !.worker = w,
                      !.attempts = @ + 1, !.lastClaim = top + 1]
  BY DEF ClientClaims, Claim
<1> QED  BY <1>1, <1>2 DEF Row

\* The activations after a step are those before it and at most one that
\* carries the token the counter showed.
LEMMA IssuedMove ==
  ASSUME IInv, [Next]_vars
  PROVE  \A a \in issued' : a \in issued \/ a.token = nextToken
<1>1. CASE \E w \in Workers, scope \in Scopes, s \in Sessions : ClientClaims(w, scope, s)
  BY <1>1, ClaimIssues
<1>2. CASE ~ \E w \in Workers, scope \in Scopes, s \in Sessions : ClientClaims(w, scope, s)
  BY <1>2, QuietMethods
<1> QED  BY <1>1, <1>2

\* Without lease time: a spent token is in no row any more.
Fenced == \A a \in issued : a.token \in spent => row[a.session].token # a.token

\* An accepted commit stays final: a release or a second commit after a lost
\* reply finds the activation stale, whatever happened in between.
THEOREM LostRepliesAreFenced == DSpec => []SpentIsFenced
<1>1. DInit => Fenced  BY DEF DInit, Init, Fenced
<1>2. DInv /\ Fenced /\ [DNext]_dvars => Fenced'
  <2> SUFFICES ASSUME DInv, Fenced, [DNext]_dvars,
                      NEW a \in issued', a.token \in spent'
               PROVE  row'[a.session].token # a.token
    BY DEF Fenced
  <2>1. IInv /\ [Next]_vars /\ WorkersOK /\ nextToken \in Nat
    BY StepsAreMethods DEF DInv, IInv, TypeOK
  <2>2. ASSUME NEW b \in issued
        PROVE  /\ b.session \in Sessions /\ b.token \in Nat /\ b.token # None
               /\ b.token < nextToken /\ b.token # nextToken
    <3>1. b.session \in Sessions /\ b.token \in Nat  BY <2>1 DEF IInv, TypeOK, Activation
    <3>2. b.token < nextToken  BY <2>1 DEF IInv, TokensAreFresh
    <3> QED  BY <2>1, <3>1, <3>2, NoneAssumption
  <2>3. ASSUME spent' = spent
        PROVE  row'[a.session].token # a.token
    <3>1. a.token # nextToken  BY <2>1, <2>3 DEF WorkersOK
    <3>2. a \in issued  BY <2>1, <3>1, IssuedMove
    <3>3. row[a.session].token # a.token  BY <2>3, <3>2 DEF Fenced
    <3> QED  BY <2>1, <2>2, <3>2, <3>3, TokensMove
  <2>4. ASSUME NEW w \in Workers, NEW p \in Handled(w, held[w]), Finish(w, p)
        PROVE  row'[a.session].token # a.token
    <3>1. /\ held[w] \in issued /\ Commit(held[w], p) /\ issued' = issued
          /\ spent' = spent \cup {held[w].token}
      BY <2>4, HeldType DEF Finish
    <3>0. p \in Proposals(held[w].events)  BY <2>4 DEF Handled
    <3>2. CASE a.token = held[w].token
      <4>1. a = held[w]  BY <2>1, <3>1, <3>2 DEF IInv, TokensAreFresh
      <4>2. row'[held[w].session].token = None  BY <2>1, <3>0, <3>1, CommitEffect
      <4> QED  BY <2>2, <3>1, <4>1, <4>2
    <3>3. CASE a.token # held[w].token
      <4>1. a \in issued /\ row[a.session].token # a.token  BY <3>1, <3>3 DEF Fenced
      <4> QED  BY <2>1, <2>2, <4>1, TokensMove
    <3> QED  BY <3>2, <3>3
  <2>5. spent' = spent \/ \E w \in Workers : \E p \in Handled(w, held[w]) : Finish(w, p)
    BY DEF DNext, dvars, Work, Crash, Raise, Refuse, GiveBack, Register, PollNothing,
           PollClaims, Producer, Operator, Clock
  <2> QED  BY <2>3, <2>4, <2>5
<1>3. Fenced => SpentIsFenced  BY DEF Fenced, SpentIsFenced, Holds
<1> QED  BY <1>1, <1>2, <1>3, DInvHolds, PTL DEF DSpec
-----------------------------------------------------------------------------
(* Versions. *)

\* Without lease time: the activation of a current token names the definition
\* its session is bound to.
CurrentVersion ==
  \A a \in issued : row[a.session].token = a.token =>
    a.executable = row[a.session].executable

\* A worker has registered what it is past, and all it serves when it polls.
Registered ==
  \A w \in Workers :
    /\ phase[w] = "starting" => \A i \in 1..offset[w] :
         contracts[Serves[w][i]] = Build[w][Serves[w][i]]
    /\ phase[w] \in {"polling", "running", "failing"} => \A d \in Elements(Serves[w]) :
         contracts[d] = Build[w][d]

\* A worker holds activations of its own names only.
HeldByName ==
  \A w \in Workers : phase[w] \in {"running", "failing"} =>
    held[w].executable \in Elements(Names(w))

VInv == CurrentVersion /\ Registered /\ HeldByName

\* Every step of the store keeps activations and sessions of one version.
LEMMA CurrentVersionInv ==
  ASSUME IInv, CurrentVersion, [Next]_vars
  PROVE  CurrentVersion'
<1> SUFFICES ASSUME NEW a \in issued', row'[a.session].token = a.token
             PROVE  a.executable = row'[a.session].executable
  BY DEF CurrentVersion
<1>1. CASE a \in issued
  <2>1. /\ a.session \in Sessions /\ a.token \in Nat /\ a.token # None
        /\ a.token # nextToken
    <3>1. a.session \in Sessions /\ a.token \in Nat /\ nextToken \in Nat
      BY <1>1 DEF IInv, TypeOK, Activation
    <3>2. a.token < nextToken  BY <1>1 DEF IInv, TokensAreFresh
    <3> QED  BY <3>1, <3>2, NoneAssumption
  <2>2. row[a.session].token = a.token  BY <2>1, TokensMove
  <2> QED  BY <1>1, <2>1, <2>2, TokensMove DEF CurrentVersion
<1>2. CASE a \notin issued
  <2>1. \E w \in Workers, scope \in Scopes, s \in Sessions : ClientClaims(w, scope, s)
    BY <1>2, QuietMethods
  <2>2. PICK w \in Workers, scope \in Scopes, s \in Sessions : ClientClaims(w, scope, s)
    BY <2>1
  <2>3. a = ActivationOf(s) /\ a.session = s /\ a.executable = row[s].executable
    BY <1>2, <2>2, ClaimIssues
  <2>4. row'[s].executable = row[s].executable  BY <2>2, ClaimKeepsVersion
  <2> QED  BY <2>3, <2>4
<1> QED  BY <1>1, <1>2

\* register: contracts are bound once and never change, so what a worker has
\* checked stays true.
LEMMA ContractsStay ==
  ASSUME IInv, [Next]_vars, NEW d \in Definitions, contracts[d] # None
  PROVE  contracts'[d] = contracts[d]
<1>1. CASE \E e \in Definitions, c \in Contracts : BindDefinition(e, c)
  BY <1>1 DEF BindDefinition, IInv, TypeOK
<1>2. CASE ~ \E e \in Definitions, c \in Contracts : BindDefinition(e, c)
  BY <1>2 DEF Next, vars, Create, AppendMail, ClientClaims, Claim, ClaimNothing, Release,
              Retry, Commit, Purge, Tick
<1> QED  BY <1>1, <1>2

\* A worker's contract for a definition is a contract.
LEMMA BuildType ==
  ASSUME NEW w \in Workers
  PROVE  /\ \A d \in Definitions : Build[w][d] \in Contracts /\ Build[w][d] # None
         /\ Elements(Serves[w]) \subseteq Definitions
         /\ \A i \in DOMAIN Serves[w] : Serves[w][i] \in Elements(Serves[w])
<1>1. Serves[w] \in Seq(Definitions)  BY NamesType
<1>2. Elements(Serves[w]) \subseteq Definitions  BY <1>1, ElementsType
<1> QED  BY <1>2, ServesAssumption, NoneAssumption DEF Elements

\* register accepts a definition only with the contract of the worker's build.
LEMMA RegisterBinds ==
  ASSUME DInv, NEW w \in Workers, Register(w)
  PROVE  LET d == Serves[w][offset[w] + 1] IN contracts'[d] = Build[w][d]
<1> DEFINE d == Serves[w][offset[w] + 1]
<1>1. d \in Definitions  BY RegisteredName DEF Register, DInv
<1>2. CASE BindDefinition(d, Build[w][d])
  BY <1>1, <1>2 DEF BindDefinition, DInv, IInv, TypeOK
<1>3. CASE contracts[d] = Build[w][d] /\ UNCHANGED vars
  BY <1>3 DEF vars
<1> QED  BY <1>2, <1>3 DEF Register

\* What a worker has registered stays registered.
LEMMA RegisteredInv ==
  ASSUME DInv, Registered, [DNext]_dvars
  PROVE  Registered'
<1>1. IInv /\ [Next]_vars /\ WorkersOK  BY StepsAreMethods DEF DInv
<1> SUFFICES ASSUME NEW w \in Workers
             PROVE  /\ phase'[w] = "starting" => \A i \in 1..offset'[w] :
                          contracts'[Serves[w][i]] = Build[w][Serves[w][i]]
                    /\ phase'[w] \in {"polling", "running", "failing"} =>
                          \A d \in Elements(Serves[w]) : contracts'[d] = Build[w][d]
  BY DEF Registered
<1>2. \A d \in Elements(Serves[w]) : contracts[d] = Build[w][d] => contracts'[d] = Build[w][d]
  BY <1>1, BuildType, ContractsStay
<1>3. phase[w] = "starting" => \A i \in 1..offset[w] : Serves[w][i] \in Elements(Serves[w])
  <2> SUFFICES ASSUME phase[w] = "starting", NEW i \in 1..offset[w]
               PROVE  Serves[w][i] \in Elements(Serves[w])
    OBVIOUS
  <2>1. offset[w] \in Nat /\ offset[w] < Len(Serves[w])  BY <1>1 DEF WorkersOK
  <2>2. Serves[w] \in Seq(Definitions) /\ Len(Serves[w]) \in Nat  BY NamesType
  <2>3. i \in DOMAIN Serves[w]  BY <2>1, <2>2
  <2> QED  BY <2>3, BuildType
<1>4. CASE phase'[w] = phase[w] /\ offset'[w] = offset[w]
  BY <1>2, <1>3, <1>4 DEF Registered
<1>5. CASE phase[w] \in {"polling", "running", "failing"}
           /\ phase'[w] \in {"polling", "running", "failing"}
  BY <1>2, <1>5 DEF Registered
<1>6. CASE phase'[w] = "refused"  BY <1>6
<1>7. CASE phase'[w] = "starting" /\ offset'[w] = 0  BY <1>7
<1>8. CASE Register(w)
  <2> DEFINE o == offset[w]
  <2>1. /\ phase[w] = "starting" /\ o \in Nat /\ o < Len(Serves[w])
        /\ Serves[w] \in Seq(Definitions) /\ Len(Serves[w]) \in Nat
    BY <1>1, <1>8, NamesType DEF Register, WorkersOK
  <2>2. contracts'[Serves[w][o + 1]] = Build[w][Serves[w][o + 1]]  BY <1>8, RegisterBinds
  <2>3. \A i \in 1..o : contracts'[Serves[w][i]] = Build[w][Serves[w][i]]
    BY <1>2, <1>3, <2>1 DEF Registered
  <2>4. \A i \in 1..(o + 1) : contracts'[Serves[w][i]] = Build[w][Serves[w][i]]
    <3> SUFFICES ASSUME NEW i \in 1..(o + 1)
                 PROVE  contracts'[Serves[w][i]] = Build[w][Serves[w][i]]
      OBVIOUS
    <3> HIDE DEF o
    <3>1. i \in 1..o \/ i = o + 1  BY <2>1
    <3> QED  BY <2>2, <2>3, <3>1
  <2>5. CASE o + 1 < Len(Serves[w])
    <3>1. phase'[w] = "starting" /\ offset'[w] = o + 1
      BY <1>1, <1>8, <2>1, <2>5 DEF Register, WorkersOK
    <3> QED  BY <2>4, <3>1
  <2>6. CASE ~(o + 1 < Len(Serves[w]))
    <3>1. phase'[w] = "polling"  BY <1>1, <1>8, <2>6 DEF Register, Returns, WorkersOK
    <3>2. \A d \in Elements(Serves[w]) : contracts'[d] = Build[w][d]
      <4> SUFFICES ASSUME NEW d \in Elements(Serves[w])
                   PROVE  contracts'[d] = Build[w][d]
        OBVIOUS
      <4>1. PICK i \in DOMAIN Serves[w] : d = Serves[w][i]  BY DEF Elements
      <4> HIDE DEF o
      <4>2. i \in 1..(o + 1)  BY <2>1, <2>6
      <4> QED  BY <2>4, <4>1, <4>2
    <3> QED  BY <3>1, <3>2
  <2> QED  BY <2>5, <2>6
<1>9. CASE \E v \in Workers : Work(v)
  <2>1. PICK v \in Workers : Work(v)  BY <1>9
  <2>2. CASE v # w
    <3>1. phase'[w] = phase[w] /\ offset'[w] = offset[w]
      BY <1>1, <2>1, <2>2 DEF Work, Crash, Raise, Refuse, GiveBack, Register, PollNothing,
         PollClaims, Finish, Returns, WorkersOK
    <3> QED  BY <1>4, <3>1
  <2>3. CASE v = w
    <3>1. CASE Crash(w)
      BY <1>1, <1>7, <3>1 DEF Crash, WorkersOK
    <3>2. CASE Raise(w)  BY <1>1, <1>5, <3>2 DEF Raise, WorkersOK
    <3>3. CASE Refuse(w)  BY <1>1, <1>6, <3>3 DEF Refuse, WorkersOK
    <3>4. CASE GiveBack(w)  BY <1>1, <1>5, <3>4 DEF GiveBack, Returns, WorkersOK
    <3>5. CASE PollNothing(w)  BY <1>1, <1>5, <3>5 DEF PollNothing, WorkersOK
    <3>6. CASE \E s \in Sessions : PollClaims(w, s)
      BY <1>1, <1>5, <3>6 DEF PollClaims, WorkersOK
    <3>7. CASE \E p \in Handled(w, held[w]) : Finish(w, p)
      BY <1>1, <1>5, <3>7 DEF Finish, Returns, WorkersOK
    <3> QED  BY <1>8, <2>1, <2>3, <3>1, <3>2, <3>3, <3>4, <3>5, <3>6, <3>7 DEF Work
  <2> QED  BY <2>2, <2>3
<1>10. CASE UNCHANGED workers
  BY <1>4, <1>10 DEF workers
<1> QED
  BY <1>9, <1>10 DEF DNext, Producer, Operator, Clock, dvars, workers

\* A worker is given activations of its names only.
LEMMA HeldByNameInv ==
  ASSUME DInv, HeldByName, [DNext]_dvars
  PROVE  HeldByName'
<1>1. WorkersOK  BY DEF DInv
<1> SUFFICES ASSUME NEW w \in Workers, phase'[w] \in {"running", "failing"}
             PROVE  held'[w].executable \in Elements(Names(w))
  BY DEF HeldByName, Names
<1>2. CASE phase[w] \in {"running", "failing"} /\ held'[w] = held[w]
  BY <1>2 DEF HeldByName
<1>3. CASE \E s \in Sessions : PollClaims(w, s)
  <2>1. PICK s \in Sessions : PollClaims(w, s)  BY <1>3
  <2> DEFINE n == Names(w)[Index(w) + 1]
  <2>2. n \in Definitions /\ n \in Elements(Names(w)) /\ Bound(n) \in Scopes
    BY <1>1, PolledName
  <2>3. ClientClaims(w, Bound(n), s) /\ held'[w] = ActivationOf(s)
    BY <1>1, <2>1 DEF PollClaims, WorkersOK
  <2> HIDE DEF n
  <2>4. ActivationOf(s).executable = row[s].executable /\ s \in Bound(n)
    BY <2>2, <2>3, ClaimIssues
  <2> QED  BY <2>2, <2>3, <2>4 DEF Bound
<1>4. CASE UNCHANGED workers  BY <1>2, <1>4 DEF workers
<1>5. CASE \E v \in Workers : Work(v)
  <2>1. PICK v \in Workers : Work(v)  BY <1>5
  <2>2. CASE v # w
    <3>1. phase'[w] = phase[w] /\ held'[w] = held[w]
      BY <1>1, <2>1, <2>2 DEF Work, Crash, Raise, Refuse, GiveBack, Register, PollNothing,
         PollClaims, Finish, Returns, WorkersOK
    <3> QED  BY <1>2, <3>1
  <2>3. CASE v = w
    <3>1. CASE Crash(w) \/ Refuse(w) \/ Register(w) \/ GiveBack(w) \/ PollNothing(w)
      <4>1. phase'[w] \notin {"running", "failing"}
        BY <1>1, <3>1 DEF Crash, Refuse, Register, GiveBack, PollNothing, Returns, WorkersOK
      <4> QED  BY <4>1
    <3>2. CASE Raise(w)  BY <1>1, <1>2, <3>2 DEF Raise, WorkersOK
    <3>3. CASE \E p \in Handled(w, held[w]) : Finish(w, p)
      <4>1. phase'[w] = "polling" \/ (phase[w] = "running" /\ held'[w] = held[w])
        BY <1>1, <3>3 DEF Finish, Returns, WorkersOK
      <4> QED  BY <1>2, <4>1
    <3> QED  BY <1>3, <2>1, <2>3, <3>1, <3>2, <3>3 DEF Work
  <2> QED  BY <2>2, <2>3
<1> QED
  BY <1>4, <1>5 DEF DNext, Producer, Operator, Clock, dvars, workers

\* A session is stepped only by code of the version it is bound to, in fleets of
\* any builds, through rollouts, migrations and refused versions.
THEOREM VersionsHold == DSpec => []StepsRunTheirVersion
<1>1. DInit => VInv
  <2>1. DInit => CurrentVersion  BY DEF DInit, Init, CurrentVersion
  <2>2. DInit => Registered /\ HeldByName
    BY DEF DInit, Registered, HeldByName
  <2> QED  BY <2>1, <2>2 DEF VInv
<1>2. DInv /\ VInv /\ [DNext]_dvars => VInv'
  <2> SUFFICES ASSUME DInv, VInv, [DNext]_dvars  PROVE VInv'
    OBVIOUS
  <2>1. CurrentVersion'
    BY StepsAreMethods, CurrentVersionInv DEF DInv, VInv
  <2> QED  BY <2>1, RegisteredInv, HeldByNameInv DEF VInv
<1>3. DInv /\ VInv => StepsRunTheirVersion
  <2> SUFFICES ASSUME DInv, VInv, NEW w \in Workers, held[w] # None, Holds(held[w])
               PROVE  LET d == row[held[w].session].executable
                      IN  /\ held[w].executable = d
                          /\ \/ d \in Elements(Serves[w]) /\ contracts[d] = Build[w][d]
                             \/ /\ Migrates(w, d)
                                /\ contracts[Target[w][d]] = Build[w][Target[w][d]]
    BY DEF StepsRunTheirVersion
  <2>1. phase[w] \in {"running", "failing"} /\ held[w] \in issued
    BY DEF DInv, WorkersOK
  <2>2. held[w].executable = row[held[w].session].executable
    BY <2>1 DEF VInv, CurrentVersion, Holds
  <2>3. held[w].executable \in Elements(Serves[w]) \cup Elements(Supersedes[w])
    BY <2>1, NamesType DEF VInv, HeldByName
  <2>4. \A d \in Elements(Serves[w]) : contracts[d] = Build[w][d]
    BY <2>1 DEF VInv, Registered
  <2>5. \A d \in Elements(Supersedes[w]) : Target[w][d] \in Elements(Serves[w])
    BY ServesAssumption
  <2> QED  BY <2>2, <2>3, <2>4, <2>5 DEF Migrates
<1> QED  BY <1>1, <1>2, <1>3, DInvHolds, PTL DEF DSpec
=============================================================================
