------------------------- MODULE LocalSessionsProofs -------------------------
(***************************************************************************)
(* Proofs about LocalSessions for every value of its constants.            *)
(***************************************************************************)
EXTENDS LocalSessions, TLAPS

(* Sequences as inboxes. *)

\* Appending to an inbox adds exactly the appended id to what it accepted.
LEMMA ElementsAppend ==
  ASSUME NEW T, NEW q \in Seq(T), NEW e \in T
  PROVE  /\ Append(q, e) \in Seq(T)
         /\ Elements(Append(q, e)) = Elements(q) \cup {e}
<1> DEFINE p == Append(q, e)
<1>1. /\ p \in Seq(T) /\ DOMAIN p = 1..(Len(q) + 1) /\ DOMAIN q = 1..Len(q)
      /\ Len(q) \in Nat /\ p[Len(q) + 1] = e
      /\ \A i \in 1..Len(q) : p[i] = q[i]
  OBVIOUS
<1>2. ASSUME NEW x \in Elements(p)  PROVE x \in Elements(q) \cup {e}
  BY <1>1, <1>2 DEF Elements
<1>3. ASSUME NEW x \in Elements(q) \cup {e}  PROVE x \in Elements(p)
  BY <1>1, <1>3 DEF Elements
<1> QED  BY <1>1, <1>2, <1>3

\* An inbox accepts only event ids.
LEMMA ElementsType ==
  ASSUME NEW T, NEW q \in Seq(T)
  PROVE  Elements(q) \subseteq T
BY DEF Elements

\* A claim's batch is mail that is accepted and not yet incorporated.
LEMMA BatchIsPending ==
  ASSUME NEW q, NEW done
  PROVE  Batch(q, done) \subseteq Elements(q) \ done
BY DEF Batch, Elements

\* A new id keeps an inbox free of duplicates.
LEMMA AppendKeepsInjective ==
  ASSUME NEW T, NEW q \in Seq(T), NEW e \in T, e \notin Elements(q),
         \A i, j \in DOMAIN q : q[i] = q[j] => i = j
  PROVE  \A i, j \in DOMAIN Append(q, e) :
           Append(q, e)[i] = Append(q, e)[j] => i = j
BY DEF Elements

(* Event ids. *)

\* The timer of every revision a session can have is an event id.
LEMMA TimerType == \A r \in 0..MaxRevision : Timer(r) \in EventId
BY DEF EventId

\* A step's mail has an event id.
LEMMA MailIdType == \A s \in Sessions, k \in Keys : MailId(s, k) \in EventId
BY DEF EventId

\* Timers, and the mail of different senders or keys, never share an id: what
\* makes deduplication by id safe.
LEMMA TimersDiffer ==
  /\ \A r, q \in 0..MaxRevision : Timer(r) = Timer(q) => r = q
  /\ \A r \in 0..MaxRevision : \A s \in Sessions, k \in Keys : Timer(r) # MailId(s, k)
  /\ \A s, t \in Sessions, k, j \in Keys :
       MailId(s, k) = MailId(t, j) => s = t /\ k = j
BY DEF Timer, MailId

-----------------------------------------------------------------------------
(* Type correctness. *)

\* The row of an absent session is a row.
LEMMA NoRowType == NoRow \in Row
BY BoundsAssumption DEF NoRow, NewRow, Row, Status, State, Blank, Delay

\* The row that create inserts is a row.
LEMMA NewRowType == \A d \in Definitions : NewRow(d) \in Row
BY BoundsAssumption DEF NewRow, Row, Status, State, Blank, Delay

\* An empty store is well typed.
LEMMA InitType == Init => TypeOK
BY NoRowType DEF Init, TypeOK

\* bind_definition keeps the columns' types.
LEMMA BindType ==
  ASSUME TypeOK, NEW d \in Definitions, NEW c \in Contracts,
         BindDefinition(d, c), UNCHANGED issued
  PROVE  TypeOK'
BY DEF TypeOK, BindDefinition, rows

\* create keeps the columns' types.
LEMMA CreateType ==
  ASSUME TypeOK, NEW s \in Sessions, NEW d \in Definitions,
         Create(s, d), UNCHANGED issued
  PROVE  TypeOK'
BY NewRowType DEF TypeOK, Create

\* append keeps the columns' types.
LEMMA AppendType ==
  ASSUME TypeOK, NEW s \in Sessions, NEW m \in Mail,
         AppendMail(s, m), UNCHANGED issued
  PROVE  TypeOK'
<1>1. m \in EventId  BY DEF EventId
<1>2. inbox' \in [Sessions -> Seq(EventId)]
  BY <1>1 DEF TypeOK, AppendMail
<1> QED  BY <1>2 DEF TypeOK, AppendMail

\* release keeps the columns' types.
LEMMA ReleaseType ==
  ASSUME TypeOK, NEW a \in issued, NEW after \in Backoffs,
         NEW error \in {a.attempt, None}, Release(a, after, error), UNCHANGED issued
  PROVE  TypeOK'
<1> DEFINE s == a.session
<1> DEFINE r == [row[s] EXCEPT !.status = ParkedStatus(s), !.token = None,
                   !.lease = IF after = 0 THEN None ELSE after, !.worker = None,
                   !.lastError = error]
<1>1. s \in Sessions /\ row[s] \in Row  BY DEF TypeOK, Activation
<1>2. error \in Nat \cup {None} /\ after \in Nat
  BY BoundsAssumption DEF TypeOK, Activation
<1>3. ParkedStatus(s) \in Status  BY DEF ParkedStatus, Status
<1>4. r \in Row  BY <1>1, <1>2, <1>3 DEF Row, Delay
<1>5. row' = [row EXCEPT ![s] = r]  BY DEF Release
<1> QED  BY <1>1, <1>4, <1>5 DEF TypeOK, Release

\* retry keeps the columns' types.
LEMMA RetryType ==
  ASSUME TypeOK, NEW s \in Sessions, Retry(s), UNCHANGED issued
  PROVE  TypeOK'
<1> DEFINE r == [row[s] EXCEPT !.status = ParkedStatus(s), !.attempts = 0,
                              !.lastError = None]
<1>1. row[s] \in Row  BY DEF TypeOK
<1>2. ParkedStatus(s) \in Status  BY DEF ParkedStatus, Status
<1>z. 0 \in 0..MaxAttempts  BY BoundsAssumption
<1>3. r \in Row  BY <1>1, <1>2, <1>z DEF Row
<1>4. row' = [row EXCEPT ![s] = r]  BY DEF Retry
<1> QED  BY <1>3, <1>4 DEF TypeOK, Retry

\* Time keeps the columns' types.
LEMMA TickType ==
  ASSUME TypeOK, Tick, UNCHANGED issued
  PROVE  TypeOK'
<1>1. \A d \in Delay : CountDown(d) \in Delay
  BY NoneAssumption DEF Delay, CountDown
<1>2. ASSUME NEW r \in Row
      PROVE  [r EXCEPT !.lease = CountDown(@), !.deadline = CountDown(@)] \in Row
  BY <1>1 DEF Row
<1>3. row' \in [Sessions -> Row]  BY <1>2 DEF TypeOK, Tick
<1> QED  BY <1>3 DEF TypeOK, Tick

\* purge keeps the columns' types.
LEMMA PurgeType ==
  ASSUME TypeOK, NEW gone \in SUBSET Sessions, Purge(gone), UNCHANGED issued
  PROVE  TypeOK'
BY NoRowType DEF TypeOK, Purge

\* Parking a session as failed keeps its row's type.
LEMMA ParkFailedType == \A r \in Row : ParkFailed(r) \in Row
BY DEF ParkFailed, Row, Status, Delay

\* A claim that finds only exhausted sessions keeps the columns' types.
LEMMA ClaimNothingType ==
  ASSUME TypeOK, NEW scope \in Scopes, ClaimNothing(scope), UNCHANGED issued
  PROVE  TypeOK'
BY ParkFailedType DEF TypeOK, ClaimNothing

\* The inbox after a claim: as it was, or with the due deadline's timer added
\* once.
LEMMA WithTimerType ==
  ASSUME TypeOK, NEW s \in Sessions
  PROVE  /\ WithTimer(s) \in Seq(EventId)
         /\ \/ WithTimer(s) = inbox[s] /\ ~(Due(s) /\ Timer(row[s].revision) \notin Accepted(s))
            \/ /\ Due(s) /\ Timer(row[s].revision) \notin Accepted(s)
               /\ WithTimer(s) = Append(inbox[s], Timer(row[s].revision))
               /\ Elements(WithTimer(s)) = Accepted(s) \cup {Timer(row[s].revision)}
<1>1. Timer(row[s].revision) \in EventId /\ inbox[s] \in Seq(EventId)
  BY TimerType DEF TypeOK, Row
<1>2. CASE Due(s) /\ Timer(row[s].revision) \notin Accepted(s)
  BY <1>1, <1>2, ElementsAppend DEF WithTimer, Accepted
<1>3. CASE ~(Due(s) /\ Timer(row[s].revision) \notin Accepted(s))
  BY <1>1, <1>3 DEF WithTimer
<1> QED  BY <1>2, <1>3

\* What claim returns is a well-typed activation: attempts stay within
\* max_attempts because exhausted rows are parked first.
LEMMA ActivationType ==
  ASSUME TypeOK, NEW s \in Sessions, row[s].attempts < MaxAttempts
  PROVE  ActivationOf(s) \in Activation
<1> DEFINE batch == Batch(WithTimer(s), incorporated[s])
<1>1. batch \subseteq EventId
  BY WithTimerType, BatchIsPending, ElementsType
<1>2. row[s].attempts + 1 \in 1..MaxAttempts
  BY BoundsAssumption DEF TypeOK, Row
<1> HIDE DEF batch
<1> QED  BY <1>1, <1>2 DEF TypeOK, Row, ActivationOf, Activation, batch

\* A claim that returns an activation keeps the columns' types.
LEMMA ClaimType ==
  ASSUME TypeOK, NEW w \in Workers, NEW scope \in Scopes, NEW s \in Sessions,
         ClientClaims(w, scope, s)
  PROVE  TypeOK'
<1>0. row[s] \in Row  BY DEF TypeOK
<1>1. row[s].attempts < MaxAttempts /\ Ready(s)
  <2>1. Ready(s) /\ ~(row[s].attempts >= MaxAttempts)
    BY DEF ClientClaims, Claim, Exhausted
  <2>2. row[s].attempts \in Nat  BY <1>0, BoundsAssumption DEF Row
  <2> QED  BY <2>1, <2>2, BoundsAssumption
<1>2. ActivationOf(s) \in Activation  BY <1>1, ActivationType
<1>3. PICK top \in {row[t].lastClaim : t \in Sessions} :
        row' = [t \in Sessions |->
            CASE t = s ->
                   [row[t] EXCEPT !.status = "active", !.token = nextToken,
                      !.lease = LeaseSeconds, !.worker = w,
                      !.attempts = @ + 1, !.lastClaim = top + 1]
              [] t # s /\ t \in scope /\ Exhausted(t)
                       /\ row[t].lastClaim < row[s].lastClaim -> ParkFailed(row[t])
              [] OTHER -> row[t]]
  BY DEF ClientClaims, Claim
<1>4. top \in Nat  BY DEF TypeOK, Row
<1> DEFINE r == [row[s] EXCEPT !.status = "active", !.token = nextToken,
                   !.lease = LeaseSeconds, !.worker = w,
                   !.attempts = @ + 1, !.lastClaim = top + 1]
<1>5. r \in Row
  <2>1. row[s].attempts + 1 \in 0..MaxAttempts  BY <1>0, <1>1, BoundsAssumption DEF Row
  <2>2. nextToken \in Nat /\ LeaseSeconds \in Delay /\ top + 1 \in Nat
    BY <1>4, BoundsAssumption DEF TypeOK, Delay
  <2>3. "active" \in Status  BY DEF Status
  <2> QED  BY <1>0, <2>1, <2>2, <2>3 DEF Row
<1>6. ASSUME NEW t \in Sessions  PROVE row'[t] \in Row
  BY <1>3, <1>5, ParkFailedType DEF TypeOK
<1>7. row' \in [Sessions -> Row]  BY <1>3, <1>6
<1>8. inbox' \in [Sessions -> Seq(EventId)]
  BY WithTimerType DEF TypeOK, ClientClaims, Claim
<1>9. issued' = issued \cup {ActivationOf(s)}  BY DEF ClientClaims
<1>10. nextToken' \in Nat \ {0}
  <2>1. nextToken \in Nat \ {0} /\ nextToken' = nextToken + 1
    BY DEF TypeOK, ClientClaims, Claim
  <2> QED  BY <2>1
<1>11. UNCHANGED <<incorporated, contracts, purged>>  BY DEF ClientClaims, Claim
<1> QED  BY <1>2, <1>7, <1>8, <1>9, <1>10, <1>11 DEF TypeOK

\* The row a commit writes is a row.
LEMMA CheckpointType ==
  ASSUME TypeOK, NEW a \in issued, NEW p \in Proposals(a.events),
         row[a.session].revision < MaxRevision
  PROVE  Checkpoint(a, p) \in Row
<1> DEFINE s == a.session
<1>1. s \in Sessions /\ row[s] \in Row /\ a.state \in State /\ a.events \subseteq EventId
  BY DEF TypeOK, Activation
<1>2. SentBy(p) \subseteq Sessions \X Keys
  BY DEF SentBy, Proposals
<1>3. [folded |-> a.state.folded \cup p.incorporated,
       sent |-> a.state.sent \cup SentBy(p)] \in State
  BY <1>1, <1>2 DEF State, Proposals
<1>4. p.deadline \in Delay /\ p.rebind \in Definitions \cup {None} /\ p.complete \in BOOLEAN
  BY BoundsAssumption DEF Proposals, Delay
<1>5. row[s].revision + 1 \in 0..MaxRevision
  BY <1>1, BoundsAssumption DEF Row
<1>6. 0 \in 0..MaxAttempts /\ {"complete", "waiting"} \subseteq Status
      /\ None \in Delay
  BY BoundsAssumption DEF Status, Delay
<1> QED
  BY <1>1, <1>3, <1>4, <1>5, <1>6 DEF Checkpoint, Row

\* commit keeps the columns' types.
LEMMA CommitType ==
  ASSUME TypeOK, NEW a \in issued, NEW p \in Proposals(a.events),
         Commit(a, p), UNCHANGED issued
  PROVE  TypeOK'
<1>1. a.session \in Sessions /\ a.events \subseteq EventId  BY DEF TypeOK, Activation
<1>2. Checkpoint(a, p) \in Row  BY CheckpointType DEF Commit
<1>3. \A t \in Sessions : p.spawn[t] \in Definitions \cup {None}
                          /\ p.publish[t] \in Keys \cup {None}
                          /\ p.incorporated \subseteq a.events
  BY DEF Proposals
<1>4. ASSUME NEW t \in Sessions  PROVE row'[t] \in Row
  BY <1>2, <1>3, NewRowType DEF TypeOK, Commit
<1>5. row' \in [Sessions -> Row]  BY <1>4 DEF Commit
<1>6. ASSUME NEW t \in Sessions  PROVE inbox'[t] \in Seq(EventId)
  BY <1>1, <1>3, MailIdType, ElementsAppend DEF TypeOK, Commit, Publishes
<1>7. inbox' \in [Sessions -> Seq(EventId)]  BY <1>6 DEF Commit
<1>8. incorporated' \in [Sessions -> SUBSET EventId]
  BY <1>1, <1>3 DEF TypeOK, Commit
<1> QED  BY <1>5, <1>7, <1>8 DEF TypeOK, Commit

\* Every column keeps its type, and no step is attempted more than max_attempts
\* times, whatever the clients do.
THEOREM TypeCorrect == Spec => []TypeOK
<1>1. TypeOK /\ [Next]_vars => TypeOK'
  <2> SUFFICES ASSUME TypeOK, [Next]_vars  PROVE TypeOK'
    OBVIOUS
  <2>1. CASE UNCHANGED vars  BY <2>1 DEF vars, TypeOK
  <2>2. CASE Next
    BY <2>2, BindType, CreateType, AppendType, ClaimType, ClaimNothingType,
       ReleaseType, RetryType, CommitType, PurgeType, TickType DEF Next
  <2> QED  BY <2>1, <2>2
<1> QED  BY <1>1, InitType, PTL DEF Spec
-----------------------------------------------------------------------------
(* The inductive invariant: what each method does to the rows, and why     *)
(* each conjunct survives it.                                              *)

\* An empty store satisfies the inductive invariant.
LEMMA InitInv == Init => IInv
<1> SUFFICES ASSUME Init  PROVE IInv
  OBVIOUS
<1>1. TypeOK  BY InitType
<1>2. \A s \in Sessions :
        row[s] = NoRow /\ inbox[s] = <<>> /\ incorporated[s] = {} /\ Accepted(s) = {}
  BY DEF Init, Accepted, Elements
<1>3. /\ NoRow.status = "absent" /\ NoRow.token = None /\ NoRow.attempts = 0
      /\ NoRow.state = Blank /\ NoRow.revision = 0
  BY DEF NoRow, NewRow
<1>4. ExactlyOnce /\ AbsentIsEmpty /\ CurrentTimerIsPending
  <2>1. Blank.folded = {}  BY DEF Blank
  <2>2. ExactlyOnce  BY <1>2, <1>3, <2>1 DEF ExactlyOnce
  <2>3. AbsentIsEmpty  BY <1>2 DEF AbsentIsEmpty
  <2>4. CurrentTimerIsPending  BY <1>2 DEF CurrentTimerIsPending
  <2> QED  BY <2>2, <2>3, <2>4
<1>5. CauseKept /\ CompleteIsDrained /\ StatusIsConsistent
  BY <1>2, <1>3 DEF CauseKept, CompleteIsDrained, StatusIsConsistent
<1>6. TimerOncePerCheckpoint  BY <1>2 DEF TimerOncePerCheckpoint
<1>7. TokensAreFresh /\ TokenIsCurrent
  BY <1>2, <1>3 DEF TokensAreFresh, TokenIsCurrent, Init
<1> QED  BY <1>1, <1>4, <1>5, <1>6, <1>7 DEF IInv

\* The inductive invariant speaks of the store's variables only.
LEMMA StutterInv == IInv /\ UNCHANGED vars => IInv'
BY DEF vars, IInv, TypeOK, ExactlyOnce, CauseKept, TimerOncePerCheckpoint,
       CompleteIsDrained, AbsentIsEmpty, TokensAreFresh, StatusIsConsistent,
       TokenIsCurrent, CurrentTimerIsPending, Accepted, Pending, Due, Exists

\* bind_definition keeps the inductive invariant.
LEMMA BindInv ==
  ASSUME IInv, NEW d \in Definitions, NEW c \in Contracts,
         BindDefinition(d, c), UNCHANGED issued
  PROVE  IInv'
<1>1. TypeOK'  BY BindType DEF IInv
<1> QED
  BY <1>1 DEF BindDefinition, rows, IInv, ExactlyOnce, CauseKept,
       TimerOncePerCheckpoint, CompleteIsDrained, AbsentIsEmpty, TokensAreFresh,
       StatusIsConsistent, TokenIsCurrent, CurrentTimerIsPending, Accepted,
       Pending, Due, Exists

\* A step that leaves mail, activations, tokens and checkpoints alone, and only
\* moves sessions between statuses, attempts, leases and time.
MovesOnly ==
  /\ UNCHANGED <<inbox, incorporated, nextToken, issued>>
  /\ \A s \in Sessions :
       /\ row'[s].state = row[s].state /\ row'[s].revision = row[s].revision
       /\ Due(s) => Due(s)'
       /\ \/ row'[s].token = row[s].token /\ row'[s].attempts = row[s].attempts
          \/ row'[s].token = None
       /\ row'[s].attempts > 0 \/ row'[s].status = "failed" =>
            row[s].attempts > 0 \/ row[s].status = "failed"

\* Such a step keeps the conjuncts about mail, tokens and timers.
LEMMA MovesOnlyInv ==
  ASSUME IInv, MovesOnly
  PROVE  /\ ExactlyOnce' /\ CauseKept' /\ TimerOncePerCheckpoint'
         /\ TokensAreFresh' /\ TokenIsCurrent' /\ CurrentTimerIsPending'
<1>1. \A s \in Sessions : Accepted(s)' = Accepted(s) /\ Pending(s)' = Pending(s)
  BY DEF MovesOnly, Accepted, Pending
<1>2. \A a \in issued : a.session \in Sessions /\ a.token # None
  BY NoneAssumption DEF IInv, TypeOK, Activation
<1>3. ExactlyOnce'  BY <1>1 DEF IInv, ExactlyOnce, MovesOnly
<1>4. CauseKept'  BY <1>1 DEF IInv, CauseKept, MovesOnly
<1>5. TimerOncePerCheckpoint'
  BY <1>1 DEF IInv, TimerOncePerCheckpoint, MovesOnly
<1>6. TokensAreFresh'  BY DEF IInv, TokensAreFresh, MovesOnly
<1>7. TokenIsCurrent'  BY <1>1, <1>2 DEF IInv, TokenIsCurrent, MovesOnly
<1>8. CurrentTimerIsPending'  BY DEF IInv, CurrentTimerIsPending, MovesOnly
<1> QED  BY <1>3, <1>4, <1>5, <1>6, <1>7, <1>8

\* create keeps the inductive invariant.
LEMMA CreateInv ==
  ASSUME IInv, NEW s \in Sessions, NEW d \in Definitions,
         Create(s, d), UNCHANGED issued
  PROVE  IInv'
<1>1. TypeOK'  BY CreateType DEF IInv
<1>2. /\ row[s] = NoRow /\ row'[s] = NewRow(d) /\ inbox[s] = <<>>
      /\ \A t \in Sessions : t # s => row'[t] = row[t]
  BY DEF IInv, AbsentIsEmpty, Create, TypeOK
<1>3. /\ NewRow(d).state = Blank /\ NewRow(d).revision = 0 /\ NewRow(d).token = None
      /\ NewRow(d).status = "ready" /\ NewRow(d).attempts = 0 /\ NewRow(d).deadline = None
      /\ NoRow.state = Blank /\ NoRow.revision = 0 /\ NoRow.token = None
      /\ NoRow.attempts = 0 /\ NoRow.deadline = None /\ NoRow.status = "absent"
  BY DEF NewRow, NoRow
<1>4. MovesOnly
  BY <1>2, <1>3, NoneAssumption DEF MovesOnly, Create, Due
<1>5. AbsentIsEmpty' /\ CompleteIsDrained' /\ StatusIsConsistent'
  BY <1>2, <1>3 DEF IInv, AbsentIsEmpty, CompleteIsDrained, StatusIsConsistent,
                    Create, Exists, Accepted, Pending
<1> QED  BY <1>1, <1>4, <1>5, MovesOnlyInv DEF IInv

\* release keeps the inductive invariant: the step's mail stays behind.
LEMMA ReleaseInv ==
  ASSUME IInv, NEW a \in issued, NEW after \in Backoffs,
         NEW error \in {a.attempt, None}, Release(a, after, error), UNCHANGED issued
  PROVE  IInv'
<1>1. TypeOK'  BY ReleaseType DEF IInv
<1> DEFINE s == a.session
<1>2. s \in Sessions /\ row[s] \in Row /\ a.token \in Nat
  BY DEF IInv, TypeOK, Activation
<1>3. /\ row' = [row EXCEPT ![s] =
            [row[s] EXCEPT !.status = ParkedStatus(s), !.token = None,
               !.lease = IF after = 0 THEN None ELSE after, !.worker = None,
               !.lastError = error]]
      /\ row[s].status = "active" /\ row[s].attempts > 0
  BY <1>2, NoneAssumption DEF Release, Holds, IInv, StatusIsConsistent
<1>4. /\ row'[s].status = ParkedStatus(s) /\ row'[s].token = None
      /\ row'[s].state = row[s].state /\ row'[s].revision = row[s].revision
      /\ row'[s].deadline = row[s].deadline /\ row'[s].attempts = row[s].attempts
      /\ \A t \in Sessions : t # s => row'[t] = row[t]
  BY <1>2, <1>3 DEF IInv, TypeOK, Row
<1>5. MovesOnly
  BY <1>3, <1>4 DEF MovesOnly, Release, Due
<1>6. ParkedStatus(s) = IF row[s].revision > 0 THEN "waiting" ELSE "ready"
  BY DEF ParkedStatus
<1>7. row[s].revision \in Nat  BY <1>2, BoundsAssumption DEF Row
<1>8. AbsentIsEmpty' /\ CompleteIsDrained' /\ StatusIsConsistent'
  BY <1>2, <1>4, <1>6, <1>7
     DEF IInv, AbsentIsEmpty, CompleteIsDrained, StatusIsConsistent,
         Release, Exists, Accepted, Pending
<1> QED  BY <1>1, <1>5, <1>8, MovesOnlyInv DEF IInv

\* retry keeps the inductive invariant.
LEMMA RetryInv ==
  ASSUME IInv, NEW s \in Sessions, Retry(s), UNCHANGED issued
  PROVE  IInv'
<1>1. TypeOK'  BY RetryType DEF IInv
<1>2. row[s] \in Row /\ row[s].status = "failed" /\ row[s].token = None
  BY DEF IInv, TypeOK, Retry, StatusIsConsistent
<1>3. /\ row'[s].status = ParkedStatus(s) /\ row'[s].token = None
      /\ row'[s].state = row[s].state /\ row'[s].revision = row[s].revision
      /\ row'[s].deadline = row[s].deadline /\ row'[s].attempts = 0
      /\ \A t \in Sessions : t # s => row'[t] = row[t]
  BY <1>2 DEF IInv, TypeOK, Row, Retry
<1>4. MovesOnly
  BY <1>2, <1>3 DEF MovesOnly, Retry, Due
<1>5. ParkedStatus(s) = IF row[s].revision > 0 THEN "waiting" ELSE "ready"
  BY DEF ParkedStatus
<1>6. row[s].revision \in Nat  BY <1>2, BoundsAssumption DEF Row
<1>7. AbsentIsEmpty' /\ CompleteIsDrained' /\ StatusIsConsistent'
  BY <1>2, <1>3, <1>5, <1>6
     DEF IInv, AbsentIsEmpty, CompleteIsDrained, StatusIsConsistent,
         Retry, Exists, Accepted, Pending
<1> QED  BY <1>1, <1>4, <1>7, MovesOnlyInv DEF IInv

\* Time keeps the inductive invariant: a due deadline stays due.
LEMMA TickInv ==
  ASSUME IInv, Tick, UNCHANGED issued
  PROVE  IInv'
<1>1. TypeOK'  BY TickType DEF IInv
<1>2. CountDown(None) = None /\ CountDown(0) = 0
  BY DEF CountDown
<1>3. \A s \in Sessions :
        /\ row'[s] = [row[s] EXCEPT !.lease = CountDown(@), !.deadline = CountDown(@)]
        /\ row[s] \in Row
  BY DEF Tick, IInv, TypeOK
<1>4. \A s \in Sessions :
        /\ row'[s].status = row[s].status /\ row'[s].token = row[s].token
        /\ row'[s].state = row[s].state /\ row'[s].revision = row[s].revision
        /\ row'[s].attempts = row[s].attempts
        /\ row'[s].deadline = CountDown(row[s].deadline)
        /\ row'[s].lease = CountDown(row[s].lease)
  BY <1>3 DEF Row
<1>5. MovesOnly
  BY <1>2, <1>4 DEF MovesOnly, Tick, Due
<1>6. NoRow.deadline = None /\ NoRow.lease = None /\ NoRow.status = "absent"
  BY DEF NoRow, NewRow
<1>7. AbsentIsEmpty'
  <2> SUFFICES ASSUME NEW s \in Sessions, ~Exists(s)'
               PROVE  (row[s] = NoRow /\ inbox[s] = <<>> /\ incorporated[s] = {})'
    BY DEF AbsentIsEmpty
  <2>1. row[s] = NoRow /\ inbox[s] = <<>> /\ incorporated[s] = {}
    BY <1>4 DEF IInv, AbsentIsEmpty, Exists
  <2>2. row'[s] = [NoRow EXCEPT !.lease = None, !.deadline = None]
    BY <1>2, <1>3, <1>6, <2>1
  <2>3. \A r \in Row : r.lease = None /\ r.deadline = None =>
           [r EXCEPT !.lease = None, !.deadline = None] = r
    BY DEF Row
  <2> QED  BY <1>6, <2>1, <2>2, <2>3, NoRowType DEF Tick
<1>8. StatusIsConsistent'
  BY <1>4 DEF IInv, StatusIsConsistent
<1>9. CompleteIsDrained'
  <2>1. \A s \in Sessions : Pending(s)' = Pending(s)
    BY DEF Tick, Accepted, Pending
  <2> QED  BY <1>2, <1>4, <2>1 DEF IInv, CompleteIsDrained
<1> QED  BY <1>1, <1>5, <1>7, <1>8, <1>9, MovesOnlyInv DEF IInv

\* Parking an exhausted row as failed.
LEMMA ParkFailedEffect ==
  ASSUME TypeOK, NEW t \in Sessions
  PROVE  /\ Exhausted(t) => /\ row[t].attempts > 0
                            /\ row[t].status \notin {"absent", "complete", "failed"}
         /\ LET r == ParkFailed(row[t])
            IN  /\ r.status = "failed" /\ r.token = None /\ r.lease = None
                /\ r.state = row[t].state /\ r.revision = row[t].revision
                /\ r.deadline = row[t].deadline /\ r.attempts = row[t].attempts
<1>1. row[t] \in Row  BY DEF TypeOK
<1>2. Exhausted(t) => row[t].attempts > 0
  <2>1. row[t].attempts \in Nat  BY <1>1, BoundsAssumption DEF Row
  <2> QED  BY <2>1, BoundsAssumption DEF Exhausted
<1>3. Exhausted(t) => row[t].status \notin {"absent", "complete", "failed"}
  BY DEF Exhausted, Ready
<1> QED  BY <1>1, <1>2, <1>3 DEF ParkFailed, Row

\* A claim that finds only exhausted sessions keeps the inductive invariant.
LEMMA ClaimNothingInv ==
  ASSUME IInv, NEW scope \in Scopes, ClaimNothing(scope), UNCHANGED issued
  PROVE  IInv'
<1>1. TypeOK'  BY ClaimNothingType DEF IInv
<1>2. \A t \in Sessions :
        \/ row'[t] = row[t]
        \/ Exhausted(t) /\ row'[t] = ParkFailed(row[t])
  BY DEF ClaimNothing
<1>3. MovesOnly
  BY <1>2, ParkFailedEffect DEF MovesOnly, ClaimNothing, Due, IInv
<1>4. AbsentIsEmpty' /\ CompleteIsDrained' /\ StatusIsConsistent'
  BY <1>2, ParkFailedEffect
     DEF IInv, AbsentIsEmpty, CompleteIsDrained, StatusIsConsistent,
         ClaimNothing, Exists, Accepted, Pending
<1> QED  BY <1>1, <1>3, <1>4, MovesOnlyInv DEF IInv

\* append keeps the inductive invariant: a new id is pending, an old one absorbed.
LEMMA AppendInv ==
  ASSUME IInv, NEW s \in Sessions, NEW m \in Mail,
         AppendMail(s, m), UNCHANGED issued
  PROVE  IInv'
<1>1. TypeOK'  BY AppendType DEF IInv
<1>2. m \in EventId /\ m \notin Accepted(s) /\ inbox[s] \in Seq(EventId)
      /\ \A r \in 0..MaxRevision : Timer(r) # m
  BY MailAssumption DEF EventId, AppendMail, IInv, TypeOK
<1>3. /\ inbox'[s] = Append(inbox[s], m)
      /\ \A t \in Sessions : t # s => inbox'[t] = inbox[t]
      /\ row[s].status \notin {"absent", "complete"}
      /\ UNCHANGED <<row, incorporated, nextToken, issued>>
  BY DEF AppendMail, IInv, TypeOK
<1>4. /\ Accepted(s)' = Accepted(s) \cup {m}
      /\ \A t \in Sessions : t # s => Accepted(t)' = Accepted(t)
  BY <1>2, <1>3, ElementsAppend DEF Accepted
<1>5. \A t \in Sessions : Accepted(t) \subseteq Accepted(t)' /\ Pending(t) \subseteq Pending(t)'
  BY <1>3, <1>4 DEF Pending
<1>6. ExactlyOnce' /\ CauseKept'
  BY <1>3, <1>5 DEF IInv, ExactlyOnce, CauseKept
<1>7. TimerOncePerCheckpoint'
  <2>1. \A i, j \in DOMAIN inbox'[s] : inbox'[s][i] = inbox'[s][j] => i = j
    BY <1>2, <1>3, AppendKeepsInjective DEF IInv, TimerOncePerCheckpoint, Accepted
  <2> QED  BY <1>2, <1>3, <1>4, <2>1 DEF IInv, TimerOncePerCheckpoint, Due
<1>8. CompleteIsDrained' /\ AbsentIsEmpty'
  BY <1>3, <1>4 DEF IInv, CompleteIsDrained, AbsentIsEmpty, Exists, Pending
<1>9. TokensAreFresh' /\ StatusIsConsistent' /\ CurrentTimerIsPending'
  BY <1>3 DEF IInv, TokensAreFresh, StatusIsConsistent, CurrentTimerIsPending
<1>10. TokenIsCurrent'
  BY <1>3, <1>5 DEF IInv, TypeOK, Activation, TokenIsCurrent
<1> QED  BY <1>1, <1>6, <1>7, <1>8, <1>9, <1>10 DEF IInv

\* purge keeps the inductive invariant: only drained sessions go.
LEMMA PurgeInv ==
  ASSUME IInv, NEW gone \in SUBSET Sessions, Purge(gone), UNCHANGED issued
  PROVE  IInv'
<1>1. TypeOK'  BY PurgeType DEF IInv
<1>2. \A s \in gone :
        row'[s] = NoRow /\ inbox'[s] = <<>> /\ incorporated'[s] = {} /\ Accepted(s)' = {}
  BY DEF Purge, Accepted, Elements
<1>3. \A s \in Sessions \ gone :
        row'[s] = row[s] /\ inbox'[s] = inbox[s] /\ incorporated'[s] = incorporated[s]
        /\ Accepted(s)' = Accepted(s) /\ Pending(s)' = Pending(s)
  BY DEF Purge, Accepted, Pending
<1>4. /\ NoRow.status = "absent" /\ NoRow.token = None /\ NoRow.attempts = 0
      /\ NoRow.state = Blank /\ NoRow.revision = 0 /\ Blank.folded = {}
  BY DEF NoRow, NewRow, Blank
<1>5. UNCHANGED <<nextToken, issued>>  BY DEF Purge
<1>6. ExactlyOnce' /\ CauseKept'
  BY <1>2, <1>3, <1>4 DEF IInv, ExactlyOnce, CauseKept
<1>7. TimerOncePerCheckpoint'
  BY <1>2, <1>3 DEF IInv, TimerOncePerCheckpoint, Due
<1>8. CompleteIsDrained' /\ AbsentIsEmpty'
  BY <1>2, <1>3, <1>4 DEF IInv, CompleteIsDrained, AbsentIsEmpty, Exists
<1>9. StatusIsConsistent' /\ CurrentTimerIsPending'
  BY <1>2, <1>3, <1>4 DEF IInv, StatusIsConsistent, CurrentTimerIsPending
<1>10. TokensAreFresh'
  BY <1>2, <1>3, <1>4, <1>5 DEF IInv, TokensAreFresh
<1>11. TokenIsCurrent'
  <2>1. \A a \in issued : a.session \in Sessions /\ a.token # None
    BY NoneAssumption DEF IInv, TypeOK, Activation
  <2> QED  BY <1>2, <1>3, <1>4, <1>5, <2>1 DEF IInv, TokenIsCurrent
<1> QED  BY <1>1, <1>6, <1>7, <1>8, <1>9, <1>10, <1>11 DEF IInv

\* What a claim does to the rows: the claimed one gets a fresh token and one
\* more attempt, the others stay or are parked as failed.
LEMMA ClaimEffect ==
  ASSUME IInv, NEW w \in Workers, NEW scope \in Scopes, NEW s \in Sessions,
         ClientClaims(w, scope, s)
  PROVE  /\ Ready(s) /\ row[s].status \notin {"absent", "complete", "failed"}
         /\ row'[s].status = "active" /\ row'[s].token = nextToken
         /\ row'[s].state = row[s].state /\ row'[s].revision = row[s].revision
         /\ row'[s].deadline = row[s].deadline
         /\ row'[s].attempts = row[s].attempts + 1 /\ row'[s].attempts > 0
         /\ \A t \in Sessions : t # s =>
              \/ row'[t] = row[t]
              \/ Exhausted(t) /\ row'[t] = ParkFailed(row[t])
<1>1. Ready(s) /\ row[s].status \notin {"absent", "complete", "failed"}
  BY DEF ClientClaims, Claim, Ready
<1>2. row[s] \in Row  BY DEF IInv, TypeOK
<1>3. PICK top \in {row[t].lastClaim : t \in Sessions} :
        row' = [t \in Sessions |->
            CASE t = s ->
                   [row[t] EXCEPT !.status = "active", !.token = nextToken,
                      !.lease = LeaseSeconds, !.worker = w,
                      !.attempts = @ + 1, !.lastClaim = top + 1]
              [] t # s /\ t \in scope /\ Exhausted(t)
                       /\ row[t].lastClaim < row[s].lastClaim -> ParkFailed(row[t])
              [] OTHER -> row[t]]
  BY DEF ClientClaims, Claim
<1>4. row'[s] = [row[s] EXCEPT !.status = "active", !.token = nextToken,
                      !.lease = LeaseSeconds, !.worker = w,
                      !.attempts = @ + 1, !.lastClaim = top + 1]
  BY <1>3
<1>5. \A t \in Sessions : t # s =>
              \/ row'[t] = row[t]
              \/ Exhausted(t) /\ row'[t] = ParkFailed(row[t])
  BY <1>3
<1>6. row[s].attempts \in Nat  BY <1>2, BoundsAssumption DEF Row
<1> QED  BY <1>1, <1>2, <1>4, <1>5, <1>6 DEF Row

\* What a claim does to the inboxes: a due deadline becomes one timer.
LEMMA ClaimMailEffect ==
  ASSUME IInv, NEW w \in Workers, NEW scope \in Scopes, NEW s \in Sessions,
         ClientClaims(w, scope, s)
  PROVE  /\ \A t \in Sessions : t # s => inbox'[t] = inbox[t] /\ Accepted(t)' = Accepted(t)
         /\ inbox'[s] = WithTimer(s)
         /\ Accepted(s) \subseteq Accepted(s)'
         /\ \/ inbox'[s] = inbox[s] /\ Accepted(s)' = Accepted(s)
               /\ (Due(s) => Timer(row[s].revision) \in Accepted(s))
            \/ /\ Due(s) /\ Timer(row[s].revision) \notin Accepted(s)
               /\ inbox'[s] = Append(inbox[s], Timer(row[s].revision))
               /\ Accepted(s)' = Accepted(s) \cup {Timer(row[s].revision)}
<1>1. /\ inbox' = [inbox EXCEPT ![s] = WithTimer(s)]
      /\ inbox \in [Sessions -> Seq(EventId)] /\ TypeOK
  BY DEF ClientClaims, Claim, IInv, TypeOK
<1>2. Accepted(s)' = Elements(WithTimer(s))  BY <1>1 DEF Accepted
<1> QED  BY <1>1, <1>2, WithTimerType DEF Accepted

\* A claim keeps the inductive invariant: the new activation's snapshot is the
\* session's own and its token is used by nobody else.
LEMMA ClaimInv ==
  ASSUME IInv, NEW w \in Workers, NEW scope \in Scopes, NEW s \in Sessions,
         ClientClaims(w, scope, s)
  PROVE  IInv'
<1>1. TypeOK'  BY ClaimType DEF IInv
<1>2. /\ incorporated' = incorporated /\ nextToken' = nextToken + 1
      /\ issued' = issued \cup {ActivationOf(s)}
      /\ nextToken \in Nat /\ row[s].revision \in 0..MaxRevision
  BY DEF ClientClaims, Claim, IInv, TypeOK, Row
<1>3. \A t \in Sessions : t # s =>
        /\ row'[t].state = row[t].state /\ row'[t].revision = row[t].revision
        /\ row'[t].deadline = row[t].deadline /\ row'[t].attempts = row[t].attempts
        /\ \/ row'[t] = row[t]
           \/ /\ row'[t].status = "failed" /\ row'[t].token = None
              /\ row[t].attempts > 0
              /\ row[t].status \notin {"absent", "complete", "failed"}
  BY ClaimEffect, ParkFailedEffect DEF IInv
<1>4. \A t \in Sessions : Accepted(t) \subseteq Accepted(t)' /\ Pending(t) \subseteq Pending(t)'
  BY <1>2, ClaimMailEffect DEF Pending
<1>5. ExactlyOnce'
  BY <1>2, <1>3, <1>4, ClaimEffect DEF IInv, ExactlyOnce
<1>6. CurrentTimerIsPending'
  BY <1>2, <1>3, ClaimEffect DEF IInv, CurrentTimerIsPending
<1>7. CauseKept'
  <2>1. row[s].revision # 0 => Pending(s)' # {}
    <3>1. CASE row[s].attempts > 0
      BY <1>4, <3>1 DEF IInv, CauseKept
    <3>2. CASE Due(s)
      <4>1. Timer(row[s].revision) \in Accepted(s)'  BY <3>2, ClaimMailEffect
      <4> QED  BY <1>2, <4>1 DEF IInv, CurrentTimerIsPending, Pending
    <3>3. CASE Pending(s) # {}  BY <1>4, <3>3
    <3>4. CASE row[s].status = "ready"  BY <3>4 DEF IInv, StatusIsConsistent
    <3>5. CASE row[s].status = "active"  BY <3>1, <3>5 DEF IInv, StatusIsConsistent
    <3> QED  BY <3>2, <3>3, <3>4, <3>5, ClaimEffect DEF Ready
  <2> QED  BY <1>3, <1>4, <2>1, ClaimEffect DEF IInv, CauseKept
<1>8. TimerOncePerCheckpoint'
  <2>1. \A i, j \in DOMAIN inbox'[s] : inbox'[s][i] = inbox'[s][j] => i = j
    <3>1. inbox[s] \in Seq(EventId) /\ Timer(row[s].revision) \in EventId
      BY <1>2, TimerType DEF IInv, TypeOK
    <3>2. \A i, j \in DOMAIN inbox[s] : inbox[s][i] = inbox[s][j] => i = j
      BY DEF IInv, TimerOncePerCheckpoint
    <3>3. CASE inbox'[s] = inbox[s]  BY <3>2, <3>3
    <3>4. CASE /\ Timer(row[s].revision) \notin Elements(inbox[s])
               /\ inbox'[s] = Append(inbox[s], Timer(row[s].revision))
      BY <3>1, <3>2, <3>4, AppendKeepsInjective
    <3> QED  BY <3>3, <3>4, ClaimMailEffect DEF Accepted
  <2>2. \A r \in 0..MaxRevision : Timer(r) \in Accepted(s)' =>
          r < row'[s].revision \/ (r = row'[s].revision /\ Due(s)')
    BY <1>2, ClaimMailEffect, ClaimEffect, TimersDiffer
       DEF IInv, TimerOncePerCheckpoint, Due
  <2> QED
    BY <1>3, <2>1, <2>2, ClaimMailEffect DEF IInv, TimerOncePerCheckpoint, Due
<1>9. CompleteIsDrained'
  BY <1>2, <1>3, ClaimMailEffect, ClaimEffect DEF IInv, CompleteIsDrained, Pending
<1>10. AbsentIsEmpty'
  BY <1>2, <1>3, ClaimMailEffect, ClaimEffect DEF IInv, AbsentIsEmpty, Exists
<1>11. StatusIsConsistent'
  <2>1. nextToken # None  BY <1>2, NoneAssumption
  <2> QED  BY <1>3, <2>1, ClaimEffect DEF IInv, StatusIsConsistent
<1>12. ActivationOf(s).token = nextToken /\ ActivationOf(s).session = s
       /\ ActivationOf(s).state = row[s].state
       /\ ActivationOf(s).attempt = row[s].attempts + 1
       /\ ActivationOf(s).events = Batch(WithTimer(s), incorporated[s])
  BY DEF ActivationOf
<1>13. TokensAreFresh'
  <2>1. ASSUME NEW t \in Sessions, row'[t].token # None
        PROVE  row'[t].token < nextToken'
    <3>1. row[t].token # None /\ t # s => row[t].token \in Nat /\ row[t].token < nextToken
      BY DEF IInv, TypeOK, Row, TokensAreFresh
    <3> QED  BY <1>2, <1>3, <2>1, <3>1, ClaimEffect
  <2>2. \A a \in issued : a.token \in Nat /\ a.token < nextToken
    BY DEF IInv, TypeOK, Activation, TokensAreFresh
  <2>3. \A a, b \in issued' : a.token < nextToken' /\ (a.token = b.token => a = b)
    BY <1>2, <1>12, <2>2 DEF IInv, TokensAreFresh
  <2> QED  BY <2>1, <2>3 DEF TokensAreFresh
<1>14. TokenIsCurrent'
  <2> SUFFICES ASSUME NEW a \in issued', row'[a.session].token = a.token
               PROVE  /\ a.state = row'[a.session].state
                      /\ a.events \subseteq Pending(a.session)'
                      /\ a.attempt = row'[a.session].attempts
    BY DEF TokenIsCurrent
  <2>1. CASE a = ActivationOf(s)
    <3>1. Batch(WithTimer(s), incorporated[s]) \subseteq Accepted(s)' \ incorporated[s]
      BY BatchIsPending, ClaimMailEffect DEF Accepted
    <3> QED  BY <1>2, <1>12, <2>1, <3>1, ClaimEffect DEF Pending
  <2>2. CASE a \in issued
    <3>1. a.session \in Sessions /\ a.token # None /\ a.token < nextToken /\ a.token \in Nat
      BY <2>2, NoneAssumption DEF IInv, TypeOK, Activation, TokensAreFresh
    <3>2. a.session # s  BY <1>2, <3>1, ClaimEffect
    <3>3. row'[a.session] = row[a.session]  BY <1>3, <3>1, <3>2
    <3> QED  BY <1>4, <2>2, <3>1, <3>3 DEF IInv, TokenIsCurrent
  <2> QED  BY <1>2, <2>1, <2>2
<1> QED
  BY <1>1, <1>5, <1>6, <1>7, <1>8, <1>9, <1>10, <1>11, <1>13, <1>14 DEF IInv

\* What a commit does to the rows: the token it checked was current, so the
\* checkpoint extends the state it replaces; the other rows stay or are born.
LEMMA CommitEffect ==
  ASSUME IInv, NEW a \in issued, NEW p \in Proposals(a.events), Commit(a, p)
  PROVE  LET s == a.session
         IN  /\ s \in Sessions /\ row[s].status = "active" /\ row[s].token = a.token
             /\ a.state = row[s].state /\ a.events \subseteq Pending(s)
             /\ row'[s].state.folded = row[s].state.folded \cup p.incorporated
             /\ row'[s].state.sent = row[s].state.sent \cup SentBy(p)
             /\ row'[s].status = (IF p.complete THEN "complete" ELSE "waiting")
             /\ row'[s].deadline = p.deadline /\ row'[s].token = None
             /\ row'[s].lease = None /\ row'[s].attempts = 0
             /\ row'[s].revision = row[s].revision + 1
             /\ \A t \in Sessions : t # s =>
                  \/ row'[t] = row[t] /\ p.spawn[t] = None
                  \/ /\ ~Exists(t) /\ p.spawn[t] \in Definitions
                     /\ row'[t] = NewRow(p.spawn[t])
<1> DEFINE s == a.session
<1>1. s \in Sessions /\ row[s] \in Row /\ a.token \in Nat
  BY DEF IInv, TypeOK, Activation
<1>2. row[s].token = a.token /\ row[s].status = "active"
  BY <1>1, NoneAssumption DEF Commit, Holds, IInv, StatusIsConsistent
<1>3. a.state = row[s].state /\ a.events \subseteq Pending(s)
  BY <1>2 DEF IInv, TokenIsCurrent
<1>4. row'[s] = Checkpoint(a, p)
  BY <1>1 DEF Commit
<1>5. /\ Checkpoint(a, p).state = [folded |-> a.state.folded \cup p.incorporated,
                                   sent |-> a.state.sent \cup SentBy(p)]
      /\ Checkpoint(a, p).status = (IF p.complete THEN "complete" ELSE "waiting")
      /\ Checkpoint(a, p).deadline = p.deadline /\ Checkpoint(a, p).token = None
      /\ Checkpoint(a, p).lease = None /\ Checkpoint(a, p).attempts = 0
      /\ Checkpoint(a, p).revision = row[s].revision + 1
  BY <1>1 DEF Checkpoint, Row
<1>6. ASSUME NEW t \in Sessions, t # s
      PROVE  \/ row'[t] = row[t] /\ p.spawn[t] = None
             \/ /\ ~Exists(t) /\ p.spawn[t] \in Definitions
                /\ row'[t] = NewRow(p.spawn[t])
  <2>1. p.spawn[t] \in Definitions \cup {None}  BY DEF Proposals
  <2>2. p.spawn[t] # None => ~Exists(t)  BY DEF Commit, ValidProposal
  <2> QED  BY <1>6, <2>1, <2>2 DEF Commit
<1> QED  BY <1>1, <1>2, <1>3, <1>4, <1>5, <1>6

\* What a commit does to the inboxes: at most one new id in each.
LEMMA CommitMailEffect ==
  ASSUME IInv, NEW a \in issued, NEW p \in Proposals(a.events), Commit(a, p)
  PROVE  \A t \in Sessions :
           /\ Accepted(t) \subseteq Accepted(t)'
           /\ \/ /\ ~Publishes(a.session, p, t)
                 /\ inbox'[t] = inbox[t] /\ Accepted(t)' = Accepted(t)
              \/ /\ Publishes(a.session, p, t)
                 /\ row[t].status # "complete"
                 /\ p.publish[t] \in Keys
                 /\ inbox[t] \in Seq(EventId)
                 /\ MailId(a.session, p.publish[t]) \in EventId \ Accepted(t)
                 /\ inbox'[t] = Append(inbox[t], MailId(a.session, p.publish[t]))
                 /\ Accepted(t)' = Accepted(t) \cup {MailId(a.session, p.publish[t])}
<1> SUFFICES ASSUME NEW t \in Sessions
             PROVE  /\ Accepted(t) \subseteq Accepted(t)'
                    /\ \/ /\ ~Publishes(a.session, p, t)
                          /\ inbox'[t] = inbox[t] /\ Accepted(t)' = Accepted(t)
                       \/ /\ Publishes(a.session, p, t)
                          /\ row[t].status # "complete"
                          /\ p.publish[t] \in Keys
                          /\ inbox[t] \in Seq(EventId)
                          /\ MailId(a.session, p.publish[t]) \in EventId \ Accepted(t)
                          /\ inbox'[t] = Append(inbox[t], MailId(a.session, p.publish[t]))
                          /\ Accepted(t)' = Accepted(t) \cup {MailId(a.session, p.publish[t])}
  OBVIOUS
<1>1. a.session \in Sessions /\ inbox[t] \in Seq(EventId)
  BY DEF IInv, TypeOK, Activation
<1>2. CASE ~Publishes(a.session, p, t)
  BY <1>2 DEF Commit, Accepted
<1>3. CASE Publishes(a.session, p, t)
  <2>1. p.publish[t] \in Keys  BY <1>3 DEF Publishes, Proposals
  <2>2. MailId(a.session, p.publish[t]) \in EventId \ Accepted(t)
    BY <1>1, <1>3, <2>1, MailIdType DEF Publishes
  <2>3. inbox'[t] = Append(inbox[t], MailId(a.session, p.publish[t]))
        /\ row[t].status # "complete"
    BY <1>3 DEF Commit, ValidProposal
  <2> QED  BY <1>1, <1>3, <2>1, <2>2, <2>3, ElementsAppend DEF Accepted
<1> QED  BY <1>2, <1>3

\* commit keeps the inductive invariant.
LEMMA CommitInv ==
  ASSUME IInv, NEW a \in issued, NEW p \in Proposals(a.events),
         Commit(a, p), UNCHANGED issued
  PROVE  IInv'
<1> DEFINE s == a.session
<1>1. TypeOK'  BY CommitType DEF IInv
<1>2. /\ s \in Sessions /\ nextToken' = nextToken /\ issued' = issued
      /\ incorporated'[s] = incorporated[s] \cup p.incorporated
      /\ \A t \in Sessions : t # s => incorporated'[t] = incorporated[t]
      /\ p.incorporated \subseteq a.events /\ row[s].revision \in 0..MaxRevision
  BY DEF Commit, IInv, TypeOK, Activation, Proposals, Row
<1>3. \A d \in Definitions :
        /\ NewRow(d).status = "ready" /\ NewRow(d).token = None
        /\ NewRow(d).state.folded = {} /\ NewRow(d).revision = 0
        /\ NewRow(d).attempts = 0 /\ NewRow(d).deadline = None
  BY DEF NewRow, Blank
<1>4. \A t \in Sessions : ~Exists(t) =>
        /\ inbox[t] = <<>> /\ incorporated[t] = {} /\ Accepted(t) = {}
        /\ row[t].token = None /\ row[t].status = "absent"
  BY DEF IInv, AbsentIsEmpty, NoRow, NewRow, Accepted, Elements
<1>5. ExactlyOnce'
  <2> SUFFICES ASSUME NEW t \in Sessions
               PROVE  /\ row'[t].state.folded = incorporated'[t]
                      /\ incorporated'[t] \subseteq Accepted(t)'
    BY DEF ExactlyOnce
  <2>1. row[t].state.folded = incorporated[t] /\ incorporated[t] \subseteq Accepted(t)
    BY DEF IInv, ExactlyOnce
  <2>2. Accepted(t) \subseteq Accepted(t)'  BY CommitMailEffect
  <2>3. CASE t = s
    BY <1>2, <2>1, <2>2, <2>3, CommitEffect DEF Pending
  <2>4. CASE t # s /\ row'[t] = row[t]
    BY <1>2, <2>1, <2>2, <2>4
  <2>5. CASE t # s /\ ~Exists(t) /\ p.spawn[t] \in Definitions
             /\ row'[t] = NewRow(p.spawn[t])
    BY <1>2, <1>3, <1>4, <2>5
  <2> QED  BY <2>3, <2>4, <2>5, CommitEffect
<1>6. CurrentTimerIsPending'
  <2>1. Timer(row'[s].revision) \notin incorporated'[s]
    <3>1. row[s].revision + 1 \in 0..MaxRevision
      BY <1>2, BoundsAssumption DEF Commit
    <3>2. Timer(row[s].revision + 1) \notin Accepted(s)
      BY <1>2, <3>1 DEF IInv, TimerOncePerCheckpoint
    <3> QED  BY <1>2, <3>2, CommitEffect DEF IInv, ExactlyOnce, Pending
  <2> QED  BY <1>2, <1>3, <1>4, <2>1, CommitEffect DEF IInv, CurrentTimerIsPending
<1>7. CauseKept'
  <2> SUFFICES ASSUME NEW t \in Sessions, row'[t].attempts > 0 \/ row'[t].status = "failed"
               PROVE  row'[t].revision = 0 \/ Pending(t)' # {}
    BY DEF CauseKept
  <2>1. t # s /\ row'[t] = row[t]
    BY <1>2, <1>3, CommitEffect
  <2>2. Pending(t) \subseteq Pending(t)'  BY <1>2, <2>1, CommitMailEffect DEF Pending
  <2> QED  BY <2>1, <2>2 DEF IInv, CauseKept
<1>8. TimerOncePerCheckpoint'
  <2>1. ASSUME NEW t \in Sessions
        PROVE  \A i, j \in DOMAIN inbox'[t] : inbox'[t][i] = inbox'[t][j] => i = j
    <3>1. \A i, j \in DOMAIN inbox[t] : inbox[t][i] = inbox[t][j] => i = j
      BY DEF IInv, TimerOncePerCheckpoint
    <3> DEFINE m == MailId(s, p.publish[t])
    <3>2. CASE inbox'[t] = inbox[t]  BY <3>1, <3>2
    <3>3. CASE /\ inbox[t] \in Seq(EventId) /\ m \in EventId /\ m \notin Elements(inbox[t])
               /\ inbox'[t] = Append(inbox[t], m)
      <4> HIDE DEF m
      <4> QED  BY <3>1, <3>3, AppendKeepsInjective
    <3> QED  BY <3>2, <3>3, CommitMailEffect DEF Accepted
  <2>2. ASSUME NEW t \in Sessions, NEW r \in 0..MaxRevision, Timer(r) \in Accepted(t)'
        PROVE  r < row'[t].revision \/ (r = row'[t].revision /\ Due(t)')
    <3>1. Timer(r) \in Accepted(t)
      BY <1>2, <2>2, CommitMailEffect, TimersDiffer
    <3>2. r < row[t].revision \/ (r = row[t].revision /\ Due(t))
      BY <3>1 DEF IInv, TimerOncePerCheckpoint
    <3> QED  BY <1>2, <1>4, <3>1, <3>2, CommitEffect DEF Due
  <2> QED  BY <2>1, <2>2 DEF TimerOncePerCheckpoint
<1>9. CompleteIsDrained'
  <2> SUFFICES ASSUME NEW t \in Sessions, row'[t].status = "complete"
               PROVE  Pending(t)' = {} /\ row'[t].token = None
                      /\ row'[t].lease = None /\ row'[t].deadline = None
    BY DEF CompleteIsDrained
  <2>1. CASE t = s
    <3>1. p.complete  BY <2>1, CommitEffect
    <3>2. p.deadline = None /\ Pending(s) \subseteq p.incorporated
          /\ ~Publishes(s, p, s)
      BY <3>1 DEF Commit, ValidProposal
    <3> QED  BY <1>2, <2>1, <3>2, CommitEffect, CommitMailEffect DEF Pending
  <2>2. CASE t # s
    <3>1. row'[t] = row[t]  BY <1>3, <2>2, CommitEffect
    <3>2. Accepted(t)' = Accepted(t)  BY <3>1, CommitMailEffect
    <3> QED  BY <1>2, <2>2, <3>1, <3>2 DEF IInv, CompleteIsDrained, Pending
  <2> QED  BY <2>1, <2>2
<1>10. AbsentIsEmpty'
  <2> SUFFICES ASSUME NEW t \in Sessions, ~Exists(t)'
               PROVE  row'[t] = NoRow /\ inbox'[t] = <<>> /\ incorporated'[t] = {}
    BY DEF AbsentIsEmpty
  <2>1. t # s /\ row'[t] = row[t] /\ p.spawn[t] = None
    BY <1>2, <1>3, CommitEffect DEF Exists
  <2>2. ~Publishes(s, p, t)
    BY <2>1 DEF Commit, ValidProposal, Publishes, Exists
  <2> QED  BY <1>2, <2>1, <2>2, CommitMailEffect DEF IInv, AbsentIsEmpty, Exists
<1>11. StatusIsConsistent'
  BY <1>2, <1>3, CommitEffect DEF IInv, StatusIsConsistent
<1>12. TokensAreFresh'
  BY <1>2, <1>3, CommitEffect DEF IInv, TokensAreFresh
<1>13. TokenIsCurrent'
  <2> SUFFICES ASSUME NEW b \in issued, row'[b.session].token = b.token
               PROVE  /\ b.state = row'[b.session].state
                      /\ b.events \subseteq Pending(b.session)'
                      /\ b.attempt = row'[b.session].attempts
    BY <1>2 DEF TokenIsCurrent
  <2>1. b.session \in Sessions /\ b.token # None
    BY NoneAssumption DEF IInv, TypeOK, Activation
  <2>2. b.session # s /\ row'[b.session] = row[b.session]
    BY <1>2, <1>3, <2>1, CommitEffect
  <2>3. Pending(b.session) \subseteq Pending(b.session)'
    BY <1>2, <2>1, <2>2, CommitMailEffect DEF Pending
  <2> QED  BY <2>1, <2>2, <2>3 DEF IInv, TokenIsCurrent
<1> QED
  BY <1>1, <1>5, <1>6, <1>7, <1>8, <1>9, <1>10, <1>11, <1>12, <1>13 DEF IInv

\* Every method of the store keeps the inductive invariant.
LEMMA NextInv ==
  ASSUME IInv, [Next]_vars
  PROVE  IInv'
<1>1. CASE UNCHANGED vars  BY <1>1, StutterInv
<1>2. CASE Next
  BY <1>2, BindInv, CreateInv, AppendInv, ClaimInv, ClaimNothingInv,
     ReleaseInv, RetryInv, CommitInv, PurgeInv, TickInv DEF Next
<1> QED  BY <1>1, <1>2

\* The inductive invariant holds in every behaviour of the store.
THEOREM Inductive == Spec => []IInv
<1>1. IInv /\ [Next]_vars => IInv'  BY NextInv
<1> QED  BY <1>1, InitInv, PTL DEF Spec

\* Every accepted event is folded into its session's checkpoint at most once,
\* and what the inbox marks as incorporated is what the checkpoint contains.
THEOREM ExactlyOnceHolds == Spec => []ExactlyOnce
<1>1. IInv => ExactlyOnce  BY DEF IInv
<1> QED  BY <1>1, Inductive, PTL

\* A claimed and not checkpointed step always keeps the mail that makes its
\* session ready again.
THEOREM NothingStranded == Spec => []CauseKept
<1>1. IInv => CauseKept  BY DEF IInv
<1> QED  BY <1>1, Inductive, PTL

\* A deadline becomes one mail per checkpoint, however often the step is retried.
THEOREM TimersOnce == Spec => []TimerOncePerCheckpoint
<1>1. IInv => TimerOncePerCheckpoint  BY DEF IInv
<1> QED  BY <1>1, Inductive, PTL

\* commit(complete=True) leaves no mail, lease or deadline behind.
THEOREM CompletionDrains == Spec => []CompleteIsDrained
<1>1. IInv => CompleteIsDrained  BY DEF IInv
<1> QED  BY <1>1, Inductive, PTL

\* _holder admits only the activation of the current attempt, with the current
\* checkpoint, and never two of them.
THEOREM Fencing == Spec => []HolderIsCurrent
<1>1. IInv => HolderIsCurrent
  <2> SUFFICES ASSUME IInv, NEW a \in issued, Holds(a)
               PROVE  /\ row[a.session].status = "active"
                      /\ a.state = row[a.session].state
                      /\ a.events \subseteq Pending(a.session)
                      /\ a.attempt = row[a.session].attempts
                      /\ \A b \in issued : Holds(b) /\ b.session = a.session => b = a
    BY DEF HolderIsCurrent
  <2>1. a.session \in Sessions /\ a.token # None /\ row[a.session].token = a.token
    BY NoneAssumption DEF IInv, TypeOK, Activation, Holds
  <2>2. row[a.session].status = "active"
    BY <2>1 DEF IInv, StatusIsConsistent
  <2>3. \A b \in issued : Holds(b) /\ b.session = a.session => b = a
    BY <2>1 DEF IInv, TokensAreFresh, Holds
  <2> QED  BY <2>1, <2>2, <2>3 DEF IInv, TokenIsCurrent
<1> QED  BY <1>1, Inductive, PTL

-----------------------------------------------------------------------------
(* Action properties and refinement: what one step does, seen through the  *)
(* inductive invariant.                                                    *)

\* Methods other than commit, purge and create leave every checkpoint alone
\* and only add mail, to sessions that can take it.
LEMMA IntakeEffect ==
  ASSUME IInv,
         \/ \E s \in Sessions, m \in Mail : AppendMail(s, m) /\ UNCHANGED issued
         \/ \E w \in Workers, scope \in Scopes, s \in Sessions : ClientClaims(w, scope, s)
         \/ \E scope \in Scopes : ClaimNothing(scope) /\ UNCHANGED issued
         \/ \E a \in issued, after \in Backoffs : \E error \in {a.attempt, None} :
              Release(a, after, error) /\ UNCHANGED issued
         \/ Tick /\ UNCHANGED issued
         \/ \E d \in Definitions, c \in Contracts : BindDefinition(d, c) /\ UNCHANGED issued
  PROVE  \A t \in Sessions :
           /\ Folded(t)' = Folded(t)
           /\ Pending(t) \subseteq Pending(t)'
           /\ Pending(t)' # Pending(t) => Life(t) \in {"open", "failed"}
           /\ (Pending(t)' \ Pending(t)) \cap Folded(t) = {}
           /\ Life(t)' = Life(t) \/ (Life(t) = "open" /\ Life(t)' = "failed")
<1>1. ASSUME NEW s \in Sessions, NEW m \in Mail, AppendMail(s, m)
      PROVE  \A t \in Sessions :
               /\ row'[t] = row[t] /\ incorporated'[t] = incorporated[t]
               /\ Accepted(t) \subseteq Accepted(t)'
               /\ Accepted(t)' # Accepted(t) => row[t].status \notin {"absent", "complete"}
  <2>1. m \in EventId /\ inbox[s] \in Seq(EventId)  BY DEF EventId, IInv, TypeOK
  <2> QED  BY <1>1, <2>1, ElementsAppend DEF AppendMail, Accepted, IInv, TypeOK
<1>2. ASSUME NEW w \in Workers, NEW scope \in Scopes, NEW s \in Sessions,
             ClientClaims(w, scope, s)
      PROVE  \A t \in Sessions :
               /\ row'[t].state = row[t].state /\ incorporated'[t] = incorporated[t]
               /\ Accepted(t) \subseteq Accepted(t)'
               /\ Accepted(t)' # Accepted(t) => row[t].status \notin {"absent", "complete"}
               /\ Life(t)' = Life(t) \/ (Life(t) = "open" /\ Life(t)' = "failed")
  <2>1. incorporated' = incorporated  BY <1>2 DEF ClientClaims, Claim
  <2>2. \A t \in Sessions : t # s =>
          /\ row'[t].state = row[t].state
          /\ Life(t)' = Life(t) \/ (Life(t) = "open" /\ Life(t)' = "failed")
    BY <1>2, ClaimEffect, ParkFailedEffect DEF IInv, Life
  <2>3. Life(s)' = Life(s)  BY <1>2, ClaimEffect DEF Life
  <2> QED  BY <1>2, <2>1, <2>2, <2>3, ClaimEffect, ClaimMailEffect
<1>3. ASSUME UNCHANGED <<inbox, incorporated>>,
             \A t \in Sessions : /\ row'[t].state = row[t].state
                                 /\ \/ Life(t)' = Life(t)
                                    \/ (Life(t) = "open" /\ Life(t)' = "failed")
      PROVE  \A t \in Sessions :
               /\ Folded(t)' = Folded(t) /\ Pending(t)' = Pending(t)
               /\ Life(t)' = Life(t) \/ (Life(t) = "open" /\ Life(t)' = "failed")
  BY <1>3 DEF Folded, Pending, Accepted
<1>4. ASSUME NEW scope \in Scopes, ClaimNothing(scope)
      PROVE  \A t \in Sessions : /\ row'[t].state = row[t].state
                                 /\ \/ Life(t)' = Life(t)
                                    \/ (Life(t) = "open" /\ Life(t)' = "failed")
  BY <1>4, ParkFailedEffect DEF ClaimNothing, IInv, Life
<1>5. ASSUME NEW a \in issued, NEW after \in Backoffs, NEW error \in {a.attempt, None},
             Release(a, after, error)
      PROVE  \A t \in Sessions : row'[t].state = row[t].state /\ Life(t)' = Life(t)
  <2>1. a.session \in Sessions /\ row[a.session].token = a.token /\ a.token # None
    BY <1>5, NoneAssumption DEF Release, Holds, IInv, TypeOK, Activation
  <2>2. row[a.session].status = "active"  BY <2>1 DEF IInv, StatusIsConsistent
  <2>3. row[a.session] \in Row  BY <2>1 DEF IInv, TypeOK
  <2>4. row'[a.session].state = row[a.session].state
        /\ row'[a.session].status = ParkedStatus(a.session)
        /\ \A t \in Sessions : t # a.session => row'[t] = row[t]
    BY <1>5, <2>1, <2>3 DEF Release, IInv, TypeOK, Row
  <2> QED  BY <2>1, <2>2, <2>4 DEF Life, ParkedStatus
<1>6. ASSUME Tick
      PROVE  \A t \in Sessions : row'[t].state = row[t].state /\ Life(t)' = Life(t)
  BY <1>6 DEF Tick, IInv, TypeOK, Row, Life
<1>7. ASSUME NEW d \in Definitions, NEW c \in Contracts, BindDefinition(d, c)
      PROVE  \A t \in Sessions : row'[t].state = row[t].state /\ Life(t)' = Life(t)
  BY <1>7 DEF BindDefinition, rows, Life
<1>8. \A t \in Sessions : Folded(t) = incorporated[t] /\ incorporated[t] \subseteq Accepted(t)
  BY DEF IInv, ExactlyOnce, Folded
<1>9. ASSUME \A t \in Sessions :
               /\ row'[t].state = row[t].state /\ incorporated'[t] = incorporated[t]
               /\ Accepted(t) \subseteq Accepted(t)'
               /\ Accepted(t)' # Accepted(t) => row[t].status \notin {"absent", "complete"}
               /\ Life(t)' = Life(t) \/ (Life(t) = "open" /\ Life(t)' = "failed")
      PROVE  \A t \in Sessions :
               /\ Folded(t)' = Folded(t)
               /\ Pending(t) \subseteq Pending(t)'
               /\ Pending(t)' # Pending(t) => Life(t) \in {"open", "failed"}
               /\ (Pending(t)' \ Pending(t)) \cap Folded(t) = {}
               /\ Life(t)' = Life(t) \/ (Life(t) = "open" /\ Life(t)' = "failed")
  BY <1>8, <1>9 DEF Folded, Pending, Life
<1>10. CASE \E s \in Sessions, m \in Mail : AppendMail(s, m) /\ UNCHANGED issued
  <2>1. \A t \in Sessions : row'[t] = row[t] => Life(t)' = Life(t)  BY DEF Life
  <2> QED  BY <1>1, <1>9, <1>10, <2>1
<1>11. CASE \E w \in Workers, scope \in Scopes, s \in Sessions : ClientClaims(w, scope, s)
  BY <1>2, <1>9, <1>11
<1>12. CASE \E scope \in Scopes : ClaimNothing(scope) /\ UNCHANGED issued
  BY <1>3, <1>4, <1>12 DEF ClaimNothing
<1>13. CASE \E a \in issued, after \in Backoffs : \E error \in {a.attempt, None} :
              Release(a, after, error) /\ UNCHANGED issued
  BY <1>3, <1>5, <1>13 DEF Release
<1>14. CASE Tick /\ UNCHANGED issued
  BY <1>3, <1>6, <1>14 DEF Tick
<1>15. CASE \E d \in Definitions, c \in Contracts : BindDefinition(d, c) /\ UNCHANGED issued
  BY <1>3, <1>7, <1>15 DEF BindDefinition, rows
<1> QED  BY <1>10, <1>11, <1>12, <1>13, <1>14, <1>15

\* Creating and retrying: one session's life moves, no mail and no checkpoint.
LEMMA LifeOnlyEffect ==
  ASSUME IInv, NEW s \in Sessions,
         \/ \E d \in Definitions : Create(s, d)
         \/ Retry(s)
  PROVE  /\ \A t \in Sessions : Folded(t)' = Folded(t) /\ Pending(t)' = Pending(t)
         /\ \A t \in Sessions : t # s => Life(t)' = Life(t)
         /\ Life(s) \in {"absent", "failed"} /\ Life(s)' = "open"
<1>1. CASE \E d \in Definitions : Create(s, d)
  <2>1. PICK d \in Definitions : Create(s, d)  BY <1>1
  <2>2. row[s] = NoRow /\ row'[s] = NewRow(d) /\ \A t \in Sessions : t # s => row'[t] = row[t]
    BY <2>1 DEF Create, IInv, TypeOK, AbsentIsEmpty
  <2>3. NoRow.state = Blank /\ NewRow(d).state = Blank /\ NoRow.status = "absent"
        /\ NewRow(d).status = "ready"
    BY DEF NoRow, NewRow
  <2>4. \A t \in Sessions : Pending(t)' = Pending(t)  BY <2>1 DEF Create, Pending, Accepted
  <2> QED  BY <2>2, <2>3, <2>4 DEF Life, Folded
<1>2. CASE Retry(s)
  <2>1. row[s] \in Row  BY DEF IInv, TypeOK
  <2>2. /\ row'[s].state = row[s].state /\ row'[s].status = ParkedStatus(s)
        /\ row[s].status = "failed" /\ \A t \in Sessions : t # s => row'[t] = row[t]
    BY <1>2, <2>1 DEF Retry, IInv, TypeOK, Row
  <2>3. \A t \in Sessions : Pending(t)' = Pending(t)  BY <1>2 DEF Retry, Pending, Accepted
  <2> QED  BY <2>2, <2>3 DEF Life, Folded, ParkedStatus
<1> QED  BY <1>1, <1>2

\* A checkpoint: the committing session folds unread mail in; the others are
\* left alone but for mail, or are born.
LEMMA CommitView ==
  ASSUME IInv, NEW a \in issued, NEW p \in Proposals(a.events), Commit(a, p)
  PROVE  LET s == a.session
         IN  /\ s \in Sessions /\ Life(s) = "open" /\ Life(s)' \in {"open", "complete"}
             /\ Life(s)' = "complete" => Pending(s)' = {}
             /\ Folded(s) \subseteq Folded(s)'
             /\ Folded(s)' \ Folded(s) \subseteq Pending(s)
             /\ Pending(s) \ Folded(s)' \subseteq Pending(s)'
             /\ Pending(s)' \cap Folded(s)' = {}
             /\ \A t \in Sessions \ {s} :
                  /\ Pending(t) \subseteq Pending(t)'
                  /\ \/ Life(t) = "absent" /\ Life(t)' = "open" /\ Folded(t)' = {}
                     \/ /\ Life(t)' = Life(t) /\ Folded(t)' = Folded(t)
                        /\ Pending(t)' # Pending(t) => Life(t) \in {"open", "failed"}
                        /\ (Pending(t)' \ Pending(t)) \cap Folded(t) = {}
<1> DEFINE s == a.session
<1>1. /\ s \in Sessions
      /\ incorporated'[s] = incorporated[s] \cup p.incorporated
      /\ \A t \in Sessions : t # s => incorporated'[t] = incorporated[t]
      /\ p.incorporated \subseteq a.events
  BY DEF Commit, IInv, TypeOK, Activation, Proposals
<1>2. \A t \in Sessions : Folded(t) = incorporated[t] /\ incorporated[t] \subseteq Accepted(t)
  BY DEF IInv, ExactlyOnce, Folded
<1>3. Folded(s)' = Folded(s) \cup p.incorporated  BY CommitEffect DEF Folded
<1>4. Life(s) = "open" /\ Life(s)' \in {"open", "complete"}
  BY CommitEffect DEF Life
<1>5. Life(s)' = "complete" => Pending(s)' = {}
  <2>1. Life(s)' = "complete" => p.complete  BY CommitEffect DEF Life
  <2>2. p.complete => Pending(s) \subseteq p.incorporated /\ ~Publishes(s, p, s)
    BY DEF Commit, ValidProposal
  <2> QED  BY <1>1, <2>1, <2>2, CommitMailEffect DEF Pending
<1>6. Pending(s) \ Folded(s)' \subseteq Pending(s)' /\ Pending(s)' \cap Folded(s)' = {}
  BY <1>1, <1>2, <1>3, CommitMailEffect DEF Pending
<1>7. Folded(s)' \ Folded(s) \subseteq Pending(s)
  BY <1>1, <1>3, CommitEffect
<1>8. ASSUME NEW t \in Sessions \ {s}
      PROVE  /\ Pending(t) \subseteq Pending(t)'
             /\ \/ Life(t) = "absent" /\ Life(t)' = "open" /\ Folded(t)' = {}
                \/ /\ Life(t)' = Life(t) /\ Folded(t)' = Folded(t)
                   /\ Pending(t)' # Pending(t) => Life(t) \in {"open", "failed"}
                   /\ (Pending(t)' \ Pending(t)) \cap Folded(t) = {}
  <2>1. Pending(t) \subseteq Pending(t)'  BY <1>1, CommitMailEffect DEF Pending
  <2>2. CASE /\ ~Exists(t) /\ p.spawn[t] \in Definitions
             /\ row'[t] = NewRow(p.spawn[t])
    <3>1. NewRow(p.spawn[t]).status = "ready" /\ NewRow(p.spawn[t]).state = Blank
          /\ Blank.folded = {}
      BY DEF NewRow, Blank
    <3> QED  BY <2>1, <2>2, <3>1 DEF Life, Folded, Exists
  <2>3. CASE row'[t] = row[t] /\ p.spawn[t] = None
    <3>1. Publishes(s, p, t) => row[t].status \notin {"absent", "complete"}
      BY <2>3 DEF Commit, ValidProposal, Publishes, Exists
    <3>2. Pending(t)' # Pending(t) => Life(t) \in {"open", "failed"}
      BY <1>1, <3>1, CommitMailEffect DEF Life, Pending
    <3>3. (Pending(t)' \ Pending(t)) \cap Folded(t) = {}
      BY <1>1, <1>2 DEF Pending
    <3> QED  BY <2>1, <2>3, <3>2, <3>3 DEF Life, Folded
  <2> QED  BY <2>2, <2>3, CommitEffect
<1> QED  BY <1>1, <1>3, <1>4, <1>5, <1>6, <1>7, <1>8

\* A purge empties what it removes and leaves the rest alone.
LEMMA PurgeView ==
  ASSUME IInv, NEW gone \in SUBSET Sessions, Purge(gone)
  PROVE  /\ \A s \in gone : /\ Life(s) = "complete" /\ Pending(s) = {}
                             /\ Life(s)' = "absent" /\ Pending(s)' = {} /\ Folded(s)' = {}
         /\ \A s \in Sessions \ gone :
              Life(s)' = Life(s) /\ Pending(s)' = Pending(s) /\ Folded(s)' = Folded(s)
<1>1. NoRow.status = "absent" /\ NoRow.state = Blank /\ Blank.folded = {}
  BY DEF NoRow, NewRow, Blank
<1>2. \A s \in gone : Life(s) = "complete" /\ Pending(s) = {}
  BY DEF Purge, Life, IInv, CompleteIsDrained
<1>3. \A s \in gone : Life(s)' = "absent" /\ Pending(s)' = {} /\ Folded(s)' = {}
  BY <1>1 DEF Purge, Life, Folded, Pending, Accepted, Elements
<1>4. \A s \in Sessions \ gone :
        Life(s)' = Life(s) /\ Pending(s)' = Pending(s) /\ Folded(s)' = Folded(s)
  BY DEF Purge, Life, Folded, Pending, Accepted
<1> QED  BY <1>2, <1>3, <1>4

\* Accepted mail stays pending until a checkpoint folds it in.
THEOREM MailSurvives == Spec => PendingSurvives
<1>1. IInv /\ [Next]_vars =>
        [\A s \in Sessions : \A m \in Pending(s) :
           m \in Pending(s)' \/ m \in row'[s].state.folded]_vars
  <2> SUFFICES ASSUME IInv, Next, NEW s \in Sessions, NEW m \in Pending(s)
               PROVE  m \in Pending(s)' \/ m \in Folded(s)'
    BY DEF Folded
  <2>1. CASE \E t \in Sessions : (\E d \in Definitions : Create(t, d)) \/ Retry(t)
    BY <2>1, LifeOnlyEffect
  <2>2. CASE \E a \in issued : \E p \in Proposals(a.events) : Commit(a, p)
    BY <2>2, CommitView
  <2>3. CASE \E gone \in SUBSET Sessions : Purge(gone)
    BY <2>3, PurgeView
  <2>4. CASE \/ \E t \in Sessions, e \in Mail : AppendMail(t, e) /\ UNCHANGED issued
             \/ \E w \in Workers, scope \in Scopes, t \in Sessions : ClientClaims(w, scope, t)
             \/ \E scope \in Scopes : ClaimNothing(scope) /\ UNCHANGED issued
             \/ \E a \in issued, after \in Backoffs : \E error \in {a.attempt, None} :
                  Release(a, after, error) /\ UNCHANGED issued
             \/ Tick /\ UNCHANGED issued
             \/ \E d \in Definitions, c \in Contracts : BindDefinition(d, c) /\ UNCHANGED issued
    BY <2>4, IntakeEffect
  <2> QED  BY <2>1, <2>2, <2>3, <2>4 DEF Next
<1> QED  BY <1>1, Inductive, PTL DEF Spec, PendingSurvives

\* LocalSessions implements the storage contract of session_backend.py.
THEOREM Refinement == Spec => ImplementsContract
<1> DEFINE L == [s \in Sessions |-> Life(s)]
           U == [s \in Sessions |-> Pending(s)]
           F == [s \in Sessions |-> Folded(s)]
<1>1. Init => Contract!Init
  <2> SUFFICES ASSUME Init
               PROVE  \A s \in Sessions : Life(s) = "absent" /\ Pending(s) = {} /\ Folded(s) = {}
    BY DEF Contract!Init
  <2>1. NoRow.status = "absent" /\ NoRow.state.folded = {}
    BY DEF NoRow, NewRow, Blank
  <2> QED  BY <2>1 DEF Init, Life, Pending, Accepted, Elements, Folded
<1>2. IInv /\ UNCHANGED vars => UNCHANGED <<L, U, F>>
  BY DEF vars, Life, Pending, Accepted, Folded
<1>3. ASSUME IInv, NEW s \in Sessions,
             (\E d \in Definitions : Create(s, d)) \/ Retry(s)
      PROVE  Contract!Open(s) \/ Contract!Revive(s)
  <2>1. U' = U /\ F' = F /\ L' = [L EXCEPT ![s] = "open"]
    BY <1>3, LifeOnlyEffect
  <2>2. Life(s) \in {"absent", "failed"}  BY <1>3, LifeOnlyEffect
  <2> QED  BY <2>1, <2>2 DEF Contract!Open, Contract!Revive
<1>4. ASSUME IInv, NEW a \in issued, NEW p \in Proposals(a.events), Commit(a, p)
      PROVE  a.session \in Sessions /\ Contract!Step(a.session)
  BY <1>4, CommitView DEF Contract!Step, Contract!Born, Contract!Receives
<1>5. ASSUME IInv, NEW gone \in SUBSET Sessions, Purge(gone)
      PROVE  Contract!Forget(gone)
  BY <1>5, PurgeView DEF Contract!Forget
<1>6. ASSUME IInv,
             \/ \E t \in Sessions, e \in Mail : AppendMail(t, e) /\ UNCHANGED issued
             \/ \E w \in Workers, scope \in Scopes, t \in Sessions : ClientClaims(w, scope, t)
             \/ \E scope \in Scopes : ClaimNothing(scope) /\ UNCHANGED issued
             \/ \E a \in issued, after \in Backoffs : \E error \in {a.attempt, None} :
                  Release(a, after, error) /\ UNCHANGED issued
             \/ Tick /\ UNCHANGED issued
             \/ \E d \in Definitions, c \in Contracts : BindDefinition(d, c) /\ UNCHANGED issued
      PROVE  Contract!Intake
  <2>1. F' = F  BY <1>6, IntakeEffect
  <2> QED  BY <1>6, <2>1, IntakeEffect DEF Contract!Intake, Contract!Receives
<1>7. IInv /\ [Next]_vars => [Contract!Next]_<<L, U, F>>
  BY <1>2, <1>3, <1>4, <1>5, <1>6 DEF Next, Contract!Next
<1> QED  BY <1>1, <1>7, Inductive, PTL DEF Spec, ImplementsContract, Contract!Spec, Contract!vars
-----------------------------------------------------------------------------
(* The transactional outbox: SentIffCheckpointed is inductive on top of IInv. *)

\* What SentIffCheckpointed compares stays as it was for one sender, one
\* destination and one key.
SameOutbox(s, t, k) ==
  /\ MailId(s, k) \in Accepted(t)' <=> MailId(s, k) \in Accepted(t)
  /\ <<t, k>> \in row'[s].state.sent <=> <<t, k>> \in row[s].state.sent

\* Only commit and purge touch the outbox: mail that append takes in and the
\* timers of claim are not a step's mail, and no other method changes a state.
LEMMA QuietOutbox ==
  ASSUME IInv,
         \/ \E s \in Sessions, d \in Definitions : Create(s, d)
         \/ \E s \in Sessions : Retry(s)
         \/ \E s \in Sessions, m \in Mail : AppendMail(s, m)
         \/ \E w \in Workers, scope \in Scopes, s \in Sessions : ClientClaims(w, scope, s)
         \/ \E scope \in Scopes : ClaimNothing(scope)
         \/ \E a \in issued, after \in Backoffs : \E error \in {a.attempt, None} :
              Release(a, after, error)
         \/ Tick
         \/ \E d \in Definitions, c \in Contracts : BindDefinition(d, c)
  PROVE  purged' = purged /\ \A s, t \in Sessions, k \in Keys : SameOutbox(s, t, k)
<1>1. ASSUME \A s \in Sessions : row'[s].state = row[s].state,
             \A t \in Sessions : Accepted(t)' = Accepted(t)
      PROVE  \A s, t \in Sessions, k \in Keys : SameOutbox(s, t, k)
  BY <1>1 DEF SameOutbox
<1>2. CASE \E s \in Sessions, d \in Definitions : Create(s, d)
  <2>1. PICK s \in Sessions, d \in Definitions : Create(s, d)  BY <1>2
  <2>2. row[s] = NoRow /\ row'[s] = NewRow(d) /\ \A t \in Sessions : t # s => row'[t] = row[t]
    BY <2>1 DEF Create, IInv, TypeOK, AbsentIsEmpty
  <2>3. NoRow.state = Blank /\ NewRow(d).state = Blank  BY DEF NoRow, NewRow
  <2>4. \A t \in Sessions : Accepted(t)' = Accepted(t)  BY <2>1 DEF Create, Accepted
  <2> QED  BY <1>1, <2>1, <2>2, <2>3, <2>4 DEF Create
<1>3. CASE \E s \in Sessions : Retry(s)
  <2>1. PICK s \in Sessions : Retry(s)  BY <1>3
  <2>2. row[s] \in Row  BY DEF IInv, TypeOK
  <2>3. \A t \in Sessions : row'[t].state = row[t].state
    BY <2>1, <2>2 DEF Retry, IInv, TypeOK, Row
  <2>4. \A t \in Sessions : Accepted(t)' = Accepted(t)  BY <2>1 DEF Retry, Accepted
  <2> QED  BY <1>1, <2>1, <2>3, <2>4 DEF Retry
<1>4. CASE \E s \in Sessions, m \in Mail : AppendMail(s, m)
  <2>1. PICK s \in Sessions, m \in Mail : AppendMail(s, m)  BY <1>4
  <2>2. m \in EventId /\ inbox[s] \in Seq(EventId)  BY DEF EventId, IInv, TypeOK
  <2>3. Accepted(s)' = Accepted(s) \cup {m}
        /\ \A t \in Sessions : t # s => Accepted(t)' = Accepted(t)
    BY <2>1, <2>2, ElementsAppend DEF AppendMail, Accepted, IInv, TypeOK
  <2>4. \A u \in Sessions, k \in Keys : MailId(u, k) # m  BY MailAssumption
  <2>5. row' = row /\ purged' = purged  BY <2>1 DEF AppendMail
  <2> QED  BY <2>3, <2>4, <2>5 DEF SameOutbox
<1>5. CASE \E w \in Workers, scope \in Scopes, s \in Sessions : ClientClaims(w, scope, s)
  <2>1. PICK w \in Workers, scope \in Scopes, s \in Sessions : ClientClaims(w, scope, s)
    BY <1>5
  <2>2. \A t \in Sessions : row'[t].state = row[t].state
    BY <2>1, ClaimEffect, ParkFailedEffect DEF IInv, TypeOK
  <2>3. row[s].revision \in 0..MaxRevision  BY DEF IInv, TypeOK, Row
  <2>4. \A u \in Sessions, k \in Keys : MailId(u, k) # Timer(row[s].revision)
    BY <2>3, TimersDiffer
  <2>5. \A t \in Sessions : Accepted(t)' = Accepted(t)
                         \/ Accepted(t)' = Accepted(t) \cup {Timer(row[s].revision)}
    BY <2>1, ClaimMailEffect
  <2>6. purged' = purged  BY <2>1 DEF ClientClaims, Claim
  <2> QED  BY <2>2, <2>4, <2>5, <2>6 DEF SameOutbox
<1>6. CASE \E scope \in Scopes : ClaimNothing(scope)
  <2>1. \A t \in Sessions : row'[t].state = row[t].state
    BY <1>6, ParkFailedEffect DEF ClaimNothing, IInv, TypeOK
  <2>2. \A t \in Sessions : Accepted(t)' = Accepted(t)  BY <1>6 DEF ClaimNothing, Accepted
  <2> QED  BY <1>1, <1>6, <2>1, <2>2 DEF ClaimNothing
<1>7. CASE \E a \in issued, after \in Backoffs : \E error \in {a.attempt, None} :
             Release(a, after, error)
  <2>0. PICK a \in issued, after \in Backoffs :
          \E error \in {a.attempt, None} : Release(a, after, error)
    BY <1>7
  <2>1. PICK error \in {a.attempt, None} : Release(a, after, error)
    BY <2>0
  <2>2. a.session \in Sessions /\ row[a.session] \in Row
    BY DEF IInv, TypeOK, Activation
  <2>3. \A t \in Sessions : row'[t].state = row[t].state
    <3>1. row'[a.session].state = row[a.session].state
          /\ \A t \in Sessions : t # a.session => row'[t] = row[t]
      BY <2>1, <2>2 DEF Release, IInv, TypeOK, Row
    <3> QED  BY <3>1
  <2>4. \A t \in Sessions : Accepted(t)' = Accepted(t)  BY <2>1 DEF Release, Accepted
  <2> QED  BY <1>1, <2>1, <2>3, <2>4 DEF Release
<1>8. CASE Tick
  <2>1. \A t \in Sessions : row'[t].state = row[t].state
    BY <1>8 DEF Tick, IInv, TypeOK, Row
  <2>2. \A t \in Sessions : Accepted(t)' = Accepted(t)  BY <1>8 DEF Tick, Accepted
  <2> QED  BY <1>1, <1>8, <2>1, <2>2 DEF Tick
<1>9. CASE \E d \in Definitions, c \in Contracts : BindDefinition(d, c)
  BY <1>1, <1>9 DEF BindDefinition, rows, Accepted
<1> QED  BY <1>2, <1>3, <1>4, <1>5, <1>6, <1>7, <1>8, <1>9

\* commit puts a step's mail into the inboxes and its record into the sender's
\* checkpoint together; a child it creates has sent nothing.
LEMMA CommitOutbox ==
  ASSUME IInv, NEW a \in issued, NEW p \in Proposals(a.events), Commit(a, p)
  PROVE  /\ purged' = purged
         /\ \A s, t \in Sessions, k \in Keys :
              (MailId(s, k) \in Accepted(t) <=> <<t, k>> \in row[s].state.sent) =>
              (MailId(s, k) \in Accepted(t)' <=> <<t, k>> \in row'[s].state.sent)
<1> SUFFICES ASSUME NEW s \in Sessions, NEW t \in Sessions, NEW k \in Keys,
                    MailId(s, k) \in Accepted(t) <=> <<t, k>> \in row[s].state.sent
             PROVE  MailId(s, k) \in Accepted(t)' <=> <<t, k>> \in row'[s].state.sent
  BY DEF Commit
<1>1. a.session \in Sessions /\ p.publish[t] \in Keys \cup {None}
  BY DEF IInv, TypeOK, Activation, Proposals
<1>2. CASE s = a.session
  <2>1. <<t, k>> \in SentBy(p) <=> p.publish[t] = k
    BY NoneAssumption DEF SentBy
  <2>2. row'[s].state.sent = row[s].state.sent \cup SentBy(p)  BY <1>2, CommitEffect
  <2>3. CASE Publishes(s, p, t)
    <3>1. Accepted(t)' = Accepted(t) \cup {MailId(s, p.publish[t])} /\ p.publish[t] \in Keys
      BY <1>2, <2>3, CommitMailEffect
    <3>2. MailId(s, k) = MailId(s, p.publish[t]) <=> p.publish[t] = k
      BY <3>1, TimersDiffer
    <3> QED  BY <2>1, <2>2, <3>1, <3>2
  <2>4. CASE ~Publishes(s, p, t)
    <3>1. Accepted(t)' = Accepted(t)  BY <1>2, <2>4, CommitMailEffect
    <3>2. p.publish[t] = k => MailId(s, k) \in Accepted(t)
      BY <2>4, NoneAssumption DEF Publishes
    <3> QED  BY <2>1, <2>2, <3>1, <3>2
  <2> QED  BY <2>3, <2>4
<1>3. CASE s # a.session
  <2>1. row'[s].state = row[s].state
    <3>1. CASE ~Exists(s) /\ row'[s] = NewRow(p.spawn[s])
      <4>1. row[s] = NoRow  BY <3>1 DEF IInv, AbsentIsEmpty
      <4> QED  BY <3>1, <4>1 DEF NoRow, NewRow
    <3> QED  BY <1>3, <3>1, CommitEffect
  <2>2. MailId(s, k) \in Accepted(t)' <=> MailId(s, k) \in Accepted(t)
    <3>1. CASE Publishes(a.session, p, t)
      <4>1. Accepted(t)' = Accepted(t) \cup {MailId(a.session, p.publish[t])}
            /\ p.publish[t] \in Keys
        BY <3>1, CommitMailEffect
      <4>2. MailId(s, k) # MailId(a.session, p.publish[t])
        BY <1>1, <1>3, <4>1, TimersDiffer
      <4> QED  BY <4>1, <4>2
    <3> QED  BY <3>1, CommitMailEffect
  <2> QED  BY <2>1, <2>2
<1> QED  BY <1>2, <1>3

\* The transactional outbox holds for every number of sessions, keys and
\* claims: a step's mail is delivered exactly when its checkpoint is committed.
THEOREM OutboxHolds == Spec => []SentIffCheckpointed
<1>1. Init => SentIffCheckpointed
  <2>1. Init => \A s \in Sessions : Accepted(s) = {} /\ row[s].state.sent = {}
    BY DEF Init, Accepted, Elements, NoRow, NewRow, Blank
  <2> QED  BY <2>1 DEF SentIffCheckpointed
<1>2. IInv /\ SentIffCheckpointed /\ [Next]_vars => SentIffCheckpointed'
  <2> SUFFICES ASSUME IInv, SentIffCheckpointed, [Next]_vars
               PROVE  SentIffCheckpointed'
    OBVIOUS
  <2>1. CASE UNCHANGED vars  BY <2>1 DEF vars, SentIffCheckpointed, Accepted
  <2>2. CASE \E a \in issued : \E p \in Proposals(a.events) : Commit(a, p)
    BY <2>2, CommitOutbox DEF SentIffCheckpointed
  <2>3. CASE \E gone \in SUBSET Sessions : Purge(gone)
    <3>1. PICK gone \in SUBSET Sessions : Purge(gone)  BY <2>3
    <3>2. purged' = purged \cup gone
          /\ \A s \in Sessions \ gone : row'[s] = row[s] /\ Accepted(s)' = Accepted(s)
      BY <3>1 DEF Purge, Accepted
    <3>3. ASSUME NEW s \in Sessions \ purged', NEW t \in Sessions \ purged', NEW k \in Keys
          PROVE  MailId(s, k) \in Accepted(t)' <=> <<t, k>> \in row'[s].state.sent
      <4>1. row'[s] = row[s] /\ Accepted(t)' = Accepted(t)  BY <3>2
      <4>2. s \notin purged /\ t \notin purged  BY <3>2
      <4> QED  BY <4>1, <4>2 DEF SentIffCheckpointed
    <3> QED  BY <3>3 DEF SentIffCheckpointed
  <2>4. CASE \/ \E s \in Sessions, d \in Definitions : Create(s, d)
             \/ \E s \in Sessions : Retry(s)
             \/ \E s \in Sessions, m \in Mail : AppendMail(s, m)
             \/ \E w \in Workers, scope \in Scopes, s \in Sessions : ClientClaims(w, scope, s)
             \/ \E scope \in Scopes : ClaimNothing(scope)
             \/ \E a \in issued, after \in Backoffs : \E error \in {a.attempt, None} :
                  Release(a, after, error)
             \/ Tick
             \/ \E d \in Definitions, c \in Contracts : BindDefinition(d, c)
    BY <2>4, QuietOutbox DEF SentIffCheckpointed, SameOutbox
  <2> QED  BY <2>1, <2>2, <2>3, <2>4 DEF Next
<1> QED  BY <1>1, <1>2, Inductive, PTL DEF Spec
=============================================================================
