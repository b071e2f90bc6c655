---------------------------- MODULE LocalSessions ----------------------------
(***************************************************************************)
(* The durable session store (src/entourage/sessions.py): one row per      *)
(* session, one inbox per session, and leases that fence the checkpoints.  *)
(*                                                                         *)
(* Every method of LocalSessions runs in one BEGIN IMMEDIATE transaction,  *)
(* so every action below is one whole method call.  The clients are the    *)
(* most general ones: any activation ever issued may be presented again at *)
(* any time, by a slow worker, a late retry or a repeated call.            *)
(*                                                                         *)
(* Time is counted down instead of up: the lease and the deadline columns  *)
(* hold the time that is left, 0 meaning "at or before the clock", and     *)
(* Tick is the only action that moves it.  A checkpoint's JSON state is    *)
(* abstracted to what exactly-once processing is about: the events folded  *)
(* into it and the mail its steps have sent.                               *)
(***************************************************************************)
EXTENDS Naturals, FiniteSets, Sequences

CONSTANTS
  Sessions,      \* session ids
  Workers,       \* names that claim under the "worker" column
  Definitions,   \* executable versions
  Contracts,     \* JSON contracts a definition can be bound with
  Mail,          \* event ids appended from outside any session
  Keys,          \* publication keys a step may use
  MaxAttempts,   \* max_attempts of every claim
  MaxEvents,     \* max_events of every claim
  LeaseSeconds,  \* lease_seconds of every claim
  Deadlines,     \* times to a deadline that handlers propose
  Backoffs,      \* retry_after of a release, 0 for none
  MaxClaims,     \* bound: claims in a behaviour (a fresh token each)
  MaxRevision,   \* bound: checkpoints of one session
  None           \* SQL NULL

ASSUME BoundsAssumption ==
  /\ MaxAttempts \in Nat \ {0}
  /\ MaxEvents \in Nat \ {0}
  /\ LeaseSeconds \in Nat \ {0}
  /\ Deadlines \subseteq Nat
  /\ Backoffs \subseteq Nat
  /\ MaxClaims \in Nat
  /\ MaxRevision \in Nat

ASSUME NoneAssumption ==
  /\ None \notin Nat
  /\ None \notin Workers
  /\ None \notin Definitions
  /\ None \notin Contracts
  /\ None \notin Keys

VARIABLES
  row,           \* wake_sessions, one record per session id
  inbox,         \* wake_inputs in seq order: the event ids of each session
  incorporated,  \* the event ids whose incorporated column is 1
  contracts,     \* wake_definitions
  nextToken,     \* the next uuid4 token
  issued,        \* activations handed out and still in some client's hands
  purged         \* history: session ids that were ever purged

rows == <<row, inbox, incorporated>>
vars == <<row, inbox, incorporated, contracts, nextToken, issued, purged>>
-----------------------------------------------------------------------------
(* Event ids: outside mail, mail of a session's step ("mail:" + the digest *)
(* of sender and key), and the deadline's own "timer:<id>:<revision>".     *)

MailId(s, k) == <<"mail", s, k>>
Timer(r) == <<"timer", r>>

ASSUME MailAssumption ==
  /\ \A s \in Sessions, k \in Keys : MailId(s, k) \notin Mail
  /\ \A r \in 0..MaxRevision : Timer(r) \notin Mail

EventId == Mail \cup {MailId(s, k) : s \in Sessions, k \in Keys}
                \cup {Timer(r) : r \in 0..MaxRevision}

State == [folded : SUBSET EventId, sent : SUBSET (Sessions \X Keys)]
Blank == [folded |-> {}, sent |-> {}]

Status == {"absent", "ready", "active", "waiting", "complete", "failed"}
Delay == Nat \cup {None}

Row == [status : Status, executable : Definitions \cup {None}, state : State,
        deadline : Delay, token : Nat \cup {None}, lease : Delay,
        worker : Workers \cup {None}, revision : 0..MaxRevision,
        attempts : 0..MaxAttempts, lastClaim : Nat, lastError : Nat \cup {None}]

Activation == [session : Sessions, token : Nat, executable : Definitions \cup {None},
               state : State, events : SUBSET EventId, more : BOOLEAN,
               attempt : 1..MaxAttempts, lastError : Nat \cup {None}]

\* What a handler proposes after it was given the events: at most one
\* publication per destination, and one child per free session id.
Proposals(events) ==
            [incorporated : SUBSET events, publish : [Sessions -> Keys \cup {None}],
             spawn : [Sessions -> Definitions \cup {None}],
             deadline : Deadlines \cup {None}, complete : BOOLEAN,
             rebind : Definitions \cup {None}]

NewRow(d) == [status |-> "ready", executable |-> d, state |-> Blank,
              deadline |-> None, token |-> None, lease |-> None, worker |-> None,
              revision |-> 0, attempts |-> 0, lastClaim |-> 0, lastError |-> None]
NoRow == [NewRow(None) EXCEPT !.status = "absent"]

Exists(s) == row[s].status # "absent"
Elements(q) == {q[i] : i \in DOMAIN q}
Accepted(s) == Elements(inbox[s])
Pending(s) == Accepted(s) \ incorporated[s]

Due(s) == row[s].deadline = 0
Leased(s) == row[s].lease \notin {None, 0}

\* Defect to be caught: a session whose worker died is not ready again.
ReadyUnlessActive(s) ==
  /\ row[s].status \notin {"absent", "complete", "failed"}
  /\ ~Leased(s)
  /\ row[s].status = "ready" \/ Due(s) \/ Pending(s) # {}

\* _READY: what a claim could take now.
Ready(s) ==
  /\ row[s].status \notin {"absent", "complete", "failed"}
  /\ ~Leased(s)
  /\ \/ row[s].status \in {"ready", "active"}
     \/ Due(s)
     \/ Pending(s) # {}

\* Defect to be caught: any live lease admits a commit, whoever claimed it.
HoldsAnyLease(a) == Leased(a.session)

\* _holder: the activation still owns an unexpired lease.
Holds(a) == row[a.session].token = a.token /\ Leased(a.session)

ParkedStatus(s) == IF row[s].revision > 0 THEN "waiting" ELSE "ready"
-----------------------------------------------------------------------------
(* The methods.                                                            *)

\* The first MaxEvents events of the queue q that are not yet incorporated.
Batch(q, done) ==
  {q[i] : i \in {j \in DOMAIN q :
     /\ q[j] \notin done
     /\ Cardinality({k \in 1..(j - 1) : q[k] \notin done}) < MaxEvents}}

BindDefinition(d, c) ==
  /\ contracts[d] = None
  /\ contracts' = [contracts EXCEPT ![d] = c]
  /\ UNCHANGED <<rows, nextToken, purged>>

Create(s, d) ==
  /\ ~Exists(s)
  /\ row' = [row EXCEPT ![s] = NewRow(d)]
  /\ UNCHANGED <<inbox, incorporated, contracts, nextToken, purged>>

\* Defect to be caught: mail is accepted for a session nothing will wake.
AppendAfterCompletion(s, m) ==
  /\ Exists(s) /\ m \notin Accepted(s)
  /\ inbox' = [inbox EXCEPT ![s] = Append(@, m)]
  /\ UNCHANGED <<row, incorporated, contracts, nextToken, purged>>

\* A known id is absorbed (append returns False), even after completion.
AppendMail(s, m) ==
  /\ row[s].status \notin {"absent", "complete"}
  /\ m \notin Accepted(s)
  /\ inbox' = [inbox EXCEPT ![s] = Append(@, m)]
  /\ UNCHANGED <<row, incorporated, contracts, nextToken, purged>>

\* Defects to be caught: a due step leaves no mail behind, or every retry of it
\* adds another timer.
NoTimer(s) == inbox[s]
TimerPerAttempt(s) ==
  IF Due(s) THEN Append(inbox[s], Timer(row[s].revision)) ELSE inbox[s]

\* The claim's deadline mail, with an id that every retry of the step shares.
WithTimer(s) ==
  IF Due(s) /\ Timer(row[s].revision) \notin Accepted(s)
    THEN Append(inbox[s], Timer(row[s].revision))
    ELSE inbox[s]

\* Defect to be caught: one attempt too many.
ExhaustedLate(t) == Ready(t) /\ row[t].attempts > MaxAttempts

Exhausted(t) == Ready(t) /\ row[t].attempts >= MaxAttempts

ParkFailed(r) ==
  [r EXCEPT !.status = "failed", !.token = None, !.lease = None, !.worker = None]

\* claim returns s: the least recently claimed ready row of the scope that has
\* attempts left.  Exhausted rows found before it are parked as failed.
Claim(w, scope, s) ==
  /\ nextToken <= MaxClaims
  /\ s \in scope /\ Ready(s) /\ ~Exhausted(s)
  /\ \A t \in scope :
       Ready(t) /\ ~Exhausted(t) => row[s].lastClaim <= row[t].lastClaim
  /\ \E top \in {row[t].lastClaim : t \in Sessions} :
       /\ \A t \in Sessions : row[t].lastClaim <= top
       /\ row' = [t \in Sessions |->
            CASE t = s ->
                   [row[t] EXCEPT !.status = "active", !.token = nextToken,
                      !.lease = LeaseSeconds, !.worker = w,
                      !.attempts = @ + 1, !.lastClaim = top + 1]
              [] t # s /\ t \in scope /\ Exhausted(t)
                       /\ row[t].lastClaim < row[s].lastClaim -> ParkFailed(row[t])
              [] OTHER -> row[t]]
  /\ inbox' = [inbox EXCEPT ![s] = WithTimer(s)]
  /\ nextToken' = nextToken + 1
  /\ UNCHANGED <<incorporated, contracts, purged>>

\* The activation that Claim(w, scope, s) returns.
ActivationOf(s) ==
  LET batch == Batch(WithTimer(s), incorporated[s])
  IN  [session |-> s, token |-> nextToken, executable |-> row[s].executable,
       state |-> row[s].state, events |-> batch,
       more |-> Elements(WithTimer(s)) \ incorporated[s] # batch,
       attempt |-> row[s].attempts + 1, lastError |-> row[s].lastError]

\* claim returns None after parking every ready row of the scope as failed.
ClaimNothing(scope) ==
  /\ \E t \in scope : Ready(t)
  /\ \A t \in scope : Ready(t) => Exhausted(t)
  /\ row' = [t \in Sessions |->
       IF t \in scope /\ Exhausted(t) THEN ParkFailed(row[t]) ELSE row[t]]
  /\ UNCHANGED <<inbox, incorporated, contracts, nextToken, purged>>

\* Defect to be caught: the backoff is written over the lease of a token that
\* is still there.
ReleaseKeepsToken(a, after, error) ==
  /\ Holds(a)
  /\ row' = [row EXCEPT ![a.session] =
       [@ EXCEPT !.status = ParkedStatus(a.session),
          !.lease = IF after = 0 THEN None ELSE after, !.worker = None,
          !.lastError = error]]
  /\ UNCHANGED <<inbox, incorporated, contracts, nextToken, purged>>

\* The error text is abstracted to the attempt that recorded it.
Release(a, after, error) ==
  /\ Holds(a)
  /\ row' = [row EXCEPT ![a.session] =
       [@ EXCEPT !.status = ParkedStatus(a.session), !.token = None,
          !.lease = IF after = 0 THEN None ELSE after, !.worker = None,
          !.lastError = error]]
  /\ UNCHANGED <<inbox, incorporated, contracts, nextToken, purged>>

Retry(s) ==
  /\ row[s].status = "failed"
  /\ row' = [row EXCEPT ![s] =
       [@ EXCEPT !.status = ParkedStatus(s), !.attempts = 0, !.lastError = None]]
  /\ UNCHANGED <<inbox, incorporated, contracts, nextToken, purged>>

\* Defect to be caught: mail to a complete session is dropped silently.
PublishesToOpen(s, p, t) ==
  /\ p.publish[t] # None /\ row[t].status # "complete"
  /\ MailId(s, p.publish[t]) \notin Accepted(t)

\* Publication p.publish[t] adds a row to t's inbox unless its id is known.
Publishes(s, p, t) ==
  p.publish[t] # None /\ MailId(s, p.publish[t]) \notin Accepted(t)

\* Defect to be caught: completion looks at the batch and not at the inbox.
CompletesOnBatch(a, p) ==
  /\ p.incorporated \subseteq a.events
  /\ p.complete => p.deadline = None /\ p.rebind = None
  /\ p.rebind # None => p.rebind # a.executable /\ contracts[p.rebind] # None
  /\ p.spawn[a.session] = None
  /\ \A t \in Sessions : p.spawn[t] # None => ~Exists(t) /\ contracts[p.spawn[t]] # None
  /\ \A t \in Sessions : p.publish[t] # None => Exists(t) \/ p.spawn[t] # None
  /\ \A t \in Sessions : Publishes(a.session, p, t) => row[t].status # "complete"
  /\ p.complete => p.incorporated = a.events

ValidProposal(a, p) ==
  /\ p.incorporated \subseteq a.events
  /\ p.complete => p.deadline = None /\ p.rebind = None
  /\ p.rebind # None => p.rebind # a.executable /\ contracts[p.rebind] # None
  /\ p.spawn[a.session] = None
  /\ \A t \in Sessions : p.spawn[t] # None => ~Exists(t) /\ contracts[p.spawn[t]] # None
  /\ \A t \in Sessions : p.publish[t] # None => Exists(t) \/ p.spawn[t] # None
  /\ \A t \in Sessions : Publishes(a.session, p, t) => row[t].status # "complete"
  /\ p.complete => /\ Pending(a.session) \subseteq p.incorporated
                   /\ ~Publishes(a.session, p, a.session)

SentBy(p) == {<<t, p.publish[t]>> : t \in {u \in Sessions : p.publish[u] # None}}

\* Defect to be caught: a commit that does not end its lease.
CheckpointKeepsLease(a, p) ==
  [row[a.session] EXCEPT
     !.state = [folded |-> a.state.folded \cup p.incorporated,
                sent |-> a.state.sent \cup SentBy(p)],
     !.status = IF p.complete THEN "complete" ELSE "waiting",
     !.deadline = p.deadline,
     !.executable = IF p.rebind = None THEN @ ELSE p.rebind,
     !.attempts = 0, !.lastError = None, !.revision = @ + 1]

Checkpoint(a, p) ==
  [row[a.session] EXCEPT
     !.state = [folded |-> a.state.folded \cup p.incorporated,
                sent |-> a.state.sent \cup SentBy(p)],
     !.status = IF p.complete THEN "complete" ELSE "waiting",
     !.deadline = p.deadline,
     !.executable = IF p.rebind = None THEN @ ELSE p.rebind,
     !.token = None, !.lease = None, !.worker = None,
     !.attempts = 0, !.lastError = None, !.revision = @ + 1]

Commit(a, p) ==
  /\ Holds(a)
  /\ ValidProposal(a, p)
  /\ row[a.session].revision < MaxRevision
  /\ row' = [t \in Sessions |->
       CASE t = a.session -> Checkpoint(a, p)
         [] t # a.session /\ p.spawn[t] # None -> NewRow(p.spawn[t])
         [] OTHER -> row[t]]
  /\ incorporated' = [incorporated EXCEPT ![a.session] = @ \cup p.incorporated]
  /\ inbox' = [t \in Sessions |->
       IF Publishes(a.session, p, t)
         THEN Append(inbox[t], MailId(a.session, p.publish[t]))
         ELSE inbox[t]]
  /\ UNCHANGED <<contracts, nextToken, purged>>

\* Defect to be caught: failed sessions are purged like complete ones.
PurgesFailed(gone) ==
  /\ gone # {} /\ \A s \in gone : row[s].status \in {"complete", "failed"}
  /\ row' = [s \in Sessions |-> IF s \in gone THEN NoRow ELSE row[s]]
  /\ inbox' = [s \in Sessions |-> IF s \in gone THEN <<>> ELSE inbox[s]]
  /\ incorporated' = [s \in Sessions |-> IF s \in gone THEN {} ELSE incorporated[s]]
  /\ purged' = purged \cup gone
  /\ UNCHANGED <<contracts, nextToken>>

\* purge: the cutoff and the limit choose which complete sessions go.
Purge(gone) ==
  /\ gone # {} /\ \A s \in gone : row[s].status = "complete"
  /\ row' = [s \in Sessions |-> IF s \in gone THEN NoRow ELSE row[s]]
  /\ inbox' = [s \in Sessions |-> IF s \in gone THEN <<>> ELSE inbox[s]]
  /\ incorporated' = [s \in Sessions |-> IF s \in gone THEN {} ELSE incorporated[s]]
  /\ purged' = purged \cup gone
  /\ UNCHANGED <<contracts, nextToken>>

CountDown(d) == IF d \in {None, 0} THEN d ELSE d - 1

Tick ==
  /\ row' = [s \in Sessions |->
       [row[s] EXCEPT !.lease = CountDown(@), !.deadline = CountDown(@)]]
  /\ UNCHANGED <<inbox, incorporated, contracts, nextToken, purged>>
-----------------------------------------------------------------------------
(* The store under its most general clients.                               *)

Init ==
  /\ row = [s \in Sessions |-> NoRow]
  /\ inbox = [s \in Sessions |-> <<>>]
  /\ incorporated = [s \in Sessions |-> {}]
  /\ contracts = [d \in Definitions |-> None]
  /\ nextToken = 1
  /\ issued = {}
  /\ purged = {}

\* The executable and session filters of a claim: the rows it looks at.
Scopes == {{s \in Sessions : row[s].executable = d} : d \in Definitions}
            \cup {{s} : s \in Sessions} \cup {Sessions}

ClientClaims(w, scope, s) ==
  Claim(w, scope, s) /\ issued' = issued \cup {ActivationOf(s)}

Next ==
  \/ \E d \in Definitions, c \in Contracts : BindDefinition(d, c) /\ UNCHANGED issued
  \/ \E s \in Sessions, d \in Definitions : Create(s, d) /\ UNCHANGED issued
  \/ \E s \in Sessions, m \in Mail : AppendMail(s, m) /\ UNCHANGED issued
  \/ \E w \in Workers, scope \in Scopes, s \in Sessions : ClientClaims(w, scope, s)
  \/ \E scope \in Scopes : ClaimNothing(scope) /\ UNCHANGED issued
  \/ \E a \in issued, after \in Backoffs : \E error \in {a.attempt, None} :
       Release(a, after, error) /\ UNCHANGED issued
  \/ \E s \in Sessions : Retry(s) /\ UNCHANGED issued
  \/ \E a \in issued : \E p \in Proposals(a.events) : Commit(a, p) /\ UNCHANGED issued
  \/ \E gone \in SUBSET Sessions : Purge(gone) /\ UNCHANGED issued
  \/ Tick /\ UNCHANGED issued

Spec == Init /\ [][Next]_vars
-----------------------------------------------------------------------------
(* Properties.                                                             *)

\* Every column has its type; attempts never exceed max_attempts and a
\* checkpoint's counter stays within the bound.
TypeOK ==
  /\ row \in [Sessions -> Row]
  /\ inbox \in [Sessions -> Seq(EventId)]
  /\ incorporated \in [Sessions -> SUBSET EventId]
  /\ contracts \in [Definitions -> Contracts \cup {None}]
  /\ nextToken \in Nat \ {0}
  /\ issued \subseteq Activation
  /\ purged \subseteq Sessions

\* Exactly-once: what a session's checkpoint says it has folded in is what its
\* inbox says is incorporated, and all of it was accepted.  A lost update, a
\* stale commit or a batch applied to the wrong snapshot breaks it.
ExactlyOnce ==
  \A s \in Sessions :
    /\ row[s].state.folded = incorporated[s]
    /\ incorporated[s] \subseteq Accepted(s)

\* Fencing: whoever can still commit restored the session's current
\* checkpoint, carries only events not yet folded into it, is counted as the
\* current attempt, and is the only one.
HolderIsCurrent ==
  \A a \in issued : Holds(a) =>
    /\ row[a.session].status = "active"
    /\ a.state = row[a.session].state
    /\ a.events \subseteq Pending(a.session)
    /\ a.attempt = row[a.session].attempts
    /\ \A b \in issued : Holds(b) /\ b.session = a.session => b = a

\* Nothing is stranded: a step that was claimed and not checkpointed since
\* still has the mail it was claimed for, so when its lease or backoff ends, or
\* an operator retries it, the session is ready again.  (A session at revision
\* zero is ready without mail.)  So a deadline that made the step due has left
\* a mail behind, and the retry runs for that mail.
CauseKept ==
  \A s \in Sessions :
    row[s].attempts > 0 \/ row[s].status = "failed" =>
      row[s].revision = 0 \/ Pending(s) # {}

\* A deadline becomes one mail per checkpoint, however often the step is
\* retried, and never before it is due: no id is accepted twice, no timer is
\* from a later checkpoint, and the current one's timer means it is due.
TimerOncePerCheckpoint ==
  \A s \in Sessions :
    /\ \A i, j \in DOMAIN inbox[s] : inbox[s][i] = inbox[s][j] => i = j
    /\ \A r \in 0..MaxRevision : Timer(r) \in Accepted(s) =>
         r < row[s].revision \/ (r = row[s].revision /\ Due(s))

\* The transactional outbox: a step's mail is in its destination's inbox
\* exactly when the sender's checkpoint says it was sent (until either side
\* is purged, which ends the bookkeeping).
SentIffCheckpointed ==
  \A s, t \in Sessions \ purged : \A k \in Keys :
    MailId(s, k) \in Accepted(t) <=> <<t, k>> \in row[s].state.sent

\* Completion is final and drained: no mail, no lease and no deadline is left
\* behind in a session that nothing will ever wake.
CompleteIsDrained ==
  \A s \in Sessions : row[s].status = "complete" =>
    /\ Pending(s) = {}
    /\ row[s].token = None /\ row[s].lease = None /\ row[s].deadline = None

\* Accepted mail is never dropped: what is pending stays pending until a
\* checkpoint folds it in, through crashes, failures, retries and purges.
PendingSurvives ==
  [][\A s \in Sessions : \A m \in Pending(s) :
       m \in Pending(s)' \/ m \in row'[s].state.folded]_vars

\* The inductive strengthening of the safety properties.  Without lease time,
\* the token alone fences: it is fresh, it is there exactly while the session
\* is active, and its activation's snapshot is the session's own.
AbsentIsEmpty ==
  \A s \in Sessions : ~Exists(s) =>
    row[s] = NoRow /\ inbox[s] = <<>> /\ incorporated[s] = {}

TokensAreFresh ==
  /\ \A s \in Sessions : row[s].token # None => row[s].token < nextToken
  /\ \A a, b \in issued : a.token < nextToken /\ (a.token = b.token => a = b)

StatusIsConsistent ==
  \A s \in Sessions :
    /\ row[s].status = "active" <=> row[s].token # None
    /\ row[s].status = "active" => row[s].attempts > 0
    /\ row[s].status = "ready" => row[s].revision = 0
    /\ row[s].status = "waiting" => row[s].revision > 0
    /\ row[s].status = "complete" => row[s].attempts = 0

TokenIsCurrent ==
  \A a \in issued : row[a.session].token = a.token =>
    /\ a.state = row[a.session].state
    /\ a.events \subseteq Pending(a.session)
    /\ a.attempt = row[a.session].attempts

CurrentTimerIsPending ==
  \A s \in Sessions : Timer(row[s].revision) \notin incorporated[s]

IInv ==
  /\ TypeOK /\ ExactlyOnce /\ CauseKept /\ TimerOncePerCheckpoint
  /\ CompleteIsDrained
  /\ AbsentIsEmpty /\ TokensAreFresh /\ StatusIsConsistent
  /\ TokenIsCurrent /\ CurrentTimerIsPending

\* What a client can see of a session.
Life(s) == IF row[s].status \in {"absent", "failed", "complete"}
             THEN row[s].status ELSE "open"
Folded(s) == row[s].state.folded

\* The store implements the contract: leases, tokens, attempts and the clock
\* are invisible, and every method is one step of the contract or none.
Contract == INSTANCE SessionContract WITH
  life <- [s \in Sessions |-> Life(s)],
  unread <- [s \in Sessions |-> Pending(s)],
  folded <- [s \in Sessions |-> Folded(s)]

ImplementsContract == Contract!Spec
=============================================================================
