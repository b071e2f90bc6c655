------------------------------ MODULE Dispatcher ------------------------------
(***************************************************************************)
(* Worker processes over one session store (src/entourage/executables.py,  *)
(* class Dispatcher, run by worker.py): each registers its definitions,    *)
(* polls them in rotation, runs a handler on the claimed activation        *)
(* outside any transaction, and commits what it proposes or gives the step *)
(* back.  The store is LocalSessions, action for action; a worker may      *)
(* crash, hang past its lease, propose what the store rejects, or lose the *)
(* reply of a commit the store accepted.                                   *)
(***************************************************************************)
EXTENDS LocalSessions

CONSTANTS
  Serves,      \* per worker, the definitions it registers, in order
  Supersedes,  \* per worker, the old definitions its upgrades migrate, in order
  Target,      \* per worker, the definition that an old one is migrated to
  Build,       \* per worker, the contract its code has for a definition
  Sending,     \* the definitions whose handler publishes
  Timed,       \* the definitions whose handler sets deadlines
  MaxRetries   \* bound: retries by an operator in a behaviour

ASSUME ServesAssumption ==
  /\ Serves \in [Workers -> Seq(Definitions)]
  /\ Supersedes \in [Workers -> Seq(Definitions)]
  /\ \A w \in Workers :
       /\ Serves[w] # <<>>
       /\ Elements(Serves[w]) \cap Elements(Supersedes[w]) = {}
       /\ \A d \in Elements(Supersedes[w]) : Target[w][d] \in Elements(Serves[w])
  /\ Build \in [Workers -> [Definitions -> Contracts]]
  /\ Sending \cup Timed \subseteq Definitions /\ MaxRetries \in Nat

VARIABLES
  phase,    \* starting, refused, polling, running (the handler), failing
  held,     \* the activation a worker is working on, or None
  cursor,   \* Dispatcher._cursor: the name that is polled first
  offset,   \* how many names this run_once (or registration) is past
  spent,    \* history: tokens whose commit the store accepted
  retries   \* how many retries there were

workers == <<phase, held, cursor, offset>>
dvars == <<vars, workers, spent, retries>>

\* What run_once may see of min(lease_seconds, 2 ** (attempt - 1)).
Backoff(n) == IF 2 ^ (n - 1) < LeaseSeconds THEN 2 ^ (n - 1) ELSE LeaseSeconds

ASSUME BackoffAssumption == \A n \in 1..MaxAttempts : Backoff(n) \in Backoffs

Names(w) == Serves[w] \o Supersedes[w]
Bound(d) == {s \in Sessions : row[s].executable = d}

\* The worker goes on with the next run_once.
Returns(w) ==
  /\ phase' = [phase EXCEPT ![w] = "polling"]
  /\ held' = [held EXCEPT ![w] = None]
  /\ offset' = [offset EXCEPT ![w] = 0]
  /\ UNCHANGED cursor
-----------------------------------------------------------------------------
(* Registration. *)

\* Defect to be caught: a version that is bound already is taken as it is.
RegisterAnyway(w) ==
  LET d == Serves[w][offset[w] + 1]
  IN  /\ phase[w] = "starting"
      /\ \/ BindDefinition(d, Build[w][d]) /\ UNCHANGED issued
         \/ contracts[d] # None /\ UNCHANGED vars
      /\ IF offset[w] + 1 < Len(Serves[w])
           THEN /\ offset' = [offset EXCEPT ![w] = @ + 1]
                /\ UNCHANGED <<phase, held, cursor>>
           ELSE Returns(w)
      /\ UNCHANGED <<spent, retries>>

\* register, once per executable: bind_definition accepts the same contract
\* again.  After the last one the worker polls.
Register(w) ==
  LET d == Serves[w][offset[w] + 1]
  IN  /\ phase[w] = "starting"
      /\ \/ BindDefinition(d, Build[w][d]) /\ UNCHANGED issued
         \/ contracts[d] = Build[w][d] /\ UNCHANGED vars
      /\ IF offset[w] + 1 < Len(Serves[w])
           THEN /\ offset' = [offset EXCEPT ![w] = @ + 1]
                /\ UNCHANGED <<phase, held, cursor>>
           ELSE Returns(w)
      /\ UNCHANGED <<spent, retries>>

\* A version whose contract changed is refused and the process ends.
Refuse(w) ==
  LET d == Serves[w][offset[w] + 1]
  IN  /\ phase[w] = "starting"
      /\ contracts[d] \notin {None, Build[w][d]}
      /\ phase' = [phase EXCEPT ![w] = "refused"]
      /\ UNCHANGED <<vars, held, cursor, offset, spent, retries>>
-----------------------------------------------------------------------------
(* run_once: one claim per name, starting at the cursor. *)

Index(w) == (cursor[w] + offset[w]) % Len(Names(w))

PollClaims(w, s) ==
  /\ phase[w] = "polling"
  /\ ClientClaims(w, Bound(Names(w)[Index(w) + 1]), s)
  /\ phase' = [phase EXCEPT ![w] = "running"]
  /\ held' = [held EXCEPT ![w] = ActivationOf(s)]
  /\ cursor' = [cursor EXCEPT ![w] = (Index(w) + 1) % Len(Names(w))]
  /\ offset' = [offset EXCEPT ![w] = 0]
  /\ UNCHANGED <<spent, retries>>

\* Defect to be caught: the scan does not stop after the last name.
PollsOn(w) ==
  LET scope == Bound(Names(w)[Index(w) + 1])
  IN  /\ phase[w] = "polling"
      /\ \/ ClaimNothing(scope) /\ UNCHANGED issued
         \/ (\A s \in scope : ~Ready(s)) /\ UNCHANGED vars
      /\ offset' = [offset EXCEPT ![w] = @ + 1]
      /\ UNCHANGED <<phase, held, cursor, spent, retries>>

PollNothing(w) ==
  LET scope == Bound(Names(w)[Index(w) + 1])
  IN  /\ phase[w] = "polling"
      /\ \/ ClaimNothing(scope) /\ UNCHANGED issued
         \/ (\A s \in scope : ~Ready(s)) /\ UNCHANGED vars
      /\ offset' = [offset EXCEPT ![w] = (@ + 1) % Len(Names(w))]
      /\ UNCHANGED <<phase, held, cursor, spent, retries>>

Migrates(w, d) == d \in Elements(Supersedes[w])

\* What the handler may propose for activation a: a migration continues, and
\* is rebound to its target whether the handler said so or not.
Handled(w, a) ==
  {p \in Proposals(a.events) :
     /\ Migrates(w, a.executable) =>
          ~p.complete /\ p.rebind = Target[w][a.executable]
     /\ (\E t \in Sessions : p.publish[t] # None) => a.executable \in Sending
     /\ p.deadline # None => a.executable \in Timed}

\* commit returns, or its reply is lost and the worker sees an error.
Finish(w, p) ==
  /\ phase[w] = "running"
  /\ Commit(held[w], p) /\ UNCHANGED issued
  /\ spent' = spent \cup {held[w].token}
  /\ \/ Returns(w)
     \/ phase' = [phase EXCEPT ![w] = "failing"] /\ UNCHANGED <<held, cursor, offset>>
  /\ UNCHANGED retries

\* The handler raises, its proposal is not one, or the store rejects it.
Raise(w) ==
  /\ phase[w] = "running"
  /\ phase' = [phase EXCEPT ![w] = "failing"]
  /\ UNCHANGED <<vars, held, cursor, offset, spent, retries>>

\* _release: a stale release is logged and changes nothing.
GiveBack(w) ==
  /\ phase[w] = "failing"
  /\ \/ Release(held[w], Backoff(held[w].attempt), held[w].attempt) /\ UNCHANGED issued
     \/ ~Holds(held[w]) /\ UNCHANGED vars
  /\ Returns(w)
  /\ UNCHANGED <<spent, retries>>

\* The process dies with its step, and is started again.
Crash(w) ==
  /\ phase[w] \in {"running", "failing"}
  /\ phase' = [phase EXCEPT ![w] = "starting"]
  /\ held' = [held EXCEPT ![w] = None]
  /\ cursor' = [cursor EXCEPT ![w] = 0]
  /\ offset' = [offset EXCEPT ![w] = 0]
  /\ UNCHANGED <<vars, spent, retries>>
-----------------------------------------------------------------------------
DInit ==
  /\ Init
  /\ phase = [w \in Workers |-> "starting"]
  /\ held = [w \in Workers |-> None]
  /\ cursor = [w \in Workers |-> 0]
  /\ offset = [w \in Workers |-> 0]
  /\ spent = {} /\ retries = 0

\* What a worker process does next; at any time one kind of step applies.
Work(w) ==
  \/ Crash(w) \/ Raise(w) \/ GiveBack(w)
  \/ Register(w) \/ Refuse(w)
  \/ PollNothing(w) \/ \E s \in Sessions : PollClaims(w, s)
  \/ held[w] # None /\ \E p \in Handled(w, held[w]) : Finish(w, p)

Producer ==
  /\ \/ \E s \in Sessions, d \in Definitions : Create(s, d)
     \/ \E s \in Sessions, m \in Mail : AppendMail(s, m)
  /\ UNCHANGED <<issued, workers, spent, retries>>

Operator ==
  /\ retries < MaxRetries
  /\ \E s \in Sessions : Retry(s)
  /\ retries' = retries + 1
  /\ UNCHANGED <<issued, workers, spent>>

Clock == Tick /\ UNCHANGED <<issued, workers, spent, retries>>

DNext ==
  \/ \E w \in Workers : Work(w)
  \/ Producer \/ Operator \/ Clock

\* Time passes, a worker process keeps running its loop, and a handler ends:
\* it returns, raises, or its process is killed.
Fairness ==
  /\ WF_dvars(Clock)
  /\ \A w \in Workers : WF_dvars(Work(w))

DSpec == DInit /\ [][DNext]_dvars /\ Fairness
-----------------------------------------------------------------------------
(* Properties. *)

\* A worker holds an activation that the store issued to it exactly while it
\* runs a handler or is about to give the step back, and never looks past the
\* end of what it registers or polls.
WorkersOK ==
  /\ phase \in [Workers -> {"starting", "refused", "polling", "running", "failing"}]
  /\ held \in [Workers -> issued \cup {None}]
  /\ cursor \in [Workers -> Nat] /\ offset \in [Workers -> Nat]
  /\ \A w \in Workers :
       /\ IF phase[w] \in {"running", "failing"} THEN held[w] \in issued
                                                ELSE held[w] = None
       /\ cursor[w] < Len(Names(w)) /\ offset[w] < Len(Names(w))
       /\ phase[w] = "starting" => offset[w] < Len(Serves[w])
  /\ \A n \in spent : n \in Nat /\ n < nextToken
  /\ retries \in 0..MaxRetries

\* A session is stepped only by code of the version it is bound to: whoever can
\* still commit loaded the contract the store has for the session's current
\* definition, or declared an upgrade from it.
StepsRunTheirVersion ==
  \A w \in Workers : held[w] # None /\ Holds(held[w]) =>
    LET d == row[held[w].session].executable
    IN  /\ held[w].executable = d
        /\ \/ d \in Elements(Serves[w]) /\ contracts[d] = Build[w][d]
           \/ Migrates(w, d) /\ contracts[Target[w][d]] = Build[w][Target[w][d]]

\* A commit whose reply was lost stays final: the release that follows it, or
\* any later use of the activation, finds it stale.
SpentIsFenced ==
  \A a \in issued : a.token \in spent => ~Holds(a)

\* The workers use the store as its specification says, so all that is proved
\* of the store holds under them.
ImplementsStore == Spec

Served(d) == \E w \in Workers : /\ phase[w] \in {"polling", "running", "failing"}
                                /\ d \in Elements(Names(w))

\* Every step ends: a session that is new, claimed, has mail or has a deadline is
\* checkpointed or given up as failed, through crashes, expired leases,
\* backoffs, rejected proposals and lost replies.  (After an operator's retry the
\* bound on claims may be reached first.)
StepsResolve ==
  \A s \in Sessions : \A r \in 0..(MaxRevision - 1) :
    /\ row[s].revision = r
    /\ \/ row[s].status \in {"ready", "active"}
       \/ row[s].status = "waiting" /\ (row[s].deadline # None \/ Pending(s) # {})
    /\ Served(row[s].executable)
    ~> \/ row[s].revision # r \/ row[s].status = "failed"
       \/ retries > 0 /\ nextToken > MaxClaims
=============================================================================
