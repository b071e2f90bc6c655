-------------------------------- MODULE Runner --------------------------------
(***************************************************************************)
(* The shard runner (src/entourage/runner.py) and the worker processes it  *)
(* starts and kills.  It never talks to a worker: a tick reads processes,  *)
(* then the store, in several separate steps, and acts on what it read.    *)
(* Between any two steps of a tick workers claim, commit, hang, die or     *)
(* leave, and the clock runs.  The store is LocalSessions, and Workers are *)
(* the names of processes.                                                 *)
(*                                                                         *)
(* A name "<shard>-<alias>-<serial>" is never used twice by one runner; a  *)
(* name that nothing records any more stands for a fresh one.  Times count *)
(* down as they do in the store, from the step that sets them.             *)
(***************************************************************************)
EXTENDS LocalSessions, Integers, FiniteSetsExt

CONSTANTS
  Order,       \* the members' aliases in manifest order
  Definition,  \* per member, the definition it serves
  Eager,       \* members with start: eager
  Reserved,    \* per member, workers outside the shared pool
  Parallel,    \* per member, most workers at once
  Resident,    \* members with idle_exit: never
  Pool,        \* shared worker slots
  Notify,      \* the session that receives failure notices, or None
  MaxBackoff,  \* max_backoff
  MaxRetries,  \* bound: retries by an operator in a behaviour
  MaxFaults    \* bound: ticks that raise, workers that die idle, runner restarts

Members == Elements(Order)

ASSUME MembersAssumption ==
  /\ Order \in Seq(Members) \ {<<>>}
  /\ \A i, j \in DOMAIN Order : Order[i] = Order[j] => i = j
  /\ Definition \in [Members -> Definitions]
  /\ Eager \subseteq Members /\ Resident \subseteq Members
  /\ Reserved \in [Members -> Nat]
  /\ Parallel \in [Members -> Nat \ {0}]
  /\ \A m \in Members : Reserved[m] <= Parallel[m]
  /\ None \notin Members /\ Notify \in Sessions \cup {None}
  /\ IsFiniteSet(Workers)
  /\ Pool \in Nat /\ MaxBackoff \in Nat \ {0}
  /\ MaxRetries \in Nat /\ MaxFaults \in Nat

VARIABLES
  proc,      \* per name: gone, idle, leaving, running (a handler) or hung
  member,    \* per name: the member it runs, or None
  held,      \* per name: the activation it works on, or None
  stage,     \* where the tick is: rest, reap, kill or start
  running,   \* the live processes the tick saw, less those it killed
  seen,      \* Runner._seen
  expired,   \* tokens whose lease was over at the tick's "now"
  holders,   \* workers on the active rows the tick listed
  stuck,     \* those of them with a row whose lease was over
  failures,  \* notices the tick has still to send
  turn,      \* the member whose start is decided next
  shared,    \* shared_used
  startable, \* members whose _next_start had come at the tick's "now"
  backoff,   \* Runner._backoff
  hold,      \* time left to Runner._next_start
  recycled,  \* names that a row still records and this runner may give again
  reported,  \* history: failed sessions whose failure gave a new notice
  retries,   \* how many retries there were
  faults     \* how many faults there were

procs == <<proc, member, held>>
snapshot == <<running, expired, holders, stuck, failures, turn, shared, startable>>
memory == <<seen, backoff, hold, recycled>>
runner == <<stage, snapshot, memory>>
rvars == <<vars, procs, runner, reported, retries, faults>>

Alive(p) == proc[p] # "gone"
Bound(d) == {s \in Sessions : row[s].executable = d}

Bounded(d) == Min({MaxBackoff, Max({1, d})})

Count(m) == Cardinality({p \in running : member[p] = m})
Idle(m) == Cardinality({p \in running \ holders : member[p] = m})
\* The n-th worker of a member, for all members and n.
Places == Members \X (1..Cardinality(Workers))
SharedUsed == Cardinality({w \in Places : Reserved[w[1]] < w[2] /\ w[2] <= Count(w[1])})
Wanted(m) == IF m \in Eager THEN Max({Reserved[m], 1}) ELSE 0

\* A name that neither a process, nor a row, nor the runner remembers.
Fresh(p) == /\ ~Alive(p) /\ p \notin running \cup seen \cup holders \cup stuck
            /\ \A s \in Sessions : row[s].worker # p
-----------------------------------------------------------------------------
(* Worker processes: worker.py and Dispatcher.run_forever, for one          *)
(* definition each.                                                         *)

Becomes(p, state) == proc' = [proc EXCEPT ![p] = state]
Drops(p) == held' = [held EXCEPT ![p] = None]

Poll(p) ==
  /\ proc[p] = "idle"
  /\ \E s \in Sessions : /\ ClientClaims(p, Bound(Definition[member[p]]), s)
                         /\ held' = [held EXCEPT ![p] = ActivationOf(s)]
  /\ Becomes(p, "running")
  /\ UNCHANGED <<member, runner, reported, retries, faults>>

\* A poll that claims nothing, and parks what it finds exhausted.
EmptyPoll(p) ==
  LET scope == Bound(Definition[member[p]])
  IN  \/ ClaimNothing(scope) /\ UNCHANGED issued
      \/ (\A s \in scope : ~Ready(s)) /\ UNCHANGED vars

StayIdle(p) ==
  /\ proc[p] = "idle" /\ EmptyPoll(p)
  /\ UNCHANGED <<procs, runner, reported, retries, faults>>

\* The empty poll after which idle_exit is over; the process ends later.
IdleExit(p) ==
  /\ proc[p] = "idle" /\ member[p] \notin Resident /\ EmptyPoll(p)
  /\ Becomes(p, "leaving")
  /\ UNCHANGED <<member, held, runner, reported, retries, faults>>

Leave(p) ==
  /\ proc[p] = "leaving"
  /\ Becomes(p, "gone")
  /\ UNCHANGED <<vars, member, held, runner, reported, retries, faults>>

\* A handler's outcome as far as the runner can tell: no mail and no children.
Outcomes(a) ==
  {p \in Proposals(a.events) : \A s \in Sessions : p.publish[s] = None /\ p.spawn[s] = None}

Finish(p) ==
  /\ proc[p] = "running"
  /\ \E o \in Outcomes(held[p]) : Commit(held[p], o)
  /\ Becomes(p, "idle") /\ Drops(p)
  /\ UNCHANGED <<issued, member, runner, reported, retries, faults>>

\* The step fails or finds its lease gone; a stale release changes nothing.
GiveBack(p) ==
  /\ proc[p] = "running"
  /\ \/ \E after \in Backoffs : Release(held[p], after, held[p].attempt) /\ UNCHANGED issued
     \/ ~Holds(held[p]) /\ UNCHANGED vars
  /\ Becomes(p, "idle") /\ Drops(p)
  /\ UNCHANGED <<member, runner, reported, retries, faults>>

Hang(p) ==
  /\ proc[p] = "running"
  /\ Becomes(p, "hung")
  /\ UNCHANGED <<vars, member, held, runner, reported, retries, faults>>

\* A process dies in a step, or (rarely) between two.
Die(p) ==
  /\ \/ proc[p] \in {"running", "hung"} /\ UNCHANGED faults
     \/ /\ proc[p] \in {"idle", "leaving"} /\ faults < MaxFaults
        /\ faults' = faults + 1
  /\ Becomes(p, "gone") /\ Drops(p)
  /\ UNCHANGED <<vars, member, runner, reported, retries>>
-----------------------------------------------------------------------------
(* One tick. *)

\* Defect to be caught: a worker that announced its exit is taken for gone.
ObservedServing == {p \in Workers : proc[p] \notin {"gone", "leaving"}}

Observed == {p \in Workers : Alive(p)}

\* now and launcher.running().
Observe ==
  /\ stage = "rest"
  /\ stage' = "reap"
  /\ running' = Observed
  /\ expired' = {row[s].token : s \in {t \in Sessions : row[t].lease = 0}}
  /\ startable' = {m \in Members : hold[m] = 0}
  /\ UNCHANGED <<vars, procs, memory, holders, stuck, failures, turn, shared,
                 reported, retries, faults>>

\* _observe_exits, for one vanished worker: did it run only briefly?
ObserveExit(p, quick) ==
  LET m == member[p]
      wait == Bounded(2 * backoff[m])
  IN  /\ stage = "reap" /\ p \in seen \ running
      /\ seen' = seen \ {p}
      /\ IF quick
           THEN /\ backoff' = [backoff EXCEPT ![m] = wait]
                /\ hold' = [hold EXCEPT ![m] = wait]
                /\ startable' = startable \ {m}
           ELSE /\ backoff' = [backoff EXCEPT ![m] = 0]
                /\ UNCHANGED <<hold, startable>>
      /\ UNCHANGED <<vars, procs, stage, running, expired, holders, stuck, failures,
                     turn, shared, recycled, reported, retries, faults>>

ActiveRows == {s \in Sessions : row[s].status = "active"}

\* Defects to be caught: a holder that is not running any more is killed too, or
\* the last attempt's holder is left to the claim that parks its session.
StuckOrGone == {row[s].worker : s \in {t \in ActiveRows : row[t].token \in expired}}
StuckWithAttempts ==
  running \cap {row[s].worker : s \in
    {t \in ActiveRows : row[t].token \in expired /\ row[t].attempts < MaxAttempts}}

\* A live worker whose lease expired.
Stuck == running \cap {row[s].worker : s \in {t \in ActiveRows : row[t].token \in expired}}

\* list_sessions(status="active"), and who of its holders is stuck.
ListActive ==
  /\ stage = "reap" /\ seen \subseteq running
  /\ seen' = running
  /\ holders' = {row[s].worker : s \in ActiveRows}
  /\ stuck' = Stuck
  /\ expired' = {}
  /\ stage' = "kill"
  /\ UNCHANGED <<vars, procs, backoff, hold, recycled, running, failures, turn, shared,
                 startable, reported, retries, faults>>

\* launcher.kill, for one of them, dead or alive.
Kill(p) ==
  /\ stage = "kill" /\ p \in stuck
  /\ Becomes(p, "gone") /\ Drops(p)
  /\ stuck' = stuck \ {p}
  /\ running' = running \ {p}
  /\ UNCHANGED <<vars, member, memory, stage, expired, holders, failures, turn, shared,
                 startable, reported, retries, faults>>

Notice(f) == <<"runner:failed", f[1], f[2], f[3]>>

ASSUME NoticeAssumption ==
  \A s \in Sessions, r \in 0..MaxRevision, n \in 0..MaxAttempts :
    Notify # None => Notice(<<s, r, n>>) \in Mail

\* notify_failures lists the failed sessions.  The counts, the idle workers and
\* shared_used are taken after it, from snapshots that do not change any more.
ListFailed ==
  /\ stage = "kill" /\ stuck = {}
  /\ failures' = IF Notify = None THEN {}
                 ELSE {<<s, row[s].revision, row[s].attempts>> :
                         s \in {t \in Sessions : row[t].status = "failed"}}
  /\ shared' = SharedUsed
  /\ stage' = "start" /\ turn' = 1
  /\ UNCHANGED <<vars, procs, memory, running, expired, holders, stuck,
                 startable, reported, retries, faults>>

\* One notice is appended for each; a known one is absorbed, and one that cannot
\* be delivered is logged.
SendNotice(f) ==
  /\ stage = "start" /\ f \in failures
  /\ failures' = failures \ {f}
  /\ \/ /\ AppendMail(Notify, Notice(f)) /\ UNCHANGED issued
        /\ reported' = IF row[f[1]].status = "failed" THEN reported \cup {f[1]} ELSE reported
     \/ /\ Notice(f) \in Accepted(Notify) \/ row[Notify].status \in {"absent", "complete"}
        /\ UNCHANGED <<vars, reported>>
  /\ UNCHANGED <<procs, memory, stage, running, expired, holders, stuck, turn, shared,
                 startable, retries, faults>>

\* The tick is over after the last member.
NextMember ==
  IF turn < Len(Order)
    THEN turn' = turn + 1 /\ UNCHANGED <<stage, running, holders, startable>>
    ELSE /\ stage' = "rest" /\ turn' = 0
         /\ running' = {} /\ holders' = {} /\ startable' = {}

Launch(m) ==
  /\ \E p \in {CHOOSE q \in Workers : Fresh(q)} \cup {q \in recycled : member[q] = m} :
       /\ Fresh(p) \/ p \in recycled
       /\ Becomes(p, "idle")
       /\ member' = [member EXCEPT ![p] = m]
       /\ recycled' = recycled \ {p}
  /\ hold' = [hold EXCEPT ![m] = backoff[m]]
  /\ UNCHANGED <<held, seen, backoff>>

Skip == UNCHANGED <<procs, memory>>

\* shared_used for the next member.
Carries(n) == shared' = IF turn < Len(Order) THEN n ELSE 0

Missing(m) == Count(m) < Wanted(m)

StartEager(m) ==
  /\ Missing(m)
  /\ IF m \in startable THEN Launch(m) ELSE Skip
  /\ Carries(shared)

\* Defect to be caught: a start does not use up a slot in this tick.
SharedUncounted(m) == shared

SharedWith(m) == IF Count(m) >= Reserved[m] THEN shared + 1 ELSE shared

ReadyFor(m) == {s \in Bound(Definition[m]) : Ready(s)}

\* Defect to be caught: one ready session waits for a second one.
NeededLate(m) == /\ Cardinality(ReadyFor(m)) > Idle(m) + 1
                 /\ Count(m) < Parallel[m]

Needed(m) == /\ Cardinality(ReadyFor(m)) > Idle(m)
             /\ Count(m) < Parallel[m]
Admitted(m) == Count(m) < Reserved[m] \/ shared < Pool

StartOnDemand(m) ==
  /\ ~Missing(m) /\ Needed(m) /\ Admitted(m) /\ m \in startable
  /\ Launch(m)
  /\ Carries(SharedWith(m))

StartNone(m) ==
  /\ ~Missing(m) /\ ~(Needed(m) /\ Admitted(m) /\ m \in startable)
  /\ Skip
  /\ Carries(shared)

Decide ==
  /\ stage = "start" /\ failures = {}
  /\ LET m == Order[turn] IN StartEager(m) \/ StartOnDemand(m) \/ StartNone(m)
  /\ NextMember
  /\ UNCHANGED <<vars, expired, stuck, failures, reported, retries, faults>>

\* What every tick forgets when it ends.
Forgets ==
  /\ stage' = "rest" /\ turn' = 0 /\ shared' = 0
  /\ running' = {} /\ expired' = {} /\ holders' = {} /\ stuck' = {}
  /\ failures' = {} /\ startable' = {}

\* The store or the launcher raises; run logs it and ticks again.
TickRaises ==
  /\ stage # "rest" /\ stage = "reap" => seen \subseteq running
  /\ faults < MaxFaults /\ faults' = faults + 1
  /\ Forgets
  /\ seen' = IF stage = "reap" THEN running ELSE seen
  /\ UNCHANGED <<vars, procs, backoff, hold, recycled, reported, retries>>

\* The runner ends and another starts: no worker survives (stop_all,
\* reap_orphans), and nothing of its memory does.
Restart ==
  /\ faults < MaxFaults /\ faults' = faults + 1
  /\ proc' = [p \in Workers |-> "gone"]
  /\ held' = [p \in Workers |-> None]
  /\ Forgets
  /\ seen' = {} /\ backoff' = [m \in Members |-> 0] /\ hold' = [m \in Members |-> 0]
  /\ recycled' = {row[s].worker : s \in Sessions} \ {None}
  /\ UNCHANGED <<vars, member, reported, retries>>
-----------------------------------------------------------------------------
RInit ==
  /\ Init
  /\ proc = [p \in Workers |-> "gone"]
  /\ member = [p \in Workers |-> None]
  /\ held = [p \in Workers |-> None]
  /\ stage = "rest" /\ turn = 0 /\ shared = 0
  /\ running = {} /\ seen = {} /\ expired = {} /\ holders = {} /\ stuck = {}
  /\ failures = {} /\ startable = {}
  /\ backoff = [m \in Members |-> 0] /\ hold = [m \in Members |-> 0]
  /\ recycled = {} /\ reported = {} /\ retries = 0 /\ faults = 0

Tick1 ==
  \/ Observe
  \/ \E p \in Workers, quick \in BOOLEAN : ObserveExit(p, quick)
  \/ ListActive \/ (\E p \in stuck : Kill(p))
  \/ ListFailed \/ (\E f \in failures : SendNotice(f))
  \/ Decide

Work(p) == Poll(p) \/ StayIdle(p) \/ Leave(p) \/ Finish(p) \/ GiveBack(p)

Producer ==
  /\ \E s \in Sessions, d \in Definitions : Create(s, d)
  /\ UNCHANGED <<issued, procs, runner, reported, retries, faults>>

Operator ==
  /\ retries < MaxRetries /\ retries' = retries + 1
  /\ \E s \in Sessions : Retry(s) /\ reported' = reported \ {s}
  /\ UNCHANGED <<issued, procs, runner, faults>>

Clock ==
  /\ Tick
  /\ hold' = [m \in Members |-> CountDown(hold[m])]
  /\ UNCHANGED <<issued, procs, stage, snapshot, seen, backoff, recycled,
                 reported, retries, faults>>

RNext ==
  \/ Tick1 \/ TickRaises \/ Restart
  \/ \E p \in Workers : Work(p) \/ IdleExit(p) \/ Hang(p) \/ Die(p)
  \/ Producer \/ Operator \/ Clock

\* The runner keeps ticking, time passes, a worker that does not hang or die
\* keeps working, and an idle one ends some time.
Fairness ==
  /\ WF_rvars(Tick1) /\ WF_rvars(Clock)
  /\ \A p \in Workers : WF_rvars(Work(p)) /\ WF_rvars(IdleExit(p))

RSpec == RInit /\ [][RNext]_rvars /\ Fairness
-----------------------------------------------------------------------------
(* Properties. *)

Workforce(m) == {p \in Workers : Alive(p) /\ member[p] = m}

\* A worker holds an issued activation exactly while a handler runs, and the
\* runner's snapshots are of names it may act on.
RunnerOK ==
  /\ proc \in [Workers -> {"gone", "idle", "leaving", "running", "hung"}]
  /\ member \in [Workers -> Members \cup {None}]
  /\ held \in [Workers -> issued \cup {None}]
  /\ \A p \in Workers :
       /\ IF proc[p] \in {"running", "hung"} THEN held[p] \in issued ELSE held[p] = None
       /\ Alive(p) => member[p] # None
  /\ stage \in {"rest", "reap", "kill", "start"}
  /\ turn \in 0..Len(Order) /\ (turn > 0 <=> stage = "start")
  /\ stuck \subseteq running \cap holders
  /\ backoff \in [Members -> 0..MaxBackoff] /\ hold \in [Members -> 0..MaxBackoff]

\* No member ever has more processes than parallel allows, however stale the
\* counts are that a start is decided on.
ParallelBound == \A m \in Members : Cardinality(Workforce(m)) <= Parallel[m]

\* The processes beyond what members are promised never exceed the pool, though
\* they are counted before the members are looked at one by one.
Overflow ==
  {w \in Places : /\ Max({Reserved[w[1]], Wanted(w[1])}) < w[2]
                  /\ w[2] <= Cardinality(Workforce(w[1]))}
PoolBound == Cardinality(Overflow) <= Pool

\* A hung worker is killed (docs/runner-shards.md: "the runner kills it to free
\* the slot").
HungIsKilled == \A p \in Workers : proc[p] = "hung" ~> proc[p] # "hung"

\* A session of the shard that is ready is claimed, parked or given a later time,
\* whatever hangs, dies or leaves meanwhile: an exhausted pool delays it, and no
\* idle, leaving or hung worker holds back its start for ever.  (The bound on
\* claims may be reached before a session that a notice reopened is claimed.)
ReadyServed ==
  \A s \in Sessions :
    Ready(s) /\ (\E m \in Members : Definition[m] = row[s].executable)
      ~> ~Ready(s) \/ nextToken > MaxClaims

\* A failure gives a notice of its own, also when the session was retried after
\* an earlier one, unless it is retried before or nobody can be notified
\* (notify_failures: "a session that is retried and fails again is reported
\* again").  A retry sets the attempts back, so the second failure may have the
\* id of the first.  (The failures of the notified session itself are left aside.)
FailureNoticed ==
  \A s \in Sessions \ {Notify} :
    row[s].status = "failed" ~>
      \/ s \in reported \/ row[s].status # "failed"
      \/ row[Notify].status \in {"absent", "complete"}
=============================================================================
