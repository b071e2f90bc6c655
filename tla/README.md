# Entourage: a verification development

Entourage (`src/entourage`) runs durable agents. An agent is a *session*: a row
in a store, an inbox of mail, and a handler that is called with a bounded batch
of that mail and answers with one checkpoint. Worker processes claim sessions
under leases, run the handler outside any transaction, and commit the
checkpoint, the mail it sends and the children it creates in one transaction.
An older graph runtime (`src/entourage/runtime`), retired but still in the
tree, runs plans of nodes over pluggable stores, queues and mailboxes.
This directory models both in TLA+, checks the models with TLC on small
instances and proves theorems about them with TLAPS.

## 1. The system

| Component | Code | State it keeps | Operations |
|---|---|---|---|
| Session store | `sessions.py`, contract in `session_backend.py` | SQLite tables `wake_definitions`, `wake_sessions` (status, executable, state, deadline, lease, token, worker, revision, attempts, last_claim, last_error) and `wake_inputs` (seq, id, incorporated) | `bind_definition`, `create`, `append`, `claim`, `commit`, `release`, `retry`, `purge`, `inspect`, `list_sessions` |
| Dispatcher, worker | `executables.py`, `worker.py` | per process: registered executables, upgrades, polling cursor | `register`, `run_once`, `_release`, the worker's loop |
| Shard runner | `runner.py` | per member: child processes by name, restart backoff | `tick` (list, observe exits, kill, notify, start), `run` |
| Session ingress | `session_ingress.py` | none beyond the store | `ensure`, `ensure_session`, `route`, `deliver` |
| Exchanges, panel, chat agent | `exchanges.py`, `panel.py`, `turn.py`, `deferred_tools.py` | checkpointed JSON: open exchanges, tool calls held open, deferred results, buffered messages | ingest, delegate, steer, answer, cancel, ask, promote, fail, settle |
| Graph engine (retired) | `runtime/queue.py`, `runtime/local.py`, `runtime/client.py`, `runtime/sqs.py`, `ingress.py` | the message in work and what is left of it | triggers, execution, retries, waits, effects, actors, monitors, recovery, garbage collection |
| Graph stores, planner (retired) | `runtime/redis_store.py`, `store.py`, `memory.py`, `interfaces.py`, `planner.py`, `gc.py`, `flow.py` | sessions, executions, edges, index sets, serial keys | one per transition of an execution or session, `commit_transition`, queries |
| Ready queue (retired) | `runtime/redis_queue.py` | a list per fairness key, the active set, the in-flight hash | send, receive, ack, nack, reclaim |
| Mailboxes, monitors (retired) | `mailbox.py`, `redis_mailbox.py`, `monitors.py` | events with leases, deduplication keys; armed expectations | append, claim, acknowledge, release, purge; arm, observe, lapse |
| Configuration, tools, bot | `config.py`, `deployment.py`, `tools.py`, `memory.py`, `integrations/` | none of the protocol's | parsing, wiring, side effects |

**How they interact.** Everything durable goes through a store. A producer
(ingress, runner, another session's step) appends mail with an id of its own
choosing; the id is what makes a repeated call harmless. A worker claims the
least recently claimed ready session of a definition it serves and gets a
snapshot with a fresh token; the token and an unexpired lease are what `commit`
and `release` demand. A deadline becomes a mail when a claim finds it due. The
runner reads `list_sessions` and exit codes, and decides from these snapshots
which worker processes to kill and to start. Agents talk to each other by mail:
the panel matches the mail of one exchange to the tool call that opened it. The
graph engine takes execution messages from a queue, runs their nodes and
commits each transition to the graph store with an outbox of effects, which it
then applies one by one to the mailbox and the monitors; ingress and monitors
append mail that wakes parked executions and starts actors.

**What is hard.** A handler runs between two transactions, so everything it knows
may be stale when it commits: the lease may be gone, the session claimed by
another worker, rebound to another definition, and new mail may have arrived. A
worker dies or hangs at any point, and a reply may be lost after its transaction
was accepted. Retries repeat a step with the same mail; mail must then neither
be lost nor counted twice, and a deadline must not be delivered once per retry.
Completion must not strand mail that arrives meanwhile. Fleets of different
builds share a store during a deployment. Rotation, backoff, attempts and the
runner's process pool decide whether work is ever done. An agent gets the
answers, questions, failures and budgets of several exchanges in batches cut
anywhere, and owes its model exactly one result per tool call. On Redis a call
is several commands, between which other processes step in and the caller dies;
and the graph engine's effects follow its commits, so a crash repeats them.

**What makes each part correct.**

* *Store*: exactly-once incorporation, fencing of stale holders, a
  transactional outbox, one timer per checkpoint, no session stranded with its
  cause to run forgotten, nothing left in a complete session, no accepted mail
  dropped; abstractly, the session contract of section 3.
* *Dispatcher*: it uses the store only as the store's specification says, steps a
  session only with code of the version the session is bound to, never revives a
  commit that was accepted, and resolves every step.
* *Runner*: the pool bound, hung workers die, failures are noticed once and
  noticed always, ready sessions get a worker.
* *Ingress, panel and agent*: what a user writes is put to the model; every tool
  call gets one result; no mail finds its entry gone; a cancelled exchange stays
  cancelled; an answered question resumes its provider.
* *Graph engine and stores*: no execution before its parents, no work forgotten
  between messages, a mailbox event merged once, spawners and actors hear of
  their mail; each store is the reference store.
* *Queue and mailbox*: nothing sent is lost or stranded, sharing is fair,
  acknowledged mail never returns, everything is acknowledged in the end.

`PROJECT.json` lists the hazards at their lines.

## 2. Plan

The order is that of importance: everything rests on the store.

1. `LocalSessions` with `SessionContract` above it. *Done, checked and proved.*
2. `Dispatcher` over `LocalSessions`. *Done and checked; safety proved.*
3. `Runner` over `LocalSessions`. *Done and checked; both bounds proved.*
4. `ChatAgents`: agents, panels and exchanges over an abstract session store,
   with the ingress and the failure notices. *Done and checked; that cancelled
   work stays silent and that the agents keep the store's contract is proved.*
5. The graph runtime: `Planner`, `GraphStore` and `SqliteStore` under
   `GraphContract`, with `Mailbox` and `Monitors` under `GraphRuntime`. *Done and
   checked; that the stores' index sets are exact, and that mail is merged once, is
   proved.*
6. `RedisReadyQueue`, and `RedisMailbox` under `MailboxContract`. *Done and
   checked; safety and the mailbox's refinement proved.*
7. Left: the rotation by `last_claim` with sessions created without end (which
   sessions can starve); engine threads in parallel; theorems on the engine's
   order of execution (`PlanOrder`) and its refinement of `GraphContract`.

## 3. Modules and how they correspond to the code

### LocalSessions

`row`, `inbox`, `incorporated` and `contracts` are the store's tables; `issued` is
the set of activations clients ever got, `purged` is history. Each method of
the class runs in one `BEGIN IMMEDIATE` transaction, so each is one action:
`BindDefinition`, `Create`, `AppendMail`, `Claim` (which parks exhausted sessions
it passes, adds the timer, selects the batch) and `ClaimNothing`, `Release`,
`Retry`, `Commit` (checkpoint, children, publications, incorporation),
`Purge`. Calls that raise roll back and change nothing. `Ready` is the SQL
predicate `_READY`, `Holds` is `_holder`, `ValidProposal` the checks of
`_validate` and `_validate_state` and those made inside the transaction.

Abstractions. The clock is counted down: `lease` and `deadline` hold the time
left, 0 means past, and `Tick` is the only action that moves them. The JSON
state of a checkpoint is the set of events folded into it and the set of mail
its steps have sent, which is what exactly-once is about. Mail ids are the
structured values the code hashes (`mail:` of sender and key,
`timer:` of session and revision). A step publishes at most one mail per
destination. One `MaxAttempts`, `MaxEvents` and `LeaseSeconds` hold for all
claims. An error is the number of the attempt that recorded it. Clients are the
most general ones: any activation ever issued may be used again at any time.

### SessionContract

What a client is promised with no token, lease, attempt or clock in sight: a
session lives once at a time, mail is accepted once, and every mail moves from
unread to folded in one atomic step. `LocalSessions` implements it under
`life`, `unread`, `folded` (the operators `Life`, `Pending`, `Folded`).

### Dispatcher

Extends the store with processes. `phase` is where a worker is between two
transactions, `held` the activation in its hands, `cursor` and `offset` the
polling position. `Register` and `Refuse` are start-up, `PollClaims` and
`PollNothing` one claim each of `run_once` in rotation, `Finish` a commit that
returns or whose reply is lost, `Raise` everything that ends in `_release` without
a commit (handler error, invalid proposal, rejected commit), `GiveBack` that
release with its exponential backoff, and `Crash` the death and restart of the
process. A worker that hangs is one that takes no step while `Clock` runs. A
migration is a handler run whose proposal continues and is rebound to the
upgrade's target. What a handler may propose is bounded by its definition: those
in `Sending` publish, those in `Timed` set deadlines.

### Runner

Extends the store with the runner and its workers. `Workers` are process names:
`proc` says whether a name is gone, idle, leaving, running a handler or hung,
`member` which member it runs, `held` its activation. A worker here polls one
definition (`Poll`, `StayIdle`), ends after an idle period (`IdleExit`, `Leave`:
the runner may look in between), and finishes, fails, hangs or dies in a step.

A tick is not atomic: it reads the clock and the processes (`Observe`), accounts
for those that vanished (`ObserveExit`, one at a time), lists active rows
(`ListActive`), kills (`Kill`), lists failed rows (`ListFailed`), sends notices
(`SendNotice`), then decides member by member in manifest order (`Decide`), each
with a fresh list of its ready sessions. `running`, `expired`, `startable`,
`holders`, `stuck`, `failures` and `shared` are the tick's local variables, and
whatever happens between its steps makes them stale, as in the code. The
counts and the idle workers are computed from snapshots that no longer change,
so they are operators (`Count`, `Idle`). Reading a member's ready sessions and
starting a process for it are one step, because nothing else can see the
process in between. `seen`, `backoff` and `hold` are the runner's memory.
`TickRaises` ends a tick anywhere, as `run` allows. `Restart` is the orderly end of one
runner and the start of another: the workers are gone, the rows still name
them, and the new runner may give the same names again (`recycled`).

A member's name carries a serial that only grows, so a name is drawn that neither
a process, a row nor the runner remembers, always the same one among those that
are free. Failures are named by session, revision and attempts like their notices;
`reported` remembers whose failure got a new notice since it was retried last.
Whether an exit was quick is a free choice. A handler's outcome has no mail and
no children, because the runner reads neither.

### ChatAgents

The root agent, the providers it delegates to and the tools they await, each in a
session of its own over the store. A session is named by the call that spawned it
(`<<2, 1>>` is the first call of the root's second), a call's id is also its
request id. The store is abstract here: `Claim`, `GiveUp`, `Commit` and `Retry`
act on a row with status, wake-up, revision and attempts, and `OnContract` says
that they keep `SessionContract`, which is what `LocalSessions` implements.
A `Step` is a whole handler: it computes the proposal for the batch that was
claimed, in the order of `ChatAgent.resume`: ingest the replies and update the
panel, fold them, take the other mail, promote the waits whose budget passed,
flush; then park, or let the model take a turn. `mind` is the state dict: the
panel's table, the deferred results, whether messages are buffered, the role of
the last message, the job. The model is any model: `Replies` are all the turns of
at most `MaxTurnCalls` calls it is offered. `results`, `heard` and `calls` count
what went into the conversation. `Ensure` and `UserWrites` are the ingress: the
create and the append are two transactions with the worker between them.
`NotifyFailure` is the runner's notice, `Retry` an operator, `Elapse` a budget
running out.

### Planner, GraphStore, SqliteStore, GraphContract

`Planner` is the staging of sequences, parallels, conditionals, leaves and spawns
into executions and edges, recursive like the code; the engine takes it as the
constant `Stages`, which the runs instantiate. `GraphStore` has every
operation of the Redis store as an operator on the contents `db` of its keys:
rows, edges and the index sets beside them, which the scans of the engine read;
`CommitTransition` with `Splice` is the one pipeline that completes an execution,
splices its plan, spawns children and records the effects. `SqliteStore`
redefines the writes for the SQLite store: rows only, with what Redis keeps in
indexes computed by `Queried`, and a serial key that only its own row can free.
`RedisDoes` and `SqliteDoes` dispatch an operation of the engine, so that one
engine runs on both. `GraphContract` is the in-memory reference store: sessions,
executions and edges with no index and no key of their own, and the transition
commit as one step.

### Mailbox, Monitors, GraphRuntime

`Mailbox` and `Monitors` are the in-memory mailbox and the monitor store as
operators on a box and on a function of monitors; time is in the events (a lease
is held or expired, a monitor is late or not).

`GraphRuntime` is one engine thread. `todo` is what is left of the message in
work, a sequence of single operations of stores and queue, and `Do` performs the
first, so that a crash, an ingress or a clock fits between any two. `Execute` is
`_execute_node` up to the node's call, `Run` the call with any outcome the
program allows, `Proposes` what follows a transition and `Recoils` an exception;
`EffectSteps` is `_apply_effects`, one operation per effect, of which `ApplyOne` does
the first and any may raise (`ApplyRefused`: the rest stays in the outbox row until
the next start, and `left` remembers the events whose acknowledgement was cut off);
`Wait` the parked wait, `Create` and `Start`
`start_session`, `Recovery` the start-up scan, `Collect` the garbage collection.
`Resolve` and `Accept` are the ingress router on its own thread, each of its
calls a step. A program (`world`) is fixed in `Init`: what its nodes may return,
actors, routes, triggers, mail from outside, and which store it runs on.

### RedisReadyQueue

Each action is one Redis command or one pipeline, so workers interleave and die
between any two: a claim is `Pop`, then `Record`; a drained key is `Prune`,
`Recheck`, `Readd`; a nack is `Nack`, `Requeue`; a reclaim is `Scan`, then
`Reclaim` and `Restore` per payload. `hand` is a payload that is on no list and
not in flight. The scan of the in-flight hash counts as one command. Two history
variables name what a death takes: `dropped` the payloads that were in a dying
worker's hand, `forsaken` the keys it had taken off the active set and not looked at
again, until something is pushed there.

### RedisMailbox, MailboxContract

The mailbox on Redis takes a lock per call and then writes key by key; `todo` is
what a client has left to write: a kind of write and the members it is for. A
claim leases its events in order, an acknowledgement, a release and an unlisting
take the caller's ids in any order, an append and the pipeline of a purge are
one write. `Die` leaves a call in the middle with the lock taken, `LockTimesOut`
gives it up. `MailboxContract` is what any mailbox promises, with the operators
of `Mailbox`; a call on several events may show as several steps. The mapping
`Box` lists the events by the rank of their sequence numbers.

`Iteration` holds the one operator (`ForEach`) with which these modules and
`ChatAgents` transcribe a loop over a list.

### MC modules and proofs

`MCLocalSessions` declares the symmetry; `MCRollout` and `MCRunner` give the fleet
and the shard, `MCChatAgents` the tools on offer, `MCGraphRuntime` the programs,
`MCReadyQueue` and `MCMailbox` payloads and letters. `LocalSessionsProofs`,
`DispatcherProofs`, `RunnerProofs`, `ChatAgentsProofs`, `GraphRuntimeProofs`,
`RedisReadyQueueProofs` and `RedisMailboxProofs` hold the theorems (section 6),
and `Loops` what the proofs about loops share. Operators whose comment begins with
"Defect to be caught" are mutations that the properties must detect; no
specification uses them.

## 4. Runs

| Run | What it asks | What it shows |
|---|---|---|
| `store` | Two sessions under most general clients: any activation ever issued may commit or release at any time; they create each other, send mail to each other and themselves, and are purged. | The store's safety properties, through expired leases, backoffs, parking, retries, deadlines and partial batches: mail is folded in once and delivered exactly with its checkpoint, no step drops pending mail, and the store implements `SessionContract`. |
| `fleet` | Three builds in the middle of a deployment, one of them with a contract that was changed under the same version; a session that sends itself mail under one version and sets deadlines under the other; crashes, hung handlers, rejected publications, lost replies, backoffs, an operator's retry. | A session is stepped only by its version's code; an accepted commit stays final; every step, of a new session as of one that has mail or a deadline, is checkpointed or given up (`StepsResolve`). |
| `runner` | An eager member (up to two workers, one reserved) and one on demand over one shared slot; workers hang, die and leave between the steps of a tick, a tick raises or the runner restarts, an operator retries. | No member exceeds `parallel`, the members together never exceed the pool (`PoolBound`), and the tick never kills what it did not see running. |
| `runner_live` | Two on-demand members compete for one slot, one worker each; the notified session fails and completes itself. | Every ready session is served, and a hung worker is killed. |
| `agents` | A chat agent delegates to a provider that may ask, be steered, cancelled, interrupted, run out of budget or fail, and awaits tools; batches cut anywhere, redelivered steps, messages of the user, failure notices. | One result per tool call, no mail that a handler takes for unexpected, silence about cancelled work, answers resume and users are served; the store as used here is the contract's. |
| `engine` | Eleven programs: a spliced plan, a gate with a heartbeat, a spawned child with a monitor, a parked wait, an actor with three choices of what goes wrong, all on Redis; four of the kind on SQLite, among them an actor whose branches both fail. A crash between any two operations, an effect or a death notice that raises, collection. | Both stores are the reference store, executions follow their parents, nothing is stranded between messages, an event is merged once unless its acknowledgement raised, spawners and actors hear. |
| `queue` | Two workers claim, prune, nack and reclaim, at the grain of Redis commands, and may die between any two of them. | Nothing is lost but what a worker dies with in its hand, no list is stranded but one whose pruner dies, a receive shares fairly, everything else is acknowledged in the end. |
| `mailbox` | Two clients of the Redis mailbox, late duplicates, purges, and deaths in the middle of a call. | The keys implement the mailbox contract, acknowledged mail never returns, every letter is acknowledged in the end. |
| `hung_stays` | The same promise as in `runner_live` for a member with two workers. | It fails: the worker hangs, a second one claims the session, or parks it as failed, before the tick looks; nothing names the hung process any more and it keeps its slot. A finding. |
| `stall` | The same promise as in `agents` when a provider may call a tool after it has asked. | It fails: the answer brings one turn, the turn makes an ordinary call, and the step that brings the tool's result takes the question for still out and parks for ever. A finding. |
| `renotice` | That a session that is retried and fails again is reported again. | It fails: the retry sets the attempts back, the second failure has the id of the first notice, and `append` absorbs it. A finding. |
| `serial_twin` | The promise that sessions sharing a serial key never overlap, on Redis. | It fails: two branches of a session fail, the second failure frees the key that the next session holds by then, and a third starts beside it. A finding. SQLite frees only its own row's key: there the same program implements the contract (in `engine`). |

Every property of a passing run has a mutation in `PROJECT.json` that violates it
under the run's own configuration.

## 5. Bounds and fairness

**Store and workers.** `MaxClaims` caps tokens and `MaxRevision` checkpoints of a
session: they bound behaviours and nothing else reads them. Three claims
and two attempts reach what the store's hazards need: a lease that expires and is
taken over while the first holder still has its activation, a retry after a
failure, an exhausted session that is parked, retried by an operator and claimed
again. Two revisions are needed to tell the timer of one checkpoint from that of
the next. A batch of one event with up to three pending ones (outside mail,
another session's, a timer) makes bounded batches partial. One tick of lease is
enough to separate live from expired. Two sessions suffice for publication and
creation, which relate a sender to a destination; in `store` mail from outside goes
to one of them (`OneRoot`), and the other hears of the first and of its own
deadlines. `fleet` has one session, since the question is who steps it; it is its own
destination, and a step that completes it and publishes is rejected. Its old version
sends mail and its new one sets deadlines, over two checkpoints, so that a step
starts from a new session, from mail, from a timer and from a mixture. Five claims
cover two attempts per checkpoint and one spare; with a retry on top they may run
out, so after one `StepsResolve` accepts that the bound is reached.

For the runner two sessions and one attempt make sessions fail, release and come
back to more than one member; four names (five in `hung_stays`, three for the
one-worker members of `runner_live`) suffice because one is free again when
nothing remembers it (TLC would stop at a missing one). In `runner` a behaviour
has one retry or one fault (a raised tick, a restart or the death of an idle
worker), not both (`OneTrouble`), the two sessions are symmetric, and no step
commits (`MaxRevision` 0): handlers give back, hang or die, which is what the
bounds on processes depend on; commits are in `runner_live`. `hung_stays` needs
two attempts, so that a session can be claimed again while its first worker hangs.
The liveness runs have none of the faults. `ReadyServed` also accepts that the
bound on claims is used up: with one attempt a session is claimed once per cause
to run, so this happens only after every session was served as often as the bound
allows.

**Agents.** Two calls of the root and one of its provider are a delegation with
one control, or two concurrent exchanges; a claim of at most three mails over
longer inboxes cuts the batches; two messages of the user, one failure and one
operator's retry are enough to interrupt a wait, fail a provider or the root and
go on. A budget and an interrupting user race with the reply. `stall` gives the
provider a call after its question, which `agents` leaves out because of
that finding. Providers that delegate in turn (`Depth` 2) are out of TLC's reach
with all of this; section 7 says what was seen of them.

**Graph runtime.** Each program is as small as its feature: two nodes in sequence,
two in parallel, one spliced or spawned; two sessions of triggers or actors (three
in the branching actor), one crash and one effect that raises at any place; both
in one behaviour in the actor with one routed letter (`Routed`), where a restart
finds what the exception left. Operations of a second worker thread do not occur:
the engine's own parallelism is the ready queue's, which `queue` models with two
workers, two keys and a third payload that makes one list deeper than the other.
There one fault (a death, a nack or a slow worker) suffices for each hazard, and a
batch of two covers `max_messages`. Two ids, each for either of two conversations,
make the mailbox's duplicates, clashes and shared conversations; extras are two.

**Deaths that are left out.** `Uninterrupted` names the engine's operations that a
dying worker is assumed to finish with the next one: the writes of `start_session`
and the end of a session. A death there does strand work: see section 7. Everywhere
else, and on the ready queue and in the mailbox anywhere, workers die.

**Fairness.** In `Dispatcher`, `Clock` is weakly fair because time passes.
`Work(w)` is weakly fair as one whole: a worker process keeps running its loop
(`worker.py:45-64`), its handler returns, raises, or the process is killed and
started again. Nothing else is fair: no worker is promised to succeed, an
operator need not retry, and nobody need append mail. `StepsResolve` asks only
for sessions whose definition some started worker serves, and accepts `failed`,
which is what the attempts' limit exists for.

In `Runner` the runner's loop goes on (`Tick1`: `runner.py:369-374` ticks until it
is stopped, whatever a tick raises), time passes, and a worker that neither hangs
nor dies keeps polling or finishes its handler (`Work(p)`). `IdleExit(p)` is fair
because a worker without claims adds up its idle time until it leaves
(`executables.py:407-411`). A hung worker is one with no fair action: only the
runner's `Kill` or its death ends it. Neither hanging nor dying is fair.

In `ChatAgents` a session that stays ready or claimed is served (`Served`: the
rotation polls every session), notices are sent and budgets run out; no model,
user or operator has to do anything. In `GraphRuntime` the worker's loop and its
restart are weakly fair (`Serves`), and so are the clocks and an ingress that
accepted a message. Both are written out with the variables a step changes,
because TLC is slow on weak fairness of actions of that size. In
`RedisReadyQueue` workers go on working, abandoned claims age, and a reclaim
happens every so often (strong fairness of `Scan`: the code runs it in a receive
when its interval has passed, and an idle worker passes through that state over
and over). In `RedisMailbox` calls end, locks and leases lapse, and consumers
keep claiming and acknowledging; strong fairness, since the lock is taken and
freed by others again and again.

## 6. Proofs

`LocalSessionsProofs` proves, for every value of the constants that satisfies
`BoundsAssumption`, `NoneAssumption` and `MailAssumption`, that the store's
specification implies each of its safety properties, `PendingSurvives` and the
refinement of `SessionContract`.

None of the safety properties is inductive as it stands. `HolderIsCurrent` speaks of a
token with an unexpired lease, but a lease that is extended by nothing and
checked twice says little by itself. `IInv` adds what really fences: tokens are
fresh and unique (`TokensAreFresh`), a token is there exactly while a session is
active (`StatusIsConsistent`), and the activation of a current token is the
session's own snapshot and its pending mail (`TokenIsCurrent`), lease or no
lease. From these, `ExactlyOnce` follows at a commit: the state that the handler
extended is the one in the row. `CurrentTimerIsPending` (the current
checkpoint's timer was never incorporated) gives `CauseKept` its way: a step
that was due leaves its timer in the inbox, so a retry still has a cause.
`AbsentIsEmpty` says that a created session starts with nothing of a former one.
`OutboxHolds` needs in addition only that inboxes and the senders' states change
together. Each action has its own lemma; the theorems combine them.

`DispatcherProofs` proves of the workers: they implement the store's specification
(`WorkersUseStore`, so every theorem above holds under them), their own
bookkeeping is consistent, an accepted commit stays fenced, and no session is
stepped by code of another version. The invariant behind the last two says that a
spent token is in no row any more and that a current token's activation names the
row's definition, again whether or not the lease is alive.

`RunnerProofs` proves, from `MembersAssumption` and `NoticeAssumption`, that a
shard implements the store's specification, that the runner's records are
consistent, `ParallelBound` and `PoolBound`. A count that a tick starts from may
be stale in only one direction: workers die, leave or are killed, but only the
tick starts them, one member at a time. So the invariant is `AllCounted`: every
live worker of a member that has not had its turn yet is in the tick's snapshot.
It needs `NamesKept`, that a name given again after a restart is neither alive nor
in the snapshot, for otherwise a start could change which member a counted process
belongs to. The bound then follows by cardinalities: live workers are a subset of
the counted ones, of which there are fewer than `parallel`, and one is added.

`PoolBound` sums over all members what each has beyond its promise. A sum would
need induction over data, so it is counted: `Overflow` is the set of places
(member and number) beyond a promise that a live worker fills, and the bound is on
its cardinality. While a tick starts workers it does not look at the processes
again, so the invariant `PoolKept` adds that the places filled are at most
`shared`, the count the tick goes by, which every start beyond a reserve raises by
the one place it fills.

`RedisReadyQueueProofs` proves `NothingLost` and `NoneStranded` for any workers,
payloads, keys, backlog and batch, and any number of faults, with workers that die
between any two commands. What a death takes is in the statements (`dropped`,
`forsaken`), so they say that nothing else is lost or stranded. `NothingLost` counts
what a worker has in its batch, but that is not inductive, for a death empties
the batch; `AllHeld` is: whatever is neither acknowledged nor dropped is on its list,
in flight or in a hand, so that a batch may be forgotten at any time.
`QueueOK` says at which steps a worker has a payload in its hand, a key to prune
or a message to handle. For `FairShare`:
between two passes of a claim keys differ by where they stand in the pass, so the
invariant (`FairOK`) compares levels, a key's share and one more if its turn is
still to come: every key that had something each time it was asked is at the top
level.

`RedisMailboxProofs` proves `OnceOnly` for any clients, letters and limit, with
deaths at any place. A write checks nothing that its call has read, so the
invariant `BoxOK` is about plans (`PlanOK`): what a call read under the lock is
true until its last write. An id to append is unknown, what is to be leased is
claimable, what is to be dropped is acknowledged and there, a key to forget has no
event. Others cannot disturb this, since only the lock's holder has anything left
to write (`LockOK`) and time only makes more claimable. `KeysOK` is what keeps a
late duplicate out: every event and every settled id has its deduplication key.

The module's second theorem is that the Redis mailbox implements the contract.
The contract's box is a sequence and the keys are a set with scores, so its first
lemmas are about rank: distinct finite scores give every event a place of its own
and every place an event (`Order`); an event with a greater score is appended, a
changed event keeps its place, and removing events closes the gaps in order
(`Appended`, `Changed`, `Removed`). Then each write is a step of the contract,
whose guard comes from `BoxOK`: a lease takes a claimable event, a release has a
live lease, a purge takes acknowledged events only, and a forgotten key has no
event in the box.

`ChatAgentsProofs` proves `CancelledIsSilent` for any depth of delegation, any
tools, budgets and batches. A handler is a composition of loops, over the mail,
the replies, the rest of the mail and the calls of a turn, so the proof is about
what loops keep. `Loops` proves that once: what holds before a loop and is kept by
each turn of it holds after it, by induction over the list. Induction theorems
with an operator as a parameter are out of reach of the provers, so body and
invariant are CONSTANTS of `Loops`, which every loop instantiates with its own. The
invariant of them all is `Quiet`: what was cancelled before the step still is, and
the model has heard nothing more of it. Between the loop that ingests replies and
the one that folds them it says in addition which cancelled work is fenced, and
`IngestQuiet` shows that this is all of it that any reply in the batch is about;
this is where the property would fail without the fence. `MindOK` (entries are of
calls already made) keeps a new call from overwriting a cancelled entry.

The module's second theorem is `OnContract`: every step of the agents is one that
`SessionContract` allows. What the contract forbids are repetitions, mail accepted
twice or a session born twice, and completing over unread mail, so the proof is
about names. Two calls have the same name only if session and number agree
(`CallsAreNamed`). `Proposed` says of everything a handler may propose that what
it sends is named by calls it had not made before and what it spawns is named
like that too, or that it ends its job and sends the one result; `HandlerProposes`
proves it through the same loops as before. The invariant `AgentsOK` is the other
half: accepted mail comes from the past (a call already made, a user's message
already written, a result of a complete session), a session other than the root
is named by a call already made, the root never completes and nothing is in two
places at once. From both, mail is new to its receiver (`SentIsNew`) and a child
was absent (`BornIsNew`); that the commit refuses a target that is complete or
missing, and a completion over unread mail, gives the rest (`CommitAgents`).
`AgentsOK` and its parts were checked by TLC on the instances of both agent runs
before they were proved.

`GraphRuntimeProofs` proves two invariants of the graph engine, on either store, for
every program, every number of sessions, crashes and effects that raise, and every
`Uninterrupted`: a worker may die anywhere, inside `start_session` too. The program
is assumed to return lists where the code has lists (`WorldsAssumption`). The
planner is recursive, so that no proof can look into it; the engine has it as a
constant, and the theorems' hypothesis `PlannerOK` is all they need of it: what is
staged for a session from number n on is numbered n, n + 1, and so on. TLC
evaluates that of `StagePlan` for the plans of all programs (`PlannerNumbers`).

`IndexesExact` is `EngineOK`: every execution and session is in exactly the index sets
of its status. `StoreOK` is that, of the store alone, and that the executions of a
session are numbered without a gap; every operation of the Redis store and of
SQLite's has a lemma that it keeps `StoreOK` and what else it may change. The
operations have preconditions, though: a completed or woken execution must be in
the store, a session's name fresh, a spliced plan numbered from the session's
next free place. The engine calls them one by one with what it read earlier, so
`EngineInv` adds `TodoOK`: what is left of the message in work can be done in this
order, where each operation's effect on the preconditions of those behind it is
accounted for. A commit must be the first of its kind, since it stages its plan
against the store as it was read. A crash empties `todo`; recovery puts together a
new one from the index sets alone, which is where `StoreOK` comes in again.

`LettersMergedOnce` is `MailOnce`, for which two waits have to be told apart that saw
the same event: a worker died with the event's lease, the lease ran out, another
wait claimed it. Acknowledged mail cannot be claimed, so the question is what
happens between a commit that merges mail and its acknowledgement. `MailInv` says:
an execution that merged an event not acknowledged yet owes the acknowledgement in
its outbox row; a running worker has those very effects in `todo`, in front of
anything that could claim or commit; a crashed one is recovered with the outbox
first. So whenever an engine comes to its next commit, all merged mail is
acknowledged, and what a wait claims is new. An exception among the effects breaks
this: the worker goes on without them. So every part of the invariant excepts the
events in `left`, whose acknowledgement an exception cut off (`Safe`); that set only
grows, and what is dropped when an effect raises is in it (`AbandonsKeeps`). The
proof needs `EngineInv`, and that the effects of one execution acknowledge what it
merged, whoever applies them and however often (`Owed`, `AppliesOK`, `Merges`).
`StepIs` sorts the engine's steps into the few kinds that matter for this.

Only model-checked: `StepsResolve`, `HungIsKilled`, `ReadyServed`,
`AnswerResumes`, `UserServed`, `ChildIsHeard`, `ActorServes`, `Delivered` and
`Served` (liveness under fairness is beyond the prover, as is ENABLED); of the
graph engine `PlanOrder`, `NothingStranded` and `ImplementsGraph`, which rest on
the shape of a session's whole graph (every execution is reached from its entry,
every exit wired to its leave), that is on what the recursive planner computes, an
induction over plans that the provers cannot do; and the violations. The agents'
two invariants, `OneResultPerCall` and `MailIsExpected`, do not hold for every
value of the constants (section 7 says when a question and a result in one batch,
or a retried provider, break them), so only an instance can be claimed.

## 7. Not modelled, and known departures

**Not modelled.** `inspect` and `list_sessions` only read. JSON size limits and
validation of names are refusals without effect. SQLite and Redis are trusted to
make a transaction, a pipeline or a script atomic. Of the runner, manifest
parsing and the command lines of its launchers are left out, and so is a runner
that is killed without the chance to stop its workers. Of the ingress, keyings
other than one session per member, the fallback route and `ensure_session`. Of the
graph runtime: a wait's fallback to a `conversation_id` in its state
(`queue.py:551`; state is a set of names in the model), an exception of the wake-ups
that follow the last effect (`queue.py:805-806`; the loop's tick makes up for
them), several engine threads in one process, SQS's visibility timeouts,
`purge` of the Redis store and queue (tests and administration), the expiry of
queue keys after a day, the locks of the in-memory mailbox, and the agent node's
model calls (`agent.py`, `conversation.py`). Configuration, tools, application
memory, the Telegram bot, examples, benchmarks and legacy code hold none of the
protocol's state.

**Known departures.** What follows was met while modelling. The four findings
have runs of their own; the others are excluded by an assumption named
here, are excepted by name in a property, or violate no property stated.

* *Store.* `Context.last_error` is what `executables.py:173` says ("None after a
  crash") only if no earlier attempt recorded an error: a crash leaves the column
  (`sessions.py:227`, `239`) as it was.
* *Runner.* A process that was started and died between two
  ticks was never seen and raises no backoff (`runner.py:309`). A hung worker whose
  row is gone counts as idle (`runner.py:341`) and may hold back a start; that takes
  a member with two workers, which the liveness runs do not have, so `ReadyServed`
  says nothing of it.
* *Agents.* A batch that carries a question and the result of the same waiting
  exchange writes two results for one tool call: the result has closed the entry
  before the question is folded, so the question does not promote it
  (`turn.py:231-233`). It takes a provider that goes on while its question is out,
  as one does when work of its own reports back; in `agents` providers do not
  delegate. A cancel that arrives with more mail behind it than a batch holds
  makes the provider propose completion over unread mail, which the commit refuses
  at every attempt, so the provider fails. A failure notice takes the entry, and
  with it the fence, of a cancelled exchange away; after an operator's retry of
  the failed provider its late result would be unknown to the caller. A provider
  that fails below another provider is noticed only to the runner's `notify`, so
  its caller waits for its own budget. A publication to a provider that completed
  meanwhile fails the caller's step once.
* *Ready queue.* A death between the two commands of a claim (`redis_queue.py:165`
  and `189`), a nack (`198`, `199`) or a reclaim (`216`, `217`) loses the payload,
  and between `171` and `173` strands its list until the next send, where the
  module's docstring promises at-least-once (lines 22-25: "a claimed envelope sits in
  the in-flight hash until ack"). These
  deaths are in the run and in the theorems; the properties hold of all payloads but
  those in `dropped`, and of all lists but those in `forsaken`. Without the exception
  TLC finds each of them violated.
* *Engine.* A death inside `start_session` leaves a session with sentinels and
  without its plan, or runs a node before its edges are there; a death after a
  session's last node and before the end of the session leaves it running for
  ever. A gate that is not met ends the whole session (`queue.py:332` says so). An
  error of the queue after a commit puts the node that was just committed into the
  retry path, although `queue.py:811-815` wants that for no failure after a
  commit. A trigger delivered again after a crash starts a second session. An
  effect that raises leaves the rest of its row pending until the next start
  (`queue.py:816-823`). If an acknowledgement is among them the event stays
  leased, and once the lease lapses another wait of the same worker claims and
  merges it again; `MailOnce` excepts these events. Collection may take a session
  whose effects are still pending. Two engine processes may lose an update of one
  monitor. `IngressRouter` resolves a destination before it appends, so a wait
  that ends in between leaves the letter in a conversation nobody reads.
* *Mailboxes.* The lock of the Redis mailbox lapses after ten seconds also under a
  live holder. `InMemoryMailbox.claim_any` releases its lock between choosing a
  conversation and claiming from it (`mailbox.py:188-191`), which can only return
  less.
