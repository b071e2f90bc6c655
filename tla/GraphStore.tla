------------------------------- MODULE GraphStore -------------------------------
(***************************************************************************)
(* The Redis graph store (src/entourage/runtime/redis_store.py) and the    *)
(* graph algebra every store shares (runtime/interfaces.py), as operators  *)
(* on the keys' contents db: session and execution hashes, edges, and the  *)
(* index sets beside them.  One operator is one pipeline or script.        *)
(***************************************************************************)
EXTENDS Naturals, FiniteSets, Sequences, SequencesExt, Iteration

\* Execution policy; 0, "" and FALSE are fields a leaf leaves unset.
NoPolicy == [tries |-> 0, delay |-> FALSE, invocations |-> 0,
             conversation |-> "", timeout |-> FALSE, limit |-> 0, condition |-> ""]

\* serial: serial_key -> session; terminal: oldest first.
EmptyStore == [sess |-> <<>>, exec |-> <<>>, edges |-> {}, running |-> {}, terminal |-> <<>>,
               pending |-> {}, waiting |-> {}, outbox |-> {}, serial |-> <<>>]

NoLineage == [correlation |-> "", notify |-> ""]
NoEffects == [acknowledge |-> {}, publish |-> <<>>, arm |-> <<>>, disarm |-> {}]
NoWake == [conversation |-> "", at |-> "none"]

Head0(s) == <<s, 0>>
End1(s) == <<s, 1>>
Without(f, xs) == [x \in DOMAIN f \ xs |-> f[x]]
Over(f, g) == [x \in DOMAIN f \cup DOMAIN g |-> IF x \in DOMAIN f THEN f[x] ELSE g[x]]
With(f, x, v) == [y \in DOMAIN f \cup {x} |-> IF y = x THEN v ELSE f[y]]

\* A list without one of its members.
Others(q, x) == ForEach(LAMBDA r, y : IF y = x THEN r ELSE Append(r, y), <<>>, q)

\* A fresh execution.  A result is the set of the state's truthy keys; got is
\* the mail merged into it under "events".
NewExecution(s, node, policy) ==
  [session |-> s, node |-> node, policy |-> policy, status |-> "pending", attempts |-> 0,
   result |-> {}, got |-> {}, effects |-> NoEffects, wake |-> NoWake, retry |-> "none"]
-----------------------------------------------------------------------------
(* Sessions.                                                               *)

SerialFree(db, key) == key = "" \/ key \notin DOMAIN db.serial

CreateSession(db, s, key, initial) ==
  [db EXCEPT !.sess = With(@, s, [status |-> "running", key |-> key, initial |-> initial,
                                  lineage |-> NoLineage]),
             !.running = @ \cup {s},
             !.serial = IF key = "" THEN @ ELSE With(@, key, s)]

\* _finish_session drops the serial key, whoever holds it by now.
FinishSession(db, s, status) ==
  [db EXCEPT !.sess[s].status = status, !.running = @ \ {s},
             !.terminal = Append(Others(@, s), s),
             !.serial = Without(@, {db.sess[s].key})]

ExecutionsOf(db, s) == {e \in DOMAIN db.exec : db.exec[e].session = s}
TerminalSessions(db) == SelectSeq(db.terminal, LAMBDA s : s \in DOMAIN db.sess)

DeleteTerminal(db, s) ==
  LET gone == ExecutionsOf(db, s)
  IN  [db EXCEPT !.sess = Without(@, {s}), !.exec = Without(@, gone),
                 !.edges = {x \in @ : x[1] \notin gone /\ x[2] \notin gone},
                 !.pending = @ \ gone, !.waiting = @ \ gone, !.outbox = @ \ gone,
                 !.running = @ \ {s}, !.terminal = Others(@, s),
                 !.serial = Without(@, {db.sess[s].key})]
-----------------------------------------------------------------------------
(* Executions.                                                             *)

\* The executions of a plan, by id, as apply_staged adds them to a session.
Given(s, xs) ==
  [e \in {xs[i].id : i \in DOMAIN xs} |->
     LET x == xs[CHOOSE i \in DOMAIN xs : xs[i].id = e] IN NewExecution(s, x.node, x.policy)]

PutExecutions(db, s, xs) ==
  [db EXCEPT !.exec = Over(Given(s, xs), @), !.pending = @ \cup DOMAIN Given(s, xs)]

PendingOf(db, s) == {e \in db.pending : e \in DOMAIN db.exec /\ db.exec[e].session = s}
RunningOf(db, s) == {e \in ExecutionsOf(db, s) : db.exec[e].status = "running"}

SetStatus(db, e, status) == [db EXCEPT !.exec[e].status = status, !.pending = @ \ {e}]

MarkRunning(db, e) == [SetStatus(db, e, "running") EXCEPT !.exec[e].attempts = @ + 1]
MarkCompleted(db, e, result) == [SetStatus(db, e, "completed") EXCEPT !.exec[e].result = result]
MarkFailed(db, e) == [SetStatus(db, e, "failed") EXCEPT !.exec[e].result = {"error"}]

\* Defect to be caught: a retried execution is not indexed as pending.
MarkRetryingUnindexed(db, e, retry) ==
  [db EXCEPT !.exec[e].status = "pending", !.exec[e].retry = retry]

MarkRetrying(db, e, retry) ==
  [db EXCEPT !.exec[e].status = "pending", !.exec[e].retry = retry, !.pending = @ \cup {e}]

MarkWaiting(db, e, wake) ==
  [SetStatus(db, e, "waiting") EXCEPT !.exec[e].wake = wake, !.waiting = @ \cup {e}]

IsWaiting(db, e) == e \in DOMAIN db.exec /\ db.exec[e].status = "waiting"
WakeExecution(db, e) ==
  IF IsWaiting(db, e)
    THEN [db EXCEPT !.exec[e].status = "pending", !.waiting = @ \ {e}, !.pending = @ \cup {e}]
    ELSE db

WaitingExecutions(db) == {e \in db.waiting : IsWaiting(db, e)}

ClearEffects(db, e) == [db EXCEPT !.exec[e].effects = NoEffects, !.outbox = @ \ {e}]
PendingEffects(db) == {e \in db.outbox : e \in DOMAIN db.exec /\ db.exec[e].effects # NoEffects}
-----------------------------------------------------------------------------
(* Edges and the graph algebra.                                            *)

AddEdges(db, edges) == [db EXCEPT !.edges = @ \cup edges]
Parents(db, e) == {x \in db.edges : x[2] = e /\ x[1] \in DOMAIN db.exec}
Children(db, e) == {x \in db.edges : x[1] = e}

\* Defect to be caught: one completed parent is enough.
IsReadyEarly(db, e) ==
  LET parents == Parents(db, e)
  IN  parents = {} \/ \E x \in parents : db.exec[x[1]].status = "completed"

\* Pending, every parent completed, and the edges' conditions met.
IsReady(db, e) ==
  \A x \in Parents(db, e) :
    LET p == db.exec[x[1]]
    IN  p.status = "completed" /\ (x[3] # "" /\ p.result # {} => x[3] \in p.result)
ReadyExecutions(db, s) == {e \in PendingOf(db, s) : IsReady(db, e)}

\* Merged results of the parents, or the initial state.
InputState(db, e) ==
  LET parents == Parents(db, e)
  IN  IF parents = {} THEN db.sess[db.exec[e].session].initial
      ELSE UNION {db.exec[x[1]].result : x \in parents}
-----------------------------------------------------------------------------
(* Transition commit, one MULTI/EXEC.                                      *)

\* A child that exists already is skipped whole.
SpawnSession(db, child) ==
  LET s == child.session
      sentinels == <<[id |-> Head0(s), node |-> "__HEAD__", policy |-> NoPolicy],
                     [id |-> End1(s), node |-> "__END__", policy |-> NoPolicy]>>
      born == PutExecutions(CreateSession(db, s, "", {}), s, sentinels \o child.executions)
  IN  IF s \in DOMAIN db.sess THEN db
      ELSE AddEdges([MarkCompleted(born, Head0(s), {}) EXCEPT !.sess[s].lineage = child.lineage],
                    child.edges)

\* Defect to be caught: the plan is put in, but the old edges stay as well.
SpliceKeepingEdges(db, e, staged) ==
  AddEdges(PutExecutions(db, db.exec[e].session, staged.executions),
           staged.edges \cup {<<e, s, "">> : s \in staged.starts})

\* The plan goes in between the execution and its children.
Splice(db, e, staged) ==
  LET children == Children(db, e)
      put == PutExecutions(db, db.exec[e].session, staged.executions)
  IN  [put EXCEPT !.edges = (@ \ children) \cup staged.edges
         \cup {<<e, s, "">> : s \in staged.starts} \cup {<<staged.end, x[2], x[3]>> : x \in children}]

\* staged is the empty sequence or holds the one plan.
CommitTransition(db, e, result, got, staged, effects, spawns) ==
  LET children == ForEach(SpawnSession, db, spawns)
      spliced == IF staged = <<>> THEN children ELSE Splice(children, e, staged[1])
      done == [MarkCompleted(spliced, e, result) EXCEPT !.exec[e].got = got]
  IN  IF effects = NoEffects THEN done
      ELSE [done EXCEPT !.exec[e].effects = effects, !.outbox = @ \cup {e}]
-----------------------------------------------------------------------------
\* One call of the store by the engine.
RedisDoes(db, op) ==
  CASE op[1] = "create_session" -> CreateSession(db, op[2], op[3], {})
    [] op[1] = "complete_session" -> FinishSession(db, op[2], "completed")
    [] op[1] = "fail_session" -> FinishSession(db, op[2], "failed")
    [] op[1] = "delete_session" -> DeleteTerminal(db, op[2])
    [] op[1] = "add_executions" -> PutExecutions(db, op[2], op[3])
    [] op[1] = "add_edges" -> AddEdges(db, op[2])
    [] op[1] = "mark_running" -> MarkRunning(db, op[2])
    [] op[1] = "mark_completed" -> MarkCompleted(db, op[2], op[3])
    [] op[1] = "mark_failed" -> MarkFailed(db, op[2])
    [] op[1] = "mark_retrying" -> MarkRetrying(db, op[2], op[3])
    [] op[1] = "mark_waiting" -> MarkWaiting(db, op[2], op[3])
    [] op[1] = "wake" -> WakeExecution(db, op[2])
    [] op[1] = "clear" -> ClearEffects(db, op[2])
    [] op[1] = "commit" -> CommitTransition(db, op[2], op[3], op[4], op[5], op[6], op[7])
=============================================================================
