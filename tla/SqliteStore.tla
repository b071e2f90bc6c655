------------------------------- MODULE SqliteStore -------------------------------
(***************************************************************************)
(* The SQLite graph store (src/entourage/runtime/store.py), on the same db *)
(* as GraphStore, so that the readers there and the graph algebra serve    *)
(* both.  SQLite keeps rows only: what Redis has beside them is here the   *)
(* result of a query.  One operator is one transaction.                    *)
(***************************************************************************)
EXTENDS GraphStore

\* The queries by status, the index of effects, and the unique index of serial
\* keys that are not NULL; terminal rows are in the order of completed_at.
Queried(db) ==
  LET Having(status) == {e \in DOMAIN db.exec : db.exec[e].status = status}
      keys == {db.sess[s].key : s \in DOMAIN db.sess} \ {""}
  IN  [db EXCEPT !.running = {s \in DOMAIN db.sess : db.sess[s].status = "running"},
                 !.pending = Having("pending"), !.waiting = Having("waiting"),
                 !.outbox = {e \in DOMAIN db.exec : db.exec[e].effects # NoEffects},
                 !.serial = [k \in keys |-> CHOOSE s \in DOMAIN db.sess : db.sess[s].key = k]]

\* INSERT INTO sessions: nothing when the id or the serial key is taken.
InsertSession(db, s, key, initial) ==
  IF s \in DOMAIN db.sess \/ ~SerialFree(db, key) THEN db
  ELSE Queried([db EXCEPT !.sess = With(@, s, [status |-> "running", key |-> key,
                                               initial |-> initial, lineage |-> NoLineage])])

\* complete_session, fail_session: the row gives up its own serial key.
EndSession(db, s, status) ==
  Queried([db EXCEPT !.sess[s] = [@ EXCEPT !.status = status, !.key = ""],
                     !.terminal = Append(Others(@, s), s)])

DeleteRows(db, s) ==
  Queried([db EXCEPT !.sess = Without(@, {s}), !.exec = Without(@, ExecutionsOf(db, s)),
                     !.edges = {x \in @ : x[1] \notin ExecutionsOf(db, s)},
                     !.terminal = Others(@, s)])

InsertExecutions(db, s, xs) == Queried([db EXCEPT !.exec = Over(Given(s, xs), @)])

\* UPDATE executions SET ... WHERE id = e
Update(db, e, x) == IF e \in DOMAIN db.exec THEN Queried([db EXCEPT !.exec[e] = x]) ELSE db

RowRunning(db, e) == Update(db, e, [db.exec[e] EXCEPT !.status = "running", !.attempts = @ + 1])
RowCompleted(db, e, result) ==
  Update(db, e, [db.exec[e] EXCEPT !.status = "completed", !.result = result])
RowFailed(db, e) == Update(db, e, [db.exec[e] EXCEPT !.status = "failed", !.result = {"error"}])
RowRetrying(db, e, retry) ==
  Update(db, e, [db.exec[e] EXCEPT !.status = "pending", !.retry = retry])
RowWaiting(db, e, wake) == Update(db, e, [db.exec[e] EXCEPT !.status = "waiting", !.wake = wake])
RowWoken(db, e) ==
  IF IsWaiting(db, e) THEN Update(db, e, [db.exec[e] EXCEPT !.status = "pending"]) ELSE db
RowEffects(db, e, effects) == Update(db, e, [db.exec[e] EXCEPT !.effects = effects])

\* INSERT OR REPLACE: one edge between two executions.
InsertEdges(db, edges) ==
  [db EXCEPT !.edges = {x \in @ : \A y \in edges : <<x[1], x[2]>> # <<y[1], y[2]>>} \cup edges]
DeleteEdges(db, edges) == [db EXCEPT !.edges = @ \ edges]

\* A child of a transition, unless it is there already.
SpawnRows(db, child) ==
  LET s == child.session
      sentinels == <<[id |-> Head0(s), node |-> "__HEAD__", policy |-> NoPolicy],
                     [id |-> End1(s), node |-> "__END__", policy |-> NoPolicy]>>
      born == InsertExecutions(InsertSession(db, s, "", {}), s, sentinels \o child.executions)
      led == [InsertEdges(born, child.edges) EXCEPT !.sess[s].lineage = child.lineage]
  IN  IF s \in DOMAIN db.sess THEN db ELSE RowCompleted(led, Head0(s), {})

\* The plan of a transition, by the primitives of the interface in their order.
SpliceRows(db, e, staged) ==
  LET children == Children(db, e)
      put == InsertEdges(InsertExecutions(db, db.exec[e].session, staged.executions), staged.edges)
      led == InsertEdges(DeleteEdges(put, children), {<<e, s, "">> : s \in staged.starts})
  IN  InsertEdges(led, {<<staged.end, x[2], x[3]>> : x \in children})

\* commit_transition: the primitives of the interface inside _transaction.
CommitRows(db, e, result, got, staged, effects, spawns) ==
  LET spliced == IF staged = <<>> THEN db ELSE SpliceRows(db, e, staged[1])
      children == ForEach(SpawnRows, spliced, spawns)
      owing == IF effects = NoEffects THEN children ELSE RowEffects(children, e, effects)
  IN  [RowCompleted(owing, e, result) EXCEPT !.exec[e].got = got]

\* One call of the store by the engine.
SqliteDoes(db, op) ==
  CASE op[1] = "create_session" -> InsertSession(db, op[2], op[3], {})
    [] op[1] = "complete_session" -> EndSession(db, op[2], "completed")
    [] op[1] = "fail_session" -> EndSession(db, op[2], "failed")
    [] op[1] = "delete_session" -> DeleteRows(db, op[2])
    [] op[1] = "add_executions" -> InsertExecutions(db, op[2], op[3])
    [] op[1] = "add_edges" -> InsertEdges(db, op[2])
    [] op[1] = "mark_running" -> RowRunning(db, op[2])
    [] op[1] = "mark_completed" -> RowCompleted(db, op[2], op[3])
    [] op[1] = "mark_failed" -> RowFailed(db, op[2])
    [] op[1] = "mark_retrying" -> RowRetrying(db, op[2], op[3])
    [] op[1] = "mark_waiting" -> RowWaiting(db, op[2], op[3])
    [] op[1] = "wake" -> RowWoken(db, op[2])
    [] op[1] = "clear" -> RowEffects(db, op[2], NoEffects)
    [] op[1] = "commit" -> CommitRows(db, op[2], op[3], op[4], op[5], op[6], op[7])
=============================================================================
