----------------------------- MODULE GraphContract -----------------------------
(***************************************************************************)
(* What the engine is promised by its graph store: the in-memory reference *)
(* store (src/entourage/runtime/memory.py) with the transition commit of   *)
(* runtime/interfaces.py as one step, called in the states the engine may  *)
(* call it in.  There are no indexes and no serial keys besides the rows.  *)
(***************************************************************************)
EXTENDS Naturals

VARIABLES
  sessions,    \* session id -> [status, key]
  executions,  \* execution id -> [session, status, attempts, got, owes]
  edges        \* pairs of execution ids

vars == <<sessions, executions, edges>>

Born == DOMAIN sessions' \ DOMAIN sessions
Added == DOMAIN executions' \ DOMAIN executions
SessionsKept == \A s \in DOMAIN sessions : s \in DOMAIN sessions' /\ sessions'[s] = sessions[s]
KeptBut(es) ==
  /\ DOMAIN executions \subseteq DOMAIN executions'
  /\ \A e \in DOMAIN executions \ es : executions'[e] = executions[e]

\* An execution as it is added: pending and never tried.
Fresh(x) == x.status = "pending" /\ x.attempts = 0 /\ x.got = {} /\ ~x.owes

\* create_session: no running session may hold the same key.
CreateSession ==
  /\ SessionsKept
  /\ \E s \in Born : /\ Born = {s} /\ sessions'[s].status = "running"
                     /\ \A t \in DOMAIN sessions : sessions[t].status = "running" =>
                          sessions'[s].key = "" \/ sessions[t].key # sessions'[s].key
  /\ UNCHANGED <<executions, edges>>

\* complete_session, fail_session: only running sessions hold their keys.
EndSession ==
  /\ \E s \in DOMAIN sessions : \E status \in {"completed", "failed"} :
       sessions' = [sessions EXCEPT ![s] = [status |-> status, key |-> ""]]
  /\ UNCHANGED <<executions, edges>>

\* delete_terminal_session: the session with all that is its own.
Delete ==
  \E s \in DOMAIN sessions :
    LET gone == {e \in DOMAIN executions : executions[e].session = s}
    IN  /\ sessions[s].status \in {"completed", "failed"}
        /\ sessions' = [t \in DOMAIN sessions \ {s} |-> sessions[t]]
        /\ executions' = [e \in DOMAIN executions \ gone |-> executions[e]]
        /\ edges' = {x \in edges : x[1] \notin gone /\ x[2] \notin gone}

\* add_execution, add_edge
AddExecutions ==
  /\ KeptBut({}) /\ Added # {}
  /\ \A e \in Added : Fresh(executions'[e]) /\ executions'[e].session \in DOMAIN sessions
  /\ UNCHANGED <<sessions, edges>>
AddEdges ==
  /\ edges \subseteq edges'
  /\ \A x \in edges' \ edges : {x[1], x[2]} \subseteq DOMAIN executions
  /\ UNCHANGED <<sessions, executions>>

Marks(e, x) == executions' = [executions EXCEPT ![e] = x] /\ UNCHANGED <<sessions, edges>>

\* mark_running
MarkRunning(e) ==
  LET x == executions[e]
  IN  x.status = "pending" /\ Marks(e, [x EXCEPT !.status = "running", !.attempts = @ + 1])

\* mark_completed, of a sentinel
MarkCompleted(e) ==
  executions[e].status = "pending" /\ Marks(e, [executions[e] EXCEPT !.status = "completed"])

\* mark_retrying, of an attempt that failed or was interrupted
MarkRetrying(e) ==
  executions[e].status = "running" /\ Marks(e, [executions[e] EXCEPT !.status = "pending"])

\* mark_failed, of the last attempt or of an execution nobody can run
MarkFailed(e) ==
  /\ executions[e].status \in {"pending", "running"}
  /\ Marks(e, [executions[e] EXCEPT !.status = "failed"])

\* mark_waiting
MarkWaiting(e) ==
  executions[e].status = "pending" /\ Marks(e, [executions[e] EXCEPT !.status = "waiting"])

\* wake_execution, once per parked execution
Wake ==
  /\ KeptBut({e \in DOMAIN executions : executions[e].status = "waiting"})
  /\ Added = {}
  /\ \A e \in DOMAIN executions : \/ executions'[e] = executions[e]
                                  \/ executions'[e] = [executions[e] EXCEPT !.status = "pending"]
  /\ UNCHANGED <<sessions, edges>>

\* set_effects(None)
ClearEffects(e) ==
  executions[e].owes /\ Marks(e, [executions[e] EXCEPT !.owes = FALSE])

\* commit_transition: the completion, with a plan in place of the edges to the
\* children, whole child sessions, and what is owed to mailboxes.
Commit(e) ==
  LET x == executions[e]
      children == {y \in edges : y[1] = e}
  IN  /\ x.status \in {"pending", "running"} /\ SessionsKept /\ KeptBut({e})
      /\ \E got \in {executions'[e].got}, owes \in BOOLEAN :
           executions'[e] = [x EXCEPT !.status = "completed", !.got = got, !.owes = owes]
      /\ \A f \in Added :
           IF executions'[f].session \in Born
             THEN executions'[f].status \in {"pending", "completed"}
             ELSE Fresh(executions'[f]) /\ executions'[f].session = x.session
      /\ \A s \in Born : sessions'[s] = [status |-> "running", key |-> ""]
      /\ edges \ children \subseteq edges'
      /\ \A y \in edges' \ edges : y[1] \in Added \cup {e} /\ y[2] # e
      /\ (\E y \in edges' \ edges : y[1] = e) => edges' \cap children = {}
      /\ \A y \in children : \E z \in edges' : z[2] = y[2]

Next ==
  \/ CreateSession \/ EndSession \/ Delete \/ AddExecutions \/ AddEdges \/ Wake
  \/ \E e \in DOMAIN executions :
       \/ MarkRunning(e) \/ MarkCompleted(e) \/ MarkRetrying(e) \/ MarkFailed(e)
       \/ MarkWaiting(e) \/ ClearEffects(e) \/ Commit(e)

Init == sessions = <<>> /\ executions = <<>> /\ edges = {}

Spec == Init /\ [][Next]_vars
=============================================================================
