-------------------------------- MODULE Planner --------------------------------
(***************************************************************************)
(* Plans and their staging (src/entourage/flow.py, runtime/planner.py).  A *)
(* plan is staged into executions, edges <<from, to, condition>> and the   *)
(* entry and exit points the caller wires, without touching a store.  An   *)
(* execution's id is <<session, n>>, n counting what the session staged.   *)
(***************************************************************************)
EXTENDS GraphStore

\* A Node leaf with its retry policy, and a bare name.
Node(name, tries, delay, invocations) ==
  [kind |-> "leaf", name |-> name,
   policy |-> [NoPolicy EXCEPT !.tries = tries, !.delay = delay, !.invocations = invocations]]
Leaf(name) == Node(name, 0, FALSE, 0)

WaitForMailbox(conversation, timeout, limit) ==
  [kind |-> "wait", name |-> "__WAIT__",
   policy |-> [NoPolicy EXCEPT !.conversation = conversation, !.timeout = timeout,
                               !.limit = limit]]

Conditional(condition, plan) == [kind |-> "if", condition |-> condition, plan |-> plan]
InSequence(items) == [kind |-> "seq", items |-> items]
InParallel(items) == [kind |-> "par", items |-> items]

\* StagedPlan, with what staging carries along: the session, its executions
\* by id (their names) so far, and whether max_invocations was exceeded.
Unstaged(session, first, counted) ==
  [session |-> session, first |-> first, counted |-> counted,
   executions |-> <<>>, edges |-> {}, starts |-> {}, end |-> <<session, 0>>, over |-> FALSE]

\* _add_execution: one more execution, which is its own entry and exit.
AddExecution(st, name, policy) ==
  LET id == <<st.session, st.first + Len(st.executions)>>
  IN  [st EXCEPT !.executions = Append(@, [id |-> id, node |-> name, policy |-> policy]),
                 !.starts = {id}, !.end = id]

\* Executions of that name in the session, and staged so far.
Count(st, name) ==
  Cardinality({i \in DOMAIN st.counted : st.counted[i] = name})
    + Cardinality({i \in DOMAIN st.executions : st.executions[i].node = name})

RECURSIVE Stage(_, _)

\* Each item after the exit of the one before.
StageSequence(items, st) ==
  LET Chain(acc, item) ==
        LET next == Stage(item, acc)
        IN  [next EXCEPT !.edges = @ \cup {<<acc.end, s, "">> : s \in next.starts},
                         !.starts = acc.starts]
  IN  FoldLeft(Chain, Stage(Head(items), st), Tail(items))

\* All items at once, joined by a merge.
StageParallel(items, st) ==
  LET merge == AddExecution(st, "__MERGE__", NoPolicy)
      Join(acc, item) ==
        LET next == Stage(item, acc)
        IN  [next EXCEPT !.edges = @ \cup {<<next.end, merge.end, "">>},
                         !.starts = @ \cup acc.starts]
  IN  [FoldLeft(Join, [merge EXCEPT !.starts = {}], items) EXCEPT !.end = merge.end]

\* A gate; the edges out of it carry its condition.
StageConditional(plan, st) ==
  LET gate == AddExecution(st, "__GATE__", [NoPolicy EXCEPT !.condition = plan.condition])
      inner == Stage(plan.plan, gate)
  IN  [inner EXCEPT !.edges = @ \cup {<<gate.end, s, plan.condition>> : s \in inner.starts},
                    !.starts = {gate.end}]

\* A leaf, unless the session holds as many of it as it may.
StageLeaf(plan, st) ==
  IF plan.policy.invocations > 0 /\ Count(st, plan.name) >= plan.policy.invocations
    THEN [st EXCEPT !.over = TRUE]
    ELSE AddExecution(st, plan.name, plan.policy)

Stage(plan, st) ==
  CASE plan.kind = "seq" -> StageSequence(plan.items, st)
    [] plan.kind = "par" -> StageParallel(plan.items, st)
    [] plan.kind = "if" -> StageConditional(plan, st)
    [] OTHER -> StageLeaf(plan, st)

\* stage_plan, into a session that holds some executions already: the first
\* number that is free, and the names of what is there.
StagePlan(plan, session, first, counted) == Stage(plan, Unstaged(session, first, counted))
=============================================================================
