------------------------------ MODULE GraphRuntime ------------------------------
(***************************************************************************)
(* The graph engine (src/entourage/runtime/queue.py) on the Redis graph    *)
(* store or on SQLite's, with its ready queue, mailbox and monitors, and   *)
(* the ingress router (src/entourage/ingress.py) appending mail from       *)
(* outside.                                                                *)
(*                                                                         *)
(* One engine thread works on one message at a time.  What is left of the  *)
(* call it is in is todo, a sequence of single store, mailbox, monitor and *)
(* queue operations; every step does the first of them, so that the worker *)
(* can die, mail can come in and a clock can run out between any two.  A   *)
(* delivery a second time finds the execution no longer pending, so the    *)
(* queue is a set.                                                         *)
(***************************************************************************)
EXTENDS SqliteStore, Mailbox, Monitors

CONSTANTS
  Worlds,         \* programs: see Init
  Stages(_, _, _, _),   \* the planner: see Planner
  MaxNodes,       \* MAX_SESSION_NODES
  Uninterrupted   \* operations a dying worker is assumed to finish first

\* What a node returns in lists is lists.
ASSUME WorldsAssumption ==
  \A i \in DOMAIN Worlds : \A n \in DOMAIN Worlds[i].nodes : \A t \in Worlds[i].nodes[n] :
    /\ IsFiniteSet(t.acknowledge)
    /\ \A q \in {t.plan, t.publish, t.arm, t.spawn} :
         Len(q) \in Nat /\ q = [k \in 1..Len(q) |-> q[k]]

VARIABLES
  world,     \* the program: nodes, plans, actors and mail; never changes
  db,        \* the graph store
  box,       \* the mailbox
  mons,      \* the monitor store
  ready,     \* execution messages in the ready queue
  triggers,  \* trigger messages in the ready queue
  current,   \* the message being handled: <<>>, <<"execute", e>> or <<"trigger", i>>
  todo,      \* what is left to do of it
  up,        \* whether a worker runs
  born,      \* sessions started by triggers and actors so far
  inbound,   \* external mail by number: "new", "accepted", or where it goes
  crashes, refusals,
  left       \* events whose acknowledgement an exception has cut off, ever

vars == <<world, db, box, mons, ready, triggers, current, todo, up, born, inbound,
          crashes, refusals, left>>
stores == <<db, box, mons>>
queue == <<ready, triggers>>
-----------------------------------------------------------------------------
(* What a node may return: Transition, or it raises.                       *)

Returns(result) ==
  [raises |-> FALSE, result |-> result, plan |-> <<>>, acknowledge |-> {}, publish |-> <<>>,
   arm |-> <<>>, disarm |-> {}, spawn |-> <<>>]
Raises == [Returns({}) EXCEPT !.raises = TRUE]

HasEffects(t) == t.acknowledge # {} \/ t.publish # <<>> \/ t.arm # <<>> \/ t.disarm # {}

\* _stage_effects: ids derive from the committing execution, so that a replay
\* appends the same letters and arms the same monitors.
StageEffects(e, t) ==
  IF ~HasEffects(t) THEN NoEffects
  ELSE [NoEffects EXCEPT
          !.acknowledge = t.acknowledge,
          !.publish = [i \in DOMAIN t.publish |->
             Letter(<<"txn", e, i>>, t.publish[i].conversation, t.publish[i].correlation, <<>>)],
          !.arm = [i \in DOMAIN t.arm |-> <<<<"mon", e, i>>, t.arm[i]>>],
          !.disarm = t.disarm]

Lineage(s) == IF s \in DOMAIN db.sess THEN db.sess[s].lineage ELSE NoLineage

\* The letter a finishing child owes to who waits for it.
ChildResult(s) ==
  LET lineage == Lineage(s)
  IN  IF lineage.notify = "" THEN NoEffects
      ELSE [NoEffects EXCEPT !.publish =
              <<Letter(<<"result", s>>, lineage.notify, lineage.correlation, <<"session", s>>)>>]

\* Two operations for each letter.
Twice(letters, first, second) ==
  [k \in 1..(2 * Len(letters)) |->
     <<IF k % 2 = 1 THEN first ELSE second, letters[(k + 1) \div 2]>>]

\* Defect to be caught: monitors hear of a letter before it is appended.
ObserveFirst(e, effects) ==
  SetToSeq({<<"acknowledge", a.conversation, a.ids>> : a \in effects.acknowledge})
    \o Twice(effects.publish, "observe", "publish")
    \o [i \in DOMAIN effects.arm |-> <<"arm", effects.arm[i]>>]
    \o <<<<"disarm", effects.disarm>>, <<"clear", e>>>>

\* _apply_effects, one by one; after publications, actors and waits.
EffectSteps(e, effects) ==
  SetToSeq({<<"acknowledge", a.conversation, a.ids>> : a \in effects.acknowledge})
    \o Twice(effects.publish, "publish", "observe")
    \o [i \in DOMAIN effects.arm |-> <<"arm", effects.arm[i]>>]
    \o <<<<"disarm", effects.disarm>>, <<"clear", e>>>>
    \o (IF effects.publish # <<>> THEN <<<<"actors">>, <<"wakes">>>> ELSE <<>>)

Apply(e, effects) ==
  IF effects = NoEffects THEN <<>> ELSE <<<<"apply", EffectSteps(e, effects)>>>>
-----------------------------------------------------------------------------
(* Scripts: the calls of the engine as sequences of operations.            *)

\* _fail_session, with the death notice of a spawned child.
FailSession(s) == <<<<"fail_session", s>>, <<"notice", s>>>>

\* END and a gate that is not met: complete, and answer the spawner.
Finish(e, s, result) ==
  LET effects == ChildResult(s)
  IN  (IF effects = NoEffects THEN <<<<"mark_completed", e, result>>>>
       ELSE <<<<"commit", e, result, {}, <<>>, effects, <<>>>>>> \o Apply(e, effects))
        \o <<<<"complete_session", s>>>>

\* The idempotence guard: only pending work runs.
Guard(e) == db.exec[e].status = "pending"

\* _execute_node up to the call of the node.
Execute(e) ==
  LET x == db.exec[e]
      s == x.session
      input == InputState(db, e)
  IN  IF e \notin DOMAIN db.exec THEN <<>>
      ELSE IF ~Guard(e) THEN <<>>
      ELSE IF x.node = "__END__" THEN Finish(e, s, {})
      ELSE IF x.node = "__GATE__" /\ x.policy.condition \notin input THEN Finish(e, s, input)
      ELSE IF x.node \in {"__GATE__", "__MERGE__"}
        THEN <<<<"mark_completed", e, input>>, <<"enqueue", s>>>>
      ELSE IF x.node = "__WAIT__" THEN <<<<"wait", e>>>>
      ELSE IF x.node \notin DOMAIN world.nodes THEN <<<<"mark_failed", e>>>> \o FailSession(s)
      ELSE <<<<"mark_running", e>>, <<"run", e>>>>

\* max_attempts of the leaf, or else of the registered node.
Tries(x) ==
  IF x.policy.tries > 0 THEN x.policy.tries
  ELSE IF x.node \in DOMAIN world.tries THEN world.tries[x.node] ELSE 1

\* The handler of an exception: retry, or fail the session.
Recoils(e) ==
  LET x == db.exec[e]
  IN  IF x.attempts < Tries(x)
        THEN <<<<"mark_retrying", e, IF x.policy.delay THEN "later" ELSE "none">>, <<"send", e>>>>
        ELSE <<<<"mark_failed", e>>>> \o FailSession(x.session)

\* stage_spawn: a child's session, named by the committing execution and the
\* slot, with HEAD and END around its plan and its lineage.
StageSpawn(spawn, exec, slot) ==
  LET session == Append(Append(exec[1], exec[2]), slot)
      st == Stages(spawn.plan, session, 2, <<>>)
  IN  [session |-> session, executions |-> st.executions,
       lineage |-> [correlation |-> spawn.correlation, notify |-> spawn.notify],
       edges |-> st.edges \cup {<<Head0(session), s, "">> : s \in st.starts}
                          \cup {<<st.end, End1(session), "">>}]

\* _execute_node after the call of the node returned t.
Proposes(e, t) ==
  LET s == db.exec[e].session
      held == ExecutionsOf(db, s)
      names == [x \in held |-> db.exec[x].node]
      staged == [i \in DOMAIN t.plan |-> Stages(t.plan[i], s, Cardinality(held), names)]
      spawns == [i \in DOMAIN t.spawn |-> StageSpawn(t.spawn[i], e, i)]
      effects == StageEffects(e, t)
  IN  IF t.plan # <<>> /\ (Cardinality(held) >= MaxNodes \/ staged[1].over)
        THEN <<<<"mark_failed", e>>>> \o FailSession(s)
      ELSE <<<<"commit", e, t.result, {}, staged, effects, spawns>>>> \o Apply(e, effects)
             \o [i \in DOMAIN spawns |-> <<"enqueue", spawns[i].session>>] \o <<<<"enqueue", s>>>>

\* start_session after create_session.
StartSteps(s, plan) ==
  <<<<"sentinels", s>>, <<"stage", s, plan>>, <<"wire", s, plan>>,
    <<"head", Head0(s)>>, <<"enqueue", s>>>>

\* Defect to be caught: recovery queues what is ready and forgets the interrupted.
RecoveryOfReady ==
  SetToSeq({<<"enqueue", s>> : s \in db.running})
    \o SetToSeq({<<"apply", EffectSteps(e, db.exec[e].effects)>> : e \in PendingEffects(db)})

\* Crash recovery at startup: interrupted executions, ready ones, the outbox.
Recovery ==
  LET Recovers(ops, s) ==
        ops \o SetToSeq({<<"mark_retrying", e, "none">> : e \in RunningOf(db, s)})
            \o <<<<"enqueue", s>>>>
  IN  ForEach(Recovers, <<>>, SetToSeq(db.running))
        \o SetToSeq({<<"apply", EffectSteps(e, db.exec[e].effects)>> : e \in PendingEffects(db)})

\* Defect to be caught: a wait is woken by its deadline only.
DueByTime == {e \in WaitingExecutions(db) : db.exec[e].wake.at = "passed"}

\* wake_due_waits: parked executions whose mail came or whose time passed.
DueWaits ==
  {e \in WaitingExecutions(db) : \/ db.exec[e].wake.at = "passed"
                                 \/ ClaimableIn(box, db.exec[e].wake.conversation) # {}}

\* ensure_actors: conversations with mail and an actor.
ActorMail == ClaimableConversations(box) \cap DOMAIN world.actors
Wakes == SetToSeq({<<"wake", e>> : e \in DueWaits})
Actors == SetToSeq({<<"create", c, world.actors[c], 0>> : c \in ActorMail})
-----------------------------------------------------------------------------
(* One operation of todo.                                                  *)

op == Head(todo)
Is(name) == up /\ todo # <<>> /\ op[1] = name
Goes(more) == todo' = more \o Tail(todo)
World == UNCHANGED <<world, current, up, born, inbound, crashes, refusals, left>>
OnlyStore(d, more) == db' = d /\ Goes(more) /\ World /\ UNCHANGED <<box, mons, queue>>

\* A call of the graph store the program has: Redis or SQLite.
Does(d, call) == IF world.sqlite THEN SqliteDoes(d, call) ELSE RedisDoes(d, call)

\* Operations that are one write to the graph store.
Write ==
  \/ /\ \E name \in {"mark_running", "mark_completed", "mark_failed", "mark_retrying",
                     "mark_waiting", "commit", "complete_session", "fail_session"} : Is(name)
     /\ OnlyStore(Does(db, op), <<>>)
  \/ Is("wake") /\ OnlyStore(Does(db, op),
                             IF IsWaiting(db, op[2]) THEN <<<<"send", op[2]>>>> ELSE <<>>)

\* The call of the node.
Run ==
  /\ Is("run")
  /\ \E t \in world.nodes[db.exec[op[2]].node] :
       OnlyStore(db, IF t.raises THEN Recoils(op[2]) ELSE Proposes(op[2], t))

\* Defect to be caught: the wait does not acknowledge what it drained.
DrainedOnly(conversation, ids) == NoEffects

\* The acknowledgement that rides the commit of a wait.
Drained(conversation, ids) ==
  [NoEffects EXCEPT !.acknowledge = {[conversation |-> conversation, ids |-> ids]}]

\* _execute_wait: drain, time out, or park.
Wait ==
  LET e == op[2]
      x == db.exec[e]
      s == x.session
      input == InputState(db, e)
      conversation == x.policy.conversation
      mail == ToClaim(box, conversation, x.policy.limit)
      effects == Drained(conversation, LetterIds(box, mail))
      at == IF x.wake.at = "none" /\ x.policy.timeout THEN "later" ELSE x.wake.at
  IN  /\ Is("wait")
      /\ box' = Lease(box, mail, <<"wait", e>>)
      /\ Goes(IF conversation = "" THEN <<<<"mark_failed", e>>>> \o FailSession(s)
              ELSE IF mail # {}
                THEN <<<<"commit", e, input \cup {"events"}, LetterIds(box, mail), <<>>, effects, <<>>>>>>
                       \o Apply(e, effects) \o <<<<"enqueue", s>>>>
              ELSE IF at = "passed"
                THEN <<<<"commit", e, input \cup {"events"}, {}, <<>>, NoEffects, <<>>>>, <<"enqueue", s>>>>
              ELSE <<<<"mark_waiting", e, [conversation |-> conversation, at |-> at]>>>>)
      /\ World /\ UNCHANGED <<db, mons, queue>>

\* _enqueue_ready and _send_to_queue
Send ==
  /\ \/ Is("enqueue") /\ ready' = ready \cup ReadyExecutions(db, op[2])
     \/ Is("send") /\ ready' = ready \cup {op[2]}
  /\ Goes(<<>>) /\ World /\ UNCHANGED <<stores, triggers>>

\* One step of _apply_effects.
ApplyOne ==
  LET part == Head(op[2])
      rest == IF part[1] = "clear" THEN Tail(op[2]) ELSE <<<<"apply", Tail(op[2])>>>>
  IN  /\ Is("apply")
      /\ box' = IF part[1] = "acknowledge" THEN Acknowledge(box, part[2], part[3])
                ELSE IF part[1] = "publish" THEN Deliver(box, part[2]) ELSE box
      /\ mons' = IF part[1] = "observe" THEN Observe(mons, part[2].correlation, part[2].source)
                 ELSE IF part[1] = "arm" THEN Arm(mons, part[2][1], part[2][2])
                 ELSE IF part[1] = "disarm" THEN Disarm(mons, part[2]) ELSE mons
      /\ db' = IF part[1] = "clear" THEN Does(db, part) ELSE db
      /\ Goes(rest)
      /\ World /\ UNCHANGED queue

\* The events of acknowledgements among some effects.
Unpaid(parts) == UNION {x[3] : x \in {y \in ToSet(parts) : y[1] = "acknowledge"}}

\* _apply_effects_guarded: any one of them raises, and the row keeps them all
\* for the next startup.
ApplyRefused ==
  /\ Is("apply") /\ refusals < world.refusals
  /\ refusals' = refusals + 1 /\ left' = left \cup Unpaid(op[2])
  /\ Goes(<<>>)
  /\ UNCHANGED <<world, stores, queue, current, up, born, inbound, crashes>>

\* The death notice of a spawned child.
Death(s) == Letter(<<"death", s>>, Lineage(s).notify, Lineage(s).correlation, <<"session", s>>)
Notify ==
  /\ Is("notice")
  /\ IF Lineage(op[2]).notify = "" THEN UNCHANGED box /\ Goes(<<>>)
     ELSE box' = Deliver(box, Death(op[2])) /\ Goes(<<<<"observe", Death(op[2])>>, <<"wakes">>>>)
  /\ World /\ UNCHANGED <<db, mons, queue>>

NotifyRefused ==
  /\ Is("notice") /\ Lineage(op[2]).notify # "" /\ refusals < world.refusals
  /\ refusals' = refusals + 1
  /\ Goes(<<>>)
  /\ UNCHANGED <<world, stores, queue, current, up, born, inbound, crashes, left>>

\* tick_monitors for one lapsed monitor: mail first, then the mark.
Lapse(id) == Letter(<<"lapse", id, mons[id].cycles>>, mons[id].notify, "", <<"monitor">>)
Tick ==
  \/ /\ Is("observe") /\ mons' = Observe(mons, op[2].correlation, op[2].source)
     /\ Goes(<<>>) /\ World /\ UNCHANGED <<db, box, queue>>
  \/ /\ Is("lapse") /\ box' = (IF op[2] \in DOMAIN mons THEN Deliver(box, Lapse(op[2])) ELSE box)
     /\ Goes(<<<<"lapsed", op[2]>>>>) /\ World /\ UNCHANGED <<db, mons, queue>>
  \/ /\ Is("lapsed") /\ mons' = MarkLapsed(mons, op[2])
     /\ Goes(<<>>) /\ World /\ UNCHANGED <<db, box, queue>>

\* Calls that only expand into others.
Call ==
  /\ \/ Is("actors") /\ Goes(Actors)
     \/ Is("wakes") /\ Goes(Wakes)
  /\ World /\ UNCHANGED <<stores, queue>>

\* start_session; without a session a trigger goes back to the queue.
Create ==
  LET s == <<born + 1>>
      free == SerialFree(db, op[2]) /\ born < world.sessions
  IN  /\ Is("create")
      /\ IF free
           THEN /\ db' = Does(db, <<"create_session", s, op[2]>>)
                /\ born' = born + 1
                /\ Goes(StartSteps(s, op[3]))
                /\ UNCHANGED triggers
           ELSE /\ triggers' = triggers \cup ({op[4]} \ {0})
                /\ Goes(<<>>)
                /\ UNCHANGED <<db, born>>
      /\ UNCHANGED <<world, box, mons, ready, current, up, inbound, crashes, refusals, left>>

\* The writes of start_session.
Start ==
  LET s == op[2]
      staged == Stages(op[3], s, 2, <<>>)
  IN  \/ /\ Is("sentinels")
         /\ OnlyStore(Does(db, <<"add_executions", s,
              <<[id |-> Head0(s), node |-> "__HEAD__", policy |-> NoPolicy],
                [id |-> End1(s), node |-> "__END__", policy |-> NoPolicy]>>>>), <<>>)
      \/ Is("head") /\ OnlyStore(Does(db, <<"mark_completed", s, {}>>), <<>>)
      \/ Is("stage") /\ OnlyStore(Does(db, <<"add_executions", s, staged.executions>>), <<>>)
      \/ /\ Is("wire")
         /\ OnlyStore(Does(db, <<"add_edges",
              staged.edges \cup {<<Head0(s), x, "">> : x \in staged.starts}
                \cup {<<staged.end, End1(s), "">>}>>), <<>>)

Do ==
  \/ Write \/ Run \/ Wait \/ Send \/ ApplyOne \/ Notify \/ Tick \/ Call \/ Create \/ Start
-----------------------------------------------------------------------------
(* The loop around it.                                                     *)

Free == up /\ todo = <<>> /\ current = <<>>
Loop == UNCHANGED <<world, stores, up, born, inbound, crashes, refusals, left>>

\* A retry whose delay is not over.
Early(e) == e \in DOMAIN db.exec /\ db.exec[e].status = "pending" /\ db.exec[e].retry = "later"

\* A message is received; one before its time goes back as it came.
Receive(e) ==
  /\ Free /\ e \in ready /\ ~Early(e)
  /\ ready' = ready \ {e} /\ current' = <<"execute", e>>
  /\ todo' = Execute(e)
  /\ Loop /\ UNCHANGED triggers

ReceiveTrigger(i) ==
  LET t == world.triggers[i]
  IN  /\ Free /\ i \in triggers /\ SerialFree(db, t.key) /\ born < world.sessions
      /\ triggers' = triggers \ {i} /\ current' = <<"trigger", i>>
      /\ todo' = <<<<"create", t.key, t.plan, i>>>>
      /\ Loop /\ UNCHANGED ready

\* message.ack
Ack ==
  /\ up /\ todo = <<>> /\ current # <<>>
  /\ current' = <<>>
  /\ Loop /\ UNCHANGED <<queue, todo>>

\* The wake tick of the loop: monitors, actors and waits.
Idle ==
  /\ Free
  /\ \/ Due(mons) # {} /\ todo' = SetToSeq({<<"lapse", id>> : id \in Due(mons)})
     \/ (\E c \in ActorMail : SerialFree(db, c)) /\ born < world.sessions /\ todo' = <<<<"actors">>>>
     \/ DueWaits # {} /\ todo' = <<<<"wakes">>>>
  /\ Loop /\ UNCHANGED <<queue, current>>

\* collect_garbage: the oldest terminal session goes.
Collect ==
  /\ Free /\ world.collects /\ TerminalSessions(db) # <<>>
  /\ db' = Does(db, <<"delete_session", TerminalSessions(db)[1]>>)
  /\ UNCHANGED <<world, box, mons, queue, current, todo, up, born, inbound, crashes, refusals, left>>

\* The worker dies; the message it held is delivered again.
Crash ==
  /\ up /\ crashes < world.crashes
  /\ todo # <<>> => op[1] \notin Uninterrupted
  /\ up' = FALSE /\ crashes' = crashes + 1
  /\ todo' = <<>> /\ current' = <<>>
  /\ ready' = ready \cup {e \in DOMAIN db.exec : current = <<"execute", e>>}
  /\ triggers' = triggers \cup {i \in DOMAIN world.triggers : current = <<"trigger", i>>}
  /\ UNCHANGED <<world, stores, born, inbound, refusals, left>>

Startup ==
  /\ ~up /\ up' = TRUE
  /\ todo' = Recovery
  /\ UNCHANGED <<world, stores, queue, current, born, inbound, crashes, refusals, left>>

\* IngressRouter._resolve: a route, an awaiting execution, or the inbox.
Resolve(n) ==
  LET mail == world.mail[n]
      derived == "corr:" \o mail.correlation
      waited == \E e \in WaitingExecutions(db) : db.exec[e].wake.conversation = derived
  IN  /\ inbound[n] = "new"
      /\ inbound' = [inbound EXCEPT ![n] =
           IF mail.correlation \in DOMAIN world.routes THEN world.routes[mail.correlation]
           ELSE IF mail.correlation # "" /\ waited THEN derived
           ELSE mail.conversation]
      /\ UNCHANGED <<world, stores, queue, current, todo, up, born, crashes, refusals, left>>

\* IngressRouter.accept, on the ingress' thread: append, observe, wake.
Inbound(n, step) == inbound' = [inbound EXCEPT ![n] = step]
Accept(n) ==
  LET mail == world.mail[n]
      letter == Letter(<<"mail", n>>, inbound[n], mail.correlation, mail.source)
  IN  /\ \/ /\ inbound[n] \notin {"new", "appended", "observed", "accepted"}
            /\ box' = Deliver(box, letter) /\ Inbound(n, "appended")
            /\ UNCHANGED <<db, mons, ready>>
         \/ /\ inbound[n] = "appended"
            /\ mons' = Observe(mons, mail.correlation, mail.source) /\ Inbound(n, "observed")
            /\ UNCHANGED <<db, box, ready>>
         \/ /\ inbound[n] = "observed"
            /\ db' = ForEach(LAMBDA d, e : Does(d, <<"wake", e>>), db, SetToSeq(DueWaits))
            /\ Inbound(n, "accepted")
            /\ ready' = ready \cup DueWaits
            /\ UNCHANGED <<box, mons>>
      /\ UNCHANGED <<world, triggers, current, todo, up, born, crashes, refusals, left>>

\* Time: a retry delay, a wait, a deadline or a lease runs out.
Clock ==
  /\ \/ /\ \E e \in DOMAIN db.exec : db.exec[e].retry = "later" /\ db' = [db EXCEPT !.exec[e].retry = "none"]
        /\ UNCHANGED <<box, mons>>
     \/ /\ \E e \in DOMAIN db.exec : db.exec[e].status \in {"waiting", "pending"}
              /\ db.exec[e].wake.at = "later"
              /\ db' = [db EXCEPT !.exec[e].wake.at = "passed"]
        /\ UNCHANGED <<box, mons>>
     \/ /\ \E id \in DOMAIN mons : ~mons[id].late /\ mons[id].cycles = 0
              /\ mons' = [mons EXCEPT ![id].late = TRUE]
        /\ UNCHANGED <<db, box>>
     \/ /\ \E i \in DOMAIN box.events : box.events[i].status = "leased" /\ box.events[i].lease = "held"
              /\ box' = [box EXCEPT !.events[i].lease = "expired"]
        /\ UNCHANGED <<db, mons>>
  /\ UNCHANGED <<world, queue, current, todo, up, born, inbound, crashes, refusals, left>>

\* A program: what its nodes may do, their registered max_attempts, actors by
\* conversation, routes by correlation, triggers sent and mail that comes in;
\* and its bounds: sessions that triggers and actors start, deaths of the worker,
\* effects and death notices that raise, and whether terminal sessions are ever collected.
Init ==
  /\ \E i \in DOMAIN Worlds : world = Worlds[i]
  /\ db = EmptyStore /\ box = EmptyBox /\ mons = NoMonitors
  /\ ready = {} /\ triggers = DOMAIN world.triggers
  /\ current = <<>> /\ todo = <<>> /\ up = TRUE /\ born = 0
  /\ inbound = [n \in DOMAIN world.mail |-> "new"]
  /\ crashes = 0 /\ refusals = 0 /\ left = {}

Engine ==
  \/ Do \/ Ack \/ Idle \/ Startup
  \/ \E e \in ready : Receive(e)
  \/ \E i \in DOMAIN world.triggers : ReceiveTrigger(i)

Next ==
  \/ Engine \/ ApplyRefused \/ NotifyRefused \/ Collect \/ Crash \/ Clock
  \/ \E n \in DOMAIN world.mail : Resolve(n) \/ Accept(n)

\* Some step of Engine is enabled.
EngineCan ==
  \/ ~up \/ todo # <<>> \/ current # <<>>
  \/ Due(mons) # {} \/ DueWaits # {}
  \/ \E e \in ready : ~Early(e)
  \/ /\ born < world.sessions
     /\ \/ \E i \in triggers : SerialFree(db, world.triggers[i].key)
        \/ \E c \in ActorMail : SerialFree(db, c)

\* The worker runs and is restarted: weak fairness of Engine, written with the
\* variables of which every step of it changes one, as the deaths and refusals
\* that change them too are finitely many.
Serves ==
  []<>~EngineCan \/ []<><<todo' # todo \/ current' # current \/ up' # up>>_vars

\* Ingress goes through with what it accepted, and clocks run.
Fairness ==
  /\ Serves /\ WF_vars(Clock)
  /\ \A n \in 1..2 : WF_vars(n \in DOMAIN world.mail /\ Accept(n))

Spec == Init /\ [][Next]_vars /\ Fairness
-----------------------------------------------------------------------------
(* Properties.                                                             *)

\* Every execution and session is in exactly the index sets of its status, so
\* that no scan of the engine misses one: this has to survive retries, parking,
\* waking, crashes and collection.
EngineOK ==
  /\ \A e \in DOMAIN db.exec :
       LET x == db.exec[e]
       IN  /\ x.status \in {"pending", "running", "waiting", "completed", "failed"}
           /\ x.session \in DOMAIN db.sess
           /\ (e \in db.pending) = (x.status = "pending")
           /\ (e \in db.waiting) = (x.status = "waiting")
           /\ (e \in db.outbox) = (x.effects # NoEffects)
  /\ db.pending \cup db.waiting \cup db.outbox \subseteq DOMAIN db.exec
  /\ \A s \in DOMAIN db.sess : /\ (s \in db.running) = (db.sess[s].status = "running")
                               /\ (s \in ToSet(db.terminal)) = (s \notin db.running)
  /\ todo # <<>> => up

\* An execution runs only after all its parents, also those that a plan put in
\* between later; and a session completes with no work of it undone, however it
\* grew, unless a gate ended it.
PlanOrder ==
  /\ \A e \in DOMAIN db.exec : db.exec[e].status # "pending" =>
       \A x \in Parents(db, e) : db.exec[x[1]].status = "completed"
  /\ \A s \in DOMAIN db.sess : db.sess[s].status = "completed" =>
       \/ \A e \in ExecutionsOf(db, s) : db.exec[e].status = "completed"
       \/ \E g \in ExecutionsOf(db, s) : /\ db.exec[g].node = "__GATE__"
                                         /\ db.exec[g].policy.condition \notin InputState(db, g)

\* Between messages no work of a running session is forgotten: what is ready
\* is queued and nothing is marked as running, whatever crash came before.
NothingStranded ==
  Free => \A s \in db.running : /\ ReadyExecutions(db, s) \subseteq ready
                                /\ RunningOf(db, s) = {}

\* A mailbox event is merged into the state of at most one wait, although its
\* lease runs out, its worker dies and the wait is replayed.  The exception is
\* an exception: one that is swallowed before the acknowledgement leaves the
\* event leased until the next startup (queue.py:816-823), and when the lease
\* has lapsed another wait merges it again.
MailOnce ==
  \A e, f \in DOMAIN db.exec : e # f => db.exec[e].got \cap db.exec[f].got \subseteq left

\* Whoever spawned a session hears of it: its result, its death notice, or the
\* lapse of the monitor armed in the same commit.
Heard(s) ==
  \/ <<"result", s>> \in DOMAIN box.ids \/ <<"death", s>> \in DOMAIN box.ids
  \/ \E id \in DOMAIN box.ids : id[1] = "lapse" /\ id[2][2] = <<Front(Front(s)), s[Len(s) - 1]>>
ChildIsHeard ==
  \A s \in {<<1, 2, 1>>} : (s \in DOMAIN db.sess) ~> Heard(s)

\* Mail for an actor finds one, through failed and finished sessions.
ActorServes ==
  \A n \in 1..2 :
    (n \in DOMAIN world.mail /\ inbound[n] \in {"appended", "observed", "accepted"} /\ box.ids[<<"mail", n>>] \in DOMAIN world.actors)
      ~> ((born = world.sessions /\ db.running = {}) \/ \E i \in DOMAIN box.events :
             box.events[i].letter.id = <<"mail", n>> /\ box.events[i].status = "acknowledged")

\* The Redis store, under the engine and its crashes, is the reference store:
\* no index, script or pipeline shows through.
Graph == INSTANCE GraphContract WITH
  sessions <- [s \in DOMAIN db.sess |->
     [status |-> db.sess[s].status,
      key |-> IF db.sess[s].status = "running" THEN db.sess[s].key ELSE ""]],
  executions <- [e \in DOMAIN db.exec |->
     [session |-> db.exec[e].session, status |-> db.exec[e].status,
      attempts |-> db.exec[e].attempts, got |-> db.exec[e].got,
      owes |-> db.exec[e].effects # NoEffects]],
  edges <- {<<x[1], x[2]>> : x \in db.edges}

ImplementsGraph == Graph!Spec

\* Triggers and actors that share a serial key never have overlapping sessions.
OneSessionPerKey ==
  \A s, t \in db.running : s # t /\ db.sess[s].key # "" => db.sess[s].key # db.sess[t].key
=============================================================================
