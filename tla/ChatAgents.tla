------------------------------ MODULE ChatAgents ------------------------------
(***************************************************************************)
(* Agents that delegate (src/entourage/turn.py, panel.py, exchanges.py,    *)
(* deferred_tools.py): a root ChatAgent opens exchanges with providers,    *)
(* which are ChatAgents or ToolRunners in sessions of their own.  A        *)
(* session is named by the call that spawned it, <<2, 1>> being the first  *)
(* call of the root's second; a call's id is also its request id.          *)
(*                                                                         *)
(* An activation is claimed with a batch of mail and handled in one later  *)
(* step, which computes the whole proposal and commits it or raises: mail  *)
(* that arrives in between is what the commit's checks are about.  The     *)
(* model behind complete() is any model: it answers with text or with any  *)
(* tool calls it is offered.                                               *)
(***************************************************************************)
EXTENDS Naturals, FiniteSets, Sequences, SequencesExt, Iteration

CONSTANTS
  Depth,          \* bound: how deep agents delegate
  MaxCalls,       \* bound: tool calls of a session, by its depth
  Offers,         \* tools offered to an agent, by its depth
  MaxTurnCalls,   \* bound: tool calls in one reply of the model
  MaxEvents,      \* max_events of a claim
  MaxAttempts,    \* max_attempts of a claim
  Budgeted,       \* whether the pipes have a wait budget
  Interruptible,  \* whether a message for the model promotes a wait
  Fallible,       \* sessions whose steps may raise or crash by themselves
  MaxFaults,      \* bound: such failures
  Retriable,      \* sessions an operator returns to service
  MaxUser         \* bound: messages of the user

ASSUME AgentBounds ==
  /\ Depth \in Nat /\ MaxTurnCalls \in Nat
  /\ MaxEvents \in Nat \ {0} /\ MaxAttempts \in Nat \ {0}
  /\ MaxCalls \in [0..Depth -> Nat]
  /\ Offers[Depth] \cap {"wait", "connected", "lifted"} = {}

Root == <<>>
MostCalls == CHOOSE n \in {MaxCalls[d] : d \in 0..Depth} : \A d \in 0..Depth : MaxCalls[d] <= n
Sessions == UNION {{s \in [1..d -> 1..MostCalls] : \A i \in 1..d : s[i] <= MaxCalls[i - 1]} :
                     d \in 0..Depth}
Calls(s) == {Append(s, n) : n \in 1..MaxCalls[Len(s)]}
Parent(s) == Front(s)

VARIABLES
  row,      \* the store's row of each session
  inbox,    \* mail no checkpoint contains, in accepted order
  folded,   \* mail the session's checkpoint contains
  mind,     \* the state dict of each ChatAgent and ToolRunner session
  faults,   \* failures so far
  users     \* messages of the user so far

vars == <<row, inbox, folded, mind, faults, users>>

\* Mail: its event id is the kind with the key; about is the request id.
Event(kind, key, about, status) ==
  [kind |-> kind, key |-> key, about |-> about, status |-> status]
User(n) == Event("user", n, Root, "")
Timer(r) == Event("timer", r, Root, "")
Notice(s) == Event("notice", <<row[s].revision, row[s].attempts>>, s, "failed")

NoRow == [status |-> "absent", kind |-> "agent", wake |-> "none", revision |-> 0,
          attempts |-> 0, held |-> FALSE, batch |-> 0, more |-> FALSE]
NewRow(kind) == [NoRow EXCEPT !.status = "live", !.kind = kind, !.wake = "fresh"]

\* tail: the role of the last message; results: tool messages written for each
\* of the session's calls; closed: entries taken off the table in this step;
\* heard: history of what the model was told about the work of its calls.
NewMind(s) == [panel |-> <<>>, deferred |-> <<>>, buffered |-> FALSE, tail |-> "none",
               work |-> "none", calls |-> 0, results |-> [c \in Calls(s) |-> 0],
               heard |-> {}, closed |-> {}]
-----------------------------------------------------------------------------
(* The panel, on the mind m of a session.                                  *)

OnTable(m, c) == c \in DOMAIN m.panel /\ c \notin m.closed
Waiting(m) == {c \in DOMAIN m.panel : OnTable(m, c) /\ m.panel[c].mode = "wait"}
DueWaits(m) == {c \in Waiting(m) : m.panel[c].until = "passed"}
NextDeadline(m) ==
  IF \E c \in Waiting(m) : m.panel[c].until # "none" THEN "budget" ELSE "none"

OpenEntry(m, c, mode, until, interruptible, grants) ==
  [m EXCEPT !.panel = [d \in DOMAIN @ \cup {c} |->
     IF d = c THEN [mode |-> mode, status |-> "working", until |-> until,
                    interruptible |-> interruptible, grants |-> grants, fenced |-> FALSE]
              ELSE @[d]]]

Promote(m, cs) ==
  [m EXCEPT !.panel = [c \in DOMAIN @ |->
     IF c \in cs THEN [@[c] EXCEPT !.mode = "connected"] ELSE @[c]]]

\* Exchanges.ingest: a reply on an open exchange; only a result closes it.
IsReply(m, e) == e.kind \in {"result", "ask"} /\ OnTable(m, e.about)

\* Defect to be caught: the panel forgets that the caller cancelled the work.
IngestReplyUnfenced(m, e) ==
  [m EXCEPT !.panel[e.about].status =
              IF e.kind = "ask" THEN "input_required" ELSE e.status,
            !.closed = IF e.kind = "result" THEN @ \cup {e.about} ELSE @]

\* Panel.ingest: what the caller cancelled stays cancelled and is fenced.
IngestReply(m, e) ==
  LET c == e.about
      m1 == [m EXCEPT !.closed = IF e.kind = "result" THEN @ \cup {c} ELSE @]
  IN  IF m.panel[c].status = "cancelled"
        THEN [m1 EXCEPT !.panel[c].fenced = TRUE]
        ELSE [m1 EXCEPT !.panel[c].status =
                IF e.kind = "ask" THEN "input_required" ELSE e.status]

\* Ingest splits the mail: replies update the panel first, the rest follows.
IngestOne(split, e) ==
  IF IsReply(split.mind, e)
    THEN [split EXCEPT !.mind = IngestReply(@, e), !.replies = Append(@, e)]
    ELSE [split EXCEPT !.others = Append(@, e)]
Ingest(m, mail) ==
  ForEach(IngestOne, [mind |-> m, replies |-> <<>>, others |-> <<>>], mail)
-----------------------------------------------------------------------------
(* Writing outcomes into the conversation.                                 *)

Hear(m, c, what) == [m EXCEPT !.heard = @ \cup {<<c, what>>}]
Defer(m, c) == [m EXCEPT !.deferred = Append(@, c)]
Write(m, c) == [m EXCEPT !.results[c] = @ + 1, !.tail = "tool"]

\* Defect to be caught: a promoted wait leaves its tool call without a result.
DeliverSilently(m) ==
  [Promote(m, {c \in Waiting(m) : m.panel[c].interruptible}) EXCEPT !.buffered = TRUE]

\* _deliver: a message for the model promotes the interruptible waits.
Deliver(m) ==
  LET open == {c \in Waiting(m) : m.panel[c].interruptible}
  IN  [Promote(m, open) EXCEPT !.deferred = @ \o SetToSeq(open), !.buffered = TRUE]

\* _settle: the tool result of a call held open, a message otherwise.
Settle(m, c, what) ==
  LET told == Hear(m, c, what)
      early == OnTable(m, c) /\ m.panel[c].status # "completed"
  IN  IF m.panel[c].mode = "wait"
        THEN Defer(IF early THEN Promote(told, {c}) ELSE told, c)
        ELSE Deliver(told)

\* _fold: a fenced reply is discarded.
Fold(m, e) ==
  IF m.panel[e.about].fenced THEN m
  ELSE Settle(m, e.about, IF e.kind = "ask" THEN "asks" ELSE m.panel[e.about].status)

\* panel.fail and _settle: close every entry of the failed work.
FailWork(m, c) ==
  LET m1 == [m EXCEPT !.closed = @ \cup {c}]
  IN  IF ~OnTable(m, c) THEN m
      ELSE IF m.panel[c].status = "cancelled" THEN m1
      ELSE Settle([m1 EXCEPT !.panel[c].status = "failed"], c, "failed")

\* Defect to be caught: messages buffered behind a held call are not appended.
FlushResultsOnly(m) ==
  IF Waiting(m) # {} THEN m
  ELSE [m EXCEPT !.tail = IF m.deferred # <<>> THEN "tool" ELSE @, !.deferred = <<>>,
                 !.results = [c \in DOMAIN @ |->
                   @[c] + Cardinality({i \in DOMAIN m.deferred : m.deferred[i] = c})]]

\* _flush: once no call is held open, the deferred results, then the messages.
Flush(m) ==
  IF Waiting(m) # {} THEN m
  ELSE [m EXCEPT !.tail = IF m.buffered THEN "user" ELSE IF m.deferred # <<>> THEN "tool" ELSE @,
                 !.deferred = <<>>, !.buffered = FALSE,
                 !.results = [c \in DOMAIN @ |->
                   @[c] + Cardinality({i \in DOMAIN m.deferred : m.deferred[i] = c})]]
-----------------------------------------------------------------------------
(* A proposal: the new mind, the mail and children staged with it, the     *)
(* deadline, and whether the session completes; raised when the handler    *)
(* gave up.                                                                *)

Job(m) == m.work \in {"working", "input_required"}

Proposal(m) == [mind |-> m, send |-> <<>>, spawn |-> {}, wake |-> "none",
                asked |-> FALSE, complete |-> FALSE, raised |-> FALSE]
Send(p, to, e) == [p EXCEPT !.send = Append(@, <<to, e>>)]

\* _finish: reply to the caller and complete.
FinishJob(s, m, status) ==
  [Send(Proposal([m EXCEPT !.work = status]), Parent(s), Event("result", s, s, status))
    EXCEPT !.complete = TRUE]

\* One event that is no reply.  After a cancel the loop has returned.
Take(s, p, e) ==
  LET m == p.mind
  IN  IF p.raised \/ p.complete THEN p
      ELSE CASE
           e.kind \in {"user", "steer", "answer"} -> [p EXCEPT !.mind = Deliver(m)]
        [] e.kind = "request" -> [p EXCEPT !.mind = Deliver([m EXCEPT !.work = "working"])]
        [] e.kind = "cancel" /\ Job(m) -> FinishJob(s, m, "cancelled")
        [] e.kind = "timer" -> p
        [] e.kind = "notice" -> [p EXCEPT !.mind = FailWork(m, e.about)]
        [] OTHER -> [p EXCEPT !.raised = TRUE]

TakeAll(s, p, mail) == ForEach(LAMBDA q, e : Take(s, q, e), p, mail)

\* The ingestion half of ChatAgent.resume: replies, other mail, budgets.
Ingested(s, m, mail) ==
  LET split == Ingest(m, mail)
      told == ForEach(Fold, split.mind, split.replies)
      p == TakeAll(s, Proposal(told), split.others)
      due == DueWaits(p.mind)
      late == [Promote(p.mind, due) EXCEPT !.deferred = @ \o SetToSeq(due)]
  IN  IF p.raised \/ p.complete THEN p ELSE [p EXCEPT !.mind = Flush(late)]

\* _delegate: the call stays open under wait and returns at once otherwise.
Delegate(p, c, mode) ==
  LET until == IF mode = "wait" /\ Budgeted THEN "later" ELSE "none"
      opened == OpenEntry(p.mind, c, mode, until, Interruptible, {"steer", "cancel", "answer"})
  IN  Send([p EXCEPT !.mind = IF mode = "wait" THEN opened ELSE Write(opened, c),
                     !.spawn = @ \cup {<<c, "agent">>}], c, Event("request", c, c, ""))

\* A Pending result of a tool: a strict wait for a ToolRunner, with no controls.
AwaitTool(p, c) ==
  Send([p EXCEPT !.mind = OpenEntry(@, c, "wait", "none", FALSE, {}),
                 !.spawn = @ \cup {<<c, "runner">>}], c, Event("request", c, c, ""))

\* Defect to be caught: cancelling drops the entry that would fence the work.
CancelDropped(p, c, w) ==
  LET m == [p.mind EXCEPT !.closed = @ \cup {w}]
  IN  Send([p EXCEPT !.mind = Write(IF p.mind.panel[w].mode = "wait" THEN Defer(m, w) ELSE m, c)],
           w, Event("cancel", c, w, ""))

\* panel.cancel: mark and keep the entry; a call it held open is told so.
Cancel(p, c, w) ==
  LET m == [p.mind EXCEPT !.panel[w].status = "cancelled", !.panel[w].mode = "connected"]
  IN  Send([p EXCEPT !.mind = Write(IF p.mind.panel[w].mode = "wait" THEN Defer(m, w) ELSE m, c)],
           w, Event("cancel", c, w, ""))

\* _control: steer, answer or cancel; a refusal comes back as the tool result.
Control(p, c, name, w) ==
  LET e == p.mind.panel[w]
      refused == [p EXCEPT !.mind = Write(@, c)]
  IN  IF name \notin e.grants THEN refused
      ELSE CASE
           name = "steer" -> Send(refused, w, Event("steer", c, w, ""))
        [] name = "answer" /\ e.status = "input_required" ->
             Send([p EXCEPT !.mind = Write([@ EXCEPT !.panel[w].status = "working"], c)],
                  w, Event("answer", c, w, ""))
        [] name = "cancel" /\ e.status # "cancelled" -> Cancel(p, c, w)
        [] OTHER -> refused

\* ask_caller: a question to the caller of the job.
Ask(s, p, c) ==
  Send([p EXCEPT !.mind = Write([@ EXCEPT !.work = "input_required"], c), !.asked = TRUE],
       Parent(s), Event("ask", c, s, ""))

\* _run_call
RunCall(s, p, call) ==
  LET c == Append(s, p.mind.calls + 1)
      q == [p EXCEPT !.mind.calls = @ + 1]
  IN  CASE call.name \in {"wait", "connected"} -> Delegate(q, c, call.name)
        [] call.name = "lifted" -> AwaitTool(q, c)
        [] call.name \in {"steer", "answer", "cancel"} -> Control(q, c, call.name, call.work)
        [] call.name = "ask" -> Ask(s, q, c)
        [] OTHER -> [q EXCEPT !.mind = Write(@, c)]

RunCalls(s, p, calls) == ForEach(LAMBDA q, call : RunCall(s, q, call), p, calls)

\* What a model may call now: its work is named by the panel.
Offered(s, m) ==
  LET here == Offers[Len(s)] \ (IF Job(m) THEN {} ELSE {"ask"})
  IN  [name : here \ {"steer", "answer", "cancel"}, work : {Root}]
      \cup [name : here \cap {"steer", "answer", "cancel"},
            work : DOMAIN m.panel \ m.closed]

Replies(s, m) ==
  LET left == MaxCalls[Len(s)] - m.calls
      most == IF left < MaxTurnCalls THEN left ELSE MaxTurnCalls
  IN  UNION {[1..n -> Offered(s, m)] : n \in 0..most}

\* _turn: the model's reply; no call in it is an answer in text.
Turn(s, p, calls) ==
  LET said == [p EXCEPT !.mind.tail = "assistant"]
      ran == RunCalls(s, said, calls)
      wake == IF Waiting(ran.mind) # {} THEN NextDeadline(ran.mind)
              ELSE IF ran.asked THEN "none" ELSE "now"
  IN  IF calls # <<>> THEN [ran EXCEPT !.wake = wake]
      ELSE IF Job(said.mind) THEN FinishJob(s, said.mind, "completed")
      ELSE said

\* Defect to be caught: a provider parks as long as it counts as asking.
ParksWhileAsking(m) == m.tail \notin {"user", "tool"} \/ m.work = "input_required"

\* Nothing for the model to answer, or its question is out.
Parks(m) ==
  \/ m.tail \notin {"user", "tool"}
  \/ m.work = "input_required" /\ m.tail = "tool"

\* What an agent may propose for the delivered mail.
Resume(s, mail, more) ==
  LET p == Ingested(s, mind[s], mail)
      m == p.mind
  IN  IF p.raised \/ p.complete \/ more THEN {p}
      ELSE IF Waiting(m) # {} THEN {[p EXCEPT !.wake = NextDeadline(m)]}
      ELSE IF Parks(m) THEN {p}
      ELSE {Turn(s, p, calls) : calls \in Replies(s, m)}

\* ToolRunner.resume: one request, one reply.
RunTool(s, mail, more) ==
  LET requests == {i \in DOMAIN mail : mail[i].kind = "request"}
      m == [mind[s] EXCEPT !.work = IF requests # {} THEN "working" ELSE @]
      unexpected == \/ \E i \in DOMAIN mail : mail[i].kind \notin {"request", "timer"}
                    \/ Cardinality(requests) + (IF mind[s].work # "none" THEN 1 ELSE 0) > 1
  IN  IF unexpected THEN [Proposal(m) EXCEPT !.raised = TRUE]
      ELSE IF more \/ m.work = "none" THEN Proposal(m)
      ELSE FinishJob(s, m, "completed")

Handler(s, mail, more) ==
  IF row[s].kind = "agent" THEN Resume(s, mail, more) ELSE {RunTool(s, mail, more)}
-----------------------------------------------------------------------------
(* The store around the handlers, as the session contract has it.          *)

Live(s) == row[s].status = "live"
Accepted(s) == ToSet(inbox[s]) \cup folded[s]
DeadlineDue(s) == row[s].wake = "now" \/ (row[s].wake = "budget" /\ DueWaits(mind[s]) # {})
Ready(s) == Live(s) /\ ~row[s].held
              /\ (row[s].wake = "fresh" \/ DeadlineDue(s) \/ inbox[s] # <<>>)

\* claim: how much of the mail an activation is given.
Batch(mail) == IF Len(mail) > MaxEvents THEN MaxEvents ELSE Len(mail)

\* claim: a due deadline is mail first; the batch is bounded.
Claim(s) ==
  LET due == DeadlineDue(s) /\ Timer(row[s].revision) \notin Accepted(s)
      mail == IF due THEN Append(inbox[s], Timer(row[s].revision)) ELSE inbox[s]
      n == Batch(mail)
  IN  /\ Ready(s) /\ row[s].attempts < MaxAttempts
      /\ inbox' = [inbox EXCEPT ![s] = mail]
      /\ row' = [row EXCEPT ![s].held = TRUE, ![s].attempts = @ + 1,
                            ![s].batch = n, ![s].more = n < Len(mail)]
      /\ UNCHANGED <<folded, mind, faults, users>>

\* claim: a session whose attempts are spent is parked as failed.
GiveUp(s) ==
  /\ Ready(s) /\ row[s].attempts >= MaxAttempts
  /\ row' = [row EXCEPT ![s].status = "failed"]
  /\ UNCHANGED <<inbox, folded, mind, faults, users>>

Delivered(s) == SubSeq(inbox[s], 1, row[s].batch)
Born(p) == {child[1] : child \in p.spawn}

\* Defect to be caught: a session completes over mail it has not read.
RefusedByTarget(s, p) ==
  \E i \in DOMAIN p.send : LET t == p.send[i][1]
                           IN  row[t].status = "complete" \/ (row[t].status = "absent" /\ t \notin Born(p))

\* What makes commit reject a proposal.
Refused(s, p) ==
  \/ \E i \in DOMAIN p.send : LET t == p.send[i][1]
                             IN  row[t].status = "complete" \/ (row[t].status = "absent" /\ t \notin Born(p))
  \/ p.complete /\ Len(inbox[s]) > row[s].batch

\* Mail for t staged in a proposal of s, after what t already had.
MailFor(t, p) ==
  ForEach(LAMBDA q, item : IF item[1] = t THEN Append(q, item[2]) ELSE q, <<>>, p.send)

Table(m) ==
  [m EXCEPT !.panel = [c \in DOMAIN @ \ m.closed |-> @[c]], !.closed = {}]

Unheld(r) == [r EXCEPT !.held = FALSE, !.batch = 0, !.more = FALSE]

\* commit: the whole proposal in one transaction.
Commit(s, p) ==
  /\ row' = [t \in Sessions |->
       IF t = s THEN [Unheld(row[s]) EXCEPT !.status = IF p.complete THEN "complete" ELSE "live",
                        !.wake = p.wake, !.revision = @ + 1, !.attempts = 0]
       ELSE IF t \in Born(p) THEN NewRow(IF <<t, "agent">> \in p.spawn THEN "agent" ELSE "runner")
       ELSE row[t]]
  /\ inbox' = [t \in Sessions |->
       (IF t = s THEN SubSeq(inbox[s], row[s].batch + 1, Len(inbox[s])) ELSE inbox[t])
         \o MailFor(t, p)]
  /\ folded' = [folded EXCEPT ![s] = @ \cup ToSet(Delivered(s))]
  /\ mind' = [mind EXCEPT ![s] = Table(p.mind)]
  /\ UNCHANGED <<faults, users>>

\* The dispatcher runs the handler and commits, or releases with the error.
Step(s) ==
  /\ Live(s) /\ row[s].held
  /\ \E p \in Handler(s, Delivered(s), row[s].more) :
       IF p.raised \/ Refused(s, p)
         THEN /\ row' = [row EXCEPT ![s] = Unheld(@)]
              /\ UNCHANGED <<inbox, folded, mind, faults, users>>
         ELSE Commit(s, p)

\* The model or a tool raises, or the worker dies: the attempt stays counted.
Fails(s) ==
  /\ s \in Fallible /\ faults < MaxFaults
  /\ Live(s) /\ row[s].held
  /\ row' = [row EXCEPT ![s] = Unheld(@)]
  /\ faults' = faults + 1
  /\ UNCHANGED <<inbox, folded, mind, users>>

\* The runner's notify is the root: every failed session is mail to it.
NotifyFailure(s) ==
  /\ row[s].status = "failed"
  /\ Notice(s) \notin Accepted(Root)
  /\ inbox' = [inbox EXCEPT ![Root] = Append(@, Notice(s))]
  /\ UNCHANGED <<row, folded, mind, faults, users>>

\* retry, called by an operator.
Retry(s) ==
  /\ s \in Retriable /\ row[s].status = "failed"
  /\ row' = [row EXCEPT ![s].status = "live", ![s].attempts = 0]
  /\ UNCHANGED <<inbox, folded, mind, faults, users>>

\* The budget of a wait runs out.
Elapse(s) ==
  \E c \in Waiting(mind[s]) :
    /\ mind[s].panel[c].until = "later"
    /\ mind' = [mind EXCEPT ![s].panel[c].until = "passed"]
    /\ UNCHANGED <<row, inbox, folded, faults, users>>

\* SessionIngress.ensure: the first delivery creates the session its member is
\* keyed to; of several at once, one does.
Ensure ==
  /\ row[Root].status = "absent"
  /\ row' = [row EXCEPT ![Root] = NewRow("agent")]
  /\ UNCHANGED <<inbox, folded, mind, faults, users>>

\* deliver, after ensure: the append is a call of its own, so the session may
\* have run without mail; a delivery that died in between starts over.
UserWrites ==
  /\ users < MaxUser
  /\ row[Root].status \in {"live", "failed"}
  /\ users' = users + 1
  /\ inbox' = [inbox EXCEPT ![Root] = Append(@, User(users'))]
  /\ UNCHANGED <<row, folded, mind, faults>>

Init ==
  /\ row = [s \in Sessions |-> NoRow]
  /\ inbox = [s \in Sessions |-> <<>>]
  /\ folded = [s \in Sessions |-> {}]
  /\ mind = [s \in Sessions |-> NewMind(s)]
  /\ faults = 0 /\ users = 0

Next ==
  \/ Ensure \/ UserWrites
  \/ \E s \in Sessions :
       \/ Claim(s) \/ GiveUp(s) \/ Step(s) \/ Fails(s)
       \/ NotifyFailure(s) \/ Retry(s) \/ Elapse(s)

\* A session that stays ready or claimed is claimed, given up or stepped: weak
\* fairness of those actions, of which at least one is then enabled, written
\* with the row they change.
Served(s) == []<>(~Ready(s) /\ ~row[s].held) \/ []<><<row'[s] # row[s]>>_vars

\* Workers poll in rotation, the runner ticks and the clock runs; no model,
\* user or operator has to do anything.
Fairness ==
  \A s \in Sessions : Served(s) /\ WF_vars(NotifyFailure(s)) /\ WF_vars(Elapse(s))

Spec == Init /\ [][Next]_vars /\ Fairness
-----------------------------------------------------------------------------
(* Properties.                                                             *)

\* Every tool call the model made is held open by a wait, or has its result in
\* the deferred list, or has it in the conversation: exactly one of them, once.
\* A second result, or none, makes the next model call invalid.
OneResultPerCall ==
  \A s \in Sessions : \A n \in 1..mind[s].calls :
    LET c == Append(s, n)
        m == mind[s]
    IN  m.results[c] + Cardinality({i \in DOMAIN m.deferred : m.deferred[i] = c})
          + Cardinality(Waiting(m) \cap {c}) = 1

\* No session is ever sent mail its handler takes for unexpected, so no step
\* is doomed to fail on each retry: late results, questions and notices always
\* find the entry they belong to, or one that fences them.
MailIsExpected ==
  \A s \in Sessions : Live(s) => \A p \in Handler(s, inbox[s], TRUE) : ~p.raised

\* What happens to work its caller has cancelled is never told to the model.
CancelledIsSilent ==
  [][\A s \in Sessions : \A c \in DOMAIN mind[s].panel :
       mind[s].panel[c].status = "cancelled" =>
         \A what \in {"asks", "completed", "cancelled", "failed"} :
           <<c, what>> \in mind'[s].heard => <<c, what>> \in mind[s].heard]_vars

\* The question of s is on its way to the caller or known there.
QuestionOut(s) ==
  \/ \E i \in DOMAIN inbox[Parent(s)] :
       inbox[Parent(s)][i].kind = "ask" /\ inbox[Parent(s)][i].about = s
  \/ OnTable(mind[Parent(s)], s) /\ mind[Parent(s)].panel[s].status \in {"input_required", "cancelled"}

\* A provider that got its answer goes on: it ends its job, fails, or asks
\* the next question.
AnswerResumes ==
  \A s \in Sessions \ {Root} :
    (\E i \in DOMAIN inbox[s] : inbox[s][i].kind = "answer")
      ~> (row[s].status \in {"complete", "failed"} \/ QuestionOut(s))

\* Each message written to the root is taken into its conversation and answered
\* after that, through every wait, budget, question and failure in between,
\* unless the root's own step fails.  (A message that a step takes in is buffered
\* or becomes the last of the conversation, so a reply at its end is a later one.)
UserServed ==
  \A n \in 1..MaxUser :
    User(n) \in ToSet(inbox[Root])
      ~> \/ row[Root].status = "failed"
         \/ /\ User(n) \in folded[Root]
            /\ mind[Root].tail = "assistant" /\ ~mind[Root].buffered
            /\ Waiting(mind[Root]) = {}

\* The store as the agents use it is one the session contract allows.
Contract == INSTANCE SessionContract WITH
  life <- [s \in Sessions |-> IF row[s].status = "live" THEN "open" ELSE row[s].status],
  unread <- [s \in Sessions |-> ToSet(inbox[s])]

OnContract == [][Contract!Next]_(Contract!vars)
=============================================================================
