----------------------------- MODULE MCGraphRuntime -----------------------------
(* Programs: a plan spliced in by a node that may fail; a gate, with a         *)
(* heartbeat; a parent that waits for a spawned child; an actor with its mail; *)
(* on Redis and on SQLite.                                                     *)
EXTENDS GraphRuntime, Planner

Nothing == [triggers |-> <<>>, nodes |-> <<>>, tries |-> <<>>, actors |-> <<>>,
            routes |-> <<>>, mail |-> <<>>, sessions |-> 2, crashes |-> 1, refusals |-> 1, collects |-> TRUE,
            sqlite |-> FALSE]
OnTrigger(plan, key) == [plan |-> plan, key |-> key]
Message(conversation, correlation) ==
  [conversation |-> conversation, correlation |-> correlation, source |-> <<"user">>]

Splicing == [Nothing EXCEPT
  !.triggers = <<OnTrigger(InSequence(<<Node("a", 2, TRUE, 0), Leaf("b")>>), "")>>,
  !.nodes = [n \in {"a", "b", "c", "d"} |->
     CASE n = "a" -> {[Returns({"k"}) EXCEPT !.plan = <<InParallel(<<Leaf("c"), Leaf("d")>>)>>], Raises}
       [] n = "c" -> {Returns({"k"}), [Returns({"k"}) EXCEPT !.plan = <<Node("c", 0, FALSE, 1)>>]}
       [] OTHER -> {Returns({"k"})}]]

Gated == [Nothing EXCEPT
  !.triggers = <<OnTrigger(InSequence(<<Leaf("a"), Conditional("go", Leaf("b")), Leaf("x")>>), "key"),
                 OnTrigger(Leaf("b"), "key")>>,
  !.tries = [n \in {"b"} |-> 2],
  !.nodes = [n \in {"a", "b"} |->
     IF n = "a" THEN {[Returns({"go"}) EXCEPT !.arm = <<Armed("inbox", "z", <<>>, TRUE)>>], Returns({"stop"})}
     ELSE {[Returns({"k"}) EXCEPT !.disarm = {<<"mon", <<<<1>>, 2>>, 1>>}], Raises}]]

Child == [plan |-> Leaf("c"), correlation |-> "j", notify |-> "corr:j"]
Spawning == [Nothing EXCEPT !.sessions = 1, !.collects = FALSE,
  !.triggers = <<OnTrigger(InSequence(<<Leaf("p"), WaitForMailbox("corr:j", FALSE, 1)>>), "")>>,
  !.nodes = [n \in {"p", "c"} |->
     CASE n = "p" -> {[Returns({"k"}) EXCEPT !.spawn = <<Child>>,
                         !.arm = <<Armed("corr:j", "j", <<>>, FALSE)>>]}
       [] OTHER -> {Returns({"k"}), Raises}]]

Awaiting == [Nothing EXCEPT
  !.triggers = <<OnTrigger(InSequence(<<WaitForMailbox("corr:j", TRUE, 1), Leaf("q")>>), "")>>,
  !.mail = <<Message("inbox", "j")>>,
  !.nodes = [n \in {"q"} |->
     {[Returns({"k"}) EXCEPT !.acknowledge = {[conversation |-> "inbox", ids |-> {<<"mail", 1>>}]}]}]]

Acting == [Nothing EXCEPT !.refusals = 0,
  !.actors = [c \in {"chat"} |-> InSequence(<<WaitForMailbox("chat", FALSE, 1), Leaf("h")>>)],
  !.mail = <<Message("chat", ""), Message("", "r")>>,
  !.routes = [r \in {"r"} |-> "chat"],
  !.nodes = [n \in {"h"} |->
     {[Returns({"k"}) EXCEPT !.publish = <<[conversation |-> "out", correlation |-> ""]>>], Raises}]]

\* The same with an effect that raises: with both letters, and with a crash.
Refusing == [Acting EXCEPT !.refusals = 1, !.crashes = 0]
Routed == [Acting EXCEPT !.refusals = 1, !.mail = <<Message("", "r")>>]

\* An actor with two branches that may both fail, never collected.
Branching == [Acting EXCEPT !.sessions = 3, !.crashes = 0, !.collects = FALSE,
  !.actors = [c \in {"chat"} |->
     InSequence(<<WaitForMailbox("chat", FALSE, 1), InParallel(<<Leaf("h"), Leaf("h")>>)>>)],
  !.mail = <<Message("chat", "x"), Message("chat", "y")>>]

OnSqlite(program) == [program EXCEPT !.sqlite = TRUE]

AllWorlds == <<Splicing, Gated, Spawning, Awaiting, Acting, Refusing, Routed,
               OnSqlite(Splicing), OnSqlite(Gated), OnSqlite(Spawning), OnSqlite(Branching)>>
BranchingOnly == <<Branching>>

PlansOf(program) ==
  {program.triggers[k].plan : k \in DOMAIN program.triggers} \cup Range(program.actors)
    \cup UNION {UNION {ToSet(t.plan) \cup {t.spawn[k].plan : k \in DOMAIN t.spawn} :
                       t \in program.nodes[n]} : n \in DOMAIN program.nodes}

\* The planner numbers what it stages from where it is told to, which the proofs
\* about the engine have as their hypothesis (PlannerOK).
ASSUME PlannerNumbers ==
  \A i \in DOMAIN AllWorlds : \A plan \in PlansOf(AllWorlds[i]) :
    \A n \in 0..MaxNodes : \A names \in {<<>>, <<"c">>} :
      LET xs == Stages(plan, <<1>>, n, names).executions
      IN  \A k \in 1..Len(xs) : xs[k].id = <<<<1>>, n + k - 1>>

Whole == {"sentinels", "stage", "wire", "head", "complete_session", "fail_session"}
=============================================================================
