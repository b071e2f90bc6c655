--------------------------- MODULE SessionContract ---------------------------
(***************************************************************************)
(* What the storage contract (src/entourage/session_backend.py) promises a *)
(* session's clients, with no token, lease, attempt or clock in sight: a   *)
(* session lives once at a time, its mail is accepted once, and every mail *)
(* moves from unread to folded in exactly one atomic step of its session.  *)
(***************************************************************************)
CONSTANT Sessions

VARIABLES
  life,     \* "absent", "open", "failed" or "complete"
  unread,   \* accepted mail no checkpoint contains
  folded    \* mail that the session's checkpoint contains

vars == <<life, unread, folded>>

Init ==
  /\ life = [s \in Sessions |-> "absent"]
  /\ unread = [s \in Sessions |-> {}]
  /\ folded = [s \in Sessions |-> {}]

Receives(t) ==
  /\ unread[t] \subseteq unread'[t]
  /\ unread'[t] # unread[t] => /\ life[t] \in {"open", "failed"}
                               /\ (unread'[t] \ unread[t]) \cap folded[t] = {}

Born(t) ==
  life[t] = "absent" /\ life'[t] = "open" /\ folded'[t] = {}

\* create
Open(s) ==
  /\ life[s] = "absent"
  /\ life' = [life EXCEPT ![s] = "open"]
  /\ UNCHANGED <<unread, folded>>

\* append, and claim: mail comes in, and a claim may give sessions up.
Intake ==
  /\ UNCHANGED folded
  /\ \A t \in Sessions :
       /\ Receives(t)
       /\ life'[t] = life[t] \/ (life[t] = "open" /\ life'[t] = "failed")

\* retry
Revive(s) ==
  /\ life[s] = "failed"
  /\ life' = [life EXCEPT ![s] = "open"]
  /\ UNCHANGED <<unread, folded>>

\* commit: one session folds in some of its unread mail and may complete only
\* with none left; other sessions are born or receive mail in the same step.
Step(s) ==
  /\ life[s] = "open"
  /\ life'[s] \in {"open", "complete"}
  /\ life'[s] = "complete" => unread'[s] = {}
  /\ folded[s] \subseteq folded'[s]
  /\ folded'[s] \ folded[s] \subseteq unread[s]
  /\ unread[s] \ folded'[s] \subseteq unread'[s]
  /\ unread'[s] \cap folded'[s] = {}
  /\ \A t \in Sessions \ {s} :
       \/ Born(t)
       \/ life'[t] = life[t] /\ folded'[t] = folded[t] /\ Receives(t)

\* purge
Forget(gone) ==
  /\ \A s \in gone : life[s] = "complete"
  /\ life' = [s \in Sessions |-> IF s \in gone THEN "absent" ELSE life[s]]
  /\ unread' = [s \in Sessions |-> IF s \in gone THEN {} ELSE unread[s]]
  /\ folded' = [s \in Sessions |-> IF s \in gone THEN {} ELSE folded[s]]

Next ==
  \/ \E s \in Sessions : Open(s) \/ Revive(s) \/ Step(s)
  \/ Intake
  \/ \E gone \in SUBSET Sessions : Forget(gone)

Spec == Init /\ [][Next]_vars
=============================================================================
