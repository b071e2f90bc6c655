----------------------------- MODULE RedisReadyQueue -----------------------------
(***************************************************************************)
(* The fair-share ready queue (src/entourage/runtime/redis_queue.py).      *)
(* Every payload waits on the list of its fairness key; workers claim by   *)
(* rotating over the active keys, and a claimed payload is in the          *)
(* in-flight hash until it is acknowledged.  Every action is one Redis     *)
(* command or one MULTI pipeline, so that workers interleave and die       *)
(* between any two of them.  Expiry of a list nobody touches for a day is  *)
(* left out.                                                               *)
(***************************************************************************)
EXTENDS Naturals, FiniteSets, Sequences

CONSTANTS
  Workers, Payloads, Keys,
  KeyOf,          \* _fairness_key of a payload
  Backlog,        \* lists by key that Redis holds at the start
  Batch,          \* max_messages of a receive
  MaxFaults,      \* deaths, slow workers and nacks, together
  None

ASSUME KeyAssumption == KeyOf \in [Payloads -> Keys]
ASSUME NoneAssumption == None \notin Payloads \cup Keys
ASSUME BacklogAssumption ==
  /\ Backlog \in [Keys -> Seq(Payloads)]
  /\ \A k \in Keys : \A i \in DOMAIN Backlog[k] :
       KeyOf[Backlog[k][i]] = k /\ \A j \in DOMAIN Backlog[k] : Backlog[k][i] = Backlog[k][j] => i = j
ASSUME BatchAssumption == Batch \in Nat \ {0}

VARIABLES
  active,  \* {ns}:active
  list,    \* {ns}:list:{key}, the next one to claim first
  flight,  \* {ns}:in_flight: "no", "fresh" or "stale" by payload
  at,      \* what each worker does next
  hand,    \* the payload it is moving, or None
  key,     \* the key it is claiming from, or None
  pass,    \* keys left in its pass over the active ones
  hit,     \* claimed_this_pass
  batch,   \* what its receive got and it has not handled yet
  scanned, \* stale entries its reclaim has yet to move
  dry,     \* keys its receive saw inactive or empty
  sent, done, late,  \* payloads sent, acknowledged, and ever stale
  dropped,  \* payloads some worker had in its hand when it died
  forsaken, \* keys some worker died pruning, and nobody has made active since
  faults

worker == <<at, hand, key, pass, hit, batch, scanned, dry>>
deaths == <<dropped, forsaken>>
vars == <<active, list, flight, worker, sent, done, late, deaths, faults>>

Elements(seq) == {seq[i] : i \in DOMAIN seq}
Carries(w, p) == hand[w] = p \/ p \in Elements(batch[w])

\* SADD.
Activate(k) == active' = active \cup {k} /\ forsaken' = forsaken \ {k}

\* _push: behind the others, or in front for redelivery; the key is active.
Push(p, front) ==
  /\ list' = [list EXCEPT ![KeyOf[p]] = IF front THEN <<p>> \o @ ELSE Append(@, p)]
  /\ Activate(KeyOf[p])

Goes(w, step) == at' = [at EXCEPT ![w] = step]
Fault == faults < MaxFaults /\ faults' = faults + 1

\* send
Send(p) ==
  /\ p \notin sent /\ sent' = sent \cup {p}
  /\ Push(p, FALSE)
  /\ UNCHANGED <<flight, worker, done, late, dropped, faults>>
-----------------------------------------------------------------------------
(* receive                                                                 *)

\* The claim goes on with the keys p of the pass, what is claimed b and the dry
\* keys d; it is over when the batch is full or a whole pass (hit = h) got none.
Claim(w, p, h, b, d) ==
  LET over == Len(b) = Batch \/ (p = {} /\ ~h)
  IN  /\ Goes(w, IF ~over THEN "claim" ELSE IF b = <<>> THEN "idle" ELSE "work")
      /\ pass' = [pass EXCEPT ![w] = IF over THEN {} ELSE p]
      /\ hit' = [hit EXCEPT ![w] = h /\ ~over]
      /\ batch' = [batch EXCEPT ![w] = b]
      /\ dry' = [dry EXCEPT ![w] = IF over THEN {} ELSE d]

\* receive, after what there is to reclaim, and _claim_batch: a pass over the
\* keys that are active now, the first or the next.
StartPass(w) ==
  /\ at[w] \in {"idle", "claim"} /\ pass[w] = {}
  /\ Claim(w, active, FALSE, batch[w], dry[w] \cup (Keys \ active))
  /\ UNCHANGED <<active, list, flight, hand, key, scanned, sent, done, late, deaths, faults>>

\* RPOP of a key that has nothing.
Miss(w, k) ==
  /\ list[k] = <<>>
  /\ key' = [key EXCEPT ![w] = k] /\ dry' = [dry EXCEPT ![w] = @ \cup {k}]
  /\ Goes(w, "prune") /\ UNCHANGED <<list, hand>>

\* Defect to be caught: a pass claims from one key until it is drained.
PopGreedy(w, k) ==
  /\ at[w] = "claim" /\ k \in pass[w]
  /\ pass' = [pass EXCEPT ![w] = IF list[k] # <<>> THEN @ ELSE @ \ {k}]
  /\ \/ Miss(w, k)
     \/ /\ list[k] # <<>> /\ hand' = [hand EXCEPT ![w] = Head(list[k])]
        /\ list' = [list EXCEPT ![k] = Tail(@)]
        /\ Goes(w, "record") /\ UNCHANGED <<key, dry>>
  /\ UNCHANGED <<active, flight, hit, batch, scanned, sent, done, late, deaths, faults>>

\* _claim_one: RPOP of one key.
Pop(w, k) ==
  /\ at[w] = "claim" /\ k \in pass[w]
  /\ pass' = [pass EXCEPT ![w] = @ \ {k}]
  /\ \/ Miss(w, k)
     \/ /\ list[k] # <<>> /\ hand' = [hand EXCEPT ![w] = Head(list[k])]
        /\ list' = [list EXCEPT ![k] = Tail(@)]
        /\ Goes(w, "record") /\ UNCHANGED <<key, dry>>
  /\ UNCHANGED <<active, flight, hit, batch, scanned, sent, done, late, deaths, faults>>

\* The claim is entered in the in-flight hash.
Record(w) ==
  /\ at[w] = "record"
  /\ flight' = [flight EXCEPT ![hand[w]] = "fresh"]
  /\ hand' = [hand EXCEPT ![w] = None]
  /\ Claim(w, pass[w], TRUE, Append(batch[w], hand[w]), dry[w])
  /\ UNCHANGED <<active, list, key, scanned, sent, done, late, deaths, faults>>

\* A drained key: SREM, look again, and SADD if a send came in between.
Prune(w) ==
  /\ at[w] = "prune"
  /\ active' = active \ {key[w]}
  /\ Goes(w, "recheck")
  /\ UNCHANGED <<list, flight, hand, key, pass, hit, batch, scanned, dry, sent, done, late, deaths, faults>>

Pruned(w) ==
  /\ key' = [key EXCEPT ![w] = None]
  /\ Claim(w, pass[w], hit[w], batch[w], dry[w])

\* Defect to be caught: the pruned key is not looked at again.
RecheckNever(w) ==
  /\ at[w] = "recheck" /\ Pruned(w)
  /\ UNCHANGED <<active, list, flight, hand, scanned, sent, done, late, deaths, faults>>

Recheck(w) ==
  /\ at[w] = "recheck"
  /\ IF list[key[w]] = <<>> THEN Pruned(w)
     ELSE Goes(w, "readd") /\ UNCHANGED <<key, pass, hit, batch, dry>>
  /\ UNCHANGED <<active, list, flight, hand, scanned, sent, done, late, deaths, faults>>

Readd(w) ==
  /\ at[w] = "readd"
  /\ Activate(key[w])
  /\ Pruned(w)
  /\ UNCHANGED <<list, flight, hand, scanned, sent, done, late, dropped, faults>>
-----------------------------------------------------------------------------
(* The messages of a receive, one after the other.                         *)

\* What is left of them, or the end of the receive.
Left(w) ==
  /\ batch' = [batch EXCEPT ![w] = Tail(@)]
  /\ Goes(w, IF Len(batch[w]) = 1 THEN "idle" ELSE "work")

\* _ack
Ack(w) ==
  /\ at[w] = "work"
  /\ flight' = [flight EXCEPT ![Head(batch[w])] = "no"]
  /\ done' = done \cup {Head(batch[w])}
  /\ Left(w)
  /\ UNCHANGED <<active, list, hand, key, pass, hit, scanned, dry, sent, late, deaths, faults>>

\* Defect to be caught: a nack only ends the claim.
NackForgets(w) ==
  /\ at[w] = "work" /\ Fault
  /\ flight' = [flight EXCEPT ![Head(batch[w])] = "no"]
  /\ Left(w)
  /\ UNCHANGED <<active, list, hand, key, pass, hit, scanned, dry, sent, done, late, deaths>>

\* _nack: the claim ends; the push is a command of its own.
Nack(w) ==
  /\ at[w] = "work" /\ Fault
  /\ flight' = [flight EXCEPT ![Head(batch[w])] = "no"]
  /\ hand' = [hand EXCEPT ![w] = Head(batch[w])]
  /\ Goes(w, "requeue")
  /\ UNCHANGED <<active, list, key, pass, hit, batch, scanned, dry, sent, done, late, deaths>>

Requeue(w) ==
  /\ at[w] = "requeue"
  /\ Push(hand[w], TRUE)
  /\ hand' = [hand EXCEPT ![w] = None]
  /\ Left(w)
  /\ UNCHANGED <<flight, key, pass, hit, scanned, dry, sent, done, late, dropped, faults>>
-----------------------------------------------------------------------------
(* reclaim_stale, in a receive with the last reclaim long ago.             *)

Stale == {p \in Payloads : flight[p] = "stale"}

\* The scan of the in-flight hash is one command.
Scan(w) ==
  /\ at[w] = "idle" /\ Stale # {}
  /\ scanned' = [scanned EXCEPT ![w] = Stale]
  /\ Goes(w, "reclaim")
  /\ UNCHANGED <<active, list, flight, hand, key, pass, hit, batch, dry, sent, done, late, deaths, faults>>

\* HDEL of an entry the scan found stale; only who deleted it pushes it.
Reclaim(w, p) ==
  /\ at[w] = "reclaim" /\ p \in scanned[w]
  /\ scanned' = [scanned EXCEPT ![w] = @ \ {p}]
  /\ flight' = [flight EXCEPT ![p] = "no"]
  /\ IF flight[p] # "no" THEN hand' = [hand EXCEPT ![w] = p] /\ Goes(w, "restore")
     ELSE UNCHANGED <<hand, at>>
  /\ UNCHANGED <<active, list, key, pass, hit, batch, dry, sent, done, late, deaths, faults>>

Restore(w) ==
  /\ at[w] = "restore"
  /\ Push(hand[w], TRUE)
  /\ hand' = [hand EXCEPT ![w] = None]
  /\ Goes(w, "reclaim")
  /\ UNCHANGED <<flight, key, pass, hit, batch, scanned, dry, sent, done, late, dropped, faults>>

EndReclaim(w) ==
  /\ at[w] = "reclaim" /\ scanned[w] = {}
  /\ Goes(w, "idle")
  /\ UNCHANGED <<active, list, flight, hand, key, pass, hit, batch, scanned, dry,
                 sent, done, late, deaths, faults>>
-----------------------------------------------------------------------------
(* Time and failures.                                                      *)

\* reclaim_after passes for a claim whose worker died, or is slow.
Age(p) ==
  /\ flight[p] = "fresh"
  /\ IF \E w \in Workers : Carries(w, p) THEN Fault ELSE UNCHANGED faults
  /\ flight' = [flight EXCEPT ![p] = "stale"]
  /\ late' = late \cup {p}
  /\ UNCHANGED <<active, list, worker, sent, done, deaths>>

\* A worker dies with all it holds, and another takes its place.  What it had
\* in its hand is neither on a list nor in flight, and nobody looks again at
\* the key it had taken out of the active set.
Die(w) ==
  /\ Fault
  /\ at[w] # "idle"
  /\ dropped' = dropped \cup ({hand[w]} \ {None})
  /\ forsaken' = IF at[w] \in {"recheck", "readd"} THEN forsaken \cup {key[w]} ELSE forsaken
  /\ Goes(w, "idle")
  /\ hand' = [hand EXCEPT ![w] = None] /\ key' = [key EXCEPT ![w] = None]
  /\ pass' = [pass EXCEPT ![w] = {}] /\ hit' = [hit EXCEPT ![w] = FALSE]
  /\ batch' = [batch EXCEPT ![w] = <<>>] /\ scanned' = [scanned EXCEPT ![w] = {}]
  /\ dry' = [dry EXCEPT ![w] = {}]
  /\ UNCHANGED <<active, list, flight, sent, done, late>>

Init ==
  /\ active = {k \in Keys : Backlog[k] # <<>>} /\ list = Backlog
  /\ flight = [p \in Payloads |-> "no"]
  /\ at = [w \in Workers |-> "idle"] /\ hand = [w \in Workers |-> None]
  /\ key = [w \in Workers |-> None] /\ pass = [w \in Workers |-> {}]
  /\ hit = [w \in Workers |-> FALSE] /\ batch = [w \in Workers |-> <<>>]
  /\ scanned = [w \in Workers |-> {}] /\ dry = [w \in Workers |-> {}]
  /\ sent = {p \in Payloads : p \in Elements(Backlog[KeyOf[p]])} /\ done = {} /\ late = {}
  /\ dropped = {} /\ forsaken = {} /\ faults = 0

\* What a worker does by itself.
Work(w) ==
  \/ StartPass(w) \/ Record(w) \/ Prune(w) \/ Recheck(w) \/ Readd(w)
  \/ Ack(w) \/ Requeue(w) \/ Restore(w) \/ EndReclaim(w)
  \/ \E k \in Keys : Pop(w, k)
  \/ \E p \in Payloads : Reclaim(w, p)

Next ==
  \/ \E p \in Payloads : Send(p) \/ Age(p)
  \/ \E w \in Workers : Work(w) \/ Scan(w) \/ Nack(w) \/ Die(w)

\* Workers go on, every so often with a reclaim, and an abandoned claim ages.
Fairness ==
  /\ \A w \in Workers : WF_vars(Work(w)) /\ SF_vars(Scan(w))
  /\ \A p \in Payloads : WF_vars(Age(p))

Spec == Init /\ [][Next]_vars /\ Fairness
-----------------------------------------------------------------------------
(* Properties.                                                             *)

Pruning == {"prune", "recheck", "readd"}

\* What a worker has claimed survives it: until a payload is acknowledged it is
\* on its list, in flight or in the hand of a worker that is moving it, whoever
\* died, nacked or reclaimed what meanwhile.  The one way to lose a payload is
\* to die with it in the hand, between RPOP and HSET or between HDEL and push:
\* the code loses that one, for all its "at-least-once" (redis_queue.py:22).
NothingLost ==
  \A p \in sent \ (done \cup dropped) :
    \/ p \in Elements(list[KeyOf[p]])
    \/ flight[p] # "no"
    \/ \E w \in Workers : Carries(w, p)

\* A key with payloads is active, or a worker is about to see to it: sends,
\* claims and prunes of several workers strand no list.  What does is a death
\* between the prune and its second look, until something is sent or put back
\* under that key.
NoneStranded ==
  \A k \in Keys \ (active \cup forsaken) :
    list[k] # <<>> => \E w \in Workers : at[w] \in {"recheck", "readd"} /\ key[w] = k

\* One receive takes from a key a second time only when every other key had its
\* turn or had nothing: a deep backlog does not keep another session waiting.
Claimed(b, k) == Cardinality({i \in DOMAIN b : KeyOf[b[i]] = k})
Moved(w, k) == IF hand[w] # None /\ KeyOf[hand[w]] = k THEN 1 ELSE 0
Share(w, k) == Claimed(batch[w], k) + Moved(w, k)
FairShare ==
  \A w \in Workers : at[w] \in {"claim", "record"} \cup Pruning =>
    \A j, k \in Keys : j \notin dry[w] => Share(w, k) <= Share(w, j) + 1

\* Whatever is sent is acknowledged in the end, through slow workers, nacks,
\* reclaims and deaths, unless a worker died with it in its hand, or died
\* pruning its key and nothing came under that key again.
Delivered ==
  \A p \in Payloads :
    p \in sent ~> (p \in done \cup dropped \/ [](KeyOf[p] \in forsaken))
=============================================================================
