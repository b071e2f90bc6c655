------------------------------ MODULE RedisMailbox ------------------------------
(***************************************************************************)
(* The mailbox on Redis (src/entourage/redis_mailbox.py).  A mutation      *)
(* takes the namespace lock and then writes key by key: todo holds the     *)
(* writes a client has left, and a client can die between any two, the     *)
(* lock staying taken until it times out.  A live client is assumed to     *)
(* finish within that timeout.                                             *)
(***************************************************************************)
EXTENDS Naturals, FiniteSets, Sequences

CONSTANTS
  Clients,   \* who claims
  Producers, \* those of them who append and purge, too
  Letters,   \* records with id, conversation, correlation and source
  Limit,     \* of a claim
  MaxExtras, \* duplicate appends, purges and deaths, together
  None

ASSUME NoneAssumption == None \notin Clients
ASSUME ProducerAssumption == Producers \subseteq Clients
ASSUME LimitAssumption == Limit \in Nat \ {0}

VARIABLES
  event,          \* {ns}:event:{id}
  index,          \* {ns}:events:{conversation}, ids; their score is the sequence
  conversations,  \* {ns}:conversations
  dedup,          \* {ns}:dedup
  sequence,       \* {ns}:sequence
  lock,           \* who holds {ns}:lock, or None
  todo,           \* what each client has left of its call
  got,            \* the events its claim returned and it has not settled
  settled,        \* ids ever acknowledged
  extras

keys == <<event, index, conversations, dedup, sequence>>
vars == <<keys, lock, todo, got, settled, extras>>

Ids == {l.id : l \in Letters}
Conversations == {l.conversation : l \in Letters}

\* The oldest of some events.
Front(ids, limit) == {i \in ids : Cardinality({j \in ids : event[j].seq < event[i].seq}) < limit}

\* _claimable, for an event that is there.
Claimable(e) == e.status = "pending" \/ (e.status = "leased" /\ e.lease = "expired")
ClaimableIn(c) == {i \in index[c] : i \in DOMAIN event /\ Claimable(event[i])}
-----------------------------------------------------------------------------
(* Calls: the lock is taken, and what is read decides what will be written. *)

Enter(c, writes) ==
  /\ lock = None /\ todo[c] = <<>>
  /\ lock' = c
  /\ todo' = [todo EXCEPT ![c] = writes]
  /\ UNCHANGED <<keys, got, settled>>

\* A write of every member, one after the other.
Each(write, members) == IF members = {} THEN <<>> ELSE <<<<write, members>>>>

Extra == extras < MaxExtras /\ extras' = extras + 1

\* Defect to be caught: an event that was purged is accepted again.
PutPurged(c, l) ==
  /\ Enter(c, IF l.id \in DOMAIN event THEN <<<<"return">>>> ELSE <<<<"put", l>>, <<"return">>>>)
  /\ IF l.id \in DOMAIN dedup THEN Extra ELSE UNCHANGED extras

\* append: a known id changes nothing, and raises in another conversation.
Put(c, l) ==
  /\ Enter(c, IF l.id \in DOMAIN dedup THEN <<<<"return">>>> ELSE <<<<"put", l>>, <<"return">>>>)
  /\ IF l.id \in DOMAIN dedup THEN Extra ELSE UNCHANGED extras

\* _claim_locked
Leases(ids) == Each("lease", Front(ids, Limit)) \o <<<<"return">>>>

\* claim and claim_any, of the conversation whose first claimable event is oldest.
Claim(c, conversation) ==
  /\ got[c] = {} /\ ClaimableIn(conversation) # {}
  /\ Enter(c, Leases(ClaimableIn(conversation)))
  /\ UNCHANGED extras

ClaimAny(c) ==
  LET all == UNION {ClaimableIn(k) : k \in conversations}
  IN  /\ got[c] = {} /\ all # {}
      /\ \E i \in Front(all, 1) : Enter(c, Leases(ClaimableIn(event[i].letter.conversation)))
      /\ UNCHANGED extras

\* acknowledge and release what a claim returned, and acknowledge with force;
\* without force nothing is written when an event is gone.
Acknowledge(c, force) ==
  LET ids == IF force THEN got[c] \cap DOMAIN event ELSE got[c]
  IN  /\ got[c] # {}
      /\ Enter(c, IF ids \subseteq DOMAIN event
                  THEN Each(IF force THEN "force" ELSE "acknowledge", ids) \o <<<<"settled">>>>
                  ELSE <<<<"settled">>>>)
      /\ UNCHANGED extras

Release(c) ==
  /\ got[c] # {}
  /\ Enter(c, IF got[c] \subseteq DOMAIN event
              THEN Each("release", got[c]) \o <<<<"settled">>>>
              ELSE <<<<"settled">>>>)
  /\ UNCHANGED extras

\* purge_acknowledged of some conversations: the events acknowledged by some
\* time go in one pipeline, then the conversations that are empty by then.
PurgeAcknowledged(c, cs) ==
  LET acked == {i \in UNION {index[k] : k \in cs} :
                  i \in DOMAIN event /\ event[i].status = "acknowledged"}
  IN  /\ Extra
      /\ \E old \in SUBSET acked \ {{}} :
           Enter(c, <<<<"drop", Front(old, Limit)>>>> \o Each("unlist", cs) \o <<<<"return">>>>)

\* purge_deduplication_keys: keys seen by some time whose event is gone.
ForgetKeys(c) ==
  /\ Extra
  /\ \E gone \in SUBSET (DOMAIN dedup \ DOMAIN event) \ {{}} :
       Enter(c, <<<<"forget", gone>>, <<"return">>>>)
-----------------------------------------------------------------------------
(* One write of a call.                                                    *)

op(c) == Head(todo[c])
Is(c, name) == todo[c] # <<>> /\ op(c)[1] = name
Done(c) == todo' = [todo EXCEPT ![c] = Tail(@)]
DoneWith(c, x) == todo' = [todo EXCEPT ![c] = Each(op(c)[1], op(c)[2] \ {x}) \o Tail(@)]
GiveUp(c) == todo' = [todo EXCEPT ![c] = <<<<"settled">>>>]
Rest == UNCHANGED <<lock, extras>>
With(f, x, v) == [y \in DOMAIN f \cup {x} |-> IF y = x THEN v ELSE f[y]]

\* INCR and the pipeline of append.
WritePut(c) ==
  LET l == op(c)[2]
  IN  /\ Is(c, "put")
      /\ sequence' = sequence + 1
      /\ event' = With(event, l.id, [letter |-> l, status |-> "pending", consumer |-> None,
                                     lease |-> "none", seq |-> sequence'])
      /\ index' = [index EXCEPT ![l.conversation] = @ \cup {l.id}]
      /\ dedup' = With(dedup, l.id, l.conversation)
      /\ conversations' = conversations \cup {l.conversation}
      /\ Done(c) /\ Rest /\ UNCHANGED <<got, settled>>

\* The lease of the next event of a claim.
WriteLease(c) ==
  /\ Is(c, "lease")
  /\ \E i \in Front(op(c)[2], 1) :
       /\ event' = [event EXCEPT ![i].status = "leased", ![i].consumer = c, ![i].lease = "held"]
       /\ got' = [got EXCEPT ![c] = @ \cup {i}]
       /\ DoneWith(c, i)
  /\ Rest /\ UNCHANGED <<index, conversations, dedup, sequence, settled>>

\* _require_lease
Holds(c, i) ==
  event[i].status = "leased" /\ event[i].consumer = c /\ event[i].lease = "held"

\* One acknowledgement; without a lease it raises and the rest is not done.
WriteAcknowledge(c) ==
  /\ Is(c, "acknowledge") \/ Is(c, "force")
  /\ \E i \in op(c)[2] :
       LET may == Is(c, "force") \/ Holds(c, i)
       IN  /\ IF may /\ event[i].status # "acknowledged"
                THEN /\ event' = [event EXCEPT ![i].status = "acknowledged",
                                               ![i].consumer = None, ![i].lease = "none"]
                     /\ settled' = settled \cup {i}
                ELSE UNCHANGED <<event, settled>>
           /\ IF may THEN DoneWith(c, i) ELSE GiveUp(c)
  /\ Rest /\ UNCHANGED <<index, conversations, dedup, sequence, got>>

Released(i) ==
  event' = [event EXCEPT ![i].status = "pending", ![i].consumer = None, ![i].lease = "none"]

\* Defect to be caught: a release does not ask whose lease it is.
ReleaseUnchecked(c) ==
  /\ Is(c, "release")
  /\ \E i \in op(c)[2] : Released(i) /\ DoneWith(c, i)
  /\ Rest /\ UNCHANGED <<index, conversations, dedup, sequence, got, settled>>

WriteRelease(c) ==
  /\ Is(c, "release")
  /\ \E i \in op(c)[2] :
       IF Holds(c, i) THEN Released(i) /\ DoneWith(c, i) ELSE UNCHANGED event /\ GiveUp(c)
  /\ Rest /\ UNCHANGED <<index, conversations, dedup, sequence, got, settled>>

\* Defect to be caught: a purged conversation is unlisted, empty or not.
UnlistAlways(c) ==
  \/ /\ Is(c, "drop")
     /\ event' = [i \in DOMAIN event \ op(c)[2] |-> event[i]]
     /\ index' = [k \in Conversations |-> index[k] \ op(c)[2]]
     /\ Done(c) /\ Rest /\ UNCHANGED <<conversations, dedup, sequence, got, settled>>
  \/ /\ Is(c, "unlist")
     /\ \E k \in op(c)[2] : conversations' = conversations \ {k} /\ DoneWith(c, k)
     /\ Rest /\ UNCHANGED <<event, index, dedup, sequence, got, settled>>

WritePurge(c) ==
  \/ /\ Is(c, "drop")
     /\ event' = [i \in DOMAIN event \ op(c)[2] |-> event[i]]
     /\ index' = [k \in Conversations |-> index[k] \ op(c)[2]]
     /\ Done(c) /\ Rest /\ UNCHANGED <<conversations, dedup, sequence, got, settled>>
  \/ /\ Is(c, "unlist")
     /\ \E k \in op(c)[2] :
          /\ conversations' = IF index[k] = {} THEN conversations \ {k} ELSE conversations
          /\ DoneWith(c, k)
     /\ Rest /\ UNCHANGED <<event, index, dedup, sequence, got, settled>>

WriteForget(c) ==
  /\ Is(c, "forget")
  /\ dedup' = [i \in DOMAIN dedup \ op(c)[2] |-> dedup[i]]
  /\ settled' = settled \ op(c)[2]
  /\ Done(c) /\ Rest /\ UNCHANGED <<event, index, conversations, sequence, got>>

\* The lock is released and the call returns; a settled claim is over.
Return(c) ==
  /\ Is(c, "return") \/ Is(c, "settled")
  /\ got' = IF Is(c, "settled") THEN [got EXCEPT ![c] = {}] ELSE got
  /\ lock' = None
  /\ Done(c)
  /\ UNCHANGED <<keys, settled, extras>>
-----------------------------------------------------------------------------
(* Failures and time.                                                      *)

\* A client dies; the lock it may hold stays taken until it times out.
Die(c) ==
  /\ Extra
  /\ todo[c] # <<>> \/ got[c] # {}
  /\ todo' = [todo EXCEPT ![c] = <<>>]
  /\ got' = [got EXCEPT ![c] = {}]
  /\ UNCHANGED <<keys, lock, settled>>

LockTimesOut ==
  /\ lock # None /\ todo[lock] = <<>>
  /\ lock' = None
  /\ UNCHANGED <<keys, todo, got, settled, extras>>

LeaseExpires(i) ==
  /\ i \in DOMAIN event /\ event[i].lease = "held"
  /\ event' = [event EXCEPT ![i].lease = "expired"]
  /\ UNCHANGED <<index, conversations, dedup, sequence, lock, todo, got, settled, extras>>

Init ==
  /\ event = <<>> /\ index = [k \in Conversations |-> {}] /\ conversations = {}
  /\ dedup = <<>> /\ sequence = 0 /\ lock = None
  /\ todo = [c \in Clients |-> <<>>] /\ got = [c \in Clients |-> {}] /\ settled = {}
  /\ extras = 0

Step(c) ==
  \/ WritePut(c) \/ WriteLease(c) \/ WriteAcknowledge(c) \/ WriteRelease(c) \/ WritePurge(c)
  \/ WriteForget(c) \/ Return(c)

Next ==
  \/ \E c \in Clients :
       \/ Step(c) \/ ClaimAny(c) \/ Release(c) \/ Die(c)
       \/ \E k \in Conversations : Claim(c, k)
       \/ \E force \in BOOLEAN : Acknowledge(c, force)
  \/ \E c \in Producers :
       \/ ForgetKeys(c)
       \/ \E l \in Letters : Put(c, l)
       \/ \E cs \in {Conversations} \cup {{k} : k \in Conversations} : PurgeAcknowledged(c, cs)
  \/ LockTimesOut
  \/ \E i \in Ids : LeaseExpires(i)

\* Calls end, locks and leases time out, and consumers keep claiming whatever is
\* oldest and acknowledging it the way a replayed commit does.
Fairness ==
  /\ \A c \in Clients : WF_vars(Step(c)) /\ SF_vars(ClaimAny(c)) /\ SF_vars(Acknowledge(c, TRUE))
  /\ WF_vars(LockTimesOut)
  /\ \A i \in Ids : WF_vars(LeaseExpires(i))

Spec == Init /\ [][Next]_vars /\ Fairness
-----------------------------------------------------------------------------
(* Properties.                                                             *)

\* Mail that was acknowledged never comes back: not by a lapsed lease, a replay
\* or a late duplicate, as long as its deduplication key is kept.
OnceOnly ==
  \A i \in settled : i \in DOMAIN event => event[i].status = "acknowledged"

\* Every letter gets acknowledged, through deaths in the middle of a call.
Served == \A i \in Ids : i \in DOMAIN event ~> (i \notin DOMAIN event \/ event[i].status = "acknowledged")

\* The Redis keys are the box of the mailbox contract: the events in the order of
\* their sequence numbers, and the deduplication keys.
Rank(f, i) == Cardinality({j \in DOMAIN f : f[j].seq < f[i].seq})
At(f, k) == CHOOSE i \in DOMAIN f : Rank(f, i) = k - 1
Shown(e) == [letter |-> e.letter, status |-> e.status, lease |-> e.lease,
             consumer |-> IF e.consumer = None THEN <<>> ELSE e.consumer]
Row(f) == [k \in 1..Cardinality(DOMAIN f) |-> Shown(f[At(f, k)])]
Box == [events |-> Row(event), ids |-> dedup]
Contract == INSTANCE MailboxContract WITH Consumers <- Clients, box <- Box
ImplementsMailbox == Contract!Spec
=============================================================================
