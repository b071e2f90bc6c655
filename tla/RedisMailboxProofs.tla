--------------------------- MODULE RedisMailboxProofs ---------------------------
(***************************************************************************)
(* Mail that was acknowledged in the Redis mailbox never comes back, and   *)
(* the mailbox on Redis implements the mailbox contract, for any clients,  *)
(* letters and claim limit, and wherever in a call a client dies: the      *)
(* namespace lock makes what a call has read stay true until its last      *)
(* write.                                                                  *)
(***************************************************************************)
EXTENDS RedisMailbox, SequenceTheorems, FiniteSetTheorems, FunctionTheorems, TLAPS

Events == [letter : Letters, status : {"pending", "leased", "acknowledged"},
           consumer : Clients \cup {None}, lease : {"none", "held", "expired"}, seq : Nat]
TypeOK ==
  /\ DOMAIN event \subseteq Ids /\ event \in [DOMAIN event -> Events]
  /\ index \in [Conversations -> SUBSET Ids]
  /\ DOMAIN dedup \subseteq Ids /\ sequence \in Nat /\ lock \in Clients \cup {None}
  /\ todo = [c \in Clients |-> todo[c]]
  /\ got \in [Clients -> SUBSET Ids]

\* A call's writes, and what they rest on: what the call read under the lock.
\* An append's id is unknown, what is leased is claimable, what is settled is there,
\* what is purged is acknowledged, and a key is forgotten only when its event is gone.
Open(ids) == ids \subseteq DOMAIN event /\ \A i \in ids : Claimable(event[i])
Spent(ids) == ids \subseteq DOMAIN event /\ \A i \in ids : event[i].status = "acknowledged"
PlanOK(q) ==
  \/ q \in {<<>>, <<<<"return">>>>, <<<<"settled">>>>}
  \/ \E l \in Letters : q = <<<<"put", l>>, <<"return">>>> /\ l.id \notin DOMAIN dedup
  \/ \E ids \in SUBSET Ids : q = <<<<"lease", ids>>, <<"return">>>> /\ Open(ids)
  \/ \E ids \in SUBSET Ids, how \in {"acknowledge", "force", "release"} :
       q = <<<<how, ids>>, <<"settled">>>> /\ ids \subseteq DOMAIN event
  \/ \E ids \in SUBSET Ids : q = <<<<"drop", ids>>, <<"return">>>> /\ Spent(ids)
  \/ \E ids \in SUBSET Ids, cs \in SUBSET Conversations :
       q = <<<<"drop", ids>>, <<"unlist", cs>>, <<"return">>>> /\ Spent(ids)
  \/ \E cs \in SUBSET Conversations : q = <<<<"unlist", cs>>, <<"return">>>>
  \/ \E ids \in SUBSET Ids : q = <<<<"forget", ids>>, <<"return">>>> /\ ids \cap DOMAIN event = {}

\* Only who has the lock writes, and every event and every settled id has its
\* deduplication key.
LockOK == \A c \in Clients : todo[c] # <<>> => lock = c
KeysOK == DOMAIN event \subseteq DOMAIN dedup /\ settled \subseteq DOMAIN dedup

\* An event is kept under its letter's id, and no two have one sequence number.
RecordsOK ==
  /\ IsFiniteSet(DOMAIN event)
  /\ \A i \in DOMAIN event :
       /\ event[i].letter.id = i /\ event[i].seq <= sequence
       /\ \A j \in DOMAIN event : event[i].seq = event[j].seq => i = j

BoxOK ==
  TypeOK /\ RecordsOK /\ LockOK /\ KeysOK /\ OnceOnly /\ \A c \in Clients : PlanOK(todo[c])
-----------------------------------------------------------------------------
(* Plans.                                                                  *)

\* The next write of a plan and what is left of it after that.
LEMMA TwoWrites ==
  ASSUME NEW a, NEW b
  PROVE  Head(<<a, b>>) = a /\ Tail(<<a, b>>) = <<b>> /\ <<a, b>> # <<>>
OBVIOUS

LEMMA ThreeWrites ==
  ASSUME NEW a, NEW b, NEW d
  PROVE  Head(<<a, b, d>>) = a /\ Tail(<<a, b, d>>) = <<b, d>> /\ <<a, b, d>> # <<>>
OBVIOUS

LEMMA OneWrite ==
  ASSUME NEW a
  PROVE  Head(<<a>>) = a /\ Tail(<<a>>) = <<>> /\ <<a>> # <<>>
OBVIOUS

LEMMA PairOf ==
  ASSUME NEW a, NEW b
  PROVE  <<a>> \o <<b>> = <<a, b>>
<1> DEFINE T == {a, b}
           s == <<a>> \o <<b>>
<1>1. a \in T /\ b \in T  OBVIOUS
<1> HIDE DEF T
<1>2. <<a>> \in Seq(T) /\ <<b>> \in Seq(T) /\ <<a, b>> \in Seq(T)  BY <1>1
<1>3. s \in Seq(T) /\ Len(s) = 2 /\ s[1] = a /\ s[2] = b  BY <1>2
<1>4. Len(<<a, b>>) = 2 /\ <<a, b>>[1] = a /\ <<a, b>>[2] = b  OBVIOUS
<1> HIDE DEF s
<1>5. \A i \in 1..Len(s) : s[i] = <<a, b>>[i]  BY <1>3, <1>4
<1>6. s = <<a, b>>  BY <1>2, <1>3, <1>4, <1>5, SeqEqual
<1> QED  BY <1>6 DEF s

LEMMA TripleOf ==
  ASSUME NEW a, NEW b, NEW d
  PROVE  <<a>> \o <<b>> \o <<d>> = <<a, b, d>>
<1> DEFINE T == {a, b, d}
           s == <<a, b>> \o <<d>>
<1>1. a \in T /\ b \in T /\ d \in T  OBVIOUS
<1> HIDE DEF T
<1>2. <<a, b>> \in Seq(T) /\ <<d>> \in Seq(T) /\ <<a, b, d>> \in Seq(T)  BY <1>1
<1>3. s \in Seq(T) /\ Len(s) = 3 /\ s[1] = a /\ s[2] = b /\ s[3] = d  BY <1>2
<1>4. /\ Len(<<a, b, d>>) = 3
      /\ <<a, b, d>>[1] = a /\ <<a, b, d>>[2] = b /\ <<a, b, d>>[3] = d
  OBVIOUS
<1> HIDE DEF s
<1>5. \A i \in 1..Len(s) : s[i] = <<a, b, d>>[i]  BY <1>3, <1>4
<1>6. s = <<a, b, d>>  BY <1>2, <1>3, <1>4, <1>5, SeqEqual
<1> QED  BY <1>6, PairOf DEF s

\* A write of every member and the end of the call.
LEMMA EachThen ==
  ASSUME NEW write, NEW members, NEW last
  PROVE  /\ members = {} => Each(write, members) \o <<last>> = <<last>>
         /\ members # {} => Each(write, members) \o <<last>> = <<<<write, members>>, last>>
<1>1. <<>> \o <<last>> = <<last>>  OBVIOUS
<1>2. <<<<write, members>>>> \o <<last>> = <<<<write, members>>, last>>  BY PairOf
<1> QED  BY <1>1, <1>2 DEF Each

LEMMA EachBetween ==
  ASSUME NEW first, NEW write, NEW members, NEW last
  PROVE  /\ members = {} => <<first>> \o Each(write, members) \o <<last>> = <<first, last>>
         /\ members # {} =>
              <<first>> \o Each(write, members) \o <<last>> = <<first, <<write, members>>, last>>
<1>1. CASE members = {}
  <2>1. <<first>> \o <<>> = <<first>>  OBVIOUS
  <2>2. <<first>> \o <<last>> = <<first, last>>  BY PairOf
  <2> QED  BY <1>1, <2>1, <2>2 DEF Each
<1>2. CASE members # {}
  <2>1. <<first>> \o <<<<write, members>>>> \o <<last>> = <<first, <<write, members>>, last>>
    BY TripleOf
  <2> QED  BY <1>2, <2>1 DEF Each
<1> QED  BY <1>1, <1>2

Plan(c, name, members, rest) ==
  op(c) = <<name, members>> /\ op(c)[1] = name /\ op(c)[2] = members /\ Tail(todo[c]) = rest

\* What the next write of a client tells of its call.
Tells(c) ==
  /\ Is(c, "put") =>
       \E l \in Letters : Plan(c, "put", l, <<<<"return">>>>) /\ l.id \notin DOMAIN dedup
  /\ Is(c, "lease") =>
       \E ids \in SUBSET Ids : Plan(c, "lease", ids, <<<<"return">>>>) /\ Open(ids)
  /\ \A how \in {"acknowledge", "force", "release"} : Is(c, how) =>
       \E ids \in SUBSET Ids : Plan(c, how, ids, <<<<"settled">>>>) /\ ids \subseteq DOMAIN event
  /\ Is(c, "drop") =>
       \E ids \in SUBSET Ids :
         /\ Spent(ids)
         /\ \/ Plan(c, "drop", ids, <<<<"return">>>>)
            \/ \E cs \in SUBSET Conversations :
                 Plan(c, "drop", ids, <<<<"unlist", cs>>, <<"return">>>>)
  /\ Is(c, "unlist") =>
       \E cs \in SUBSET Conversations : Plan(c, "unlist", cs, <<<<"return">>>>)
  /\ Is(c, "forget") =>
       \E ids \in SUBSET Ids : /\ Plan(c, "forget", ids, <<<<"return">>>>)
                               /\ ids \cap DOMAIN event = {}
  /\ (Is(c, "return") \/ Is(c, "settled")) => Tail(todo[c]) = <<>>

LEMMA PlanIs ==
  ASSUME NEW c \in Clients, PlanOK(todo[c])
  PROVE  Tells(c)
<1>1. CASE todo[c] = <<>>
  BY <1>1 DEF Tells, Is
<1>2. ASSUME NEW name \in {"return", "settled"}, todo[c] = <<<<name>>>>  PROVE Tells(c)
  <2>1. op(c) = <<name>> /\ Tail(todo[c]) = <<>>  BY <1>2, OneWrite DEF op
  <2>2. op(c)[1] = name  BY <2>1
  <2> QED  BY <2>1, <2>2 DEF Tells, Is
<1>3. ASSUME NEW name, NEW members, NEW last, todo[c] = <<<<name, members>>, <<last>>>>
      PROVE  Plan(c, name, members, <<<<last>>>>) /\ \A n : Is(c, n) => n = name
  <2>1. op(c) = <<name, members>> /\ Tail(todo[c]) = <<<<last>>>>  BY <1>3, TwoWrites DEF op
  <2>2. op(c)[1] = name /\ op(c)[2] = members  BY <2>1
  <2> QED  BY <2>1, <2>2 DEF Plan, Is
<1>4. ASSUME NEW ids \in SUBSET Ids, NEW cs \in SUBSET Conversations,
             todo[c] = <<<<"drop", ids>>, <<"unlist", cs>>, <<"return">>>>, Spent(ids)
      PROVE  Tells(c)
  <2>1. op(c) = <<"drop", ids>> /\ Tail(todo[c]) = <<<<"unlist", cs>>, <<"return">>>>
    BY <1>4, ThreeWrites DEF op
  <2>2. op(c)[1] = "drop" /\ op(c)[2] = ids  BY <2>1
  <2>3. Plan(c, "drop", ids, <<<<"unlist", cs>>, <<"return">>>>)  BY <2>1, <2>2 DEF Plan
  <2> QED  BY <1>4, <2>2, <2>3 DEF Tells, Is
<1>5. ASSUME NEW l \in Letters, todo[c] = <<<<"put", l>>, <<"return">>>>, l.id \notin DOMAIN dedup
      PROVE  Tells(c)
  BY <1>3, <1>5 DEF Tells
<1>6. ASSUME NEW ids \in SUBSET Ids, todo[c] = <<<<"lease", ids>>, <<"return">>>>, Open(ids)
      PROVE  Tells(c)
  BY <1>3, <1>6 DEF Tells
<1>7. ASSUME NEW ids \in SUBSET Ids, NEW how \in {"acknowledge", "force", "release"},
             todo[c] = <<<<how, ids>>, <<"settled">>>>, ids \subseteq DOMAIN event
      PROVE  Tells(c)
  BY <1>3, <1>7 DEF Tells
<1>8. ASSUME NEW ids \in SUBSET Ids, todo[c] = <<<<"drop", ids>>, <<"return">>>>, Spent(ids)
      PROVE  Tells(c)
  BY <1>3, <1>8 DEF Tells
<1>9. ASSUME NEW cs \in SUBSET Conversations, todo[c] = <<<<"unlist", cs>>, <<"return">>>>
      PROVE  Tells(c)
  BY <1>3, <1>9 DEF Tells
<1>10. ASSUME NEW ids \in SUBSET Ids, todo[c] = <<<<"forget", ids>>, <<"return">>>>,
              ids \cap DOMAIN event = {}
       PROVE  Tells(c)
  BY <1>3, <1>10 DEF Tells
<1> QED  BY <1>1, <1>2, <1>4, <1>5, <1>6, <1>7, <1>8, <1>9, <1>10 DEF PlanOK
-----------------------------------------------------------------------------
(* Steps.                                                                  *)

\* A plan stays good while no event or key comes or goes, and what is claimable or
\* acknowledged stays so.
LEMMA PlanStays ==
  ASSUME NEW q, PlanOK(q), DOMAIN event' = DOMAIN event, DOMAIN dedup' = DOMAIN dedup,
         \A i \in DOMAIN event :
           /\ Claimable(event[i]) => Claimable(event'[i])
           /\ event[i].status = "acknowledged" => event'[i].status = "acknowledged"
  PROVE  PlanOK(q)'
<1>1. \A ids : (Open(ids) => Open(ids)') /\ (Spent(ids) => Spent(ids)')
  BY DEF Open, Spent, Claimable
<1> QED  BY <1>1 DEF PlanOK

\* Neither do the records while no event comes or goes.
LEMMA RecordsStay ==
  ASSUME RecordsOK, DOMAIN event' = DOMAIN event, sequence' = sequence,
         \A i \in DOMAIN event :
           event'[i].letter = event[i].letter /\ event'[i].seq = event[i].seq
  PROVE  RecordsOK'
BY DEF RecordsOK

\* A step of who has the lock, with a good plan after it.
LEMMA OthersWait ==
  ASSUME BoxOK, NEW c \in Clients, todo[c] # <<>>,
         lock' = lock \/ todo'[c] = <<>>,
         \A d \in Clients \ {c} : todo'[d] = todo[d], PlanOK(todo[c])'
  PROVE  LockOK' /\ \A d \in Clients : PlanOK(todo[d])'
<1>1. lock = c /\ \A d \in Clients \ {c} : todo'[d] = <<>>
  BY DEF BoxOK, LockOK
<1>2. ASSUME NEW d \in Clients \ {c}  PROVE PlanOK(todo[d])'
  BY <1>1 DEF PlanOK
<1> QED  BY <1>1, <1>2 DEF LockOK

\* A call begins: what it plans rests on what it read.
LEMMA EnterKeeps ==
  ASSUME BoxOK, NEW c \in Clients, NEW q, Enter(c, q), PlanOK(q)
  PROVE  BoxOK'
<1>1. /\ lock = None /\ lock' = c /\ todo' = [todo EXCEPT ![c] = q]
      /\ UNCHANGED <<event, index, conversations, dedup, sequence, got, settled>>
  BY DEF Enter, keys
<1>2. /\ todo'[c] = q /\ todo' = [d \in Clients |-> todo'[d]]
      /\ \A d \in Clients \ {c} : todo'[d] = todo[d]
  BY <1>1 DEF BoxOK, TypeOK
<1>3. \A d \in Clients \ {c} : todo'[d] = <<>>
  BY <1>1, <1>2, NoneAssumption DEF BoxOK, LockOK
<1>4. TypeOK'  BY <1>1, <1>2 DEF BoxOK, TypeOK
<1>5. LockOK'  BY <1>1, <1>3 DEF LockOK
<1>6. KeysOK' /\ OnceOnly' /\ RecordsOK'
  BY <1>1 DEF BoxOK, KeysOK, OnceOnly, RecordsOK
<1>7. PlanOK(q)'  BY <1>1, PlanStays
<1>8. ASSUME NEW d \in Clients  PROVE PlanOK(todo[d])'
  <2>1. CASE d = c  BY <1>2, <1>7, <2>1
  <2>2. CASE d # c  BY <1>3, <2>2 DEF PlanOK
  <2> QED  BY <2>1, <2>2
<1> QED  BY <1>4, <1>5, <1>6, <1>8 DEF BoxOK

\* The plan of a call on some events.
LEMMA EachPlan ==
  ASSUME NEW ids \in SUBSET Ids
  PROVE  /\ Open(ids) => PlanOK(Each("lease", ids) \o <<<<"return">>>>)
         /\ \A how \in {"acknowledge", "force", "release"} :
              ids \subseteq DOMAIN event => PlanOK(Each(how, ids) \o <<<<"settled">>>>)
         /\ \A cs \in SUBSET Conversations :
              /\ Spent(ids) => PlanOK(<<<<"drop", ids>>>> \o Each("unlist", cs) \o <<<<"return">>>>)
              /\ PlanOK(Each("unlist", cs) \o <<<<"return">>>>)
<1>1. PlanOK(<<<<"return">>>>) /\ PlanOK(<<<<"settled">>>>)  BY DEF PlanOK
<1>2. ASSUME Open(ids)  PROVE PlanOK(Each("lease", ids) \o <<<<"return">>>>)
  <2>1. CASE ids = {}
    <3>1. Each("lease", ids) \o <<<<"return">>>> = <<<<"return">>>>  BY <2>1, EachThen
    <3> QED  BY <1>1, <3>1
  <2>2. CASE ids # {}
    <3>1. Each("lease", ids) \o <<<<"return">>>> = <<<<"lease", ids>>, <<"return">>>>
      BY <2>2, EachThen
    <3>2. PlanOK(<<<<"lease", ids>>, <<"return">>>>)  BY <1>2 DEF PlanOK
    <3> QED  BY <3>1, <3>2
  <2> QED  BY <2>1, <2>2
<1>3. ASSUME NEW how \in {"acknowledge", "force", "release"}, ids \subseteq DOMAIN event
      PROVE  PlanOK(Each(how, ids) \o <<<<"settled">>>>)
  <2>1. CASE ids = {}
    <3>1. Each(how, ids) \o <<<<"settled">>>> = <<<<"settled">>>>  BY <2>1, EachThen
    <3> QED  BY <1>1, <3>1
  <2>2. CASE ids # {}
    <3>1. Each(how, ids) \o <<<<"settled">>>> = <<<<how, ids>>, <<"settled">>>>
      BY <2>2, EachThen
    <3>2. PlanOK(<<<<how, ids>>, <<"settled">>>>)  BY <1>3 DEF PlanOK
    <3> QED  BY <3>1, <3>2
  <2> QED  BY <2>1, <2>2
<1>4. ASSUME NEW cs \in SUBSET Conversations, Spent(ids)
      PROVE  PlanOK(<<<<"drop", ids>>>> \o Each("unlist", cs) \o <<<<"return">>>>)
  <2>1. CASE cs = {}
    <3>1. <<<<"drop", ids>>>> \o Each("unlist", cs) \o <<<<"return">>>>
            = <<<<"drop", ids>>, <<"return">>>>
      BY <2>1, EachBetween
    <3>2. PlanOK(<<<<"drop", ids>>, <<"return">>>>)  BY <1>4 DEF PlanOK
    <3> QED  BY <3>1, <3>2
  <2>2. CASE cs # {}
    <3>1. <<<<"drop", ids>>>> \o Each("unlist", cs) \o <<<<"return">>>>
            = <<<<"drop", ids>>, <<"unlist", cs>>, <<"return">>>>
      BY <2>2, EachBetween
    <3>2. PlanOK(<<<<"drop", ids>>, <<"unlist", cs>>, <<"return">>>>)  BY <1>4 DEF PlanOK
    <3> QED  BY <3>1, <3>2
  <2> QED  BY <2>1, <2>2
<1>5. ASSUME NEW cs \in SUBSET Conversations
      PROVE  PlanOK(Each("unlist", cs) \o <<<<"return">>>>)
  <2>1. CASE cs = {}
    <3>1. Each("unlist", cs) \o <<<<"return">>>> = <<<<"return">>>>  BY <2>1, EachThen
    <3> QED  BY <1>1, <3>1
  <2>2. CASE cs # {}
    <3>1. Each("unlist", cs) \o <<<<"return">>>> = <<<<"unlist", cs>>, <<"return">>>>
      BY <2>2, EachThen
    <3>2. PlanOK(<<<<"unlist", cs>>, <<"return">>>>)  BY DEF PlanOK
    <3> QED  BY <3>1, <3>2
  <2> QED  BY <2>1, <2>2
<1> QED  BY <1>2, <1>3, <1>4, <1>5

\* Every call but a claim.
LEMMA CallKeeps ==
  ASSUME BoxOK, NEW c \in Clients,
         \/ \E l \in Letters : Put(c, l)
         \/ \E force \in BOOLEAN : Acknowledge(c, force)
         \/ Release(c) \/ ForgetKeys(c)
         \/ \E cs \in SUBSET Conversations : PurgeAcknowledged(c, cs)
  PROVE  BoxOK'
<1>1. ASSUME NEW l \in Letters, Put(c, l)  PROVE BoxOK'
  <2>1. PICK q : /\ Enter(c, q)
                 /\ q = IF l.id \in DOMAIN dedup THEN <<<<"return">>>>
                        ELSE <<<<"put", l>>, <<"return">>>>
    BY <1>1 DEF Put
  <2>2. PlanOK(q)  BY <2>1 DEF PlanOK
  <2> QED  BY <2>1, <2>2, EnterKeeps
<1>2. ASSUME NEW force \in BOOLEAN, Acknowledge(c, force)  PROVE BoxOK'
  <2>1. PICK ids, how :
          /\ how \in {"acknowledge", "force"} /\ ids \subseteq got[c]
          /\ Enter(c, IF ids \subseteq DOMAIN event THEN Each(how, ids) \o <<<<"settled">>>>
                                                    ELSE <<<<"settled">>>>)
    BY <1>2 DEF Acknowledge
  <2>2. PICK q : /\ Enter(c, q)
                 /\ q = IF ids \subseteq DOMAIN event THEN Each(how, ids) \o <<<<"settled">>>>
                                                      ELSE <<<<"settled">>>>
    BY <2>1
  <2>3. ids \in SUBSET Ids  BY <2>1 DEF BoxOK, TypeOK
  <2>4. PlanOK(<<<<"settled">>>>)  BY DEF PlanOK
  <2>5. PlanOK(q)  BY <2>1, <2>2, <2>3, <2>4, EachPlan
  <2> QED  BY <2>2, <2>5, EnterKeeps
<1>3. CASE Release(c)
  <2>1. PICK ids, q :
          /\ ids = got[c] /\ Enter(c, q)
          /\ q = IF ids \subseteq DOMAIN event THEN Each("release", ids) \o <<<<"settled">>>>
                                               ELSE <<<<"settled">>>>
    BY <1>3 DEF Release
  <2>2. ids \in SUBSET Ids  BY <2>1 DEF BoxOK, TypeOK
  <2>3. PlanOK(<<<<"settled">>>>)  BY DEF PlanOK
  <2>4. PlanOK(q)  BY <2>1, <2>2, <2>3, EachPlan
  <2> QED  BY <2>1, <2>4, EnterKeeps
<1>4. CASE ForgetKeys(c)
  <2>1. PICK gone : /\ gone \subseteq DOMAIN dedup \ DOMAIN event
                    /\ Enter(c, <<<<"forget", gone>>, <<"return">>>>)
    BY <1>4 DEF ForgetKeys
  <2>2. gone \subseteq Ids  BY <2>1 DEF BoxOK, TypeOK
  <2>3. PICK q : q = <<<<"forget", gone>>, <<"return">>>> /\ Enter(c, q)  BY <2>1
  <2>4. PlanOK(q)  BY <2>1, <2>2, <2>3 DEF PlanOK
  <2> QED  BY <2>3, <2>4, EnterKeeps
<1>5. ASSUME NEW cs \in SUBSET Conversations, PurgeAcknowledged(c, cs)  PROVE BoxOK'
  <2>1. PICK old, ids, q :
          /\ Spent(old) /\ ids = Front(old, Limit)
          /\ q = <<<<"drop", ids>>>> \o Each("unlist", cs) \o <<<<"return">>>>
          /\ Enter(c, q)
    BY <1>5 DEF PurgeAcknowledged, Spent
  <2>2. ids \in SUBSET Ids /\ Spent(ids)  BY <2>1 DEF Front, Spent, BoxOK, TypeOK
  <2>3. PlanOK(q)  BY <2>1, <2>2, EachPlan
  <2> QED  BY <2>1, <2>3, EnterKeeps
<1> QED  BY <1>1, <1>2, <1>3, <1>4, <1>5

\* A claim leases only what it read to be claimable.
LEMMA ClaimKeeps ==
  ASSUME BoxOK, NEW c \in Clients, ClaimAny(c) \/ \E k \in Conversations : Claim(c, k)
  PROVE  BoxOK'
<1>1. PICK k : Enter(c, Leases(ClaimableIn(k)))
  BY DEF ClaimAny, Claim
<1>2. PICK ids, q : /\ ids = Front(ClaimableIn(k), Limit) /\ Enter(c, q)
                    /\ q = Each("lease", ids) \o <<<<"return">>>>
  BY <1>1 DEF Leases
<1>3. ids \subseteq ClaimableIn(k)  BY <1>2 DEF Front
<1>4. Open(ids) /\ ids \in SUBSET Ids
  BY <1>3 DEF Open, ClaimableIn, Claimable, BoxOK, TypeOK
<1>5. PlanOK(q)  BY <1>2, <1>4, EachPlan
<1> QED  BY <1>2, <1>5, EnterKeeps
-----------------------------------------------------------------------------
(* Writes.                                                                 *)

\* Who writes is in a call, has the lock, and leaves the rest of its plan.
LEMMA WriteKeeps ==
  ASSUME BoxOK, NEW c \in Clients, NEW q, todo[c] # <<>>, todo' = [todo EXCEPT ![c] = q],
         lock' = lock \/ (lock' = None /\ q = <<>>), PlanOK(q)',
         event' \in [DOMAIN event' -> Events], index' \in [Conversations -> SUBSET Ids],
         DOMAIN dedup' \subseteq Ids, sequence' \in Nat, got' \in [Clients -> SUBSET Ids],
         RecordsOK', KeysOK', OnceOnly'
  PROVE  BoxOK'
<1>1. /\ todo'[c] = q /\ todo' = [d \in Clients |-> todo'[d]]
      /\ \A d \in Clients \ {c} : todo'[d] = todo[d]
  BY DEF BoxOK, TypeOK
<1>2. PlanOK(todo[c])'  BY <1>1
<1>3. LockOK' /\ \A d \in Clients : PlanOK(todo[d])'
  <2>1. lock' = lock \/ todo'[c] = <<>>  BY <1>1
  <2>2. \A d \in Clients \ {c} : todo'[d] = todo[d]  BY <1>1
  <2> QED  BY <1>2, <2>1, <2>2, OthersWait
<1>4. DOMAIN event' \subseteq Ids  BY DEF KeysOK
<1>5. lock' \in Clients \cup {None}  BY DEF BoxOK, TypeOK
<1>6. TypeOK'  BY <1>1, <1>4, <1>5 DEF TypeOK
<1> QED  BY <1>3, <1>6 DEF BoxOK

\* One event gets another status.
Marks(i, status, consumer, lease) ==
  event' = [event EXCEPT ![i].status = status, ![i].consumer = consumer, ![i].lease = lease]

LEMMA EventChange ==
  ASSUME TypeOK, NEW i \in DOMAIN event,
         NEW status \in {"pending", "leased", "acknowledged"},
         NEW consumer \in Clients \cup {None}, NEW lease \in {"none", "held", "expired"},
         Marks(i, status, consumer, lease)
  PROVE  /\ DOMAIN event' = DOMAIN event /\ event' \in [DOMAIN event' -> Events]
         /\ event'[i].status = status /\ \A j \in DOMAIN event \ {i} : event'[j] = event[j]
         /\ sequence' = sequence /\ RecordsOK => RecordsOK'
<1>1. event[i] \in Events  BY DEF TypeOK
<1>2. DOMAIN event' = DOMAIN event /\ \A j \in DOMAIN event \ {i} : event'[j] = event[j]
  BY DEF Marks
<1>3. /\ event'[i] = [event[i] EXCEPT !.status = status, !.consumer = consumer, !.lease = lease]
      /\ event' = [j \in DOMAIN event |-> event'[j]]
  BY <1>2 DEF TypeOK, Marks
<1>4. /\ event'[i] \in Events /\ event'[i].status = status
      /\ event'[i].letter = event[i].letter /\ event'[i].seq = event[i].seq
  BY <1>1, <1>3 DEF Events
<1>5. \A j \in DOMAIN event : event'[j] \in Events  BY <1>2, <1>4 DEF TypeOK
<1>6. \A j \in DOMAIN event : event'[j].letter = event[j].letter /\ event'[j].seq = event[j].seq
  BY <1>2, <1>4
<1>7. sequence' = sequence /\ RecordsOK => RecordsOK'  BY <1>2, <1>6, RecordsStay
<1> QED  BY <1>2, <1>3, <1>4, <1>5, <1>7

\* An append: its id was in no key, so nothing settled is touched.
LEMMA PutKeeps ==
  ASSUME BoxOK, NEW c \in Clients, WritePut(c)
  PROVE  BoxOK'
<1>1. Tells(c) /\ Is(c, "put") /\ todo[c] # <<>>  BY PlanIs DEF BoxOK, WritePut, Is
<1>2. PICK l \in Letters : Plan(c, "put", l, <<<<"return">>>>) /\ l.id \notin DOMAIN dedup
  BY <1>1 DEF Tells
<1>3. /\ op(c)[2] = l /\ todo' = [todo EXCEPT ![c] = <<<<"return">>>>]
      /\ lock' = lock /\ got' = got /\ settled' = settled /\ sequence' = sequence + 1
  <2>1. op(c)[2] = l /\ Tail(todo[c]) = <<<<"return">>>>  BY <1>2 DEF Plan
  <2> QED  BY <2>1 DEF WritePut, Done, Rest
<1>4. PICK r : /\ r = [letter |-> l, status |-> "pending", consumer |-> None,
                       lease |-> "none", seq |-> sequence']
               /\ event' = With(event, l.id, r)
               /\ index' = [index EXCEPT ![l.conversation] = @ \cup {l.id}]
               /\ dedup' = With(dedup, l.id, l.conversation)
  BY <1>3 DEF WritePut
<1>5. r \in Events  BY <1>3, <1>4 DEF Events, BoxOK, TypeOK
<1>6. l.id \in Ids /\ l.conversation \in Conversations  BY DEF Ids, Conversations
<1>7. /\ event' = [i \in DOMAIN event \cup {l.id} |-> IF i = l.id THEN r ELSE event[i]]
      /\ DOMAIN dedup' = DOMAIN dedup \cup {l.id}
  BY <1>4 DEF With
<1>8. event' \in [DOMAIN event' -> Events] /\ DOMAIN event' = DOMAIN event \cup {l.id}
  BY <1>5, <1>7 DEF BoxOK, TypeOK
<1>9. index' \in [Conversations -> SUBSET Ids] /\ DOMAIN dedup' \subseteq Ids
      /\ sequence' \in Nat /\ got' \in [Clients -> SUBSET Ids]
  BY <1>3, <1>4, <1>6, <1>7 DEF BoxOK, TypeOK
<1>10. KeysOK'  BY <1>3, <1>7, <1>8 DEF BoxOK, KeysOK
<1>11. OnceOnly'
  <2>1. SUFFICES ASSUME NEW i \in settled, i \in DOMAIN event'
                 PROVE  event'[i].status = "acknowledged"
    BY <1>3 DEF OnceOnly
  <2>2. i # l.id /\ i \in DOMAIN event  BY <1>2, <1>8, <2>1 DEF BoxOK, KeysOK
  <2> QED  BY <1>7, <2>2 DEF BoxOK, OnceOnly
<1>12. PlanOK(<<<<"return">>>>)'  BY DEF PlanOK
<1>13. RecordsOK'
  <2>1. l.id \notin DOMAIN event  BY <1>2 DEF BoxOK, KeysOK
  <2>2. IsFiniteSet(DOMAIN event')  BY <1>8, FS_AddElement DEF BoxOK, RecordsOK
  <2>3. r.letter.id = l.id /\ r.seq = sequence + 1  BY <1>3, <1>4
  <2>4. \A i \in DOMAIN event : event'[i] = event[i] /\ event[i].seq \in Nat
    BY <1>7, <2>1 DEF BoxOK, TypeOK, Events
  <2>5. event'[l.id] = r  BY <1>7
  <2>6. sequence \in Nat  BY DEF BoxOK, TypeOK
  <2> QED  BY <1>3, <1>8, <2>2, <2>3, <2>4, <2>5, <2>6 DEF BoxOK, RecordsOK
<1> QED  BY <1>1, <1>3, <1>8, <1>9, <1>10, <1>11, <1>12, <1>13, WriteKeeps

\* A lease: what the claim read was not acknowledged, and nobody else can have
\* acknowledged it since.
LEMMA LeaseKeeps ==
  ASSUME BoxOK, NEW c \in Clients, WriteLease(c)
  PROVE  BoxOK'
<1>1. Tells(c) /\ Is(c, "lease") /\ todo[c] # <<>>  BY PlanIs DEF BoxOK, WriteLease, Is
<1>2. PICK ids \in SUBSET Ids : Plan(c, "lease", ids, <<<<"return">>>>) /\ Open(ids)
  BY <1>1 DEF Tells
<1>3. op(c)[1] = "lease" /\ op(c)[2] = ids /\ Tail(todo[c]) = <<<<"return">>>>
  BY <1>2 DEF Plan
<1>4. PICK i \in ids :
        /\ event' = [event EXCEPT ![i].status = "leased", ![i].consumer = c, ![i].lease = "held"]
        /\ got' = [got EXCEPT ![c] = @ \cup {i}]
        /\ todo' = [todo EXCEPT ![c] = Each("lease", ids \ {i}) \o <<<<"return">>>>]
  <2>1. PICK i \in Front(ids, 1) :
          /\ event' = [event EXCEPT ![i].status = "leased", ![i].consumer = c,
                                    ![i].lease = "held"]
          /\ got' = [got EXCEPT ![c] = @ \cup {i}] /\ DoneWith(c, i)
    BY <1>3 DEF WriteLease
  <2>2. i \in ids  BY DEF Front
  <2>3. todo' = [todo EXCEPT ![c] = Each("lease", ids \ {i}) \o <<<<"return">>>>]
    BY <1>3, <2>1 DEF DoneWith, BoxOK, TypeOK
  <2> QED  BY <2>1, <2>2, <2>3
<1>5. lock' = lock /\ UNCHANGED <<index, conversations, dedup, sequence, settled>>
  BY DEF WriteLease, Rest
<1>6. i \in DOMAIN event /\ event[i].status # "acknowledged"
  BY <1>2 DEF Open, Claimable
<1>7. /\ DOMAIN event' = DOMAIN event /\ event' \in [DOMAIN event' -> Events]
      /\ event'[i].status = "leased" /\ \A j \in DOMAIN event \ {i} : event'[j] = event[j]
      /\ RecordsOK'
  <2>1. Marks(i, "leased", c, "held")  BY <1>4 DEF Marks
  <2>2. TypeOK /\ RecordsOK /\ sequence' = sequence  BY <1>5 DEF BoxOK
  <2> QED  BY <1>6, <2>1, <2>2, EventChange
<1>8. PICK q : /\ q = Each("lease", ids \ {i}) \o <<<<"return">>>>
               /\ todo' = [todo EXCEPT ![c] = q]
  BY <1>4
<1>9. PlanOK(q)'
  <2>1. PICK left : left = ids \ {i}  OBVIOUS
  <2>2. left \in SUBSET Ids /\ Open(left)'  BY <1>2, <1>7, <2>1 DEF Open
  <2>3. q = <<<<"return">>>> \/ q = <<<<"lease", left>>, <<"return">>>>
    <3>1. CASE left = {}
      <4>1. Each("lease", left) \o <<<<"return">>>> = <<<<"return">>>>  BY <3>1, EachThen
      <4> QED  BY <1>8, <2>1, <4>1
    <3>2. CASE left # {}
      <4>1. Each("lease", left) \o <<<<"return">>>> = <<<<"lease", left>>, <<"return">>>>
        BY <3>2, EachThen
      <4> QED  BY <1>8, <2>1, <4>1
    <3> QED  BY <3>1, <3>2
  <2> QED  BY <2>2, <2>3 DEF PlanOK
<1>10. /\ index' \in [Conversations -> SUBSET Ids] /\ DOMAIN dedup' \subseteq Ids
       /\ sequence' \in Nat /\ got' \in [Clients -> SUBSET Ids]
  BY <1>4, <1>5 DEF BoxOK, TypeOK
<1>11. KeysOK'  BY <1>5, <1>7 DEF BoxOK, KeysOK
<1>12. OnceOnly'  BY <1>5, <1>6, <1>7 DEF BoxOK, OnceOnly
<1> QED  BY <1>1, <1>5, <1>7, <1>8, <1>9, <1>10, <1>11, <1>12, WriteKeeps

\* An acknowledgement settles, or raises and ends the call.
LEMMA AcknowledgeKeeps ==
  ASSUME BoxOK, NEW c \in Clients, WriteAcknowledge(c)
  PROVE  BoxOK'
<1>1. PICK how \in {"acknowledge", "force"} : Is(c, how)  BY DEF WriteAcknowledge
<1>2. Tells(c) /\ todo[c] # <<>>  BY <1>1, PlanIs DEF BoxOK, Is
<1>3. PICK ids \in SUBSET Ids : Plan(c, how, ids, <<<<"settled">>>>) /\ ids \subseteq DOMAIN event
  BY <1>1, <1>2 DEF Tells
<1>4. op(c)[1] = how /\ op(c)[2] = ids /\ Tail(todo[c]) = <<<<"settled">>>>
  BY <1>3 DEF Plan
<1>5. PICK i \in ids :
        /\ \/ /\ event' = [event EXCEPT ![i].status = "acknowledged",
                                         ![i].consumer = None, ![i].lease = "none"]
              /\ settled' = settled \cup {i}
           \/ UNCHANGED <<event, settled>>
        /\ DoneWith(c, i) \/ GiveUp(c)
  BY <1>4 DEF WriteAcknowledge
<1>6. PICK q : /\ todo' = [todo EXCEPT ![c] = q]
               /\ \/ q = Each(how, ids \ {i}) \o <<<<"settled">>>>
                  \/ q = <<<<"settled">>>>
  BY <1>4, <1>5 DEF DoneWith, GiveUp
<1>7. lock' = lock /\ UNCHANGED <<index, conversations, dedup, sequence, got>>
  BY DEF WriteAcknowledge, Rest
<1>8. i \in DOMAIN event  BY <1>3
<1>9. /\ DOMAIN event' = DOMAIN event /\ event' \in [DOMAIN event' -> Events]
      /\ \A j \in DOMAIN event \ {i} : event'[j] = event[j]
      /\ settled' = settled \/ (settled' = settled \cup {i} /\ event'[i].status = "acknowledged")
      /\ event[i].status = "acknowledged" => event'[i].status = "acknowledged"
      /\ RecordsOK'
  <2>1. CASE UNCHANGED <<event, settled>>  BY <1>7, <2>1 DEF BoxOK, TypeOK, RecordsOK
  <2>2. CASE /\ event' = [event EXCEPT ![i].status = "acknowledged",
                                       ![i].consumer = None, ![i].lease = "none"]
             /\ settled' = settled \cup {i}
    <3>1. Marks(i, "acknowledged", None, "none")  BY <2>2 DEF Marks
    <3>2. TypeOK /\ RecordsOK /\ sequence' = sequence  BY <1>7 DEF BoxOK
    <3>3. /\ DOMAIN event' = DOMAIN event /\ event' \in [DOMAIN event' -> Events]
          /\ \A j \in DOMAIN event \ {i} : event'[j] = event[j]
          /\ event'[i].status = "acknowledged" /\ RecordsOK'
      BY <1>8, <3>1, <3>2, EventChange
    <3> QED  BY <2>2, <3>3
  <2> QED  BY <1>5, <2>1, <2>2
<1>10. PlanOK(q)'
  <2>1. PICK left : left = ids \ {i}  OBVIOUS
  <2>2. left \in SUBSET Ids /\ left \subseteq DOMAIN event'  BY <1>3, <1>9, <2>1
  <2>3. q = <<<<"settled">>>> \/ q = <<<<how, left>>, <<"settled">>>>
    <3>1. CASE left = {}
      <4>1. Each(how, left) \o <<<<"settled">>>> = <<<<"settled">>>>  BY <3>1, EachThen
      <4> QED  BY <1>6, <2>1, <4>1
    <3>2. CASE left # {}
      <4>1. Each(how, left) \o <<<<"settled">>>> = <<<<how, left>>, <<"settled">>>>
        BY <3>2, EachThen
      <4> QED  BY <1>6, <2>1, <4>1
    <3> QED  BY <3>1, <3>2
  <2> QED  BY <2>2, <2>3 DEF PlanOK
<1>11. /\ index' \in [Conversations -> SUBSET Ids] /\ DOMAIN dedup' \subseteq Ids
       /\ sequence' \in Nat /\ got' \in [Clients -> SUBSET Ids]
  BY <1>7 DEF BoxOK, TypeOK
<1>12. KeysOK'  BY <1>7, <1>8, <1>9 DEF BoxOK, KeysOK
<1>13. OnceOnly'  BY <1>8, <1>9 DEF BoxOK, OnceOnly
<1> QED  BY <1>2, <1>6, <1>7, <1>9, <1>10, <1>11, <1>12, <1>13, WriteKeeps

\* A release needs a held lease, which no acknowledged event has.
LEMMA ReleaseKeeps ==
  ASSUME BoxOK, NEW c \in Clients, WriteRelease(c)
  PROVE  BoxOK'
<1>1. Tells(c) /\ Is(c, "release") /\ todo[c] # <<>>  BY PlanIs DEF BoxOK, WriteRelease, Is
<1>2. PICK ids \in SUBSET Ids :
        Plan(c, "release", ids, <<<<"settled">>>>) /\ ids \subseteq DOMAIN event
  BY <1>1 DEF Tells
<1>3. op(c)[1] = "release" /\ op(c)[2] = ids /\ Tail(todo[c]) = <<<<"settled">>>>
  BY <1>2 DEF Plan
<1>4. PICK i \in ids : IF Holds(c, i) THEN Released(i) /\ DoneWith(c, i)
                                     ELSE UNCHANGED event /\ GiveUp(c)
  BY <1>3 DEF WriteRelease
<1>5. PICK q : /\ todo' = [todo EXCEPT ![c] = q]
               /\ \/ q = Each("release", ids \ {i}) \o <<<<"settled">>>>
                  \/ q = <<<<"settled">>>>
  BY <1>3, <1>4 DEF DoneWith, GiveUp
<1>6. lock' = lock /\ UNCHANGED <<index, conversations, dedup, sequence, got, settled>>
  BY DEF WriteRelease, Rest
<1>7. /\ DOMAIN event' = DOMAIN event /\ event' \in [DOMAIN event' -> Events]
      /\ \A j \in DOMAIN event : event[j].status = "acknowledged" => event'[j] = event[j]
      /\ RecordsOK'
  <2>1. CASE Holds(c, i)
    <3>1. event' = [event EXCEPT ![i].status = "pending", ![i].consumer = None,
                                 ![i].lease = "none"]
      BY <1>4, <2>1 DEF Released
    <3>2. event[i].status # "acknowledged"  BY <2>1 DEF Holds
    <3>3. Marks(i, "pending", None, "none")  BY <3>1 DEF Marks
    <3>4. TypeOK /\ RecordsOK /\ sequence' = sequence  BY <1>6 DEF BoxOK
    <3> QED  BY <1>2, <3>2, <3>3, <3>4, EventChange
  <2>2. CASE ~Holds(c, i)  BY <1>4, <1>6, <2>2 DEF BoxOK, TypeOK, RecordsOK
  <2> QED  BY <2>1, <2>2
<1>8. PlanOK(q)'
  <2>1. PICK left : left = ids \ {i}  OBVIOUS
  <2>2. left \in SUBSET Ids /\ left \subseteq DOMAIN event'  BY <1>2, <1>7, <2>1
  <2>3. q = <<<<"settled">>>> \/ q = <<<<"release", left>>, <<"settled">>>>
    <3>1. CASE left = {}
      <4>1. Each("release", left) \o <<<<"settled">>>> = <<<<"settled">>>>  BY <3>1, EachThen
      <4> QED  BY <1>5, <2>1, <4>1
    <3>2. CASE left # {}
      <4>1. Each("release", left) \o <<<<"settled">>>> = <<<<"release", left>>, <<"settled">>>>
        BY <3>2, EachThen
      <4> QED  BY <1>5, <2>1, <4>1
    <3> QED  BY <3>1, <3>2
  <2> QED  BY <2>2, <2>3 DEF PlanOK
<1>9. /\ index' \in [Conversations -> SUBSET Ids] /\ DOMAIN dedup' \subseteq Ids
      /\ sequence' \in Nat /\ got' \in [Clients -> SUBSET Ids]
  BY <1>6 DEF BoxOK, TypeOK
<1>10. KeysOK'  BY <1>6, <1>7 DEF BoxOK, KeysOK
<1>11. OnceOnly'  BY <1>6, <1>7 DEF BoxOK, OnceOnly
<1> QED  BY <1>1, <1>5, <1>6, <1>7, <1>8, <1>9, <1>10, <1>11, WriteKeeps

\* A purge takes events away and leaves their keys; then it unlists what is empty.
LEMMA PurgeKeeps ==
  ASSUME BoxOK, NEW c \in Clients, WritePurge(c)
  PROVE  BoxOK'
<1>1. Tells(c) /\ todo[c] # <<>>  BY PlanIs DEF BoxOK, WritePurge, Is
<1>2. lock' = lock /\ UNCHANGED <<dedup, sequence, got, settled>>  BY DEF WritePurge, Rest
<1>3. CASE Is(c, "drop")
  <2>1. PICK ids, q :
          /\ ids \in SUBSET Ids /\ op(c)[1] = "drop" /\ op(c)[2] = ids /\ Tail(todo[c]) = q
          /\ \/ q = <<<<"return">>>>
             \/ \E cs \in SUBSET Conversations : q = <<<<"unlist", cs>>, <<"return">>>>
    BY <1>1, <1>3 DEF Tells, Plan
  <2>2. /\ event' = [i \in DOMAIN event \ ids |-> event[i]]
        /\ index' = [k \in Conversations |-> index[k] \ ids]
        /\ todo' = [todo EXCEPT ![c] = q]
    BY <1>3, <2>1 DEF WritePurge, Is, Done
  <2>3. event' \in [DOMAIN event' -> Events] /\ DOMAIN event' = DOMAIN event \ ids
    BY <2>2 DEF BoxOK, TypeOK
  <2>4. /\ index' \in [Conversations -> SUBSET Ids] /\ DOMAIN dedup' \subseteq Ids
        /\ sequence' \in Nat /\ got' \in [Clients -> SUBSET Ids]
    BY <1>2, <2>2 DEF BoxOK, TypeOK
  <2>5. PlanOK(q)'  BY <2>1 DEF PlanOK
  <2>6. KeysOK'  BY <1>2, <2>3 DEF BoxOK, KeysOK
  <2>7. OnceOnly'  BY <1>2, <2>2, <2>3 DEF BoxOK, OnceOnly
  <2>8. RecordsOK'
    <3>1. IsFiniteSet(DOMAIN event')  BY <2>3, FS_Subset DEF BoxOK, RecordsOK
    <3>2. \A i \in DOMAIN event' : i \in DOMAIN event /\ event'[i] = event[i]  BY <2>2, <2>3
    <3> QED  BY <1>2, <3>1, <3>2 DEF BoxOK, RecordsOK
  <2> QED  BY <1>1, <1>2, <2>2, <2>3, <2>4, <2>5, <2>6, <2>7, <2>8, WriteKeeps
<1>4. CASE Is(c, "unlist") /\ ~Is(c, "drop")
  <2>1. PICK cs \in SUBSET Conversations : Plan(c, "unlist", cs, <<<<"return">>>>)
    BY <1>1, <1>4 DEF Tells
  <2>2. op(c)[1] = "unlist" /\ op(c)[2] = cs /\ Tail(todo[c]) = <<<<"return">>>>
    BY <2>1 DEF Plan
  <2>3. PICK k \in cs : DoneWith(c, k)  BY <1>4, <2>2 DEF WritePurge
  <2>4. PICK q : /\ q = Each("unlist", cs \ {k}) \o <<<<"return">>>>
                 /\ todo' = [todo EXCEPT ![c] = q]
    BY <2>2, <2>3 DEF DoneWith
  <2>5. UNCHANGED <<event, index>>  BY <1>4 DEF WritePurge
  <2>6. PlanOK(q)'
    <3>1. {} \in SUBSET Ids /\ cs \ {k} \in SUBSET Conversations  OBVIOUS
    <3>2. PlanOK(q)  BY <2>4, <3>1, EachPlan
    <3> QED  BY <1>2, <2>5, <3>2, PlanStays
  <2>7. /\ event' \in [DOMAIN event' -> Events] /\ index' \in [Conversations -> SUBSET Ids]
        /\ DOMAIN dedup' \subseteq Ids
        /\ sequence' \in Nat /\ got' \in [Clients -> SUBSET Ids]
    BY <1>2, <2>5 DEF BoxOK, TypeOK
  <2>8. KeysOK'  BY <1>2, <2>5 DEF BoxOK, KeysOK
  <2>9. OnceOnly' /\ RecordsOK'  BY <1>2, <2>5 DEF BoxOK, OnceOnly, RecordsOK
  <2> QED  BY <1>1, <1>2, <2>4, <2>6, <2>7, <2>8, <2>9, WriteKeeps
<1> QED  BY <1>3, <1>4 DEF WritePurge

\* Keys are forgotten of events that are gone, and nobody can have appended since.
LEMMA ForgetKeeps ==
  ASSUME BoxOK, NEW c \in Clients, WriteForget(c)
  PROVE  BoxOK'
<1>1. Tells(c) /\ Is(c, "forget") /\ todo[c] # <<>>  BY PlanIs DEF BoxOK, WriteForget, Is
<1>2. PICK ids \in SUBSET Ids :
        Plan(c, "forget", ids, <<<<"return">>>>) /\ ids \cap DOMAIN event = {}
  BY <1>1 DEF Tells
<1>3. op(c)[2] = ids /\ Tail(todo[c]) = <<<<"return">>>>  BY <1>2 DEF Plan
<1>4. /\ dedup' = [i \in DOMAIN dedup \ ids |-> dedup[i]] /\ settled' = settled \ ids
      /\ todo' = [todo EXCEPT ![c] = <<<<"return">>>>] /\ lock' = lock
      /\ UNCHANGED <<event, index, conversations, sequence, got>>
  BY <1>3 DEF WriteForget, Done, Rest
<1>5. /\ event' \in [DOMAIN event' -> Events] /\ index' \in [Conversations -> SUBSET Ids]
      /\ DOMAIN dedup' \subseteq Ids
      /\ sequence' \in Nat /\ got' \in [Clients -> SUBSET Ids]
  BY <1>4 DEF BoxOK, TypeOK
<1>6. KeysOK'  BY <1>2, <1>4 DEF BoxOK, KeysOK
<1>7. OnceOnly' /\ RecordsOK'  BY <1>4 DEF BoxOK, OnceOnly, RecordsOK
<1>8. PlanOK(<<<<"return">>>>)'  BY DEF PlanOK
<1> QED  BY <1>1, <1>4, <1>5, <1>6, <1>7, <1>8, WriteKeeps

\* The call returns and gives the lock up.
LEMMA ReturnKeeps ==
  ASSUME BoxOK, NEW c \in Clients, Return(c)
  PROVE  BoxOK'
<1>1. Tells(c) /\ todo[c] # <<>>  BY PlanIs DEF BoxOK, Return, Is
<1>2. Tail(todo[c]) = <<>>  BY <1>1 DEF Return, Tells
<1>3. /\ todo' = [todo EXCEPT ![c] = <<>>] /\ lock' = None
      /\ UNCHANGED <<event, index, conversations, dedup, sequence, settled>>
      /\ got' \in [Clients -> SUBSET Ids]
  BY <1>2 DEF Return, Done, keys, BoxOK, TypeOK
<1>4. /\ event' \in [DOMAIN event' -> Events] /\ index' \in [Conversations -> SUBSET Ids]
      /\ DOMAIN dedup' \subseteq Ids /\ sequence' \in Nat
  BY <1>3 DEF BoxOK, TypeOK
<1>5. KeysOK' /\ OnceOnly' /\ RecordsOK'
  BY <1>3 DEF BoxOK, KeysOK, OnceOnly, RecordsOK
<1>6. PlanOK(<<>>)'  BY DEF PlanOK
<1> QED  BY <1>1, <1>3, <1>4, <1>5, <1>6, WriteKeeps

-----------------------------------------------------------------------------
(* Failures and time, and the theorem.                                     *)

\* A client dies with its lock taken, or a lock or a lease runs out.
LEMMA TimeKeeps ==
  ASSUME BoxOK,
         \/ \E c \in Clients : Die(c)
         \/ LockTimesOut \/ \E i \in Ids : LeaseExpires(i)
  PROVE  BoxOK'
<1>1. ASSUME NEW c \in Clients, Die(c)  PROVE BoxOK'
  <2>1. /\ todo' = [todo EXCEPT ![c] = <<>>] /\ got' = [got EXCEPT ![c] = {}]
        /\ UNCHANGED <<event, index, conversations, dedup, sequence, lock, settled>>
    BY <1>1 DEF Die, keys
  <2>2. \A d \in Clients : todo'[d] = <<>> \/ todo'[d] = todo[d]
    BY <2>1 DEF BoxOK, TypeOK
  <2>3. LockOK'  BY <2>1, <2>2 DEF BoxOK, LockOK
  <2>4. TypeOK' /\ KeysOK' /\ OnceOnly' /\ RecordsOK'
    BY <2>1 DEF BoxOK, TypeOK, KeysOK, OnceOnly, RecordsOK
  <2>5. ASSUME NEW d \in Clients  PROVE PlanOK(todo[d])'
    <3>1. CASE todo'[d] = <<>>  BY <3>1 DEF PlanOK
    <3>2. CASE todo'[d] = todo[d]  BY <2>1, <3>2 DEF BoxOK, PlanOK, Open, Spent
    <3> QED  BY <2>2, <3>1, <3>2
  <2> QED  BY <2>3, <2>4, <2>5 DEF BoxOK
<1>2. CASE LockTimesOut
  <2>1. /\ lock # None /\ todo[lock] = <<>> /\ lock' = None
        /\ UNCHANGED <<event, index, conversations, dedup, sequence, todo, got, settled>>
    BY <1>2 DEF LockTimesOut, keys
  <2>2. LockOK'  BY <2>1 DEF BoxOK, LockOK
  <2>3. TypeOK' /\ KeysOK' /\ OnceOnly' /\ RecordsOK'
    BY <2>1 DEF BoxOK, TypeOK, KeysOK, OnceOnly, RecordsOK
  <2>4. \A d \in Clients : PlanOK(todo[d])'  BY <2>1 DEF BoxOK, PlanOK, Open, Spent
  <2> QED  BY <2>2, <2>3, <2>4 DEF BoxOK
<1>3. ASSUME NEW i \in Ids, LeaseExpires(i)  PROVE BoxOK'
  <2>1. /\ i \in DOMAIN event /\ event' = [event EXCEPT ![i].lease = "expired"]
        /\ UNCHANGED <<index, conversations, dedup, sequence, lock, todo, got, settled>>
    BY <1>3 DEF LeaseExpires
  <2>2. /\ DOMAIN event' = DOMAIN event /\ event' = [j \in DOMAIN event |-> event'[j]]
        /\ event'[i] = [event[i] EXCEPT !.lease = "expired"]
        /\ \A j \in DOMAIN event \ {i} : event'[j] = event[j]
    BY <2>1 DEF BoxOK, TypeOK
  <2>3. event[i] \in Events  BY <2>1 DEF BoxOK, TypeOK
  <2>4. /\ event'[i] \in Events /\ event'[i].status = event[i].status
        /\ event'[i].letter = event[i].letter /\ event'[i].seq = event[i].seq
        /\ event'[i].lease = "expired"
    BY <2>2, <2>3 DEF Events
  <2>5. \A j \in DOMAIN event :
          /\ event'[j] \in Events /\ event'[j].status = event[j].status
          /\ event'[j].letter = event[j].letter /\ event'[j].seq = event[j].seq
          /\ Claimable(event[j]) => Claimable(event'[j])
    BY <2>2, <2>4 DEF BoxOK, TypeOK, Claimable
  <2>6. event' \in [DOMAIN event' -> Events]  BY <2>2, <2>5
  <2>7. TypeOK'  BY <2>1, <2>2, <2>6 DEF BoxOK, TypeOK
  <2>8. LockOK' /\ KeysOK' /\ OnceOnly'
    BY <2>1, <2>2, <2>5 DEF BoxOK, LockOK, KeysOK, OnceOnly
  <2>9. ASSUME NEW d \in Clients  PROVE PlanOK(todo[d])'
    <3>1. PICK q : q = todo[d] /\ q = todo'[d]  BY <2>1
    <3>2. PlanOK(q)  BY <3>1 DEF BoxOK
    <3>3. PlanOK(q)'  BY <2>1, <2>2, <2>5, <3>2, PlanStays
    <3> QED  BY <3>1, <3>3
  <2>10. RecordsOK'  BY <2>1, <2>2, <2>5, RecordsStay DEF BoxOK
  <2> QED  BY <2>7, <2>8, <2>9, <2>10 DEF BoxOK
<1> QED  BY <1>1, <1>2, <1>3

\* The invariant holds at first, and every step keeps it.
LEMMA BoxFirst == Init => BoxOK
<1>1. SUFFICES ASSUME Init  PROVE BoxOK
  OBVIOUS
<1>2. event = <<>> /\ dedup = <<>> /\ settled = {} /\ DOMAIN event = {} /\ DOMAIN dedup = {}
  BY <1>1 DEF Init
<1>3. event \in [DOMAIN event -> Events]  BY <1>2
<1>4. TypeOK  BY <1>1, <1>2, <1>3 DEF Init, TypeOK
<1>5. \A c \in Clients : todo[c] = <<>>  BY <1>1 DEF Init
<1>6. LockOK /\ \A c \in Clients : PlanOK(todo[c])  BY <1>5 DEF LockOK, PlanOK
<1>7. KeysOK /\ OnceOnly /\ RecordsOK
  BY <1>2, FS_EmptySet DEF KeysOK, OnceOnly, RecordsOK
<1> QED  BY <1>4, <1>6, <1>7 DEF BoxOK

LEMMA BoxKept == BoxOK /\ [Next]_vars => BoxOK'
<1>1. SUFFICES ASSUME BoxOK, [Next]_vars  PROVE BoxOK'
  OBVIOUS
<1>2. CASE UNCHANGED vars
  <2>1. UNCHANGED <<event, index, dedup, sequence, lock, todo, got, settled>>
    BY <1>2 DEF vars, keys
  <2>2. TypeOK' /\ RecordsOK' /\ LockOK' /\ KeysOK' /\ OnceOnly'
    BY <1>1, <2>1 DEF BoxOK, TypeOK, RecordsOK, LockOK, KeysOK, OnceOnly
  <2>3. \A d \in Clients : PlanOK(todo[d])'  BY <1>1, <2>1 DEF BoxOK, PlanOK, Open, Spent
  <2> QED  BY <2>2, <2>3 DEF BoxOK
<1>3. ASSUME NEW c \in Clients, Step(c)  PROVE BoxOK'
  BY <1>1, <1>3, PutKeeps, LeaseKeeps, AcknowledgeKeeps, ReleaseKeeps, PurgeKeeps,
     ForgetKeeps, ReturnKeeps DEF Step
<1>4. ASSUME NEW c \in Clients,
             ClaimAny(c) \/ Release(c) \/ (\E k \in Conversations : Claim(c, k))
               \/ \E force \in BOOLEAN : Acknowledge(c, force)
      PROVE  BoxOK'
  BY <1>1, <1>4, ClaimKeeps, CallKeeps
<1>5. ASSUME NEW c \in Producers,
             \/ ForgetKeys(c) \/ \E l \in Letters : Put(c, l)
             \/ \E cs \in {Conversations} \cup {{k} : k \in Conversations} :
                  PurgeAcknowledged(c, cs)
      PROVE  BoxOK'
  <2>1. c \in Clients  BY ProducerAssumption
  <2>2. {Conversations} \cup {{k} : k \in Conversations} \subseteq SUBSET Conversations
    OBVIOUS
  <2> QED  BY <1>1, <1>5, <2>1, <2>2, CallKeeps
<1>6. CASE (\E c \in Clients : Die(c)) \/ LockTimesOut \/ \E i \in Ids : LeaseExpires(i)
  BY <1>1, <1>6, TimeKeeps
<1> QED  BY <1>1, <1>2, <1>3, <1>4, <1>5, <1>6 DEF Next

\* Mail that was acknowledged never comes back (OnceOnly): whoever dies where in a
\* call, whatever lock or lease runs out, and whatever is appended, replayed,
\* purged or forgotten, for any number of clients and letters.
THEOREM AcknowledgedForGood == Spec => []OnceOnly
<1>1. BoxOK => OnceOnly  BY DEF BoxOK
<1> QED  BY <1>1, BoxFirst, BoxKept, PTL DEF Spec
-----------------------------------------------------------------------------
(* Events in the order of their sequence numbers.                          *)

\* Finitely many events with numbers of their own.
Good(f) ==
  /\ IsFiniteSet(DOMAIN f)
  /\ \A i \in DOMAIN f : /\ f[i].seq \in Nat
                         /\ \A j \in DOMAIN f : f[i].seq = f[j].seq => i = j

Before(f, i) == {j \in DOMAIN f : f[j].seq < f[i].seq}

\* A function that gives different values to different members reaches every
\* member of a set no larger.
LEMMA Onto ==
  ASSUME NEW S, NEW T, IsFiniteSet(S), IsFiniteSet(T), Cardinality(S) = Cardinality(T),
         NEW r \in [S -> T], \A i, j \in S : r[i] = r[j] => i = j
  PROVE  \A t \in T : \E i \in S : r[i] = t
<1> DEFINE U == {r[i] : i \in S}
<1>1. r \in Bijection(S, U)
  BY DEF Bijection, Injection, Surjection, IsInjective
<1>2. Cardinality(U) = Cardinality(S)
  <2> HIDE DEF U
  <2>1. ExistsBijection(S, U)  BY <1>1 DEF ExistsBijection
  <2> QED  BY <1>1, <2>1, FS_Bijection
<1>3. U \subseteq T  OBVIOUS
<1>4. U = T
  <2> HIDE DEF U
  <2> QED  BY <1>2, <1>3, FS_Subset
<1> QED  BY <1>4

\* Every event has a rank of its own, and every rank below their number an event.
LEMMA Order ==
  ASSUME NEW f, Good(f)
  PROVE  /\ Cardinality(DOMAIN f) \in Nat
         /\ \A i \in DOMAIN f : /\ Rank(f, i) \in 0..(Cardinality(DOMAIN f) - 1)
                                /\ At(f, Rank(f, i) + 1) = i
         /\ \A k \in 1..Cardinality(DOMAIN f) :
              At(f, k) \in DOMAIN f /\ Rank(f, At(f, k)) = k - 1
<1>1. PICK n : n = Cardinality(DOMAIN f) /\ n \in Nat  BY FS_CardinalityType DEF Good
<1>2. \A i \in DOMAIN f : Rank(f, i) = Cardinality(Before(f, i))  BY DEF Rank, Before
<1>3. ASSUME NEW i \in DOMAIN f  PROVE Rank(f, i) \in 0..(n - 1)
  <2>1. Before(f, i) \subseteq DOMAIN f /\ i \notin Before(f, i)
    BY DEF Before, Good
  <2>2. /\ IsFiniteSet(Before(f, i)) /\ Cardinality(Before(f, i)) <= n
        /\ Cardinality(Before(f, i)) # n
    BY <1>1, <2>1, FS_Subset DEF Good
  <2>3. Cardinality(Before(f, i)) \in Nat  BY <2>2, FS_CardinalityType
  <2> QED  BY <1>1, <1>2, <2>2, <2>3
<1>4. ASSUME NEW i \in DOMAIN f, NEW j \in DOMAIN f, f[i].seq < f[j].seq
      PROVE  Rank(f, i) # Rank(f, j)
  <2>1. Before(f, i) \subseteq Before(f, j) /\ i \in Before(f, j) /\ i \notin Before(f, i)
    BY <1>4 DEF Before, Good
  <2>2. IsFiniteSet(Before(f, j))  BY FS_Subset DEF Before, Good
  <2>3. Cardinality(Before(f, i)) # Cardinality(Before(f, j))  BY <2>1, <2>2, FS_Subset
  <2> QED  BY <1>2, <2>3
<1>5. \A i, j \in DOMAIN f : Rank(f, i) = Rank(f, j) => i = j
  <2>1. \A i, j \in DOMAIN f : i = j \/ f[i].seq < f[j].seq \/ f[j].seq < f[i].seq
    BY DEF Good
  <2> QED  BY <1>4, <2>1
<1>6. \A t \in 1..n : \E i \in DOMAIN f : Rank(f, i) + 1 = t
  <2> DEFINE r == [i \in DOMAIN f |-> Rank(f, i) + 1]
  <2>1. r \in [DOMAIN f -> 1..n]  BY <1>1, <1>3
  <2>2. \A i, j \in DOMAIN f : r[i] = r[j] => i = j  BY <1>1, <1>3, <1>5
  <2>3. IsFiniteSet(1..n) /\ Cardinality(1..n) = n
    <3>1. IsFiniteSet(1..n)  BY <1>1, FS_Interval
    <3>2. ExistsBijection(1..n, 1..n)  BY Fun_ExistsBijReflexive
    <3> QED  BY <1>1, <3>1, <3>2, FS_CountingElements
  <2>4. \A i \in DOMAIN f : r[i] = Rank(f, i) + 1  OBVIOUS
  <2>5. IsFiniteSet(DOMAIN f) /\ Cardinality(DOMAIN f) = Cardinality(1..n)
    BY <1>1, <2>3 DEF Good
  <2> HIDE DEF r
  <2>6. PICK S, T : S = DOMAIN f /\ T = 1..n  OBVIOUS
  <2>7. \A t \in T : \E i \in S : r[i] = t
    <3>1. IsFiniteSet(S) /\ IsFiniteSet(T) /\ Cardinality(S) = Cardinality(T)
      BY <2>3, <2>5, <2>6
    <3>2. r \in [S -> T]  BY <2>1, <2>6
    <3>3. \A i, j \in S : r[i] = r[j] => i = j  BY <2>2, <2>6
    <3> QED  BY <3>1, <3>2, <3>3, Onto
  <2> QED  BY <2>4, <2>6, <2>7
<1>7. ASSUME NEW k \in 1..n  PROVE At(f, k) \in DOMAIN f /\ Rank(f, At(f, k)) = k - 1
  <2>1. PICK i \in DOMAIN f : Rank(f, i) + 1 = k  BY <1>6
  <2>2. Rank(f, i) = k - 1  BY <1>1, <1>3, <2>1
  <2> QED  BY <2>2 DEF At
<1>8. ASSUME NEW i \in DOMAIN f  PROVE At(f, Rank(f, i) + 1) = i
  <2>1. PICK k : k = Rank(f, i) + 1 /\ k \in 1..n /\ k - 1 = Rank(f, i)  BY <1>1, <1>3
  <2>2. At(f, k) \in DOMAIN f /\ Rank(f, At(f, k)) = k - 1  BY <1>7, <2>1
  <2> QED  BY <1>5, <2>1, <2>2
<1> QED  BY <1>1, <1>3, <1>7, <1>8

\* A newer event comes last.
LEMMA Appended ==
  ASSUME NEW f, NEW g, Good(f), Good(g), NEW x, x \notin DOMAIN f,
         DOMAIN g = DOMAIN f \cup {x},
         \A i \in DOMAIN f : g[i] = f[i] /\ f[i].seq < g[x].seq
  PROVE  Row(g) = Append(Row(f), Shown(g[x]))
<1>1. PICK n : n = Cardinality(DOMAIN f) /\ n \in Nat  BY Order
<1>2. Cardinality(DOMAIN g) = n + 1  BY <1>1, FS_AddElement DEF Good
<1>3. ASSUME NEW i \in DOMAIN f  PROVE Rank(g, i) = Rank(f, i)
  <2>1. ~(g[x].seq < g[i].seq)  BY <1>3 DEF Good
  <2>2. {j \in DOMAIN g : g[j].seq < g[i].seq} = {j \in DOMAIN f : f[j].seq < f[i].seq}
    BY <1>3, <2>1
  <2> QED  BY <2>2 DEF Rank
<1>4. Rank(g, x) = n
  <2>1. ~(g[x].seq < g[x].seq)  BY DEF Good
  <2>2. {j \in DOMAIN g : g[j].seq < g[x].seq} = DOMAIN f  BY <2>1
  <2> QED  BY <1>1, <2>2 DEF Rank
<1>5. At(g, n + 1) = x
  <2>1. At(g, Rank(g, x) + 1) = x  BY Order
  <2> QED  BY <1>4, <2>1
<1>6. ASSUME NEW k \in 1..n  PROVE At(g, k) = At(f, k) /\ At(f, k) \in DOMAIN f
  <2>1. At(f, k) \in DOMAIN f /\ Rank(f, At(f, k)) = k - 1  BY <1>1, Order
  <2>2. Rank(g, At(f, k)) + 1 = k  BY <1>1, <1>3, <2>1
  <2>3. At(g, Rank(g, At(f, k)) + 1) = At(f, k)  BY <2>1, Order
  <2> QED  BY <2>1, <2>2, <2>3
<1>7. Row(f) = [k \in 1..n |-> Shown(f[At(f, k)])]  BY <1>1 DEF Row
<1>8. Row(g) = [k \in 1..(n + 1) |-> Shown(g[At(g, k)])]  BY <1>2 DEF Row
<1>9. \A k \in 1..n : Shown(g[At(g, k)]) = Shown(f[At(f, k)])  BY <1>6
<1>10. Len(Row(f)) = n  BY <1>1, <1>7
<1>11. Append(Row(f), Shown(g[x])) =
         [k \in 1..(n + 1) |-> IF k = n + 1 THEN Shown(g[x]) ELSE Row(f)[k]]
  BY <1>1, <1>7, <1>10
<1>12. \A k \in 1..(n + 1) :
         Shown(g[At(g, k)]) = IF k = n + 1 THEN Shown(g[x]) ELSE Row(f)[k]
  BY <1>1, <1>5, <1>7, <1>9
<1> QED  BY <1>8, <1>11, <1>12

\* A changed event keeps its place.
LEMMA Changed ==
  ASSUME NEW f, NEW g, Good(f), DOMAIN g = DOMAIN f,
         NEW x \in DOMAIN f, g[x].seq = f[x].seq, \A i \in DOMAIN f \ {x} : g[i] = f[i]
  PROVE  \E p \in DOMAIN Row(f) :
           /\ Row(f)[p] = Shown(f[x]) /\ At(f, p) = x
           /\ Row(g) = [k \in DOMAIN Row(f) |-> IF k = p THEN Shown(g[x]) ELSE Row(f)[k]]
<1>1. PICK n : n = Cardinality(DOMAIN f) /\ n \in Nat  BY Order
<1>2. \A i \in DOMAIN f : g[i].seq = f[i].seq  OBVIOUS
<1>3. \A i \in DOMAIN f : Rank(g, i) = Rank(f, i)
  <2>1. \A i \in DOMAIN f :
          {j \in DOMAIN g : g[j].seq < g[i].seq} = {j \in DOMAIN f : f[j].seq < f[i].seq}
    BY <1>2
  <2> QED  BY <2>1 DEF Rank
<1>4. Good(g)  BY <1>2 DEF Good
<1>5. ASSUME NEW k \in 1..n  PROVE At(g, k) = At(f, k) /\ At(f, k) \in DOMAIN f
  <2>1. At(f, k) \in DOMAIN f /\ Rank(f, At(f, k)) = k - 1  BY <1>1, Order
  <2>2. Rank(g, At(f, k)) + 1 = k  BY <1>1, <1>3, <2>1
  <2>3. At(g, Rank(g, At(f, k)) + 1) = At(f, k)  BY <1>4, <2>1, Order
  <2> QED  BY <2>1, <2>2, <2>3
<1>6. PICK p \in 1..n : p = Rank(f, x) + 1 /\ At(f, p) = x
  <2>1. Rank(f, x) \in 0..(n - 1) /\ At(f, Rank(f, x) + 1) = x  BY <1>1, Order
  <2>2. Rank(f, x) + 1 \in 1..n  BY <1>1, <2>1
  <2> QED  BY <2>1, <2>2
<1>7. \A k \in 1..n : At(f, k) = x => k = p
  <2>1. \A k \in 1..n : Rank(f, At(f, k)) = k - 1  BY <1>1, Order
  <2> QED  BY <1>1, <1>6, <2>1
<1>8. Row(f) = [k \in 1..n |-> Shown(f[At(f, k)])]  BY <1>1 DEF Row
<1>9. Row(g) = [k \in 1..n |-> Shown(g[At(g, k)])]  BY <1>1 DEF Row
<1>10. \A k \in 1..n :
         Shown(g[At(g, k)]) = IF k = p THEN Shown(g[x]) ELSE Row(f)[k]
  BY <1>5, <1>6, <1>7, <1>8
<1> QED  BY <1>6, <1>8, <1>9, <1>10

\* The contract counts as this module does.
LEMMA SameCount == \A S : Contract!Cardinality(S) = Cardinality(S)
BY DEF Contract!Cardinality, Cardinality

\* The k-th of the positions that are left shows the k-th of the events that are left.
Without(f, gone) == [i \in DOMAIN f \ gone |-> f[i]]
Left(f, gone) == {k \in DOMAIN Row(f) : At(f, k) \notin gone}
Picked(row, kept) == [k \in 1..Cardinality(kept) |-> row[Contract!Nth(kept, k)]]

LEMMA Removed ==
  ASSUME NEW f, NEW gone, Good(f)
  PROVE  Row(Without(f, gone)) = Picked(Row(f), Left(f, gone))
<1>0. PICK g, kept : /\ g = Without(f, gone) /\ g = [i \in DOMAIN f \ gone |-> f[i]]
                     /\ kept = Left(f, gone)
                     /\ kept = {k \in DOMAIN Row(f) : At(f, k) \notin gone}
  BY DEF Without, Left
<1>1. PICK n : n = Cardinality(DOMAIN f) /\ n \in Nat  BY Order
<1>2. DOMAIN g = DOMAIN f \ gone /\ \A i \in DOMAIN g : g[i] = f[i]  BY <1>0
<1>3. Good(g)
  <2>1. IsFiniteSet(DOMAIN g)  BY <1>2, FS_Subset DEF Good
  <2> QED  BY <1>2, <2>1 DEF Good
<1>4. Row(f) = [k \in 1..n |-> Shown(f[At(f, k)])]  BY <1>1 DEF Row
<1>5. kept = {k \in 1..n : At(f, k) \in DOMAIN g}
  <2>1. \A k \in 1..n : At(f, k) \in DOMAIN f  BY <1>1, Order
  <2> QED  BY <1>0, <1>2, <1>4, <2>1
<1>6. \A i \in DOMAIN g : Rank(f, i) + 1 \in kept /\ At(f, Rank(f, i) + 1) = i
  <2>1. \A i \in DOMAIN f : Rank(f, i) \in 0..(n - 1) /\ At(f, Rank(f, i) + 1) = i
    BY <1>1, Order
  <2> QED  BY <1>1, <1>2, <1>5, <2>1
<1>7. \A k \in kept : At(f, k) \in DOMAIN g /\ Rank(f, At(f, k)) = k - 1 /\ k \in 1..n
  BY <1>1, <1>5, Order
\* In increasing places stand events of increasing numbers.
<1>8. \A j, k \in kept : f[At(f, j)].seq < f[At(f, k)].seq <=> j < k
  <2>1. \A i, j \in DOMAIN f : f[i].seq < f[j].seq => Rank(f, i) < Rank(f, j)
    <3>1. SUFFICES ASSUME NEW i \in DOMAIN f, NEW j \in DOMAIN f, f[i].seq < f[j].seq
                   PROVE  Rank(f, i) < Rank(f, j)
      OBVIOUS
    <3>2. Before(f, i) \subseteq Before(f, j) /\ i \in Before(f, j) /\ i \notin Before(f, i)
      BY <3>1 DEF Before, Good
    <3>3. IsFiniteSet(Before(f, j))  BY FS_Subset DEF Before, Good
    <3>4. /\ IsFiniteSet(Before(f, i)) /\ Cardinality(Before(f, i)) <= Cardinality(Before(f, j))
          /\ Cardinality(Before(f, i)) # Cardinality(Before(f, j))
      BY <3>2, <3>3, FS_Subset
    <3>5. Cardinality(Before(f, i)) \in Nat /\ Cardinality(Before(f, j)) \in Nat
      BY <3>3, <3>4, FS_CardinalityType
    <3>6. Rank(f, i) = Cardinality(Before(f, i)) /\ Rank(f, j) = Cardinality(Before(f, j))
      BY DEF Rank, Before
    <3> QED  BY <3>4, <3>5, <3>6
  <2>2. SUFFICES ASSUME NEW j \in kept, NEW k \in kept
                 PROVE  f[At(f, j)].seq < f[At(f, k)].seq <=> j < k
    OBVIOUS
  <2>3. /\ At(f, j) \in DOMAIN f /\ Rank(f, At(f, j)) = j - 1 /\ j \in 1..n
        /\ At(f, k) \in DOMAIN f /\ Rank(f, At(f, k)) = k - 1 /\ k \in 1..n
    BY <1>2, <1>7
  <2>4. /\ f[At(f, j)].seq < f[At(f, k)].seq => j < k
        /\ f[At(f, k)].seq < f[At(f, j)].seq => k < j
    <3>1. /\ f[At(f, j)].seq < f[At(f, k)].seq => Rank(f, At(f, j)) < Rank(f, At(f, k))
          /\ f[At(f, k)].seq < f[At(f, j)].seq => Rank(f, At(f, k)) < Rank(f, At(f, j))
      BY <2>1, <2>3
    <3> QED  BY <1>1, <2>3, <3>1
  <2>5. /\ f[At(f, j)].seq \in Nat /\ f[At(f, k)].seq \in Nat
        /\ f[At(f, j)].seq = f[At(f, k)].seq => At(f, j) = At(f, k)
    BY <2>3 DEF Good
  <2>6. At(f, j) = At(f, k) => j = k  BY <1>1, <2>3
  <2> QED  BY <1>1, <2>3, <2>4, <2>5, <2>6
<1>9. \A p \in kept : Rank(g, At(f, p)) = Cardinality({j \in kept : j < p})
  <2>1. SUFFICES ASSUME NEW p \in kept
                 PROVE  Rank(g, At(f, p)) = Cardinality({j \in kept : j < p})
    OBVIOUS
  <2>2. PICK A, B : A = {j \in kept : j < p} /\ B = Before(g, At(f, p))  OBVIOUS
  <2>3. PICK r : r = [j \in A |-> At(f, j)]  OBVIOUS
  <2>4. r \in [A -> B]
    BY <1>2, <1>7, <1>8, <2>2, <2>3 DEF Before
  <2>5. \A j, k \in A : r[j] = r[k] => j = k
    <3>1. \A j, k \in A : r[j] = r[k] => Rank(f, At(f, j)) = Rank(f, At(f, k))  BY <2>3
    <3>2. \A j \in A : j \in kept /\ j \in Nat  BY <1>7, <2>2
    <3> QED  BY <1>1, <1>7, <3>1, <3>2
  <2>6. \A i \in B : \E j \in A : r[j] = i
    <3>1. SUFFICES ASSUME NEW i \in B  PROVE \E j \in A : r[j] = i
      OBVIOUS
    <3>2. i \in DOMAIN g /\ g[i].seq < g[At(f, p)].seq  BY <2>2, <3>1 DEF Before
    <3>3. PICK j \in kept : At(f, j) = i  BY <1>6, <3>2
    <3>4. j < p  BY <1>2, <1>7, <1>8, <3>2, <3>3
    <3> QED  BY <2>2, <2>3, <3>3, <3>4
  <2>7. r \in Bijection(A, B)  BY <2>4, <2>5, <2>6 DEF Bijection, Injection, Surjection, IsInjective
  <2>8. IsFiniteSet(A)
    <3>1. IsFiniteSet(1..n)  BY <1>1, FS_Interval
    <3> QED  BY <1>5, <2>2, <3>1, FS_Subset
  <2>9. ExistsBijection(A, B)  BY <2>7 DEF ExistsBijection
  <2>10. Cardinality(A) = Cardinality(B)  BY <2>8, <2>9, FS_Bijection
  <2> QED  BY <2>2, <2>10 DEF Rank, Before
<1>10. Cardinality(kept) = Cardinality(DOMAIN g)
  <2>1. PICK r : r = [j \in kept |-> At(f, j)]  OBVIOUS
  <2>2. r \in [kept -> DOMAIN g]  BY <1>7, <2>1
  <2>3. \A j, k \in kept : r[j] = r[k] => j = k
    <3>1. \A j, k \in kept : r[j] = r[k] => Rank(f, At(f, j)) = Rank(f, At(f, k))  BY <2>1
    <3> QED  BY <1>1, <1>7, <3>1
  <2>4. \A i \in DOMAIN g : \E j \in kept : r[j] = i  BY <1>6, <2>1
  <2>5. r \in Bijection(kept, DOMAIN g)
    BY <2>2, <2>3, <2>4 DEF Bijection, Injection, Surjection, IsInjective
  <2>6. ExistsBijection(kept, DOMAIN g)  BY <2>5 DEF ExistsBijection
  <2>7. IsFiniteSet(kept)
    <3>1. IsFiniteSet(1..n)  BY <1>1, FS_Interval
    <3> QED  BY <1>5, <3>1, FS_Subset
  <2> QED  BY <2>6, <2>7, FS_Bijection
<1>11. ASSUME NEW k \in 1..Cardinality(DOMAIN g)
       PROVE  Shown(g[At(g, k)]) = Row(f)[Contract!Nth(kept, k)]
  <2>1. At(g, k) \in DOMAIN g /\ Rank(g, At(g, k)) = k - 1  BY <1>3, Order
  <2>2. PICK p \in kept : At(f, p) = At(g, k)  BY <1>6, <2>1
  <2>3. Cardinality({j \in kept : j < p}) = k - 1  BY <1>9, <2>1, <2>2
  <2>4. PICK q : q = Contract!Nth(kept, k)  OBVIOUS
  <2>5. q \in kept /\ Cardinality({j \in kept : j < q}) = k - 1
    BY <2>2, <2>3, <2>4, SameCount DEF Contract!Nth
  <2>6. Rank(g, At(f, q)) = k - 1 /\ At(f, q) \in DOMAIN g  BY <1>7, <1>9, <2>5
  <2>7. At(g, Rank(g, At(f, q)) + 1) = At(f, q)  BY <1>3, <2>6, Order
  <2>8. Cardinality(DOMAIN g) \in Nat  BY <1>3, Order
  <2>9. (k - 1) + 1 = k  BY <2>8
  <2>10. At(f, q) = At(g, k)  BY <2>6, <2>7, <2>9
  <2>11. q \in 1..n  BY <1>7, <2>5
  <2> QED  BY <1>2, <1>4, <2>1, <2>4, <2>10, <2>11
<1>12. Row(g) = [k \in 1..Cardinality(kept) |-> Row(f)[Contract!Nth(kept, k)]]
  BY <1>10, <1>11 DEF Row
<1> QED  BY <1>0, <1>12 DEF Picked
-----------------------------------------------------------------------------
(* Writes as steps of the contract.                                        *)

\* Each event has a number of its own.
LEMMA EventsGood == BoxOK => Good(event)
BY DEF BoxOK, TypeOK, RecordsOK, Events, Good

\* A box with one event changed.
Changing(b, p, e) ==
  [b EXCEPT !.events = [k \in DOMAIN b.events |-> IF k = p THEN e ELSE b.events[k]]]

\* What a change of one event shows in the box.
LEMMA OneChanges ==
  ASSUME BoxOK, NEW i \in DOMAIN event, DOMAIN event' = DOMAIN event,
         event'[i].seq = event[i].seq, \A j \in DOMAIN event \ {i} : event'[j] = event[j],
         dedup' = dedup
  PROVE  \E p \in DOMAIN Box.events :
           /\ Box.events[p] = Shown(event[i])
           /\ \A k \in DOMAIN Box.events : Box.events[k].letter.id = i <=> k = p
           /\ Box' = Changing(Box, p, Shown(event'[i]))
<1>1. Good(event)  BY EventsGood
<1>2. PICK p \in DOMAIN Row(event) :
        /\ Row(event)[p] = Shown(event[i]) /\ At(event, p) = i
        /\ Row(event') = [k \in DOMAIN Row(event) |->
                            IF k = p THEN Shown(event'[i]) ELSE Row(event)[k]]
  <2>1. PICK f, g, x : f = event /\ g = event' /\ x = i  OBVIOUS
  <2>2. /\ Good(f) /\ DOMAIN g = DOMAIN f /\ x \in DOMAIN f /\ g[x].seq = f[x].seq
        /\ \A j \in DOMAIN f \ {x} : g[j] = f[j]
    BY <1>1, <2>1
  <2>3. \E p \in DOMAIN Row(f) :
          /\ Row(f)[p] = Shown(f[x]) /\ At(f, p) = x
          /\ Row(g) = [k \in DOMAIN Row(f) |-> IF k = p THEN Shown(g[x]) ELSE Row(f)[k]]
    BY <2>2, Changed
  <2> QED  BY <2>1, <2>3
<1>3. PICK n : n = Cardinality(DOMAIN event) /\ n \in Nat  BY <1>1, Order
<1>4. Row(event) = [k \in 1..n |-> Shown(event[At(event, k)])]  BY <1>3 DEF Row
<1>5. ASSUME NEW k \in 1..n  PROVE Row(event)[k].letter.id = i <=> k = p
  <2>1. /\ At(event, k) \in DOMAIN event /\ Rank(event, At(event, k)) = k - 1
        /\ Rank(event, At(event, p)) = p - 1 /\ p \in 1..n
    BY <1>1, <1>2, <1>3, <1>4, Order
  <2>2. Row(event)[k].letter.id = At(event, k)
    BY <1>4, <2>1 DEF Shown, BoxOK, RecordsOK
  <2>3. At(event, k) = i => k = p  BY <1>2, <1>3, <2>1
  <2> QED  BY <1>2, <2>2, <2>3
<1>6. Box.events = Row(event) /\ Box' = [Box EXCEPT !.events = Row(event')]
  BY DEF Box
<1>7. Box' = Changing(Box, p, Shown(event'[i]))  BY <1>2, <1>6 DEF Changing
<1> QED  BY <1>2, <1>4, <1>5, <1>6, <1>7

\* What an event shows once its status is changed.
Showing(letter, status, consumer, lease) ==
  [letter |-> letter, status |-> status, lease |-> lease, consumer |-> consumer]
Marked(e, status, consumer, lease) ==
  [e EXCEPT !.status = status, !.consumer = consumer, !.lease = lease]

\* Marking what an event shows.
LEMMA ChangeShown ==
  ASSUME NEW e, NEW status, NEW consumer, NEW lease
  PROVE  Marked(Shown(e), status, consumer, lease) = Showing(e.letter, status, consumer, lease)
<1>1. PICK b, d, q, s : s = Shown(e)
                        /\ s = [letter |-> e.letter, status |-> b, lease |-> d, consumer |-> q]
  BY DEF Shown
<1>2. PICK g : g = [s EXCEPT !.status = status, !.consumer = consumer, !.lease = lease]
  OBVIOUS
<1>3. DOMAIN g = {"letter", "status", "lease", "consumer"}  BY <1>1, <1>2
<1>4. g = [x \in {"letter", "status", "lease", "consumer"} |-> g[x]]  BY <1>2, <1>3
<1>5. g.letter = e.letter /\ g.status = status  BY <1>1, <1>2
<1>6. g.lease = lease /\ g.consumer = consumer  BY <1>1, <1>2
<1>7. g = [letter |-> e.letter, status |-> status, lease |-> lease, consumer |-> consumer]
  BY <1>4, <1>5, <1>6
<1> QED  BY <1>1, <1>2, <1>7 DEF Marked, Showing

\* Showing an event that was marked.
LEMMA ShowChanged ==
  ASSUME NEW e \in Events, NEW status, NEW consumer, NEW lease,
         NEW who, who = IF consumer = None THEN <<>> ELSE consumer
  PROVE  Shown(Marked(e, status, consumer, lease)) = Showing(e.letter, status, who, lease)
<1>1. PICK g : g = Marked(e, status, consumer, lease)  OBVIOUS
<1>2. g.letter = e.letter /\ g.status = status /\ g.consumer = consumer /\ g.lease = lease
  BY <1>1 DEF Events, Marked
<1>3. Shown(g) = [letter |-> e.letter, status |-> status, lease |-> lease, consumer |-> who]
  BY <1>2 DEF Shown
<1> QED  BY <1>1, <1>3 DEF Showing

\* Changing what is shown is showing what is changed.
LEMMA ShownChange ==
  ASSUME NEW e \in Events, NEW status, NEW consumer, NEW lease,
         NEW who, who = IF consumer = None THEN <<>> ELSE consumer
  PROVE  Shown(Marked(e, status, consumer, lease)) = Marked(Shown(e), status, who, lease)
BY ChangeShown, ShowChanged

\* An append shows as one.
LEMMA AppendStep ==
  ASSUME BoxOK, BoxOK', NEW c \in Clients, WritePut(c)
  PROVE  Contract!AppendLetter
<1>1. Tells(c)  BY PlanIs DEF BoxOK
<1>2. PICK l \in Letters : Plan(c, "put", l, <<<<"return">>>>) /\ l.id \notin DOMAIN dedup
  BY <1>1 DEF Tells, WritePut
<1>3. op(c)[2] = l /\ sequence' = sequence + 1  BY <1>2 DEF Plan, WritePut
<1>4. PICK e : /\ e = [letter |-> l, status |-> "pending", consumer |-> None,
                       lease |-> "none", seq |-> sequence']
               /\ event' = With(event, l.id, e) /\ dedup' = With(dedup, l.id, l.conversation)
  BY <1>3 DEF WritePut
<1>5. /\ l.id \notin DOMAIN event /\ DOMAIN event' = DOMAIN event \cup {l.id}
      /\ event'[l.id] = e /\ \A i \in DOMAIN event : event'[i] = event[i]
      /\ dedup' = [i \in DOMAIN dedup \cup {l.id} |->
                    IF i = l.id THEN l.conversation ELSE dedup[i]]
  BY <1>2, <1>4 DEF With, BoxOK, KeysOK
<1>6. \A i \in DOMAIN event : event[i].seq < event'[l.id].seq
  <2>1. \A i \in DOMAIN event : event[i].seq <= sequence /\ event[i].seq \in Nat
    BY DEF BoxOK, RecordsOK, TypeOK, Events
  <2>2. event'[l.id].seq = sequence + 1 /\ sequence \in Nat
    BY <1>3, <1>4, <1>5 DEF BoxOK, TypeOK
  <2> QED  BY <2>1, <2>2
<1>7. Good(event) /\ Good(event')
  <2>1. Good(event')  BY DEF BoxOK, TypeOK, RecordsOK, Events, Good
  <2> QED  BY <2>1, EventsGood
<1>8. Row(event') = Append(Row(event), Shown(e))
  BY <1>5, <1>6, <1>7, Appended
<1>9. Shown(e) = [letter |-> l, status |-> "pending", consumer |-> <<>>, lease |-> "none"]
  BY <1>4 DEF Shown
<1>10. Contract!Appendable(Box, l)  BY <1>2 DEF Contract!Appendable, Contract!Known, Box
<1>11. Box' = Contract!Deliver(Box, l)
  <2>1. ~Contract!Known(Box, l)  BY <1>2 DEF Contract!Known, Box
  <2>2. Box' = [events |-> Row(event'), ids |-> dedup']  BY DEF Box
  <2> QED  BY <1>5, <1>8, <1>9, <2>1, <2>2 DEF Contract!Deliver, Box
<1> QED  BY <1>10, <1>11 DEF Contract!AppendLetter

\* An event that is marked is marked in the box, and is the only one with its id.
LEMMA MarkStep ==
  ASSUME BoxOK, NEW i \in DOMAIN event, NEW status, NEW consumer, NEW lease,
         Marks(i, status, consumer, lease), dedup' = dedup,
         NEW who, who = IF consumer = None THEN <<>> ELSE consumer
  PROVE  \E p \in DOMAIN Box.events :
           /\ Box.events[p] = Shown(event[i])
           /\ \A k \in DOMAIN Box.events : Box.events[k].letter.id = i <=> k = p
           /\ Box' = Changing(Box, p, Marked(Box.events[p], status, who, lease))
<1>1. /\ DOMAIN event' = DOMAIN event /\ \A j \in DOMAIN event \ {i} : event'[j] = event[j]
      /\ event'[i] = [event[i] EXCEPT !.status = status, !.consumer = consumer,
                                      !.lease = lease]
  BY DEF BoxOK, TypeOK, Marks
<1>2. event[i] \in Events  BY DEF BoxOK, TypeOK
<1>3. event'[i].seq = event[i].seq  BY <1>1, <1>2 DEF Events
<1>4. event'[i] = Marked(event[i], status, consumer, lease)  BY <1>1 DEF Marked
<1>5. Shown(event'[i]) = Marked(Shown(event[i]), status, who, lease)
  BY <1>2, <1>4, ShownChange
<1>6. PICK p \in DOMAIN Box.events :
        /\ Box.events[p] = Shown(event[i])
        /\ \A k \in DOMAIN Box.events : Box.events[k].letter.id = i <=> k = p
        /\ Box' = Changing(Box, p, Shown(event'[i]))
  BY <1>1, <1>3, OneChanges
<1> QED  BY <1>5, <1>6

\* Each lease of a claim shows as a lease of one event that was claimable.
LEMMA LeaseStep ==
  ASSUME BoxOK, NEW c \in Clients, WriteLease(c)
  PROVE  Contract!LeaseOne
<1>1. Tells(c)  BY PlanIs DEF BoxOK
<1>2. PICK ids \in SUBSET Ids : Plan(c, "lease", ids, <<<<"return">>>>) /\ Open(ids)
  BY <1>1 DEF Tells, WriteLease
<1>3. PICK i \in ids :
        event' = [event EXCEPT ![i].status = "leased", ![i].consumer = c, ![i].lease = "held"]
  BY <1>2 DEF Plan, WriteLease, Front
<1>4. i \in DOMAIN event /\ Claimable(event[i]) /\ dedup' = dedup
  BY <1>2 DEF Open, WriteLease
<1>5. Marks(i, "leased", c, "held") /\ c = IF c = None THEN <<>> ELSE c
  BY <1>3, <1>4, NoneAssumption DEF Marks
<1>6. PICK p \in DOMAIN Box.events :
        /\ Box.events[p] = Shown(event[i])
        /\ Box' = Changing(Box, p, Marked(Box.events[p], "leased", c, "held"))
  BY <1>4, <1>5, MarkStep
<1>7. Contract!Claimable(Box.events[p])
  BY <1>4, <1>6 DEF Contract!Claimable, Claimable, Shown
<1>8. Box' = Contract!Lease(Box, {p}, c)
  <2>1. PICK b : b = Box  OBVIOUS
  <2>2. Changing(b, p, Marked(b.events[p], "leased", c, "held")) = Contract!Lease(b, {p}, c)
    BY DEF Changing, Marked, Contract!Lease
  <2> QED  BY <1>6, <2>1, <2>2
<1> QED  BY <1>6, <1>7, <1>8 DEF Contract!LeaseOne

\* What a call selects by the id of one event.
LEMMA SelectOne ==
  ASSUME BoxOK, NEW i \in DOMAIN event, NEW p \in DOMAIN Box.events,
         Box.events[p] = Shown(event[i]),
         \A k \in DOMAIN Box.events : Box.events[k].letter.id = i <=> k = p
  PROVE  \E l \in Letters :
           Contract!Selected(Box, l.conversation, {l.id}) = {p} /\ l.id = i
<1>1. PICK l \in Letters : l = event[i].letter /\ l.id = i
  BY DEF BoxOK, TypeOK, RecordsOK, Events
<1>2. Box.events[p].letter = l  BY <1>1 DEF Shown
<1>3. PICK b : b = Box  OBVIOUS
<1>4. Contract!Selected(b, l.conversation, {l.id}) = {p}
  BY <1>1, <1>2, <1>3 DEF Contract!Selected, Contract!In
<1> QED  BY <1>1, <1>3, <1>4

\* Each acknowledgement shows as one, or not at all when it was acknowledged before.
LEMMA AcknowledgeStep ==
  ASSUME BoxOK, NEW c \in Clients, WriteAcknowledge(c)
  PROVE  Contract!AcknowledgeOne \/ UNCHANGED Box
<1>1. Tells(c) /\ dedup' = dedup  BY PlanIs DEF BoxOK, WriteAcknowledge
<1>2. PICK how \in {"acknowledge", "force"} : Is(c, how)  BY DEF WriteAcknowledge
<1>3. PICK ids \in SUBSET Ids :
        Plan(c, how, ids, <<<<"settled">>>>) /\ ids \subseteq DOMAIN event
  BY <1>1, <1>2 DEF Tells
<1>4. PICK i \in ids :
        \/ event' = event
        \/ /\ event[i].status # "acknowledged"
           /\ event' = [event EXCEPT ![i].status = "acknowledged", ![i].consumer = None,
                                     ![i].lease = "none"]
  BY <1>3 DEF Plan, WriteAcknowledge
<1>5. CASE event' = event  BY <1>1, <1>5 DEF Box
<1>6. CASE /\ event[i].status # "acknowledged"
           /\ event' = [event EXCEPT ![i].status = "acknowledged", ![i].consumer = None,
                                     ![i].lease = "none"]
  <2>1. /\ i \in DOMAIN event /\ <<>> = IF None = None THEN <<>> ELSE None
        /\ Marks(i, "acknowledged", None, "none")
    BY <1>1, <1>3, <1>6 DEF Marks
  <2>2. PICK p \in DOMAIN Box.events :
          /\ Box.events[p] = Shown(event[i])
          /\ \A k \in DOMAIN Box.events : Box.events[k].letter.id = i <=> k = p
          /\ Box' = Changing(Box, p, Marked(Box.events[p], "acknowledged", <<>>, "none"))
    BY <1>1, <2>1, MarkStep
  <2>3. PICK l \in Letters : Contract!Selected(Box, l.conversation, {l.id}) = {p}
    BY <2>1, <2>2, SelectOne
  <2>4. Box.events[p].status # "acknowledged"  BY <1>6, <2>2 DEF Shown
  <2>5. PICK b : b = Box  OBVIOUS
  <2>6. Changing(b, p, Marked(b.events[p], "acknowledged", <<>>, "none"))
          = Contract!Acknowledge(b, l.conversation, {l.id})
    <3>1. {k \in Contract!Selected(b, l.conversation, {l.id}) :
             b.events[k].status # "acknowledged"} = {p}
      BY <2>3, <2>4, <2>5
    <3> QED  BY <3>1 DEF Changing, Marked, Contract!Acknowledge
  <2> QED  BY <2>2, <2>5, <2>6 DEF Contract!AcknowledgeOne
<1> QED  BY <1>4, <1>5, <1>6

\* Each release shows as one by its live lease.
LEMMA ReleaseStep ==
  ASSUME BoxOK, NEW c \in Clients, WriteRelease(c)
  PROVE  Contract!ReleaseOne \/ UNCHANGED Box
<1>1. Tells(c) /\ Is(c, "release") /\ dedup' = dedup  BY PlanIs DEF BoxOK, WriteRelease
<1>2. PICK ids \in SUBSET Ids :
        Plan(c, "release", ids, <<<<"settled">>>>) /\ ids \subseteq DOMAIN event
  BY <1>1 DEF Tells
<1>3. PICK i \in ids : event' = event \/ (Holds(c, i) /\ Released(i))
  BY <1>2 DEF Plan, WriteRelease
<1>4. CASE event' = event  BY <1>1, <1>4 DEF Box
<1>5. CASE Holds(c, i) /\ Released(i)
  <2>1. /\ i \in DOMAIN event /\ <<>> = IF None = None THEN <<>> ELSE None
        /\ Marks(i, "pending", None, "none")
    BY <1>1, <1>2, <1>5 DEF Released, Marks
  <2>2. PICK p \in DOMAIN Box.events :
          /\ Box.events[p] = Shown(event[i])
          /\ \A k \in DOMAIN Box.events : Box.events[k].letter.id = i <=> k = p
          /\ Box' = Changing(Box, p, Marked(Box.events[p], "pending", <<>>, "none"))
    BY <1>1, <2>1, MarkStep
  <2>3. PICK l \in Letters :
          Contract!Selected(Box, l.conversation, {l.id}) = {p} /\ l.id = i
    BY <2>1, <2>2, SelectOne
  <2>4. /\ Box.events[p].status = "leased" /\ Box.events[p].lease = "held"
        /\ Box.events[p].consumer = c
    BY <1>5, <2>2, NoneAssumption DEF Holds, Shown
  <2>5. PICK b : b = Box  OBVIOUS
  <2>6. Changing(b, p, Marked(b.events[p], "pending", <<>>, "none"))
          = Contract!Release(b, l.conversation, {l.id})
    <3>1. Contract!Selected(b, l.conversation, {l.id}) = {p}  BY <2>3, <2>5
    <3> QED  BY <3>1 DEF Changing, Marked, Contract!Release
  <2>7. Contract!MaySettle(Box, l.conversation, {l.id}, c)
    <3>1. Contract!LetterIds(b, {p}) = {l.id}
      BY <2>2, <2>3, <2>5 DEF Contract!LetterIds
    <3> QED  BY <2>3, <2>4, <2>5, <3>1 DEF Contract!MaySettle
  <2> QED  BY <2>2, <2>5, <2>6, <2>7 DEF Contract!ReleaseOne
<1> QED  BY <1>3, <1>4, <1>5

\* A purge drops acknowledged events, and shows in its pipeline only.
LEMMA PurgeStep ==
  ASSUME BoxOK, NEW c \in Clients, WritePurge(c)
  PROVE  Contract!PurgeLetters \/ UNCHANGED Box
<1>1. Tells(c) /\ dedup' = dedup  BY PlanIs DEF BoxOK, WritePurge
<1>2. CASE Is(c, "drop")
  <2>1. PICK ids, rest : Spent(ids) /\ Plan(c, "drop", ids, rest)
    BY <1>1, <1>2 DEF Tells
  <2>2. event' = [i \in DOMAIN event \ ids |-> event[i]]
    BY <1>2, <2>1 DEF Plan, WritePurge, Is
  <2>3. Good(event)  BY EventsGood
  <2>4. PICK n : n = Cardinality(DOMAIN event) /\ n \in Nat  BY <2>3, Order
  <2>5. Row(event) = [k \in 1..n |-> Shown(event[At(event, k)])]  BY <2>4 DEF Row
  <2>6. PICK gone : gone = {k \in DOMAIN Row(event) : At(event, k) \in ids}  OBVIOUS
  <2>7. DOMAIN Row(event) \ gone = {k \in DOMAIN Row(event) : At(event, k) \notin ids}
    BY <2>6
  <2>8. Row(event') = Picked(Row(event), DOMAIN Row(event) \ gone)
    <3>1. event' = Without(event, ids) /\ DOMAIN Row(event) \ gone = Left(event, ids)
      BY <2>2, <2>7 DEF Without, Left
    <3> QED  BY <2>3, <3>1, Removed
  <2>9. gone \subseteq Contract!Purgeable(Box, {l.conversation : l \in Letters})
    <3>1. ASSUME NEW k \in gone
          PROVE  /\ k \in DOMAIN Row(event) /\ Row(event)[k].status = "acknowledged"
                 /\ Row(event)[k].letter \in Letters
      <4>1. k \in 1..n /\ At(event, k) \in DOMAIN event /\ event[At(event, k)].status = "acknowledged"
        BY <2>1, <2>5, <2>6 DEF Spent
      <4>2. event[At(event, k)] \in Events  BY <4>1 DEF BoxOK, TypeOK
      <4> QED  BY <2>5, <4>1, <4>2 DEF Shown, Events
    <3>2. Box.events = Row(event)  BY DEF Box
    <3>3. PICK b : b = Box  OBVIOUS
    <3>4. gone \subseteq Contract!Purgeable(b, {l.conversation : l \in Letters})
      BY <3>1, <3>2, <3>3 DEF Contract!Purgeable
    <3> QED  BY <3>3, <3>4
  <2>10. Box' = Contract!PurgeAcknowledged(Box, gone)
    <3>1. PICK b, r, d : b = Box /\ r = Row(event) /\ d = dedup /\ b = [events |-> r, ids |-> d]
      BY DEF Box
    <3>2. PICK kept : kept = DOMAIN r \ gone  OBVIOUS
    <3>3. Contract!PurgeAcknowledged(b, gone)
            = [events |-> [k \in 1..Contract!Cardinality(kept) |-> r[Contract!Nth(kept, k)]],
               ids |-> d]
      <4>1. PICK x : x = [k \in 1..Contract!Cardinality(DOMAIN b.events \ gone) |->
                            b.events[Contract!Nth(DOMAIN b.events \ gone, k)]]
        OBVIOUS
      <4>2. Contract!PurgeAcknowledged(b, gone) = [b EXCEPT !.events = x]
        BY <4>1 DEF Contract!PurgeAcknowledged
      <4>3. [b EXCEPT !.events = x] = [events |-> x, ids |-> d]  BY <3>1
      <4>4. b.events = r  BY <3>1
      <4>5. x = [k \in 1..Contract!Cardinality(kept) |-> r[Contract!Nth(kept, k)]]
        BY <3>2, <4>1, <4>4
      <4> QED  BY <4>2, <4>3, <4>5
    <3>4. Contract!Cardinality(kept) = Cardinality(kept)  BY SameCount
    <3>5. Box' = [events |-> [k \in 1..Cardinality(kept) |-> r[Contract!Nth(kept, k)]], ids |-> d]
      <4>1. Row(event') = Picked(r, kept)  BY <2>8, <3>1, <3>2
      <4>2. Box' = [events |-> Picked(r, kept), ids |-> d]  BY <1>1, <3>1, <4>1 DEF Box
      <4> QED  BY <4>2 DEF Picked
    <3> QED  BY <3>1, <3>3, <3>4, <3>5
  <2> QED  BY <2>9, <2>10 DEF Contract!PurgeLetters
<1>3. CASE ~Is(c, "drop")  BY <1>1, <1>3 DEF WritePurge, Box
<1> QED  BY <1>2, <1>3

\* Keys are forgotten of events that are gone.
LEMMA ForgetStep ==
  ASSUME BoxOK, NEW c \in Clients, WriteForget(c)
  PROVE  Contract!PurgeKeys
<1>1. Tells(c)  BY PlanIs DEF BoxOK
<1>2. PICK ids \in SUBSET Ids :
        Plan(c, "forget", ids, <<<<"return">>>>) /\ ids \cap DOMAIN event = {}
  BY <1>1 DEF Tells, WriteForget
<1>3. dedup' = [i \in DOMAIN dedup \ ids |-> dedup[i]] /\ event' = event
  BY <1>2 DEF Plan, WriteForget
<1>4. PICK gone : gone = ids \cap DOMAIN dedup  OBVIOUS
<1>5. gone \subseteq Contract!Tombstones(Box)
  <2>1. PICK n : n = Cardinality(DOMAIN event) /\ n \in Nat  BY EventsGood, Order
  <2>2. Row(event) = [k \in 1..n |-> Shown(event[At(event, k)])]  BY <2>1 DEF Row
  <2>3. \A k \in DOMAIN Row(event) :
          /\ At(event, k) \in DOMAIN event /\ Row(event)[k].letter = event[At(event, k)].letter
    BY <2>1, <2>2, EventsGood, Order DEF Shown
  <2>4. \A k \in DOMAIN Row(event) : Row(event)[k].letter.id \in DOMAIN event
    BY <2>3 DEF BoxOK, RecordsOK
  <2>5. Box.events = Row(event) /\ Box.ids = dedup  BY DEF Box
  <2>6. PICK b : b = Box  OBVIOUS
  <2>7. gone \subseteq Contract!Tombstones(b)
    BY <1>2, <1>4, <2>4, <2>5, <2>6 DEF Contract!Tombstones
  <2> QED  BY <2>6, <2>7
<1>6. Box' = Contract!Forget(Box, gone)
  <2>1. PICK b, r, d : b = Box /\ r = Row(event) /\ d = dedup /\ b = [events |-> r, ids |-> d]
    BY DEF Box
  <2>2. Contract!Forget(b, gone) = [events |-> r, ids |-> [i \in DOMAIN d \ gone |-> d[i]]]
    BY <2>1 DEF Contract!Forget
  <2>3. DOMAIN d \ gone = DOMAIN d \ ids  BY <1>4, <2>1
  <2>4. Box' = [events |-> r, ids |-> [i \in DOMAIN d \ ids |-> d[i]]]
    BY <1>3, <2>1 DEF Box
  <2> QED  BY <2>1, <2>2, <2>3, <2>4
<1> QED  BY <1>5, <1>6 DEF Contract!PurgeKeys

\* A lease that runs out shows as that.
LEMMA ClockStep ==
  ASSUME BoxOK, NEW i \in Ids, LeaseExpires(i)
  PROVE  Contract!Clock
<1>1. /\ i \in DOMAIN event /\ event[i].lease = "held" /\ dedup' = dedup
      /\ event' = [event EXCEPT ![i].lease = "expired"]
  BY DEF LeaseExpires
<1>2. /\ DOMAIN event' = DOMAIN event /\ \A j \in DOMAIN event \ {i} : event'[j] = event[j]
      /\ event'[i] = [event[i] EXCEPT !.lease = "expired"]
  BY <1>1 DEF BoxOK, TypeOK
<1>3. PICK e, g : e = event[i] /\ e \in Events /\ g = event'[i]  BY <1>1 DEF BoxOK, TypeOK
<1>4. /\ g.seq = e.seq /\ g.letter = e.letter /\ g.status = e.status
      /\ g.consumer = e.consumer /\ g.lease = "expired"
  BY <1>2, <1>3 DEF Events
<1>5. Shown(g) = [Shown(e) EXCEPT !.lease = "expired"]  BY <1>4 DEF Shown
<1>6. event'[i].seq = event[i].seq  BY <1>3, <1>4
<1>7. PICK p \in DOMAIN Box.events :
        Box.events[p] = Shown(event[i]) /\ Box' = Changing(Box, p, Shown(event'[i]))
  BY <1>1, <1>2, <1>6, OneChanges
<1>8. Box.events[p].lease = "held"  BY <1>1, <1>7 DEF Shown
<1>9. Box' = [Box EXCEPT !.events[p].lease = "expired"]
  <2>1. PICK b, s : b = Box /\ s = b.events /\ s = [k \in DOMAIN s |-> s[k]] /\ p \in DOMAIN s
    BY <1>7 DEF Box, Row
  <2>2. PICK h : h = [s[p] EXCEPT !.lease = "expired"]  OBVIOUS
  <2>3. [s EXCEPT ![p].lease = "expired"] = [k \in DOMAIN s |-> IF k = p THEN h ELSE s[k]]
    BY <2>1, <2>2
  <2>4. [b EXCEPT !.events[p].lease = "expired"]
          = [b EXCEPT !.events = [s EXCEPT ![p].lease = "expired"]]
    BY <2>1
  <2>5. Changing(b, p, h) = [b EXCEPT !.events[p].lease = "expired"]
    BY <2>1, <2>3, <2>4 DEF Changing
  <2>6. Shown(event'[i]) = h  BY <1>3, <1>5, <1>7, <2>1, <2>2
  <2> QED  BY <1>7, <2>1, <2>5, <2>6
<1> QED  BY <1>7, <1>8, <1>9 DEF Contract!Clock

\* The box is empty at first.
LEMMA BoxStarts == Init => Contract!Init
<1>1. SUFFICES ASSUME Init  PROVE Contract!Init
  OBVIOUS
<1>2. event = <<>> /\ dedup = <<>> /\ DOMAIN event = {}  BY <1>1 DEF Init
<1>3. Cardinality({}) = 0  BY FS_EmptySet
<1>4. Row(event) = [k \in 1..0 |-> Shown(event[At(event, k)])]  BY <1>2, <1>3 DEF Row
<1>5. Row(event) = <<>>  BY <1>4
<1> QED  BY <1>2, <1>5 DEF Box, Contract!Init, Contract!EmptyBox

\* Every step of the keys is a step of the box or leaves it alone.
LEMMA BoxSteps == BoxOK /\ BoxOK' /\ [Next]_vars => [Contract!Next]_Box
<1>1. SUFFICES ASSUME BoxOK, BoxOK', [Next]_vars  PROVE Contract!Next \/ UNCHANGED Box
  OBVIOUS
<1>2. CASE UNCHANGED <<event, dedup>>  BY <1>2 DEF Box
<1>3. ASSUME NEW c \in Clients, Step(c)  PROVE Contract!Next \/ UNCHANGED Box
  <2>1. CASE WritePut(c)  BY <1>1, <2>1, AppendStep DEF Contract!Next
  <2>2. CASE WriteLease(c)  BY <1>1, <2>2, LeaseStep DEF Contract!Next
  <2>3. CASE WriteAcknowledge(c)  BY <1>1, <2>3, AcknowledgeStep DEF Contract!Next
  <2>4. CASE WriteRelease(c)  BY <1>1, <2>4, ReleaseStep DEF Contract!Next
  <2>5. CASE WritePurge(c)  BY <1>1, <2>5, PurgeStep DEF Contract!Next
  <2>6. CASE WriteForget(c)  BY <1>1, <2>6, ForgetStep DEF Contract!Next
  <2>7. CASE Return(c)  BY <1>2, <2>7 DEF Return, keys
  <2> QED  BY <1>3, <2>1, <2>2, <2>3, <2>4, <2>5, <2>6, <2>7 DEF Step
<1>4. ASSUME NEW c,
             \/ ClaimAny(c) \/ Release(c) \/ Die(c) \/ (\E k \in Conversations : Claim(c, k))
             \/ (\E force \in BOOLEAN : Acknowledge(c, force))
             \/ ForgetKeys(c) \/ (\E l \in Letters : Put(c, l))
             \/ \E cs \in {Conversations} \cup {{k} : k \in Conversations} :
                  PurgeAcknowledged(c, cs)
      PROVE  UNCHANGED <<event, dedup>>
  BY <1>4 DEF ClaimAny, Release, Die, Claim, Acknowledge, ForgetKeys, Put, PurgeAcknowledged,
              Enter, keys
<1>5. CASE LockTimesOut  BY <1>2, <1>5 DEF LockTimesOut, keys
<1>6. ASSUME NEW i \in Ids, LeaseExpires(i)  PROVE Contract!Next
  BY <1>1, <1>6, ClockStep DEF Contract!Next
<1>7. CASE UNCHANGED vars  BY <1>2, <1>7 DEF vars, keys
<1> QED  BY <1>1, <1>2, <1>3, <1>4, <1>5, <1>6, <1>7 DEF Next

\* The Redis keys are at all times the box of the mailbox contract
\* (ImplementsMailbox): whatever a client that died in the middle of a call left
\* behind is a state a shorter call leaves, for any clients, letters and limit.
THEOREM MailboxImplemented == Spec => ImplementsMailbox
<1>1. Init => Contract!Init  BY BoxStarts
<1>2. BoxOK /\ BoxOK' /\ [Next]_vars => [Contract!Next]_Box  BY BoxSteps
<1>3. Init => BoxOK  BY BoxFirst
<1>4. BoxOK /\ [Next]_vars => BoxOK'  BY BoxKept
<1> QED  BY <1>1, <1>2, <1>3, <1>4, PTL DEF Spec, ImplementsMailbox, Contract!Spec
=============================================================================
