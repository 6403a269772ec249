------------------------- MODULE LearnerContextProofs -------------------------
(***************************************************************************)
(* Proofs about LearnerContext for every number of clients, essays and     *)
(* updates, and whatever does not go as advised.                           *)
(***************************************************************************)
EXTENDS LearnerContext, FiniteSetTheorems, TLAPS

(***************************************************************************)
(* The inductive invariant.  The transactions of the learner are ordered   *)
(* by their beginning; the update that applies a practice began after the  *)
(* practice's own was committed, so the latest created one is not applied. *)
(* What a client was advised to do may be late, but never becomes wrong.   *)
(***************************************************************************)
Before(x, y) == \E i, j \in DOMAIN created : i < j /\ created[i] = x /\ created[j] = y

\* Each committed update and each open transaction has one place in the order.
Ordered ==
    /\ created \in Seq(DOMAIN updates \cup Open)
    /\ \A i, j \in DOMAIN created : created[i] = created[j] => i = j
    /\ \A x \in DOMAIN updates \cup Open : \E i \in DOMAIN created : created[i] = x

\* One of the committed updates is the last of them.
LastAt(i) == CommittedAt(i) /\ \A j \in DOMAIN created : i < j => ~CommittedAt(j)
Newest == updates # << >> => \E i \in DOMAIN created : LastAt(i)

\* There is room for what the open transactions may commit.
Reserved == IsFiniteSet(Open) /\ Len(updates) + Cardinality(Open) <= MaxUpdates

\* An applied practice belongs to an update that another one came after.
Overcome(n) == \E m \in DOMAIN updates : Before(n, m)
Superseded == \A n \in Numbers : applied[n] = "own" => Overcome(n)

Concerned(c) ==
    \/ client[c].step \in {"practice", "completion", "evaluating"}
    \/ Advised(c, {"generate_practice", "submit_practice", "await_submission",
                   "complete_practice"})

\* What the client is told about, or has begun, is there.
Guided(c) ==
    LET q == client[c] n == q.update IN
    /\ Concerned(c) => n \in DOMAIN updates
    /\ At(c, "evaluating") \/ MayClaim(c) => practice[n].state # "none"
    /\ At(c, "completion") \/ Advised(c, {"complete_practice"})
         => practice[n].state = "submitted"
    /\ At(c, "applying") /\ q.source # 0
         => q.source = n /\ n \in DOMAIN updates /\ Before(n, c)

\* A practice that was open when its update was read is applied by a later update.
Reading(c) == At(c, "practice") \/ At(c, "completion") \/ client[c].error = "invariant_error"
Overtaken(c) ==
    LET q == client[c] n == q.update IN
    /\ q.known <= Len(updates)
    /\ Reading(c) /\ applied[n] = "own" => q.known < Len(updates)

\* The errors a client is left with.
Told(c) ==
    LET q == client[c] n == q.update IN
    /\ q.error # None => q.step = "idle" /\ q.error \notin {"not_found", "not_submitted"}
    /\ q.error = "invariant_error" => n \in DOMAIN updates /\ applied[n] # None
    /\ q.error = "cross_owner" => n \in Numbers /\ applied[n] = "other"

Sound(c) == Guided(c) /\ Overtaken(c) /\ Told(c)
Timeline == Ordered /\ Newest /\ Reserved /\ Superseded

IInv == TypeOK /\ Timeline /\ \A c \in Clients : Sound(c)

-----------------------------------------------------------------------------
(***************************************************************************)
(* The order of transactions                                               *)
(***************************************************************************)

\* Updates are numbered from 1 without a gap, and no client is a number.
LEMMA Numbering ==
    ASSUME TypeOK
    PROVE  /\ Len(updates) \in Nat /\ DOMAIN updates = 1..Len(updates)
           /\ DOMAIN updates \subseteq Numbers /\ Clients \cap Numbers = {}
           /\ Open \subseteq Clients /\ 0 \notin Numbers
<1>1. updates \in Seq(Decisions) /\ Len(updates) <= MaxUpdates
  BY DEF TypeOK
<1>2. Len(updates) \in Nat /\ DOMAIN updates = 1..Len(updates)
  BY <1>1
<1>3. DOMAIN updates \subseteq Numbers
  BY <1>1, <1>2, BoundAssumption DEF Numbers
<1>4. Clients \cap Numbers = {} /\ Open \subseteq Clients
  BY ClientAssumption DEF Open, Numbers
<1>5. 0 \notin Numbers
  BY BoundAssumption DEF Numbers
<1> QED
  BY <1>2, <1>3, <1>4, <1>5

\* A place in the order holds a committed update or an open transaction, and the latter is what
\* is not a number.
LEMMA Places ==
    ASSUME TypeOK, Ordered
    PROVE  /\ Len(created) \in Nat /\ DOMAIN created = 1..Len(created)
           /\ \A i \in DOMAIN created : created[i] \in DOMAIN updates \cup Open
           /\ \A i \in DOMAIN created : CommittedAt(i) <=> created[i] \in DOMAIN updates
<1>1. created \in Seq(DOMAIN updates \cup Open)
  BY DEF Ordered
<1>2. Len(created) \in Nat /\ DOMAIN created = 1..Len(created)
  BY <1>1
<1>3. ASSUME NEW i \in DOMAIN created PROVE created[i] \in DOMAIN updates \cup Open
  BY <1>1, <1>3
<1>4. ASSUME NEW i \in DOMAIN created PROVE CommittedAt(i) <=> created[i] \in DOMAIN updates
  BY <1>3, Numbering DEF CommittedAt
<1> QED
  BY <1>2, <1>3, <1>4

\* The latest created update is the one no committed update comes after.
LEMMA LatestIsLast ==
    ASSUME TypeOK, Ordered, Newest
    PROVE  /\ updates = << >> => LatestCreated = 0
           /\ updates # << >> => LatestCreated \in DOMAIN updates /\ ~Overcome(LatestCreated)
<1>1. updates = << >> => LatestCreated = 0
  BY DEF LatestCreated
<1>2. ASSUME updates # << >>
      PROVE  LatestCreated \in DOMAIN updates /\ ~Overcome(LatestCreated)
  <2> DEFINE P(k) == CommittedAt(k) /\ \A j \in (k + 1)..Len(created) : ~CommittedAt(j)
  <2>1. \E k \in DOMAIN created : P(k)
    <3>1. PICK k \in DOMAIN created : LastAt(k)
      BY <1>2 DEF Newest
    <3>2. \A j \in (k + 1)..Len(created) : j \in DOMAIN created /\ k < j
      BY <3>1, Places
    <3> QED
      BY <3>1, <3>2 DEF LastAt
  <2>2. PICK k \in DOMAIN created : P(k) /\ LatestCreated = created[k]
    BY <1>2, <2>1 DEF LatestCreated
  <2>3. created[k] \in DOMAIN updates
    BY <2>2, Places
  <2>4. ASSUME NEW m \in DOMAIN updates, Before(created[k], m) PROVE FALSE
    <3>1. PICK i, j \in DOMAIN created : i < j /\ created[i] = created[k] /\ created[j] = m
      BY <2>4 DEF Before
    <3>2. i = k
      BY <3>1 DEF Ordered
    <3>3. CommittedAt(j)
      BY <2>4, <3>1, Places
    <3>4. j \in (k + 1)..Len(created)
      BY <3>1, <3>2, Places
    <3> QED
      BY <2>2, <3>3, <3>4
  <2> QED
    BY <2>2, <2>3, <2>4 DEF Overcome
<1> QED
  BY <1>1, <1>2

\* A transaction that begins takes the last place.
LEMMA BeginOrders ==
    ASSUME TypeOK, Ordered, Newest, NEW c \in Clients, c \notin Open,
           created' = Append(created, c), UNCHANGED updates, Open' = Open \cup {c}
    PROVE  /\ Ordered' /\ Newest'
           /\ \A x, y : Before(x, y) => Before(x, y)'
           /\ \A n \in DOMAIN updates : Before(n, c)'
<1> DEFINE L == Len(created)
           S == DOMAIN updates \cup Open
<1>1. created \in Seq(S) /\ L \in Nat /\ DOMAIN created = 1..L
  BY Places DEF Ordered
<1>2. /\ Len(created') = L + 1 /\ DOMAIN created' = 1..(L + 1)
      /\ \A i \in 1..L : created'[i] = created[i]
      /\ created'[L + 1] = c
  <2>1. created \in Seq(S \cup {c})
    BY <1>1
  <2> HIDE DEF S
  <2> QED
    BY <1>1, <2>1
<1>3. /\ 1..(L + 1) = 1..L \cup {L + 1} /\ L + 1 \notin 1..L
      /\ \A i \in 1..L : i < L + 1
  BY <1>1
<1>4. created' \in Seq((DOMAIN updates \cup Open)')
  <2>1. created \in Seq(S \cup {c}) /\ c \in S \cup {c}
    BY <1>1
  <2> HIDE DEF S
  <2>2. created' \in Seq(S \cup {c})
    BY <2>1
  <2> QED
    BY <2>2 DEF S
<1>5. c \notin DOMAIN updates
  BY Numbering
<1>6. \A i \in 1..L : created[i] \in S
  BY <1>1
<1> HIDE DEF L
<1>7. ASSUME NEW i \in DOMAIN created', NEW j \in DOMAIN created', created'[i] = created'[j]
      PROVE  i = j
  <2>1. CASE i \in 1..L /\ j \in 1..L
    BY <1>1, <1>2, <1>7, <2>1 DEF Ordered
  <2>2. \A k \in 1..L : created'[k] # c
    BY <1>2, <1>5, <1>6
  <2> QED
    BY <1>2, <1>3, <1>7, <2>1, <2>2
<1>8. ASSUME NEW x \in (DOMAIN updates \cup Open)'
      PROVE  \E i \in DOMAIN created' : created'[i] = x
  <2>1. CASE x = c
    BY <1>2, <1>3, <2>1
  <2>2. CASE x # c
    <3>1. PICK i \in DOMAIN created : created[i] = x
      BY <2>2 DEF Ordered
    <3> QED
      BY <1>1, <1>2, <1>3, <3>1
  <2> QED
    BY <2>1, <2>2
<1>9. Ordered'
  BY <1>4, <1>7, <1>8 DEF Ordered
<1>10. Newest'
  <2> SUFFICES ASSUME updates # << >> PROVE \E i \in DOMAIN created' : LastAt(i)'
    BY DEF Newest
  <2>1. PICK i \in DOMAIN created : LastAt(i)
    BY DEF Newest
  <2>2. c \notin Numbers
    BY Numbering
  <2>3. created'[i] \in Numbers
    BY <1>1, <1>2, <2>1 DEF LastAt, CommittedAt
  <2>4. ASSUME NEW j \in DOMAIN created', i < j PROVE created'[j] \notin Numbers
    BY <1>1, <1>2, <1>3, <2>1, <2>2, <2>4 DEF LastAt, CommittedAt
  <2> QED
    BY <1>1, <1>2, <1>3, <2>3, <2>4 DEF LastAt, CommittedAt
<1>11. \A x, y : Before(x, y) => Before(x, y)'
  BY <1>1, <1>2, <1>3 DEF Before
<1>12. ASSUME NEW n \in DOMAIN updates PROVE Before(n, c)'
  <2>1. PICK i \in DOMAIN created : created[i] = n
    BY DEF Ordered
  <2>2. i < L + 1 /\ created'[i] = n /\ i \in DOMAIN created' /\ L + 1 \in DOMAIN created'
    BY <1>1, <1>2, <1>3, <2>1
  <2> QED
    BY <1>2, <2>2 DEF Before
<1> QED
  BY <1>9, <1>10, <1>11, <1>12

\* A transaction that is rolled back leaves the order of the others.
LEMMA CloseOrders ==
    ASSUME TypeOK, Ordered, Newest, NEW c \in Open,
           created' = Without(c), UNCHANGED updates, Open' = Open \ {c}
    PROVE  /\ Ordered' /\ Newest'
           /\ \A x, y : x # c /\ y # c /\ Before(x, y) => Before(x, y)'
<1> DEFINE L == Len(created)
           place == CHOOSE i \in DOMAIN created : created[i] = c
           Old(i) == IF i < place THEN i ELSE i + 1
           New(i) == IF i < place THEN i ELSE i - 1
<1>1. L \in Nat /\ DOMAIN created = 1..L
  BY Places
<1>2. place \in 1..L /\ created[place] = c
  BY <1>1 DEF Ordered
<1>3. created' = [i \in 1..(L - 1) |-> created[Old(i)]]
  BY DEF Without
<1>4. DOMAIN created' = 1..(L - 1) /\ \A i \in 1..(L - 1) : created'[i] = created[Old(i)]
  BY <1>3
<1> HIDE DEF L, place
<1>5. /\ \A i \in 1..(L - 1) : Old(i) \in 1..L /\ Old(i) # place
      /\ \A i, j \in 1..(L - 1) : i < j <=> Old(i) < Old(j)
      /\ \A i, j \in 1..(L - 1) : Old(i) = Old(j) => i = j
  BY <1>1, <1>2
<1>6. \A i \in 1..L : i # place => New(i) \in 1..(L - 1) /\ Old(New(i)) = i
  BY <1>1, <1>2
<1> HIDE DEF Old, New
<1>7. \A i \in 1..L : i # place => created[i] # c
  BY <1>1, <1>2 DEF Ordered
<1>8. \A i \in 1..(L - 1) : created'[i] \in (DOMAIN updates \cup Open)'
  BY <1>1, <1>4, <1>5, <1>7, Places
<1>9. Len(created') = L - 1 /\ created' \in Seq((DOMAIN updates \cup Open)')
  <2> DEFINE S == (DOMAIN updates \cup Open)'
  <2>1. L - 1 \in Nat
    BY <1>1, <1>2
  <2>2. created' \in [1..(L - 1) -> S]
    BY <1>3, <1>4, <1>8
  <2> HIDE DEF S
  <2> QED
    BY <2>1, <2>2 DEF S
<1>10. ASSUME NEW i \in DOMAIN created', NEW j \in DOMAIN created', created'[i] = created'[j]
       PROVE  i = j
  BY <1>1, <1>4, <1>5, <1>10 DEF Ordered
<1>11. ASSUME NEW x \in (DOMAIN updates \cup Open)'
       PROVE  \E i \in DOMAIN created' : created'[i] = x
  <2>1. x \in DOMAIN updates \cup Open /\ x # c
    BY Numbering
  <2>2. PICK i \in DOMAIN created : created[i] = x
    BY <2>1 DEF Ordered
  <2>3. i # place /\ i \in 1..L
    BY <1>1, <1>2, <2>1, <2>2
  <2> QED
    BY <1>4, <1>6, <2>2, <2>3
<1>12. Ordered'
  BY <1>9, <1>10, <1>11 DEF Ordered
<1>13. \A i \in 1..L : i # place => New(i) \in DOMAIN created' /\ created'[New(i)] = created[i]
  BY <1>4, <1>6
<1>14. \A i, j \in 1..L : i # place /\ j # place /\ i < j => New(i) < New(j)
  BY <1>5, <1>6
<1>15. ASSUME NEW x, NEW y, x # c, y # c, Before(x, y) PROVE Before(x, y)'
  <2>1. PICK i, j \in DOMAIN created : i < j /\ created[i] = x /\ created[j] = y
    BY <1>15 DEF Before
  <2>2. i # place /\ j # place /\ i \in 1..L /\ j \in 1..L
    BY <1>1, <1>2, <1>15, <2>1
  <2>3. /\ New(i) < New(j) /\ New(i) \in DOMAIN created' /\ New(j) \in DOMAIN created'
        /\ created'[New(i)] = x /\ created'[New(j)] = y
    BY <1>13, <1>14, <2>1, <2>2
  <2> QED
    BY <2>3 DEF Before
<1>16. Newest'
  <2> SUFFICES ASSUME updates # << >> PROVE \E i \in DOMAIN created' : LastAt(i)'
    BY DEF Newest
  <2>1. PICK i \in DOMAIN created : LastAt(i)
    BY DEF Newest
  <2>2. c \notin Numbers
    BY Numbering
  <2>3. i # place /\ i \in 1..L
    BY <1>1, <1>2, <2>1, <2>2 DEF LastAt, CommittedAt
  <2>4. New(i) \in DOMAIN created' /\ created'[New(i)] \in Numbers
    BY <1>13, <2>1, <2>3 DEF LastAt, CommittedAt
  <2>5. ASSUME NEW j \in DOMAIN created', New(i) < j PROVE created'[j] \notin Numbers
    <3>1. i < Old(j) /\ Old(j) \in DOMAIN created
      BY <1>1, <1>4, <1>5, <1>6, <2>3, <2>5
    <3>2. created[Old(j)] \notin Numbers
      BY <2>1, <3>1 DEF LastAt, CommittedAt
    <3> QED
      BY <1>4, <3>2
  <2> QED
    BY <2>4, <2>5 DEF LastAt, CommittedAt
<1> QED
  BY <1>12, <1>15, <1>16

\* A transaction that commits keeps its place, under the number of its update.
LEMMA CommitOrders ==
    ASSUME TypeOK, Ordered, Newest, NEW c \in Open, NEW d, updates' = Append(updates, d),
           d \in Decisions, Len(updates) < MaxUpdates,
           created' = [i \in DOMAIN created |-> IF created[i] = c THEN Len(updates) + 1
                                                ELSE created[i]],
           Open' = Open \ {c}
    PROVE  /\ Ordered' /\ Newest'
           /\ \A x, y : x # c /\ y # c /\ Before(x, y) => Before(x, y)'
           /\ \A x, y : x # c /\ y = Len(updates) + 1 /\ Before(x, c) => Before(x, y)'
<1> DEFINE L == Len(created)
           id == Len(updates) + 1
           Renamed(x) == IF x = c THEN id ELSE x
<1>1. L \in Nat /\ DOMAIN created = 1..L
  BY Places
<1>2. DOMAIN created' = 1..L /\ \A i \in 1..L : created'[i] = Renamed(created[i])
  BY <1>1
<1>3. updates \in Seq(Decisions)
  BY DEF TypeOK
<1>4. DOMAIN updates' = DOMAIN updates \cup {id} /\ id \notin DOMAIN updates
  BY <1>3
<1>5. id \in Numbers /\ id \notin Open /\ c \notin Numbers
  BY <1>3, Numbering, BoundAssumption DEF Numbers
<1> HIDE DEF L, id
<1>6. \A i \in 1..L : created[i] \in DOMAIN updates \cup Open
  BY <1>1, Places
<1>7. \A i \in 1..L : created'[i] \in (DOMAIN updates \cup Open)'
  BY <1>2, <1>4, <1>6
<1>8. created' \in Seq((DOMAIN updates \cup Open)')
  <2> DEFINE S == (DOMAIN updates \cup Open)'
  <2>1. created' \in [1..L -> S]
    BY <1>1, <1>2, <1>7
  <2> HIDE DEF S
  <2> QED
    BY <1>1, <2>1 DEF S
<1>9. ASSUME NEW i \in DOMAIN created', NEW j \in DOMAIN created', created'[i] = created'[j]
      PROVE  i = j
  <2>1. created[i] # id /\ created[j] # id
    BY <1>2, <1>4, <1>5, <1>6
  <2>2. created[i] = created[j]
    BY <1>2, <1>9, <2>1
  <2> QED
    BY <1>1, <1>2, <2>2 DEF Ordered
<1>10. PICK p \in 1..L : created[p] = c
  BY <1>1 DEF Ordered
<1>11. ASSUME NEW x \in (DOMAIN updates \cup Open)'
       PROVE  \E i \in DOMAIN created' : created'[i] = x
  <2>1. CASE x = id
    BY <1>2, <1>10, <2>1
  <2>2. CASE x # id
    <3>1. x \in DOMAIN updates \cup Open /\ x # c
      BY <1>4, <1>5, <2>2, Numbering
    <3>2. PICK i \in DOMAIN created : created[i] = x
      BY <3>1 DEF Ordered
    <3> QED
      BY <1>1, <1>2, <3>1, <3>2
  <2> QED
    BY <2>1, <2>2
<1>12. Ordered'
  BY <1>8, <1>9, <1>11 DEF Ordered
<1>13. ASSUME NEW x, NEW y, x # c, y # c, Before(x, y) PROVE Before(x, y)'
  BY <1>1, <1>2, <1>13 DEF Before
<1>14. ASSUME NEW x, NEW y, x # c, y = id, Before(x, c) PROVE Before(x, y)'
  <2>1. PICK i, j \in 1..L : i < j /\ created[i] = x /\ created[j] = c
    BY <1>1, <1>14 DEF Before
  <2>2. created'[i] = x /\ created'[j] = y
    BY <1>2, <1>14, <2>1
  <2> QED
    BY <1>2, <2>1, <2>2 DEF Before
<1>15. Newest'
  <2>1. \A i \in 1..L : created'[i] \in Numbers <=> created[i] \in Numbers \/ i = p
    <3>1. \A i \in 1..L : created[i] = c => i = p
      BY <1>1, <1>10 DEF Ordered
    <3> QED
      BY <1>2, <1>5, <1>10, <3>1
  <2>2. CASE updates = << >>
    <3>1. \A i \in 1..L : created[i] \notin Numbers
      <4>1. DOMAIN updates = {}
        BY <2>2
      <4> QED
        BY <1>6, <4>1, Numbering
    <3>2. LastAt(p)'
      BY <1>2, <2>1, <3>1 DEF LastAt, CommittedAt
    <3> QED
      BY <1>2, <3>2 DEF Newest
  <2>3. CASE updates # << >>
    <3>1. PICK i \in 1..L : LastAt(i)
      BY <1>1, <2>3 DEF Newest
    <3>2. CASE p < i
      <4>1. LastAt(i)'
        <5>1. created'[i] \in Numbers
          BY <2>1, <3>1 DEF LastAt, CommittedAt
        <5>2. ASSUME NEW j \in 1..L, i < j PROVE created'[j] \notin Numbers
          BY <1>1, <2>1, <3>1, <3>2, <5>2 DEF LastAt, CommittedAt
        <5> QED
          BY <1>2, <5>1, <5>2 DEF LastAt, CommittedAt
      <4> QED
        BY <1>2, <4>1 DEF Newest
    <3>3. CASE i <= p
      <4>1. LastAt(p)'
        <5>1. created'[p] \in Numbers
          BY <2>1
        <5>2. ASSUME NEW j \in 1..L, p < j PROVE created'[j] \notin Numbers
          BY <1>1, <2>1, <3>1, <3>3, <5>2 DEF LastAt, CommittedAt
        <5> QED
          BY <1>2, <5>1, <5>2 DEF LastAt, CommittedAt
      <4> QED
        BY <1>2, <4>1 DEF Newest
    <3> QED
      BY <3>1, <3>2, <3>3
  <2> QED
    BY <2>2, <2>3
<1> QED
  BY <1>12, <1>13, <1>14, <1>15 DEF id

\* Nothing else touches the order.
LEMMA OrderKept ==
    ASSUME Ordered, Newest, UNCHANGED <<created, updates>>, Open' = Open
    PROVE  Ordered' /\ Newest' /\ \A x, y : Before(x, y) => Before(x, y)'
<1>1. Ordered'
  BY DEF Ordered
<1>2. Newest'
  BY DEF Newest, LastAt, CommittedAt
<1>3. \A x, y : Before(x, y) => Before(x, y)'
  BY DEF Before
<1> QED
  BY <1>1, <1>2, <1>3

\* Who is applying after a step of one client.
LEMMA OpenAfter ==
    ASSUME TypeOK, NEW c \in Clients, NEW q, Become(c, q)
    PROVE  Open' = (Open \ {c}) \cup {x \in {c} : q.step = "applying"}
<1>1. \A x \in Clients : client'[x] = IF x = c THEN q ELSE client[x]
  BY DEF TypeOK, Become
<1> QED
  BY <1>1 DEF Open, At

\* Room is kept for the transactions that are open.
LEMMA BeginReserves ==
    ASSUME TypeOK, Reserved, NEW c, c \notin Open, Room, UNCHANGED updates,
           Open' = Open \cup {c}
    PROVE  Reserved'
<1>1. IsFiniteSet(Open') /\ Cardinality(Open') = Cardinality(Open) + 1
  BY FS_AddElement DEF Reserved
<1>2. Cardinality(Open) \in Nat /\ Len(updates) \in Nat
  BY FS_CardinalityType, Numbering DEF Reserved
<1> QED
  BY <1>1, <1>2, BoundAssumption DEF Reserved, Room

\* It is given back, or taken by the update.
LEMMA CloseReserves ==
    ASSUME TypeOK, Reserved, NEW c \in Open, Open' = Open \ {c},
           Len(updates') \in {Len(updates), Len(updates) + 1}
    PROVE  Reserved' /\ Len(updates) < MaxUpdates
<1>1. IsFiniteSet(Open') /\ Cardinality(Open') = Cardinality(Open) - 1
  BY FS_RemoveElement DEF Reserved
<1>2. Cardinality(Open) \in Nat /\ Cardinality(Open') \in Nat /\ Len(updates) \in Nat
  BY <1>1, FS_CardinalityType, Numbering DEF Reserved
<1>3. Len(updates) + Cardinality(Open) <= MaxUpdates
  BY DEF Reserved
<1>4. Len(updates') + Cardinality(Open') <= MaxUpdates /\ Len(updates) < MaxUpdates
  BY <1>1, <1>2, <1>3, BoundAssumption
<1> QED
  BY <1>1, <1>4 DEF Reserved

-----------------------------------------------------------------------------
(***************************************************************************)
(* What a step of one client means to the others                           *)
(***************************************************************************)

\* Nothing a client has seen is taken back.
Progress(c) ==
    /\ DOMAIN updates \subseteq DOMAIN updates' /\ Len(updates) <= Len(updates')
    /\ Len(updates') \in Nat
    /\ \A n \in Numbers : practice[n].state # "none" => practice'[n].state # "none"
    /\ \A n \in Numbers : practice[n].state = "submitted" => practice'[n].state = "submitted"
    /\ \A n \in Numbers : applied[n] # None => applied'[n] = applied[n]
    /\ \A n \in Numbers : applied'[n] = "own"
         => applied[n] = "own" \/ Len(updates) < Len(updates')
    /\ \A n \in DOMAIN updates, d \in Clients \ {c} : Before(n, d) => Before(n, d)'

\* What a client was told is not made wrong by what others do.
LEMMA Bystander ==
    ASSUME TypeOK, NEW c, Progress(c), NEW d \in Clients \ {c}, Sound(d), client'[d] = client[d]
    PROVE  Sound(d)'
<1> DEFINE q == client[d]
           n == q.update
<1>1. client[d] \in Client /\ q.known \in Nat /\ n \in 0..MaxUpdates
  BY BoundAssumption DEF TypeOK, Client
<1>2. DOMAIN updates \subseteq Numbers /\ Len(updates) \in Nat
  BY Numbering
<1>3. /\ \A steps : At(d, steps)' <=> At(d, steps)
      /\ \A actions : Advised(d, actions)' <=> Advised(d, actions)
      /\ Concerned(d)' <=> Concerned(d)
      /\ MayClaim(d)' <=> MayClaim(d)
      /\ Reading(d)' <=> Reading(d)
  BY DEF At, Advised, Concerned, MayClaim, Reading
<1>4. Guided(d)'
  <2>1. Concerned(d)' => n \in DOMAIN updates'
    BY <1>3 DEF Sound, Guided, Progress
  <2>2. At(d, "evaluating")' \/ MayClaim(d)' => practice'[n].state # "none"
    <3>1. At(d, "evaluating") \/ MayClaim(d) => n \in Numbers
      BY <1>2 DEF Sound, Guided, Concerned, MayClaim, At, Advised
    <3> QED
      BY <1>3, <3>1 DEF Sound, Guided, Progress
  <2>3. At(d, "completion")' \/ Advised(d, {"complete_practice"})'
          => practice'[n].state = "submitted"
    <3>1. At(d, "completion") \/ Advised(d, {"complete_practice"}) => n \in Numbers
      BY <1>2 DEF Sound, Guided, Concerned, At, Advised
    <3> QED
      BY <1>3, <3>1 DEF Sound, Guided, Progress
  <2>4. At(d, "applying")' /\ q.source # 0
          => q.source = n /\ n \in DOMAIN updates' /\ Before(n, d)'
    BY <1>3 DEF Sound, Guided, Progress
  <2> QED
    BY <2>1, <2>2, <2>3, <2>4 DEF Guided
<1>5. Overtaken(d)'
  <2>1. q.known <= Len(updates')
    BY <1>1, <1>2 DEF Sound, Overtaken, Progress
  <2>2. ASSUME Reading(d), applied'[n] = "own" PROVE q.known < Len(updates')
    <3>1. n \in Numbers
      BY <1>2, <2>2 DEF Sound, Guided, Told, Reading, Concerned, At
    <3>2. applied[n] = "own" \/ Len(updates) < Len(updates')
      BY <2>2, <3>1 DEF Progress
    <3>3. q.known < Len(updates) \/ Len(updates) < Len(updates')
      BY <2>2, <3>2 DEF Sound, Overtaken
    <3>4. q.known <= Len(updates) /\ Len(updates) <= Len(updates') /\ Len(updates') \in Nat
      BY DEF Sound, Overtaken, Progress
    <3> QED
      BY <1>1, <1>2, <3>3, <3>4
  <2> QED
    BY <1>3, <2>1, <2>2 DEF Overtaken
<1>6. Told(d)'
  <2>1. q.error # None => q.step = "idle" /\ q.error \notin {"not_found", "not_submitted"}
    BY DEF Sound, Told
  <2>2. q.error = "invariant_error" => n \in DOMAIN updates' /\ applied'[n] # None
    BY <1>2 DEF Sound, Told, Progress
  <2>3. q.error = "cross_owner" => n \in Numbers /\ applied'[n] = "other"
    BY NullAssumption DEF Sound, Told, Progress
  <2> QED
    BY <2>1, <2>2, <2>3 DEF Told
<1> QED
  BY <1>4, <1>5, <1>6 DEF Sound

\* A practice's update stays overcome.
LEMMA StillSuperseded ==
    ASSUME TypeOK, Superseded, DOMAIN updates \subseteq DOMAIN updates',
           \A x \in Numbers, y \in Numbers : Before(x, y) => Before(x, y)',
           \A n \in Numbers : applied'[n] = "own" => applied[n] = "own" \/ Overcome(n)'
    PROVE  Superseded'
BY Numbering DEF Superseded, Overcome

-----------------------------------------------------------------------------
(***************************************************************************)
(* What a client and a practice become                                     *)
(***************************************************************************)

\* The fields of a client, whatever it is doing.
LEMMA ClientFields ==
    ASSUME TypeOK, NEW c \in Clients
    PROVE  /\ client[c] \in Client
           /\ client[c].step \in Steps /\ client[c].essay \in Essays
           /\ client[c].update \in 0..MaxUpdates /\ client[c].known \in 0..MaxUpdates
           /\ client[c].error \in Errors \cup {None}
           /\ client[c].source \in 0..MaxUpdates
           /\ client[c].action \in ResumeActions \cup {None}
<1>1. client[c] \in Client
  BY DEF TypeOK
<1> QED
  BY <1>1 DEF Client

\* A client whose call fails.
LEMMA RaiseIs ==
    ASSUME NEW q \in Client, NEW e \in Errors \cup {None}
    PROVE  /\ Raise(q, e) \in Client
           /\ Raise(q, e).step = "idle" /\ Raise(q, e).error = e
           /\ Raise(q, e).update = q.update /\ Raise(q, e).known = q.known
<1>1. "idle" \in Steps /\ 0 \in 0..MaxUpdates
  BY BoundAssumption DEF Steps
<1> QED
  BY <1>1 DEF Raise, Client

\* A client that is answered.
LEMMA AnswerIs ==
    ASSUME NEW q \in Client
    PROVE  /\ Answer(q) \in Client
           /\ Answer(q).step = "idle" /\ Answer(q).error = None /\ Answer(q).known = 0
<1>1. Raise(q, None) \in Client
  BY RaiseIs
<1>2. Raise(q, None).step = "idle" /\ Raise(q, None).error = None
  BY RaiseIs
<1>3. 0 \in 0..MaxUpdates
  BY BoundAssumption
<1> HIDE DEF Raise
<1> QED
  BY <1>1, <1>2, <1>3 DEF Answer, Client

\* The errors the code names.
LEMMA ErrorNames ==
    /\ Errors = {"invariant_error", "unavailable", "not_found", "not_submitted",
                 "essay_conflict", "cross_owner"}
    /\ None \notin Errors
    /\ Status["invariant_error"] = 503 /\ Status["unavailable"] = 503
BY NullAssumption DEF Errors, Status

\* Practices only move forward: one that is there stays, and one that is submitted stays so.
Forward ==
    \A n \in Numbers : /\ practice[n].state # "none" => practice'[n].state # "none"
                       /\ practice[n].state = "submitted" => practice'[n].state = "submitted"

\* One of them is generated, claimed, given back or submitted.
LEMMA PracticeMoves ==
    ASSUME TypeOK, NEW n \in Numbers, NEW row \in Row, row.state # "none",
           practice[n].state = "submitted" => row.state = "submitted",
           practice' = [practice EXCEPT ![n] = row]
    PROVE  practice' \in [Numbers -> Row] /\ Forward
<1>1. practice \in [Numbers -> Row]
  BY DEF TypeOK
<1>2. \A k \in Numbers : practice'[k] = IF k = n THEN row ELSE practice[k]
  BY <1>1
<1>3. practice' \in [Numbers -> Row]
  BY <1>1
<1>4. Forward
  BY <1>2 DEF Forward
<1> QED
  BY <1>3, <1>4

\* The practices a claim, its return and a generation leave.
LEMMA Rows ==
    ASSUME TypeOK
    PROVE  /\ Generated \in Row /\ Generated.state = "generated"
           /\ \A e \in Essays, c \in Clients \cup {None} :
                /\ Claimed(e, c) \in Row /\ Claimed(e, c).state = "submission_in_progress"
                /\ Claimed(e, c).essay = e /\ Claimed(e, c).holder = c
BY DEF Generated, NoPractice, Claimed, Row

\* Most steps leave the practices alone.
LEMMA StillForward ==
    ASSUME TypeOK, UNCHANGED practice
    PROVE  practice' \in [Numbers -> Row] /\ Forward
<1>1. practice' \in [Numbers -> Row]
  BY DEF TypeOK
<1> QED
  BY <1>1 DEF Forward

\* One client changes in a step.
LEMMA BecomeIs ==
    ASSUME TypeOK, NEW c \in Clients, NEW q \in Client, Become(c, q)
    PROVE  /\ client' \in [Clients -> Client] /\ client'[c] = q
           /\ \A d \in Clients \ {c} : client'[d] = client[d]
BY DEF TypeOK, Become

\* A step that does not go as advised, or that does.
LEMMA StrayType ==
    ASSUME TypeOK, Stray \/ UNCHANGED strays
    PROVE  strays' \in 0..MaxStrays
BY BoundAssumption DEF TypeOK, Stray

-----------------------------------------------------------------------------
(***************************************************************************)
(* The client that takes the step                                          *)
(***************************************************************************)

\* A client that has been answered knows nothing it could be wrong about.
LEMMA AnsweredSound ==
    ASSUME TypeOK, NEW c \in Clients, client'[c] = Answer(client[c]), Len(updates') \in Nat
    PROVE  Sound(c)'
<1>1. client'[c].step = "idle" /\ client'[c].error = None /\ client'[c].known = 0
  BY AnswerIs, ClientFields
<1>2. ~Concerned(c)' /\ ~MayClaim(c)' /\ ~Advised(c, {"complete_practice"})' /\ ~Reading(c)'
  BY <1>1, ErrorNames DEF Concerned, MayClaim, Advised, Reading, At
<1>3. ~At(c, "evaluating")' /\ ~At(c, "completion")' /\ ~At(c, "applying")'
  BY <1>1 DEF At
<1>4. Guided(c)'
  BY <1>2, <1>3 DEF Guided
<1>5. Overtaken(c)'
  BY <1>1, <1>2 DEF Overtaken
<1>6. Told(c)'
  BY <1>1, ErrorNames DEF Told
<1> QED
  BY <1>4, <1>5, <1>6 DEF Sound

\* Nor does one whose call failed with an error that is no fault of the advice.
LEMMA RaisedSound ==
    ASSUME TypeOK, NEW c \in Clients, Sound(c), Len(updates) <= Len(updates'),
           Len(updates') \in Nat,
           NEW e \in {"unavailable", "essay_conflict", "cross_owner"},
           client'[c] = Raise(client[c], e),
           e = "cross_owner" => client[c].update \in Numbers /\ applied'[client[c].update] = "other"
    PROVE  Sound(c)'
<1>1. /\ client'[c].step = "idle" /\ client'[c].error = e
      /\ client'[c].update = client[c].update /\ client'[c].known = client[c].known
  BY RaiseIs, ClientFields, ErrorNames
<1>2. ~Concerned(c)' /\ ~MayClaim(c)' /\ ~Advised(c, {"complete_practice"})' /\ ~Reading(c)'
  BY <1>1 DEF Concerned, MayClaim, Advised, Reading, At
<1>3. ~At(c, "evaluating")' /\ ~At(c, "completion")' /\ ~At(c, "applying")'
  BY <1>1 DEF At
<1>4. Guided(c)'
  BY <1>2, <1>3 DEF Guided
<1>5. client[c].known <= Len(updates')
  <2>1. client[c].known <= Len(updates)
    BY DEF Sound, Overtaken
  <2>2. client[c].known \in Nat /\ Len(updates) \in Nat
    BY ClientFields, Numbering, BoundAssumption
  <2> QED
    BY <2>1, <2>2
<1>6. Overtaken(c)'
  BY <1>1, <1>2, <1>5 DEF Overtaken
<1>7. Told(c)'
  BY <1>1 DEF Told
<1> QED
  BY <1>4, <1>6, <1>7 DEF Sound

\* Advice that can be followed.
LEMMA AdvisedSound ==
    ASSUME TypeOK, NEW c \in Clients, Len(updates') \in Nat,
           client'[c].step = "advised", client'[c].known = 0, client'[c].error = None,
           client'[c].action \in {"generate_practice", "submit_practice", "await_submission",
                                  "complete_practice"}
             => client'[c].update \in DOMAIN updates',
           client'[c].action \in {"submit_practice", "await_submission"}
             => practice'[client'[c].update].state # "none",
           client'[c].action = "complete_practice"
             => practice'[client'[c].update].state = "submitted"
    PROVE  Sound(c)'
<1>1. ~At(c, "evaluating")' /\ ~At(c, "completion")' /\ ~At(c, "applying")' /\ ~Reading(c)'
  BY ErrorNames DEF At, Reading
<1>2. Guided(c)'
  BY <1>1 DEF Guided, Concerned, MayClaim, Advised
<1>3. Overtaken(c)'
  BY <1>1 DEF Overtaken
<1>4. Told(c)'
  BY ErrorNames DEF Told
<1> QED
  BY <1>2, <1>3, <1>4 DEF Sound

\* The fields of a client that has been advised.
LEMMA AdviseIs ==
    ASSUME NEW q \in Client, NEW a \in ResumeActions
    PROVE  /\ Advise(q, a) \in Client
           /\ Advise(q, a).step = "advised" /\ Advise(q, a).action = a /\ Advise(q, a).known = 0
           /\ Advise(q, a).update = q.update /\ Advise(q, a).error = q.error
<1>1. "advised" \in Steps /\ 0 \in 0..MaxUpdates
  BY BoundAssumption DEF Steps
<1> QED
  BY <1>1 DEF Advise, Client

\* A client that is doing something has been answered with no error.
LEMMA BusyWithout ==
    ASSUME TypeOK, NEW c \in Clients, Sound(c), client[c].step # "idle"
    PROVE  client[c].error = None
BY DEF Sound, Told

-----------------------------------------------------------------------------
(***************************************************************************)
(* The steps                                                               *)
(***************************************************************************)
OthersSame(c) == \A d \in Clients \ {c} : client'[d] = client[d]
Keeps(c) == TypeOK' /\ Timeline' /\ Progress(c) /\ OthersSame(c) /\ Sound(c)'

\* A step outside the transactions that apply evaluations.
LEMMA CalmKeeps ==
    ASSUME IInv, NEW c \in Clients, NEW q \in Client, Become(c, q),
           UNCHANGED <<updates, created, applied>>, practice' \in [Numbers -> Row], Forward,
           strays' \in 0..MaxStrays, q.step = "applying" <=> At(c, "applying")
    PROVE  /\ TypeOK' /\ Timeline' /\ Progress(c) /\ OthersSame(c)
           /\ client'[c] = q /\ Len(updates') \in Nat /\ Sound(c)
<1>1. TypeOK /\ Ordered /\ Newest /\ Reserved /\ Superseded /\ Sound(c)
  BY DEF IInv, Timeline
<1>2. Open' = Open
  <2>1. c \in Open <=> At(c, "applying")
    BY DEF Open
  <2> QED
    BY <1>1, <2>1, OpenAfter
<1>3. Ordered' /\ Newest' /\ \A x, y : Before(x, y) => Before(x, y)'
  BY <1>1, <1>2, OrderKept
<1>4. Reserved'
  BY <1>1, <1>2 DEF Reserved
<1>5. Superseded'
  BY <1>1, <1>3, StillSuperseded DEF Superseded
<1>6. client' \in [Clients -> Client] /\ client'[c] = q /\ OthersSame(c)
  BY <1>1, BecomeIs DEF OthersSame
<1>7. TypeOK'
  BY <1>1, <1>6 DEF TypeOK
<1>8. Len(updates) \in Nat
  BY <1>1, Numbering
<1>9. Progress(c)
  BY <1>3, <1>8 DEF Progress, Forward
<1> QED
  BY <1>1, <1>3, <1>4, <1>5, <1>6, <1>7, <1>8, <1>9 DEF Timeline

\* The first read: the latest update has not been applied, so the practice it is about is open.
LEMMA ReadLatestKeeps == ASSUME IInv, NEW c \in Clients, ReadLatest(c) PROVE Keeps(c)
<1> DEFINE n == LatestCreated
           q == [client[c] EXCEPT !.update = n, !.known = Len(updates), !.action = None,
                                  !.error = None]
           r == IF n = 0 THEN Advise(q, "initial_writing")
                ELSE IF updates[n] = "no_practice" THEN Advise(q, "no_action")
                ELSE [q EXCEPT !.step = "practice"]
<1>1. /\ Become(c, r) /\ client[c].step # "applying"
      /\ UNCHANGED <<updates, created, practice, applied, strays>>
  BY DEF ReadLatest, At
<1>2. TypeOK /\ Ordered /\ Newest /\ Superseded /\ Sound(c)
  BY DEF IInv, Timeline
<1>3. Len(updates) \in 0..MaxUpdates
  BY <1>2, Numbering DEF TypeOK
<1>4. /\ n \in 0..MaxUpdates
      /\ n # 0 => n \in DOMAIN updates /\ ~Overcome(n)
  <2>1. updates = << >> \/ updates # << >>
    OBVIOUS
  <2>2. n = 0 \/ (n \in DOMAIN updates /\ ~Overcome(n))
    BY <1>2, <2>1, LatestIsLast
  <2>3. DOMAIN updates \subseteq 1..MaxUpdates
    BY <1>2, Numbering DEF Numbers
  <2> QED
    BY <2>2, <2>3, BoundAssumption
<1>5. ~(n # 0 /\ applied[n] = "own")
  BY <1>2, <1>4, Numbering DEF Superseded
<1> HIDE DEF n
<1>6. /\ q \in Client /\ q.update = n /\ q.known = Len(updates) /\ q.error = None
      /\ q.step = client[c].step
  BY <1>2, <1>3, <1>4, ClientFields DEF Client
<1> HIDE DEF q
<1>7. CASE n = 0 \/ updates[n] = "no_practice"
  <2>1. PICK a \in {"initial_writing", "no_action"} : r = Advise(q, a)
    BY <1>7
  <2>2. a \in ResumeActions
    BY <2>1 DEF ResumeActions
  <2> HIDE DEF r
  <2>3. r \in Client /\ r.step = "advised" /\ r.action = a /\ r.known = 0 /\ r.error = None
    BY <1>6, <2>1, <2>2, AdviseIs
  <2>4. /\ TypeOK' /\ Timeline' /\ Progress(c) /\ OthersSame(c)
        /\ client'[c] = r /\ Len(updates') \in Nat
    BY <1>1, <1>2, <2>3, CalmKeeps, StillForward, StrayType DEF At
  <2>5. Sound(c)'
    BY <1>2, <2>1, <2>3, <2>4, AdvisedSound
  <2> QED
    BY <2>4, <2>5 DEF Keeps
<1>8. CASE ~(n = 0 \/ updates[n] = "no_practice")
  <2>1. "practice" \in Steps
    BY DEF Steps
  <2>2. /\ r \in Client /\ r.step = "practice" /\ r.update = n /\ r.known = Len(updates)
        /\ r.error = None
    BY <1>6, <1>8, <2>1 DEF Client
  <2> HIDE DEF r
  <2>3. /\ TypeOK' /\ Timeline' /\ Progress(c) /\ OthersSame(c)
        /\ client'[c] = r /\ Len(updates') \in Nat
    BY <1>1, <1>2, <2>2, CalmKeeps, StillForward, StrayType DEF At
  <2>4. /\ ~At(c, "evaluating")' /\ ~At(c, "completion")' /\ ~At(c, "applying")'
        /\ ~MayClaim(c)' /\ ~Advised(c, {"complete_practice"})'
    BY <2>2, <2>3 DEF At, MayClaim, Advised
  <2>5. Guided(c)'
    BY <1>1, <1>4, <1>8, <2>2, <2>3, <2>4 DEF Guided
  <2>6. Overtaken(c)'
    BY <1>1, <1>3, <1>5, <1>8, <2>2, <2>3 DEF Overtaken
  <2>7. Told(c)'
    BY <2>2, <2>3, ErrorNames DEF Told
  <2> QED
    BY <2>3, <2>5, <2>6, <2>7 DEF Keeps, Sound
<1> QED
  BY <1>7, <1>8

\* The second read: the advice fits the practice's state.
LEMMA ReadPracticeKeeps == ASSUME IInv, NEW c \in Clients, ReadPractice(c) PROVE Keeps(c)
<1> DEFINE n == client[c].update
           state == practice[n].state
           r == IF state = "submitted" THEN [client[c] EXCEPT !.step = "completion"]
                ELSE Advise(client[c], PracticeAction[state])
<1>1. /\ Become(c, r) /\ client[c].step = "practice"
      /\ UNCHANGED <<updates, created, practice, applied, strays>>
  BY DEF ReadPractice, At
<1>2. TypeOK /\ Sound(c)
  BY DEF IInv
<1>3. n \in DOMAIN updates /\ n \in Numbers /\ client[c].error = None
  BY <1>1, <1>2, Numbering, BusyWithout DEF Sound, Guided, Concerned
<1>4. state \in {"none", "generated", "submission_in_progress", "submitted"}
  BY <1>2, <1>3 DEF TypeOK, Row
<1>5. CASE state = "submitted"
  <2>1. "completion" \in Steps
    BY DEF Steps
  <2>2. /\ r \in Client /\ r.step = "completion" /\ r.update = n /\ r.known = client[c].known
        /\ r.error = None
    BY <1>2, <1>3, <1>5, <2>1, ClientFields DEF Client
  <2> HIDE DEF r
  <2>3. /\ TypeOK' /\ Timeline' /\ Progress(c) /\ OthersSame(c)
        /\ client'[c] = r /\ Len(updates') \in Nat
    BY <1>1, <1>2, <2>2, CalmKeeps, StillForward, StrayType DEF At
  <2>4. /\ ~At(c, "evaluating")' /\ ~At(c, "applying")'
        /\ ~MayClaim(c)' /\ ~Advised(c, {"complete_practice"})'
    BY <2>2, <2>3 DEF At, MayClaim, Advised
  <2>5. Guided(c)'
    BY <1>1, <1>3, <1>5, <2>2, <2>3, <2>4 DEF Guided
  <2>6. Overtaken(c)'
    BY <1>1, <1>2, <2>2, <2>3 DEF Overtaken, Sound, Reading, At
  <2>7. Told(c)'
    BY <2>2, <2>3, ErrorNames DEF Told
  <2> QED
    BY <2>3, <2>5, <2>6, <2>7 DEF Keeps, Sound
<1>6. CASE state # "submitted"
  <2> DEFINE a == PracticeAction[state]
  <2>1. /\ a \in {"generate_practice", "submit_practice", "await_submission"}
        /\ a \in {"submit_practice", "await_submission"} => state # "none"
    BY <1>4, <1>6 DEF PracticeAction
  <2>2. a \in ResumeActions
    BY <2>1 DEF ResumeActions
  <2>3. r = Advise(client[c], a)
    BY <1>6
  <2> HIDE DEF a, r
  <2>4. /\ r \in Client /\ r.step = "advised" /\ r.action = a /\ r.known = 0 /\ r.error = None
        /\ r.update = n
    BY <1>2, <1>3, <2>2, <2>3, AdviseIs, ClientFields
  <2>5. /\ TypeOK' /\ Timeline' /\ Progress(c) /\ OthersSame(c)
        /\ client'[c] = r /\ Len(updates') \in Nat
    BY <1>1, <1>2, <2>4, CalmKeeps, StillForward, StrayType DEF At
  <2>6. Sound(c)'
    BY <1>1, <1>2, <1>3, <2>1, <2>4, <2>5, AdvisedSound
  <2> QED
    BY <2>5, <2>6 DEF Keeps
<1> QED
  BY <1>5, <1>6

\* The third read fails only on a practice that has been applied since the first.
LEMMA ReadCompletionKeeps == ASSUME IInv, NEW c \in Clients, ReadCompletion(c) PROVE Keeps(c)
<1> DEFINE n == client[c].update
           r == IF applied[n] = None THEN Advise(client[c], "complete_practice")
                ELSE Raise(client[c], "invariant_error")
<1>1. /\ Become(c, r) /\ client[c].step = "completion"
      /\ UNCHANGED <<updates, created, practice, applied, strays>>
  BY DEF ReadCompletion, At
<1>2. TypeOK /\ Sound(c)
  BY DEF IInv
<1>3. /\ n \in DOMAIN updates /\ client[c].error = None
      /\ practice[n].state = "submitted"
  BY <1>1, <1>2, BusyWithout DEF Sound, Guided, Concerned, At
<1>4. CASE applied[n] = None
  <2>1. "complete_practice" \in ResumeActions
    BY DEF ResumeActions
  <2>2. r = Advise(client[c], "complete_practice")
    BY <1>4
  <2> HIDE DEF r
  <2>3. /\ r \in Client /\ r.step = "advised" /\ r.action = "complete_practice" /\ r.known = 0
        /\ r.error = None /\ r.update = n
    BY <1>2, <1>3, <2>1, <2>2, AdviseIs, ClientFields
  <2>4. /\ TypeOK' /\ Timeline' /\ Progress(c) /\ OthersSame(c)
        /\ client'[c] = r /\ Len(updates') \in Nat
    BY <1>1, <1>2, <2>3, CalmKeeps, StillForward, StrayType DEF At
  <2>5. Sound(c)'
    BY <1>1, <1>2, <1>3, <2>3, <2>4, AdvisedSound
  <2> QED
    BY <2>4, <2>5 DEF Keeps
<1>5. CASE applied[n] # None
  <2>1. r = Raise(client[c], "invariant_error")
    BY <1>5
  <2> HIDE DEF r
  <2>2. /\ r \in Client /\ r.step = "idle" /\ r.error = "invariant_error"
        /\ r.update = n /\ r.known = client[c].known
    BY <1>2, <2>1, RaiseIs, ClientFields, ErrorNames
  <2>3. /\ TypeOK' /\ Timeline' /\ Progress(c) /\ OthersSame(c)
        /\ client'[c] = r /\ Len(updates') \in Nat
    BY <1>1, <1>2, <2>2, CalmKeeps, StillForward, StrayType DEF At
  <2>4. /\ ~Concerned(c)' /\ ~MayClaim(c)' /\ ~Advised(c, {"complete_practice"})'
        /\ ~At(c, "evaluating")' /\ ~At(c, "completion")' /\ ~At(c, "applying")'
    BY <2>2, <2>3 DEF Concerned, MayClaim, Advised, At
  <2>5. Guided(c)'
    BY <2>4 DEF Guided
  <2>6. Overtaken(c)'
    BY <1>1, <1>2, <2>2, <2>3 DEF Overtaken, Sound, Reading, At
  <2>7. Told(c)'
    BY <1>1, <1>3, <1>5, <2>2, <2>3 DEF Told
  <2> QED
    BY <2>3, <2>5, <2>6, <2>7 DEF Keeps, Sound
<1> QED
  BY <1>4, <1>5

\* Generating a practice, or finding it generated.
LEMMA GenerateKeeps == ASSUME IInv, NEW c \in Clients, Generate(c) PROVE Keeps(c)
<1> DEFINE n == client[c].update
           r == Answer(client[c])
<1>1. /\ Become(c, r) /\ client[c].step = "advised" /\ client[c].action = "generate_practice"
      /\ practice' = IF practice[n].state = "none" THEN [practice EXCEPT ![n] = Generated]
                     ELSE practice
      /\ UNCHANGED <<updates, created, applied, strays>>
  BY DEF Generate, Advised, At
<1>2. TypeOK /\ Sound(c)
  BY DEF IInv
<1>3. n \in Numbers
  BY <1>1, <1>2, Numbering DEF Sound, Guided, Concerned, Advised, At
<1>4. practice' \in [Numbers -> Row] /\ Forward
  <2>1. CASE practice[n].state = "none"
    <3>1. practice' = [practice EXCEPT ![n] = Generated]
      BY <1>1, <2>1
    <3>2. Generated \in Row /\ Generated.state # "none" /\ practice[n].state # "submitted"
      BY <1>2, <2>1, Rows
    <3> QED
      BY <1>2, <1>3, <3>1, <3>2, PracticeMoves
  <2>2. CASE practice[n].state # "none"
    BY <1>1, <1>2, <2>2, StillForward
  <2> QED
    BY <2>1, <2>2
<1> HIDE DEF n
<1>5. r \in Client /\ r.step = "idle"
  BY <1>2, AnswerIs, ClientFields
<1>6. /\ TypeOK' /\ Timeline' /\ Progress(c) /\ OthersSame(c)
      /\ client'[c] = r /\ Len(updates') \in Nat
  <2> HIDE DEF r
  <2> QED
    BY <1>1, <1>2, <1>4, <1>5, CalmKeeps, StrayType DEF At
<1>7. Sound(c)'
  BY <1>2, <1>6, AnsweredSound
<1> QED
  BY <1>6, <1>7 DEF Keeps

\* A claim that is won.
LEMMA TakeClaimKeeps ==
    ASSUME IInv, NEW c \in Clients, MayClaim(c), TakeClaim(c),
           practice[client[c].update].state # "submitted", strays' \in 0..MaxStrays
    PROVE  Keeps(c)
<1> DEFINE n == client[c].update
           row == Claimed(client[c].essay, c)
           r == [client[c] EXCEPT !.step = "evaluating"]
<1>1. /\ Become(c, r) /\ client[c].step = "advised"
      /\ client[c].action \in {"submit_practice", "await_submission"}
      /\ practice' = [practice EXCEPT ![n] = row] /\ UNCHANGED <<updates, created, applied>>
  BY DEF TakeClaim, MayClaim, Advised, At
<1>2. TypeOK /\ Sound(c)
  BY DEF IInv
<1>3. n \in DOMAIN updates /\ n \in Numbers /\ client[c].error = None
  BY <1>1, <1>2, Numbering, BusyWithout DEF Sound, Guided, Concerned, Advised, At
<1>4. row \in Row /\ row.state = "submission_in_progress"
  BY <1>2, Rows, ClientFields
<1>5. r \in Client /\ r.step = "evaluating" /\ r.update = n /\ r.error = None
      /\ r.known = client[c].known
  <2>1. "evaluating" \in Steps
    BY DEF Steps
  <2> QED
    BY <1>2, <1>3, <2>1, ClientFields DEF Client
<1> HIDE DEF r, row
<1>6. practice' \in [Numbers -> Row] /\ Forward
  BY <1>1, <1>2, <1>3, <1>4, PracticeMoves
<1>7. practice'[n].state = "submission_in_progress"
  BY <1>1, <1>2, <1>3, <1>4 DEF TypeOK
<1>8. /\ TypeOK' /\ Timeline' /\ Progress(c) /\ OthersSame(c)
      /\ client'[c] = r /\ Len(updates') \in Nat
  BY <1>1, <1>2, <1>5, <1>6, CalmKeeps DEF At
<1>9. Guided(c)'
  <2>1. /\ ~At(c, "completion")' /\ ~Advised(c, {"complete_practice"})' /\ ~At(c, "applying")'
    BY <1>5, <1>8 DEF At, Advised
  <2>2. n \in DOMAIN updates' /\ client'[c].update = n
    BY <1>1, <1>3, <1>5, <1>8
  <2> QED
    BY <1>7, <2>1, <2>2 DEF Guided
<1>10. Overtaken(c)'
  <2>1. ~Reading(c)'
    BY <1>5, <1>8, ErrorNames DEF At, Reading
  <2>2. client[c].known <= Len(updates)
    BY <1>2 DEF Sound, Overtaken
  <2> QED
    BY <1>1, <1>5, <1>8, <2>1, <2>2 DEF Overtaken
<1>11. Told(c)'
  BY <1>5, <1>8, ErrorNames DEF Told
<1> QED
  BY <1>8, <1>9, <1>10, <1>11 DEF Keeps, Sound

\* An answer or an error that is no fault of the advice, with the practices as they are or further.
LEMMA ReturnKeeps ==
    ASSUME IInv, NEW c \in Clients, ~At(c, "applying"), NEW r,
           r = Answer(client[c]) \/ \E e \in {"unavailable", "essay_conflict"} :
                                      r = Raise(client[c], e),
           Become(c, r), practice' \in [Numbers -> Row], Forward, strays' \in 0..MaxStrays,
           UNCHANGED <<updates, created, applied>>
    PROVE  Keeps(c)
<1>1. TypeOK /\ Sound(c)
  BY DEF IInv
<1>2. r \in Client /\ r.step = "idle"
  BY <1>1, AnswerIs, RaiseIs, ClientFields, ErrorNames
<1>3. /\ TypeOK' /\ Timeline' /\ Progress(c) /\ OthersSame(c)
      /\ client'[c] = r /\ Len(updates') \in Nat
  BY <1>1, <1>2, CalmKeeps DEF At
<1>4. Sound(c)'
  <2>1. CASE r = Answer(client[c])
    BY <1>1, <1>3, <2>1, AnsweredSound
  <2>2. ASSUME NEW e \in {"unavailable", "essay_conflict"}, r = Raise(client[c], e)
        PROVE  Sound(c)'
    <3>1. Len(updates) <= Len(updates') /\ e # "cross_owner"
      BY <1>1, <1>3, Numbering
    <3> QED
      BY <1>1, <1>3, <2>2, <3>1, RaisedSound
  <2> QED
    BY <2>1, <2>2
<1> QED
  BY <1>3, <1>4 DEF Keeps

\* Submitting an essay as advised: there is a practice to claim, or a claim to compare with.
LEMMA SubmitKeeps == ASSUME IInv, NEW c \in Clients, Submit(c) PROVE Keeps(c)
<1> DEFINE n == client[c].update
           q == client[c]
           row == practice[n]
<1>1. MayClaim(c) /\ UNCHANGED strays /\ client[c].step = "advised"
  BY DEF Submit, MayClaim, Advised, At
<1>2. TypeOK /\ Sound(c) /\ strays' \in 0..MaxStrays
  BY <1>1, StrayType DEF IInv
<1>3. row.state # "none"
  BY <1>1, <1>2 DEF Sound, Guided
<1>4. CASE row.state = "generated" /\ TakeClaim(c)
  BY <1>1, <1>2, <1>4, TakeClaimKeeps
<1>5. CASE row.state # "generated"
  <2>1. /\ Become(c, IF row.essay # q.essay THEN Raise(q, "essay_conflict") ELSE Answer(q))
        /\ UNCHANGED <<updates, created, practice, applied>>
    BY <1>3, <1>5 DEF Submit
  <2>2. ~At(c, "applying") /\ practice' \in [Numbers -> Row] /\ Forward
    BY <1>1, <1>2, <2>1, StillForward DEF At
  <2>3. CASE row.essay # q.essay
    BY <1>2, <2>1, <2>2, <2>3, ReturnKeeps
  <2>4. CASE row.essay = q.essay
    BY <1>2, <2>1, <2>2, <2>4, ReturnKeeps
  <2> QED
    BY <2>3, <2>4
<1> QED
  BY <1>4, <1>5 DEF Submit

\* Taking over a claim whose lease has expired.
LEMMA TakeOverKeeps == ASSUME IInv, NEW c \in Clients, TakeOver(c) PROVE Keeps(c)
<1> DEFINE n == client[c].update
           row == practice[n]
<1>1. MayClaim(c) /\ TakeClaim(c) /\ row = Claimed(client[c].essay, row.holder)
  BY DEF TakeOver
<1>2. strays' \in 0..MaxStrays
  <2>1. Stray \/ UNCHANGED strays
    BY DEF TakeOver
  <2> QED
    BY <2>1, StrayType DEF IInv
<1>3. row.state # "submitted"
  BY <1>1 DEF Claimed
<1> QED
  BY <1>1, <1>2, <1>3, TakeClaimKeeps

\* The evaluation that is stored, or that finds its claim taken.
LEMMA FinishKeeps == ASSUME IInv, NEW c \in Clients, Finish(c) PROVE Keeps(c)
<1> DEFINE n == client[c].update
<1>1. /\ client[c].step = "evaluating" /\ ~At(c, "applying")
      /\ UNCHANGED <<updates, created, applied, strays>>
  BY DEF Finish, At
<1>2. TypeOK /\ Sound(c) /\ strays' \in 0..MaxStrays
  BY <1>1, StrayType DEF IInv
<1>3. CASE Holds(c)
  <2> DEFINE row == [practice[n] EXCEPT !.state = "submitted", !.holder = None]
  <2>1. Become(c, Answer(client[c])) /\ practice' = [practice EXCEPT ![n].state = "submitted",
                                                                   ![n].holder = None]
    BY <1>3 DEF Finish
  <2>2. n \in Numbers
    BY <1>1, <1>2, Numbering DEF Sound, Guided, Concerned, At
  <2>3. practice[n] \in Row
    BY <1>2, <2>2 DEF TypeOK
  <2>4. row \in Row /\ row.state = "submitted"
    BY <2>3 DEF Row
  <2>5. practice' = [practice EXCEPT ![n] = row]
    BY <1>2, <2>1, <2>2, <2>3 DEF TypeOK, Row
  <2> HIDE DEF row
  <2>6. practice' \in [Numbers -> Row] /\ Forward
    BY <1>2, <2>2, <2>4, <2>5, PracticeMoves
  <2> QED
    BY <1>1, <1>2, <2>1, <2>6, ReturnKeeps
<1>4. CASE ~Holds(c)
  <2>1. Become(c, Raise(client[c], "unavailable")) /\ UNCHANGED practice
    BY <1>4 DEF Finish
  <2>2. practice' \in [Numbers -> Row] /\ Forward
    BY <1>2, <2>1, StillForward
  <2> QED
    BY <1>1, <1>2, <2>1, <2>2, ReturnKeeps
<1> QED
  BY <1>3, <1>4

\* A sequence over a set is one over a larger set.
LEMMA WiderSeq ==
    ASSUME NEW S, NEW T, S \subseteq T, NEW s \in Seq(S)
    PROVE  s \in Seq(T)
<1>1. Len(s) \in Nat /\ s \in [1..Len(s) -> S]
  OBVIOUS
<1>2. s \in [1..Len(s) -> T]
  BY <1>1
<1> QED
  BY <1>1, <1>2

\* The transaction that applies an evaluation begins.
LEMMA BeginKeeps ==
    ASSUME IInv, NEW c \in Clients, At(c, "advised"), NEW n, BeginApply(c, n),
           n = 0 \/ (n = client[c].update /\ n \in DOMAIN updates),
           UNCHANGED <<updates, practice, applied>>, strays' \in 0..MaxStrays
    PROVE  Keeps(c)
<1> DEFINE r == [client[c] EXCEPT !.step = "applying", !.source = n]
<1>1. TypeOK /\ Ordered /\ Newest /\ Reserved /\ Superseded /\ Sound(c)
  BY DEF IInv, Timeline
<1>2. Room /\ created' = Append(created, c) /\ Become(c, r)
  BY DEF BeginApply
<1>3. DOMAIN updates \subseteq Numbers /\ Clients \cap Numbers = {} /\ Len(updates) \in Nat
  BY <1>1, Numbering
<1>4. client[c].error = None /\ client[c].known <= Len(updates)
  BY <1>1, BusyWithout DEF At, Sound, Overtaken
<1>5. /\ r \in Client /\ r.step = "applying" /\ r.source = n /\ r.error = None
      /\ r.update = client[c].update /\ r.known = client[c].known
  <2>1. "applying" \in Steps /\ n \in 0..MaxUpdates
    BY <1>3, BoundAssumption DEF Steps, Numbers
  <2> QED
    BY <1>1, <1>4, <2>1, ClientFields DEF Client
<1> HIDE DEF r
<1>6. c \notin Open /\ Open' = Open \cup {c}
  <2>1. c \notin Open
    BY DEF Open, At
  <2>2. {x \in {c} : r.step = "applying"} = {c}
    BY <1>5
  <2> QED
    BY <1>1, <1>2, <2>1, <2>2, OpenAfter
<1>7. /\ Ordered' /\ Newest' /\ \A x, y : Before(x, y) => Before(x, y)'
      /\ \A m \in DOMAIN updates : Before(m, c)'
  BY <1>1, <1>2, <1>6, BeginOrders
<1>8. Reserved'
  BY <1>1, <1>2, <1>6, BeginReserves
<1>9. Superseded'
  BY <1>1, <1>7, StillSuperseded DEF Superseded
<1>10. client' \in [Clients -> Client] /\ client'[c] = r /\ OthersSame(c)
  BY <1>1, <1>2, <1>5, BecomeIs DEF OthersSame
<1>11. TypeOK'
  <2>1. created' \in Seq((DOMAIN updates \cup Open)')
    BY <1>7 DEF Ordered
  <2>2. (DOMAIN updates \cup Open)' \subseteq Numbers \cup Clients
    BY <1>1, <1>3, <1>6, Numbering
  <2>3. created' \in Seq(Numbers \cup Clients)
    BY <2>1, <2>2, WiderSeq
  <2> QED
    BY <1>1, <1>10, <2>3 DEF TypeOK
<1>12. Progress(c)
  BY <1>3, <1>7 DEF Progress
<1>13. Guided(c)'
  <2>1. /\ ~Concerned(c)' /\ ~At(c, "evaluating")' /\ ~MayClaim(c)' /\ ~At(c, "completion")'
        /\ ~Advised(c, {"complete_practice"})'
    BY <1>5, <1>10 DEF Concerned, At, Advised, MayClaim
  <2>2. n # 0 => n = client'[c].update /\ n \in DOMAIN updates' /\ Before(n, c)'
    <3>1. ASSUME n # 0 PROVE \A m : m = n => Before(m, c)'
      BY <1>7, <3>1
    <3> QED
      BY <1>5, <1>10, <3>1
  <2> QED
    BY <1>5, <1>10, <2>1, <2>2 DEF Guided
<1>14. Overtaken(c)'
  <2>1. ~Reading(c)'
    BY <1>5, <1>10, ErrorNames DEF At, Reading
  <2> QED
    BY <1>4, <1>5, <1>10, <2>1 DEF Overtaken
<1>15. Told(c)'
  BY <1>5, <1>10, ErrorNames DEF Told
<1> QED
  BY <1>7, <1>8, <1>9, <1>10, <1>11, <1>12, <1>13, <1>14, <1>15 DEF Keeps, Sound, Timeline

\* An essay of no practice.
LEMMA WriteEssayKeeps == ASSUME IInv, NEW c \in Clients, WriteEssay(c) PROVE Keeps(c)
<1>1. strays' \in 0..MaxStrays
  <2>1. Stray \/ UNCHANGED strays
    BY DEF WriteEssay
  <2> QED
    BY <2>1, StrayType DEF IInv
<1> QED
  BY <1>1, BeginKeeps DEF WriteEssay

\* Completing as advised: the practice is submitted and stays so.
LEMMA CompleteKeeps == ASSUME IInv, NEW c \in Clients, Complete(c) PROVE Keeps(c)
<1> DEFINE n == client[c].update
<1>1. Advised(c, {"complete_practice"}) /\ At(c, "advised") /\ strays' \in 0..MaxStrays
  BY StrayType DEF Complete, Advised, IInv
<1>2. n \in DOMAIN updates /\ practice[n].state = "submitted"
  <2>1. Concerned(c)
    BY <1>1 DEF Concerned, Advised
  <2> QED
    BY <1>1, <2>1 DEF IInv, Sound, Guided
<1> QED
  BY <1>1, <1>2, BeginKeeps DEF Complete

\* A transaction that ends with no update.
LEMMA CloseKeeps ==
    ASSUME IInv, NEW c \in Clients, At(c, "applying"), CloseApply(c),
           NEW r \in Client, r.step = "idle", Become(c, r),
           UNCHANGED <<updates, practice, applied>>, strays' \in 0..MaxStrays
    PROVE  /\ TypeOK' /\ Timeline' /\ Progress(c) /\ OthersSame(c)
           /\ client'[c] = r /\ Len(updates') \in Nat
<1>1. TypeOK /\ Ordered /\ Newest /\ Reserved /\ Superseded /\ Sound(c)
  BY DEF IInv, Timeline
<1>2. created' = Without(c) /\ c \in Open
  BY DEF CloseApply, Open
<1>3. DOMAIN updates \subseteq Numbers /\ Clients \cap Numbers = {} /\ Len(updates) \in Nat
  BY <1>1, Numbering
<1>4. Open' = Open \ {c}
  <2>1. {x \in {c} : r.step = "applying"} = {}
    OBVIOUS
  <2> QED
    BY <1>1, <2>1, OpenAfter
<1>5. /\ Ordered' /\ Newest'
      /\ \A x, y : x # c /\ y # c /\ Before(x, y) => Before(x, y)'
  BY <1>1, <1>2, <1>4, CloseOrders
<1>6. Reserved'
  BY <1>1, <1>2, <1>4, CloseReserves
<1>7. \A x \in Numbers, y \in Numbers : Before(x, y) => Before(x, y)'
  BY <1>3, <1>5
<1>8. Superseded'
  BY <1>1, <1>7, StillSuperseded DEF Superseded
<1>9. client' \in [Clients -> Client] /\ client'[c] = r /\ OthersSame(c)
  BY <1>1, BecomeIs DEF OthersSame
<1>10. TypeOK'
  <2>1. created' \in Seq((DOMAIN updates \cup Open)')
    BY <1>5 DEF Ordered
  <2>2. (DOMAIN updates \cup Open)' \subseteq Numbers \cup Clients
    BY <1>1, <1>3, <1>4, Numbering
  <2>3. created' \in Seq(Numbers \cup Clients)
    BY <2>1, <2>2, WiderSeq
  <2> QED
    BY <1>1, <1>9, <2>3 DEF TypeOK
<1>11. Progress(c)
  <2>1. \A n \in DOMAIN updates, d \in Clients \ {c} : Before(n, d) => Before(n, d)'
    BY <1>3, <1>5
  <2> QED
    BY <1>3, <2>1 DEF Progress
<1> QED
  BY <1>3, <1>5, <1>6, <1>8, <1>9, <1>10, <1>11 DEF Timeline

\* An application that finds its evaluation applied.
LEMMA ReapplyKeeps == ASSUME IInv, NEW c \in Clients, Reapply(c) PROVE Keeps(c)
<1> DEFINE n == client[c].source
           r == IF applied[n] = "own" THEN Answer(client[c]) ELSE Raise(client[c], "cross_owner")
<1>1. /\ At(c, "applying") /\ CloseApply(c) /\ Become(c, r) /\ n # 0 /\ applied[n] # None
      /\ UNCHANGED <<updates, practice, applied, strays>>
  BY DEF Reapply, Accepts
<1>2. TypeOK /\ Sound(c) /\ strays' \in 0..MaxStrays
  BY <1>1, StrayType DEF IInv
<1>3. n = client[c].update /\ n \in Numbers
  BY <1>1, <1>2, Numbering DEF Sound, Guided
<1>4. applied[n] = "own" \/ applied[n] = "other"
  BY <1>1, <1>2, <1>3 DEF TypeOK
<1>5. r \in Client /\ r.step = "idle"
  BY <1>2, AnswerIs, RaiseIs, ClientFields, ErrorNames
<1>6. /\ TypeOK' /\ Timeline' /\ Progress(c) /\ OthersSame(c)
      /\ client'[c] = r /\ Len(updates') \in Nat
  <2> HIDE DEF r
  <2> QED
    BY <1>1, <1>2, <1>5, CloseKeeps
<1>7. Sound(c)'
  <2>1. CASE applied[n] = "own"
    BY <1>2, <1>6, <2>1, AnsweredSound
  <2>2. CASE applied[n] # "own"
    <3>1. client'[c] = Raise(client[c], "cross_owner")
      BY <1>6, <2>2
    <3>2. Len(updates) <= Len(updates') /\ applied'[client[c].update] = "other"
      BY <1>1, <1>3, <1>4, <1>6, <2>2
    <3> QED
      BY <1>2, <1>3, <1>6, <3>1, <3>2, RaisedSound
  <2> QED
    BY <2>1, <2>2
<1> QED
  BY <1>6, <1>7 DEF Keeps

\* An application that commits: its update comes after the one whose practice it applies.
LEMMA ApplyKeeps == ASSUME IInv, NEW c \in Clients, NEW d \in Decisions, Apply(c, d) PROVE Keeps(c)
<1> DEFINE n == client[c].source
           id == Len(updates) + 1
           r == Answer(client[c])
<1>1. /\ At(c, "applying") /\ Accepts(n) /\ updates' = Append(updates, d) /\ Become(c, r)
      /\ created' = [i \in DOMAIN created |-> IF created[i] = c THEN id ELSE created[i]]
      /\ applied' = IF n = 0 THEN applied ELSE [applied EXCEPT ![n] = "own"]
      /\ UNCHANGED <<practice, strays>>
  BY DEF Apply
<1>2. TypeOK /\ Ordered /\ Newest /\ Reserved /\ Superseded /\ Sound(c)
  BY DEF IInv, Timeline
<1>3. c \in Open /\ c \notin Numbers
  BY <1>1, <1>2, Numbering DEF Open
<1>4. /\ DOMAIN updates \subseteq Numbers /\ Len(updates) \in Nat
      /\ DOMAIN updates = 1..Len(updates)
  BY <1>2, Numbering
<1>5. r \in Client /\ r.step = "idle"
  BY <1>2, AnswerIs, ClientFields
<1>6. Open' = Open \ {c}
  <2>1. {x \in {c} : r.step = "applying"} = {}
    BY <1>5
  <2> QED
    BY <1>1, <1>2, <2>1, OpenAfter
<1>7. /\ updates' \in Seq(Decisions) /\ Len(updates') = Len(updates) + 1
      /\ DOMAIN updates' = DOMAIN updates \cup {id} /\ id \in DOMAIN updates'
  <2>1. updates \in Seq(Decisions)
    BY <1>2 DEF TypeOK
  <2> QED
    BY <1>1, <2>1
<1>8. Reserved' /\ Len(updates) < MaxUpdates
  BY <1>2, <1>3, <1>6, <1>7, CloseReserves
<1>9. /\ Ordered' /\ Newest'
      /\ \A x, y : x # c /\ y # c /\ Before(x, y) => Before(x, y)'
      /\ \A x, y : x # c /\ y = Len(updates) + 1 /\ Before(x, c) => Before(x, y)'
  BY <1>1, <1>2, <1>3, <1>6, <1>8, CommitOrders
<1>10. n # 0 => n = client[c].update /\ n \in DOMAIN updates /\ Before(n, c) /\ applied[n] = None
  BY <1>1, <1>2 DEF Sound, Guided, Accepts
<1>11. \A k \in Numbers : applied'[k] = IF k = n /\ n # 0 THEN "own" ELSE applied[k]
  <2>1. applied \in [Numbers -> {None, "own", "other"}]
    BY <1>2 DEF TypeOK
  <2> QED
    BY <1>1, <2>1
<1>12. applied' \in [Numbers -> {None, "own", "other"}]
  BY <1>1, <1>2 DEF TypeOK
<1>13. Superseded'
  <2>1. \A x \in Numbers, y \in Numbers : Before(x, y) => Before(x, y)'
    BY <1>3, <1>9
  <2>2. ASSUME NEW k \in Numbers, k = n, n # 0 PROVE Overcome(k)'
    <3>1. Before(k, c) /\ k # c
      BY <1>3, <1>10, <2>2
    <3>2. PICK y \in DOMAIN updates' : y = Len(updates) + 1
      BY <1>7
    <3>3. Before(k, y)'
      BY <1>9, <3>1, <3>2
    <3> QED
      BY <3>3 DEF Overcome
  <2>3. \A k \in Numbers : applied'[k] = "own" => applied[k] = "own" \/ Overcome(k)'
    BY <1>11, <2>2
  <2> QED
    BY <1>2, <1>7, <2>1, <2>3, StillSuperseded
<1>14. client' \in [Clients -> Client] /\ client'[c] = r /\ OthersSame(c)
  BY <1>1, <1>2, <1>5, BecomeIs DEF OthersSame
<1>15. TypeOK'
  <2>1. created' \in Seq((DOMAIN updates \cup Open)')
    BY <1>9 DEF Ordered
  <2>2. (DOMAIN updates \cup Open)' \subseteq Numbers \cup Clients
    <3>1. id \in Numbers
      BY <1>4, <1>8, BoundAssumption DEF Numbers
    <3> QED
      BY <1>2, <1>4, <1>6, <1>7, <3>1, Numbering
  <2>3. created' \in Seq(Numbers \cup Clients)
    BY <2>1, <2>2, WiderSeq
  <2>4. Len(updates') <= MaxUpdates
    BY <1>4, <1>7, <1>8, BoundAssumption
  <2>5. practice' \in [Numbers -> Row] /\ strays' \in 0..MaxStrays
    BY <1>1, <1>2 DEF TypeOK
  <2> QED
    BY <1>7, <1>12, <1>14, <2>3, <2>4, <2>5 DEF TypeOK
<1>16. Progress(c)
  <2>1. \A k \in DOMAIN updates, e \in Clients \ {c} : Before(k, e) => Before(k, e)'
    BY <1>3, <1>4, <1>9
  <2>2. Len(updates) < Len(updates') /\ Len(updates) <= Len(updates') /\ Len(updates') \in Nat
    BY <1>4, <1>7
  <2>3. \A k \in Numbers : applied[k] # None => applied'[k] = applied[k]
    BY <1>10, <1>11
  <2> QED
    BY <1>1, <1>7, <2>1, <2>2, <2>3 DEF Progress
<1>17. Sound(c)'
  BY <1>2, <1>14, <1>16, AnsweredSound DEF Progress
<1> QED
  BY <1>8, <1>9, <1>13, <1>14, <1>15, <1>16, <1>17 DEF Keeps, Timeline

\* A call that fails gives back what it holds, or does not.
LEMMA FailKeeps == ASSUME IInv, NEW c \in Clients, Fail(c) PROVE Keeps(c)
<1> DEFINE n == client[c].update
           r == Raise(client[c], "unavailable")
<1>1. /\ Stray /\ CloseApply(c)
      /\ \/ ResetClaimIfOwned(c) \/ LeaveClaim(c)
         \/ ~At(c, "evaluating") /\ UNCHANGED practice
      /\ Become(c, r) /\ UNCHANGED <<updates, applied>>
  BY DEF Fail
<1>2. TypeOK /\ Sound(c) /\ strays' \in 0..MaxStrays
  BY <1>1, StrayType DEF IInv
<1>3. CASE At(c, "applying")
  <2>1. UNCHANGED practice
    BY <1>1, <1>3 DEF ResetClaimIfOwned, LeaveClaim, At
  <2>2. r \in Client /\ r.step = "idle"
    BY <1>2, RaiseIs, ClientFields, ErrorNames
  <2> HIDE DEF r
  <2>3. /\ TypeOK' /\ Timeline' /\ Progress(c) /\ OthersSame(c)
        /\ client'[c] = r /\ Len(updates') \in Nat
    BY <1>1, <1>2, <1>3, <2>1, <2>2, CloseKeeps
  <2>4. client'[c] = Raise(client[c], "unavailable") /\ Len(updates) <= Len(updates')
    BY <1>1, <2>3 DEF r
  <2>5. Sound(c)'
    <3>1. "unavailable" # "cross_owner"
      OBVIOUS
    <3> QED
      BY <1>2, <2>3, <2>4, <3>1, RaisedSound
  <2> QED
    BY <2>3, <2>5 DEF Keeps
<1>4. CASE ~At(c, "applying")
  <2>1. practice' \in [Numbers -> Row] /\ Forward
    <3>1. CASE UNCHANGED practice
      BY <1>2, <3>1, StillForward
    <3>2. CASE /\ At(c, "evaluating") /\ Holds(c)
               /\ \/ practice' = [practice EXCEPT ![n] = Generated]
                  \/ practice' = [practice EXCEPT ![n].holder = None]
      <4> DEFINE left == [practice[n] EXCEPT !.holder = None]
      <4>1. n \in Numbers
        BY <1>2, <3>2, Numbering DEF Sound, Guided, Concerned, At
      <4>2. practice[n] \in Row /\ practice[n].state = "submission_in_progress"
        BY <1>2, <3>2, <4>1 DEF Holds, Claimed, TypeOK
      <4>3. Generated \in Row /\ Generated.state # "none"
        BY <1>2, Rows
      <4>4. left \in Row /\ left.state = "submission_in_progress"
        BY <4>2 DEF Row
      <4>5. practice' = [practice EXCEPT ![n] = Generated] \/ practice' = [practice EXCEPT ![n] = left]
        BY <3>2
      <4> HIDE DEF left
      <4> QED
        BY <1>2, <4>1, <4>2, <4>3, <4>4, <4>5, PracticeMoves
    <3> QED
      BY <1>1, <3>1, <3>2 DEF ResetClaimIfOwned, LeaveClaim
  <2>2. UNCHANGED created
    BY <1>1, <1>4 DEF CloseApply
  <2> QED
    BY <1>1, <1>2, <1>4, <2>1, <2>2, ReturnKeeps
<1> QED
  BY <1>3, <1>4

\* Another learner takes an evaluation; no client of this one moves.
LEMMA ElsewhereKeeps ==
    ASSUME IInv, NEW n \in Numbers, ApplyElsewhere(n)
    PROVE  /\ TypeOK' /\ Timeline' /\ UNCHANGED client
           /\ \A c : Progress(c)
<1>1. TypeOK /\ Ordered /\ Newest /\ Reserved /\ Superseded
  BY DEF IInv, Timeline
<1>2. /\ applied[n] = None /\ Stray /\ applied' = [applied EXCEPT ![n] = "other"]
      /\ UNCHANGED <<updates, created, practice, client>>
  BY DEF ApplyElsewhere
<1>3. Open' = Open
  BY <1>2 DEF Open, At
<1>4. Ordered' /\ Newest' /\ \A x, y : Before(x, y) => Before(x, y)'
  BY <1>1, <1>2, <1>3, OrderKept
<1>5. applied' \in [Numbers -> {None, "own", "other"}]
  BY <1>1, <1>2 DEF TypeOK
<1>6. \A k \in Numbers : applied'[k] = IF k = n THEN "other" ELSE applied[k]
  BY <1>1, <1>2 DEF TypeOK
<1>7. Superseded'
  BY <1>1, <1>2, <1>4, <1>6, StillSuperseded DEF Superseded
<1>8. TypeOK'
  BY <1>1, <1>2, <1>5, StrayType DEF TypeOK
<1>9. Len(updates) \in Nat
  BY <1>1, Numbering
<1>10. \A c : Progress(c)
  BY <1>2, <1>4, <1>6, <1>9 DEF Progress
<1>11. Reserved'
  BY <1>1, <1>2, <1>3 DEF Reserved
<1> QED
  BY <1>2, <1>4, <1>7, <1>8, <1>10, <1>11 DEF Timeline

\* Clients that have asked for nothing yet, of a learner with no update.
LEMMA InitHolds == Init => IInv
<1> SUFFICES ASSUME Init PROVE IInv
  OBVIOUS
<1>1. updates = << >> /\ created = << >> /\ strays = 0
  BY DEF Init
<1>2. PICK e \in [Clients -> Essays] :
        client = [c \in Clients |-> [step |-> "idle", essay |-> e[c], update |-> 0,
                                     action |-> None, source |-> 0, known |-> 0,
                                     error |-> None]]
  BY DEF Init
<1>3. DOMAIN updates = {} /\ DOMAIN created = {} /\ Len(updates) = 0
  BY <1>1
<1>4. Open = {}
  BY <1>2 DEF Open, At
<1>5. \A n \in Numbers : practice[n] = NoPractice /\ applied[n] = None
  BY DEF Init
<1>6. TypeOK
  <2>1. 0 \in 0..MaxUpdates /\ 0 \in 0..MaxStrays /\ 0 <= MaxUpdates
    BY BoundAssumption
  <2>2. client \in [Clients -> Client]
    <3>1. ASSUME NEW c \in Clients PROVE client[c] \in Client
      BY <1>2, <2>1 DEF Client, Steps
    <3> QED
      BY <1>2, <3>1
  <2>3. NoPractice \in Row
    BY DEF NoPractice, Row
  <2>4. practice \in [Numbers -> Row] /\ applied \in [Numbers -> {None, "own", "other"}]
    BY <2>3 DEF Init
  <2>5. updates \in Seq(Decisions) /\ created \in Seq(Numbers \cup Clients)
    BY <1>1
  <2> QED
    BY <1>1, <1>3, <2>1, <2>2, <2>4, <2>5 DEF TypeOK
<1>7. Ordered
  <2>1. created \in Seq(DOMAIN updates \cup Open)
    BY <1>1
  <2> QED
    BY <1>3, <1>4, <2>1 DEF Ordered
<1>8. Newest
  BY <1>1 DEF Newest
<1>9. Reserved
  <2>1. IsFiniteSet(Open) /\ Cardinality(Open) = 0
    BY <1>4, FS_EmptySet
  <2> QED
    BY <1>3, <2>1, BoundAssumption DEF Reserved
<1>10. Superseded
  BY <1>5, NullAssumption DEF Superseded
<1>11. ASSUME NEW c \in Clients PROVE Sound(c)
  <2>1. /\ client[c].step = "idle" /\ client[c].error = None /\ client[c].known = 0
    BY <1>2
  <2>2. ~Concerned(c) /\ ~MayClaim(c) /\ ~Advised(c, {"complete_practice"}) /\ ~Reading(c)
    BY <2>1, ErrorNames DEF Concerned, MayClaim, Advised, Reading, At
  <2>3. ~At(c, "evaluating") /\ ~At(c, "completion") /\ ~At(c, "applying")
    BY <2>1 DEF At
  <2>4. Guided(c)
    BY <2>2, <2>3 DEF Guided
  <2>5. Overtaken(c)
    BY <1>3, <2>1, <2>2 DEF Overtaken
  <2>6. Told(c)
    BY <2>1, ErrorNames DEF Told
  <2> QED
    BY <2>4, <2>5, <2>6 DEF Sound
<1> QED
  BY <1>6, <1>7, <1>8, <1>9, <1>10, <1>11 DEF IInv, Timeline

-----------------------------------------------------------------------------
(***************************************************************************)
(* The theorems                                                            *)
(***************************************************************************)

\* The inductive invariant, for every number of clients and updates.
THEOREM ContextInvariant == Spec => []IInv
<1>1. IInv /\ [Next]_vars => IInv'
  <2> SUFFICES ASSUME IInv, [Next]_vars PROVE IInv'
    OBVIOUS
  <2>1. ASSUME NEW c \in Clients,
               Read(c) \/ Follow(c) \/ WriteEssay(c) \/ TakeOver(c) \/ Fail(c)
        PROVE  IInv'
    <3>1. Keeps(c)
      <4>1. CASE Read(c)
        BY <4>1, ReadLatestKeeps, ReadPracticeKeeps, ReadCompletionKeeps DEF Read
      <4>2. CASE Follow(c)
        BY <4>2, GenerateKeeps, SubmitKeeps, FinishKeeps, CompleteKeeps, ReapplyKeeps, ApplyKeeps
           DEF Follow
      <4> QED
        BY <2>1, <4>1, <4>2, WriteEssayKeeps, TakeOverKeeps, FailKeeps
    <3>2. ASSUME NEW d \in Clients PROVE Sound(d)'
      <4>1. CASE d = c
        BY <3>1, <4>1 DEF Keeps
      <4>2. CASE d # c
        BY <3>1, <4>2, Bystander DEF Keeps, OthersSame, IInv
      <4> QED
        BY <4>1, <4>2
    <3> QED
      BY <3>1, <3>2 DEF Keeps, IInv
  <2>2. ASSUME NEW n \in Numbers, ApplyElsewhere(n) PROVE IInv'
    <3>1. TypeOK' /\ Timeline' /\ UNCHANGED client /\ \A c : Progress(c)
      BY <2>2, ElsewhereKeeps
    <3>2. ASSUME NEW d \in Clients PROVE Sound(d)'
      <4>1. d \in Clients \ {n}
        BY Numbering DEF IInv
      <4> QED
        BY <3>1, <4>1, Bystander DEF IInv
    <3> QED
      BY <3>1, <3>2 DEF IInv
  <2>3. CASE UNCHANGED vars
    <3>1. UNCHANGED <<updates, created, practice, applied, client, strays>>
      BY <2>3 DEF vars
    <3>2. Open' = Open
      BY <3>1 DEF Open, At
    <3>3. TypeOK'
      BY <3>1 DEF IInv, TypeOK
    <3>4. Ordered' /\ Newest' /\ \A x, y : Before(x, y) => Before(x, y)'
      BY <3>1, <3>2, OrderKept DEF IInv, Timeline
    <3>5. Reserved'
      BY <3>1, <3>2 DEF IInv, Timeline, Reserved
    <3>6. Superseded'
      BY <3>1, <3>4, StillSuperseded DEF IInv, Timeline, Superseded
    <3>7. ASSUME NEW d \in Clients PROVE Sound(d)'
      <4>1. Guided(d)'
        BY <3>1 DEF IInv, Sound, Guided, Concerned, MayClaim, Advised, At, Before
      <4>2. Overtaken(d)'
        BY <3>1 DEF IInv, Sound, Overtaken, Reading, At
      <4>3. Told(d)'
        BY <3>1 DEF IInv, Sound, Told
      <4> QED
        BY <4>1, <4>2, <4>3 DEF Sound
    <3> QED
      BY <3>3, <3>4, <3>5, <3>6, <3>7 DEF IInv, Timeline
  <2> QED
    BY <2>1, <2>2, <2>3 DEF Next
<1> QED
  BY <1>1, InitHolds, PTL DEF Spec

\* TypeOK of the run.
THEOREM ContextTypes == Spec => []TypeOK
<1>1. IInv => TypeOK
  BY DEF IInv
<1> QED
  BY <1>1, ContextInvariant, PTL

\* UnreachableOnlyIfOvertaken of the run: of the three SELECTs of build_learner_context, the third
\* contradicts the first two only when somebody's update was committed between them, or another
\* learner has taken the evaluation.
THEOREM UnreachableIsOvertaken == Spec => []UnreachableOnlyIfOvertaken
<1>1. IInv => UnreachableOnlyIfOvertaken
  <2> SUFFICES ASSUME IInv, NEW c \in Clients, client[c].error = "invariant_error"
               PROVE  applied[client[c].update] = "other" \/ Len(updates) > client[c].known
    BY DEF UnreachableOnlyIfOvertaken
  <2> DEFINE n == client[c].update
  <2>1. n \in Numbers /\ applied[n] # None
    BY Numbering DEF IInv, Sound, Told
  <2>2. applied[n] = "own" \/ applied[n] = "other"
    BY <2>1 DEF IInv, TypeOK
  <2>3. applied[n] = "own" => client[c].known < Len(updates)
    BY DEF IInv, Sound, Overtaken, Reading
  <2>4. client[c].known \in Nat /\ Len(updates) \in Nat
    BY ClientFields, Numbering, BoundAssumption DEF IInv
  <2> QED
    BY <2>2, <2>3, <2>4
<1> QED
  BY <1>1, ContextInvariant, PTL

\* GuidedNeverRefused of the run: however late a client does what the context told it, it is not
\* told that there is nothing to do it to or that the practice is in another state.
THEOREM AdviceIsGood == Spec => []GuidedNeverRefused
<1>1. IInv => GuidedNeverRefused
  <2> SUFFICES ASSUME IInv, NEW c \in Clients, client[c].error # None
               PROVE  \/ Status[client[c].error] = 503
                      \/ client[c].error = "essay_conflict"
                      \/ client[c].error = "cross_owner" /\ applied[client[c].update] = "other"
    BY DEF GuidedNeverRefused
  <2>1. client[c].error \in Errors /\ client[c].error \notin {"not_found", "not_submitted"}
    BY ClientFields DEF IInv, Sound, Told
  <2>2. client[c].error = "cross_owner" => applied[client[c].update] = "other"
    BY DEF IInv, Sound, Told
  <2> QED
    BY <2>1, <2>2, ErrorNames
<1> QED
  BY <1>1, ContextInvariant, PTL

=============================================================================
