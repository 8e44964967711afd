--------------------------- MODULE OrdersTopicProofs ------------------------
(***************************************************************************)
(* Proofs about the two services that take the orders from the topic:      *)
(* Accounting, for any orders, replicas and bounds, and FraudDetection,    *)
(* for any length of a batch, any patience of the group, and any log and   *)
(* number of crashes; and about Producer, which checkout puts them there   *)
(* with.                                                                   *)
(***************************************************************************)
EXTENDS Accounting, FraudDetection, Producer, FiniteSetTheorems, FunctionTheorems, TLAPS

-----------------------------------------------------------------------------
(***************************************************************************)
(* Accounting.                                                             *)
(*                                                                         *)
(* That every committed message is accounted for is not inductive: what a  *)
(* commit adds has to be accounted for before it.  For the owner of the    *)
(* topic the strengthening speaks of the messages between the committed    *)
(* offset and its position, and of its own hand only: what another replica *)
(* holds of them may go with that replica, without a trace.                *)
(***************************************************************************)
Ahead(r) == (committed + 1) .. position[r]

OwnerIsAccountedFor ==
  \A r \in Replicas : owner = r =>
    /\ committed <= position[r]
    /\ \A i \in Ahead(r) : Settled(i) \/ inHand[r] = i

\* Each message a crash has taken is a crash.
CrashesCount == IsFiniteSet(killed) /\ Cardinality(killed) <= crashes

\* The key lets no order have its rows twice.
RowsOnce == \A o \in Orders : db[o] <= 1

IInv == TypeOK /\ RowsOnce /\ CommittedIsAccountedFor /\ OwnerIsAccountedFor /\ CrashesCount

Step(r) == Assign(r) \/ Revoke(r) \/ Consume(r) \/ AutoCommit(r) \/ Process(r) \/ Crash(r)

-----------------------------------------------------------------------------
\* In the first state nothing is published and nothing committed.
LEMMA Initially == Init => IInv
BY AccountingAssumption, FS_EmptySet
   DEF Init, IInv, TypeOK, RowsOnce, CommittedIsAccountedFor, OwnerIsAccountedFor,
       CrashesCount, Indexes

\* A step keeps the types.
LEMMA TypeStep == TypeOK /\ [Next]_vars => TypeOK'
<1> SUFFICES ASSUME TypeOK, [Next]_vars PROVE TypeOK'
  OBVIOUS
<1> USE AccountingAssumption DEF TypeOK, Indexes
<1>1. CASE UNCHANGED vars
  BY <1>1 DEF vars
<1>2. ASSUME NEW o \in Orders, Publish(o) PROVE TypeOK'
  BY <1>2 DEF Publish
<1>3. ASSUME NEW r \in Replicas, Assign(r) PROVE TypeOK'
  BY <1>3 DEF Assign
<1>4. ASSUME NEW r \in Replicas, Revoke(r) PROVE TypeOK'
  BY <1>4 DEF Revoke
<1>5. ASSUME NEW r \in Replicas, Consume(r) PROVE TypeOK'
  BY <1>5 DEF Consume
<1>6. ASSUME NEW r \in Replicas, AutoCommit(r) PROVE TypeOK'
  BY <1>6 DEF AutoCommit
<1>7. ASSUME NEW r \in Replicas, Process(r) PROVE TypeOK'
  <2>1. inHand[r] \in 1 .. Len(log) /\ Order(r) \in Orders
    BY <1>7 DEF Process, Save, SaveFails, Drop, Order
  <2>2. db' \in [Orders -> Nat] /\ failed' \subseteq 1 .. Len(log)
    <3>1. Rows(Order(r)) \in [Orders -> Nat]
      BY <2>1 DEF Rows
    <3>2. db' = db \/ db' = Rows(Order(r))
      BY <1>7 DEF Process, Save, SaveFails, Drop
    <3>3. failed' = failed \/ failed' = failed \cup {inHand[r]}
      BY <1>7 DEF Process, Save, SaveFails, Drop
    <3> QED
      BY <2>1, <3>1, <3>2, <3>3
  <2>3. inHand' \in [Replicas -> 0 .. Len(log)]
    BY <1>7 DEF Process, Save, SaveFails, Drop, LetGo
  <2>4. UNCHANGED <<log, committed, owner, position, killed, crashes>>
    BY <1>7 DEF Process, Save, SaveFails, Drop
  <2> QED
    BY <2>2, <2>3, <2>4
<1>8. ASSUME NEW r \in Replicas, Crash(r) PROVE TypeOK'
  <2>1. crashes' \in 0 .. MaxCrashes /\ owner' \in Replicas \cup {None}
    BY <1>8 DEF Crash
  <2>2. inHand' \in [Replicas -> 0 .. Len(log)]
    BY <1>8 DEF Crash, LetGo
  <2>3. 1 .. committed \subseteq 1 .. Len(log)
    OBVIOUS
  <2>4. killed' \subseteq 1 .. Len(log)
    BY <1>8, <2>3 DEF Crash
  <2> QED
    BY <1>8, <2>1, <2>2, <2>4 DEF Crash
<1> QED
  BY <1>1, <1>2, <1>3, <1>4, <1>5, <1>6, <1>7, <1>8 DEF Next

\* Rows are inserted where there are none.
LEMMA RowsStep == TypeOK /\ RowsOnce /\ [Next]_vars => RowsOnce'
<1> SUFFICES ASSUME TypeOK, RowsOnce, [Next]_vars, NEW o \in Orders
             PROVE  db'[o] <= 1
  BY DEF RowsOnce
<1> USE DEF TypeOK, RowsOnce
<1>1. ASSUME NEW r \in Replicas, Process(r) PROVE db'[o] <= 1
  BY <1>1 DEF Process, Save, SaveFails, Drop, Rows, KeyIsFree
<1>2. CASE ~\E r \in Replicas : Process(r)
  <2>1. db' = db
    BY <1>2 DEF Next, vars, Publish, Assign, Revoke, Consume, AutoCommit, Crash
  <2> QED
    BY <2>1
<1> QED
  BY <1>1, <1>2

\* What is settled stays settled: rows are never inserted again, and the
\* topic and the histories only grow.
LEMMA SettledStays ==
  ASSUME TypeOK, [Next]_vars, NEW i \in Indexes, Settled(i)
  PROVE  Settled(i)'
<1> USE DEF TypeOK, Indexes, Settled
<1>1. CASE UNCHANGED vars
  BY <1>1 DEF vars
<1>2. ASSUME NEW o \in Orders, Publish(o) PROVE Settled(i)'
  BY <1>2 DEF Publish
<1>3. ASSUME NEW r \in Replicas, Step(r) PROVE Settled(i)'
  <2>1. CASE Process(r)
    <3>1. UNCHANGED <<log, killed>> /\ failed \subseteq failed'
      BY <2>1 DEF Process, Save, SaveFails, Drop
    <3>2. db'[log[i]] = db[log[i]] \/ (db[log[i]] = 0 /\ db'[log[i]] = 1)
      BY <2>1 DEF Process, Save, SaveFails, Drop, Rows, KeyIsFree
    <3> QED
      BY <3>1, <3>2
  <2>2. CASE ~Process(r)
    BY <1>3, <2>2 DEF Step, Assign, Revoke, Consume, AutoCommit, Crash
  <2> QED
    BY <2>1, <2>2
<1> QED
  BY <1>1, <1>2, <1>3 DEF Next, Step

\* A replica that is done with a message has it no more, and has settled it.
LEMMA ProcessSettles ==
  ASSUME TypeOK, RowsOnce, NEW r \in Replicas, Process(r)
  PROVE  /\ \A i \in Indexes : inHand[r] = i => Settled(i)'
         /\ inHand' = [inHand EXCEPT ![r] = 0]
         /\ UNCHANGED <<log, committed, owner, position>>
<1>1. inHand' = [inHand EXCEPT ![r] = 0] /\ UNCHANGED <<log, committed, owner, position>>
  BY DEF Process, Save, SaveFails, Drop, LetGo
<1>2. ASSUME NEW i \in Indexes, inHand[r] = i PROVE Settled(i)'
  <2> DEFINE o == log[i]
  <2>1. o \in Orders /\ Order(r) = o /\ db \in [Orders -> Nat] /\ db[o] <= 1
    BY <1>2 DEF TypeOK, RowsOnce, Indexes, Order
  <2>2. db'[o] = 1 \/ o \in Unstorable \/ (db'[o] = 0 /\ i \in failed')
    <3> HIDE DEF o
    <3>1. CASE Save(r)
      BY <2>1, <3>1 DEF Save, Rows, KeyIsFree
    <3>2. CASE SaveFails(r)
      BY <1>2, <2>1, <3>2 DEF SaveFails, Rows, KeyIsFree
    <3>3. CASE Drop(r)
      BY <2>1, <3>3 DEF Drop, KeyIsFree, Storable
    <3> QED
      BY <3>1, <3>2, <3>3 DEF Process
  <2> QED
    BY <1>1, <2>2 DEF Settled
<1> QED
  BY <1>1, <1>2

\* A step keeps the committed messages accounted for.
LEMMA CommittedStep == IInv /\ [Next]_vars => CommittedIsAccountedFor'
<1> SUFFICES ASSUME IInv, [Next]_vars, NEW i \in 1 .. committed'
             PROVE  Settled(i)' \/ \E r \in Replicas : inHand'[r] = i
  BY DEF CommittedIsAccountedFor
<1>1. TypeOK /\ TypeOK' /\ RowsOnce
  BY TypeStep DEF IInv
<1> USE DEF TypeOK, Indexes
<1>2. CASE UNCHANGED vars
  BY <1>1, <1>2 DEF vars, IInv, CommittedIsAccountedFor, Settled
<1>3. ASSUME NEW o \in Orders, Publish(o)
      PROVE  Settled(i)' \/ \E r \in Replicas : inHand'[r] = i
  <2>1. i \in 1 .. committed /\ i \in Indexes /\ inHand' = inHand
    BY <1>1, <1>3 DEF Publish
  <2> QED
    BY <1>1, <2>1, SettledStays DEF IInv, CommittedIsAccountedFor
<1>4. ASSUME NEW q \in Replicas, Assign(q) \/ Consume(q)
      PROVE  Settled(i)' \/ \E r \in Replicas : inHand'[r] = i
  <2>1. i \in 1 .. committed /\ i \in Indexes
    BY <1>1, <1>4 DEF Assign, Consume
  <2>2. \A r \in Replicas : inHand[r] = i => inHand'[r] = i
    BY <1>1, <1>4, <2>1 DEF Assign, Consume
  <2> QED
    BY <1>1, <2>1, <2>2, SettledStays DEF IInv, CommittedIsAccountedFor
<1>5. ASSUME NEW q \in Replicas, Revoke(q) \/ AutoCommit(q)
      PROVE  Settled(i)' \/ \E r \in Replicas : inHand'[r] = i
  <2>1. owner = q /\ committed' \in {committed, position[q]} /\ inHand' = inHand
    BY <1>5 DEF Revoke, AutoCommit
  <2>2. i \in 1 .. committed \/ i \in Ahead(q)
    BY <1>1, <2>1 DEF IInv, OwnerIsAccountedFor, Ahead
  <2>3. i \in Indexes
    BY <1>1, <2>2 DEF Ahead
  <2>4. Settled(i) \/ \E r \in Replicas : inHand[r] = i
    BY <2>1, <2>2 DEF IInv, CommittedIsAccountedFor, OwnerIsAccountedFor
  <2> QED
    BY <1>1, <2>1, <2>3, <2>4, SettledStays
<1>6. ASSUME NEW q \in Replicas, Process(q)
      PROVE  Settled(i)' \/ \E r \in Replicas : inHand'[r] = i
  <2>1. i \in 1 .. committed /\ i \in Indexes
    <3>1. committed' = committed
      BY <1>6 DEF Process, Save, SaveFails, Drop
    <3> QED
      BY <1>1, <3>1
  <2>2. CASE Settled(i)
    BY <1>1, <2>1, <2>2, SettledStays
  <2>3. CASE inHand[q] = i
    <3>1. \A j \in Indexes : inHand[q] = j => Settled(j)'
      <4> HIDE DEF TypeOK, Indexes
      <4> QED
        BY <1>1, <1>6, ProcessSettles
    <3> QED
      BY <2>1, <2>3, <3>1
  <2>4. ASSUME NEW r \in Replicas, r # q, inHand[r] = i PROVE inHand'[r] = i
    <3>1. inHand' = [inHand EXCEPT ![q] = 0]
      BY <1>6 DEF Process, Save, SaveFails, Drop, LetGo
    <3> QED
      BY <1>1, <2>4, <3>1
  <2> QED
    BY <2>1, <2>2, <2>3, <2>4 DEF IInv, CommittedIsAccountedFor
<1>7. ASSUME NEW q \in Replicas, Crash(q)
      PROVE  Settled(i)' \/ \E r \in Replicas : inHand'[r] = i
  <2>1. i \in 1 .. committed /\ i \in Indexes
    BY <1>1, <1>7 DEF Crash
  <2>2. CASE Settled(i)
    BY <1>1, <2>1, <2>2, SettledStays
  <2>3. CASE inHand[q] = i
    <3>1. i \in killed' /\ db' = db /\ log' = log
      BY <1>7, <2>1, <2>3 DEF Crash
    <3>2. db[log[i]] = 0 \/ db[log[i]] = 1
      <4>1. log[i] \in Orders
        BY <1>1, <2>1
      <4>2. db[log[i]] \in Nat /\ db[log[i]] <= 1
        BY <1>1, <4>1 DEF RowsOnce
      <4> QED
        BY <4>2
    <3> QED
      BY <3>1, <3>2 DEF Settled
  <2>4. ASSUME NEW r \in Replicas, r # q, inHand[r] = i PROVE inHand'[r] = i
    BY <1>1, <1>7, <2>4 DEF Crash, LetGo
  <2> QED
    BY <2>1, <2>2, <2>3, <2>4 DEF IInv, CommittedIsAccountedFor
<1> QED
  BY <1>2, <1>3, <1>4, <1>5, <1>6, <1>7 DEF Next

\* A step keeps what the owner has passed and not committed accounted for.
LEMMA OwnerStep == IInv /\ [Next]_vars => OwnerIsAccountedFor'
<1> SUFFICES ASSUME IInv, [Next]_vars, NEW q \in Replicas, owner' = q
             PROVE  /\ committed' <= position'[q]
                    /\ \A i \in Ahead(q)' : Settled(i)' \/ inHand'[q] = i
  BY DEF OwnerIsAccountedFor
<1>1. TypeOK /\ TypeOK' /\ RowsOnce
  BY TypeStep DEF IInv
<1> USE DEF TypeOK, Indexes
<1>2. CASE Assign(q)
  BY <1>1, <1>2 DEF Assign, Ahead
<1>3. CASE Consume(q)
  <2>1. /\ owner = q /\ inHand[q] = 0 /\ committed' = committed
        /\ position'[q] = position[q] + 1 /\ inHand'[q] = position[q] + 1
    BY <1>1, <1>3 DEF Consume
  <2>2. committed <= position[q] /\ \A i \in Ahead(q) : Settled(i) \/ inHand[q] = i
    BY <2>1 DEF IInv, OwnerIsAccountedFor
  <2>3. ASSUME NEW i \in Ahead(q)', inHand'[q] # i PROVE Settled(i)'
    <3>1. i \in Ahead(q) /\ i \in Indexes
      <4>1. /\ committed \in Nat /\ position[q] \in Nat /\ Len(log) \in Nat
            /\ position[q] <= Len(log)
        BY <1>1
      <4>2. i \in (committed + 1) .. (position[q] + 1) /\ i # position[q] + 1
        BY <2>1, <2>3 DEF Ahead
      <4> QED
        BY <4>1, <4>2 DEF Ahead
    <3>2. Settled(i)
      BY <1>1, <2>1, <2>2, <3>1
    <3> QED
      BY <1>1, <3>1, <3>2, SettledStays
  <2> QED
    BY <1>1, <2>1, <2>2, <2>3
<1>4. CASE AutoCommit(q)
  BY <1>1, <1>4 DEF AutoCommit, Ahead
<1>5. CASE /\ owner = q /\ UNCHANGED <<committed, position>>
           /\ \A i \in Indexes : inHand[q] = i => Settled(i)' \/ inHand'[q] = i
  <2>1. committed <= position[q] /\ \A i \in Ahead(q) : Settled(i) \/ inHand[q] = i
    BY <1>5 DEF IInv, OwnerIsAccountedFor
  <2>2. ASSUME NEW i \in Ahead(q)' PROVE Settled(i)' \/ inHand'[q] = i
    <3>1. i \in Ahead(q) /\ i \in Indexes
      BY <1>1, <1>5, <2>2 DEF Ahead
    <3>2. CASE Settled(i)
      BY <1>1, <3>1, <3>2, SettledStays
    <3> QED
      BY <1>5, <2>1, <3>1, <3>2
  <2> QED
    BY <1>5, <2>1, <2>2
<1>6. CASE UNCHANGED vars \/ \E o \in Orders : Publish(o)
  <2>1. owner = q /\ UNCHANGED <<committed, position, inHand>>
    BY <1>6 DEF vars, Publish
  <2> QED
    BY <1>5, <2>1
<1>7. ASSUME NEW r \in Replicas, Process(r)
      PROVE  /\ committed' <= position'[q]
             /\ \A i \in Ahead(q)' : Settled(i)' \/ inHand'[q] = i
  <2>1. /\ \A i \in Indexes : inHand[r] = i => Settled(i)'
        /\ inHand' = [inHand EXCEPT ![r] = 0]
        /\ UNCHANGED <<log, committed, owner, position>>
    BY <1>1, <1>7, ProcessSettles
  <2>2. \A i \in Indexes : inHand[q] = i => Settled(i)' \/ inHand'[q] = i
    BY <1>1, <2>1
  <2> QED
    BY <1>5, <2>1, <2>2
<1>8. ASSUME NEW r \in Replicas, Crash(r)
      PROVE  /\ committed' <= position'[q]
             /\ \A i \in Ahead(q)' : Settled(i)' \/ inHand'[q] = i
  <2>1. owner = q /\ r # q /\ UNCHANGED <<committed, position>> /\ inHand'[q] = inHand[q]
    BY <1>1, <1>8, AccountingAssumption DEF Crash, LetGo
  <2> QED
    BY <1>5, <2>1
<1>9. ASSUME NEW r \in Replicas, r # q, Assign(r) \/ Consume(r) \/ AutoCommit(r) PROVE FALSE
  BY <1>9 DEF Assign, Consume, AutoCommit
<1>10. ASSUME NEW r \in Replicas, Revoke(r) PROVE FALSE
  BY <1>10, AccountingAssumption DEF Revoke
<1> QED
  BY <1>2, <1>3, <1>4, <1>6, <1>7, <1>8, <1>9, <1>10 DEF Next

\* A crash takes one message at most.
LEMMA CrashStep == IInv /\ [Next]_vars => CrashesCount'
<1> SUFFICES ASSUME IInv, [Next]_vars
             PROVE  CrashesCount'
  OBVIOUS
<1>1. TypeOK /\ IsFiniteSet(killed) /\ Cardinality(killed) <= crashes
  BY DEF IInv, CrashesCount
<1>2. ASSUME NEW r \in Replicas, Crash(r) PROVE CrashesCount'
  <2>1. crashes' = crashes + 1 /\ crashes \in Nat
    BY <1>1, <1>2 DEF Crash, TypeOK
  <2>2. killed' = killed \/ killed' = killed \cup {inHand[r]}
    BY <1>2 DEF Crash
  <2>3. Cardinality(killed) \in Nat
    BY <1>1, FS_CardinalityType
  <2>4. CASE killed' = killed
    BY <1>1, <2>1, <2>3, <2>4 DEF CrashesCount
  <2>5. CASE killed' = killed \cup {inHand[r]}
    <3> DEFINE i == inHand[r]
    <3> HIDE DEF i
    <3>1. /\ IsFiniteSet(killed \cup {i})
          /\ Cardinality(killed \cup {i}) = IF i \in killed THEN Cardinality(killed)
                                                          ELSE Cardinality(killed) + 1
      BY <1>1, FS_AddElement
    <3>2. killed' = killed \cup {i}
      BY <2>5 DEF i
    <3>3. Cardinality(killed \cup {i}) <= crashes + 1
      BY <1>1, <2>1, <2>3, <3>1
    <3>4. IsFiniteSet(killed') /\ Cardinality(killed') <= crashes'
      BY <2>1, <3>1, <3>2, <3>3
    <3> QED
      BY <3>4 DEF CrashesCount
  <2> QED
    BY <2>2, <2>4, <2>5
<1>3. ASSUME NEW o \in Orders, Publish(o) PROVE CrashesCount'
  BY <1>1, <1>3 DEF Publish, CrashesCount
<1>4. ASSUME NEW r \in Replicas, Assign(r) \/ Revoke(r) \/ Consume(r) \/ AutoCommit(r) \/ Process(r)
      PROVE  CrashesCount'
  <2>1. killed' = killed /\ crashes' = crashes
    BY <1>4 DEF Assign, Revoke, Consume, AutoCommit, Process, Save, SaveFails, Drop
  <2> QED
    BY <1>1, <2>1 DEF CrashesCount
<1>5. CASE UNCHANGED vars
  BY <1>1, <1>5 DEF vars, CrashesCount
<1> QED
  BY <1>2, <1>3, <1>4, <1>5 DEF Next

\* An order that is lost was in a message an exception or a crash has taken.
LEMMA LostIsCounted == IInv => LossIsBounded
<1> SUFFICES ASSUME IInv
             PROVE  LossIsBounded
  OBVIOUS
<1> DEFINE Taken == failed \cup killed
<1>1. TypeOK /\ CommittedIsAccountedFor /\ IsFiniteSet(killed) /\ Cardinality(killed) <= crashes
  BY DEF IInv, CrashesCount
<1>2. ASSUME NEW o \in Lost PROVE \E i \in Taken : log[i] = o
  <2>1. PICK i \in 1 .. committed : log[i] = o /\ \A r \in Replicas : inHand[r] # i
    BY DEF Lost
  <2>2. Settled(i)
    BY <1>1, <2>1 DEF CommittedIsAccountedFor
  <2>3. db[log[i]] = 0 /\ log[i] \notin Unstorable
    BY <2>1 DEF Lost
  <2> QED
    BY <2>1, <2>2, <2>3 DEF Settled
<1>3. IsFiniteSet(failed)
  <2>1. IsFiniteSet(1 .. Len(log))
    BY <1>1, FS_Interval DEF TypeOK
  <2>2. failed \in SUBSET (1 .. Len(log))
    BY <1>1 DEF TypeOK, Indexes
  <2> QED
    BY <2>1, <2>2, FS_Subset
<1>4. IsFiniteSet(Taken) /\ Cardinality(Taken) <= Cardinality(failed) + Cardinality(killed)
  <2>1. IsFiniteSet(failed \cap killed)
    BY <1>1, <1>3, FS_Intersection
  <2>2. /\ IsFiniteSet(Taken)
        /\ Cardinality(Taken) = Cardinality(failed) + Cardinality(killed) - Cardinality(failed \cap killed)
    BY <1>1, <1>3, FS_Union
  <2>3. /\ Cardinality(failed) \in Nat /\ Cardinality(killed) \in Nat
        /\ Cardinality(failed \cap killed) \in Nat
    BY <1>1, <1>3, <2>1, FS_CardinalityType
  <2> QED
    BY <2>2, <2>3
<1> DEFINE message == [o \in Lost |-> CHOOSE i \in Taken : log[i] = o]
<1>5. \A o \in Lost : message[o] \in Taken /\ log[message[o]] = o
  BY <1>2
<1>6. message \in Injection(Lost, Taken)
  <2>1. message \in [Lost -> Taken]
    BY <1>5
  <2> HIDE DEF message
  <2>2. \A o, p \in Lost : message[o] = message[p] => o = p
    BY <1>5
  <2> QED
    BY <2>1, <2>2, Fun_IsInj
<1> HIDE DEF message, Taken
<1>7. Cardinality(Lost) <= Cardinality(Taken) /\ IsFiniteSet(Lost)
  BY <1>4, <1>6, FS_Injection
<1>8. /\ Cardinality(Lost) \in Nat /\ Cardinality(Taken) \in Nat
      /\ Cardinality(failed) \in Nat /\ Cardinality(killed) \in Nat /\ crashes \in Nat
  BY <1>1, <1>3, <1>4, <1>7, FS_CardinalityType DEF TypeOK
<1> QED
  BY <1>1, <1>4, <1>7, <1>8 DEF LossIsBounded

-----------------------------------------------------------------------------
\* The inductive invariant holds in every state the service can reach.
THEOREM Invariance == Spec => []IInv
<1>1. IInv /\ [Next]_vars => IInv'
  BY TypeStep, RowsStep, CommittedStep, OwnerStep, CrashStep DEF IInv
<1> QED
  BY <1>1, Initially, PTL DEF Spec

\* The types are kept by publishing, consuming, committing, saving and crashing.
THEOREM TypeCorrect == Spec => []TypeOK
<1>1. IInv => TypeOK
  BY DEF IInv
<1> QED
  BY <1>1, Invariance, PTL

\* Whatever rebalances, commits by the timer, exceptions and crashes come
\* between: a committed message is saved once, cannot be, is still in a hand, or was
\* lost to one exception or one crash.
THEOREM CommittedOrders == Spec => []CommittedIsAccountedFor
<1>1. IInv => CommittedIsAccountedFor
  BY DEF IInv
<1> QED
  BY <1>1, Invariance, PTL

(***************************************************************************)
(* However rebalances, the timer's commits and the work of any number of   *)
(* replicas interleave, a crash costs one order and an exception of        *)
(* SaveChanges one order (Consumer.cs:133-138).                             *)
(***************************************************************************)
THEOREM LossesAreBounded == Spec => []LossIsBounded
BY Invariance, LostIsCounted, PTL

-----------------------------------------------------------------------------
(***************************************************************************)
(* FraudDetection.                                                         *)
(*                                                                         *)
(* What has been committed was a position the consumer had worked up to    *)
(* (DoneInv), and a batch is never longer than MaxPoll (BatchInv).         *)
(***************************************************************************)
\* What the consumer is done with was passed by it or by a former process.
DoneInv == \A i \in 1 .. done : Passed(i)

BatchInv == polled <= done + MaxPoll

FraudInv == FraudTypeOK /\ DoneInv /\ BatchInv /\ CommittedIsPassed /\ GarbageCostsItsBatch

Growing == counted \subseteq counted' /\ skipped \subseteq skipped' /\ missed \subseteq missed'

-----------------------------------------------------------------------------
LEMMA FraudInitially ==
  ASSUME FraudInit
  PROVE  FraudInv
<1> USE FraudAssumption
<1>1. records \in Seq(Kinds) /\ Len(records) = 0
  BY DEF FraudInit
<1>2. polled = 0 /\ done = 0 /\ stops = 0 /\ slept = 0 /\ offset = NoOffset
  BY DEF FraudInit
<1>3. counted = {} /\ skipped = {} /\ missed = {}
  BY DEF FraudInit
<1>4. running \in BOOLEAN /\ member \in BOOLEAN /\ slow \in BOOLEAN
  BY DEF FraudInit
<1>5. FraudTypeOK
  BY <1>1, <1>2, <1>3, <1>4 DEF FraudTypeOK
<1>6. DoneInv /\ BatchInv
  BY <1>2 DEF DoneInv, BatchInv
<1>7. CommittedIsPassed /\ GarbageCostsItsBatch
  BY <1>2, <1>3 DEF CommittedIsPassed, GarbageCostsItsBatch
<1> QED
  BY <1>5, <1>6, <1>7 DEF FraudInv

LEMMA FraudTypeStep ==
  ASSUME FraudTypeOK, [FraudNext]_fraudVars
  PROVE  FraudTypeOK'
<1> USE FraudAssumption
<1>1. ASSUME NEW kind \in Kinds, Produce(kind) PROVE FraudTypeOK'
  <2>1. records' \in Seq(Kinds) /\ Len(records') = Len(records) + 1
    BY <1>1 DEF Produce, FraudTypeOK
  <2> QED
    BY <1>1, <2>1 DEF Produce, FraudTypeOK, Offsets
<1>2. ASSUME Toggle PROVE FraudTypeOK'
  BY <1>2 DEF Toggle, FraudTypeOK, Offsets
<1>3. ASSUME Join PROVE FraudTypeOK'
  <2>1. Start \in 0 .. Len(records)
    BY DEF Start, FraudTypeOK
  <2>2. missed' \subseteq Offsets
    BY <1>3 DEF Join, FraudTypeOK, Offsets
  <2>3. polled' \in 0 .. Len(records) /\ done' \in 0 .. polled' /\ slept' \in 0 .. Patience + 1
    BY <1>3, <2>1 DEF Join
  <2> QED
    BY <1>3, <2>2, <2>3 DEF Join, FraudTypeOK, Offsets
<1>4. ASSUME Poll PROVE FraudTypeOK'
  BY <1>4 DEF Poll, Polling, FraudTypeOK, Offsets
<1>5. ASSUME Count PROVE FraudTypeOK'
  BY <1>5 DEF Count, FraudTypeOK, Offsets
<1>6. ASSUME ParseFails PROVE FraudTypeOK'
  <2>1. offset' \in 0 .. Len(records) \cup {NoOffset}
    BY <1>6 DEF ParseFails, FraudTypeOK
  <2>2. skipped' \subseteq Offsets
    <3>1. done + 1 .. polled \subseteq Offsets
      BY DEF FraudTypeOK, Offsets
    <3> QED
      BY <1>6, <3>1 DEF ParseFails, FraudTypeOK
  <2>3. running' \in BOOLEAN /\ member' \in BOOLEAN
    BY <1>6 DEF ParseFails
  <2> QED
    BY <1>6, <2>1, <2>2, <2>3 DEF ParseFails, FraudTypeOK, Offsets
<1>7. ASSUME Evict PROVE FraudTypeOK'
  BY <1>7 DEF Evict, FraudTypeOK, Offsets
<1>8. ASSUME Die PROVE FraudTypeOK'
  <2>1. stops' \in 0 .. MaxStops
    BY <1>8 DEF Die, FraudTypeOK
  <2>2. running' \in BOOLEAN /\ member' \in BOOLEAN
    BY <1>8 DEF Die
  <2> QED
    BY <1>8, <2>1, <2>2 DEF Die, FraudTypeOK, Offsets
<1>9. ASSUME Restart PROVE FraudTypeOK'
  <2>1. polled' \in 0 .. Len(records) /\ done' \in 0 .. polled' /\ slept' \in 0 .. Patience + 1
    BY <1>9 DEF Restart, FraudTypeOK
  <2> QED
    BY <1>9, <2>1 DEF Restart, FraudTypeOK, Offsets
<1>10. ASSUME UNCHANGED fraudVars PROVE FraudTypeOK'
  BY <1>10 DEF fraudVars, FraudTypeOK, Offsets
<1> QED
  BY <1>1, <1>2, <1>3, <1>4, <1>5, <1>6, <1>7, <1>8, <1>9, <1>10 DEF FraudNext

\* A record that was passed stays so, and a record keeps its place.
LEMMA CountsGrow ==
  ASSUME FraudTypeOK, [FraudNext]_fraudVars
  PROVE  /\ Growing
         /\ Len(records) <= Len(records')
         /\ \A i \in 1 .. Len(records) : records'[i] = records[i]
<1>1. ASSUME NEW kind \in Kinds, Produce(kind) PROVE records' = Append(records, kind) /\ Growing
  BY <1>1 DEF Produce, Growing
<1>2. ASSUME Toggle \/ Join \/ Poll \/ Count PROVE records' = records /\ Growing
  BY <1>2 DEF Toggle, Join, Poll, Count, Growing
<1>3. ASSUME ParseFails \/ Evict \/ Die \/ Restart PROVE records' = records /\ Growing
  BY <1>3 DEF ParseFails, Evict, Die, Restart, Growing
<1>4. ASSUME UNCHANGED fraudVars PROVE records' = records /\ Growing
  BY <1>4 DEF fraudVars, Growing
<1>5. records' = records \/ \E kind \in Kinds : records' = Append(records, kind)
  BY <1>1, <1>2, <1>3, <1>4 DEF FraudNext
<1>6. Growing
  BY <1>1, <1>2, <1>3, <1>4 DEF FraudNext
<1> QED
  BY <1>5, <1>6 DEF FraudTypeOK

-----------------------------------------------------------------------------
LEMMA DoneStep ==
  ASSUME FraudInv, [FraudNext]_fraudVars
  PROVE  DoneInv' /\ CommittedIsPassed'
<1> USE FraudAssumption
<1>1. FraudTypeOK /\ DoneInv /\ CommittedIsPassed /\ FraudTypeOK' /\ Growing
  BY FraudTypeStep, CountsGrow DEF FraudInv
<1>2. \A i : Passed(i) => Passed(i)'
  BY <1>1 DEF Passed, Growing
<1>3. ASSUME done' = done, offset' = offset PROVE DoneInv' /\ CommittedIsPassed'
  BY <1>1, <1>2, <1>3 DEF DoneInv, CommittedIsPassed, FraudTypeOK
<1>4. ASSUME Join PROVE DoneInv' /\ CommittedIsPassed'
  <2>1. offset' = offset /\ done' = Start
    BY <1>4 DEF Join
  <2>2. CASE offset = NoOffset
    <3>1. \A i \in 1 .. Len(records) : i \in missed'
      BY <1>4, <2>2 DEF Join
    <3>2. done' = Len(records)
      BY <2>1, <2>2 DEF Start
    <3> QED
      BY <2>1, <2>2, <3>1, <3>2 DEF DoneInv, CommittedIsPassed, Passed
  <2>3. CASE offset # NoOffset
    BY <1>1, <1>2, <2>1, <2>3 DEF DoneInv, CommittedIsPassed, Start
  <2> QED
    BY <2>2, <2>3
<1>5. ASSUME Poll PROVE DoneInv' /\ CommittedIsPassed'
  <2>1. done' = done /\ polled = done /\ offset' \in {offset, polled}
    BY <1>5 DEF Poll, Polling
  <2> QED
    BY <1>1, <1>2, <2>1 DEF DoneInv, CommittedIsPassed, FraudTypeOK
<1>6. ASSUME Count PROVE DoneInv' /\ CommittedIsPassed'
  <2>1. done' = done + 1 /\ offset' = offset /\ done + 1 \in counted'
    BY <1>6 DEF Count
  <2>2. \A i \in 1 .. done + 1 : i \in 1 .. done \/ i = done + 1
    BY <1>1 DEF FraudTypeOK
  <2> QED
    BY <1>1, <1>2, <2>1, <2>2 DEF DoneInv, CommittedIsPassed, Passed
<1>7. ASSUME ParseFails PROVE DoneInv' /\ CommittedIsPassed'
  <2>1. done' = done
    BY <1>7 DEF ParseFails
  <2>2. CASE offset' = offset
    BY <1>3, <2>1, <2>2
  <2>3. CASE offset' = polled /\ skipped' = skipped \cup (done + 1 .. polled)
    <3>1. \A i \in 1 .. polled : i \in 1 .. done \/ i \in skipped'
      BY <1>1, <2>3 DEF FraudTypeOK
    <3> QED
      BY <1>1, <1>2, <2>1, <2>3, <3>1 DEF DoneInv, CommittedIsPassed, Passed
  <2> QED
    BY <1>7, <2>2, <2>3 DEF ParseFails
<1>8. ASSUME Restart PROVE DoneInv' /\ CommittedIsPassed'
  <2>1. done' = 0 /\ offset' = offset
    BY <1>8 DEF Restart
  <2> QED
    BY <1>1, <1>2, <2>1 DEF DoneInv, CommittedIsPassed
<1>9. ASSUME NEW kind \in Kinds, Produce(kind) PROVE DoneInv' /\ CommittedIsPassed'
  BY <1>3, <1>9 DEF Produce
<1>10. ASSUME Toggle \/ Evict \/ Die \/ UNCHANGED fraudVars PROVE DoneInv' /\ CommittedIsPassed'
  BY <1>3, <1>10 DEF Toggle, Evict, Die, fraudVars
<1> QED
  BY <1>4, <1>5, <1>6, <1>7, <1>8, <1>9, <1>10 DEF FraudNext

LEMMA BatchStep ==
  ASSUME FraudInv, [FraudNext]_fraudVars
  PROVE  BatchInv'
<1> USE FraudAssumption DEF BatchInv
<1>1. FraudTypeOK /\ BatchInv
  BY DEF FraudInv
<1>2. ASSUME NEW kind \in Kinds, Produce(kind) PROVE BatchInv'
  BY <1>1, <1>2 DEF Produce
<1>3. ASSUME Join PROVE BatchInv'
  <2>1. Start \in Nat /\ polled' = Start /\ done' = Start
    BY <1>1, <1>3 DEF Join, Start, FraudTypeOK
  <2> QED
    BY <2>1
<1>4. ASSUME Poll PROVE BatchInv'
  BY <1>1, <1>4 DEF Poll, Polling, FraudTypeOK
<1>5. ASSUME Count PROVE BatchInv'
  BY <1>1, <1>5 DEF Count, FraudTypeOK
<1>6. ASSUME Toggle \/ ParseFails \/ Evict \/ Die \/ UNCHANGED fraudVars PROVE BatchInv'
  BY <1>1, <1>6 DEF Toggle, ParseFails, Evict, Die, fraudVars
<1>7. ASSUME Restart PROVE BatchInv'
  BY <1>7 DEF Restart
<1> QED
  BY <1>2, <1>3, <1>4, <1>5, <1>6, <1>7 DEF FraudNext

LEMMA GarbageStep ==
  ASSUME FraudInv, [FraudNext]_fraudVars
  PROVE  GarbageCostsItsBatch'
<1>1. FraudTypeOK /\ BatchInv /\ GarbageCostsItsBatch
  BY DEF FraudInv
<1>2. \A i \in 1 .. Len(records) : records'[i] = records[i]
  BY <1>1, CountsGrow
<1>3. ASSUME skipped' = skipped PROVE GarbageCostsItsBatch'
  BY <1>1, <1>2, <1>3 DEF GarbageCostsItsBatch, FraudTypeOK, Offsets
<1>4. ASSUME ParseFails PROVE GarbageCostsItsBatch'
  <2>1. CASE skipped' = skipped
    BY <1>3, <2>1
  <2>2. CASE skipped' = skipped \cup (done + 1 .. polled)
    <3>1. records' = records /\ records[done + 1] = "garbage"
      <4>1. done + 1 \in 1 .. Len(records) /\ records[done + 1] # "order" /\ records' = records
        BY <1>1, <1>4 DEF ParseFails, FraudTypeOK
      <4> QED
        BY <1>1, <4>1 DEF FraudTypeOK, Kinds
    <3>2. \A i \in done + 1 .. polled : done + 1 \in 1 .. i /\ i < done + 1 + MaxPoll
      BY <1>1, FraudAssumption DEF BatchInv, FraudTypeOK
    <3> QED
      BY <1>1, <2>2, <3>1, <3>2 DEF GarbageCostsItsBatch
  <2> QED
    BY <1>4, <2>1, <2>2 DEF ParseFails
<1>5. ASSUME NEW kind \in Kinds, Produce(kind) PROVE skipped' = skipped
  BY <1>5 DEF Produce
<1>6. Toggle \/ Join \/ Poll \/ Count => skipped' = skipped
  BY DEF Toggle, Join, Poll, Count
<1>7. Evict \/ Die \/ Restart \/ UNCHANGED fraudVars => skipped' = skipped
  BY DEF Evict, Die, Restart, fraudVars
<1> QED
  BY <1>3, <1>4, <1>5, <1>6, <1>7 DEF FraudNext

LEMMA FraudInvariance == FraudSpec => []FraudInv
<1>1. FraudInv /\ [FraudNext]_fraudVars => FraudInv'
  BY FraudTypeStep, DoneStep, BatchStep, GarbageStep DEF FraudInv
<1> QED
  BY FraudInitially, <1>1, PTL DEF FraudSpec

-----------------------------------------------------------------------------
(***************************************************************************)
(* The consumer's positions stay within the log, and what it is done with  *)
(* never passes what poll has returned (main.kt).                          *)
(***************************************************************************)
THEOREM FraudTypeCorrect == FraudSpec => []FraudTypeOK
<1>1. FraudInv => FraudTypeOK
  BY DEF FraudInv
<1> QED
  BY FraudInvariance, <1>1, PTL

(***************************************************************************)
(* No commit, of a poll or of close, covers a record that was neither      *)
(* counted nor given up by close nor before the group's start              *)
(* (main.kt:53-70).                                                        *)
(***************************************************************************)
THEOREM CommitsLoseNothing == FraudSpec => []CommittedIsPassed
<1>1. FraudInv => CommittedIsPassed
  BY DEF FraudInv
<1> QED
  BY FraudInvariance, <1>1, PTL

(***************************************************************************)
(* Whatever is skipped is in one batch with a record before it that does   *)
(* not parse (main.kt:64).                                                 *)
(***************************************************************************)
THEOREM GarbageIsContained == FraudSpec => []GarbageCostsItsBatch
<1>1. FraudInv => GarbageCostsItsBatch
  BY DEF FraudInv
<1> QED
  BY FraudInvariance, <1>1, PTL

-----------------------------------------------------------------------------
(***************************************************************************)
(* Producer.                                                               *)
(*                                                                         *)
(* That a call takes its own answer rests on SoloInv: while a sender waits *)
(* that has been alone so far, nobody else's message is in the pipeline.   *)
(* That only cancelled calls wedge it rests on Flow: what the pipeline     *)
(* holds is waited for, or was by a call that is gone.  Waiting may only   *)
(* shrink one by one, so the overload goroutines of a call must not have   *)
(* started before it is over (Turns).                                      *)
(***************************************************************************)
SoloInv ==
  \A s \in Senders : pc[s] = "wait" /\ s \notin shared =>
    buffer \subseteq {s} /\ \A a \in answers : a[1] = s

Turns ==
  /\ \A c \in left : pc[c] = "done"
  /\ \A s \in Copies : pc[s] # "idle" => pc[s[1]] = "done"

Flow ==
  Cardinality(buffer) + Cardinality(answers) <= Cardinality(Waiting) + Cardinality(left)

ProducerInv == ProducerTypeOK /\ OwnAnswer /\ SoloInv /\ Turns /\ Flow

-----------------------------------------------------------------------------
LEMMA ProducerInitially ==
  ASSUME ProducerInit
  PROVE  ProducerInv
<1>1. /\ buffer = {} /\ answers = {} /\ drained = {} /\ left = {} /\ shared = {}
      /\ \A s \in Senders : pc[s] = "idle" /\ got[s] = NoAnswer
      /\ \A c \in Calls : c \in Senders
  BY DEF ProducerInit, Senders
<1>2. ProducerTypeOK
  <2>1. Pipeline = 0 + 0
    BY <1>1, FS_EmptySet DEF Pipeline
  <2>2. Pipeline <= Capacity
    BY <2>1, ProducerAssumption
  <2> QED
    BY <2>2 DEF ProducerInit, ProducerTypeOK
<1>3. OwnAnswer
  BY <1>1 DEF OwnAnswer
<1>4. SoloInv /\ Turns
  BY <1>1 DEF SoloInv, Turns, Senders
<1>5. Waiting = {}
  BY <1>1 DEF Waiting
<1>6. Flow
  BY <1>1, <1>5, FS_EmptySet DEF Flow
<1> QED
  BY <1>2, <1>3, <1>4, <1>6 DEF ProducerInv

\* What the calls, their copies and the answers are counted in is finite.
LEMMA ProducerIsFinite ==
  IsFiniteSet(Senders) /\ IsFiniteSet(Answers)
<1>1. IsFiniteSet(1 .. Overload)
  BY FS_Interval, ProducerAssumption
<1>2. IsFiniteSet(Calls)
  BY ProducerAssumption
<1>3. IsFiniteSet(Copies)
  BY <1>1, <1>2, FS_Product DEF Copies
<1>4. IsFiniteSet(Senders)
  BY <1>2, <1>3, FS_Union DEF Senders
<1>5. IsFiniteSet({"success"} \cup {"error"})
  BY FS_Singleton, FS_AddElement
<1>6. Verdicts = {"success"} \cup {"error"}
  BY DEF Verdicts
<1>7. IsFiniteSet(Answers)
  BY <1>4, <1>5, <1>6, FS_Product DEF Answers
<1> QED
  BY <1>4, <1>7

\* A set with one element more or less than a finite one.
LEMMA OneMore ==
  ASSUME NEW S, NEW x, IsFiniteSet(S)
  PROVE  /\ Cardinality(S) \in Nat /\ Cardinality(S \cup {x}) \in Nat
         /\ Cardinality(S \cup {x}) <= Cardinality(S) + 1
         /\ x \notin S => Cardinality(S \cup {x}) = Cardinality(S) + 1
<1>1. Cardinality(S) \in Nat
  BY FS_CardinalityType
<1>2. Cardinality(S \cup {x}) = IF x \in S THEN Cardinality(S) ELSE Cardinality(S) + 1
  BY FS_AddElement
<1> QED
  BY <1>1, <1>2

LEMMA OneLess ==
  ASSUME NEW S, NEW x \in S, IsFiniteSet(S)
  PROVE  /\ Cardinality(S) \in Nat /\ Cardinality(S \ {x}) \in Nat
         /\ Cardinality(S \ {x}) = Cardinality(S) - 1
<1>1. Cardinality(S) \in Nat /\ IsFiniteSet(S \ {x})
  BY FS_CardinalityType, FS_RemoveElement
<1>2. Cardinality(S \ {x}) = Cardinality(S) - 1
  BY FS_RemoveElement
<1>3. Cardinality(S \ {x}) \in Nat
  BY <1>1, FS_CardinalityType
<1> QED
  BY <1>1, <1>2, <1>3

\* A call that leaves may start its overload goroutines; it is the only one
\* that stops to wait.
LEMMA Leaving ==
  ASSUME ProducerTypeOK, Turns, NEW c \in Calls, pc[c] # "done", Leave(c)
  PROVE  /\ pc' \in [Senders -> {"idle", "input", "wait", "done"}]
         /\ pc'[c] = "done"
         /\ \A s \in Senders : pc'[s] # pc[s] /\ s # c =>
              s \in Copies /\ s[1] = c /\ pc[s] = "idle" /\ pc'[s] = "input"
<1>1. c \in Senders /\ pc \in [Senders -> {"idle", "input", "wait", "done"}]
  BY DEF Senders, ProducerTypeOK
<1>2. CASE pc' = [pc EXCEPT ![c] = "done"]
  BY <1>1, <1>2
<1>3. CASE pc' = [s \in Senders |->
                    IF s = c THEN "done"
                    ELSE IF s \in {c} \X (1 .. Overload) THEN "input" ELSE pc[s]]
  <2>1. ASSUME NEW s \in {c} \X (1 .. Overload) PROVE s \in Copies /\ s[1] = c /\ pc[s] = "idle"
    <3>1. s \in Copies /\ s[1] = c
      BY <2>1 DEF Copies
    <3> QED
      BY <3>1 DEF Turns
  <2> QED
    BY <1>1, <1>3, <2>1
<1> QED
  BY <1>2, <1>3 DEF Leave

-----------------------------------------------------------------------------
\* A message is accepted where there is room, and an answer takes the place
\* of its message.
LEMMA PipelineStep ==
  ASSUME ProducerTypeOK, [ProducerNext]_producerVars
  PROVE  (Pipeline <= Capacity)'
<1> DEFINE b == Cardinality(buffer)
           a == Cardinality(answers)
<1>1. IsFiniteSet(buffer) /\ IsFiniteSet(answers)
  BY ProducerIsFinite, FS_Subset DEF ProducerTypeOK
<1>2. b \in Nat /\ a \in Nat /\ Capacity \in Nat /\ b + a <= Capacity
  BY <1>1, FS_CardinalityType, ProducerAssumption DEF ProducerTypeOK, Pipeline
<1>3. ASSUME NEW s \in Senders, Accept(s) PROVE (Pipeline <= Capacity)'
  <2>1. b + a < Capacity /\ buffer' = buffer \cup {s} /\ answers' = answers
    BY <1>3 DEF Accept, Pipeline
  <2>2. Cardinality(buffer \cup {s}) \in Nat /\ Cardinality(buffer \cup {s}) <= b + 1
    BY <1>1, OneMore
  <2>3. Cardinality(buffer') + Cardinality(answers') <= Capacity
    <3>1. Cardinality(buffer') = Cardinality(buffer \cup {s}) /\ Cardinality(answers') = a
      BY <2>1
    <3> HIDE DEF a, b
    <3> QED
      BY <1>2, <2>1, <2>2, <3>1
  <2> QED
    BY <2>3 DEF Pipeline
<1>4. ASSUME NEW s \in Senders, Resolve(s) PROVE (Pipeline <= Capacity)'
  <2>1. PICK v \in Verdicts : answers' = answers \cup {<<s, v>>}
    BY <1>4 DEF Resolve
  <2>2. s \in buffer /\ buffer' = buffer \ {s}
    BY <1>4 DEF Resolve
  <2>3. Cardinality(buffer \ {s}) \in Nat /\ Cardinality(buffer \ {s}) = b - 1
    BY <1>1, <2>2, OneLess
  <2> DEFINE v1 == <<s, v>>
  <2>4. Cardinality(answers \cup {v1}) \in Nat /\ Cardinality(answers \cup {v1}) <= a + 1
    <3> HIDE DEF v1
    <3> QED
      BY <1>1, OneMore
  <2>5. Cardinality(buffer') + Cardinality(answers') <= Capacity
    <3>1. /\ Cardinality(buffer') = Cardinality(buffer \ {s})
          /\ Cardinality(answers') = Cardinality(answers \cup {v1})
      BY <2>1, <2>2
    <3> HIDE DEF a, b, v1
    <3> QED
      BY <1>2, <2>3, <2>4, <3>1
  <2> QED
    BY <2>5 DEF Pipeline
<1>5. ASSUME buffer' = buffer, NEW x \in answers, answers' = answers \ {x}
      PROVE  (Pipeline <= Capacity)'
  <2>1. Cardinality(answers \ {x}) \in Nat /\ Cardinality(answers \ {x}) = a - 1
    BY <1>1, OneLess
  <2>2. Cardinality(buffer') + Cardinality(answers') <= Capacity
    <3>1. Cardinality(buffer') = b /\ Cardinality(answers') = Cardinality(answers \ {x})
      BY <1>5
    <3> HIDE DEF a, b
    <3> QED
      BY <1>2, <2>1, <3>1
  <2> QED
    BY <2>2 DEF Pipeline
<1>6. CASE UNCHANGED <<buffer, answers>>
  BY <1>2, <1>6 DEF Pipeline
<1>7. ASSUME NEW c \in Calls, NEW x \in answers, Receive(c, x)
      PROVE  (Pipeline <= Capacity)'
  <2>1. buffer' = buffer /\ answers' = answers \ {x}
    BY <1>7 DEF Receive
  <2> QED
    BY <1>5, <2>1
<1>8. ASSUME NEW s \in Copies, NEW x \in answers, ReceiveCopy(s, x)
      PROVE  (Pipeline <= Capacity)'
  <2>1. buffer' = buffer /\ answers' = answers \ {x}
    BY <1>8 DEF ReceiveCopy
  <2> QED
    BY <1>5, <2>1
<1>9. ASSUME NEW x \in answers, Drain(x)
      PROVE  (Pipeline <= Capacity)'
  <2>1. buffer' = buffer /\ answers' = answers \ {x}
    BY <1>9 DEF Drain
  <2> QED
    BY <1>5, <2>1
<1>10. ASSUME NEW c \in Calls, Begin(c) \/ CancelInput(c) \/ CancelWait(c)
       PROVE  UNCHANGED <<buffer, answers>>
  BY <1>10 DEF Begin, CancelInput, CancelWait
<1>11. UNCHANGED producerVars => UNCHANGED <<buffer, answers>>
  BY DEF producerVars
<1> QED
  BY <1>3, <1>4, <1>6, <1>7, <1>8, <1>9, <1>10, <1>11 DEF ProducerNext

\* Each send, answer and reception keeps the types.
LEMMA ProducerTypeStep ==
  ASSUME ProducerTypeOK, Turns, [ProducerNext]_producerVars
  PROVE  ProducerTypeOK'
<1> DEFINE Types == /\ pc \in [Senders -> {"idle", "input", "wait", "done"}]
                    /\ got \in [Senders -> Answers \cup {NoAnswer}]
                    /\ buffer \subseteq Senders
                    /\ answers \subseteq Answers /\ drained \subseteq Answers
                    /\ left \subseteq Calls
                    /\ shared \subseteq Senders
<1> USE DEF ProducerTypeOK
<1>1. ASSUME NEW c \in Calls, Begin(c) \/ CancelInput(c) PROVE Types'
  BY <1>1 DEF Begin, CancelInput
<1>2. ASSUME NEW c \in Calls, CancelWait(c) PROVE Types'
  <2>1. pc' \in [Senders -> {"idle", "input", "wait", "done"}]
    BY <1>2, Leaving DEF CancelWait
  <2> QED
    BY <1>2, <2>1 DEF CancelWait
<1>3. ASSUME NEW s \in Senders, Accept(s) PROVE Types'
  BY <1>3 DEF Accept, Waiting
<1>4. ASSUME NEW s \in Senders, Resolve(s) PROVE Types'
  <2>1. PICK v \in Verdicts : answers' = answers \cup {<<s, v>>}
    BY <1>4 DEF Resolve
  <2>2. answers' \subseteq Answers
    BY <2>1 DEF Answers
  <2> QED
    BY <1>4, <2>2 DEF Resolve
<1>5. ASSUME NEW c \in Calls, NEW a \in answers, Receive(c, a) PROVE Types'
  <2>1. pc' \in [Senders -> {"idle", "input", "wait", "done"}]
    BY <1>5, Leaving DEF Receive
  <2> QED
    BY <1>5, <2>1 DEF Receive
<1>6. ASSUME NEW s \in Copies, NEW a \in answers, ReceiveCopy(s, a) PROVE Types'
  BY <1>6 DEF ReceiveCopy
<1>7. ASSUME NEW a \in answers, Drain(a) PROVE Types'
  BY <1>7 DEF Drain
<1>8. ASSUME UNCHANGED producerVars PROVE Types'
  BY <1>8 DEF producerVars
<1>9. Types'
  BY <1>1, <1>2, <1>3, <1>4, <1>5, <1>6, <1>7, <1>8 DEF ProducerNext
<1> QED
  BY <1>9, PipelineStep

\* A copy starts when its call is over, and a call that is over stays so.
LEMMA TurnsStep ==
  ASSUME ProducerTypeOK, Turns, [ProducerNext]_producerVars
  PROVE  Turns'
<1>1. /\ \A c \in left : c \in Calls /\ c \in Senders /\ pc[c] = "done"
      /\ \A s \in Copies : s \in Senders /\ s[1] \in Calls /\ s[1] \in Senders
      /\ \A s \in Copies : s \notin Calls
      /\ pc \in [Senders -> {"idle", "input", "wait", "done"}]
  BY ProducerAssumption DEF Turns, ProducerTypeOK, Senders, Copies
<1>2. ASSUME NEW c \in Calls, Begin(c) \/ CancelInput(c) PROVE Turns'
  BY <1>1, <1>2 DEF Begin, CancelInput, Turns
<1>3. ASSUME NEW c \in Calls, pc[c] = "wait", Leave(c), left' \in {left, left \cup {c}} PROVE Turns'
  <2>1. /\ pc'[c] = "done"
        /\ \A s \in Senders : pc'[s] # pc[s] /\ s # c => s \in Copies /\ s[1] = c /\ pc[s] = "idle"
    BY <1>3, Leaving
  <2>2. \A d \in left' : pc'[d] = "done"
    BY <1>1, <1>3, <2>1
  <2>3. ASSUME NEW s \in Copies, pc'[s] # "idle" PROVE pc'[s[1]] = "done"
    <3>1. CASE s[1] = c
      BY <2>1, <3>1
    <3>2. CASE s[1] # c
      <4>1. pc'[s] = pc[s] /\ pc[s[1]] = "done"
        BY <1>1, <1>3, <2>1, <2>3, <3>2 DEF Turns
      <4> QED
        BY <1>1, <2>1, <3>2, <4>1
    <3> QED
      BY <3>1, <3>2
  <2> QED
    BY <2>2, <2>3 DEF Turns
<1>4. ASSUME NEW s \in Senders, Accept(s) PROVE Turns'
  BY <1>1, <1>4 DEF Accept, Turns
<1>5. ASSUME NEW s \in Copies, NEW a \in answers, ReceiveCopy(s, a) PROVE Turns'
  BY <1>1, <1>5 DEF ReceiveCopy, Turns
<1>6. ASSUME NEW c \in Calls, CancelWait(c) \/ \E a \in answers : Receive(c, a) PROVE Turns'
  BY <1>3, <1>6 DEF CancelWait, Receive
<1>7. ASSUME UNCHANGED <<pc, left>> PROVE Turns'
  BY <1>7 DEF Turns
<1>8. ASSUME NEW s \in Senders, Resolve(s) PROVE Turns'
  BY <1>7, <1>8 DEF Resolve
<1>9. ASSUME NEW a \in answers, Drain(a) PROVE Turns'
  BY <1>7, <1>9 DEF Drain
<1>10. CASE UNCHANGED producerVars
  BY <1>7, <1>10 DEF producerVars
<1> QED
  BY <1>2, <1>4, <1>5, <1>6, <1>8, <1>9, <1>10 DEF ProducerNext

\* A sender that has been alone so far finds only its own message, or the
\* answer to it.
LEMMA SoloStep ==
  ASSUME ProducerTypeOK, OwnAnswer, SoloInv, Turns, [ProducerNext]_producerVars
  PROVE  OwnAnswer' /\ SoloInv'
<1>1. /\ pc \in [Senders -> {"idle", "input", "wait", "done"}]
      /\ got \in [Senders -> Answers \cup {NoAnswer}]
      /\ \A c \in Calls : c \in Senders
      /\ \A s \in Copies : s \in Senders /\ s \notin Calls
  BY ProducerAssumption DEF ProducerTypeOK, Senders
<1>2. ASSUME /\ \A s \in Senders : pc'[s] = "wait" => pc[s] = "wait"
             /\ shared' = shared /\ buffer' \subseteq buffer
             /\ answers' \subseteq answers
      PROVE  SoloInv'
  BY <1>2 DEF SoloInv
<1>3. ASSUME got' = got, shared \subseteq shared' PROVE OwnAnswer'
  BY <1>3 DEF OwnAnswer
<1>4. ASSUME NEW c \in Calls, pc[c] # "done", Leave(c)
      PROVE  \A s \in Senders : pc'[s] = "wait" => pc[s] = "wait"
  BY <1>4, Leaving
<1>5. ASSUME NEW c \in Calls, Begin(c) \/ CancelInput(c) PROVE OwnAnswer' /\ SoloInv'
  <2>1. \A s \in Senders : pc'[s] = "wait" => pc[s] = "wait"
    BY <1>1, <1>5 DEF Begin, CancelInput
  <2> QED
    BY <1>2, <1>3, <1>5, <2>1 DEF Begin, CancelInput
<1>6. ASSUME NEW c \in Calls, CancelWait(c) PROVE OwnAnswer' /\ SoloInv'
  BY <1>2, <1>3, <1>4, <1>6 DEF CancelWait
<1>7. ASSUME NEW s \in Senders, Accept(s) PROVE OwnAnswer' /\ SoloInv'
  <2>1. OwnAnswer'
    BY <1>3, <1>7 DEF Accept
  <2>2. CASE buffer = {} /\ answers = {} /\ Waiting = {}
    <3>1. buffer' = {s} /\ answers' = {} /\ \A t \in Senders : pc'[t] = "wait" => t = s
      BY <1>1, <1>7, <2>2 DEF Accept, Waiting
    <3> QED
      BY <2>1, <3>1 DEF SoloInv
  <2>3. CASE ~(buffer = {} /\ answers = {} /\ Waiting = {})
    <3>1. \A t \in Senders : pc'[t] = "wait" => t \in Waiting \cup {s}
      BY <1>1, <1>7 DEF Accept, Waiting
    <3>2. Waiting \cup {s} \subseteq shared'
      BY <1>7, <2>3 DEF Accept
    <3> QED
      BY <2>1, <3>1, <3>2 DEF SoloInv
  <2> QED
    BY <2>2, <2>3
<1>8. ASSUME NEW s \in Senders, Resolve(s) PROVE OwnAnswer' /\ SoloInv'
  <2>1. PICK v \in Verdicts : answers' = answers \cup {<<s, v>>}
    BY <1>8 DEF Resolve
  <2>2. s \in buffer /\ buffer' = buffer \ {s} /\ pc' = pc /\ shared' = shared /\ got' = got
    BY <1>8 DEF Resolve
  <2>3. ASSUME NEW t \in Senders, pc[t] = "wait", t \notin shared
        PROVE  buffer' \subseteq {t} /\ \A a \in answers' : a[1] = t
    <3>1. buffer \subseteq {t} /\ \A a \in answers : a[1] = t
      BY <2>3 DEF SoloInv
    <3>2. <<s, v>>[1] = t
      BY <2>2, <3>1
    <3> QED
      BY <2>1, <2>2, <3>1, <3>2
  <2> QED
    BY <1>3, <2>2, <2>3 DEF SoloInv
<1>9. ASSUME NEW c \in Calls, NEW a \in answers, Receive(c, a) PROVE OwnAnswer' /\ SoloInv'
  <2>1. SoloInv'
    BY <1>2, <1>4, <1>9 DEF Receive
  <2>2. c \notin shared => a[1] = c
    BY <1>1, <1>9 DEF Receive, SoloInv
  <2>3. OwnAnswer'
    BY <1>1, <1>9, <2>2 DEF Receive, OwnAnswer
  <2> QED
    BY <2>1, <2>3
<1>10. ASSUME NEW s \in Copies, NEW a \in answers, ReceiveCopy(s, a) PROVE OwnAnswer' /\ SoloInv'
  <2>1. \A t \in Senders : pc'[t] = "wait" => pc[t] = "wait"
    BY <1>1, <1>10 DEF ReceiveCopy
  <2>2. OwnAnswer'
    BY <1>1, <1>10 DEF ReceiveCopy, OwnAnswer
  <2> QED
    BY <1>2, <1>10, <2>1, <2>2 DEF ReceiveCopy
<1>11. ASSUME NEW a \in answers, Drain(a) PROVE OwnAnswer' /\ SoloInv'
  BY <1>2, <1>3, <1>11 DEF Drain
<1>12. CASE UNCHANGED producerVars
  BY <1>2, <1>3, <1>12 DEF producerVars
<1> QED
  BY <1>5, <1>6, <1>7, <1>8, <1>9, <1>10, <1>11, <1>12 DEF ProducerNext

\* Whoever stops to wait takes an answer with him, or is counted as cancelled.
LEMMA FlowStep ==
  ASSUME ProducerTypeOK, Turns, Flow, [ProducerNext]_producerVars
  PROVE  Flow'
<1>1. /\ pc \in [Senders -> {"idle", "input", "wait", "done"}]
      /\ \A c \in Calls : c \in Senders
      /\ \A s \in Copies : s \in Senders /\ s \notin Calls
  BY ProducerAssumption DEF ProducerTypeOK, Senders
<1>2. /\ IsFiniteSet(buffer) /\ IsFiniteSet(answers) /\ IsFiniteSet(Waiting) /\ IsFiniteSet(left)
  <2>1. buffer \in SUBSET Senders /\ answers \in SUBSET Answers
        /\ Waiting \in SUBSET Senders /\ left \in SUBSET Senders
    BY DEF ProducerTypeOK, Waiting, Senders
  <2> QED
    BY <2>1, ProducerIsFinite, FS_Subset
<1>3. /\ Cardinality(buffer) \in Nat /\ Cardinality(answers) \in Nat
      /\ Cardinality(Waiting) \in Nat /\ Cardinality(left) \in Nat
  BY <1>2, FS_CardinalityType
<1>4. ASSUME NEW c \in Calls, pc[c] = "wait", Leave(c) PROVE Waiting' = Waiting \ {c}
  <2>1. \A s \in Senders : pc'[s] = "wait" <=> pc[s] = "wait" /\ s # c
    BY <1>1, <1>4, Leaving
  <2> QED
    BY <2>1 DEF Waiting
<1>5. ASSUME NEW s \in Waiting, NEW a \in answers, Waiting' = Waiting \ {s},
             answers' = answers \ {a}, UNCHANGED <<buffer, left>>
      PROVE  Flow'
  <2>1. Cardinality(Waiting \ {s}) = Cardinality(Waiting) - 1
    BY <1>2, <1>5, OneLess
  <2>2. Cardinality(answers \ {a}) = Cardinality(answers) - 1
    BY <1>2, <1>5, OneLess
  <2> QED
    BY <1>3, <1>5, <2>1, <2>2 DEF Flow
<1>6. ASSUME NEW c \in Calls, Begin(c) \/ CancelInput(c) PROVE Flow'
  <2>1. Waiting' = Waiting
    BY <1>1, <1>6 DEF Begin, CancelInput, Waiting
  <2> QED
    BY <1>6, <2>1 DEF Begin, CancelInput, Flow
<1>7. ASSUME NEW c \in Calls, CancelWait(c) PROVE Flow'
  <2>1. c \in Waiting /\ Waiting' = Waiting \ {c} /\ c \notin left /\ left' = left \cup {c}
        /\ UNCHANGED <<buffer, answers>>
    BY <1>1, <1>4, <1>7 DEF CancelWait, Waiting, Turns
  <2>2. Cardinality(Waiting \ {c}) = Cardinality(Waiting) - 1
    BY <1>2, <2>1, OneLess
  <2>3. Cardinality(left \cup {c}) = Cardinality(left) + 1
    BY <1>2, <2>1, OneMore
  <2> QED
    BY <1>3, <2>1, <2>2, <2>3 DEF Flow
<1>8. ASSUME NEW s \in Senders, Accept(s) PROVE Flow'
  <2>1. s \notin Waiting /\ Waiting' = Waiting \cup {s} /\ buffer' = buffer \cup {s}
        /\ UNCHANGED <<answers, left>>
    BY <1>1, <1>8 DEF Accept, Waiting
  <2>2. Cardinality(Waiting \cup {s}) = Cardinality(Waiting) + 1
    BY <1>2, <2>1, OneMore
  <2>3. Cardinality(buffer \cup {s}) <= Cardinality(buffer) + 1 /\ Cardinality(buffer \cup {s}) \in Nat
    BY <1>2, OneMore
  <2> QED
    BY <1>3, <2>1, <2>2, <2>3 DEF Flow
<1>9. ASSUME NEW s \in Senders, Resolve(s) PROVE Flow'
  <2>1. PICK v \in Verdicts : answers' = answers \cup {<<s, v>>}
    BY <1>9 DEF Resolve
  <2>2. s \in buffer /\ buffer' = buffer \ {s} /\ Waiting' = Waiting /\ left' = left
    BY <1>9 DEF Resolve, Waiting
  <2>3. Cardinality(buffer \ {s}) = Cardinality(buffer) - 1
    BY <1>2, <2>2, OneLess
  <2>4. Cardinality(answers \cup {<<s, v>>}) <= Cardinality(answers) + 1
        /\ Cardinality(answers \cup {<<s, v>>}) \in Nat
    BY <1>2, OneMore
  <2> QED
    BY <1>3, <2>1, <2>2, <2>3, <2>4 DEF Flow
<1>10. ASSUME NEW c \in Calls, NEW a \in answers, Receive(c, a) PROVE Flow'
  <2>1. c \in Waiting /\ Waiting' = Waiting \ {c}
    BY <1>1, <1>4, <1>10 DEF Receive, Waiting
  <2> QED
    BY <1>5, <1>10, <2>1 DEF Receive
<1>11. ASSUME NEW s \in Copies, NEW a \in answers, ReceiveCopy(s, a) PROVE Flow'
  <2>1. s \in Waiting /\ Waiting' = Waiting \ {s}
    BY <1>1, <1>11 DEF ReceiveCopy, Waiting
  <2> QED
    BY <1>5, <1>11, <2>1 DEF ReceiveCopy
<1>12. ASSUME NEW a \in answers, Drain(a) PROVE Flow'
  <2>1. Cardinality(answers \ {a}) = Cardinality(answers) - 1
    BY <1>2, OneLess
  <2>2. answers' = answers \ {a} /\ UNCHANGED <<buffer, Waiting, left>>
    BY <1>12 DEF Drain, Waiting
  <2> QED
    BY <1>3, <2>1, <2>2 DEF Flow
<1>13. CASE UNCHANGED producerVars
  BY <1>13 DEF producerVars, Waiting, Flow
<1> QED
  BY <1>6, <1>7, <1>8, <1>9, <1>10, <1>11, <1>12, <1>13 DEF ProducerNext

LEMMA ProducerInvariance == ProducerSpec => []ProducerInv
<1>1. ProducerInv /\ [ProducerNext]_producerVars => ProducerInv'
  BY ProducerTypeStep, TurnsStep, SoloStep, FlowStep DEF ProducerInv
<1>2. ProducerInit => ProducerInv
  BY ProducerInitially
<1> QED
  BY <1>1, <1>2, PTL DEF ProducerSpec

-----------------------------------------------------------------------------
(***************************************************************************)
(* The senders, the pipeline and the answers keep their types, and the     *)
(* pipeline never holds more than Capacity messages and answers            *)
(* (main.go:630-694).                                                      *)
(***************************************************************************)
THEOREM ProducerTypeCorrect == ProducerSpec => []ProducerTypeOK
<1>1. ProducerInv => ProducerTypeOK
  BY DEF ProducerInv
<1> QED
  BY ProducerInvariance, <1>1, PTL

(***************************************************************************)
(* However many calls share the producer and whatever the flag: a call     *)
(* that nobody else's message or wait overlaps reports its own answer      *)
(* (main.go:650-664).                                                      *)
(***************************************************************************)
THEOREM SoloCallsSeeTheirOwn == ProducerSpec => []OwnAnswer
<1>1. ProducerInv => OwnAnswer
  BY DEF ProducerInv
<1> QED
  BY ProducerInvariance, <1>1, PTL

(***************************************************************************)
(* For any capacity of the pipeline and any number of overload goroutines: *)
(* it stays full with nobody waiting only when as many calls as it holds   *)
(* have been cancelled while they waited (main.go:665-672).                *)
(***************************************************************************)
THEOREM PipelineIsWaitedFor == ProducerSpec => []WedgedOnlyByCancelled
<1>1. ASSUME ProducerInv PROVE WedgedOnlyByCancelled
  <2>1. left \in SUBSET Senders /\ buffer \in SUBSET Senders /\ answers \in SUBSET Answers
    BY <1>1 DEF ProducerInv, ProducerTypeOK, Senders
  <2>2. IsFiniteSet(left) /\ IsFiniteSet(buffer) /\ IsFiniteSet(answers)
    BY <2>1, ProducerIsFinite, FS_Subset
  <2>3. Cardinality(left) \in Nat /\ Cardinality(buffer) \in Nat /\ Cardinality(answers) \in Nat
    BY <2>2, FS_CardinalityType
  <2>4. Waiting = {} => Cardinality(Waiting) = 0
    BY FS_EmptySet
  <2>5. Capacity \in Nat
    BY ProducerAssumption
  <2> QED
    BY <1>1, <2>3, <2>4, <2>5 DEF ProducerInv, Flow, WedgedOnlyByCancelled, Pipeline
<1> QED
  BY ProducerInvariance, <1>1, PTL
=============================================================================
