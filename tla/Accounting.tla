----------------------------- MODULE Accounting -----------------------------
(***************************************************************************)
(* The accounting service (src/src/accounting/Consumer.cs): it takes order *)
(* messages from the Kafka topic one at a time and saves each, with its    *)
(* items and its shipment, in one PostgreSQL transaction.  Whatever goes   *)
(* wrong with a message is logged and the message is given up.             *)
(*                                                                         *)
(* The Kafka client is external.  It stores the offset of a message when   *)
(* Consume returns it, and commits the stored offset on a timer            *)
(* (EnableAutoCommit), whether or not the message has been saved.  When    *)
(* the group rebalances, another replica goes on from the committed offset *)
(* while the former one may still have a message in hand.                  *)
(***************************************************************************)
EXTENDS Naturals, Sequences, FiniteSets

CONSTANTS Orders,
          Unstorable,  \* orders without an address, or not parsable
          Replicas,    \* consumers of the group: old and new during a rollout
          None,        \* no replica
          MaxLog,      \* bound: messages published
          MaxCrashes   \* bound: crashes of replicas

ASSUME AccountingAssumption ==
  /\ Unstorable \subseteq Orders /\ None \notin Replicas
  /\ MaxLog \in Nat /\ MaxCrashes \in Nat

VARIABLES
  log,        \* the topic: one order may be there more than once
  committed,  \* how many messages the group has committed
  owner,      \* the replica the topic is assigned to, or None
  position,   \* the stored offset of each replica
  inHand,     \* the message each replica is processing, 0 for none
  db,         \* how many sets of rows each order has
  failed,     \* history: messages whose SaveChanges threw
  killed,     \* history: committed messages a replica that crashed had in hand
  crashes

vars == <<log, committed, owner, position, inHand, db, failed, killed, crashes>>

Init ==
  /\ log = <<>> /\ committed = 0 /\ owner = None
  /\ position = [r \in Replicas |-> 0]
  /\ inHand = [r \in Replicas |-> 0]
  /\ db = [o \in Orders |-> 0] /\ failed = {} /\ killed = {} /\ crashes = 0

\* checkout sends an order once, and more often with kafkaQueueProblems on.
Publish(o) ==
  /\ Len(log) < MaxLog
  /\ log' = Append(log, o)
  /\ UNCHANGED <<committed, owner, position, inHand, db, failed, killed, crashes>>

\* AutoOffsetReset.Earliest: from the committed offset, or from the start.
Assign(r) ==
  /\ owner = None
  /\ owner' = r
  /\ position' = [position EXCEPT ![r] = committed]
  /\ UNCHANGED <<log, committed, inHand, db, failed, killed, crashes>>

\* The topic is taken from its owner, after a last commit if it is asked.
Revoke(r) ==
  /\ owner = r
  /\ owner' = None
  /\ committed' \in {committed, position[r]}
  /\ UNCHANGED <<log, position, inHand, db, failed, killed, crashes>>

\* Mutant of Consume: a message is taken before the last one is done with.
ConsumeAhead(r) ==
  /\ owner = r
  /\ position[r] < Len(log)
  /\ position' = [position EXCEPT ![r] = @ + 1]
  /\ inHand' = [inHand EXCEPT ![r] = position[r] + 1]
  /\ UNCHANGED <<log, committed, owner, db, failed, killed, crashes>>

Consume(r) ==
  /\ owner = r
  /\ inHand[r] = 0
  /\ position[r] < Len(log)
  /\ position' = [position EXCEPT ![r] = @ + 1]
  /\ inHand' = [inHand EXCEPT ![r] = position[r] + 1]
  /\ UNCHANGED <<log, committed, owner, db, failed, killed, crashes>>

AutoCommit(r) ==
  /\ owner = r
  /\ committed' = position[r]
  /\ UNCHANGED <<log, owner, position, inHand, db, failed, killed, crashes>>

Storable(o) == o \notin Unstorable
Order(r) == log[inHand[r]]
LetGo(r) == inHand' = [inHand EXCEPT ![r] = 0]

\* Inserting the rows of an order, all together.
Rows(o) == [db EXCEPT ![o] = @ + 1]

\* Mutant of KeyIsFree: the tables without their primary keys.
KeyIsAlwaysFree(o) == TRUE

\* order_id is the primary key of the order's row.
KeyIsFree(o) == db[o] = 0

\* SaveChanges.
Save(r) ==
  /\ inHand[r] # 0
  /\ Storable(Order(r)) /\ KeyIsFree(Order(r))
  /\ db' = Rows(Order(r))
  /\ LetGo(r)
  /\ UNCHANGED <<log, committed, owner, position, failed, killed, crashes>>

\* SaveChanges throws: the database is away, or it was before it could tell
\* that it had committed.
SaveFails(r) ==
  /\ inHand[r] # 0
  /\ Storable(Order(r))
  /\ db' = db \/ (KeyIsFree(Order(r)) /\ db' = Rows(Order(r)))
  /\ failed' = failed \cup {inHand[r]}
  /\ LetGo(r)
  /\ UNCHANGED <<log, committed, owner, position, killed, crashes>>

\* Mutant of Drop: the exception is not caught, and the loop ends.
DropUncaught(r) ==
  /\ inHand[r] # 0
  /\ ~KeyIsFree(Order(r))
  /\ LetGo(r)
  /\ UNCHANGED <<log, committed, owner, position, db, failed, killed, crashes>>

\* The rows are there already (a duplicate key), or the message has no
\* address to read (a null reference) or does not parse.
Drop(r) ==
  /\ inHand[r] # 0
  /\ ~KeyIsFree(Order(r)) \/ ~Storable(Order(r))
  /\ LetGo(r)
  /\ UNCHANGED <<log, committed, owner, position, db, failed, killed, crashes>>

\* Consume() never throws OperationCanceledException, so that the consumer
\* is not closed and a stop is a crash.
Crash(r) ==
  /\ crashes < MaxCrashes
  /\ crashes' = crashes + 1
  /\ killed' = killed \cup ({inHand[r]} \cap (1 .. committed))
  /\ owner' = IF owner = r THEN None ELSE owner
  /\ LetGo(r)
  /\ UNCHANGED <<log, committed, position, db, failed>>

Process(r) == Save(r) \/ SaveFails(r) \/ Drop(r)

Next ==
  \/ \E o \in Orders : Publish(o)
  \/ \E r \in Replicas : Assign(r) \/ Revoke(r) \/ Consume(r) \/ AutoCommit(r)
                         \/ Process(r) \/ Crash(r)

Spec == Init /\ [][Next]_vars

\* The topic is assigned to someone, calls to the database return, and
\* rebalances do not always come before the next message and the next commit.
Fairness ==
  /\ WF_vars(\E r \in Replicas : Assign(r))
  /\ \A r \in Replicas :
       SF_vars(Consume(r)) /\ SF_vars(AutoCommit(r)) /\ WF_vars(Process(r))

FairSpec == Spec /\ Fairness

-----------------------------------------------------------------------------
Indexes == 1 .. Len(log)

TypeOK ==
  /\ log \in Seq(Orders) /\ Len(log) <= MaxLog
  /\ committed \in 0 .. Len(log)
  /\ owner \in Replicas \cup {None}
  /\ position \in [Replicas -> 0 .. Len(log)]
  /\ inHand \in [Replicas -> 0 .. Len(log)]
  /\ db \in [Orders -> Nat]
  /\ failed \subseteq Indexes /\ killed \subseteq Indexes
  /\ crashes \in 0 .. MaxCrashes

\* The order has its rows, once, or cannot have any, or why it has none is
\* known.
Settled(i) ==
  \/ db[log[i]] = 1 \/ log[i] \in Unstorable
  \/ db[log[i]] = 0 /\ i \in failed \cup killed

\* A message the group has committed, and will not see again, is settled or
\* still in a replica's hand: committing before the rows are written loses
\* nothing but what a crash or an exception of SaveChanges takes, and no
\* message that comes again gives an order a second set of rows.
CommittedIsAccountedFor ==
  \A i \in 1 .. committed : Settled(i) \/ \E r \in Replicas : inHand[r] = i

\* A crash costs one order and an exception of SaveChanges one order, however
\* rebalances, commits and the processing of two replicas interleave.
Lost == {o \in Orders \ Unstorable :
           /\ db[o] = 0
           /\ \E i \in 1 .. committed : log[i] = o /\ \A r \in Replicas : inHand[r] # i}
LossIsBounded == Cardinality(Lost) <= crashes + Cardinality(failed)

\* Every message published is settled in the end.  One that only the timer's
\* commit or a redelivery stands for does not stay behind.
EveryMessageIsSettled ==
  \A i \in 1 .. MaxLog : i \in Indexes ~> (i \in Indexes /\ Settled(i))
=============================================================================
