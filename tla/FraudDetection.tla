--------------------------- MODULE FraudDetection ---------------------------
(***************************************************************************)
(* The fraud-detection service (src/src/fraud-detection/.../main.kt): it   *)
(* polls the orders topic for batches and counts their records.            *)
(* The count is only logged: the model keeps which records were counted.   *)
(*                                                                         *)
(* The Kafka client is external.  With its defaults, poll commits on a     *)
(* timer what earlier polls have returned, close commits the position,     *)
(* which is past the whole batch, a group that never committed starts at   *)
(* the end of the topic, and a consumer that does not poll for five        *)
(* minutes is put out of the group.  With kafkaQueueProblems on each       *)
(* record takes a second, and a batch has up to 500.                       *)
(***************************************************************************)
EXTENDS Naturals, Sequences, FiniteSets

CONSTANTS MaxPoll,    \* the records a poll returns at most
          Patience,   \* how many slow records fit into max.poll.interval
          NoOffset,
          MaxRecords, \* bound: records published
          MaxStops    \* bound: crashes

ASSUME FraudAssumption ==
  /\ MaxPoll \in Nat \ {0} /\ Patience \in Nat /\ NoOffset \notin Nat
  /\ MaxRecords \in Nat /\ MaxStops \in Nat

Kinds == {"order", "garbage"}  \* a record that parses, one that does not

VARIABLES
  records,
  offset,      \* what the group has committed, or NoOffset
  running, member,
  polled,      \* the position: the offset after what poll has returned
  done,        \* the offset after what has been processed
  slept,       \* seconds slept since the last poll
  slow,        \* kafkaQueueProblems
  counted,     \* history: records counted, by this process or an earlier one
  skipped,     \* history: records close has committed unprocessed
  missed,      \* history: records before the end where the group started
  stops

fraudVars == <<records, offset, running, member, polled, done, slept, slow,
          counted, skipped, missed, stops>>

FraudInit ==
  /\ records = <<>> /\ offset = NoOffset
  /\ running = TRUE /\ member = FALSE
  /\ polled = 0 /\ done = 0 /\ slept = 0 /\ slow \in BOOLEAN
  /\ counted = {} /\ skipped = {} /\ missed = {} /\ stops = 0

Produce(kind) ==
  /\ Len(records) < MaxRecords
  /\ records' = Append(records, kind)
  /\ UNCHANGED <<offset, running, member, polled, done, slept, slow,
                 counted, skipped, missed, stops>>

Toggle ==
  /\ slow' = ~slow
  /\ UNCHANGED <<records, offset, running, member, polled, done, slept,
                 counted, skipped, missed, stops>>

\* fold has gone through the batch; the next step is a poll.
Polling == running /\ done = polled

\* auto.offset.reset is latest
Start == IF offset = NoOffset THEN Len(records) ELSE offset

\* poll joins the group and fetches its offset: it goes back, or forward.
Join ==
  /\ Polling /\ ~member
  /\ member' = TRUE
  /\ polled' = Start /\ done' = Start /\ slept' = 0
  /\ missed' = IF offset = NoOffset THEN missed \cup (1 .. Len(records)) ELSE missed
  /\ UNCHANGED <<records, offset, running, slow, counted, skipped, stops>>

\* Mutant of Poll: what this poll returns is committed with it.
PollCommitsAhead ==
  /\ Polling /\ member
  /\ polled' \in {p \in polled .. Len(records) : p <= polled + MaxPoll}
  /\ offset' \in {offset, polled'}
  /\ slept' = 0
  /\ UNCHANGED <<records, running, member, done, slow, counted, skipped,
                 missed, stops>>

\* Before it fetches, poll commits its position if the timer says so.
Poll ==
  /\ Polling /\ member
  /\ offset' \in {offset, polled}
  /\ polled' \in {p \in polled .. Len(records) : p <= polled + MaxPoll}
  /\ slept' = 0
  /\ UNCHANGED <<records, running, member, done, slow, counted, skipped,
                 missed, stops>>

Count ==
  /\ running /\ done < polled
  /\ records[done + 1] = "order"
  /\ done' = done + 1
  /\ slept' = IF slow /\ slept <= Patience THEN slept + 1 ELSE slept
  /\ counted' = counted \cup {done + 1}
  /\ UNCHANGED <<records, offset, running, member, polled, slow, skipped, missed, stops>>

\* Mutants of ParseFails: the process hangs; it starts over from the end.
ParseFailsStuck == FALSE
ParseFailsToEnd ==
  /\ running /\ done < polled
  /\ records[done + 1] # "order"
  /\ running' = FALSE /\ member' = FALSE
  /\ offset' = Len(records)
  /\ skipped' = skipped \cup (done + 1 .. Len(records))
  /\ UNCHANGED <<records, polled, done, slept, slow, counted, missed, stops>>

\* parseFrom throws: `use` closes the consumer, which commits its position if
\* it is still a member and the broker answers, and the process ends.
ParseFails ==
  /\ running /\ done < polled
  /\ records[done + 1] # "order"
  /\ running' = FALSE /\ member' = FALSE
  /\ \/ UNCHANGED <<offset, skipped>>
     \/ /\ member
        /\ offset' = polled
        /\ skipped' = skipped \cup (done + 1 .. polled)
  /\ UNCHANGED <<records, polled, done, slept, slow, counted, missed, stops>>

\* The heartbeat thread: max.poll.interval has passed without a poll.
Evict ==
  /\ running /\ member /\ slept > Patience
  /\ member' = FALSE
  /\ UNCHANGED <<records, offset, running, polled, done, slept, slow,
                 counted, skipped, missed, stops>>

Die ==
  /\ running /\ stops < MaxStops
  /\ stops' = stops + 1
  /\ running' = FALSE /\ member' = FALSE
  /\ UNCHANGED <<records, offset, polled, done, slept, slow, counted,
                 skipped, missed>>

Restart ==
  /\ ~running
  /\ running' = TRUE
  /\ polled' = 0 /\ done' = 0 /\ slept' = 0
  /\ UNCHANGED <<records, offset, member, slow, counted, skipped, missed, stops>>

FraudNext ==
  \/ \E kind \in Kinds : Produce(kind)
  \/ Toggle \/ Join \/ Poll \/ Count \/ ParseFails \/ Evict \/ Die \/ Restart

FraudSpec == FraudInit /\ [][FraudNext]_fraudVars

\* The process runs and is restarted; the timer's commit is not put off for
\* ever, nor is the one of close.
Commits == offset' = polled
FraudFairness ==
  /\ WF_fraudVars(Join) /\ WF_fraudVars(Count) /\ WF_fraudVars(ParseFails) /\ WF_fraudVars(Restart)
  /\ WF_fraudVars(Poll /\ polled' > polled)
  /\ SF_fraudVars(Poll /\ Commits) /\ SF_fraudVars(ParseFails /\ Commits)

FraudFairSpec == FraudSpec /\ FraudFairness

-----------------------------------------------------------------------------
Offsets == 1 .. Len(records)

FraudTypeOK ==
  /\ records \in Seq(Kinds) /\ Len(records) <= MaxRecords
  /\ offset \in 0 .. Len(records) \cup {NoOffset}
  /\ running \in BOOLEAN /\ member \in BOOLEAN /\ slow \in BOOLEAN
  /\ polled \in 0 .. Len(records) /\ done \in 0 .. polled
  /\ slept \in 0 .. Patience + 1
  /\ counted \subseteq Offsets /\ skipped \subseteq Offsets /\ missed \subseteq Offsets
  /\ stops \in 0 .. MaxStops

\* A commit never covers a record that was returned by poll and not counted,
\* except by close: a crash in the middle of a batch loses none of it.
Passed(i) == i \in counted \cup skipped \cup missed
CommittedIsPassed == offset # NoOffset => \A i \in 1 .. offset : Passed(i)

\* A record that does not parse costs at most what is left of its batch.
GarbageCostsItsBatch ==
  \A i \in skipped : \E j \in 1 .. i : records[j] = "garbage" /\ i < j + MaxPoll

\* If kafkaQueueProblems is off in the end, every record is passed.  (While it
\* is on, a batch longer than Patience is read again and again.)
EveryRecordIsPassed ==
  <>[]~slow => \A i \in 1 .. MaxRecords : i \in Offsets ~> (i \in Offsets /\ Passed(i))
=============================================================================
