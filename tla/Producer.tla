------------------------------ MODULE Producer ------------------------------
(***************************************************************************)
(* The Kafka producer that all PlaceOrder calls share: sendToPostProcessor *)
(* (src/src/checkout/main.go:630-694) and CreateKafkaProducer              *)
(* (src/src/checkout/kafka/producer.go:31-61).                             *)
(*                                                                         *)
(* A sender puts its message into Input() and then takes one answer from   *)
(* Successes() or Errors(), whosever message it is about.  A goroutine of  *)
(* CreateKafkaProducer takes errors too.  With kafkaQueueProblems on, a    *)
(* call leaves Overload goroutines behind that each send the message again *)
(* and wait for a success only.                                            *)
(*                                                                         *)
(* Of sarama, which is not in this repository, the model keeps that every  *)
(* message it accepts is answered once, that an answer stays in its        *)
(* pipeline until somebody takes it, and that it accepts no message while  *)
(* the pipeline holds Capacity of them.                                    *)
(***************************************************************************)
EXTENDS Naturals, FiniteSets

CONSTANTS Calls,     \* PlaceOrder calls that reach sendToPostProcessor
          Overload,  \* the value of kafkaQueueProblems
          Capacity   \* what the producer's pipeline holds

Copies == Calls \X (1 .. Overload)
Senders == Calls \cup Copies

ASSUME ProducerAssumption ==
  /\ IsFiniteSet(Calls) /\ Overload \in Nat /\ Capacity \in Nat \ {0}
  /\ Calls \cap Copies = {}

VARIABLES
  pc,        \* idle, input, wait or done
  got,       \* the answer each sender took: whose, and which
  buffer,    \* senders of messages accepted and not answered
  answers,   \* answers nobody has taken, <<sender, verdict>>
  drained,   \* history: answers the error goroutine took
  left,      \* history: calls whose context ended while they waited
  shared     \* history: senders that waited while another one did, or
             \* while another answer than their own was due

producerVars == <<pc, got, buffer, answers, drained, left, shared>>

NoAnswer == <<"none">>
Verdicts == {"success", "error"}
Answers == Senders \X Verdicts
Waiting == {s \in Senders : pc[s] = "wait"}
Pipeline == Cardinality(buffer) + Cardinality(answers)

ProducerInit ==
  /\ pc = [s \in Senders |-> "idle"]
  /\ got = [s \in Senders |-> NoAnswer]
  /\ buffer = {} /\ answers = {}
  /\ drained = {} /\ left = {} /\ shared = {}

Begin(c) ==
  /\ pc[c] = "idle"
  /\ pc' = [pc EXCEPT ![c] = "input"]
  /\ UNCHANGED <<got, buffer, answers, drained, left, shared>>

\* Input() <- &msg
Accept(s) ==
  /\ pc[s] = "input"
  /\ Pipeline < Capacity
  /\ pc' = [pc EXCEPT ![s] = "wait"]
  /\ buffer' = buffer \cup {s}
  /\ shared' = IF buffer = {} /\ answers = {} /\ Waiting = {}
                 THEN shared ELSE shared \cup Waiting \cup {s}
  /\ UNCHANGED <<got, answers, drained, left>>

\* With RequiredAcks at NoResponse, success only means that it was sent.
Resolve(s) ==
  /\ s \in buffer
  /\ buffer' = buffer \ {s}
  /\ \E v \in Verdicts : answers' = answers \cup {<<s, v>>}
  /\ UNCHANGED <<pc, got, drained, left, shared>>

\* The call is over for the producer; kafkaQueueProblems may be on.
Leave(c) ==
  \/ pc' = [pc EXCEPT ![c] = "done"]
  \/ pc' = [s \in Senders |-> IF s = c THEN "done"
                              ELSE IF s \in {c} \X (1 .. Overload) THEN "input" ELSE pc[s]]

\* Mutants of Receive: the answer stays in the channel; a call looks for an
\* answer before its message is accepted.
ReceivePeek(c, a) ==
  /\ pc[c] = "wait" /\ a \in answers
  /\ got' = [got EXCEPT ![c] = a]
  /\ Leave(c)
  /\ UNCHANGED <<buffer, answers, drained, left, shared>>
ReceiveEarly(c, a) ==
  /\ pc[c] \in {"input", "wait"} /\ a \in answers
  /\ answers' = answers \ {a}
  /\ got' = [got EXCEPT ![c] = a]
  /\ Leave(c)
  /\ UNCHANGED <<buffer, drained, left, shared>>

Receive(c, a) ==
  /\ pc[c] = "wait" /\ a \in answers
  /\ answers' = answers \ {a}
  /\ got' = [got EXCEPT ![c] = a]
  /\ Leave(c)
  /\ UNCHANGED <<buffer, drained, left, shared>>

\* Mutant of ReceiveCopy: the goroutine goes on reading.
ReceiveCopyForever(s, a) ==
  /\ pc[s] = "wait" /\ a \in answers /\ a[2] = "success"
  /\ answers' = answers \ {a}
  /\ got' = [got EXCEPT ![s] = a]
  /\ UNCHANGED <<pc, buffer, drained, left, shared>>

\* A goroutine of the overload simulation ignores what it takes.
ReceiveCopy(s, a) ==
  /\ pc[s] = "wait" /\ a \in answers /\ a[2] = "success"
  /\ answers' = answers \ {a}
  /\ got' = [got EXCEPT ![s] = a]
  /\ pc' = [pc EXCEPT ![s] = "done"]
  /\ UNCHANGED <<buffer, drained, left, shared>>

\* The context of the call ends before its message is accepted: it returns.
CancelInput(c) ==
  /\ pc[c] = "input"
  /\ pc' = [pc EXCEPT ![c] = "done"]
  /\ UNCHANGED <<got, buffer, answers, drained, left, shared>>

\* The context of the call ends while it waits: it goes on to the flag.
CancelWait(c) ==
  /\ pc[c] = "wait"
  /\ left' = left \cup {c}
  /\ Leave(c)
  /\ UNCHANGED <<got, buffer, answers, drained, shared>>

\* Mutant of Drain: the message is kept, and not its error.
DrainMessage(a) ==
  /\ a \in answers /\ a[2] = "error"
  /\ answers' = answers \ {a}
  /\ drained' = drained \cup {a[1]}
  /\ UNCHANGED <<pc, got, buffer, left, shared>>

\* The goroutine of CreateKafkaProducer logs an error.
Drain(a) ==
  /\ a \in answers /\ a[2] = "error"
  /\ answers' = answers \ {a}
  /\ drained' = drained \cup {a}
  /\ UNCHANGED <<pc, got, buffer, left, shared>>

ProducerNext ==
  \/ \E c \in Calls : Begin(c) \/ CancelInput(c) \/ CancelWait(c)
  \/ \E s \in Senders : Accept(s) \/ Resolve(s)
  \/ \E c \in Calls, a \in answers : Receive(c, a)
  \/ \E s \in Copies, a \in answers : ReceiveCopy(s, a)
  \/ \E a \in answers : Drain(a)

ProducerSpec == ProducerInit /\ [][ProducerNext]_producerVars

\* The producer answers, the channels hand over, and nobody's context has to
\* end.
ProducerFairness ==
  /\ \A s \in Senders : WF_producerVars(Accept(s)) /\ WF_producerVars(Resolve(s))
  /\ \A c \in Calls : WF_producerVars(\E a \in answers : Receive(c, a))
  /\ \A s \in Copies : WF_producerVars(\E a \in answers : ReceiveCopy(s, a))
  /\ WF_producerVars(\E a \in answers : Drain(a))

ProducerFairSpec == ProducerSpec /\ ProducerFairness

-----------------------------------------------------------------------------
ProducerTypeOK ==
  /\ pc \in [Senders -> {"idle", "input", "wait", "done"}]
  /\ got \in [Senders -> Answers \cup {NoAnswer}]
  /\ buffer \subseteq Senders
  /\ answers \subseteq Answers /\ drained \subseteq Answers
  /\ left \subseteq Calls
  /\ shared \subseteq Senders
  /\ Pipeline <= Capacity

(***************************************************************************)
(* The span and the log line of a call are about its own message, unless   *)
(* another message was in the pipeline, or another sender waited, while it *)
(* did: one that the error goroutine has left without an answer takes the  *)
(* answer of a later call, which then waits in its place.                  *)
(***************************************************************************)
OwnAnswer == \A c \in Calls : got[c] # NoAnswer /\ c \notin shared => got[c][1] = c

(***************************************************************************)
(* A full pipeline empties again: somebody waits for an answer, unless as  *)
(* many calls as it holds were cancelled while they waited.  From then on  *)
(* Input() blocks every call until its context ends.                       *)
(***************************************************************************)
WedgedOnlyByCancelled ==
  Pipeline >= Capacity /\ Waiting = {} => Cardinality(left) >= Capacity

(***************************************************************************)
(* A call that waits gets an answer, if the error goroutine never takes    *)
(* one: neither the overload goroutines nor cancelled calls starve it.     *)
(***************************************************************************)
WaitEnds ==
  [](drained = {}) => \A c \in Calls : pc[c] = "wait" ~> pc[c] = "done"
=============================================================================
