------------------------------ MODULE Checkout ------------------------------
(***************************************************************************)
(* The checkout service: concurrent PlaceOrder calls                       *)
(* (src/src/checkout/main.go:293-397) over the cart, payment, shipping and *)
(* email services and the Kafka producer, while the users' AddItem calls   *)
(* change the carts.                                                       *)
(*                                                                         *)
(* A remote call is a request on the wire, its execution by the service    *)
(* and an answer.  An answer without error means that the service executed *)
(* the request; an error means nothing: the request may have been refused, *)
(* lost, executed with its answer lost, or be executed later still.  The   *)
(* cancellation of the caller's context is one of the causes of an error.  *)
(* Checkout persists nothing: a crash, or a panic in any handler, ends all *)
(* calls in flight, but not the requests they have put on the wire.        *)
(*                                                                         *)
(* The cart service's operations are the commands they give to Valkey      *)
(* (cart/src/cartstore/ValkeyCartStore.cs): GetCart reads, EmptyCart       *)
(* writes, and AddItem reads the whole cart and writes it back with one    *)
(* line more.  The module Cart has the quantities and the keys' times to   *)
(* live; here a cart that is not empty may expire at any time.             *)
(***************************************************************************)
EXTENDS Naturals, Sequences, FiniteSets

CONSTANTS Calls,     \* PlaceOrder calls
          Users,
          Lines,     \* what AddItem calls add to carts, one line each
          Overload   \* the value of kafkaQueueProblems when it is on

ASSUME OverloadAssumption == Overload \in Nat

Rpcs == {"charge", "ship", "empty", "email"}
Ops == Rpcs \cup {"publish"}

VARIABLES
  up,      \* the checkout process runs
  kafka,   \* the producer: none (no KAFKA_ADDR), ready, or broken (nil)
  pc,      \* what each call waits for
  owner,   \* the user of each call
  basket,  \* the cart items each call has read, and orders
  reply,   \* the status each call has returned
  wire,    \* requests sent and not yet executed, <<op, call>>
  outbox,  \* copies of each call's message handed to the producer
  served,  \* the baskets each service executed each call's request for
  cart,    \* the cart service's store
  adding,  \* AddItem calls that have read and not yet written it back
  added,   \* history: every line written to each user's cart
  late,    \* history: lines written while a call of the user that had
           \* read the cart before might yet write it, and those of
           \* carts that have expired
  crossed, \* history: calls whose EmptyCart came between the read and
           \* the write of an AddItem
  overlap  \* history: pairs of calls, one read the cart while the other
           \* had read it and might yet empty it

store == <<cart, adding, added, late>>
remote == <<served, crossed, store>>
callData == <<owner, basket, overlap>>
vars == <<up, kafka, pc, reply, wire, outbox, callData, remote>>

NoUser == "none"
Stages == {"idle", "cart", "prepare", "charge", "ship", "empty", "email", "publish",
           "confirm", "done"}
InFlight(c) == pc[c] \notin {"idle", "done"}

Init ==
  /\ up = TRUE
  /\ kafka \in {"none", "ready", "broken"}
  /\ pc = [c \in Calls |-> "idle"]
  /\ owner = [c \in Calls |-> NoUser]
  /\ basket = [c \in Calls |-> {}]
  /\ reply = [c \in Calls |-> "none"]
  /\ wire = {}
  /\ outbox = [c \in Calls |-> 0]
  /\ served = [op \in Ops |-> [c \in Calls |-> <<>>]]
  /\ cart = [u \in Users |-> {}]
  /\ adding = {}
  /\ added = [u \in Users |-> {}]
  /\ late = {} /\ crossed = {}
  /\ overlap = {}

\* The call has read the cart and its EmptyCart may still take effect.
MayEmpty(c) ==
  \/ pc[c] \in {"prepare", "charge", "ship", "empty"}
  \/ <<"empty", c>> \in wire

-----------------------------------------------------------------------------
(***************************************************************************)
(* Steps of a call.                                                        *)
(***************************************************************************)
\* A request that does not leave (no connection, context cancelled,
\* paymentUnreachable's address that does not exist) or is lost stays on
\* the wire and is never executed.
Send(op, c) == wire' = wire \cup {<<op, c>>}

Answered(op, c) == served[op][c] # <<>>

Goto(c, stage) == pc' = [pc EXCEPT ![c] = stage]

Return(c, status) ==
  /\ Goto(c, "done")
  /\ reply' = [reply EXCEPT ![c] = status]

Start(c, u) ==
  /\ up /\ pc[c] = "idle"
  /\ owner' = [owner EXCEPT ![c] = u]
  /\ Goto(c, "cart")
  /\ UNCHANGED <<up, kafka, basket, reply, wire, outbox, overlap, remote>>

\* getUserCart
GetCart(c) ==
  /\ pc[c] = "cart"
  /\ basket' = [basket EXCEPT ![c] = cart[owner[c]]]
  /\ overlap' = overlap \cup
       {{c, d} : d \in {e \in Calls : e # c /\ owner[e] = owner[c] /\ MayEmpty(e)}}
  /\ Goto(c, "prepare")
  /\ UNCHANGED <<up, kafka, owner, reply, wire, outbox, remote>>

\* prepOrderItems, quoteShipping, convertCurrency and the total: reads only.
Prepare(c) ==
  /\ pc[c] = "prepare"
  /\ Send("charge", c)
  /\ Goto(c, "charge")
  /\ UNCHANGED <<up, kafka, reply, outbox, callData, remote>>

\* Any error up to and including chargeCard's.
FailBeforeShipping(c) ==
  /\ pc[c] \in {"cart", "prepare", "charge"}
  /\ Return(c, "Internal")
  /\ UNCHANGED <<up, kafka, wire, outbox, callData, remote>>

\* Mutants of CardCharged: chargeCard's error is not looked at; the cart is
\* emptied without waiting for the shipment.
CardUnchecked(c) ==
  /\ pc[c] = "charge"
  /\ Send("ship", c)
  /\ Goto(c, "ship")
  /\ UNCHANGED <<up, kafka, reply, outbox, callData, remote>>
CartEmptiedEarly(c) ==
  /\ pc[c] = "charge" /\ Answered("charge", c)
  /\ wire' = wire \cup {<<"ship", c>>, <<"empty", c>>}
  /\ Goto(c, "ship")
  /\ UNCHANGED <<up, kafka, reply, outbox, callData, remote>>

\* chargeCard has returned a transaction; shipOrder is next.
CardCharged(c) ==
  /\ pc[c] = "charge" /\ Answered("charge", c)
  /\ Send("ship", c)
  /\ Goto(c, "ship")
  /\ UNCHANGED <<up, kafka, reply, outbox, callData, remote>>

\* Mutant of ShippingFails: shipOrder is tried again.
ShippingRetried(c) ==
  /\ pc[c] = "ship"
  /\ Send("ship", c)
  /\ UNCHANGED <<up, kafka, pc, reply, outbox, callData, remote>>

\* The order is given up; nothing is refunded.
ShippingFails(c) ==
  /\ pc[c] = "ship"
  /\ Return(c, "Unavailable")
  /\ UNCHANGED <<up, kafka, wire, outbox, callData, remote>>

OrderShipped(c) ==
  /\ pc[c] = "ship" /\ Answered("ship", c)
  /\ Send("empty", c)
  /\ Goto(c, "empty")
  /\ UNCHANGED <<up, kafka, reply, outbox, callData, remote>>

\* emptyUserCart's error is ignored.
EmptyReturns(c) ==
  /\ pc[c] = "empty"
  /\ Send("email", c)
  /\ Goto(c, "email")
  /\ UNCHANGED <<up, kafka, reply, outbox, callData, remote>>

\* Mutant of EmailReturns: the call waits until the mail is sent.
EmailAwaited(c) ==
  /\ pc[c] = "email" /\ Answered("email", c)
  /\ Goto(c, "publish")
  /\ UNCHANGED <<up, kafka, reply, wire, outbox, callData, remote>>

\* sendOrderConfirmation's error is only logged.
EmailReturns(c) ==
  /\ pc[c] = "email"
  /\ Goto(c, "publish")
  /\ UNCHANGED <<up, kafka, reply, wire, outbox, callData, remote>>

\* sendToPostProcessor is skipped (no KAFKA_ADDR), or the context ends
\* before the producer has taken the message.
PublishNothing(c) ==
  /\ pc[c] = "publish" /\ kafka # "broken"
  /\ Return(c, "OK")
  /\ UNCHANGED <<up, kafka, wire, outbox, callData, remote>>

\* The producer takes the message.
HandOver(c) ==
  /\ pc[c] = "publish" /\ kafka = "ready"
  /\ outbox' = [outbox EXCEPT ![c] = @ + 1]
  /\ Goto(c, "confirm")
  /\ UNCHANGED <<up, kafka, reply, wire, callData, remote>>

\* A success, an error or the end of the context ends the wait for the
\* producer's answer; with kafkaQueueProblems on, copies follow.
Confirmed(c) ==
  /\ pc[c] = "confirm"
  /\ outbox' \in {outbox, [outbox EXCEPT ![c] = @ + Overload]}
  /\ Return(c, "OK")
  /\ UNCHANGED <<up, kafka, wire, callData, remote>>

\* The process ends: it is killed, money.Must panics while a call prepares
\* its order, or a call reaches sendToPostProcessor with a nil producer.
Crash ==
  /\ up
  /\ up' = FALSE
  /\ pc' = [c \in Calls |-> IF InFlight(c) THEN "done" ELSE pc[c]]
  /\ reply' = [c \in Calls |-> IF InFlight(c) THEN "lost" ELSE reply[c]]
  /\ UNCHANGED <<kafka, wire, outbox, callData, remote>>

\* main: a failed CreateKafkaProducer is only logged.
Restart ==
  /\ ~up
  /\ up' = TRUE
  /\ kafka' \in IF kafka = "none" THEN {"none"} ELSE {"ready", "broken"}
  /\ UNCHANGED <<pc, reply, wire, outbox, callData, remote>>

-----------------------------------------------------------------------------
(***************************************************************************)
(* Steps of the services, and of the network.                              *)
(***************************************************************************)
AddsOf(u) == {a \in adding : a.user = u}

\* Mutant of Serve: EmptyCart succeeds and leaves the cart as it was.
ServeLeavesCart(op, c) ==
  /\ <<op, c>> \in wire
  /\ wire' = wire \ {<<op, c>>}
  /\ served' = [served EXCEPT ![op][c] = Append(@, basket[c])]
  /\ UNCHANGED <<up, kafka, pc, reply, outbox, callData, crossed, store>>

Serve(op, c) ==
  /\ <<op, c>> \in wire
  /\ wire' = wire \ {<<op, c>>}
  /\ served' = [served EXCEPT ![op][c] = Append(@, basket[c])]
  /\ IF op = "empty"
     THEN /\ cart' = [cart EXCEPT ![owner[c]] = {}]
          /\ crossed' = IF AddsOf(owner[c]) = {} THEN crossed ELSE crossed \cup {c}
     ELSE UNCHANGED <<cart, crossed>>
  /\ UNCHANGED <<up, kafka, pc, reply, outbox, callData, adding, added, late>>

\* An EmptyCart that was lost leaves its user's cart as it is for good.
Lose(c) ==
  /\ <<"empty", c>> \in wire
  /\ wire' = wire \ {<<"empty", c>>}
  /\ UNCHANGED <<up, kafka, pc, reply, outbox, callData, remote>>

\* The broker stores the message, or never does: no acknowledgement is
\* required of it (kafka/producer.go:41).
Broker(c) ==
  /\ outbox[c] > 0
  /\ outbox' = [outbox EXCEPT ![c] = @ - 1]
  /\ served' = [served EXCEPT !["publish"][c] = Append(@, basket[c])]
  /\ UNCHANGED <<up, kafka, pc, reply, wire, callData, crossed, store>>

\* AddItem's first command. Every line is the addition of one AddItem call.
ReadCart(u, l) ==
  /\ \A v \in Users : l \notin added[v]
  /\ \A a \in adding : a.line # l
  /\ adding' = adding \cup {[user |-> u, line |-> l, read |-> cart[u]]}
  /\ UNCHANGED <<up, kafka, pc, reply, wire, outbox, callData, served, crossed,
                 cart, added, late>>

\* Mutant of Merged: what was read is not written back.
MergedAlone(a) == {a.line}

Merged(a) == a.read \cup {a.line}

\* Its second, which may be executed long after the AddItem has failed.
WriteCart(a) ==
  /\ a \in adding
  /\ adding' = adding \ {a}
  /\ cart' = [cart EXCEPT ![a.user] = Merged(a)]
  /\ added' = [added EXCEPT ![a.user] = @ \cup {a.line}]
  /\ late' = IF \/ AddsOf(a.user) # {a}
                \/ \E c \in Calls : owner[c] = a.user /\ MayEmpty(c)
             THEN late \cup {a.line} ELSE late
  /\ UNCHANGED <<up, kafka, pc, reply, wire, outbox, callData, served, crossed>>

\* It is never executed.
DropAdd(a) ==
  /\ a \in adding
  /\ adding' = adding \ {a}
  /\ UNCHANGED <<up, kafka, pc, reply, wire, outbox, callData, served, crossed,
                 cart, added, late>>

\* An hour has passed since the cart was last written.
Expire(u) ==
  /\ cart[u] # {}
  /\ cart' = [cart EXCEPT ![u] = {}]
  /\ late' = late \cup cart[u]
  /\ UNCHANGED <<up, kafka, pc, reply, wire, outbox, callData, served, crossed,
                 adding, added>>

Step(c) ==
  \/ GetCart(c) \/ Prepare(c) \/ FailBeforeShipping(c)
  \/ CardCharged(c) \/ ShippingFails(c)
  \/ OrderShipped(c) \/ EmptyReturns(c) \/ EmailReturns(c)
  \/ PublishNothing(c) \/ HandOver(c) \/ Confirmed(c)

Next ==
  \/ \E c \in Calls, u \in Users : Start(c, u)
  \/ \E c \in Calls : Step(c)
  \/ Crash \/ Restart
  \/ \E op \in Rpcs, c \in Calls : Serve(op, c)
  \/ \E c \in Calls : Lose(c) \/ Broker(c)
  \/ \E u \in Users : Expire(u) \/ \E l \in Lines : ReadCart(u, l)
  \/ \E a \in adding : WriteCart(a) \/ DropAdd(a)

Spec == Init /\ [][Next]_vars

\* The producer answers sendToPostProcessor, or does not (see Producer).
AwaitsProducer(c) == pc[c] \in {"publish", "confirm"} /\ kafka = "ready"

\* A call moves on, one way or another: every service it calls eventually
\* answers or fails, and a nil producer panics.  Nobody has to place an
\* order, the network may lose every request, and nothing is assumed of the
\* producer.
Fairness ==
  /\ \A c \in Calls : WF_vars(Step(c) /\ ~AwaitsProducer(c))
  /\ WF_vars(Crash /\ \E c \in Calls : pc[c] = "publish" /\ kafka = "broken")

FairSpec == Spec /\ Fairness

-----------------------------------------------------------------------------
TypeOK ==
  /\ up \in BOOLEAN
  /\ kafka \in {"none", "ready", "broken"}
  /\ pc \in [Calls -> Stages]
  /\ owner \in [Calls -> Users \cup {NoUser}]
  /\ basket \in [Calls -> SUBSET Lines]
  /\ reply \in [Calls -> {"none", "OK", "Internal", "Unavailable", "lost"}]
  /\ wire \subseteq Rpcs \X Calls
  /\ outbox \in [Calls -> Nat]
  /\ served \in [Ops -> [Calls -> Seq(SUBSET Lines)]]
  /\ cart \in [Users -> SUBSET Lines]
  /\ adding \subseteq [user : Users, line : Lines, read : SUBSET Lines]
  /\ added \in [Users -> SUBSET Lines]
  /\ late \subseteq Lines
  /\ crossed \subseteq Calls
  /\ overlap \subseteq SUBSET Calls

(***************************************************************************)
(* However calls, losses, late executions and crashes interleave, a call   *)
(* charges, ships, empties and confirms at most once, and what it charges  *)
(* for is what it ships, confirms and publishes.                           *)
(***************************************************************************)
OneBasketOnce ==
  \A c \in Calls, op \in Ops :
    /\ op \in Rpcs => Len(served[op][c]) <= 1
    /\ \A i \in DOMAIN served[op][c] : served[op][c][i] = basket[c]

(***************************************************************************)
(* What the caller may conclude from the status: OK, the order is paid for *)
(* and shipped; Unavailable, it is paid for; Internal, it is not shipped   *)
(* nor ever will be, its cart was left alone, and nobody heard of it.      *)
(***************************************************************************)
StatusTellsTheOrder ==
  \A c \in Calls :
    /\ reply[c] = "OK" => Answered("charge", c) /\ Answered("ship", c)
    /\ reply[c] = "Unavailable" => Answered("charge", c)
    /\ reply[c] = "Internal" =>
         /\ \A op \in Ops \ {"charge"} : ~Answered(op, c) /\ <<op, c>> \notin wire
         /\ outbox[c] = 0

\* The lines that user u was sent.
Received(u) == UNION {basket[c] : c \in {d \in Calls : owner[d] = u /\ Answered("ship", d)}}

(***************************************************************************)
(* Nothing vanishes from a cart for any other reason than these: the line  *)
(* was written after a PlaceOrder had read the cart and before it emptied  *)
(* it (main.go:411 and 353), whatever it held by then; it was written      *)
(* after another AddItem had read the cart and before that one wrote it    *)
(* back (ValkeyCartStore.cs:148 and 173); or the cart expired.             *)
(***************************************************************************)
OnlyLateLinesVanish ==
  \A u \in Users : added[u] \subseteq cart[u] \cup Received(u) \cup late

\* The call is over and its EmptyCart never took effect.
LeftCartFull(c) == ~MayEmpty(c) /\ ~Answered("empty", c)

(***************************************************************************)
(* A line is ordered twice only if the second call read the cart while the *)
(* first was between reading and emptying it (two clicks on Place Order),  *)
(* if the first call never got the cart emptied, or if it was emptied      *)
(* between the read and the write of an AddItem, which may restore it.     *)
(***************************************************************************)
Twice(c, d) ==
  /\ c # d
  /\ Answered("ship", c) /\ Answered("ship", d)
  /\ basket[c] \cap basket[d] # {}

NoDoubleOrder ==
  \A c, d \in Calls : Twice(c, d) =>
    \/ {c, d} \in overlap
    \/ LeftCartFull(c) \/ LeftCartFull(d)
    \/ c \in crossed \/ d \in crossed

(***************************************************************************)
(* Every call comes to an end, whichever services fail, if it does not     *)
(* wait for the producer: no other wait depends on what another call, or a *)
(* request that was lost, will ever do.                                    *)
(***************************************************************************)
EveryCallReturns ==
  \A c \in Calls : InFlight(c) ~> reply[c] # "none" \/ AwaitsProducer(c)

(***************************************************************************)
(* Checkout keeps the promises of OrderLifecycle, where an order is paid   *)
(* for, sent, settled and known when the services have executed the        *)
(* requests that say so.                                                   *)
(***************************************************************************)
Executed(op) == {c \in Calls : Answered(op, c)}

Lifecycle == INSTANCE OrderLifecycle WITH
  paid <- Executed("charge"), sent <- Executed("ship"),
  settled <- Executed("empty"), known <- Executed("email") \cup Executed("publish"),
  answer <- reply

ImplementsLifecycle == Lifecycle!Spec
=============================================================================
