--------------------------- MODULE CheckoutProofs ---------------------------
(***************************************************************************)
(* Checkout keeps its invariants, and implements OrderLifecycle, for every *)
(* set of calls, users and lines and every Overload.                       *)
(***************************************************************************)
EXTENDS Checkout, TLAPS

\* The request of c for op was sent: it is executed or may yet be.
Began(op, c) ==
  \/ Answered(op, c)
  \/ <<op, c>> \in wire
  \/ op = "publish" /\ outbox[c] > 0

AfterShipping == {"empty", "email", "publish"}

(***************************************************************************)
(* How far a call has come, told by its requests and by its status.        *)
(***************************************************************************)
Progress(c) ==
  /\ pc[c] = "done" <=> reply[c] # "none"
  /\ pc[c] # "idle" => owner[c] \in Users
  /\ pc[c] \in {"idle", "cart"} => basket[c] = {}
  /\ Began("charge", c) => pc[c] \notin {"idle", "cart", "prepare"}
  /\ Began("ship", c) => pc[c] \in {"ship", "empty", "email", "publish", "confirm", "done"}
  /\ Began("empty", c) => pc[c] \in {"empty", "email", "publish", "confirm", "done"}
  /\ Began("email", c) => pc[c] \in {"email", "publish", "confirm", "done"}
  /\ Began("publish", c) => pc[c] \in {"confirm", "done"}
  /\ Began("ship", c) => Answered("charge", c) /\ reply[c] # "Internal"
  /\ \A op \in AfterShipping :
       Began(op, c) => Answered("ship", c) /\ reply[c] \notin {"Internal", "Unavailable"}
  /\ pc[c] = "ship" => Answered("charge", c)
  /\ pc[c] \in AfterShipping \cup {"confirm"} => Answered("ship", c)
  /\ reply[c] = "OK" => Answered("ship", c)
  /\ reply[c] = "Unavailable" => Answered("charge", c)

ProgressInv == \A c \in Calls : Progress(c)

\* A request is executed at most once, and always for the basket of its call.
OnceInv ==
  \A c \in Calls, op \in Ops :
    /\ op \in Rpcs => Len(served[op][c]) <= 1
    /\ <<op, c>> \in wire => served[op][c] = <<>>
    /\ \A i \in DOMAIN served[op][c] : served[op][c][i] = basket[c]

\* Lines come from their users and are written once; a call that emptied the
\* cart while no AddItem was under way left none of its own lines in it, nor
\* in what an AddItem has read.
CartInv ==
  /\ \A u \in Users : cart[u] \subseteq added[u]
  /\ \A u, v \in Users : u # v => added[u] \cap added[v] = {}
  /\ \A a \in adding : a.read \subseteq added[a.user] /\ \A v \in Users : a.line \notin added[v]
  /\ \A a, b \in adding : a.line = b.line => a = b
  /\ \A c \in Calls : pc[c] # "idle" =>
       /\ basket[c] \subseteq added[owner[c]]
       /\ Answered("empty", c) /\ c \notin crossed =>
            /\ basket[c] \cap cart[owner[c]] = {}
            /\ \A a \in AddsOf(owner[c]) : a.read \cap basket[c] = {}

\* The lines of u that have no excuse to be missing ...
Due(u) == added[u] \ (Received(u) \cup late)

\* ... are in the cart and in all that may be written back to it, and
\* whoever may yet empty it has read them.
LateInv ==
  /\ \A u \in Users : Due(u) \subseteq cart[u]
  /\ \A a \in adding : Due(a.user) \subseteq a.read
  /\ \A c \in Calls : MayEmpty(c) => Due(owner[c]) \subseteq basket[c]

Explained(c, d) ==
  \/ {c, d} \in overlap
  \/ LeftCartFull(c) \/ LeftCartFull(d)
  \/ c \in crossed \/ d \in crossed

PairInv ==
  \A c, d \in Calls : c # d /\ basket[c] \cap basket[d] # {} => Explained(c, d)

IInv == TypeOK /\ ProgressInv /\ OnceInv /\ CartInv /\ LateInv /\ PairInv

-----------------------------------------------------------------------------
LEMMA AppendFacts ==
  ASSUME NEW S, NEW s \in Seq(S), NEW x \in S
  PROVE  /\ Append(s, x) \in Seq(S)
         /\ Append(s, x) # <<>>
         /\ s = <<>> => Len(Append(s, x)) = 1
         /\ \A i \in DOMAIN Append(s, x) :
              Append(s, x)[i] = x \/ (i \in DOMAIN s /\ Append(s, x)[i] = s[i])
OBVIOUS

\* What a step that executes op for c does to the requests executed.
LEMMA Execution ==
  ASSUME TypeOK, NEW op \in Ops, NEW c \in Calls,
         served' = [served EXCEPT ![op][c] = Append(@, basket[c])]
  PROVE  /\ served' \in [Ops -> [Calls -> Seq(SUBSET Lines)]]
         /\ Answered(op, c)'
         /\ \A o \in Ops, d \in Calls :
              (o # op \/ d # c) => served'[o][d] = served[o][d]
         /\ served[op][c] = <<>> => Len(served'[op][c]) = 1
         /\ \A i \in DOMAIN served'[op][c] :
              \/ served'[op][c][i] = basket[c]
              \/ i \in DOMAIN served[op][c] /\ served'[op][c][i] = served[op][c][i]
<1>1. served[op][c] \in Seq(SUBSET Lines) /\ basket[c] \in SUBSET Lines
  BY DEF TypeOK
<1>2. served'[op][c] = Append(served[op][c], basket[c])
      /\ \A o \in Ops, d \in Calls : (o # op \/ d # c) => served'[o][d] = served[o][d]
  BY DEF TypeOK
<1>3. Append(served[op][c], basket[c]) \in Seq(SUBSET Lines)
  BY <1>1, AppendFacts
<1>4. served' \in [Ops -> [Calls -> Seq(SUBSET Lines)]]
  BY <1>3 DEF TypeOK
<1> QED
  BY <1>1, <1>2, <1>4, AppendFacts DEF Answered

LEMMA InitInv == Init => IInv
<1> SUFFICES ASSUME Init
             PROVE  IInv
  OBVIOUS
<1>1. \A op \in Ops, c \in Calls : served[op][c] = <<>> /\ ~Answered(op, c) /\ ~Began(op, c)
  BY DEF Init, Answered, Began
<1>2. TypeOK
  <2>1. served \in [Ops -> [Calls -> Seq(SUBSET Lines)]]
    BY DEF Init
  <2> QED
    BY <2>1 DEF Init, TypeOK, Stages
<1>3. ProgressInv
  BY <1>1 DEF Init, ProgressInv, Progress, AfterShipping, Ops, Rpcs
<1>4. OnceInv
  <2>1. Len(<<>>) = 0 /\ DOMAIN <<>> = {}
    OBVIOUS
  <2> QED
    BY <1>1, <2>1 DEF Init, OnceInv
<1>5. CartInv /\ LateInv /\ PairInv
  BY DEF Init, CartInv, LateInv, Due, PairInv, MayEmpty
<1> QED
  BY <1>2, <1>3, <1>4, <1>5 DEF IInv

-----------------------------------------------------------------------------
LEMMA NextTypeOK == TypeOK /\ ProgressInv /\ [Next]_vars => TypeOK'
<1> SUFFICES ASSUME TypeOK, ProgressInv, [Next]_vars
             PROVE  TypeOK'
  OBVIOUS
<1> USE DEF TypeOK, callData, remote, store
<1>1. ASSUME NEW c \in Calls, NEW u \in Users, Start(c, u)
      PROVE  TypeOK'
  BY <1>1 DEF Start, Goto, Stages
<1>2. ASSUME NEW c \in Calls, GetCart(c)
      PROVE  TypeOK'
  <2>1. owner[c] \in Users /\ cart[owner[c]] \subseteq Lines
    BY <1>2 DEF GetCart, ProgressInv, Progress
  <2>2. overlap' \subseteq SUBSET Calls
    <3> DEFINE Others == {e \in Calls : e # c /\ owner[e] = owner[c] /\ MayEmpty(e)}
    <3>1. Others \subseteq Calls /\ \A d \in Calls : {c, d} \in SUBSET Calls
      OBVIOUS
    <3>2. overlap' = overlap \cup {{c, d} : d \in Others}
      BY <1>2 DEF GetCart
    <3> HIDE DEF Others
    <3> SUFFICES ASSUME NEW pair \in overlap', pair \notin overlap
                 PROVE  pair \in SUBSET Calls
      OBVIOUS
    <3>3. PICK d \in Others : pair = {c, d}
      BY <3>2
    <3> QED
      BY <3>1, <3>3
  <2> QED
    BY <1>2, <2>1, <2>2 DEF GetCart, Goto, Stages
<1>3. ASSUME NEW c \in Calls, Prepare(c) \/ FailBeforeShipping(c) \/ CardCharged(c)
                              \/ ShippingFails(c) \/ OrderShipped(c)
                              \/ EmptyReturns(c) \/ EmailReturns(c)
      PROVE  TypeOK'
  <2>1. pc' \in [Calls -> Stages] /\ wire' \subseteq Rpcs \X Calls
        /\ reply' \in [Calls -> {"none", "OK", "Internal", "Unavailable", "lost"}]
    <3>1. CASE Prepare(c)
      BY <3>1 DEF Prepare, Goto, Send, Stages, Rpcs
    <3>2. CASE FailBeforeShipping(c) \/ ShippingFails(c) \/ EmailReturns(c)
      BY <3>2 DEF FailBeforeShipping, ShippingFails, EmailReturns, Goto, Return, Stages
    <3>3. CASE CardCharged(c)
      BY <3>3 DEF CardCharged, Goto, Send, Stages, Rpcs
    <3>4. CASE OrderShipped(c)
      BY <3>4 DEF OrderShipped, Goto, Send, Stages, Rpcs
    <3>5. CASE EmptyReturns(c)
      BY <3>5 DEF EmptyReturns, Goto, Send, Stages, Rpcs
    <3> QED
      BY <1>3, <3>1, <3>2, <3>3, <3>4, <3>5
  <2>2. UNCHANGED <<up, kafka, owner, basket, outbox, served, cart, adding, added, late,
                    crossed, overlap>>
    BY <1>3 DEF Prepare, FailBeforeShipping, CardCharged, ShippingFails, OrderShipped,
       EmptyReturns, EmailReturns
  <2> QED
    BY <2>1, <2>2
<1>4. ASSUME NEW c \in Calls, PublishNothing(c) \/ HandOver(c) \/ Confirmed(c)
      PROVE  TypeOK'
  <2>1. outbox' \in [Calls -> Nat]
    BY <1>4, OverloadAssumption DEF PublishNothing, HandOver, Confirmed
  <2> QED
    BY <1>4, <2>1 DEF PublishNothing, HandOver, Confirmed, Goto, Return, Stages
<1>5. CASE Crash \/ Restart
  BY <1>5 DEF Crash, Restart, Stages, InFlight
<1>6. ASSUME NEW op \in Rpcs, NEW c \in Calls, Serve(op, c)
      PROVE  TypeOK'
  <2>1. served' \in [Ops -> [Calls -> Seq(SUBSET Lines)]]
    BY <1>6, Execution DEF Serve, Ops
  <2> QED
    BY <1>6, <2>1 DEF Serve
<1>7. ASSUME NEW c \in Calls, Lose(c)
      PROVE  TypeOK'
  BY <1>7 DEF Lose
<1>8. ASSUME NEW c \in Calls, Broker(c)
      PROVE  TypeOK'
  <2>1. served' \in [Ops -> [Calls -> Seq(SUBSET Lines)]]
    BY <1>8, Execution DEF Broker, Ops
  <2> QED
    BY <1>8, <2>1 DEF Broker
<1>9. ASSUME NEW u \in Users, \/ Expire(u)
                               \/ \E l \in Lines : ReadCart(u, l)
      PROVE  TypeOK'
  <2>1. CASE Expire(u)
    BY <2>1 DEF Expire
  <2>2. ASSUME NEW l \in Lines, ReadCart(u, l)
        PROVE  TypeOK'
    <3>1. [user |-> u, line |-> l, read |-> cart[u]] \in [user : Users, line : Lines, read : SUBSET Lines]
      OBVIOUS
    <3>2. adding' \subseteq [user : Users, line : Lines, read : SUBSET Lines]
      BY <2>2, <3>1 DEF ReadCart
    <3> QED
      BY <2>2, <3>2 DEF ReadCart
  <2> QED
    BY <1>9, <2>1, <2>2
<1>10. ASSUME NEW a \in adding, WriteCart(a) \/ DropAdd(a)
       PROVE  TypeOK'
  <2>1. a.user \in Users /\ a.line \in Lines /\ Merged(a) \subseteq Lines
    BY DEF Merged
  <2>2. cart' \in [Users -> SUBSET Lines] /\ added' \in [Users -> SUBSET Lines]
        /\ adding' \subseteq adding /\ late' \subseteq Lines
    <3>1. CASE DropAdd(a)
      BY <3>1 DEF DropAdd
    <3>2. CASE WriteCart(a)
      <4>1. /\ cart' = [cart EXCEPT ![a.user] = Merged(a)]
            /\ added' = [added EXCEPT ![a.user] = @ \cup {a.line}]
            /\ adding' = adding \ {a} /\ late' \subseteq late \cup {a.line}
        BY <3>2 DEF WriteCart
      <4> QED
        BY <2>1, <4>1
    <3> QED
      BY <1>10, <3>1, <3>2
  <2>3. UNCHANGED <<up, kafka, pc, reply, wire, outbox, owner, basket, overlap, served, crossed>>
    BY <1>10 DEF WriteCart, DropAdd
  <2> QED
    BY <2>2, <2>3
<1>11. CASE UNCHANGED vars
  BY <1>11 DEF vars
<1> QED
  BY <1>1, <1>2, <1>3, <1>4, <1>5, <1>6, <1>7, <1>8, <1>9, <1>10, <1>11 DEF Next, Step

-----------------------------------------------------------------------------
\* The steps that touch nothing but the carts.
CartCommand ==
  \/ \E u \in Users : Expire(u) \/ \E l \in Lines : ReadCart(u, l)
  \/ \E a \in adding : WriteCart(a) \/ DropAdd(a)

\* Nothing that Progress(d) reads has changed.
SameCall(d) ==
  /\ pc'[d] = pc[d] /\ owner'[d] = owner[d] /\ basket'[d] = basket[d]
  /\ reply'[d] = reply[d] /\ outbox'[d] = outbox[d]
  /\ \A op \in Ops : /\ served'[op][d] = served[op][d]
                     /\ <<op, d>> \in wire' <=> <<op, d>> \in wire

LEMMA SameProgress ==
  ASSUME NEW d \in Calls, SameCall(d), Progress(d)
  PROVE  Progress(d)'
<1>1. \A op \in Ops : Answered(op, d)' = Answered(op, d) /\ Began(op, d)' = Began(op, d)
  BY DEF SameCall, Answered, Began
<1> QED
  BY <1>1 DEF SameCall, Progress, AfterShipping, Ops, Rpcs

\* A step of one call leaves the others alone.
LEMMA StepIsLocal ==
  ASSUME TypeOK, NEW c \in Calls, NEW d \in Calls, c # d,
         Step(c) \/ \E u \in Users : Start(c, u)
  PROVE  SameCall(d)
<1> USE DEF TypeOK, SameCall, callData, remote, store
<1>1. CASE \E u \in Users : Start(c, u)
  BY <1>1 DEF Start, Goto
<1>2. CASE GetCart(c)
  BY <1>2 DEF GetCart, Goto
<1>3. CASE Prepare(c)
  BY <1>3 DEF Prepare, Goto, Send
<1>4. CASE FailBeforeShipping(c) \/ ShippingFails(c) \/ EmailReturns(c)
  BY <1>4 DEF FailBeforeShipping, ShippingFails, EmailReturns, Goto, Return
<1>5. CASE CardCharged(c)
  BY <1>5 DEF CardCharged, Goto, Send
<1>6. CASE OrderShipped(c)
  BY <1>6 DEF OrderShipped, Goto, Send
<1>7. CASE EmptyReturns(c)
  BY <1>7 DEF EmptyReturns, Goto, Send
<1>8. CASE PublishNothing(c) \/ HandOver(c) \/ Confirmed(c)
  <2>1. outbox'[d] = outbox[d]
    BY <1>8 DEF PublishNothing, HandOver, Confirmed
  <2> QED
    BY <1>8, <2>1 DEF PublishNothing, HandOver, Confirmed, Goto, Return
<1> QED
  BY <1>1, <1>2, <1>3, <1>4, <1>5, <1>6, <1>7, <1>8 DEF Step

LEMMA NextProgress == TypeOK /\ ProgressInv /\ [Next]_vars => ProgressInv'
<1> SUFFICES ASSUME TypeOK, ProgressInv, [Next]_vars
             PROVE  ProgressInv'
  OBVIOUS
<1>1. ASSUME NEW c \in Calls, Step(c) \/ \E u \in Users : Start(c, u)
      PROVE  ProgressInv'
  <2>1. ASSUME NEW d \in Calls, d # c
        PROVE  Progress(d)'
    BY <1>1, <2>1, StepIsLocal, SameProgress DEF ProgressInv
  <2> SUFFICES Progress(c)'
    BY <2>1 DEF ProgressInv
  <2>2. Progress(c)
    BY DEF ProgressInv
  <2>3. \A op \in Ops : Answered(op, c)' = Answered(op, c)
    BY <1>1 DEF Step, Start, GetCart, Prepare, FailBeforeShipping, CardCharged, ShippingFails,
       OrderShipped, EmptyReturns, EmailReturns, PublishNothing, HandOver, Confirmed, remote, store, Answered
  <2>4. CASE \E u \in Users : Start(c, u)
    <3>1. \A op \in Ops : Began(op, c)' = Began(op, c)
      BY <2>3, <2>4 DEF Start, Began
    <3> QED
      BY <2>2, <2>3, <2>4, <3>1
      DEF Start, Goto, Progress, TypeOK, AfterShipping, Ops, Rpcs
  <2>5. CASE GetCart(c)
    <3>1. \A op \in Ops : Began(op, c)' = Began(op, c)
      BY <2>3, <2>5 DEF GetCart, Began
    <3> QED
      BY <2>2, <2>3, <2>5, <3>1
      DEF GetCart, Goto, Progress, TypeOK, AfterShipping, Ops, Rpcs, callData
  <2>6. CASE Prepare(c)
    <3>1. \A op \in Ops \ {"charge"} : Began(op, c)' = Began(op, c)
      BY <2>3, <2>6 DEF Prepare, Send, Began
    <3> QED
      BY <2>2, <2>3, <2>6, <3>1
      DEF Prepare, Goto, Progress, TypeOK, AfterShipping, Ops, Rpcs, callData
  <2>7. CASE FailBeforeShipping(c) \/ ShippingFails(c) \/ EmailReturns(c)
    <3>1. \A op \in Ops : Began(op, c)' = Began(op, c)
      BY <2>3, <2>7 DEF FailBeforeShipping, ShippingFails, EmailReturns, Began
    <3> QED
      BY <2>2, <2>3, <2>7, <3>1
      DEF FailBeforeShipping, ShippingFails, EmailReturns, Goto, Return, Progress, TypeOK,
          AfterShipping, Ops, Rpcs, callData
  <2>8. CASE CardCharged(c)
    <3>1. \A op \in Ops \ {"ship"} : Began(op, c)' = Began(op, c)
      BY <2>3, <2>8 DEF CardCharged, Send, Began
    <3> QED
      BY <2>2, <2>3, <2>8, <3>1
      DEF CardCharged, Goto, Progress, TypeOK, AfterShipping, Ops, Rpcs, callData
  <2>9. CASE OrderShipped(c)
    <3>1. \A op \in Ops \ {"empty"} : Began(op, c)' = Began(op, c)
      BY <2>3, <2>9 DEF OrderShipped, Send, Began
    <3> QED
      BY <2>2, <2>3, <2>9, <3>1
      DEF OrderShipped, Goto, Progress, TypeOK, AfterShipping, Ops, Rpcs, callData
  <2>10. CASE EmptyReturns(c)
    <3>1. \A op \in Ops \ {"email"} : Began(op, c)' = Began(op, c)
      BY <2>3, <2>10 DEF EmptyReturns, Send, Began
    <3> QED
      BY <2>2, <2>3, <2>10, <3>1
      DEF EmptyReturns, Goto, Progress, TypeOK, AfterShipping, Ops, Rpcs, callData
  <2>11. CASE PublishNothing(c) \/ HandOver(c) \/ Confirmed(c)
    <3>1. \A op \in Ops \ {"publish"} : Began(op, c)' = Began(op, c)
      BY <2>3, <2>11 DEF PublishNothing, HandOver, Confirmed, Began
    <3>2. PublishNothing(c) => Began("publish", c)' = Began("publish", c)
      BY <2>3 DEF PublishNothing, Began, Ops
    <3> QED
      BY <2>2, <2>3, <2>11, <3>1, <3>2
      DEF PublishNothing, HandOver, Confirmed, Goto, Return, Progress, TypeOK, AfterShipping, Ops, Rpcs, callData
  <2> QED
    BY <1>1, <2>4, <2>5, <2>6, <2>7, <2>8, <2>9, <2>10, <2>11 DEF Step
<1>2. CASE Crash \/ Restart
  <2> SUFFICES ASSUME NEW d \in Calls
               PROVE  Progress(d)'
    BY DEF ProgressInv
  <2>1. \A op \in Ops : Answered(op, d)' = Answered(op, d) /\ Began(op, d)' = Began(op, d)
    BY <1>2 DEF Crash, Restart, Answered, Began, remote, store
  <2>2. Progress(d)
    BY DEF ProgressInv
  <2>3. owner'[d] = owner[d] /\ basket'[d] = basket[d]
    BY <1>2 DEF Crash, Restart, callData
  <2> QED
    BY <1>2, <2>1, <2>2, <2>3
    DEF Crash, Restart, InFlight, Progress, TypeOK, Stages, AfterShipping, Ops, Rpcs
<1>3. ASSUME NEW op \in Rpcs, NEW c \in Calls, Serve(op, c)
      PROVE  ProgressInv'
  <2> SUFFICES ASSUME NEW d \in Calls
               PROVE  Progress(d)'
    BY DEF ProgressInv
  <2>1. Progress(d) /\ UNCHANGED <<pc, reply, owner, basket, outbox>>
    BY <1>3 DEF ProgressInv, Serve, callData
  <2>2. Answered(op, c)' /\ \A o \in Ops, e \in Calls :
          (o # op \/ e # c) => Answered(o, e)' = Answered(o, e)
    <3>1. op \in Ops /\ served' = [served EXCEPT ![op][c] = Append(@, basket[c])]
      BY <1>3 DEF Serve, Ops
    <3>2. /\ served'[op][c] = Append(served[op][c], basket[c])
          /\ \A o \in Ops, e \in Calls :
               (o # op \/ e # c) => served'[o][e] = served[o][e]
      BY <3>1 DEF TypeOK
    <3>3. served[op][c] \in Seq(SUBSET Lines) /\ basket[c] \in SUBSET Lines
      BY <3>1 DEF TypeOK
    <3>4. served'[op][c] # <<>>
      BY <3>2, <3>3, AppendFacts
    <3> QED
      BY <3>2, <3>4 DEF Answered
  <2>3. \A o \in Ops : Began(o, d)' = Began(o, d)
    BY <1>3, <2>1, <2>2 DEF Serve, Began, Ops, Rpcs
  <2>4. \A o \in Ops : Answered(o, d) => Answered(o, d)'
    BY <2>2
  <2> QED
    BY <2>1, <2>3, <2>4 DEF Progress, AfterShipping, Ops, Rpcs
<1>4. ASSUME NEW c \in Calls, Lose(c)
      PROVE  ProgressInv'
  <2> SUFFICES ASSUME NEW d \in Calls
               PROVE  Progress(d)'
    BY DEF ProgressInv
  <2>1. Progress(d) /\ UNCHANGED <<pc, reply, owner, basket, outbox, served>>
    BY <1>4 DEF ProgressInv, Lose, callData, remote, store
  <2>2. \A o \in Ops : /\ Answered(o, d)' = Answered(o, d)
                       /\ Began(o, d)' => Began(o, d)
    BY <1>4, <2>1 DEF Lose, Answered, Began
  <2> QED
    BY <2>1, <2>2 DEF Progress, AfterShipping, Ops, Rpcs
<1>5. ASSUME NEW c \in Calls, Broker(c)
      PROVE  ProgressInv'
  <2> SUFFICES ASSUME NEW d \in Calls
               PROVE  Progress(d)'
    BY DEF ProgressInv
  <2>1. Progress(d) /\ UNCHANGED <<pc, reply, owner, basket, wire>>
        /\ outbox' = [outbox EXCEPT ![c] = @ - 1] /\ outbox[c] > 0
    BY <1>5 DEF ProgressInv, Broker, callData
  <2>2. \A o \in Ops \ {"publish"} : Answered(o, d)' = Answered(o, d)
    BY <1>5, Execution DEF Broker, Ops, Answered
  <2>3. Answered("publish", d)' => Answered("publish", d) \/ d = c
    BY <1>5, Execution DEF Broker, Ops, Answered
  <2>4. \A o \in Ops \ {"publish"} : Began(o, d)' = Began(o, d)
    BY <2>1, <2>2 DEF Began
  <2>5. Began("publish", d)' => Began("publish", d)
    BY <2>1, <2>3 DEF Began, TypeOK
  <2> QED
    BY <2>1, <2>2, <2>4, <2>5 DEF Progress, AfterShipping, Ops, Rpcs
<1>6. CASE CartCommand
  <2>1. \A d \in Calls : SameCall(d)
    BY <1>6 DEF CartCommand, ReadCart, WriteCart, DropAdd, Expire, SameCall, callData
  <2> QED
    BY <2>1, SameProgress DEF ProgressInv
<1>7. CASE UNCHANGED vars
  <2>1. \A d \in Calls : SameCall(d)
    BY <1>7 DEF vars, remote, store, callData, SameCall
  <2> QED
    BY <2>1, SameProgress DEF ProgressInv
<1> QED
  BY <1>1, <1>2, <1>3, <1>4, <1>5, <1>6, <1>7 DEF Next, CartCommand

LEMMA NextOnce == TypeOK /\ ProgressInv /\ OnceInv /\ [Next]_vars => OnceInv'
<1> SUFFICES ASSUME TypeOK, ProgressInv, OnceInv, [Next]_vars,
                    NEW d \in Calls, NEW o \in Ops
             PROVE  /\ o \in Rpcs => Len(served'[o][d]) <= 1
                    /\ <<o, d>> \in wire' => served'[o][d] = <<>>
                    /\ \A i \in DOMAIN served'[o][d] : served'[o][d][i] = basket'[d]
  BY DEF OnceInv
<1>1. /\ o \in Rpcs => Len(served[o][d]) <= 1
      /\ <<o, d>> \in wire => served[o][d] = <<>>
      /\ \A i \in DOMAIN served[o][d] : served[o][d][i] = basket[d]
  BY DEF OnceInv
<1>2. ASSUME NEW c \in Calls, Step(c) \/ \E u \in Users : Start(c, u)
      PROVE  /\ o \in Rpcs => Len(served'[o][d]) <= 1
             /\ <<o, d>> \in wire' => served'[o][d] = <<>>
             /\ \A i \in DOMAIN served'[o][d] : served'[o][d][i] = basket'[d]
  <2>1. CASE c # d
    <3>1. SameCall(d)
      BY <1>2, <2>1, StepIsLocal
    <3> QED
      BY <1>1, <3>1 DEF SameCall
  <2>2. CASE c = d
    <3>1. served'[o][d] = served[o][d]
      BY <1>2 DEF Step, Start, GetCart, Prepare, FailBeforeShipping, CardCharged, ShippingFails,
         OrderShipped, EmptyReturns, EmailReturns, PublishNothing, HandOver, Confirmed, remote, store
    <3>2. Progress(d)
      BY DEF ProgressInv
    <3>3. <<o, d>> \in wire' => served[o][d] = <<>>
      <4> SUFFICES ASSUME <<o, d>> \in wire', <<o, d>> \notin wire
                   PROVE  ~Answered(o, d)
        BY <1>1 DEF Answered
      <4> QED
        BY <1>2, <2>2, <3>2
        DEF Step, Start, GetCart, Prepare, FailBeforeShipping, CardCharged, ShippingFails,
            OrderShipped, EmptyReturns, EmailReturns, PublishNothing, HandOver, Confirmed, Send, Progress, Began
    <3>4. CASE GetCart(d)
      <4>1. served[o][d] = <<>>
        BY <3>2, <3>4 DEF GetCart, Progress, Began, Answered, Ops, Rpcs
      <4> QED
        BY <1>1, <3>1, <3>3, <4>1
    <3>5. CASE ~GetCart(d)
      <4>1. basket' = basket
        BY <1>2, <2>2, <3>5
        DEF Step, Start, Prepare, FailBeforeShipping, CardCharged, ShippingFails,
            OrderShipped, EmptyReturns, EmailReturns, PublishNothing, HandOver, Confirmed, callData
      <4> QED
        BY <1>1, <3>1, <3>3, <4>1
    <3> QED
      BY <3>4, <3>5
  <2> QED
    BY <2>1, <2>2
<1>3. ASSUME NEW op \in Rpcs, NEW c \in Calls, Serve(op, c)
      PROVE  /\ o \in Rpcs => Len(served'[o][d]) <= 1
             /\ <<o, d>> \in wire' => served'[o][d] = <<>>
             /\ \A i \in DOMAIN served'[o][d] : served'[o][d][i] = basket'[d]
  <2>1. op \in Ops /\ served' = [served EXCEPT ![op][c] = Append(@, basket[c])]
        /\ basket' = basket /\ wire' = wire \ {<<op, c>>} /\ <<op, c>> \in wire
    BY <1>3 DEF Serve, Ops, callData
  <2>2. CASE op = o /\ c = d
    BY <1>1, <2>1, <2>2, Execution
  <2>3. CASE op # o \/ c # d
    <3>1. served'[o][d] = served[o][d]
      BY <2>1, <2>3, Execution
    <3> QED
      BY <1>1, <2>1, <3>1
  <2> QED
    BY <2>2, <2>3
<1>4. ASSUME NEW c \in Calls, Broker(c)
      PROVE  /\ o \in Rpcs => Len(served'[o][d]) <= 1
             /\ <<o, d>> \in wire' => served'[o][d] = <<>>
             /\ \A i \in DOMAIN served'[o][d] : served'[o][d][i] = basket'[d]
  <2>1. basket' = basket /\ wire' = wire
    BY <1>4 DEF Broker, callData
  <2>2. CASE served' = served
    BY <1>1, <2>1, <2>2
  <2>3. CASE served' = [served EXCEPT !["publish"][c] = Append(@, basket[c])]
    <3>1. CASE o = "publish" /\ c = d
      <4>1. o \notin Rpcs /\ <<o, d>> \notin wire
        BY <3>1 DEF Rpcs, TypeOK
      <4> QED
        BY <1>1, <2>1, <2>3, <3>1, <4>1, Execution
    <3>2. CASE o # "publish" \/ c # d
      <4>1. served'[o][d] = served[o][d]
        BY <2>3, <3>2, Execution DEF Ops
      <4> QED
        BY <1>1, <2>1, <4>1
    <3> QED
      BY <3>1, <3>2
  <2> QED
    BY <1>4, <2>2, <2>3 DEF Broker
<1>5. CASE UNCHANGED <<served, basket>> /\ wire' \subseteq wire
  BY <1>1, <1>5
<1>6. ASSUME NEW c \in Calls, Lose(c)
      PROVE  UNCHANGED <<served, basket>> /\ wire' \subseteq wire
  BY <1>6 DEF Lose, remote, store, callData
<1>7. ASSUME Crash \/ Restart \/ CartCommand \/ UNCHANGED vars
      PROVE  UNCHANGED <<served, basket>> /\ wire' \subseteq wire
  BY <1>7 DEF Crash, Restart, CartCommand, ReadCart, WriteCart, DropAdd, Expire,
     remote, store, callData, vars
<1> QED
  BY <1>2, <1>3, <1>4, <1>5, <1>6, <1>7 DEF Next, CartCommand

-----------------------------------------------------------------------------
(***************************************************************************)
(* What a step may do to a cart, seen from the calls: six kinds of step    *)
(* matter, and every other step is quiet.                                  *)
(***************************************************************************)
Quiet ==
  /\ UNCHANGED <<owner, basket, overlap, cart, added, late, crossed>>
  /\ adding' \subseteq adding
  /\ \A d \in Calls :
       /\ MayEmpty(d)' => MayEmpty(d)
       /\ Answered("empty", d)' = Answered("empty", d)
       /\ Answered("ship", d) => Answered("ship", d)'
       /\ pc'[d] # "idle" => pc[d] # "idle"

LEMMA ServedStays ==
  ASSUME TypeOK, NEW op \in Rpcs, NEW c \in Calls, NEW d \in Calls, Serve(op, c)
  PROVE  /\ op # "empty" => served'["empty"][d] = served["empty"][d]
         /\ Answered("ship", d) => Answered("ship", d)'
<1>1. op \in Ops /\ served' = [served EXCEPT ![op][c] = Append(@, basket[c])]
  BY DEF Serve, Ops
<1>2. Answered(op, c)'
  BY <1>1, Execution
<1>3. \A o \in Ops, e \in Calls : o # op \/ e # c => served'[o][e] = served[o][e]
  BY <1>1, Execution
<1>4. "empty" \in Ops /\ "ship" \in Ops
  BY DEF Ops, Rpcs
<1> QED
  BY <1>2, <1>3, <1>4 DEF Answered

LEMMA StepKinds ==
  ASSUME TypeOK, [Next]_vars
  PROVE  \/ \E c \in Calls, u \in Users : Start(c, u)
         \/ \E c \in Calls : GetCart(c) \/ Serve("empty", c)
         \/ \E u \in Users : Expire(u) \/ \E l \in Lines : ReadCart(u, l)
         \/ \E a \in adding : WriteCart(a)
         \/ Quiet
<1> USE DEF TypeOK, Quiet, callData, remote, store
<1>1. ASSUME NEW c \in Calls, Step(c), ~GetCart(c)
      PROVE  Quiet
  <2>1. UNCHANGED <<owner, basket, overlap, cart, added, late, crossed, adding, served>>
    BY <1>1 DEF Step, Prepare, FailBeforeShipping, CardCharged, ShippingFails,
       OrderShipped, EmptyReturns, EmailReturns, PublishNothing, HandOver, Confirmed
  <2>2. \A d \in Calls : /\ MayEmpty(d)' => MayEmpty(d)
                         /\ pc'[d] # "idle" => pc[d] # "idle"
    <3>1. CASE Prepare(c)
      BY <3>1 DEF Prepare, Goto, Send, MayEmpty
    <3>2. CASE FailBeforeShipping(c) \/ ShippingFails(c) \/ EmailReturns(c)
      BY <3>2 DEF FailBeforeShipping, ShippingFails, EmailReturns, Goto, Return, MayEmpty
    <3>3. CASE CardCharged(c)
      BY <3>3 DEF CardCharged, Goto, Send, MayEmpty
    <3>4. CASE OrderShipped(c)
      BY <3>4 DEF OrderShipped, Goto, Send, MayEmpty
    <3>5. CASE EmptyReturns(c)
      BY <3>5 DEF EmptyReturns, Goto, Send, MayEmpty
    <3>6. CASE PublishNothing(c) \/ HandOver(c) \/ Confirmed(c)
      BY <3>6 DEF PublishNothing, HandOver, Confirmed, Goto, Return, MayEmpty
    <3> QED
      BY <1>1, <3>1, <3>2, <3>3, <3>4, <3>5, <3>6 DEF Step
  <2> QED
    BY <2>1, <2>2 DEF Answered
<1>2. CASE Crash \/ Restart
  BY <1>2 DEF Crash, Restart, InFlight, MayEmpty, Answered
<1>3. ASSUME NEW op \in Rpcs, NEW c \in Calls, Serve(op, c), op # "empty"
      PROVE  Quiet
  <2>1. \A d \in Calls : /\ served'["empty"][d] = served["empty"][d]
                         /\ Answered("ship", d) => Answered("ship", d)'
    BY <1>3, ServedStays
  <2> QED
    BY <1>3, <2>1 DEF Serve, MayEmpty, Answered
<1>4. ASSUME NEW c \in Calls, Lose(c)
      PROVE  Quiet
  BY <1>4 DEF Lose, MayEmpty, Answered
<1>5. ASSUME NEW c \in Calls, Broker(c)
      PROVE  Quiet
  <2>1. \A d \in Calls : /\ served'["empty"][d] = served["empty"][d]
                         /\ served'["ship"][d] = served["ship"][d]
    BY <1>5, Execution DEF Broker, Ops, Rpcs
  <2> QED
    BY <1>5, <2>1 DEF Broker, MayEmpty, Answered
<1>6. ASSUME NEW a \in adding, DropAdd(a)
      PROVE  Quiet
  BY <1>6 DEF DropAdd, MayEmpty, Answered
<1>7. CASE UNCHANGED vars
  BY <1>7 DEF vars, MayEmpty, Answered
<1> QED
  BY <1>1, <1>2, <1>3, <1>4, <1>5, <1>6, <1>7 DEF Next

\* What the other kinds of step do.
LEMMA StartFacts ==
  ASSUME TypeOK, ProgressInv, NEW c \in Calls, NEW u \in Users, Start(c, u)
  PROVE  /\ UNCHANGED <<basket, overlap, cart, added, late, crossed, adding, served, wire>>
         /\ basket[c] = {} /\ pc[c] = "idle" /\ owner'[c] = u
         /\ ~MayEmpty(c)' /\ ~Answered("empty", c) /\ ~Answered("ship", c)
         /\ \A d \in Calls : d # c => owner'[d] = owner[d] /\ pc'[d] = pc[d]
BY DEF TypeOK, ProgressInv, Progress, Start, Goto, Began, MayEmpty, Answered, remote, store, Ops, Rpcs

LEMMA GetCartFacts ==
  ASSUME TypeOK, ProgressInv, NEW c \in Calls, GetCart(c)
  PROVE  /\ UNCHANGED <<owner, cart, added, late, crossed, adding, served, wire>>
         /\ owner[c] \in Users /\ pc[c] = "cart" /\ pc'[c] = "prepare"
         /\ basket'[c] = cart[owner[c]] /\ basket[c] = {}
         /\ ~Answered("empty", c) /\ ~Answered("ship", c)
         /\ \A d \in Calls : d # c => basket'[d] = basket[d] /\ pc'[d] = pc[d]
         /\ overlap \subseteq overlap'
         /\ \A d \in Calls : d # c /\ owner[d] = owner[c] /\ MayEmpty(d) => {c, d} \in overlap'
<1>1. ~Began("empty", c) /\ ~Began("ship", c) /\ owner[c] \in Users /\ basket[c] = {}
  BY DEF ProgressInv, Progress, GetCart, AfterShipping
<1>2. overlap \subseteq overlap'
      /\ \A d \in Calls : d # c /\ owner[d] = owner[c] /\ MayEmpty(d) => {c, d} \in overlap'
  <2> DEFINE Others == {e \in Calls : e # c /\ owner[e] = owner[c] /\ MayEmpty(e)}
  <2>1. \A d \in Calls : d # c /\ owner[d] = owner[c] /\ MayEmpty(d) => d \in Others
    OBVIOUS
  <2>2. overlap' = overlap \cup {{c, d} : d \in Others}
    BY DEF GetCart
  <2> HIDE DEF Others
  <2> QED
    BY <2>1, <2>2
<1> QED
  BY <1>1, <1>2 DEF TypeOK, GetCart, Goto, Began, Answered, remote, store

LEMMA EmptyFacts ==
  ASSUME TypeOK, ProgressInv, NEW c \in Calls, Serve("empty", c)
  PROVE  /\ UNCHANGED <<owner, basket, overlap, added, late, adding, pc>>
         /\ owner[c] \in Users /\ MayEmpty(c) /\ Answered("ship", c) /\ pc[c] # "idle"
         /\ cart'[owner[c]] = {}
         /\ \A u \in Users : u # owner[c] => cart'[u] = cart[u]
         /\ crossed \subseteq crossed'
         /\ c \notin crossed' => AddsOf(owner[c]) = {}
         /\ \A d \in Calls : /\ MayEmpty(d)' => MayEmpty(d)
                             /\ d # c => Answered("empty", d)' = Answered("empty", d)
                             /\ Answered("ship", d)' = Answered("ship", d)
<1>1. Began("empty", c) /\ MayEmpty(c)
  BY DEF Serve, Began, MayEmpty
<1>2. Answered("ship", c) /\ pc[c] # "idle" /\ owner[c] \in Users
  BY <1>1 DEF ProgressInv, Progress, AfterShipping
<1>3. \A d \in Calls : /\ d # c => served'["empty"][d] = served["empty"][d]
                       /\ served'["ship"][d] = served["ship"][d]
  BY Execution DEF Serve, Ops, Rpcs
<1> QED
  BY <1>1, <1>2, <1>3 DEF TypeOK, Serve, MayEmpty, Answered, callData

\* A step that touches nothing but the carts leaves the calls as they are.
LEMMA CommandFacts ==
  ASSUME CartCommand
  PROVE  /\ UNCHANGED <<owner, basket, overlap, pc, wire, served, crossed>>
         /\ \A c \in Calls : /\ MayEmpty(c)' = MayEmpty(c)
                             /\ \A op \in Ops : Answered(op, c)' = Answered(op, c)
<1>1. UNCHANGED <<owner, basket, overlap, pc, wire, served, crossed>>
  BY DEF CartCommand, ReadCart, WriteCart, DropAdd, Expire, callData
<1> QED
  BY <1>1 DEF MayEmpty, Answered

LEMMA ReceivedStays ==
  ASSUME CartCommand, NEW u
  PROVE  Received(u)' = Received(u)
BY CommandFacts DEF Received, Answered

LEMMA WriteFacts ==
  ASSUME TypeOK, NEW a \in adding, WriteCart(a)
  PROVE  /\ a.user \in Users /\ a.line \in Lines /\ adding' = adding \ {a}
         /\ cart'[a.user] = a.read \cup {a.line}
         /\ added'[a.user] = added[a.user] \cup {a.line}
         /\ \A v \in Users : v # a.user => cart'[v] = cart[v] /\ added'[v] = added[v]
         /\ late \subseteq late'
         /\ \A b \in adding : b # a /\ b.user = a.user => a.line \in late'
         /\ \A c \in Calls : owner[c] = a.user /\ MayEmpty(c) => a.line \in late'
<1>1. a.user \in Users /\ a.line \in Lines
  BY DEF TypeOK
<1>2. \A b \in adding : b # a /\ b.user = a.user => AddsOf(a.user) # {a}
  BY DEF AddsOf
<1> QED
  BY <1>1, <1>2 DEF TypeOK, WriteCart, Merged

\* Neither commands nor calls mix up the lines of carts, baskets and reads.
LEMMA NextCarts == TypeOK /\ ProgressInv /\ CartInv /\ [Next]_vars => CartInv'
<1> SUFFICES ASSUME TypeOK, ProgressInv, CartInv, [Next]_vars
             PROVE  CartInv'
  OBVIOUS
<1> USE DEF CartInv, AddsOf
<1> \A d \in Calls : pc[d] # "idle" => owner[d] \in Users
  BY DEF ProgressInv, Progress
<1> \A a \in adding : a.user \in Users
  BY DEF TypeOK
<1>1. CASE \E c \in Calls, u \in Users : Start(c, u)
  <2> PICK c \in Calls, u \in Users : Start(c, u)
    BY <1>1
  <2>1. \A d \in Calls : Answered("empty", d)' = Answered("empty", d)
    BY StartFacts DEF Answered
  <2> QED
    BY <2>1, StartFacts
<1>2. CASE \E c \in Calls : GetCart(c)
  <2> PICK c \in Calls : GetCart(c)
    BY <1>2
  <2>1. \A d \in Calls : Answered("empty", d)' = Answered("empty", d)
    BY GetCartFacts DEF Answered
  <2> QED
    BY <2>1, GetCartFacts
<1>3. CASE \E c \in Calls : Serve("empty", c)
  <2> PICK c \in Calls : Serve("empty", c)
    BY <1>3
  <2>1. \A u \in Users : cart'[u] \subseteq cart[u]
    BY EmptyFacts
  <2> QED
    BY <2>1, EmptyFacts
<1>4. CASE CartCommand
  <2>1. UNCHANGED <<owner, basket, pc, crossed>>
        /\ \A d \in Calls : Answered("empty", d)' = Answered("empty", d)
    BY <1>4, CommandFacts DEF Ops, Rpcs
  <2>2. CASE \E u \in Users : Expire(u)
    <3>1. adding' = adding /\ added' = added /\ \A v \in Users : cart'[v] \subseteq cart[v]
      BY <2>2 DEF Expire, TypeOK
    <3> QED
      BY <2>1, <3>1
  <2>3. CASE \E u \in Users, l \in Lines : ReadCart(u, l)
    <3> PICK u \in Users, l \in Lines : ReadCart(u, l)
      BY <2>3
    <3> DEFINE new == [user |-> u, line |-> l, read |-> cart[u]]
    <3>1. /\ adding' = adding \cup {new} /\ added' = added /\ cart' = cart
          /\ \A v \in Users : l \notin added[v]
          /\ \A a \in adding : a.line # l
      BY DEF ReadCart
    <3>2. new.user = u /\ new.line = l /\ new.read = cart[u]
      OBVIOUS
    <3> HIDE DEF new
    <3> QED
      BY <2>1, <3>1, <3>2
  <2>4. CASE \E a \in adding : WriteCart(a)
    <3> PICK a \in adding : WriteCart(a)
      BY <2>4
    <3>1. /\ \A v \in Users : cart'[v] \subseteq added'[v]
          /\ \A v, w \in Users : v # w => added'[v] \cap added'[w] = {}
      BY WriteFacts
    <3>2. \A b \in adding' : b \in adding /\ b.line # a.line
      BY WriteFacts
    <3>3. \A v \in Users : added[v] \subseteq added'[v] /\ added'[v] \subseteq added[v] \cup {a.line}
      BY WriteFacts
    <3>4. ASSUME NEW c \in Calls, pc[c] # "idle"
          PROVE  /\ basket[c] \subseteq added'[owner[c]]
                 /\ Answered("empty", c) /\ c \notin crossed =>
                      /\ basket[c] \cap cart'[owner[c]] = {}
                      /\ \A b \in adding' : b.user = owner[c] => b.read \cap basket[c] = {}
      <4>1. basket[c] \subseteq added[owner[c]] /\ owner[c] \in Users
        BY <3>4
      <4>2. a.line \notin basket[c]
        BY <4>1
      <4> QED
        BY <3>2, <3>3, <3>4, <4>1, <4>2, WriteFacts
    <3> QED
      BY <2>1, <3>1, <3>2, <3>3, <3>4
  <2>5. CASE \E a \in adding : DropAdd(a)
    <3>1. adding' \subseteq adding /\ added' = added /\ cart' = cart
      BY <2>5 DEF DropAdd
    <3> QED
      BY <2>1, <3>1
  <2> QED
    BY <1>4, <2>2, <2>3, <2>4, <2>5 DEF CartCommand
<1>5. CASE Quiet
  BY <1>5 DEF Quiet
<1> QED
  BY <1>1, <1>2, <1>3, <1>4, <1>5, StepKinds DEF CartCommand

\* Lines that are due become fewer by whatever is shipped.
LEMMA DueShrinks ==
  ASSUME NEW u \in Users, added'[u] \subseteq added[u], late \subseteq late',
         \A d \in Calls : Answered("ship", d) =>
           Answered("ship", d)' /\ owner'[d] = owner[d] /\ basket'[d] = basket[d]
  PROVE  Due(u)' \subseteq Due(u)
<1>1. Received(u) \subseteq Received(u)'
  BY DEF Received
<1> QED
  BY <1>1 DEF Due

LEMMA NextLate == TypeOK /\ ProgressInv /\ LateInv /\ [Next]_vars => LateInv'
<1> SUFFICES ASSUME TypeOK, ProgressInv, LateInv, [Next]_vars
             PROVE  LateInv'
  OBVIOUS
<1> USE DEF LateInv
<1> \A d \in Calls : pc[d] # "idle" => owner[d] \in Users
  BY DEF ProgressInv, Progress
<1> \A d \in Calls : MayEmpty(d) => pc[d] # "idle"
  BY DEF MayEmpty, ProgressInv, Progress, Began
<1> \A a \in adding : a.user \in Users
  BY DEF TypeOK
<1>1. CASE \E c \in Calls, u \in Users : Start(c, u)
  <2> PICK c \in Calls, u \in Users : Start(c, u)
    BY <1>1
  <2>1. \A v \in Users : Due(v)' \subseteq Due(v)
    BY StartFacts, DueShrinks DEF Answered
  <2>2. \A d \in Calls : MayEmpty(d)' => MayEmpty(d) /\ d # c
    BY StartFacts DEF MayEmpty
  <2> QED
    BY <2>1, <2>2, StartFacts
<1>2. CASE \E c \in Calls : GetCart(c)
  <2> PICK c \in Calls : GetCart(c)
    BY <1>2
  <2>1. \A v \in Users : Due(v)' \subseteq Due(v)
    BY GetCartFacts, DueShrinks DEF Answered
  <2>2. \A d \in Calls : d # c /\ MayEmpty(d)' => MayEmpty(d)
    BY GetCartFacts DEF MayEmpty
  <2> QED
    BY <2>1, <2>2, GetCartFacts
<1>3. CASE \E c \in Calls : Serve("empty", c)
  <2> PICK c \in Calls : Serve("empty", c)
    BY <1>3
  <2>1. \A v \in Users : Due(v)' \subseteq Due(v)
    BY EmptyFacts, DueShrinks
  <2>2. Due(owner[c])' = {}
    <3>1. basket[c] \subseteq Received(owner[c])
      BY EmptyFacts DEF Received
    <3>2. Due(owner[c]) \subseteq basket[c]
      BY EmptyFacts
    <3>3. Due(owner[c]) \cap Received(owner[c]) = {}
      BY DEF Due
    <3> QED
      BY <2>1, <3>1, <3>2, <3>3, EmptyFacts
  <2> QED
    BY <2>1, <2>2, EmptyFacts
<1>4. CASE CartCommand
  <2>1. UNCHANGED <<owner, basket>> /\ \A d \in Calls : MayEmpty(d)' = MayEmpty(d)
    BY <1>4, CommandFacts
  <2>2. CASE \E u \in Users : Expire(u)
    <3> PICK u \in Users : Expire(u)
      BY <2>2
    <3>1. /\ adding' = adding /\ added' = added /\ late' = late \cup cart[u]
          /\ \A v \in Users : v # u => cart'[v] = cart[v]
      BY DEF Expire, TypeOK
    <3>2. ASSUME NEW v \in Users
          PROVE  Due(v)' \subseteq Due(v) \ cart[u]
      <4>1. Received(v)' = Received(v)
        BY <1>4, ReceivedStays
      <4> QED
        BY <3>1, <4>1 DEF Due
    <3>3. Due(u)' = {}
      BY <3>2
    <3> QED
      BY <2>1, <3>1, <3>2, <3>3
  <2>3. CASE \E u \in Users, l \in Lines : ReadCart(u, l)
    <3> PICK u \in Users, l \in Lines : ReadCart(u, l)
      BY <2>3
    <3> DEFINE new == [user |-> u, line |-> l, read |-> cart[u]]
    <3>1. adding' = adding \cup {new} /\ added' = added /\ cart' = cart /\ late' = late
      BY DEF ReadCart
    <3>2. ASSUME NEW v \in Users
          PROVE  Due(v)' = Due(v)
      <4>1. Received(v)' = Received(v)
        BY <1>4, ReceivedStays
      <4> QED
        BY <3>1, <4>1 DEF Due
    <3>3. new.user = u /\ new.read = cart[u]
      OBVIOUS
    <3> HIDE DEF new
    <3> QED
      BY <2>1, <3>1, <3>2, <3>3
  <2>4. CASE \E a \in adding : WriteCart(a)
    <3> PICK a \in adding : WriteCart(a)
      BY <2>4
    <3>1. ASSUME NEW v \in Users, v # a.user
          PROVE  Due(v)' \subseteq Due(v)
      <4>1. Received(v)' = Received(v)
        BY <1>4, ReceivedStays
      <4> QED
        BY <3>1, <4>1, WriteFacts DEF Due
    <3>2. Due(a.user)' \subseteq Due(a.user) \cup {a.line}
      <4>1. a.user \in Users /\ Received(a.user)' = Received(a.user)
        BY <1>4, ReceivedStays
      <4> QED
        BY <4>1, WriteFacts DEF Due
    <3>3. a.line \in late' => Due(a.user)' \subseteq Due(a.user)
      BY <3>2 DEF Due
    <3>4. \A v \in Users : Due(v)' \subseteq cart'[v]
      BY <3>1, <3>2, WriteFacts
    <3>5. ASSUME NEW b \in adding'
          PROVE  Due(b.user)' \subseteq b.read
      <4>1. b \in adding /\ b # a /\ b.user \in Users /\ Due(b.user) \subseteq b.read
        BY WriteFacts
      <4>2. Due(b.user)' \subseteq Due(b.user)
        <5>1. CASE b.user = a.user
          BY <3>3, <4>1, <5>1, WriteFacts
        <5>2. CASE b.user # a.user
          BY <3>1, <4>1, <5>2
        <5> QED
          BY <5>1, <5>2
      <4> QED
        BY <4>1, <4>2
    <3>6. ASSUME NEW c \in Calls, MayEmpty(c)
          PROVE  Due(owner[c])' \subseteq basket[c]
      <4>1. owner[c] \in Users /\ owner'[c] = owner[c] /\ Due(owner[c]) \subseteq basket[c]
        BY <2>1, <3>6
      <4>2. Due(owner[c])' \subseteq Due(owner[c])
        <5>1. CASE owner[c] = a.user
          BY <2>1, <3>3, <3>6, <5>1, WriteFacts
        <5>2. CASE owner[c] # a.user
          BY <2>1, <3>1, <4>1, <5>2
        <5> QED
          BY <5>1, <5>2
      <4> QED
        BY <4>1, <4>2
    <3> QED
      BY <2>1, <3>4, <3>5, <3>6
  <2>5. CASE \E a \in adding : DropAdd(a)
    <3>1. adding' \subseteq adding /\ added' = added /\ cart' = cart /\ late' = late
      BY <2>5 DEF DropAdd
    <3>2. ASSUME NEW v \in Users
          PROVE  Due(v)' = Due(v)
      <4>1. Received(v)' = Received(v)
        BY <1>4, ReceivedStays
      <4> QED
        BY <3>1, <4>1 DEF Due
    <3> QED
      BY <2>1, <3>1, <3>2
  <2> QED
    BY <1>4, <2>2, <2>3, <2>4, <2>5 DEF CartCommand
<1>5. CASE Quiet
  <2>1. \A v \in Users : Due(v)' \subseteq Due(v)
    BY <1>5, DueShrinks DEF Quiet
  <2> QED
    BY <1>5, <2>1 DEF Quiet
<1> QED
  BY <1>1, <1>2, <1>3, <1>4, <1>5, StepKinds DEF CartCommand

\* Once explained, a shared line stays explained: overlap and crossed only
\* grow, and a call that is over without having emptied the cart stays so.
LEMMA NextPairs == TypeOK /\ ProgressInv /\ CartInv /\ PairInv /\ [Next]_vars => PairInv'
<1> SUFFICES ASSUME TypeOK, ProgressInv, CartInv, PairInv, [Next]_vars
             PROVE  PairInv'
  OBVIOUS
<1>1. \A c, d \in Calls : c # d /\ basket[c] \cap basket[d] # {} => Explained(c, d)
  BY DEF PairInv
<1>2. ASSUME basket' = basket, overlap' = overlap, crossed \subseteq crossed',
             \A c \in Calls : basket[c] # {} /\ LeftCartFull(c) => LeftCartFull(c)'
      PROVE  PairInv'
  <2> SUFFICES ASSUME NEW c \in Calls, NEW d \in Calls, c # d, basket[c] \cap basket[d] # {}
               PROVE  Explained(c, d)'
    BY <1>2 DEF PairInv
  <2>1. Explained(c, d) /\ basket[c] # {} /\ basket[d] # {}
    BY <1>1
  <2> QED
    BY <1>2, <2>1 DEF Explained
<1>3. CASE \E c \in Calls, u \in Users : Start(c, u)
  <2> PICK e \in Calls, u \in Users : Start(e, u)
    BY <1>3
  <2>1. \A c \in Calls : c # e => (LeftCartFull(c) => LeftCartFull(c)')
    BY StartFacts DEF LeftCartFull, MayEmpty, Answered
  <2> QED
    BY <1>2, <2>1, StartFacts
<1>4. CASE \E c \in Calls : GetCart(c)
  <2> PICK e \in Calls : GetCart(e)
    BY <1>4
  <2>1. \A c \in Calls : c # e => (LeftCartFull(c) <=> LeftCartFull(c)')
    BY GetCartFacts DEF LeftCartFull, MayEmpty, Answered
  <2>2. \A d \in Calls : d # e /\ basket[d] \cap cart[owner[e]] # {} =>
          {e, d} \in overlap' \/ LeftCartFull(d) \/ d \in crossed
    <3> SUFFICES ASSUME NEW d \in Calls, d # e, basket[d] \cap cart[owner[e]] # {},
                        ~LeftCartFull(d), d \notin crossed
                 PROVE  {e, d} \in overlap'
      OBVIOUS
    <3>1. pc[d] # "idle" /\ owner[d] \in Users /\ owner[e] \in Users
      BY GetCartFacts DEF ProgressInv, Progress
    <3>2. owner[d] = owner[e]
      BY <3>1 DEF CartInv
    <3>3. ~Answered("empty", d)
      BY <3>1, <3>2 DEF CartInv
    <3> QED
      BY <3>2, <3>3, GetCartFacts DEF LeftCartFull
  <2>3. /\ basket'[e] = cart[owner[e]]
        /\ \A c \in Calls : c # e => basket'[c] = basket[c]
        /\ overlap \subseteq overlap' /\ crossed' = crossed
    BY GetCartFacts
  <2> SUFFICES ASSUME NEW c \in Calls, NEW d \in Calls, c # d,
                      basket'[c] \cap basket'[d] # {}
               PROVE  Explained(c, d)'
    BY DEF PairInv
  <2>4. CASE c = e
    BY <2>1, <2>2, <2>3, <2>4 DEF Explained
  <2>5. CASE d = e
    <3>1. {d, c} \in overlap' \/ LeftCartFull(c) \/ c \in crossed
      BY <2>2, <2>3, <2>5
    <3>2. {d, c} = {c, d}
      OBVIOUS
    <3> QED
      BY <2>1, <2>3, <2>5, <3>1, <3>2 DEF Explained
  <2>6. CASE c # e /\ d # e
    <3>1. Explained(c, d)
      BY <1>1, <2>3, <2>6
    <3> QED
      BY <2>1, <2>3, <2>6, <3>1 DEF Explained
  <2> QED
    BY <2>4, <2>5, <2>6
<1>5. CASE \E c \in Calls : Serve("empty", c)
  <2> PICK e \in Calls : Serve("empty", e)
    BY <1>5
  <2>1. \A c \in Calls : LeftCartFull(c) => LeftCartFull(c)'
    BY EmptyFacts DEF LeftCartFull
  <2> QED
    BY <1>2, <2>1, EmptyFacts
<1>6. CASE CartCommand
  <2>1. \A c \in Calls : LeftCartFull(c) => LeftCartFull(c)'
    BY <1>6, CommandFacts DEF LeftCartFull, Ops, Rpcs
  <2> QED
    BY <1>2, <1>6, <2>1, CommandFacts
<1>7. CASE Quiet
  <2>1. \A c \in Calls : LeftCartFull(c) => LeftCartFull(c)'
    BY <1>7 DEF LeftCartFull, Quiet
  <2> QED
    BY <1>2, <1>7, <2>1 DEF Quiet
<1> QED
  BY <1>3, <1>4, <1>5, <1>6, <1>7, StepKinds DEF CartCommand

LEMMA NextInv == IInv /\ [Next]_vars => IInv'
BY NextTypeOK, NextProgress, NextOnce, NextCarts, NextLate, NextPairs DEF IInv

\* Spec keeps the inductive invariant.
THEOREM Invariance == Spec => []IInv
BY InitInv, NextInv, PTL DEF Spec

-----------------------------------------------------------------------------
\* The state of main.go's calls and of the services stays within its types.
THEOREM TypeCorrect == Spec => []TypeOK
<1>1. IInv => TypeOK
  BY DEF IInv
<1> QED
  BY <1>1, Invariance, PTL

\* A PlaceOrder call charges, ships, empties and confirms at most once, and
\* always for the basket that it read.
THEOREM OrdersOnce == Spec => []OneBasketOnce
<1>1. IInv => OneBasketOnce
  BY DEF IInv, OnceInv, OneBasketOnce
<1> QED
  BY <1>1, Invariance, PTL

\* The status PlaceOrder returns agrees with what the services have done.
THEOREM StatusIsTruthful == Spec => []StatusTellsTheOrder
<1>1. IInv => StatusTellsTheOrder
  <2> SUFFICES ASSUME IInv, NEW c \in Calls
               PROVE  /\ reply[c] = "OK" => Answered("charge", c) /\ Answered("ship", c)
                      /\ reply[c] = "Unavailable" => Answered("charge", c)
                      /\ reply[c] = "Internal" =>
                           /\ \A op \in Ops \ {"charge"} : ~Answered(op, c) /\ <<op, c>> \notin wire
                           /\ outbox[c] = 0
    BY DEF StatusTellsTheOrder
  <2>1. TypeOK /\ Progress(c)
    BY DEF IInv, ProgressInv
  <2>2. Answered("ship", c) => Answered("charge", c)
    BY <2>1 DEF Progress, Began
  <2>3. reply[c] = "Internal" => \A op \in Ops \ {"charge"} : ~Began(op, c)
    BY <2>1 DEF Progress, AfterShipping, Ops, Rpcs
  <2>4. ~Began("publish", c) => outbox[c] = 0
    BY <2>1 DEF Began, TypeOK
  <2>5. "publish" \in Ops \ {"charge"}
    BY DEF Ops
  <2>6. \A op \in Ops : ~Began(op, c) => ~Answered(op, c) /\ <<op, c>> \notin wire
    BY DEF Began
  <2> QED
    BY <2>1, <2>2, <2>3, <2>4, <2>5, <2>6 DEF Progress
<1> QED
  BY <1>1, Invariance, PTL

\* A line that is neither in the cart nor shipped was in a cart that expired,
\* or was written while an order or another AddItem of the same user, which
\* had read the cart before, could still overwrite it.
THEOREM CartsKeepTheirLines == Spec => []OnlyLateLinesVanish
<1>1. IInv => OnlyLateLinesVanish
  BY DEF IInv, LateInv, Due, OnlyLateLinesVanish
<1> QED
  BY <1>1, Invariance, PTL

\* Two calls ship the same line only if they overlapped between reading and
\* emptying the cart, one of them left it full, or the cart of one of them
\* was emptied between the read and the write of an AddItem.
THEOREM DoubleOrdersExplained == Spec => []NoDoubleOrder
<1>1. IInv => NoDoubleOrder
  BY DEF IInv, PairInv, Explained, NoDoubleOrder, Twice
<1> QED
  BY <1>1, Invariance, PTL

-----------------------------------------------------------------------------
\* Executing op for c adds c to the calls op was executed for, and changes
\* no other of these sets.
LEMMA ExecutedGrows ==
  ASSUME TypeOK, NEW op \in Ops, NEW c \in Calls,
         served' = [served EXCEPT ![op][c] = Append(@, basket[c])]
  PROVE  /\ Executed(op)' = Executed(op) \cup {c}
         /\ \A o \in Ops : o # op => Executed(o)' = Executed(o)
<1>1. Answered(op, c)'
  BY Execution
<1>2. \A o \in Ops, d \in Calls : o # op \/ d # c => served'[o][d] = served[o][d]
  BY Execution
<1> QED
  BY <1>1, <1>2 DEF Executed, Answered

LEMMA ExecutedStays ==
  ASSUME UNCHANGED served
  PROVE  \A o \in Ops : Executed(o)' = Executed(o)
BY DEF Executed, Answered

LEMMA StepImplements == IInv /\ [Next]_vars => [Lifecycle!Next]_(Lifecycle!vars)
<1> SUFFICES ASSUME IInv, [Next]_vars
             PROVE  [Lifecycle!Next]_(Lifecycle!vars)
  OBVIOUS
<1>1. TypeOK /\ \A c \in Calls : Progress(c)
  BY DEF IInv, ProgressInv
<1>2. "charge" \in Ops /\ "ship" \in Ops /\ "empty" \in Ops /\ "email" \in Ops /\ "publish" \in Ops
  BY DEF Ops, Rpcs
\* A step that neither executes a request nor answers a call is a stutter.
<1>3. CASE UNCHANGED <<served, reply>>
  BY <1>2, <1>3, ExecutedStays DEF Lifecycle!vars
<1>4. ASSUME NEW c \in Calls, Step(c), reply' # reply
      PROVE  Lifecycle!Next
  <2>1. served' = served
    BY <1>4 DEF Step, GetCart, Prepare, FailBeforeShipping, CardCharged, ShippingFails,
       OrderShipped, EmptyReturns, EmailReturns, PublishNothing, HandOver, Confirmed, remote, store
  <2>2. \A o \in Ops : Executed(o)' = Executed(o)
    BY <2>1, ExecutedStays
  <2>3. Progress(c)
    BY <1>1
  <2> SUFFICES \E status \in {"OK", "Unavailable", "Internal"} : Lifecycle!Answer(c, status)
    BY DEF Lifecycle!Next
  <2>4. CASE FailBeforeShipping(c)
    <3>1. pc[c] \in {"cart", "prepare", "charge"} /\ reply' = [reply EXCEPT ![c] = "Internal"]
      BY <2>4 DEF FailBeforeShipping, Return
    <3>2. ~Began("ship", c) /\ reply[c] = "none"
      BY <2>3, <3>1 DEF Progress
    <3>3. c \notin Executed("ship")
      BY <3>2 DEF Executed, Began
    <3>4. Lifecycle!Answer(c, "Internal")
      BY <1>2, <2>2, <3>1, <3>2, <3>3 DEF Lifecycle!Answer
    <3> QED
      BY <3>4
  <2>5. CASE ShippingFails(c)
    <3>1. pc[c] = "ship" /\ reply' = [reply EXCEPT ![c] = "Unavailable"]
      BY <2>5 DEF ShippingFails, Return
    <3>2. c \in Executed("charge") /\ reply[c] = "none"
      BY <2>3, <3>1 DEF Progress, Executed
    <3>3. Lifecycle!Answer(c, "Unavailable")
      BY <1>2, <2>2, <3>1, <3>2 DEF Lifecycle!Answer
    <3> QED
      BY <3>3
  <2>6. CASE PublishNothing(c) \/ Confirmed(c)
    <3>1. pc[c] \in {"publish", "confirm"} /\ reply' = [reply EXCEPT ![c] = "OK"]
      BY <2>6 DEF PublishNothing, Confirmed, Return
    <3>2. c \in Executed("ship") /\ reply[c] = "none"
      BY <2>3, <3>1 DEF Progress, Executed, AfterShipping
    <3>3. Lifecycle!Answer(c, "OK")
      BY <1>2, <2>2, <3>1, <3>2 DEF Lifecycle!Answer
    <3> QED
      BY <3>3
  <2> QED
    BY <1>4, <2>4, <2>5, <2>6
    DEF Step, GetCart, Prepare, CardCharged, OrderShipped, EmptyReturns, EmailReturns, HandOver
<1>5. CASE Crash
  <2> DEFINE S == {c \in Calls : InFlight(c)}
  <2>1. served' = served /\ reply' = [c \in Calls |-> IF c \in S THEN "lost" ELSE reply[c]]
    BY <1>5 DEF Crash, remote, store
  <2>2. \A o \in Ops : Executed(o)' = Executed(o)
    BY <2>1, ExecutedStays
  <2>3. \A c \in S : reply[c] = "none"
    BY <1>1 DEF Progress, InFlight
  <2>4. S \in SUBSET Calls
    OBVIOUS
  <2> HIDE DEF S
  <2>5. Lifecycle!Abandon(S)
    BY <1>2, <2>1, <2>2, <2>3 DEF Lifecycle!Abandon
  <2> QED
    BY <2>4, <2>5 DEF Lifecycle!Next
<1>6. ASSUME NEW op \in Rpcs, NEW c \in Calls, Serve(op, c)
      PROVE  Lifecycle!Next
  <2>1. op \in Ops /\ <<op, c>> \in wire /\ reply' = reply
        /\ served' = [served EXCEPT ![op][c] = Append(@, basket[c])]
    BY <1>6 DEF Serve, Ops
  <2>2. Executed(op)' = Executed(op) \cup {c} /\ \A o \in Ops : o # op => Executed(o)' = Executed(o)
    BY <1>1, <2>1, ExecutedGrows
  <2>3. Progress(c) /\ Began(op, c)
    BY <1>1, <2>1 DEF Began
  <2> SUFFICES Lifecycle!Pay(c) \/ Lifecycle!Send(c) \/ Lifecycle!Settle(c) \/ Lifecycle!Tell(c)
    BY DEF Lifecycle!Next
  <2>4. CASE op = "charge"
    BY <1>2, <2>1, <2>2, <2>4 DEF Lifecycle!Pay
  <2>5. CASE op = "ship"
    <3>1. c \in Executed("charge") /\ reply[c] # "Internal"
      BY <2>3, <2>5 DEF Progress, Executed
    <3> QED
      BY <1>2, <2>1, <2>2, <2>5, <3>1 DEF Lifecycle!Send
  <2>6. CASE op \in {"empty", "email"}
    <3>1. c \in Executed("ship")
      BY <2>3, <2>6 DEF Progress, Executed, AfterShipping
    <3> QED
      BY <1>2, <2>1, <2>2, <2>6, <3>1 DEF Lifecycle!Settle, Lifecycle!Tell
  <2> QED
    BY <2>4, <2>5, <2>6 DEF Rpcs
<1>7. ASSUME NEW c \in Calls, Broker(c), served' # served
      PROVE  Lifecycle!Next
  <2>1. reply' = reply /\ outbox[c] > 0
        /\ served' = [served EXCEPT !["publish"][c] = Append(@, basket[c])]
    BY <1>7 DEF Broker
  <2>2. /\ Executed("publish")' = Executed("publish") \cup {c}
        /\ \A o \in Ops : o # "publish" => Executed(o)' = Executed(o)
    BY <1>1, <1>2, <2>1, ExecutedGrows
  <2>3. c \in Executed("ship")
    BY <1>1, <2>1 DEF Progress, Began, Executed, AfterShipping
  <2>4. Lifecycle!Tell(c)
    BY <1>2, <2>1, <2>2, <2>3 DEF Lifecycle!Tell
  <2> QED
    BY <2>4 DEF Lifecycle!Next
<1>8. ASSUME \/ Restart
             \/ \E c \in Calls, u \in Users : Start(c, u)
             \/ \E c \in Calls : Lose(c)
             \/ CartCommand
             \/ UNCHANGED vars
      PROVE  UNCHANGED <<served, reply>>
  BY <1>8 DEF Restart, Start, Lose, CartCommand, ReadCart, WriteCart, DropAdd, Expire,
     vars, remote, store
<1>9. ASSUME NEW c \in Calls, Step(c)
      PROVE  served' = served
  BY <1>9 DEF Step, GetCart, Prepare, FailBeforeShipping, CardCharged, ShippingFails,
     OrderShipped, EmptyReturns, EmailReturns, PublishNothing, HandOver, Confirmed, remote, store
<1>10. ASSUME NEW c \in Calls, Broker(c)
       PROVE  reply' = reply
  BY <1>10 DEF Broker
<1> QED
  BY <1>3, <1>4, <1>5, <1>6, <1>7, <1>8, <1>9, <1>10 DEF Next, CartCommand

\* PlaceOrder, with all that its services, the network and crashes do to it,
\* keeps the promises of OrderLifecycle.
THEOREM Implements == Spec => ImplementsLifecycle
<1>1. Init => Lifecycle!Init
  <2> SUFFICES ASSUME Init
               PROVE  Lifecycle!Init
    OBVIOUS
  <2>1. \A op \in Ops, c \in Calls : ~Answered(op, c)
    BY DEF Init, Answered
  <2>2. \A op \in Ops : Executed(op) = {}
    BY <2>1 DEF Executed
  <2> QED
    BY <2>2 DEF Init, Lifecycle!Init, Ops, Rpcs
<1> QED
  BY <1>1, StepImplements, Invariance, PTL DEF Spec, ImplementsLifecycle, Lifecycle!Spec
=============================================================================
