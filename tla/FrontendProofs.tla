--------------------------- MODULE FrontendProofs ---------------------------
(***************************************************************************)
(* Proofs about the parts of the shop's clients, as MCFrontend puts them   *)
(* side by side: the cart on the screen (Storefront), the session, the     *)
(* product page, the scores of its reviews, and the messages to and from   *)
(* the services, of which CodecProofs says what is true of any protocol.   *)
(* Each part has an invariant of its own, which its steps keep, and which  *)
(* the steps of the others do not touch.                                   *)
(***************************************************************************)
EXTENDS MCFrontend, Sequences, FiniteSetTheorems, TLAPS

-----------------------------------------------------------------------------
(***************************************************************************)
(* The cart on the screen.                                                 *)
(*                                                                         *)
(* What a tab shows was an answer once, and what an answer holds was read  *)
(* from the cart: CartInv and AnswerInv follow the calls a tab was told of *)
(* from the cart to the answers, and ReadYourWrites to the screen.         *)
(***************************************************************************)

\* A call that was served has been through the cart.
CartInv == \A k \in Calls : call[k] \in {"served", "acked"} => k \in cart.through

\* An answer that is not told of as late was read after every call that has
\* been acknowledged.
AnswerInv ==
  \A c \in Currencies :
    fetch[c] = "answered" /\ c \notin joined => Acked \subseteq answer[c].through

ScreenInv == TypeOK /\ CartInv /\ AnswerInv /\ ReadYourWrites

LEMMA ScreenInitially == Init => ScreenInv
<1> SUFFICES ASSUME Init
             PROVE  ScreenInv
  OBVIOUS
<1>1. TypeOK
  BY StorefrontAssumption DEF Init, TypeOK, Carts, Blank
<1>2. CartInv /\ AnswerInv /\ ReadYourWrites
  BY DEF Init, CartInv, AnswerInv, ReadYourWrites, UpToDate, Acked
<1> QED
  BY <1>1, <1>2 DEF ScreenInv

-----------------------------------------------------------------------------
LEMMA AskTypes ==
  ASSUME TypeOK, NEW c \in Currencies, Ask(c)
  PROVE  /\ fetch' \in [Currencies -> {"idle", "asked", "answered"}]
         /\ answer' \in [Currencies -> Carts]
         /\ tries' \in [Currencies -> 0 .. Retries]
         /\ gaveUp' \subseteq Currencies
BY StorefrontAssumption DEF TypeOK, Ask, Blank, Carts

\* The types, one action at a time.
LEMMA NextTypeOK ==
  ASSUME TypeOK, [Next]_vars
  PROVE  TypeOK'
<1>1. ASSUME NEW c \in Currencies, Read(c) PROVE TypeOK'
  BY <1>1 DEF Read, calls, copies, TypeOK, Carts
<1>2. ASSUME NEW c \in Currencies, Arrive(c) PROVE TypeOK'
  BY <1>2, StorefrontAssumption DEF Arrive, Settle, Blank, calls, TypeOK, Carts
<1>3. ASSUME NEW c \in Currencies, Retry(c) PROVE TypeOK'
  BY <1>3, StorefrontAssumption DEF Retry, Blank, calls, copies, TypeOK, Carts
<1>4. ASSUME NEW c \in Currencies, GiveUp(c) PROVE TypeOK'
  BY <1>4, StorefrontAssumption DEF GiveUp, Settle, Blank, calls, copies, TypeOK, Carts
<1>5. ASSUME NEW c \in Currencies, Select(c) PROVE TypeOK'
  <2>1. CASE fetch[c] = "idle"
    BY <1>5, <2>1, AskTypes DEF Select, calls, copies, TypeOK
  <2>2. CASE fetch[c] # "idle"
    BY <1>5, <2>2 DEF Select, queries, calls, copies, TypeOK
  <2> QED
    BY <2>1, <2>2
<1>6. ASSUME NEW c \in Currencies, Collect(c) PROVE TypeOK'
  BY <1>6 DEF Collect, Blank, calls, queries, TypeOK, Carts
<1>7. ASSUME NEW k \in Calls, NEW what \in {"add", "empty", "order"}, Send(k, what)
      PROVE  TypeOK'
  BY <1>7 DEF Send, copies, queries, TypeOK
<1>8. ASSUME NEW k \in Calls, NEW what, NEW items \in BOOLEAN, Serve(k, what, items)
      PROVE  TypeOK'
  BY <1>8 DEF Serve, copies, queries, TypeOK, Carts
<1>9. ASSUME NEW k \in Calls, Fail(k) PROVE TypeOK'
  BY <1>9 DEF Fail, copies, queries, TypeOK
<1>10. ASSUME NEW k \in Calls, Answer(k) PROVE TypeOK'
  <2>1. CASE fetch[selected] = "idle" \/ selected \in cached
    <3>1. selected \in Currencies /\ Ask(selected)
      BY <1>10, <2>1 DEF Answer, Invalidate, TypeOK
    <3>2. joined' \subseteq Currencies
      BY <1>10, <2>1 DEF Answer, Invalidate, TypeOK
    <3> QED
      BY <1>10, <3>1, <3>2, AskTypes DEF Answer, copies, TypeOK
  <2>2. CASE ~(fetch[selected] = "idle" \/ selected \in cached)
    BY <1>10, <2>2 DEF Answer, Invalidate, copies, TypeOK
  <2> QED
    BY <2>1, <2>2
<1>11. ASSUME Focus PROVE TypeOK'
  BY <1>11, AskTypes DEF Focus, calls, copies, TypeOK
<1>12. ASSUME UNCHANGED vars PROVE TypeOK'
  BY <1>12 DEF vars, calls, copies, queries, TypeOK
<1>13. ASSUME NEW k \in Calls, ServeOrder(k) PROVE TypeOK'
  <2>1. PICK items \in {FALSE, cart.items} : Serve(k, "order", items)
    BY <1>13 DEF ServeOrder
  <2>2. items \in BOOLEAN
    BY <2>1 DEF TypeOK, Carts
  <2> QED
    BY <1>8, <2>1, <2>2
<1> QED
  BY <1>1, <1>2, <1>3, <1>4, <1>5, <1>6, <1>7, <1>8, <1>9, <1>10, <1>11, <1>12, <1>13
  DEF Next, AddItem, EmptyCart, PlaceOrder, ServeAdd, ServeEmpty

-----------------------------------------------------------------------------
LEMMA CartStep ==
  ASSUME ScreenInv, [Next]_vars
  PROVE  CartInv'
<1> USE DEF ScreenInv, CartInv, TypeOK, Carts
<1>1. ASSUME NEW k \in Calls, NEW what \in {"add", "empty", "order"}, Send(k, what)
      PROVE  CartInv'
  BY <1>1 DEF Send
<1>2. ASSUME NEW k \in Calls, NEW what, NEW items, Serve(k, what, items)
      PROVE  CartInv'
  BY <1>2 DEF Serve
<1>3. ASSUME NEW k \in Calls, Fail(k) \/ Answer(k) PROVE CartInv'
  BY <1>3 DEF Fail, Answer
<1>4. ASSUME UNCHANGED <<cart, call>> PROVE CartInv'
  BY <1>4
<1>5. ASSUME NEW c \in Currencies,
             Read(c) \/ Arrive(c) \/ Retry(c) \/ GiveUp(c) \/ Select(c) \/ Collect(c)
      PROVE  UNCHANGED <<cart, call>>
  BY <1>5 DEF Read, Arrive, Retry, GiveUp, Select, Collect, calls
<1>6. Focus \/ UNCHANGED vars => UNCHANGED <<cart, call>>
  BY DEF Focus, vars, calls
<1> QED
  BY <1>1, <1>2, <1>3, <1>4, <1>5, <1>6
  DEF Next, AddItem, EmptyCart, PlaceOrder, ServeAdd, ServeEmpty, ServeOrder

\* What a mutation other than an acknowledgement leaves as it is.
LEMMA MutationFacts ==
  ASSUME TypeOK, NEW k \in Calls,
         \/ \E what \in {"add", "empty", "order"} : Send(k, what)
         \/ \E what, items : Serve(k, what, items)
         \/ Fail(k)
  PROVE  Acked' = Acked /\ UNCHANGED <<selected, data, fetch, answer, joined, gaveUp>>
BY DEF TypeOK, Acked, Send, Serve, Fail, copies, queries

LEMMA AnswerStep ==
  ASSUME ScreenInv, [Next]_vars
  PROVE  AnswerInv' /\ ReadYourWrites'
<1> DEFINE Told == AnswerInv' /\ ReadYourWrites'
<1> USE DEF ScreenInv, AnswerInv, ReadYourWrites, UpToDate
<1>1. ASSUME NEW c \in Currencies, Read(c) PROVE Told
  <2>1. Acked' = Acked /\ Acked \subseteq cart.through
    BY <1>1 DEF Read, calls, CartInv, Acked
  <2> QED
    BY <1>1, <2>1 DEF Read, copies, TypeOK
<1>2. ASSUME NEW c \in Currencies, Arrive(c) PROVE Told
  <2>1. Acked' = Acked
    BY <1>2 DEF Arrive, calls, Acked
  <2> QED
    BY <1>2, <2>1 DEF Arrive, Settle, TypeOK
<1>3. ASSUME NEW c \in Currencies, Retry(c) \/ GiveUp(c) \/ Select(c) \/ Collect(c)
      PROVE  Told
  <2>1. Acked' = Acked
    BY <1>3 DEF Retry, GiveUp, Select, Collect, calls, Acked
  <2>2. CASE Retry(c)
    BY <2>1, <2>2 DEF Retry, copies, TypeOK
  <2>3. CASE GiveUp(c)
    BY <2>1, <2>3 DEF GiveUp, Settle, copies, TypeOK
  <2>4. CASE Select(c)
    BY <2>1, <2>4 DEF Select, Ask, copies, queries, TypeOK
  <2>5. CASE Collect(c)
    BY <2>1, <2>5 DEF Collect, queries, TypeOK
  <2> QED
    BY <1>3, <2>2, <2>3, <2>4, <2>5
<1>4. ASSUME NEW k \in Calls, Answer(k) PROVE Told
  <2>1. CASE fetch[selected] = "idle" \/ selected \in cached
    <3>1. fetch'[selected'] = "asked" /\ selected' = selected
      BY <1>4, <2>1 DEF Answer, Invalidate, Ask, TypeOK
    <3>2. \A c \in Currencies : fetch'[c] = "answered" => c \in joined'
      BY <1>4, <2>1 DEF Answer, Invalidate, Ask, TypeOK
    <3> QED
      BY <3>1, <3>2
  <2>2. CASE ~(fetch[selected] = "idle" \/ selected \in cached)
    <3>1. fetch' = fetch /\ selected' = selected
      BY <1>4, <2>2 DEF Answer, Invalidate
    <3>2. \A c \in Currencies : fetch'[c] = "answered" => c \in joined'
      BY <1>4, <2>2 DEF Answer, Invalidate
    <3> QED
      BY <2>2, <3>1, <3>2
  <2> QED
    BY <2>1, <2>2
<1>5. ASSUME NEW k \in Calls,
             \/ \E what \in {"add", "empty", "order"} : Send(k, what)
             \/ \E what, items : Serve(k, what, items)
             \/ Fail(k)
      PROVE  Told
  BY <1>5, MutationFacts
<1>6. ASSUME Focus PROVE Told
  <2>1. Acked' = Acked
    BY <1>6 DEF Focus, calls, Acked
  <2> QED
    BY <1>6, <2>1 DEF Focus, Ask, copies, TypeOK
<1>7. ASSUME UNCHANGED vars PROVE Told
  BY <1>7 DEF vars, calls, copies, queries, Acked
<1> QED
  BY <1>1, <1>2, <1>3, <1>4, <1>5, <1>6, <1>7
  DEF Next, AddItem, EmptyCart, PlaceOrder, ServeAdd, ServeEmpty, ServeOrder

LEMMA ScreenStep ==
  ASSUME ScreenInv, [Next]_vars
  PROVE  ScreenInv'
BY NextTypeOK, CartStep, AnswerStep DEF ScreenInv

-----------------------------------------------------------------------------
(***************************************************************************)
(* The session, of any clients of a browser or a phone.                    *)
(*                                                                         *)
(* That every id in use is the stored one rests on who may still write to  *)
(* the store: while nothing disturbs it, one client at most has found it   *)
(* empty and not written yet, and it is empty until that client has.       *)
(***************************************************************************)
Sess(C, O, R) == INSTANCE Session WITH Clients <- C, OnPhone <- O, Requests <- R

SessionTypes(C, O, R) ==
  /\ stored \in Nat /\ starts \in Nat
  /\ own \in [C -> Nat]
  /\ missing \in [C -> SUBSET Sess(C, O, R)!Purposes]
  /\ known \in [C -> [Sess(C, O, R)!Purposes -> Nat]]

WritersInv(C) ==
  /\ \A c \in C : own[c] = 0 => missing[c] = {}
  /\ ~disturbed =>
       \A c \in C : missing[c] # {} =>
         /\ stored \in {0, own[c]}
         /\ \A d \in C : missing[d] # {} => d = c

SessionInv(C, O, R) ==
  SessionTypes(C, O, R) /\ WritersInv(C) /\ Sess(C, O, R)!OneShopper

-----------------------------------------------------------------------------
LEMMA SessionInitially ==
  ASSUME NEW C, NEW O, NEW R, Sess(C, O, R)!Init
  PROVE  SessionInv(C, O, R)
BY DEF SessionInv, SessionTypes, WritersInv, Sess!Init, Sess!OneShopper

LEMMA SessionStep ==
  ASSUME NEW C, NEW O, NEW R, SessionInv(C, O, R),
         Sess(C, O, R)!Next \/ UNCHANGED session
  PROVE  SessionInv(C, O, R)'
<1> DEFINE P == Sess(C, O, R)!Purposes
<1>1. /\ stored \in Nat /\ starts \in Nat
      /\ own \in [C -> Nat] /\ missing \in [C -> SUBSET P] /\ known \in [C -> [P -> Nat]]
      /\ \A c \in C : own[c] = 0 => missing[c] = {}
  BY DEF SessionInv, SessionTypes, WritersInv
<1>2. ~disturbed => \A c \in C : missing[c] # {} =>
                      stored \in {0, own[c]} /\ \A d \in C : missing[d] # {} => d = c
  BY DEF SessionInv, WritersInv
<1>3. ~disturbed => \A c \in C, p \in P : known[c][p] # 0 => known[c][p] = stored
  BY DEF SessionInv, Sess!OneShopper
<1>4. P' = P
  BY DEF Sess!Purposes
<1> DEFINE Typed == /\ stored' \in Nat /\ starts' \in Nat
                    /\ own' \in [C -> Nat] /\ missing' \in [C -> SUBSET P]
                    /\ known' \in [C -> [P -> Nat]]
           Running == \A c \in C : own'[c] = 0 => missing'[c] = {}
           OneWriter == ~disturbed' => \A c \in C : missing'[c] # {} =>
                          /\ stored' \in {0, own'[c]}
                          /\ \A d \in C : missing'[d] # {} => d = c
           OneId == ~disturbed' => \A c \in C, p \in P : known'[c][p] # 0 => known'[c][p] = stored'
<1> SUFFICES Typed /\ Running /\ OneWriter /\ OneId
  BY <1>4 DEF SessionInv, SessionTypes, WritersInv, Sess!OneShopper
<1> HIDE DEF P
<1>5. ASSUME NEW c \in C, Sess(C, O, R)!Start(c)
      PROVE  Typed /\ Running /\ OneWriter /\ OneId
  <2>1. /\ own[c] = 0 /\ missing[c] = {} /\ own' = [own EXCEPT ![c] = starts + 1]
        /\ starts' = starts + 1 /\ UNCHANGED <<stored, missing, known, disturbed>>
    BY <1>1, <1>5 DEF Sess!Start
  <2>2. Typed /\ Running
    BY <1>1, <2>1
  <2> QED
    BY <1>1, <1>2, <1>3, <2>1, <2>2
<1>6. ASSUME NEW c \in C, Sess(C, O, R)!Stop(c)
      PROVE  Typed /\ Running /\ OneWriter /\ OneId
  <2>1. /\ own' = [own EXCEPT ![c] = 0] /\ missing' = [missing EXCEPT ![c] = {}]
        /\ known' = [known EXCEPT ![c] = [p \in P |-> 0]]
        /\ UNCHANGED <<stored, starts, disturbed>>
    BY <1>6 DEF Sess!Stop, P
  <2>2. Typed /\ Running
    BY <1>1, <2>1
  <2> QED
    BY <1>1, <1>2, <1>3, <2>1, <2>2
<1>7. ASSUME NEW c \in C, NEW p \in P, Sess(C, O, R)!GetItem(c, p)
      PROVE  Typed /\ Running /\ OneWriter /\ OneId
  <2>1. /\ own[c] # 0 /\ known' = [known EXCEPT ![c][p] = stored]
        /\ UNCHANGED <<stored, own, starts>>
    BY <1>7 DEF Sess!GetItem, Sess!MayAsk
  <2>2. CASE stored # 0
    <3>1. UNCHANGED <<missing, disturbed>>
      BY <1>7, <2>2 DEF Sess!GetItem, Sess!FoundMissing
    <3> QED
      BY <1>1, <1>2, <1>3, <2>1, <3>1
  <2>3. CASE stored = 0
    <3>1. /\ missing' = [missing EXCEPT ![c] = @ \cup {p}]
          /\ ~disturbed' => ~disturbed /\ \A d \in C \ {c} : missing[d] = {}
      BY <1>7, <2>3 DEF Sess!GetItem, Sess!FoundMissing
    <3>2. Typed /\ Running
      BY <1>1, <2>1, <3>1
    <3>3. OneWriter
      BY <1>1, <2>1, <2>3, <3>1
    <3>4. OneId
      BY <1>1, <1>3, <2>1, <2>3, <3>1
    <3> QED
      BY <3>2, <3>3, <3>4
  <2> QED
    BY <2>2, <2>3
<1>8. ASSUME NEW c \in C, NEW p \in P, Sess(C, O, R)!SetItem(c, p)
      PROVE  Typed /\ Running /\ OneWriter /\ OneId
  <2>1. /\ p \in missing[c] /\ stored' = own[c]
        /\ missing' = [missing EXCEPT ![c] = @ \ {p}]
        /\ known' = [known EXCEPT ![c][p] = own[c]]
        /\ UNCHANGED <<own, starts, disturbed>>
    BY <1>8 DEF Sess!SetItem
  <2>2. Typed /\ Running
    BY <1>1, <2>1
  <2>3. OneWriter
    BY <1>1, <1>2, <2>1
  <2>4. OneId
    BY <1>1, <1>2, <1>3, <2>1
  <2> QED
    BY <2>2, <2>3, <2>4
<1>9. ASSUME NEW c \in C, Sess(C, O, R)!WriteBack(c)
      PROVE  Typed /\ Running /\ OneWriter /\ OneId
  <2>1. /\ "value" \in P /\ known[c]["value"] # 0 /\ stored' = known[c]["value"]
        /\ known' = [known EXCEPT ![c]["value"] = 0]
        /\ UNCHANGED <<own, missing, starts, disturbed>>
    BY <1>9 DEF Sess!WriteBack, Sess!Purposes, P
  <2>2. ~disturbed => stored' = stored
    BY <1>3, <2>1
  <2> QED
    BY <1>1, <1>2, <1>3, <2>1, <2>2
<1>10. ASSUME NEW c \in C, NEW p \in P, Sess(C, O, R)!Sent(c, p)
      PROVE  Typed /\ Running /\ OneWriter /\ OneId
  <2>1. known' = [known EXCEPT ![c][p] = 0] /\ UNCHANGED <<stored, own, missing, starts, disturbed>>
    BY <1>10 DEF Sess!Sent
  <2> QED
    BY <1>1, <1>2, <1>3, <2>1
<1>11. ASSUME Sess(C, O, R)!Clear
      PROVE  Typed /\ Running /\ OneWriter /\ OneId
  BY <1>1, <1>11 DEF Sess!Clear
<1>12. ASSUME UNCHANGED session
      PROVE  Typed /\ Running /\ OneWriter /\ OneId
  BY <1>1, <1>2, <1>3, <1>12 DEF session
<1> HIDE DEF Typed, Running, OneWriter, OneId
<1> QED
  BY <1>5, <1>6, <1>7, <1>8, <1>9, <1>10, <1>11, <1>12 DEF Sess!Next, P

-----------------------------------------------------------------------------
(***************************************************************************)
(* The product page.                                                       *)
(*                                                                         *)
(* The observer follows the last question, if any, and that one is about   *)
(* the product the last effects ran for; what is shown is of the question  *)
(* it follows.                                                             *)
(***************************************************************************)
Question == [about : Products, state : {"pending", "done"}]

ObserverInv ==
  /\ product \in Products /\ subject \in Products /\ asked \in Seq(Question)
  /\ follows \in {0, Len(asked)}
  /\ follows # 0 => asked[follows].about = subject
  /\ follows = 0 => display = "nothing"
  /\ of \in {0, follows}

PageInv == ObserverInv /\ Page!AnswerFits

LEMMA PageInitially ==
  ASSUME Page!Init
  PROVE  PageInv
BY DEF Page!Init, PageInv, ObserverInv, Page!AnswerFits

LEMMA PageStep ==
  ASSUME PageInv, Page!Next \/ UNCHANGED page
  PROVE  PageInv'
<1> USE DEF PageInv, ObserverInv, Page!AnswerFits
<1>1. ASSUME Page!Send, UNCHANGED <<product, subject>> PROVE PageInv'
  <2> DEFINE q == [about |-> subject, state |-> "pending"]
  <2>1. q \in Question
    BY DEF Question
  <2>2. /\ asked' = Append(asked, q) /\ asked' \in Seq(Question)
        /\ Len(asked') = Len(asked) + 1 /\ asked'[Len(asked) + 1] = q
    BY <1>1, <2>1 DEF Page!Send
  <2> QED
    BY <1>1, <2>2 DEF Page!Send
<1>2. ASSUME NEW i \in DOMAIN asked, NEW ok \in BOOLEAN, Page!Reply(i, ok) PROVE PageInv'
  <2>1. /\ asked[i].state = "pending" /\ asked' = [asked EXCEPT ![i].state = "done"]
        /\ UNCHANGED <<product, subject>> /\ follows' = follows
    BY <1>2 DEF Page!Reply
  <2> DEFINE done == [asked[i] EXCEPT !.state = "done"]
  <2>2. asked[i] \in Question /\ i \in 1 .. Len(asked)
    OBVIOUS
  <2>3. done \in Question /\ done.about = asked[i].about /\ done.state = "done"
    BY <2>2 DEF Question
  <2>4. asked' = [asked EXCEPT ![i] = done]
    BY <2>1
  <2> HIDE DEF done
  <2>5. /\ asked' \in Seq(Question) /\ Len(asked') = Len(asked)
        /\ asked'[i] = done
        /\ \A j \in 1 .. Len(asked) : j # i => asked'[j] = asked[j]
    BY <2>2, <2>3, <2>4
  <2>6. CASE i = follows
    <3>1. of' = i /\ display' \in {"answer", "error"}
      BY <1>2, <2>6 DEF Page!Reply
    <3>2. follows # 0 /\ follows = Len(asked)
      BY <2>2, <2>6
    <3>3. asked'[follows].about = subject /\ asked'[follows].state = "done"
      BY <2>3, <2>5, <2>6, <3>2
    <3> QED
      BY <2>1, <2>5, <2>6, <3>1, <3>2, <3>3
  <2>7. CASE i # follows
    <3>1. UNCHANGED <<display, of>>
      BY <1>2, <2>7 DEF Page!Reply
    <3>2. follows # 0 => follows \in DOMAIN asked
      OBVIOUS
    <3> QED
      BY <2>1, <2>5, <2>7, <3>1, <3>2
  <2> QED
    BY <2>6, <2>7
<1>3. ASSUME NEW p \in Products, Page!Open(p) PROVE PageInv'
  BY <1>3 DEF Page!Open
<1>4. ASSUME Page!Type PROVE PageInv'
  BY <1>4 DEF Page!Type
<1>5. ASSUME Page!Effects PROVE PageInv'
  BY <1>5 DEF Page!Effects
<1>6. CASE UNCHANGED page
  BY <1>6 DEF page
<1> QED
  BY <1>1, <1>2, <1>3, <1>4, <1>5, <1>6 DEF Page!Next, Page!Ask, Page!QuickPrompt

-----------------------------------------------------------------------------
(***************************************************************************)
(* The messages: Wire is Codec with the protocol of the demo, and so is    *)
(* what CodecProofs is about here.                                         *)
(***************************************************************************)
W == INSTANCE CodecProofs WITH Schema <- Proto!DemoSchema, Methods <- Proto!FrontendMethods

TrafficInv == W!IInv /\ W!RequestInv

LEMMA DemoSchemaOK == W!SchemaOK
BY ProtocolAssumption
   DEF Wire!SchemaOK, Wire!MessageOK, Wire!FieldOK, Wire!Types, Wire!Scalars,
       W!SchemaOK, W!MessageOK, W!FieldOK, W!Types, W!Scalars

LEMMA WireInitIsW == Wire!Init => W!Init
BY DEF Wire!Init, Wire!Sent, Wire!Received, Wire!Within, Wire!Parts, Wire!Listed,
       Wire!HoldsInt64, Wire!Base, Wire!Default, Wire!Scalars,
       W!Init, W!Sent, W!Received, W!Within, W!Parts, W!Listed,
       W!HoldsInt64, W!Base, W!Default, W!Scalars

LEMMA WireNextIsW == Wire!Next => W!Next
<1>1. /\ Wire!Fields = W!Fields /\ Wire!Tags = W!Tags
      /\ \A f : /\ (Wire!WriteField(f) <=> W!WriteField(f))
                /\ (Wire!WriteUnnamed(f) <=> W!WriteUnnamed(f))
                /\ (Wire!Refuse(f) <=> W!Refuse(f))
                /\ (Wire!ReadOne(f) <=> W!ReadOne(f))
                /\ (Wire!ReadMore(f) <=> W!ReadMore(f))
                /\ (Wire!TooLarge(f) <=> W!TooLarge(f))
  BY DEF Wire!Fields, Wire!Scalars, Wire!Tag, Wire!WireType, Wire!Default, Wire!Elements,
         Wire!Values, Wire!Tags, Wire!Entries, Wire!Encoding, Wire!NextIs, Wire!Readable,
         Wire!Lenient, Wire!Odd, Wire!OnWire, Wire!Named, Wire!WriteField, Wire!WriteUnnamed, Wire!Refuse,
         Wire!ReadOne, Wire!ReadMore, Wire!TooLarge,
         W!Fields, W!Scalars, W!Tag, W!WireType, W!Default, W!Elements,
         W!Values, W!Tags, W!Entries, W!Encoding, W!NextIs, W!Readable,
         W!Lenient, W!Odd, W!OnWire, W!Named, W!WriteField, W!WriteUnnamed, W!Refuse,
         W!ReadOne, W!ReadMore, W!TooLarge
<1>2. /\ (Wire!Sending <=> W!Sending) /\ (Wire!Skip <=> W!Skip) /\ (Wire!End <=> W!End)
      /\ (Wire!Unskippable <=> W!Unskippable)
      /\ \A tag : Wire!Carried(tag) = W!Carried(tag)
      /\ \A tag, val : (Wire!PeerWrites(tag, val) <=> W!PeerWrites(tag, val))
  BY DEF Wire!Fields, Wire!Tag, Wire!WireType, Wire!Sending, Wire!NextIsOther, Wire!Ends,
         Wire!Skip, Wire!Unskippable, Wire!End,
         Wire!Carried, Wire!Elements, Wire!Scalars, Wire!PeerWrites,
         W!Fields, W!Tag, W!WireType, W!Sending, W!NextIsOther, W!Ends,
         W!Skip, W!Unskippable, W!End,
         W!Carried, W!Elements, W!Scalars, W!PeerWrites
<1> QED
  BY <1>1, <1>2 DEF Wire!Next, W!Next

LEMMA TrafficInitially == Wire!Init => TrafficInv
BY DemoSchemaOK, WireInitIsW, W!InitInv, W!RequestInitially DEF TrafficInv

LEMMA TrafficStep ==
  ASSUME TrafficInv, Wire!Next \/ UNCHANGED traffic
  PROVE  TrafficInv'
<1>1. [W!Next]_(W!vars)
  BY WireNextIsW DEF traffic, W!vars
<1> QED
  BY <1>1, W!StepInv, W!RequestStep DEF TrafficInv

\* What it says of the messages that travel.
LEMMA TrafficShows ==
  ASSUME TrafficInv
  PROVE  Wire!DecodeIsExact /\ Wire!RequestArrives
<1>1. W!DecodeIsExact => Wire!DecodeIsExact
  BY DEF Wire!DecodeIsExact, Wire!Fields, Wire!Reads, Wire!IsAllValues, Wire!IsLastValue,
         Wire!Matching, Wire!EntriesRead, Wire!Ends, Wire!Tag, Wire!WireType, Wire!Default, Wire!Scalars,
         W!DecodeIsExact, W!Fields, W!Reads, W!IsAllValues, W!IsLastValue,
         W!Matching, W!EntriesRead, W!Ends, W!Tag, W!WireType, W!Default, W!Scalars
<1>2. W!RequestArrives => Wire!RequestArrives
  BY DEF Wire!RequestArrives, Wire!Expected, Wire!Odd, Wire!FromPartial, Wire!Names, Wire!Fields,
         Wire!Base, Wire!Default, Wire!Scalars,
         W!RequestArrives, W!Expected, W!Odd, W!FromPartial, W!Names, W!Fields,
         W!Base, W!Default, W!Scalars
<1> QED
  BY <1>1, <1>2, W!Arrival DEF TrafficInv, W!IInv

LEMMA NoTrafficShows ==
  ASSUME NoTraffic
  PROVE  Wire!DecodeIsExact /\ Wire!RequestArrives
<1>1. fields = <<>> /\ sender = "peer" /\ phase = "writing"
  BY DEF NoTraffic
<1>2. Wire!Fields = {}
  BY <1>1 DEF Wire!Fields
<1>3. Wire!EntriesRead = 0 /\ 1 .. 0 = {}
  BY <1>1 DEF Wire!EntriesRead
<1> QED
  BY <1>1, <1>2, <1>3 DEF Wire!DecodeIsExact, Wire!RequestArrives

-----------------------------------------------------------------------------
(***************************************************************************)
(* The scores of the reviews, of which there are five.  The fractions that *)
(* are cut off a score's share are worth as many whole percents as are     *)
(* missing to 100, and none is worth more than one: so that many can be    *)
(* raised, and whichever is not raised had not a whole one cut off.        *)
(***************************************************************************)
Sc == Reviews!Scores

CountsInv == counts \in [Sc -> Nat]

LEMMA FiveScores == Sc = {1, 2, 3, 4, 5}
BY DEF Sc, Reviews!Scores

LEMMA CountsStep ==
  ASSUME CountsInv, Reviews!Next \/ UNCHANGED counts
  PROVE  CountsInv'
BY DEF CountsInv, Sc, Reviews!Next, Reviews!Count

LEMMA CountsInitially == Reviews!Init => CountsInv
BY DEF CountsInv, Sc, Reviews!Init

\* Which of the scores are in a set, as numbers that can be added up.
Indicator(R) == [s \in Sc |-> IF s \in R THEN 1 ELSE 0]

LEMMA CountingScores ==
  ASSUME NEW R \in SUBSET Sc
  PROVE  Cardinality(R) = Reviews!Total(Indicator(R))
<1> DEFINE To(k) == R \cap (1 .. k)
           b == Indicator(R)
<1>1. To(0) = {} /\ IsFiniteSet(To(0)) /\ Cardinality(To(0)) = 0
  BY FS_EmptySet
<1>2. ASSUME NEW k \in 0 .. 4, IsFiniteSet(To(k))
      PROVE  /\ IsFiniteSet(To(k + 1))
             /\ Cardinality(To(k + 1)) = Cardinality(To(k)) + b[k + 1]
  <2>1. CASE k + 1 \in R
    <3>1. To(k + 1) = To(k) \cup {k + 1} /\ k + 1 \notin To(k)
      BY <2>1
    <3>2. b[k + 1] = 1
      BY <2>1 DEF Indicator, Sc, Reviews!Scores
    <3> HIDE DEF To, b
    <3> QED
      BY <1>2, <3>1, <3>2, FS_AddElement
  <2>2. CASE k + 1 \notin R
    <3>1. To(k + 1) = To(k)
      BY <2>2
    <3>2. b[k + 1] = 0
      BY <2>2 DEF Indicator, Sc, Reviews!Scores
    <3>3. Cardinality(To(k)) \in Nat
      BY <1>2, FS_CardinalityType
    <3> HIDE DEF To, b
    <3> QED
      BY <1>2, <3>1, <3>2, <3>3
  <2> QED
    BY <2>1, <2>2
<1>3. To(5) = R
  BY DEF Sc, Reviews!Scores
<1>4. \A k \in 1 .. 5 : b[k] \in {0, 1}
  BY DEF Indicator, Sc, Reviews!Scores
<1> HIDE DEF To, b
<1>5. IsFiniteSet(To(1)) /\ Cardinality(To(1)) = b[1]
  BY <1>1, <1>2, <1>4
<1>6. IsFiniteSet(To(2)) /\ Cardinality(To(2)) = b[1] + b[2]
  BY <1>2, <1>5
<1>7. IsFiniteSet(To(3)) /\ Cardinality(To(3)) = b[1] + b[2] + b[3]
  BY <1>2, <1>6
<1>8. IsFiniteSet(To(4)) /\ Cardinality(To(4)) = b[1] + b[2] + b[3] + b[4]
  BY <1>2, <1>7
<1>9. Cardinality(To(5)) = b[1] + b[2] + b[3] + b[4] + b[5]
  BY <1>2, <1>8
<1> QED
  BY <1>3, <1>9 DEF b, Reviews!Total

\* Of any scores, one has the largest of their numbers.
LEMMA LargestScore ==
  ASSUME NEW S \in SUBSET Sc, S # {}, NEW f \in [Sc -> Int]
  PROVE  \E t \in S : \A u \in S : f[u] <= f[t]
<1> DEFINE To(k) == S \cap (1 .. k)
           Has(k) == To(k) = {} \/ \E t \in To(k) : \A u \in To(k) : f[u] <= f[t]
<1>1. Has(0)
  OBVIOUS
<1>2. ASSUME NEW k \in 0 .. 4, Has(k)
      PROVE  Has(k + 1)
  <2>1. \A t \in To(k + 1) : f[t] \in Int
    OBVIOUS
  <2>2. CASE k + 1 \notin S
    <3>1. To(k + 1) = To(k)
      BY <2>2
    <3> QED
      BY <1>2, <3>1
  <2>3. CASE k + 1 \in S
    <3>1. To(k + 1) = To(k) \cup {k + 1}
      BY <2>3
    <3> HIDE DEF To
    <3>2. CASE To(k) = {}
      BY <2>1, <3>1, <3>2
    <3>3. CASE To(k) # {}
      <4>1. PICK t \in To(k) : \A u \in To(k) : f[u] <= f[t]
        BY <1>2, <3>3
      <4>2. CASE f[k + 1] <= f[t]
        BY <3>1, <4>1, <4>2
      <4>3. CASE ~(f[k + 1] <= f[t])
        BY <2>1, <3>1, <4>1, <4>3
      <4> QED
        BY <4>2, <4>3
    <3> QED
      BY <3>2, <3>3
  <2> QED
    BY <2>2, <2>3
<1>3. To(5) = S
  BY DEF Sc, Reviews!Scores
<1> HIDE DEF Has
<1>4. Has(1) /\ Has(2) /\ Has(3) /\ Has(4) /\ Has(5)
  <2>1. Has(1)
    BY <1>1, <1>2
  <2>2. Has(2)
    BY <2>1, <1>2
  <2>3. Has(3)
    BY <2>2, <1>2
  <2>4. Has(4)
    BY <2>3, <1>2
  <2>5. Has(5)
    BY <2>4, <1>2
  <2> QED
    BY <2>1, <2>2, <2>3, <2>4, <2>5
<1> QED
  BY <1>3, <1>4 DEF Has

\* As many scores as one likes, none of which has less than one left out.
LEMMA LargestScores ==
  ASSUME NEW f \in [Sc -> Int], NEW m \in 0 .. 5
  PROVE  \E R \in SUBSET Sc :
           Cardinality(R) = m /\ \A s \in R, t \in Sc \ R : f[s] >= f[t]
<1> DEFINE Top(k, R) == /\ R \in SUBSET Sc /\ IsFiniteSet(R) /\ Cardinality(R) = k
                        /\ \A s \in R, t \in Sc \ R : f[s] >= f[t]
           Some(k) == \E R : Top(k, R)
<1>1. IsFiniteSet(Sc) /\ Cardinality(Sc) = 5
  <2>1. 1 \in Int /\ 5 \in Int /\ 1 <= 5
    OBVIOUS
  <2>2. IsFiniteSet(1 .. 5)
    BY <2>1, FS_Interval
  <2>3. Cardinality(1 .. 5) = IF 1 > 5 THEN 0 ELSE 5 - 1 + 1
    BY <2>1, FS_Interval
  <2> QED
    BY <2>2, <2>3 DEF Sc, Reviews!Scores
<1>2. Some(0)
  <2>1. Top(0, {})
    BY FS_EmptySet
  <2> QED
    BY <2>1
<1>3. ASSUME NEW k \in 0 .. 4, Some(k)
      PROVE  Some(k + 1)
  <2>1. PICK R : Top(k, R)
    BY <1>3
  <2>2. Sc \ R # {}
    <3>1. R # Sc
      BY <1>1, <2>1
    <3> QED
      BY <2>1, <3>1
  <2>3. PICK t \in Sc \ R : \A u \in Sc \ R : f[u] <= f[t]
    BY <2>2, LargestScore
  <2> DEFINE Q == R \cup {t}
  <2>4. IsFiniteSet(Q) /\ Cardinality(Q) = k + 1
    BY <2>1, <2>3, FS_AddElement
  <2>5. \A s \in Q, u \in Sc \ Q : f[s] >= f[u]
    BY <2>1, <2>3
  <2>6. Top(k + 1, Q)
    BY <2>1, <2>3, <2>4, <2>5
  <2> QED
    BY <2>6
<1> HIDE DEF Some
<1>4. Some(1) /\ Some(2) /\ Some(3) /\ Some(4) /\ Some(5)
  <2>1. Some(1)
    BY <1>2, <1>3
  <2>2. Some(2)
    BY <2>1, <1>3
  <2>3. Some(3)
    BY <2>2, <1>3
  <2>4. Some(4)
    BY <2>3, <1>3
  <2>5. Some(5)
    BY <2>4, <1>3
  <2> QED
    BY <2>1, <2>2, <2>3, <2>4, <2>5
<1>5. Some(m)
  <2>1. m \in {0, 1, 2, 3, 4, 5}
    OBVIOUS
  <2> QED
    BY <2>1, <1>2, <1>4
<1> QED
  BY <1>5 DEF Some

\* What the division of naturals gives.
LEMMA Divided ==
  ASSUME NEW T \in Nat, T > 0, NEW x \in Nat
  PROVE  x \div T \in Nat /\ x % T \in 0 .. (T - 1) /\ x = T * (x \div T) + (x % T)
<1> DEFINE d == x \div T
           r == x % T
<1>1. T \in Nat /\ T > 0 /\ x \in Int
  OBVIOUS
<1>2. d \in Int /\ r \in 0 .. (T - 1) /\ x = T * d + r
  BY <1>1, SMTT(60)
<1> HIDE DEF d, r
<1>3. T * d \in Int
  BY <1>1, <1>2
<1>4. d >= 0
  <2> SUFFICES ASSUME d <= -1 PROVE FALSE
    BY <1>2
  <2>1. T * (-1 - d) >= 0
    BY <1>2, SMTT(30)
  <2>2. T * (-1 - d) = -T - T * d
    BY <1>2
  <2> QED
    BY <1>1, <1>2, <1>3, <2>1, <2>2
<1>5. d \in Nat /\ r \in 0 .. (T - 1) /\ x = T * d + r
  BY <1>2, <1>4
<1> QED
  BY <1>5, Zenon DEF d, r

\* What a score's share is cut down to, and what is cut off.
LEMMA ShareFacts ==
  ASSUME NEW c \in [Sc -> Nat], Reviews!Total(c) > 0,
         NEW low \in SUBSET Reviews!Whole(c), NEW s \in Sc
  PROVE  /\ Reviews!Floor(c, low, s) \in Int
         /\ Reviews!Fraction(c, low, s) \in 0 .. Reviews!Total(c)
         /\ c[s] * 100 = Reviews!Total(c) * Reviews!Floor(c, low, s) + Reviews!Fraction(c, low, s)
         /\ c[s] = 0 => Reviews!Floor(c, low, s) = 0 /\ Reviews!Fraction(c, low, s) = 0
<1> DEFINE T == Reviews!Total(c)
           x == c[s] * 100
<1>1. T \in Nat /\ T > 0 /\ x \in Nat
  BY DEF Reviews!Total, Sc, Reviews!Scores
<1>2. x \div T \in Nat /\ x % T \in 0 .. (T - 1) /\ x = T * (x \div T) + (x % T)
  BY <1>1, Divided
<1> DEFINE d == x \div T
           r == x % T
<1>3. CASE s \in low
  <2>1. c[s] > 0 /\ r = 0
    BY <1>3 DEF Reviews!Whole
  <2>2. Reviews!Floor(c, low, s) = d - 1 /\ Reviews!Fraction(c, low, s) = T
    BY <1>3 DEF Reviews!Floor, Reviews!Fraction
  <2> HIDE DEF T, d, r
  <2>3. T * (d - 1) = T * d - T
    BY <1>1, <1>2 DEF d
  <2>4. d \in Nat /\ x = T * d + r
    BY <1>2, Zenon DEF d, r
  <2>5. d - 1 \in Int /\ T \in 0 .. T /\ x = T * (d - 1) + T
    BY <1>1, <2>1, <2>3, <2>4
  <2> QED
    BY <2>1, <2>2, <2>5 DEF T
<1>4. CASE s \notin low
  <2>1. Reviews!Floor(c, low, s) = d - 0 /\ Reviews!Fraction(c, low, s) = r
    BY <1>4 DEF Reviews!Floor, Reviews!Fraction
  <2>2. d \in Nat /\ r \in 0 .. (T - 1) /\ x = T * d + r
    BY <1>2, Zenon
  <2> HIDE DEF T, d, r
  <2>3. ASSUME x = 0 PROVE d = 0 /\ r = 0
    <3>1. d >= 1 => T * d >= T
      BY <1>1, <2>2, SMTT(30)
    <3>2. T * d \in Int
      BY <1>1, <2>2
    <3> QED
      BY <1>1, <2>2, <2>3, <3>1, <3>2
  <2>4. c[s] = 0 => x = 0
    OBVIOUS
  <2> QED
    BY <1>1, <2>1, <2>2, <2>3, <2>4 DEF T
<1> QED
  BY <1>3, <1>4

\* The five totals of the shares, of what is cut off and of the counts.
LEMMA TotalsAdd ==
  ASSUME NEW c \in [Sc -> Int], NEW q \in [Sc -> Int], NEW f \in [Sc -> Int],
         \A s \in Sc : f[s] = c[s] * 100 - q[s]
  PROVE  Reviews!Total(f) = Reviews!Total(c) * 100 - Reviews!Total(q)
<1>1. /\ c[1] \in Int /\ c[2] \in Int /\ c[3] \in Int /\ c[4] \in Int /\ c[5] \in Int
      /\ q[1] \in Int /\ q[2] \in Int /\ q[3] \in Int /\ q[4] \in Int /\ q[5] \in Int
      /\ f[1] = c[1] * 100 - q[1] /\ f[2] = c[2] * 100 - q[2] /\ f[3] = c[3] * 100 - q[3]
      /\ f[4] = c[4] * 100 - q[4] /\ f[5] = c[5] * 100 - q[5]
  BY FiveScores
<1>2. PICK c1 \in Int, c2 \in Int, c3 \in Int, c4 \in Int, c5 \in Int :
        c1 = c[1] /\ c2 = c[2] /\ c3 = c[3] /\ c4 = c[4] /\ c5 = c[5]
  BY <1>1
<1>3. PICK q1 \in Int, q2 \in Int, q3 \in Int, q4 \in Int, q5 \in Int :
        q1 = q[1] /\ q2 = q[2] /\ q3 = q[3] /\ q4 = q[4] /\ q5 = q[5]
  BY <1>1
<1>4. (c1 * 100 - q1) + (c2 * 100 - q2) + (c3 * 100 - q3) + (c4 * 100 - q4) + (c5 * 100 - q5)
        = (c1 + c2 + c3 + c4 + c5) * 100 - (q1 + q2 + q3 + q4 + q5)
  OBVIOUS
<1>5. /\ Reviews!Total(c) = c1 + c2 + c3 + c4 + c5
      /\ Reviews!Total(q) = q1 + q2 + q3 + q4 + q5
  BY <1>2, <1>3 DEF Reviews!Total
<1>6. Reviews!Total(f)
        = (c1 * 100 - q1) + (c2 * 100 - q2) + (c3 * 100 - q3) + (c4 * 100 - q4) + (c5 * 100 - q5)
  BY <1>1, <1>2, <1>3, Zenon DEF Reviews!Total
<1> QED
  BY <1>4, <1>5, <1>6, Zenon

LEMMA TotalOfMultiples ==
  ASSUME NEW T \in Int, NEW p \in [Sc -> Int]
  PROVE  Reviews!Total([s \in Sc |-> T * p[s]]) = T * Reviews!Total(p)
<1>1. PICK p1 \in Int, p2 \in Int, p3 \in Int, p4 \in Int, p5 \in Int :
        p1 = p[1] /\ p2 = p[2] /\ p3 = p[3] /\ p4 = p[4] /\ p5 = p[5]
  BY FiveScores
<1>2. T * p1 + T * p2 + T * p3 + T * p4 + T * p5 = T * (p1 + p2 + p3 + p4 + p5)
  OBVIOUS
<1>3. /\ [s \in Sc |-> T * p[s]][1] = T * p1
      /\ [s \in Sc |-> T * p[s]][2] = T * p2
      /\ [s \in Sc |-> T * p[s]][3] = T * p3
      /\ [s \in Sc |-> T * p[s]][4] = T * p4
      /\ [s \in Sc |-> T * p[s]][5] = T * p5
  BY <1>1, FiveScores
<1> QED
  BY <1>1, <1>2, <1>3, Zenon DEF Reviews!Total

\* What is less in each is less in total.
LEMMA LessInAll ==
  ASSUME NEW f \in [Sc -> Int], NEW g \in [Sc -> Int], \A s \in Sc : f[s] <= g[s]
  PROVE  /\ Reviews!Total(f) <= Reviews!Total(g)
         /\ \A s \in Sc : f[s] < g[s] => Reviews!Total(f) < Reviews!Total(g)
BY FiveScores DEF Reviews!Total

\* T for each score of a set, and nothing for the others.
LEMMA Times ==
  ASSUME NEW T \in Nat, NEW R \in SUBSET Sc
  PROVE  /\ [s \in Sc |-> IF s \in R THEN T ELSE 0] \in [Sc -> Int]
         /\ Reviews!Total([s \in Sc |-> IF s \in R THEN T ELSE 0]) = T * Cardinality(R)
<1>1. Indicator(R) \in [Sc -> Int]
  BY DEF Indicator
<1>2. [s \in Sc |-> IF s \in R THEN T ELSE 0] = [s \in Sc |-> T * Indicator(R)[s]]
  BY DEF Indicator
<1>3. Reviews!Total([s \in Sc |-> T * Indicator(R)[s]]) = T * Reviews!Total(Indicator(R))
  BY <1>1, TotalOfMultiples
<1> QED
  BY <1>2, <1>3, CountingScores

\* As the fractions of five scores are no more than one each, no more than
\* five percent are missing, and never less than none.
LEMMA MissingIsFew ==
  ASSUME NEW T \in Nat, T > 0, NEW f \in [Sc -> Int], NEW n \in Int,
         \A s \in Sc : f[s] \in 0 .. T, Reviews!Total(f) = T * n
  PROVE  n \in 0 .. 5
<1>1. Reviews!Total(f) >= 0 /\ Reviews!Total(f) <= 5 * T
  BY FiveScores DEF Reviews!Total
<1>2. ~(n < 0)
  <2> SUFFICES ASSUME n <= -1 PROVE FALSE
    OBVIOUS
  <2>1. T * (-1 - n) >= 0 /\ T * (-1 - n) = -T - T * n
    BY SMTT(30)
  <2> QED
    BY <1>1, <2>1
<1>3. ~(n > 5)
  <2> SUFFICES ASSUME n >= 6 PROVE FALSE
    OBVIOUS
  <2>1. T * (n - 6) >= 0 /\ T * (n - 6) = T * n - 6 * T
    BY SMTT(30)
  <2> QED
    BY <1>1, <2>1
<1> QED
  BY <1>2, <1>3

\* The raised ones had something cut off, the others not a whole percent.
LEMMA RaisedRightly ==
  ASSUME NEW T \in Nat, T > 0, NEW f \in [Sc -> Int],
         \A s \in Sc : f[s] \in 0 .. T,
         NEW R \in SUBSET Sc, Reviews!Total(f) = T * Cardinality(R),
         \A s \in R, t \in Sc \ R : f[s] >= f[t], NEW s \in Sc
  PROVE  /\ s \in R => f[s] > 0
         /\ s \notin R => f[s] < T
<1> DEFINE g == [t \in Sc |-> IF t \in R THEN T ELSE 0]
<1>1. g \in [Sc -> Int] /\ Reviews!Total(g) = Reviews!Total(f)
  BY Times
<1>2. Reviews!Total(f) \in Int
  BY FiveScores DEF Reviews!Total
<1>3. ASSUME s \in R, f[s] = 0 PROVE FALSE
  <2>1. \A t \in Sc : f[t] <= g[t]
    BY <1>3
  <2>2. f[s] < g[s]
    BY <1>3
  <2> HIDE DEF g
  <2> QED
    BY <1>1, <1>2, <2>1, <2>2, LessInAll
<1>4. ASSUME s \notin R, f[s] = T PROVE FALSE
  <2>1. \A t \in Sc : g[t] <= f[t]
    BY <1>4
  <2>2. g[s] < f[s]
    BY <1>4
  <2> HIDE DEF g
  <2> QED
    BY <1>1, <1>2, <2>1, <2>2, LessInAll
<1> QED
  BY <1>3, <1>4

\* The scores are counted with the library's Cardinality.
LEMMA SameCardinality == \A R : Reviews!Cardinality(R) = Cardinality(R)
BY Zenon DEF Reviews!Cardinality, Cardinality

\* However many reviews there are of each score, their shares add up.
LEMMA SharesAddUp == CountsInv => PercentsAddUp
<1> SUFFICES ASSUME CountsInv, Reviews!Total(counts) > 0, NEW low \in SUBSET Reviews!Whole(counts)
             PROVE  /\ Reviews!Raised(counts, low) # {}
                    /\ \A R \in Reviews!Raised(counts, low) :
                         LET shown == Reviews!Percents(counts, low, R)
                         IN  /\ Reviews!Total(shown) = 100
                             /\ \A s \in Sc :
                                  /\ (shown[s] - 1) * Reviews!Total(counts) < counts[s] * 100
                                  /\ (shown[s] + 1) * Reviews!Total(counts) > counts[s] * 100
                                  /\ counts[s] = 0 => shown[s] = 0
  BY DEF PercentsAddUp, Reviews!PercentsAddUp, Sc
<1> DEFINE T == Reviews!Total(counts)
           p == [s \in Sc |-> Reviews!Floor(counts, low, s)]
           f == [s \in Sc |-> Reviews!Fraction(counts, low, s)]
           n == 100 - Reviews!Total(p)
<1>1. T \in Nat /\ T > 0 /\ counts \in [Sc -> Nat]
  BY FiveScores DEF Reviews!Total, CountsInv
<1>2. \A s \in Sc : /\ p[s] \in Int /\ f[s] \in 0 .. T
                    /\ counts[s] * 100 = T * p[s] + f[s]
                    /\ counts[s] = 0 => p[s] = 0 /\ f[s] = 0
  BY <1>1, ShareFacts
<1>3. p \in [Sc -> Int] /\ f \in [Sc -> Int]
  BY <1>1, <1>2
<1>4. n = Reviews!Missing(counts, low)
  BY DEF Reviews!Missing, Sc
<1>5. Reviews!Raised(counts, low) =
        {R \in SUBSET Sc : Cardinality(R) = n /\ \A s \in R, t \in Sc \ R : f[s] >= f[t]}
  <2>1. \A s \in Sc : f[s] = Reviews!Fraction(counts, low, s)
    OBVIOUS
  <2> HIDE DEF f, n
  <2>2. \A R \in SUBSET Sc :
          (\A s \in R, t \in Sc \ R : f[s] >= f[t])
            <=> \A s \in R, t \in Sc \ R :
                  Reviews!Fraction(counts, low, s) >= Reviews!Fraction(counts, low, t)
    BY <2>1
  <2> QED
    BY <1>4, <2>2, SameCardinality, Zenon DEF Reviews!Raised, Sc
<1>6. \A R : Reviews!Percents(counts, low, R) = [s \in Sc |-> p[s] + (IF s \in R THEN 1 ELSE 0)]
  BY DEF Reviews!Percents, Sc
<1> HIDE DEF T, p, f
<1>7. n \in Int
  BY <1>3, FiveScores DEF Reviews!Total
<1>8. Reviews!Total(f) = T * n
  <2> DEFINE q == [s \in Sc |-> T * p[s]]
  <2>1. q \in [Sc -> Int] /\ \A s \in Sc : f[s] = counts[s] * 100 - q[s]
    <3>1. \A s \in Sc : T * p[s] \in Int /\ counts[s] \in Int /\ f[s] \in Int
      BY <1>1, <1>2, <1>3
    <3> QED
      BY <1>2, <3>1
  <2>2. Reviews!Total(q) = T * Reviews!Total(p)
    BY <1>1, <1>3, TotalOfMultiples
  <2> HIDE DEF q
  <2>3. counts \in [Sc -> Int]
    BY <1>1
  <2>4. Reviews!Total(f) = T * 100 - T * Reviews!Total(p)
    BY <1>3, <2>1, <2>2, <2>3, TotalsAdd DEF T
  <2>5. Reviews!Total(p) \in Int
    BY <1>3, FiveScores DEF Reviews!Total
  <2> HIDE DEF n
  <2> QED
    BY <1>1, <2>4, <2>5 DEF n
<1> HIDE DEF n
<1>9. n \in 0 .. 5
  BY <1>1, <1>2, <1>3, <1>7, <1>8, MissingIsFew
<1>10. Reviews!Raised(counts, low) # {}
  BY <1>3, <1>5, <1>9, LargestScores
<1>11. ASSUME NEW R \in Reviews!Raised(counts, low)
       PROVE  LET shown == Reviews!Percents(counts, low, R)
              IN  /\ Reviews!Total(shown) = 100
                  /\ \A s \in Sc :
                       /\ (shown[s] - 1) * T < counts[s] * 100
                       /\ (shown[s] + 1) * T > counts[s] * 100
                       /\ counts[s] = 0 => shown[s] = 0
  <2> DEFINE b == Indicator(R)
             shown == [s \in Sc |-> p[s] + b[s]]
  <2>1. R \in SUBSET Sc /\ Cardinality(R) = n /\ \A s \in R, t \in Sc \ R : f[s] >= f[t]
    BY <1>5
  <2>2. \A s \in Sc : b[s] = (IF s \in R THEN 1 ELSE 0)
    BY DEF Indicator
  <2>3. Reviews!Percents(counts, low, R) = shown
    BY <1>6, <2>2
  <2>4. \A s \in Sc : shown[s] = p[s] + b[s] /\ b[s] \in {0, 1} /\ p[s] \in Int
    BY <1>2, <2>2
  <2>5. Reviews!Total(b) = n
    BY <2>1, CountingScores
  <2> HIDE DEF b, shown
  <2>6. Reviews!Total(shown) = 100
    BY <1>7, <2>4, <2>5, FiveScores DEF Reviews!Total, n
  <2>7. ASSUME NEW s \in Sc
        PROVE  /\ (shown[s] - 1) * T < counts[s] * 100
               /\ (shown[s] + 1) * T > counts[s] * 100
               /\ counts[s] = 0 => shown[s] = 0
    <3>1. (s \in R => f[s] > 0) /\ (s \notin R => f[s] < T)
      BY <1>1, <1>2, <1>3, <1>8, <2>1, RaisedRightly
    <3>2. /\ p[s] \in Int /\ f[s] \in 0 .. T
          /\ counts[s] * 100 = T * p[s] + f[s]
          /\ counts[s] = 0 => p[s] = 0 /\ f[s] = 0
      BY <1>2
    <3>3. /\ (p[s] - 1) * T = T * p[s] - T
          /\ p[s] * T = T * p[s]
          /\ (p[s] + 1) * T = T * p[s] + T
          /\ (p[s] + 2) * T = T * p[s] + 2 * T
          /\ T * p[s] \in Int
      BY <1>1, <3>2
    <3>4. CASE s \in R
      <4>1. shown[s] = p[s] + 1
        BY <2>2, <2>4, <3>4
      <4>2. shown[s] - 1 = p[s] /\ shown[s] + 1 = p[s] + 2
        BY <3>2, <4>1
      <4> QED
        BY <1>1, <3>1, <3>2, <3>3, <3>4, <4>2
    <3>5. CASE s \notin R
      <4>1. shown[s] = p[s]
        BY <2>2, <2>4, <3>5
      <4> QED
        BY <1>1, <3>1, <3>2, <3>3, <3>5, <4>1
    <3> QED
      BY <3>4, <3>5
  <2> QED
    BY <2>3, <2>6, <2>7
<1> QED
  BY <1>10, <1>11 DEF T

-----------------------------------------------------------------------------
(***************************************************************************)
(* All of them.                                                            *)
(***************************************************************************)
MovingSession ==
  IF moving = "browser" THEN SessionInv(Tabs, FALSE, {})
                        ELSE SessionInv({App}, TRUE, PhoneRequests)

MovingTraffic == IF moving = "traffic" THEN TrafficInv ELSE NoTraffic

FrontendInv == ScreenInv /\ MovingSession /\ PageInv /\ CountsInv /\ MovingTraffic

\* The sessions of MCFrontend are the ones above.
LEMMA BrowserIsSess ==
  /\ Browser!Init => Sess(Tabs, FALSE, {})!Init
  /\ Browser!Next => Sess(Tabs, FALSE, {})!Next
  /\ Sess(Tabs, FALSE, {})!OneShopper => Browser!OneShopper
BY DEF Browser!Init, Browser!Purposes, Browser!OneShopper, Browser!Next, Browser!Start,
       Browser!Stop, Browser!WriteBack, Browser!GetItem, Browser!SetItem, Browser!Sent,
       Browser!Clear, Browser!MayAsk, Browser!FoundMissing,
       Sess!Init, Sess!Purposes, Sess!OneShopper, Sess!Next, Sess!Start,
       Sess!Stop, Sess!WriteBack, Sess!GetItem, Sess!SetItem, Sess!Sent,
       Sess!Clear, Sess!MayAsk, Sess!FoundMissing

LEMMA PhoneIsSess ==
  /\ Phone!Init => Sess({App}, TRUE, PhoneRequests)!Init
  /\ Phone!Next => Sess({App}, TRUE, PhoneRequests)!Next
  /\ Sess({App}, TRUE, PhoneRequests)!OneShopper => Phone!OneShopper
BY DEF Phone!Init, Phone!Purposes, Phone!OneShopper, Phone!Next, Phone!Start,
       Phone!Stop, Phone!WriteBack, Phone!GetItem, Phone!SetItem, Phone!Sent,
       Phone!Clear, Phone!MayAsk, Phone!FoundMissing,
       Sess!Init, Sess!Purposes, Sess!OneShopper, Sess!Next, Sess!Start,
       Sess!Stop, Sess!WriteBack, Sess!GetItem, Sess!SetItem, Sess!Sent,
       Sess!Clear, Sess!MayAsk, Sess!FoundMissing

LEMMA FrontendInitially == FrontendInit => FrontendInv
<1> SUFFICES ASSUME FrontendInit PROVE FrontendInv
  OBVIOUS
<1>1. ScreenInv /\ PageInv /\ CountsInv
  BY ScreenInitially, PageInitially, CountsInitially DEF FrontendInit
<1>2. MovingSession
  <2>1. CASE moving = "browser"
    BY <2>1, BrowserIsSess, SessionInitially DEF FrontendInit, MovingSession
  <2>2. CASE moving # "browser"
    BY <2>2, PhoneIsSess, SessionInitially DEF FrontendInit, MovingSession
  <2> QED
    BY <2>1, <2>2
<1>3. MovingTraffic
  BY TrafficInitially DEF FrontendInit, MovingTraffic
<1> QED
  BY <1>1, <1>2, <1>3 DEF FrontendInv

LEMMA RestingTraffic ==
  ASSUME NoTraffic, UNCHANGED traffic
  PROVE  NoTraffic'
BY DEF NoTraffic, traffic

LEMMA FrontendStep == FrontendInv /\ [FrontendNext]_frontend => FrontendInv'
<1> SUFFICES ASSUME FrontendInv, [FrontendNext]_frontend PROVE FrontendInv'
  OBVIOUS
<1>1. moving' = moving
  BY DEF FrontendNext, frontend
<1>2. ScreenInv'
  BY ScreenStep DEF FrontendInv, FrontendNext, frontend
<1>3. PageInv'
  BY PageStep DEF FrontendInv, FrontendNext, frontend
<1>4. MovingSession'
  <2>1. CASE moving = "browser"
    <3>1. Sess(Tabs, FALSE, {})!Next \/ UNCHANGED session
      BY <2>1, BrowserIsSess DEF FrontendNext, frontend
    <3>2. SessionInv(Tabs, FALSE, {})'
      BY <2>1, <3>1, SessionStep DEF FrontendInv, MovingSession
    <3> QED
      BY <1>1, <2>1, <3>2 DEF MovingSession
  <2>2. CASE moving # "browser"
    <3>1. Sess({App}, TRUE, PhoneRequests)!Next \/ UNCHANGED session
      BY <2>2, PhoneIsSess DEF FrontendNext, frontend
    <3>2. SessionInv({App}, TRUE, PhoneRequests)'
      BY <2>2, <3>1, SessionStep DEF FrontendInv, MovingSession
    <3> QED
      BY <1>1, <2>2, <3>2 DEF MovingSession
  <2> QED
    BY <2>1, <2>2
<1>5. MovingTraffic'
  <2>1. CASE moving = "traffic"
    <3>1. Wire!Next \/ UNCHANGED traffic
      BY <2>1 DEF FrontendNext, frontend
    <3>2. TrafficInv'
      BY <2>1, <3>1, TrafficStep DEF FrontendInv, MovingTraffic
    <3> QED
      BY <1>1, <2>1, <3>2 DEF MovingTraffic
  <2>2. CASE moving # "traffic"
    <3>1. UNCHANGED traffic
      BY <2>2 DEF FrontendNext, frontend
    <3>2. NoTraffic'
      BY <2>2, <3>1, RestingTraffic DEF FrontendInv, MovingTraffic
    <3> QED
      BY <1>1, <2>2, <3>2 DEF MovingTraffic
  <2> QED
    BY <2>1, <2>2
<1>6. CountsInv'
  BY CountsStep DEF FrontendInv, FrontendNext, frontend
<1> QED
  BY <1>2, <1>3, <1>4, <1>5, <1>6 DEF FrontendInv

LEMMA Invariance == FrontendSpec => []FrontendInv
BY FrontendInitially, FrontendStep, PTL DEF FrontendSpec

(***************************************************************************)
(* The state of the tab, of its calls and queries keeps its types          *)
(* (Cart.provider.tsx, Currency.provider.tsx).                             *)
(***************************************************************************)
THEOREM TypeCorrect == FrontendSpec => []TypeOK
<1>1. FrontendInv => TypeOK
  BY DEF FrontendInv, ScreenInv
<1> QED
  BY Invariance, <1>1, PTL

(***************************************************************************)
(* For any calls, currencies and number of retries: a tab that waits for   *)
(* nothing shows a cart read after every call it was told has succeeded,   *)
(* unless Cart.provider.tsx:37 met a query that had read the cart before,  *)
(* or the last query has failed.                                           *)
(***************************************************************************)
THEOREM OwnWritesAreRead == FrontendSpec => []ReadYourWrites
<1>1. FrontendInv => ReadYourWrites
  BY DEF FrontendInv, ScreenInv
<1> QED
  BY Invariance, <1>1, PTL

(***************************************************************************)
(* Any tabs of a browser, and the phone with any requests under way: until *)
(* one session's write crosses another's, or the store is cleared, every   *)
(* id that is in use is the stored one (Session.gateway.ts).               *)
(***************************************************************************)
THEOREM OneIdIsInUse == FrontendSpec => []OneShopper
<1>1. FrontendInv => OneShopper
  BY BrowserIsSess, PhoneIsSess DEF FrontendInv, MovingSession, SessionInv, OneShopper
<1> QED
  BY Invariance, <1>1, PTL

(***************************************************************************)
(* Any products and any number of questions: what the assistant shows is   *)
(* the outcome of the last question, about the product on the screen, but  *)
(* for the moment between the render of another and its effects            *)
(* (ProductAIAssistant.provider.tsx).                                      *)
(***************************************************************************)
THEOREM AnswersFit == FrontendSpec => []AnswerFits
<1>1. FrontendInv => AnswerFits
  BY DEF FrontendInv, PageInv, AnswerFits
<1> QED
  BY Invariance, <1>1, PTL

(***************************************************************************)
(* Any number of reviews with any scores: the percentages shown add up to  *)
(* 100, none is off by a whole percent, and no score without a review has  *)
(* one (ProductReviews.tsx:36-53).                                         *)
(***************************************************************************)
THEOREM PercentagesAddUp == FrontendSpec => []PercentsAddUp
<1>1. FrontendInv => PercentsAddUp
  BY SharesAddUp DEF FrontendInv
<1> QED
  BY Invariance, <1>1, PTL

(***************************************************************************)
(* The messages of the demo, with whatever a peer sends for them, however  *)
(* long: each field has what was sent for it (CodecProofs has this for     *)
(* every protocol).                                                        *)
(***************************************************************************)
THEOREM DemoDecodes == FrontendSpec => []DecodeIsExact
<1>1. FrontendInv => DecodeIsExact
  BY TrafficShows, NoTrafficShows DEF FrontendInv, MovingTraffic, DecodeIsExact
<1> QED
  BY Invariance, <1>1, PTL

(***************************************************************************)
(* The requests of the demo, with whatever fields their bodies lack: what  *)
(* is read is the body with the defaults, or the call was rejected before  *)
(* anything was sent.                                                      *)
(***************************************************************************)
THEOREM DemoRequestsArrive == FrontendSpec => []RequestArrives
<1>1. FrontendInv => RequestArrives
  BY TrafficShows, NoTrafficShows DEF FrontendInv, MovingTraffic, RequestArrives
<1> QED
  BY Invariance, <1>1, PTL
=============================================================================
