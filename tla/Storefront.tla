----------------------------- MODULE Storefront -----------------------------
(***************************************************************************)
(* The shop window and the cart behind it: what a browser tab shows of the *)
(* shopper's cart (src/src/frontend/providers/Cart.provider.tsx) while its *)
(* AddItem, EmptyCart and PlaceOrder requests, and the queries that follow *)
(* them, go through the API routes (src/src/frontend/pages/api) in any     *)
(* order, fail, and are repeated.  The tab keeps one copy of the cart per  *)
(* currency in a TanStack Query cache, whose rules are modelled as the     *)
(* providers rely on them.  The phone's provider                           *)
(* (src/src/react-native-app/providers/Cart.provider.tsx) is a copy of     *)
(* this one with the single currency USD.                                  *)
(*                                                                         *)
(* Of a cart only two things count here: whether it has items, and which   *)
(* of this tab's calls it has been through.                                *)
(***************************************************************************)
EXTENDS Naturals, FiniteSets

CONSTANTS Calls,         \* the mutations the shopper may make
          May,           \* what each may be: add, empty or order
          Currencies,    \* the first selection, "", is one of them
          Retries        \* how often a query that fails is asked again

ASSUME StorefrontAssumption ==
  /\ May \in [Calls -> SUBSET {"add", "empty", "order"}]
  /\ Currencies # {} /\ Retries \in Nat

VARIABLES
  cart,      \* the cart the cart service has
  call,      \* idle, sent, served, acked or failed, as the tab sees it
  request,   \* what the services have still to do for it, "none" if nothing
  selected,  \* selectedCurrency
  cached,    \* the currencies there is a copy of the cart for
  data,      \* those copies
  fetch,     \* per currency: idle, asked, or answered but not arrived
  answer,    \* the cart the answer under way holds
  tries,     \* how often it was asked again
  joined,    \* history: currencies whose running or last query was answered
             \* before a call was acknowledged, and not asked again for it
  gaveUp     \* history: currencies whose last query has failed

copies == <<cached, data>>
queries == <<fetch, answer, tries, joined, gaveUp>>
calls == <<call, request>>
vars == <<cart, calls, selected, copies, queries>>

Carts == [through : SUBSET Calls, items : BOOLEAN]

\* What a tab without a copy shows: no items (Cart.provider.tsx:42).
Blank == [through |-> {}, items |-> FALSE]

\* A tab that opens asks for the cart at once.
Init ==
  /\ cart \in [through : {{}}, items : BOOLEAN]
  /\ call = [k \in Calls |-> "idle"]
  /\ request = [k \in Calls |-> "none"]
  /\ selected \in Currencies
  /\ cached = {}
  /\ data = [c \in Currencies |-> Blank]
  /\ fetch = [c \in Currencies |-> IF c = selected THEN "asked" ELSE "idle"]
  /\ answer = [c \in Currencies |-> Blank]
  /\ tries = [c \in Currencies |-> 0]
  /\ joined = {} /\ gaveUp = {}

-----------------------------------------------------------------------------
(* The query for the cart in one currency. *)

\* The query of currency c starts afresh; an answer under way is ignored.
Ask(c) ==
  /\ fetch' = [fetch EXCEPT ![c] = "asked"]
  /\ answer' = [answer EXCEPT ![c] = Blank]
  /\ tries' = [tries EXCEPT ![c] = 0]
  /\ gaveUp' = gaveUp \ {c}

\* It ends, and with it the answer and the count.
Settle(c) ==
  /\ fetch' = [fetch EXCEPT ![c] = "idle"]
  /\ answer' = [answer EXCEPT ![c] = Blank]
  /\ tries' = [tries EXCEPT ![c] = 0]

\* GET /api/cart reads the cart, and then prices each of its products.
Read(c) ==
  /\ fetch[c] = "asked"
  /\ fetch' = [fetch EXCEPT ![c] = "answered"]
  /\ answer' = [answer EXCEPT ![c] = cart]
  /\ UNCHANGED <<cart, calls, selected, copies, tries, joined, gaveUp>>

Arrive(c) ==
  /\ fetch[c] = "answered"
  /\ Settle(c)
  /\ cached' = cached \cup {c}
  /\ data' = [data EXCEPT ![c] = answer[c]]
  /\ UNCHANGED <<cart, calls, selected, joined, gaveUp>>

\* The request, or any call the route makes, fails.  Request.ts does not
\* look at the status: the text of an error page is no JSON and so throws.
\* A query nobody looks at any more is not repeated.
Retry(c) ==
  /\ fetch[c] \in {"asked", "answered"}
  /\ tries[c] < Retries /\ c = selected
  /\ fetch' = [fetch EXCEPT ![c] = "asked"]
  /\ answer' = [answer EXCEPT ![c] = Blank]
  /\ tries' = [tries EXCEPT ![c] = @ + 1]
  /\ joined' = joined \ {c}
  /\ UNCHANGED <<cart, calls, selected, copies, gaveUp>>

GiveUp(c) ==
  /\ fetch[c] \in {"asked", "answered"}
  /\ tries[c] = Retries \/ c # selected
  /\ Settle(c)
  /\ gaveUp' = gaveUp \cup {c}
  /\ UNCHANGED <<cart, calls, selected, copies, joined>>

\* The shopper selects another currency: its cart is shown if it is cached,
\* and asked for unless it has been asked for already.
Select(c) ==
  /\ c # selected
  /\ selected' = c
  /\ IF fetch[c] = "idle" THEN Ask(c) /\ joined' = joined \ {c}
                          ELSE UNCHANGED queries
  /\ UNCHANGED <<cart, calls, copies>>

\* The window gets the focus.
Focus ==
  /\ fetch[selected] = "idle"
  /\ Ask(selected)
  /\ joined' = joined \ {selected}
  /\ UNCHANGED <<cart, calls, selected, copies>>

\* A copy nobody has looked at for five minutes is dropped.
Collect(c) ==
  /\ c # selected /\ fetch[c] = "idle" /\ c \in cached
  /\ cached' = cached \ {c}
  /\ data' = [data EXCEPT ![c] = Blank]
  /\ UNCHANGED <<cart, calls, selected, queries>>

-----------------------------------------------------------------------------
(* The mutations. *)

Send(k, what) ==
  /\ call[k] = "idle" /\ what \in May[k]
  /\ call' = [call EXCEPT ![k] = "sent"]
  /\ request' = [request EXCEPT ![k] = what]
  /\ UNCHANGED <<cart, selected, copies, queries>>

AddItem(k) == Send(k, "add")

\* The cart page offers to empty and to order a cart only if it shows items.
EmptyCart(k) == data[selected].items /\ Send(k, "empty")
PlaceOrder(k) == data[selected].items /\ Send(k, "order")

\* The service behind the route has done its part, perhaps after the tab was
\* told that the call failed, and has left the cart with or without items.
Serve(k, what, items) ==
  /\ request[k] = what
  /\ request' = [request EXCEPT ![k] = "none"]
  /\ cart' = [through |-> cart.through \cup {k}, items |-> items]
  /\ call' = [call EXCEPT ![k] = IF @ = "sent" THEN "served" ELSE @]
  /\ UNCHANGED <<selected, copies, queries>>

ServeAdd(k) == Serve(k, "add", TRUE)
ServeEmpty(k) == Serve(k, "empty", FALSE)

\* PlaceOrder ignores it when the cart could not be emptied.
ServeOrder(k) == \E items \in {FALSE, cart.items} : Serve(k, "order", items)

\* The service, the route's next call (getCart after addItem, getProduct
\* after placeOrder) or the connection fails; the service may be late.
Fail(k) ==
  /\ call[k] \in {"sent", "served"}
  /\ call' = [call EXCEPT ![k] = "failed"]
  /\ request' \in {request, [request EXCEPT ![k] = "none"]}
  /\ UNCHANGED <<cart, selected, copies, queries>>

\* Mutant of Invalidate: a query that is under way is never cancelled.
InvalidateJoins ==
  LET c == selected
      joins == {d \in Currencies : fetch[d] = "answered" /\ d \notin cached}
  IN  IF fetch[c] = "idle"
      THEN Ask(c) /\ joined' = (joined \cup joins) \ {c}
      ELSE joined' = joined \cup joins /\ UNCHANGED <<fetch, answer, tries, gaveUp>>

\* Every copy is invalidated: the one on the screen is asked for again.  If
\* it is being asked for, that query is cancelled, unless it is the first.
Invalidate ==
  LET c == selected
      joins == {d \in Currencies : fetch[d] = "answered"}
  IN  IF fetch[c] = "idle" \/ c \in cached
      THEN Ask(c) /\ joined' = (joined \cup joins) \ {c}
      ELSE joined' = joined \cup joins /\ UNCHANGED <<fetch, answer, tries, gaveUp>>

\* Mutant of Answer: onSuccess does not invalidate the copies.
AnswerKeepsCopies(k) ==
  /\ call[k] = "served"
  /\ call' = [call EXCEPT ![k] = "acked"]
  /\ UNCHANGED <<cart, request, selected, copies, queries>>

Answer(k) ==
  /\ call[k] = "served"
  /\ call' = [call EXCEPT ![k] = "acked"]
  /\ Invalidate
  /\ UNCHANGED <<cart, request, selected, copies>>

Next ==
  \/ \E c \in Currencies : Read(c) \/ Arrive(c) \/ Retry(c) \/ GiveUp(c)
                           \/ Select(c) \/ Collect(c)
  \/ \E k \in Calls : \/ AddItem(k) \/ EmptyCart(k) \/ PlaceOrder(k)
                     \/ ServeAdd(k) \/ ServeEmpty(k) \/ ServeOrder(k)
                     \/ Fail(k) \/ Answer(k)
  \/ Focus

Spec == Init /\ [][Next]_vars

(***************************************************************************)
(* The routes answer or the connection fails: a query that was sent ends.  *)
(* Nothing is assumed of the shopper, nor that calls ever succeed.         *)
(***************************************************************************)
FairSpec ==
  /\ Spec
  /\ \A c \in Currencies :
       /\ WF_vars(Read(c))
       /\ WF_vars(Arrive(c) \/ Retry(c) \/ GiveUp(c))

-----------------------------------------------------------------------------
\* The state of the tab and of the calls is what Cart.provider.tsx keeps.
TypeOK ==
  /\ cart \in Carts
  /\ call \in [Calls -> {"idle", "sent", "served", "acked", "failed"}]
  /\ request \in [Calls -> {"add", "empty", "order", "none"}]
  /\ selected \in Currencies
  /\ cached \subseteq Currencies
  /\ data \in [Currencies -> Carts]
  /\ fetch \in [Currencies -> {"idle", "asked", "answered"}]
  /\ answer \in [Currencies -> Carts]
  /\ tries \in [Currencies -> 0 .. Retries]
  /\ joined \subseteq Currencies /\ gaveUp \subseteq Currencies

Acked == {k \in Calls : call[k] = "acked"}

\* Nothing is under way that could still change the screen, and nothing has
\* gone wrong that it might be behind for.
UpToDate == fetch[selected] = "idle" /\ selected \notin joined \cup gaveUp

(***************************************************************************)
(* A shopper reads their own writes: a tab that is waiting for nothing     *)
(* shows a cart read after every call it was told has succeeded, whatever  *)
(* the order of answers and whichever currencies were selected meanwhile.  *)
(* Two exceptions, which the code does not notice: invalidateQueries       *)
(* (Cart.provider.tsx:37) found a query under way that it does not restart *)
(* (the currency's first, or that of a currency not on the screen) and     *)
(* that had read the cart by then, or the last query has failed for good.  *)
(***************************************************************************)
ReadYourWrites == UpToDate => Acked \subseteq data[selected].through

(***************************************************************************)
(* If the shopper stays with a currency, the cart they see catches up with *)
(* every acknowledged call, or it is one of the same two exceptions.       *)
(***************************************************************************)
ScreenCatchesUp ==
  \A c \in Currencies, k \in Calls :
    <>[](selected = c) =>
      (k \in Acked ~> k \in data[c].through \/ c \in joined \cup gaveUp)
=============================================================================
