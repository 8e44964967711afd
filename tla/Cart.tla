-------------------------------- MODULE Cart --------------------------------
(***************************************************************************)
(* The cart service's store (src/src/cart/src/cartstore/ValkeyCartStore.cs)*)
(* under concurrent AddItem and EmptyCart calls.  AddItem reads the whole  *)
(* cart of the user with one Valkey command, and writes it back with       *)
(* another; a third command renews the hour after which the key expires.   *)
(* The service shares nothing else between calls, so that several replicas *)
(* of it, or a restart, add no behaviour: a call may stop at any command.  *)
(***************************************************************************)
EXTENDS Naturals, FiniteSets

CONSTANTS Calls, Users, Products, MaxQuantity,
          Null  \* Valkey's answer for a key that does not exist

ASSUME CartAssumption ==
  IsFiniteSet(Calls) /\ MaxQuantity \in Nat \ {0} /\ Null \notin [Products -> Nat]

Requests ==
  [kind : {"add"}, user : Users, product : Products, quantity : 1 .. MaxQuantity]
  \cup [kind : {"empty"}, user : Users]

\* A cart maps the products to their quantities, 0 if it lists none.
Carts == [Products -> Nat]
EmptyCart == [p \in Products |-> 0]
Items(value) == IF value = Null THEN EmptyCart ELSE value

VARIABLES
  pc,       \* idle, get, set, expire or done; late or overdue if HashSet or
            \* KeyExpire is still under way after the call has given it up
  request,  \* what each call was asked
  read,     \* the value each AddItem has read
  store,    \* the value of each user's key
  ttl,      \* users whose key has a time to live
  ideal,    \* history: the carts, were AddItem and EmptyCart atomic
  stale,    \* history: calls whose key was written after they read it
  raced,    \* history: users whose cart a stale call has overwritten
  lasting,  \* history: users for whom KeyExpire was not executed
  asked     \* history: all that AddItem calls have asked for

vars == <<pc, request, read, store, ttl, ideal, stale, raced, lasting, asked>>

NoRequest == [kind |-> "none"]
User(c) == request[c].user
IsAdd(c) == request[c].kind = "add"

Init ==
  /\ pc = [c \in Calls |-> "idle"]
  /\ request = [c \in Calls |-> NoRequest]
  /\ read = [c \in Calls |-> Null]
  /\ store = [u \in Users |-> Null]
  /\ ttl = {}
  /\ ideal = [u \in Users |-> EmptyCart]
  /\ stale = {} /\ raced = {} /\ lasting = {}
  /\ asked = [u \in Users |-> EmptyCart]

Plus(cart, r) == [cart EXCEPT ![r.product] = @ + r.quantity]

Begin(c, r) ==
  /\ pc[c] = "idle"
  /\ request' = [request EXCEPT ![c] = r]
  /\ pc' = [pc EXCEPT ![c] = IF r.kind = "add" THEN "get" ELSE "set"]
  /\ asked' = IF r.kind = "add" THEN [asked EXCEPT ![r.user] = Plus(@, r)] ELSE asked
  /\ UNCHANGED <<read, store, ttl, ideal, stale, raced, lasting>>

HashGet(c) ==
  /\ pc[c] = "get"
  /\ read' = [read EXCEPT ![c] = store[User(c)]]
  /\ pc' = [pc EXCEPT ![c] = "set"]
  /\ UNCHANGED <<request, store, ttl, ideal, stale, raced, lasting, asked>>

\* The calls that will write back what they have read of u's cart.
Reading(u) == {d \in Calls : pc[d] \in {"set", "late"} /\ IsAdd(d) /\ User(d) = u}

\* Mutants of Written: the items already there are forgotten; the item is
\* listed twice.
WrittenAlone(c) == IF IsAdd(c) THEN Plus(EmptyCart, request[c]) ELSE EmptyCart
WrittenTwice(c) ==
  IF IsAdd(c) THEN Plus(Plus(Items(read[c]), request[c]), request[c]) ELSE EmptyCart

\* What the call writes, and what it would write if it were atomic.
Written(c) == IF IsAdd(c) THEN Plus(Items(read[c]), request[c]) ELSE EmptyCart
Atomically(c) == IF IsAdd(c) THEN Plus(ideal[User(c)], request[c]) ELSE EmptyCart

\* HashSet keeps the key's time to live, if it has one.
HashSet(c) ==
  /\ pc[c] \in {"set", "late"}
  /\ store' = [store EXCEPT ![User(c)] = Written(c)]
  /\ ideal' = [ideal EXCEPT ![User(c)] = Atomically(c)]
  /\ stale' = (stale \cup Reading(User(c))) \ {c}
  /\ raced' = IF ~IsAdd(c) THEN raced \ {User(c)}
              ELSE IF c \in stale THEN raced \cup {User(c)} ELSE raced
  /\ pc' = [pc EXCEPT ![c] = IF @ = "set" THEN "expire" ELSE "done"]
  /\ lasting' = IF pc[c] = "late" THEN lasting \cup {User(c)} ELSE lasting
  /\ UNCHANGED <<request, read, ttl, asked>>

\* Mutant of KeyExpire: the call returns without it.
KeyExpireSkipped(c) ==
  /\ pc[c] = "expire"
  /\ pc' = [pc EXCEPT ![c] = "done"]
  /\ UNCHANGED <<request, read, store, ttl, ideal, stale, raced, lasting, asked>>

\* KeyExpire does nothing to a key that has expired meanwhile.
KeyExpire(c) ==
  /\ pc[c] \in {"expire", "overdue"}
  /\ ttl' = IF store[User(c)] = Null THEN ttl ELSE ttl \cup {User(c)}
  /\ lasting' = lasting \ {User(c)}
  /\ pc' = [pc EXCEPT ![c] = "done"]
  /\ UNCHANGED <<request, read, store, ideal, stale, raced, asked>>

\* A command fails or times out (cartFailure's store fails EmptyCart's
\* HashSet), or the service stops; a write may be executed all the same.
Fail(c) ==
  /\ pc[c] \in {"get", "set", "expire"}
  /\ \/ pc' = [pc EXCEPT ![c] = "done"]
     \/ pc[c] = "set" /\ pc' = [pc EXCEPT ![c] = "late"]
     \/ pc[c] = "expire" /\ pc' = [pc EXCEPT ![c] = "overdue"]
  /\ lasting' = IF pc[c] = "expire" THEN lasting \cup {User(c)} ELSE lasting
  /\ UNCHANGED <<request, read, store, ttl, ideal, stale, raced, asked>>

\* An hour has passed since KeyExpire.
Expire(u) ==
  /\ u \in ttl
  /\ store' = [store EXCEPT ![u] = Null]
  /\ ttl' = ttl \ {u}
  /\ ideal' = [ideal EXCEPT ![u] = EmptyCart]
  /\ stale' = stale \cup Reading(u)
  /\ raced' = raced \ {u}
  /\ lasting' = lasting \ {u}
  /\ UNCHANGED <<pc, request, read, asked>>

Next ==
  \/ \E c \in Calls, r \in Requests : Begin(c, r)
  \/ \E c \in Calls : HashGet(c) \/ HashSet(c) \/ KeyExpire(c) \/ Fail(c)
  \/ \E u \in Users : Expire(u)

Spec == Init /\ [][Next]_vars

-----------------------------------------------------------------------------
TypeOK ==
  /\ pc \in [Calls -> {"idle", "get", "set", "expire", "late", "overdue", "done"}]
  /\ request \in [Calls -> Requests \cup {NoRequest}]
  /\ \A c \in Calls : pc[c] # "idle" => request[c] \in Requests
  /\ read \in [Calls -> Carts \cup {Null}]
  /\ store \in [Users -> Carts \cup {Null}]
  /\ ttl \subseteq Users /\ raced \subseteq Users /\ lasting \subseteq Users
  /\ ideal \in [Users -> Carts]
  /\ stale \subseteq Calls
  /\ asked \in [Users -> Carts]

(***************************************************************************)
(* A cart holds what AddItem and EmptyCart calls executed one at a time    *)
(* would have left in it, unless an AddItem since it was last emptied has  *)
(* written back a cart that was written after it had read it.              *)
(***************************************************************************)
ExactUnlessRaced ==
  \A u \in Users : u \in raced \/ Items(store[u]) = ideal[u]

(***************************************************************************)
(* Even then no race, late write or expiry makes up items: a cart never    *)
(* holds more of a product than was ever asked for.                        *)
(***************************************************************************)
NothingInvented ==
  \A u \in Users, p \in Products : Items(store[u])[p] <= asked[u][p]

(***************************************************************************)
(* Every cart is forgotten an hour after it was last used, unless the call *)
(* that created its key is about to renew it or did not come to that       *)
(* (ValkeyCartStore.cs:173-174 and 198-199 are two commands each).         *)
(***************************************************************************)
CartsExpire ==
  \A u \in Users : store[u] # Null =>
    \/ u \in ttl \cup lasting
    \/ \E c \in Calls : pc[c] = "expire" /\ User(c) = u
=============================================================================
