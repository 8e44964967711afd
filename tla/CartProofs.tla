----------------------------- MODULE CartProofs -----------------------------
(***************************************************************************)
(* Proofs about the cart service: its store keeps its invariants for every *)
(* set of calls, users and products and every bound on the quantities, and *)
(* its connection is opened only as often as it has to be, for any threads *)
(* and any number of lost links and exceptions.                            *)
(***************************************************************************)
EXTENDS Cart, CartConnection, FiniteSetTheorems, TLAPS

Writes(c) == pc[c] \in {"set", "late"}

\* A call that is not stale is about to write back what its key still holds.
FreshInv ==
  \A c \in Calls : Writes(c) /\ IsAdd(c) /\ c \notin stale => read[c] = store[User(c)]

(***************************************************************************)
(* Sums.                                                                   *)
(*                                                                         *)
(* What is still to be added to a cart is a sum over calls; it is counted  *)
(* here as the units they ask for.  No cart, and no copy of one that will  *)
(* be written back, holds so much that the units due would exceed what was *)
(* asked for.                                                              *)
(***************************************************************************)
Due(u, p) ==
  {x \in Calls \X (1 .. MaxQuantity) :
     /\ pc[x[1]] \in {"get", "set", "late"} /\ IsAdd(x[1])
     /\ User(x[1]) = u /\ request[x[1]].product = p /\ x[2] <= request[x[1]].quantity}

Sum(u, p) == Cardinality(Due(u, p))

DueInv ==
  \A u \in Users, p \in Products :
    /\ Items(store[u])[p] + Sum(u, p) <= asked[u][p]
    /\ \A c \in Calls : Writes(c) /\ IsAdd(c) /\ User(c) = u =>
         Items(read[c])[p] + Sum(u, p) <= asked[u][p]

IInv == TypeOK /\ FreshInv /\ ExactUnlessRaced /\ CartsExpire /\ DueInv

-----------------------------------------------------------------------------
LEMMA CartFacts ==
  /\ EmptyCart \in Carts
  /\ \A value \in Carts \cup {Null} : Items(value) \in Carts
  /\ Null \notin Carts
BY CartAssumption DEF EmptyCart, Carts, Items

LEMMA RequestFacts ==
  ASSUME NEW r \in Requests
  PROVE  /\ r.user \in Users
         /\ r.kind \in {"add", "empty"}
         /\ r.kind = "add" => r.product \in Products /\ r.quantity \in Nat
BY CartAssumption DEF Requests

LEMMA PlusFacts ==
  ASSUME NEW r \in Requests, r.kind = "add", NEW cart \in Carts
  PROVE  Plus(cart, r) \in Carts
BY RequestFacts DEF Plus, Carts

\* What a call that has begun writes, and the user it writes it for.
LEMMA WriteFacts ==
  ASSUME TypeOK, NEW c \in Calls, pc[c] # "idle"
  PROVE  /\ User(c) \in Users
         /\ Written(c) \in Carts
         /\ Atomically(c) \in Carts
         /\ Items(Written(c)) = Written(c)
<1>1. request[c] \in Requests /\ User(c) \in Users
  BY RequestFacts DEF TypeOK, User
<1>2. Items(read[c]) \in Carts /\ ideal[User(c)] \in Carts
  BY <1>1, CartFacts DEF TypeOK
<1>3. Written(c) \in Carts /\ Atomically(c) \in Carts
  BY <1>1, <1>2, CartFacts, PlusFacts DEF Written, Atomically, IsAdd
<1>4. Written(c) # Null
  BY <1>3, CartFacts
<1> QED
  BY <1>1, <1>3, <1>4 DEF Items

LEMMA InitInv == Init => TypeOK /\ FreshInv /\ ExactUnlessRaced /\ CartsExpire
<1> SUFFICES ASSUME Init
             PROVE  TypeOK /\ FreshInv /\ ExactUnlessRaced /\ CartsExpire
  OBVIOUS
<1>1. TypeOK
  BY CartFacts DEF Init, TypeOK
<1>2. FreshInv /\ CartsExpire
  BY DEF Init, FreshInv, CartsExpire, Writes
<1>3. ExactUnlessRaced
  BY DEF Init, ExactUnlessRaced, Items
<1> QED
  BY <1>1, <1>2, <1>3

-----------------------------------------------------------------------------
LEMMA NextTypeOK == TypeOK /\ [Next]_vars => TypeOK'
<1> SUFFICES ASSUME TypeOK, [Next]_vars
             PROVE  TypeOK'
  OBVIOUS
<1>1. ASSUME NEW c \in Calls, NEW r \in Requests, Begin(c, r)
      PROVE  TypeOK'
  <2>1. asked' \in [Users -> Carts]
    <3>1. r.user \in Users
      BY RequestFacts
    <3>2. r.kind = "add" => Plus(asked[r.user], r) \in Carts
      BY <3>1, PlusFacts DEF TypeOK
    <3> QED
      BY <1>1, <3>1, <3>2 DEF Begin, TypeOK
  <2>2. request' \in [Calls -> Requests \cup {NoRequest}]
        /\ pc' \in [Calls -> {"idle", "get", "set", "expire", "late", "overdue", "done"}]
    BY <1>1 DEF Begin, TypeOK
  <2>3. \A d \in Calls : pc'[d] # "idle" => request'[d] \in Requests
    BY <1>1 DEF Begin, TypeOK
  <2> QED
    BY <1>1, <2>1, <2>2, <2>3 DEF Begin, TypeOK
<1>2. ASSUME NEW c \in Calls, HashGet(c)
      PROVE  TypeOK'
  <2>1. User(c) \in Users
    BY <1>2, WriteFacts DEF HashGet
  <2> QED
    BY <1>2, <2>1 DEF HashGet, TypeOK
<1>3. ASSUME NEW c \in Calls, HashSet(c)
      PROVE  TypeOK'
  <2>1. User(c) \in Users /\ Written(c) \in Carts /\ Atomically(c) \in Carts
    BY <1>3, WriteFacts DEF HashSet
  <2>2. store' \in [Users -> Carts \cup {Null}] /\ ideal' \in [Users -> Carts]
    BY <1>3, <2>1 DEF HashSet, TypeOK
  <2>3. stale' \subseteq Calls /\ raced' \subseteq Users /\ lasting' \subseteq Users
    BY <1>3, <2>1 DEF HashSet, TypeOK, Reading
  <2>4. /\ pc' \in [Calls -> {"idle", "get", "set", "expire", "late", "overdue", "done"}]
        /\ \A d \in Calls : pc'[d] # "idle" => pc[d] # "idle"
    BY <1>3 DEF HashSet, TypeOK
  <2> QED
    BY <1>3, <2>2, <2>3, <2>4 DEF HashSet, TypeOK
<1>4. ASSUME NEW c \in Calls, KeyExpire(c)
      PROVE  TypeOK'
  <2>1. User(c) \in Users
    BY <1>4, WriteFacts DEF KeyExpire
  <2> QED
    BY <1>4, <2>1 DEF KeyExpire, TypeOK
<1>5. ASSUME NEW c \in Calls, Fail(c)
      PROVE  TypeOK'
  <2>1. User(c) \in Users
    BY <1>5, WriteFacts DEF Fail
  <2> QED
    BY <1>5, <2>1 DEF Fail, TypeOK
<1>6. ASSUME NEW u \in Users, Expire(u)
      PROVE  TypeOK'
  BY <1>6, CartFacts DEF Expire, TypeOK, Reading
<1>7. CASE UNCHANGED vars
  BY <1>7 DEF vars, TypeOK
<1> QED
  BY <1>1, <1>2, <1>3, <1>4, <1>5, <1>6, <1>7 DEF Next

LEMMA NextFresh == TypeOK /\ FreshInv /\ [Next]_vars => FreshInv'
<1> SUFFICES ASSUME TypeOK, FreshInv, [Next]_vars,
                    NEW d \in Calls, Writes(d)', IsAdd(d)', d \notin stale'
             PROVE  read'[d] = store'[request'[d].user]
  BY DEF FreshInv, User
<1> USE DEF FreshInv, Writes, IsAdd, User
<1>1. ASSUME NEW c \in Calls, NEW r \in Requests, Begin(c, r)
      PROVE  read'[d] = store'[request'[d].user]
  BY <1>1 DEF Begin, TypeOK
<1>2. ASSUME NEW c \in Calls, HashGet(c)
      PROVE  read'[d] = store'[request'[d].user]
  BY <1>2 DEF HashGet, TypeOK
<1>3. ASSUME NEW c \in Calls, HashSet(c)
      PROVE  read'[d] = store'[request'[d].user]
  <2>1. d # c /\ Writes(d) /\ IsAdd(d)
    BY <1>3 DEF HashSet, TypeOK
  <2>2. d \notin Reading(User(c)) /\ d \notin stale
    BY <1>3, <2>1 DEF HashSet
  <2>3. User(d) # User(c)
    BY <2>1, <2>2 DEF Reading
  <2>4. User(c) \in Users /\ User(d) \in Users
    BY <1>3, <2>1, WriteFacts DEF HashSet
  <2> QED
    BY <1>3, <2>1, <2>2, <2>3, <2>4 DEF HashSet, TypeOK
<1>4. ASSUME NEW c \in Calls, KeyExpire(c)
      PROVE  read'[d] = store'[request'[d].user]
  BY <1>4 DEF KeyExpire, TypeOK
<1>5. ASSUME NEW c \in Calls, Fail(c)
      PROVE  read'[d] = store'[request'[d].user]
  BY <1>5 DEF Fail, TypeOK
<1>6. ASSUME NEW u \in Users, Expire(u)
      PROVE  read'[d] = store'[request'[d].user]
  <2>1. Writes(d) /\ IsAdd(d) /\ d \notin stale /\ d \notin Reading(u)
    BY <1>6 DEF Expire
  <2>2. User(d) # u
    BY <2>1 DEF Reading
  <2>3. User(d) \in Users
    BY <2>1, WriteFacts
  <2> QED
    BY <1>6, <2>1, <2>2, <2>3 DEF Expire, TypeOK
<1>7. CASE UNCHANGED vars
  BY <1>7 DEF vars
<1> QED
  BY <1>1, <1>2, <1>3, <1>4, <1>5, <1>6, <1>7 DEF Next

LEMMA NextExact ==
  TypeOK /\ FreshInv /\ ExactUnlessRaced /\ [Next]_vars => ExactUnlessRaced'
<1> SUFFICES ASSUME TypeOK, FreshInv, ExactUnlessRaced, [Next]_vars,
                    NEW v \in Users, v \notin raced'
             PROVE  Items(store'[v]) = ideal'[v]
  BY DEF ExactUnlessRaced
<1>1. v \notin raced => Items(store[v]) = ideal[v]
  BY DEF ExactUnlessRaced
<1>2. ASSUME NEW c \in Calls, HashSet(c)
      PROVE  Items(store'[v]) = ideal'[v]
  <2>1. User(c) \in Users /\ Items(Written(c)) = Written(c)
    BY <1>2, WriteFacts DEF HashSet
  <2>2. CASE v # User(c)
    <3>1. store'[v] = store[v] /\ ideal'[v] = ideal[v] /\ v \notin raced
      BY <1>2, <2>1, <2>2 DEF HashSet, TypeOK
    <3> QED
      BY <1>1, <3>1
  <2>3. CASE v = User(c) /\ IsAdd(c)
    <3>1. c \notin stale /\ v \notin raced
      BY <1>2, <2>3 DEF HashSet
    <3>2. read[c] = store[v]
      BY <1>2, <2>3, <3>1 DEF HashSet, FreshInv, Writes
    <3>3. Written(c) = Atomically(c)
      BY <1>1, <2>3, <3>1, <3>2 DEF Written, Atomically
    <3> QED
      BY <1>2, <2>1, <2>3, <3>3 DEF HashSet, TypeOK
  <2>4. CASE v = User(c) /\ ~IsAdd(c)
    <3>1. Written(c) = Atomically(c)
      BY <2>4 DEF Written, Atomically
    <3> QED
      BY <1>2, <2>1, <2>4, <3>1 DEF HashSet, TypeOK
  <2> QED
    BY <2>2, <2>3, <2>4
<1>3. ASSUME NEW u \in Users, Expire(u)
      PROVE  Items(store'[v]) = ideal'[v]
  <2>1. CASE v = u
    BY <1>3, <2>1 DEF Expire, TypeOK, Items
  <2>2. CASE v # u
    BY <1>1, <1>3, <2>2 DEF Expire, TypeOK
  <2> QED
    BY <2>1, <2>2
<1>4. CASE UNCHANGED <<store, ideal, raced>>
  BY <1>1, <1>4
<1>5. ASSUME NEW c \in Calls, HashGet(c) \/ KeyExpire(c) \/ Fail(c) \/ \E r \in Requests : Begin(c, r)
      PROVE  UNCHANGED <<store, ideal, raced>>
  BY <1>5 DEF HashGet, KeyExpire, Fail, Begin
<1>6. CASE UNCHANGED vars
  BY <1>4, <1>6 DEF vars
<1> QED
  BY <1>2, <1>3, <1>4, <1>5, <1>6 DEF Next

LEMMA NextExpire == TypeOK /\ CartsExpire /\ [Next]_vars => CartsExpire'
<1> SUFFICES ASSUME TypeOK, CartsExpire, [Next]_vars,
                    NEW v \in Users, store'[v] # Null
             PROVE  \/ v \in ttl' \cup lasting'
                    \/ \E d \in Calls : pc'[d] = "expire" /\ request'[d].user = v
  BY DEF CartsExpire, User
<1>1. store[v] # Null => \/ v \in ttl \cup lasting
                         \/ \E d \in Calls : pc[d] = "expire" /\ request[d].user = v
  BY DEF CartsExpire, User
<1> USE DEF TypeOK, User
<1>2. ASSUME NEW c \in Calls, NEW r \in Requests, Begin(c, r)
      PROVE  \/ v \in ttl' \cup lasting'
             \/ \E d \in Calls : pc'[d] = "expire" /\ request'[d].user = v
  BY <1>1, <1>2 DEF Begin
<1>3. ASSUME NEW c \in Calls, HashGet(c)
      PROVE  \/ v \in ttl' \cup lasting'
             \/ \E d \in Calls : pc'[d] = "expire" /\ request'[d].user = v
  BY <1>1, <1>3 DEF HashGet
<1>4. ASSUME NEW c \in Calls, HashSet(c)
      PROVE  \/ v \in ttl' \cup lasting'
             \/ \E d \in Calls : pc'[d] = "expire" /\ request'[d].user = v
  BY <1>1, <1>4 DEF HashSet
<1>5. ASSUME NEW c \in Calls, KeyExpire(c)
      PROVE  \/ v \in ttl' \cup lasting'
             \/ \E d \in Calls : pc'[d] = "expire" /\ request'[d].user = v
  BY <1>1, <1>5 DEF KeyExpire
<1>6. ASSUME NEW c \in Calls, Fail(c)
      PROVE  \/ v \in ttl' \cup lasting'
             \/ \E d \in Calls : pc'[d] = "expire" /\ request'[d].user = v
  BY <1>1, <1>6 DEF Fail
<1>7. ASSUME NEW u \in Users, Expire(u)
      PROVE  \/ v \in ttl' \cup lasting'
             \/ \E d \in Calls : pc'[d] = "expire" /\ request'[d].user = v
  BY <1>1, <1>7 DEF Expire
<1>8. CASE UNCHANGED vars
  BY <1>1, <1>8 DEF vars
<1> QED
  BY <1>2, <1>3, <1>4, <1>5, <1>6, <1>7, <1>8 DEF Next

-----------------------------------------------------------------------------
\* The units of one call are as many as it asks for.
LEMMA UnitsFacts ==
  ASSUME NEW c, NEW n \in Nat
  PROVE  IsFiniteSet({c} \X (1 .. n)) /\ Cardinality({c} \X (1 .. n)) = n
<1>1. IsFiniteSet({c}) /\ Cardinality({c}) = 1
  BY FS_Singleton
<1>2. IsFiniteSet(1 .. n) /\ Cardinality(1 .. n) = n
  BY FS_Interval
<1>3. /\ IsFiniteSet({c} \X (1 .. n))
      /\ Cardinality({c} \X (1 .. n)) = Cardinality({c}) * Cardinality(1 .. n)
  BY <1>1, <1>2, FS_Product
<1> QED
  BY <1>1, <1>2, <1>3

LEMMA UnitsAdded ==
  ASSUME NEW S, NEW T, NEW c, NEW n \in Nat, IsFiniteSet(S), T \subseteq S \cup ({c} \X (1 .. n))
  PROVE  Cardinality(T) <= Cardinality(S) + n
<1> DEFINE U == {c} \X (1 .. n)
<1>1. IsFiniteSet(U) /\ Cardinality(U) = n
  BY UnitsFacts
<1> HIDE DEF U
<1>2. /\ IsFiniteSet(S \cup U) /\ IsFiniteSet(S \cap U)
      /\ Cardinality(S \cup U) = Cardinality(S) + Cardinality(U) - Cardinality(S \cap U)
  BY <1>1, FS_Union, FS_Intersection
<1>3. Cardinality(S \cap U) \in Nat /\ Cardinality(S) \in Nat /\ Cardinality(S \cup U) \in Nat
  BY <1>2, FS_CardinalityType
<1>4. IsFiniteSet(T) /\ Cardinality(T) <= Cardinality(S \cup U)
  BY <1>2, FS_Subset DEF U
<1>5. Cardinality(T) \in Nat
  BY <1>4, FS_CardinalityType
<1> QED
  BY <1>1, <1>2, <1>3, <1>4, <1>5

LEMMA UnitsRemoved ==
  ASSUME NEW S, NEW T, NEW c, NEW n \in Nat, IsFiniteSet(S),
         {c} \X (1 .. n) \subseteq S, T \subseteq S \ ({c} \X (1 .. n))
  PROVE  Cardinality(T) + n <= Cardinality(S)
<1> DEFINE U == {c} \X (1 .. n)
<1>1. IsFiniteSet(U) /\ Cardinality(U) = n
  BY UnitsFacts
<1>2. U \subseteq S /\ T \subseteq S \ U
  OBVIOUS
<1> HIDE DEF U
<1>3. S \cap U = U
  BY <1>2
<1>4. Cardinality(S \ U) = Cardinality(S) - Cardinality(U)
  BY <1>3, FS_Difference
<1>5. IsFiniteSet(S \ U) /\ Cardinality(S) \in Nat
  BY FS_Difference, FS_CardinalityType
<1>6. IsFiniteSet(T) /\ Cardinality(T) <= Cardinality(S \ U)
  BY <1>2, <1>5, FS_Subset
<1>7. Cardinality(T) \in Nat /\ Cardinality(S \ U) \in Nat
  BY <1>5, <1>6, FS_CardinalityType
<1> QED
  BY <1>1, <1>4, <1>5, <1>6, <1>7

LEMMA DueIsFinite ==
  ASSUME NEW u, NEW p
  PROVE  IsFiniteSet(Due(u, p)) /\ Sum(u, p) \in Nat
<1>1. IsFiniteSet(Calls \X (1 .. MaxQuantity))
  <2>1. IsFiniteSet(1 .. MaxQuantity) /\ IsFiniteSet(Calls)
    BY CartAssumption, FS_Interval
  <2> QED
    BY <2>1, FS_Product
<1>2. Due(u, p) \in SUBSET (Calls \X (1 .. MaxQuantity))
  BY DEF Due
<1>3. IsFiniteSet(Due(u, p))
  BY <1>1, <1>2, FS_Subset
<1> QED
  BY <1>3, FS_CardinalityType DEF Sum

\* Calls that end are due no more; nothing else changes what is due.
LEMMA DueShrinks ==
  ASSUME NEW u, NEW p, UNCHANGED request,
         \A c \in Calls : pc'[c] \in {"get", "set", "late"} => pc[c] \in {"get", "set", "late"}
  PROVE  Sum(u, p)' \in Nat /\ Sum(u, p)' <= Sum(u, p)
<1>1. Due(u, p)' \in SUBSET Due(u, p)
  BY DEF Due, IsAdd, User
<1>2. IsFiniteSet(Due(u, p)') /\ Cardinality(Due(u, p)') <= Cardinality(Due(u, p))
  BY <1>1, DueIsFinite, FS_Subset
<1> QED
  BY <1>2, FS_CardinalityType DEF Sum

-----------------------------------------------------------------------------
LEMMA DueInitially == Init => DueInv
<1> SUFFICES ASSUME Init, NEW u \in Users, NEW p \in Products
             PROVE  /\ Items(store[u])[p] + Sum(u, p) <= asked[u][p]
                    /\ \A c \in Calls : ~Writes(c)
  BY DEF DueInv
<1>1. Due(u, p) = {}
  BY DEF Init, Due
<1>2. Sum(u, p) = 0
  BY <1>1, FS_EmptySet DEF Sum
<1>3. Items(store[u])[p] = 0 /\ asked[u][p] = 0
  BY DEF Init, Items, EmptyCart
<1> QED
  BY <1>2, <1>3 DEF Init, Writes

LEMMA DueStep ==
  ASSUME TypeOK, DueInv, [Next]_vars
  PROVE  DueInv'
<1> SUFFICES ASSUME NEW u \in Users, NEW p \in Products
             PROVE  /\ Items(store'[u])[p] + Sum(u, p)' <= asked'[u][p]
                    /\ \A c \in Calls : (Writes(c) /\ IsAdd(c) /\ User(c) = u)' =>
                         Items(read'[c])[p] + Sum(u, p)' <= asked'[u][p]
  BY DEF DueInv
<1>1. /\ \A v \in Carts \cup {Null} : Items(v)[p] \in Nat
      /\ Items(store[u])[p] \in Nat /\ asked[u][p] \in Nat /\ Sum(u, p) \in Nat
      /\ \A c \in Calls : Items(read[c])[p] \in Nat
  <2>1. \A v \in Carts \cup {Null} : Items(v)[p] \in Nat
    BY CartFacts DEF Carts
  <2> QED
    BY <2>1, DueIsFinite DEF TypeOK, Carts
<1>2. /\ Items(store[u])[p] + Sum(u, p) <= asked[u][p]
      /\ \A c \in Calls : Writes(c) /\ IsAdd(c) /\ User(c) = u =>
           Items(read[c])[p] + Sum(u, p) <= asked[u][p]
  BY DEF DueInv
\* A new call is due what it adds to what was asked for.
<1>3. ASSUME NEW c \in Calls, NEW r \in Requests, Begin(c, r)
      PROVE  /\ Items(store'[u])[p] + Sum(u, p)' <= asked'[u][p]
             /\ \A d \in Calls : (Writes(d) /\ IsAdd(d) /\ User(d) = u)' =>
                  Items(read'[d])[p] + Sum(u, p)' <= asked'[u][p]
  <2>1. Sum(u, p)' \in Nat /\ Sum(u, p)' - Sum(u, p) <= asked'[u][p] - asked[u][p]
        /\ asked'[u][p] \in Nat
    <3>1. CASE r.kind = "add" /\ r.user = u /\ r.product = p
      <4>1. r.quantity \in Nat
        BY <3>1, RequestFacts
      <4>2. Due(u, p)' \subseteq Due(u, p) \cup ({c} \X (1 .. r.quantity))
        <5>1. \A d \in Calls : d # c => request'[d] = request[d] /\ pc'[d] = pc[d]
          BY <1>3 DEF Begin, TypeOK
        <5>2. request'[c] = r
          BY <1>3 DEF Begin, TypeOK
        <5>3. ASSUME NEW x \in Due(u, p)', x[1] # c PROVE x \in Due(u, p)
          BY <5>1, <5>3 DEF Due, IsAdd, User
        <5>4. ASSUME NEW x \in Due(u, p)', x[1] = c PROVE x \in {c} \X (1 .. r.quantity)
          <6>1. /\ x \in Calls \X (1 .. MaxQuantity)
                /\ x[2] <= request'[x[1]].quantity
            BY DEF Due
          <6>2. x[2] \in 1 .. r.quantity /\ x = <<x[1], x[2]>>
            BY <4>1, <5>2, <5>4, <6>1
          <6> QED
            BY <5>4, <6>2
        <5> QED
          BY <5>3, <5>4
      <4>3. Sum(u, p)' <= Sum(u, p) + r.quantity
        BY <4>1, <4>2, DueIsFinite, UnitsAdded DEF Sum
      <4>4. IsFiniteSet(Due(u, p)')
        <5>1. IsFiniteSet(Due(u, p) \cup ({c} \X (1 .. r.quantity)))
          BY <4>1, DueIsFinite, UnitsFacts, FS_Union
        <5> QED
          BY <4>2, <5>1, FS_Subset
      <4>5. Sum(u, p)' \in Nat
        BY <4>4, FS_CardinalityType DEF Sum
      <4>6. asked'[u][p] = asked[u][p] + r.quantity
        BY <1>3, <3>1 DEF Begin, Plus, TypeOK, Carts
      <4> QED
        BY <1>1, <4>1, <4>3, <4>5, <4>6
    <3>2. CASE ~(r.kind = "add" /\ r.user = u /\ r.product = p)
      <4>1. Due(u, p)' \in SUBSET Due(u, p)
        <5>1. \A d \in Calls : d # c => request'[d] = request[d] /\ pc'[d] = pc[d]
          BY <1>3 DEF Begin, TypeOK
        <5>2. request'[c] = r
          BY <1>3 DEF Begin, TypeOK
        <5>3. ASSUME NEW x \in Due(u, p)' PROVE x[1] # c
          BY <3>2, <5>2, <5>3 DEF Due, IsAdd, User
        <5> QED
          BY <5>1, <5>3 DEF Due, IsAdd, User
      <4>2. IsFiniteSet(Due(u, p)') /\ Cardinality(Due(u, p)') <= Cardinality(Due(u, p))
        BY <4>1, DueIsFinite, FS_Subset
      <4>3. Sum(u, p)' \in Nat /\ Sum(u, p)' <= Sum(u, p)
        BY <4>2, FS_CardinalityType DEF Sum
      <4>4. asked'[u][p] = asked[u][p]
        BY <1>3, <3>2, RequestFacts DEF Begin, Plus, TypeOK, Carts
      <4> QED
        BY <1>1, <4>3, <4>4
    <3> QED
      BY <3>1, <3>2
  <2>2. UNCHANGED <<store, read>>
    BY <1>3 DEF Begin
  <2>3. ASSUME NEW d \in Calls, (Writes(d) /\ IsAdd(d) /\ User(d) = u)'
        PROVE  Writes(d) /\ IsAdd(d) /\ User(d) = u
    BY <1>3, <2>3 DEF Begin, Writes, IsAdd, User, TypeOK
    \* c itself has yet to read, or empties.
  <2> QED
    BY <1>1, <1>2, <2>1, <2>2, <2>3
\* What a call reads now counts the same calls as the store does.
<1>4. ASSUME NEW c \in Calls, HashGet(c)
      PROVE  /\ Items(store'[u])[p] + Sum(u, p)' <= asked'[u][p]
             /\ \A d \in Calls : (Writes(d) /\ IsAdd(d) /\ User(d) = u)' =>
                  Items(read'[d])[p] + Sum(u, p)' <= asked'[u][p]
  <2>1. Sum(u, p)' \in Nat /\ Sum(u, p)' <= Sum(u, p)
    <3>1. \A d \in Calls : pc'[d] \in {"get", "set", "late"} => pc[d] \in {"get", "set", "late"}
      BY <1>4 DEF HashGet, TypeOK
    <3> QED
      BY <1>4, <3>1, DueShrinks DEF HashGet
  <2>2. UNCHANGED <<store, asked, request>>
    BY <1>4 DEF HashGet
  <2>3. \A d \in Calls : d # c => read'[d] = read[d] /\ (Writes(d)' => Writes(d))
    BY <1>4 DEF HashGet, TypeOK, Writes
  <2>4. read'[c] = store[User(c)]
    BY <1>4 DEF HashGet, TypeOK
  <2>5. ASSUME NEW d \in Calls, (Writes(d) /\ IsAdd(d) /\ User(d) = u)'
        PROVE  Items(read'[d])[p] + Sum(u, p) <= asked[u][p]
    <3>1. IsAdd(d) /\ User(d) = u
      BY <2>2, <2>5 DEF IsAdd, User
    <3>2. CASE d = c
      BY <1>2, <2>4, <3>1, <3>2
    <3>3. CASE d # c
      BY <1>2, <2>3, <2>5, <3>1, <3>3
    <3> QED
      BY <3>2, <3>3
  <2>6. \A d \in Calls : Items(read'[d])[p] \in Nat
    <3>1. store[User(c)] \in Carts \cup {Null}
      BY <1>4, WriteFacts DEF HashGet, TypeOK
    <3> QED
      BY <1>1, <2>3, <2>4, <3>1
  <2> QED
    BY <1>1, <1>2, <2>1, <2>2, <2>5, <2>6
\* What a call writes, it is due no more.
<1>5. ASSUME NEW c \in Calls, HashSet(c)
      PROVE  /\ Items(store'[u])[p] + Sum(u, p)' <= asked'[u][p]
             /\ \A d \in Calls : (Writes(d) /\ IsAdd(d) /\ User(d) = u)' =>
                  Items(read'[d])[p] + Sum(u, p)' <= asked'[u][p]
  <2>1. /\ UNCHANGED <<read, asked, request>>
        /\ \A d \in Calls : pc'[d] \in {"get", "set", "late"} => pc[d] \in {"get", "set", "late"} /\ d # c
        /\ \A d \in Calls : Writes(d)' => Writes(d)
    BY <1>5 DEF HashSet, TypeOK, Writes
  <2>2. Sum(u, p)' \in Nat /\ Sum(u, p)' <= Sum(u, p)
    BY <2>1, DueShrinks
  <2>3. \A d \in Calls : (Writes(d) /\ IsAdd(d) /\ User(d) = u)' => Writes(d) /\ IsAdd(d) /\ User(d) = u
    BY <2>1 DEF IsAdd, User
  <2>4. /\ User(c) \in Users /\ Written(c) \in Carts /\ Items(Written(c)) = Written(c)
        /\ store' = [store EXCEPT ![User(c)] = Written(c)]
        /\ Writes(c) /\ request[c] \in Requests
    BY <1>5, WriteFacts DEF HashSet, Writes, TypeOK
  <2>5. Items(store'[u])[p] + Sum(u, p)' <= asked[u][p]
    <3>1. CASE User(c) # u
      <4>1. store'[u] = store[u]
        BY <2>4, <3>1 DEF TypeOK
      <4> QED
        BY <1>1, <1>2, <2>2, <4>1
    <3>2. CASE User(c) = u /\ ~IsAdd(c)
      <4>1. Items(store'[u])[p] = 0
        BY <2>4, <3>2 DEF Written, EmptyCart, TypeOK
      <4> QED
        BY <1>1, <1>2, <2>2, <4>1
    <3>3. CASE User(c) = u /\ IsAdd(c)
      <4> DEFINE q == request[c].quantity
      <4>1. q \in 1 .. MaxQuantity /\ q \in Nat /\ request[c].product \in Products
        BY <2>4, <3>3, CartAssumption, RequestFacts DEF IsAdd, Requests
      <4>2. Items(read[c]) \in Carts
        BY CartFacts DEF TypeOK
      <4>3. Items(store'[u])[p] = IF request[c].product = p THEN Items(read[c])[p] + q ELSE Items(read[c])[p]
        BY <2>4, <3>3, <4>2 DEF Written, Plus, Carts, TypeOK
      <4>4. Items(read[c])[p] + Sum(u, p) <= asked[u][p]
        BY <1>2, <2>4, <3>3
      <4>5. CASE request[c].product # p
        BY <1>1, <2>2, <4>3, <4>4, <4>5
      <4>6. CASE request[c].product = p
        <5>1. {c} \X (1 .. q) \subseteq Due(u, p)
          <6>1. pc[c] \in {"get", "set", "late"}
            BY <2>4 DEF Writes
          <6>2. \A n \in 1 .. q : n \in 1 .. MaxQuantity /\ n <= q
            BY <4>1, CartAssumption
          <6> QED
            BY <3>3, <4>6, <6>1, <6>2 DEF Due
        <5>2. Due(u, p)' \subseteq Due(u, p) \ ({c} \X (1 .. q))
          BY <2>1 DEF Due, IsAdd, User
        <5>3. Sum(u, p)' + q <= Sum(u, p)
          BY <4>1, <5>1, <5>2, DueIsFinite, UnitsRemoved DEF Sum
        <5> QED
          BY <1>1, <2>2, <4>1, <4>3, <4>4, <4>6, <5>3
      <4> QED
        BY <4>5, <4>6
    <3> QED
      BY <3>1, <3>2, <3>3
  <2> QED
    BY <1>1, <1>2, <2>1, <2>2, <2>3, <2>5
\* The other steps empty a cart, or end calls.
<1>6. ASSUME UNCHANGED <<read, asked, request>>,
             store'[u] = store[u] \/ store'[u] = Null,
             \A d \in Calls : Writes(d)' => Writes(d),
             \A d \in Calls : pc'[d] \in {"get", "set", "late"} => pc[d] \in {"get", "set", "late"}
      PROVE  /\ Items(store'[u])[p] + Sum(u, p)' <= asked'[u][p]
             /\ \A d \in Calls : (Writes(d) /\ IsAdd(d) /\ User(d) = u)' =>
                  Items(read'[d])[p] + Sum(u, p)' <= asked'[u][p]
  <2>1. Sum(u, p)' \in Nat /\ Sum(u, p)' <= Sum(u, p)
    BY <1>6, DueShrinks
  <2>2. \A d \in Calls : (Writes(d) /\ IsAdd(d) /\ User(d) = u)' => Writes(d) /\ IsAdd(d) /\ User(d) = u
    BY <1>6 DEF IsAdd, User
  <2>3. Items(Null)[p] = 0
    BY DEF Items, EmptyCart
  <2>4. Items(store'[u])[p] \in Nat /\ Items(store'[u])[p] <= Items(store[u])[p]
    BY <1>1, <1>6, <2>3
  <2> QED
    BY <1>1, <1>2, <1>6, <2>1, <2>2, <2>4
<1>7. ASSUME NEW c \in Calls, KeyExpire(c) \/ Fail(c)
      PROVE  /\ UNCHANGED <<read, asked, request, store>>
             /\ \A d \in Calls : Writes(d)' => Writes(d)
             /\ \A d \in Calls : pc'[d] \in {"get", "set", "late"} => pc[d] \in {"get", "set", "late"}
  BY <1>7 DEF KeyExpire, Fail, Writes, TypeOK
<1>8. ASSUME NEW v \in Users, Expire(v)
      PROVE  /\ UNCHANGED <<read, asked, request, pc>>
             /\ store'[u] = store[u] \/ store'[u] = Null
  BY <1>8 DEF Expire, TypeOK
<1>9. ASSUME NEW v \in Users, Expire(v)
      PROVE  \A d \in Calls : Writes(d)' => Writes(d)
  BY <1>9 DEF Expire, Writes
<1>10. CASE UNCHANGED vars
  BY <1>6, <1>10 DEF vars, Writes
<1> QED
  BY <1>3, <1>4, <1>5, <1>6, <1>7, <1>8, <1>9, <1>10 DEF Next

\* No cart holds more than was asked for, as nothing is due a negative amount.
LEMMA DueBounds == TypeOK /\ DueInv => NothingInvented
<1> SUFFICES ASSUME TypeOK, DueInv, NEW u \in Users, NEW p \in Products
             PROVE  Items(store[u])[p] <= asked[u][p]
  BY DEF NothingInvented
<1>1. Sum(u, p) \in Nat
  BY DueIsFinite
<1>2. Items(store[u])[p] \in Nat /\ asked[u][p] \in Nat
  BY CartFacts DEF TypeOK, Carts
<1> QED
  BY <1>1, <1>2 DEF DueInv

-----------------------------------------------------------------------------
\* The store keeps the inductive invariant.
THEOREM Invariance == Spec => []IInv
<1>1. IInv /\ [Next]_vars => IInv'
  BY NextTypeOK, NextFresh, NextExact, NextExpire, DueStep DEF IInv
<1>2. Init => IInv
  BY InitInv, DueInitially DEF IInv
<1> QED
  BY <1>1, <1>2, PTL DEF Spec

-----------------------------------------------------------------------------
\* The commands of AddItem and EmptyCart keep the types of the store.
THEOREM TypeCorrect == Spec => []TypeOK
<1>1. IInv => TypeOK
  BY DEF IInv
<1> QED
  BY <1>1, Invariance, PTL

\* A cart is what atomic calls would have left, unless a stale AddItem has
\* overwritten it.
THEOREM CartsAreExact == Spec => []ExactUnlessRaced
<1>1. IInv => ExactUnlessRaced
  BY DEF IInv
<1> QED
  BY <1>1, Invariance, PTL

\* No race, late write, failure or expiry makes up items: each unit in a cart
\* was asked for by an AddItem that has begun (ValkeyCartStore.cs:132-179).
THEOREM NothingIsInvented == Spec => []NothingInvented
<1>1. IInv => NothingInvented
  BY DueBounds DEF IInv
<1> QED
  BY <1>1, Invariance, PTL

\* Every key has a time to live, is about to get one, or missed its
\* KeyExpire.
THEOREM KeysExpire == Spec => []CartsExpire
<1>1. IInv => CartsExpire
  BY DEF IInv
<1> QED
  BY <1>1, Invariance, PTL

-----------------------------------------------------------------------------
(***************************************************************************)
(* The connection.                                                         *)
(*                                                                         *)
(* That an opening is paid for needs more than its count: one more may be  *)
(* due only where nobody has made it yet, that is, when a thread is about  *)
(* to, or when the flag is down and nobody is past that.                   *)
(***************************************************************************)
Made(t) == where[t] \in {"test", "subscribe", "open"}

NeededInv ==
  (\E t \in Threads : At(t, "connect")) \/ (~flag /\ \A t \in Threads : ~Made(t))
    => opened <= drops + errors

MadeInv == \A t \in Threads : Made(t) => opened # 0

ConnInv == ConnTypeOK /\ OpeningsArePaidFor /\ NeededInv /\ MadeInv

-----------------------------------------------------------------------------
LEMMA ConnInitially == ConnInit => ConnInv
<1> SUFFICES ASSUME ConnInit
             PROVE  ConnInv
  OBVIOUS
<1>1. /\ \A t \in Threads : where[t] = "idle" /\ t # locker
      /\ where \in [Threads -> {"idle", "lock", "connect", "test", "subscribe", "open"}]
      /\ locker = None /\ opened = 0 /\ redis = 0 /\ flag = FALSE
      /\ linked = {} /\ heard = {} /\ drops = 0 /\ errors = 0
  BY ConnectionAssumption DEF ConnInit
<1>2. ConnTypeOK
  <2>1. \A t \in Threads : ~Inside(t)
    BY <1>1 DEF Inside
  <2>2. drops \in 0 .. MaxDrops /\ errors \in 0 .. MaxErrors
    BY <1>1, ConnectionAssumption
  <2>3. linked \subseteq 1 .. opened /\ heard \subseteq 1 .. opened
    BY <1>1
  <2> QED
    BY <1>1, <2>1, <2>2, <2>3 DEF ConnTypeOK
<1>3. OpeningsArePaidFor /\ NeededInv /\ MadeInv
  BY <1>1 DEF OpeningsArePaidFor, NeededInv, MadeInv, Made
<1> QED
  BY <1>2, <1>3 DEF ConnInv

\* The lock lets one thread into the section, and every way out gives it back.
LEMMA ConnTypeStep ==
  ASSUME ConnTypeOK, MadeInv, [ConnNext]_connVars
  PROVE  ConnTypeOK'
<1> USE ConnectionAssumption DEF ConnTypeOK, Inside, At, GoTo
<1>1. ASSUME NEW t \in Threads, Pass(t) PROVE ConnTypeOK'
  BY <1>1 DEF Pass, connVars
<1>2. ASSUME NEW t \in Threads, Wait(t) PROVE ConnTypeOK'
  BY <1>2 DEF Wait
<1>3. ASSUME NEW t \in Threads, Enter(t) PROVE ConnTypeOK'
  BY <1>3 DEF Enter
<1>4. ASSUME NEW t \in Threads, Connect(t) PROVE ConnTypeOK'
  <2>1. CASE Throw(t) /\ UNCHANGED <<opened, redis, linked, flag, heard, drops>>
    BY <2>1, <1>4 DEF Throw, Connect
  <2>2. CASE opened' = opened + 1 /\ redis' = opened + 1
    <3>1. /\ UNCHANGED <<flag, heard, drops>> /\ opened' \in Nat
          /\ 1 .. opened \subseteq 1 .. opened + 1 /\ opened + 1 \in 1 .. opened + 1
      BY <1>4, <2>2 DEF Connect
    <3>2. linked' \subseteq 1 .. opened' /\ heard' \subseteq 1 .. opened'
      <4>1. linked' = linked \cup {opened + 1} \/ linked' = linked
        BY <1>4 DEF Connect
      <4> QED
        BY <2>2, <3>1, <4>1
    <3>3. /\ where' \in [Threads -> {"idle", "lock", "connect", "test", "subscribe", "open"}]
          /\ locker' \in Threads \cup {None}
          /\ \A s \in Threads : Inside(s)' <=> locker' = s
          /\ errors' \in 0 .. MaxErrors
      BY <1>4 DEF Connect, Throw
    <3> QED
      BY <2>2, <3>1, <3>2, <3>3
  <2> QED
    BY <1>4, <2>1, <2>2 DEF Connect
<1>5. ASSUME NEW t \in Threads, Test(t) PROVE ConnTypeOK'
  BY <1>5 DEF Test, Throw
<1>6. ASSUME NEW t \in Threads, Subscribe(t) PROVE ConnTypeOK'
  <2>1. redis = opened /\ opened \in Nat /\ opened # 0
    BY <1>6 DEF Subscribe, MadeInv, Made
  <2> QED
    BY <1>6, <2>1 DEF Subscribe
<1>7. ASSUME NEW t \in Threads, Open(t) PROVE ConnTypeOK'
  BY <1>7 DEF Open
<1>8. ASSUME NEW m \in 1 .. opened, ConnectionFailed(m) \/ ConnectionRestored(m) PROVE ConnTypeOK'
  <2>1. flag' \in BOOLEAN
    BY <1>8, Zenon DEF ConnectionFailed, ConnectionRestored
  <2>2. linked' \subseteq 1 .. opened
    <3>1. linked' = linked \ {m} \/ linked' = linked \cup {m}
      BY <1>8 DEF ConnectionFailed, ConnectionRestored
    <3> QED
      BY <3>1
  <2>3. drops' \in 0 .. MaxDrops
    <3>1. CASE ConnectionFailed(m)
      <4>1. drops' = drops + 1 /\ drops < MaxDrops
        BY <3>1 DEF ConnectionFailed
      <4> QED
        BY <4>1
    <3>2. CASE ConnectionRestored(m)
      BY <3>2 DEF ConnectionRestored
    <3> QED
      BY <1>8, <3>1, <3>2
  <2>4. UNCHANGED <<where, locker, opened, redis, heard, errors>>
    BY <1>8 DEF ConnectionFailed, ConnectionRestored
  <2> QED
    BY <2>1, <2>2, <2>3, <2>4
<1>9. CASE UNCHANGED connVars
  BY <1>9 DEF connVars
<1> QED
  BY <1>1, <1>2, <1>3, <1>4, <1>5, <1>6, <1>7, <1>8, <1>9 DEF ConnNext, Step

\* Opening one more uses up what was due; a lost link or an exception makes
\* one more due.
LEMMA OpeningsStep ==
  ASSUME ConnTypeOK, OpeningsArePaidFor, NeededInv, [ConnNext]_connVars
  PROVE  OpeningsArePaidFor' /\ NeededInv'
<1> USE DEF At, GoTo, Made
<1>1. /\ where \in [Threads -> {"idle", "lock", "connect", "test", "subscribe", "open"}]
      /\ opened \in Nat /\ drops \in Nat /\ errors \in Nat
      /\ opened <= 1 + drops + errors
  BY DEF ConnTypeOK, OpeningsArePaidFor
<1>2. ASSUME NEW t \in Threads, Pass(t) \/ Wait(t) PROVE OpeningsArePaidFor' /\ NeededInv'
  BY <1>1, <1>2 DEF Pass, Wait, OpeningsArePaidFor, NeededInv, connVars
<1>3. ASSUME NEW t \in Threads, Enter(t) PROVE OpeningsArePaidFor' /\ NeededInv'
  <2>1. locker = None => \A s \in Threads : ~Made(s) /\ ~At(s, "connect")
    BY ConnectionAssumption DEF ConnTypeOK, Inside
  <2> QED
    BY <1>1, <1>3, <2>1 DEF Enter, OpeningsArePaidFor, NeededInv
<1>4. ASSUME NEW t \in Threads, Connect(t) PROVE OpeningsArePaidFor' /\ NeededInv'
  <2>1. opened <= drops + errors
    BY <1>4 DEF Connect, NeededInv
  <2>2. \A s \in Threads : ~At(s, "connect")'
    BY <1>1, <1>4 DEF Connect, Throw, ConnTypeOK, Inside
  <2>3. CASE opened' = opened + 1 /\ GoTo(t, "test") /\ UNCHANGED errors
    <3>1. Made(t)' /\ drops' = drops /\ errors' = errors
      BY <1>1, <1>4, <2>3 DEF Connect
    <3> QED
      BY <1>1, <2>1, <2>2, <2>3, <3>1 DEF OpeningsArePaidFor, NeededInv
  <2>4. CASE Throw(t)
    <3>1. opened' \in {opened, opened + 1} /\ drops' = drops /\ errors' = errors + 1
      BY <1>4, <2>4 DEF Connect, Throw
    <3> QED
      BY <1>1, <2>1, <3>1 DEF OpeningsArePaidFor, NeededInv
  <2> QED
    BY <1>4, <2>3, <2>4 DEF Connect
<1>5. ASSUME NEW t \in Threads, Test(t) PROVE OpeningsArePaidFor' /\ NeededInv'
  <2>1. \A s \in Threads : ~At(s, "connect")
    BY <1>1, <1>5 DEF Test, ConnTypeOK, Inside
  <2>2. CASE GoTo(t, "subscribe") /\ UNCHANGED errors
    BY <1>1, <1>5, <2>1, <2>2 DEF Test, OpeningsArePaidFor, NeededInv
  <2>3. CASE Throw(t)
    BY <1>1, <1>5, <2>3 DEF Test, Throw, OpeningsArePaidFor, NeededInv
  <2> QED
    BY <1>5, <2>2, <2>3 DEF Test
<1>6. ASSUME NEW t \in Threads, Subscribe(t) PROVE OpeningsArePaidFor' /\ NeededInv'
  BY <1>1, <1>6 DEF Subscribe, OpeningsArePaidFor, NeededInv
<1>7. ASSUME NEW t \in Threads, Open(t) PROVE OpeningsArePaidFor' /\ NeededInv'
  <2>1. \A s \in Threads : ~At(s, "connect")
    BY <1>1, <1>7 DEF Open, ConnTypeOK, Inside
  <2> QED
    BY <1>1, <1>7, <2>1 DEF Open, OpeningsArePaidFor, NeededInv
<1>8. ASSUME NEW m \in 1 .. opened, ConnectionFailed(m) PROVE OpeningsArePaidFor' /\ NeededInv'
  BY <1>1, <1>8 DEF ConnectionFailed, OpeningsArePaidFor, NeededInv
<1>9. ASSUME NEW m \in 1 .. opened, ConnectionRestored(m) PROVE OpeningsArePaidFor' /\ NeededInv'
  BY <1>1, <1>9 DEF ConnectionRestored, OpeningsArePaidFor, NeededInv
<1>10. CASE UNCHANGED connVars
  BY <1>1, <1>10 DEF connVars, OpeningsArePaidFor, NeededInv
<1> QED
  BY <1>2, <1>3, <1>4, <1>5, <1>6, <1>7, <1>8, <1>9, <1>10 DEF ConnNext, Step

\* Whoever is past the connecting has a multiplexer.
LEMMA MadeStep ==
  ASSUME ConnTypeOK, MadeInv, [ConnNext]_connVars
  PROVE  MadeInv'
<1>1. where \in [Threads -> {"idle", "lock", "connect", "test", "subscribe", "open"}] /\ opened \in Nat
  BY DEF ConnTypeOK
<1>2. ASSUME NEW t \in Threads, Connect(t) PROVE MadeInv'
  <2>1. CASE opened' = opened + 1
    BY <1>1, <2>1 DEF MadeInv
  <2>2. CASE Throw(t) /\ opened' = opened
    BY <1>1, <2>2 DEF Throw, GoTo, MadeInv, Made
  <2> QED
    BY <1>2, <2>1, <2>2 DEF Connect
<1>3. ASSUME NEW t \in Threads, Pass(t) \/ Wait(t) \/ Enter(t) \/ Test(t) \/ Subscribe(t) \/ Open(t)
      PROVE  MadeInv'
  <2>1. opened' = opened /\ \A s \in Threads : Made(s)' => Made(s)
    BY <1>1, <1>3 DEF Pass, Wait, Enter, Test, Subscribe, Open, Throw, Made, At, GoTo, connVars
  <2> QED
    BY <2>1 DEF MadeInv
<1>4. ASSUME NEW m \in 1 .. opened, ConnectionFailed(m) \/ ConnectionRestored(m) PROVE MadeInv'
  BY <1>4 DEF ConnectionFailed, ConnectionRestored, MadeInv, Made
<1>5. CASE UNCHANGED connVars
  BY <1>5 DEF connVars, MadeInv, Made
<1> QED
  BY <1>2, <1>3, <1>4, <1>5 DEF ConnNext, Step

LEMMA ConnInvariance == ConnSpec => []ConnInv
<1>1. ConnInv /\ [ConnNext]_connVars => ConnInv'
  BY ConnTypeStep, OpeningsStep, MadeStep DEF ConnInv
<1> QED
  BY ConnInitially, <1>1, PTL DEF ConnSpec

-----------------------------------------------------------------------------
\* One thread is in the locked section, _redis is the multiplexer made last,
\* and the lock is free when nobody is inside (ValkeyCartStore.cs:74-130).
THEOREM ConnTypeCorrect == ConnSpec => []ConnTypeOK
<1>1. ConnInv => ConnTypeOK
  BY DEF ConnInv
<1> QED
  BY <1>1, ConnInvariance, PTL

\* However many threads find the flag down, each multiplexer after the first
\* answers to a link lost or an attempt that threw, though flag is read outside
\* the lock and set by handlers of multiplexers that were replaced
\* (ValkeyCartStore.cs:76-130).
THEOREM NoOpeningIsNeedless == ConnSpec => []OpeningsArePaidFor
<1>1. ConnInv => OpeningsArePaidFor
  BY DEF ConnInv
<1> QED
  BY <1>1, ConnInvariance, PTL
=============================================================================
