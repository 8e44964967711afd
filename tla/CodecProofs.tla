---------------------------- MODULE CodecProofs -----------------------------
(***************************************************************************)
(* Decoding is exact, for every protocol in which a message's fields have  *)
(* numbers and names of their own, and for every sequence of entries.  The *)
(* invariant IInv is the property itself, with the types of what it is     *)
(* about: reading one more entry turns what the first at - 1 entries       *)
(* amount to into what the first at do.  The lemmas are about any wire w,  *)
(* so that they serve before and after a step.                             *)
(*                                                                         *)
(* What is read of a request is its body: RequestInv says which stretch of *)
(* the wire each field has written, and with exact decoding the last entry *)
(* of a stretch, or all of it, is what the body has.                       *)
(***************************************************************************)
EXTENDS Codec, TLAPS

Vals == {"zero", "a", "b", "huge", "converted"}

Entry == [tag : Int, val : Vals]

FieldsInv == MessageOK(fields)

WireInv ==
  /\ wire \in Seq(Entry)
  /\ phase \in {"writing", "refused", "reading", "read", "failed"}
  /\ at \in Nat \ {0}
  /\ phase \notin {"writing", "refused"} => at <= Len(wire) + 1

MessageInv == message \in [Names -> Seq(Vals)]

IInv == FieldsInv /\ WireInv /\ MessageInv /\ DecodeIsExact

-----------------------------------------------------------------------------
(* Fields and tags. *)

\* The tag of a field does not end a message, and its wire type exists.
LEMMA TagsGoOn ==
  ASSUME FieldsInv, NEW f \in Fields
  PROVE  ~Ends(Tag(f)) /\ Tag(f) % 8 \notin {6, 7}
<1>1. f.no \in Nat \ {0} /\ WireType(f.type) \in {0, 2}
  BY DEF Fields, FieldsInv, MessageOK, FieldOK, WireType
<1>2. ASSUME NEW k \in Nat \ {0}, NEW u \in {0, 2}
      PROVE  8 * k + u # 0 /\ (8 * k + u) % 8 = u
  BY <1>2
<1> QED
  BY <1>1, <1>2 DEF Ends, Tag

\* The number of a field decides its tag, and so its tag decides the field.
LEMMA TagsDiffer ==
  ASSUME FieldsInv, NEW f \in Fields, NEW g \in Fields, f # g
  PROVE  Tag(f) # Tag(g) /\ f.name # g.name
<1>1. PICK i \in DOMAIN fields : f = fields[i]
  BY DEF Fields
<1>2. PICK j \in DOMAIN fields : g = fields[j]
  BY DEF Fields
<1>3. f.no # g.no /\ f.name # g.name
  BY <1>1, <1>2 DEF FieldsInv, MessageOK
<1>4. f.no \in Nat /\ g.no \in Nat
  BY <1>1, <1>2 DEF FieldsInv, MessageOK, FieldOK
<1>5. WireType(f.type) \in {0, 2} /\ WireType(g.type) \in {0, 2}
  BY DEF WireType
<1>6. ASSUME NEW a \in Nat, NEW b \in Nat, a # b, NEW u \in {0, 2}, NEW v \in {0, 2}
      PROVE  8 * a + u # 8 * b + v
  BY <1>6
<1>7. Tag(f) # Tag(g)
  BY <1>3, <1>4, <1>5, <1>6 DEF Tag
<1> QED
  BY <1>3, <1>7

LEMMA TagIsInt ==
  ASSUME FieldsInv, NEW f \in Fields
  PROVE  Tag(f) \in Int /\ f.no \in Nat /\ f.name \in Names /\ f.repeated \in BOOLEAN
BY DEF Fields, Names, FieldsInv, MessageOK, FieldOK, Tag, WireType

LEMMA DefaultType ==
  ASSUME NEW f
  PROVE  /\ Default(f) \in Seq(Vals)
         /\ \A i \in DOMAIN Default(f) : Default(f)[i] # "huge"
         /\ f.repeated => Default(f) = <<>>
<1>1. <<>> \in Seq(Vals) /\ DOMAIN (<<>>) = {}
  OBVIOUS
<1>2. <<"zero">> \in Seq(Vals) /\ DOMAIN (<<"zero">>) = {1} /\ <<"zero">>[1] = "zero"
  BY DEF Vals
<1>3. "zero" # "huge"
  OBVIOUS
<1>4. CASE f.repeated \/ f.type \notin Scalars
  BY <1>1, <1>4 DEF Default
<1>5. CASE ~(f.repeated \/ f.type \notin Scalars)
  BY <1>2, <1>3, <1>5 DEF Default
<1> QED
  BY <1>4, <1>5

-----------------------------------------------------------------------------
(* What the first k entries of a wire amount to. *)

MatchingIn(w, f, k) == {i \in DOMAIN w : i <= k /\ w[i].tag = Tag(f)}

LastIn(w, f, value, k) ==
  \/ MatchingIn(w, f, k) = {} /\ value = Default(f)
  \/ \E i \in MatchingIn(w, f, k) :
       /\ \A j \in MatchingIn(w, f, k) : j <= i
       /\ value = <<w[i].val>>

AllIn(w, f, value, k) ==
  \E place \in [DOMAIN value -> MatchingIn(w, f, k)] :
    /\ \A i \in MatchingIn(w, f, k) : \E j \in DOMAIN value : place[j] = i
    /\ \A j, l \in DOMAIN value : j < l => place[j] < place[l]
    /\ \A j \in DOMAIN value : value[j] = w[place[j]].val

ReadsIn(w, f, value, k) ==
  IF f.repeated THEN AllIn(w, f, value, k) ELSE LastIn(w, f, value, k)

LEMMA ReadsIsReadsIn ==
  ASSUME NEW f, NEW value, NEW k
  PROVE  Reads(f, value, k) = ReadsIn(wire, f, value, k)
BY DEF Reads, IsAllValues, IsLastValue, Matching, ReadsIn, AllIn, LastIn, MatchingIn

\* Of no entries, a field reads its default, whatever is on the wire.
LEMMA NothingRead ==
  ASSUME NEW w \in Seq(Entry), NEW f, f.repeated \in BOOLEAN, NEW value \in Seq(Vals)
  PROVE  ReadsIn(w, f, value, 0) <=> value = Default(f)
<1>1. MatchingIn(w, f, 0) = {}
  BY DEF MatchingIn
<1>2. LastIn(w, f, value, 0) <=> value = Default(f)
  BY <1>1 DEF LastIn
<1>3. ASSUME f.repeated PROVE AllIn(w, f, value, 0) <=> value = Default(f)
  <2>1. Default(f) = <<>>
    BY <1>3 DEF Default
  <2>2. ASSUME AllIn(w, f, value, 0) PROVE value = <<>>
    <3>1. PICK place \in [DOMAIN value -> {}] : TRUE
      BY <1>1, <2>2 DEF AllIn
    <3>2. DOMAIN value = {}
      BY <3>1
    <3> QED
      BY <3>2
  <2>3. ASSUME value = <<>> PROVE AllIn(w, f, value, 0)
    <3>1. DOMAIN value = {}
      BY <2>3
    <3>2. [x \in {} |-> 0] \in [DOMAIN value -> MatchingIn(w, f, 0)]
      BY <1>1, <3>1
    <3> QED
      BY <1>1, <3>1, <3>2 DEF AllIn
  <2> QED
    BY <2>1, <2>2, <2>3
<1> QED
  BY <1>2, <1>3 DEF ReadsIn

\* One more entry, which is not one of f.
LEMMA OthersUnmoved ==
  ASSUME NEW w \in Seq(Entry), NEW f, NEW value, NEW k \in 1 .. Len(w),
         w[k].tag # Tag(f), ReadsIn(w, f, value, k - 1)
  PROVE  ReadsIn(w, f, value, k)
<1>1. MatchingIn(w, f, k) = MatchingIn(w, f, k - 1)
  BY DEF MatchingIn
<1> QED
  BY <1>1 DEF ReadsIn, LastIn, AllIn

\* One more entry, which is one of f.
LEMMA OneMoreMatches ==
  ASSUME NEW w \in Seq(Entry), NEW f, NEW k \in 1 .. Len(w), w[k].tag = Tag(f)
  PROVE  /\ MatchingIn(w, f, k) = MatchingIn(w, f, k - 1) \cup {k}
         /\ \A i \in MatchingIn(w, f, k - 1) : i \in Int /\ i < k
BY DEF MatchingIn

LEMMA LastNext ==
  ASSUME NEW w \in Seq(Entry), NEW f, NEW k \in 1 .. Len(w), w[k].tag = Tag(f)
  PROVE  LastIn(w, f, <<w[k].val>>, k)
<1>1. k \in MatchingIn(w, f, k) /\ \A j \in MatchingIn(w, f, k) : j <= k
  BY DEF MatchingIn
<1> QED
  BY <1>1 DEF LastIn

LEMMA AllNext ==
  ASSUME NEW w \in Seq(Entry), NEW f, NEW k \in 1 .. Len(w), w[k].tag = Tag(f),
         NEW value \in Seq(Vals), AllIn(w, f, value, k - 1)
  PROVE  AllIn(w, f, Append(value, w[k].val), k)
<1> DEFINE M == MatchingIn(w, f, k - 1)
           n == Len(value) + 1
           next == Append(value, w[k].val)
<1>1. PICK place \in [DOMAIN value -> M] :
        /\ \A i \in M : \E j \in DOMAIN value : place[j] = i
        /\ \A j, l \in DOMAIN value : j < l => place[j] < place[l]
        /\ \A j \in DOMAIN value : value[j] = w[place[j]].val
  BY DEF AllIn
<1> DEFINE longer == [j \in 1 .. n |-> IF j = n THEN k ELSE place[j]]
<1>2. w[k].val \in Vals
  <2>1. w[k] \in Entry
    OBVIOUS
  <2> QED
    BY <2>1 DEF Entry
<1>3. /\ DOMAIN next = 1 .. n /\ next[n] = w[k].val
      /\ DOMAIN value = 1 .. Len(value) /\ Len(value) \in Nat
      /\ \A j \in 1 .. Len(value) : next[j] = value[j]
  BY <1>2
<1>4. MatchingIn(w, f, k) = M \cup {k} /\ \A i \in M : i \in Int /\ i < k
  BY OneMoreMatches
<1>5. n \in 1 .. n /\ \A j \in 1 .. n : j = n \/ j \in 1 .. Len(value)
  BY <1>3
<1> HIDE DEF M, next
<1>6. longer[n] = k /\ \A j \in 1 .. Len(value) : longer[j] = place[j] /\ place[j] \in M
  <2>1. longer[n] = k
    BY <1>5
  <2>2. ASSUME NEW j \in 1 .. Len(value)
        PROVE  longer[j] = place[j] /\ place[j] \in M
    <3>1. j \in 1 .. n /\ j # n
      BY <1>3
    <3>2. longer[j] = place[j]
      BY <3>1
    <3>3. j \in DOMAIN value
      BY <1>3
    <3>4. place[j] \in M
      BY <1>1, <3>3
    <3> QED
      BY <3>2, <3>4
  <2> QED
    BY <2>1, <2>2
<1> HIDE DEF longer
<1>7. longer \in [DOMAIN next -> M \cup {k}]
  <2>1. longer = [j \in 1 .. n |-> longer[j]]
    BY DEF longer
  <2> QED
    BY <2>1, <1>3, <1>5, <1>6
<1>8. \A i \in M \cup {k} : \E j \in DOMAIN next : longer[j] = i
  <2>1. TAKE i \in M \cup {k}
  <2>2. CASE i = k
    BY <2>2, <1>3, <1>5, <1>6
  <2>3. CASE i \in M
    BY <2>3, <1>1, <1>3, <1>6
  <2> QED
    BY <2>2, <2>3
<1>9. \A j, l \in DOMAIN next : j < l => longer[j] < longer[l]
  <2>1. TAKE j, l \in DOMAIN next
  <2>2. HAVE j < l
  <2>3. j \in 1 .. Len(value) /\ longer[j] \in M /\ longer[j] = place[j]
    BY <2>2, <1>3, <1>5, <1>6
  <2>4. CASE l = n
    BY <2>3, <2>4, <1>4, <1>6
  <2>5. CASE l \in 1 .. Len(value)
    BY <2>2, <2>3, <2>5, <1>1, <1>3, <1>6
  <2> QED
    BY <2>4, <2>5, <1>3, <1>5
<1>10. \A j \in DOMAIN next : next[j] = w[longer[j]].val
  BY <1>1, <1>3, <1>5, <1>6
<1> QED
  BY <1>4, <1>7, <1>8, <1>9, <1>10 DEF AllIn, next

-----------------------------------------------------------------------------
(* The initial states. *)

\* A new message has the default in each field.
LEMMA BaseIsDefault ==
  ASSUME FieldsInv, NEW f \in Fields
  PROVE  f.name \in DOMAIN Base(Fields) /\ Base(Fields)[f.name] = Default(f)
<1>1. f.name \in Names
  BY DEF Names
<1>2. \A g \in Fields : g.name = f.name => g = f
  BY TagsDiffer
<1>3. (CHOOSE g \in Fields : g.name = f.name) = f
  BY <1>2
<1>4. Base(Fields)[f.name] = Default(CHOOSE g \in Fields : g.name = f.name)
  BY <1>1 DEF Base, Names
<1> QED
  BY <1>1, <1>3, <1>4 DEF Base, Names

LEMMA InitInv ==
  ASSUME SchemaOK, Init
  PROVE  IInv
<1>1. PICK m \in DOMAIN Schema : fields = Schema[m] /\ message = Base(Listed(m))
  <2>1. \A S : S \subseteq DOMAIN Schema => Within(S) \subseteq DOMAIN Schema
    BY DEF Within, Parts
  <2>2. Sent \subseteq DOMAIN Schema /\ Received \subseteq DOMAIN Schema
    <3>1. /\ {c.request : c \in Methods} \subseteq DOMAIN Schema
          /\ {c.response : c \in Methods} \subseteq DOMAIN Schema
      BY DEF SchemaOK
    <3> QED
      BY <2>1, <3>1 DEF Sent, Received
  <2> QED
    BY <2>2 DEF Init
<1>2. FieldsInv
  BY <1>1 DEF FieldsInv, SchemaOK
<1>3. message = Base(Fields)
  BY <1>1 DEF Listed, Fields
<1>4. WireInv
  <2>1. wire = <<>> /\ at = 1 /\ phase = "writing"
    BY DEF Init
  <2> QED
    BY <2>1 DEF WireInv
<1>5. MessageInv
  <2>1. message = [n \in Names |-> Default(CHOOSE f \in Fields : f.name = n)]
    BY <1>3 DEF Base, Names
  <2>2. \A n \in Names : Default(CHOOSE f \in Fields : f.name = n) \in Seq(Vals)
    BY DefaultType
  <2> QED
    BY <2>1, <2>2 DEF MessageInv
<1>6. DecodeIsExact
  <2>1. EntriesRead = 0
    BY DEF Init, EntriesRead
  <2>2. ASSUME NEW f \in Fields
        PROVE  /\ Reads(f, message[f.name], 0)
               /\ \A i \in DOMAIN message[f.name] : message[f.name][i] # "huge"
    <3>1. message[f.name] = Default(f)
      BY <1>2, <1>3, BaseIsDefault
    <3>2. Default(f) \in Seq(Vals) /\ \A i \in DOMAIN Default(f) : Default(f)[i] # "huge"
      BY DefaultType
    <3>3. ReadsIn(wire, f, Default(f), 0)
      BY <1>2, <1>4, <3>2, TagIsInt, NothingRead DEF WireInv
    <3> QED
      BY <3>1, <3>2, <3>3, ReadsIsReadsIn
  <2>3. phase # "read" /\ 1 .. 0 = {}
    BY DEF Init
  <2> QED
    BY <2>1, <2>2, <2>3 DEF DecodeIsExact
<1> QED
  BY <1>2, <1>4, <1>5, <1>6 DEF IInv

-----------------------------------------------------------------------------
(* The steps. *)

\* The invariant at the fields, names and entries read after a step.
LEMMA ReadsNow ==
  ASSUME DecodeIsExact, NEW f \in Fields
  PROVE  /\ ReadsIn(wire, f, message[f.name], EntriesRead)
         /\ \A i \in DOMAIN message[f.name] : message[f.name][i] # "huge"
BY ReadsIsReadsIn DEF DecodeIsExact

\* Before reading starts, the message stays as it was whatever is written.
LEMMA WritingKeeps ==
  ASSUME IInv, phase \in {"writing", "refused"},
         UNCHANGED <<fields, message>>, WireInv',
         phase' \in {"writing", "refused"} \/ (phase' = "reading" /\ at' = 1)
  PROVE  IInv'
<1>1. Fields' = Fields /\ Names' = Names
  BY DEF Fields, Names
<1>2. FieldsInv' /\ MessageInv'
  BY <1>1 DEF IInv, FieldsInv, MessageInv
<1>3. EntriesRead = 0 /\ EntriesRead' = 0
  BY DEF EntriesRead
<1>4. ASSUME NEW f \in Fields
      PROVE  /\ ReadsIn(wire', f, message[f.name], 0)
             /\ \A i \in DOMAIN message[f.name] : message[f.name][i] # "huge"
  <2>1. f.repeated \in BOOLEAN /\ message[f.name] \in Seq(Vals)
    BY TagIsInt DEF IInv, MessageInv
  <2>2. ReadsIn(wire, f, message[f.name], 0)
    BY <1>3, ReadsNow DEF IInv
  <2>3. wire \in Seq(Entry) /\ wire' \in Seq(Entry)
    BY DEF IInv, WireInv
  <2>4. message[f.name] = Default(f)
    BY <2>1, <2>2, <2>3, NothingRead
  <2>5. ReadsIn(wire', f, message[f.name], 0)
    BY <2>1, <2>3, <2>4, NothingRead
  <2> QED
    BY <2>5, ReadsNow DEF IInv
<1>5. DecodeIsExact'
  <2>1. ASSUME NEW f \in Fields
        PROVE  /\ Reads(f, message[f.name], 0)'
               /\ (\A i \in DOMAIN message[f.name] : message[f.name][i] # "huge")'
    BY <1>4 DEF Reads, IsAllValues, IsLastValue, Matching, ReadsIn, AllIn, LastIn, MatchingIn
  <2>2. phase' # "read" /\ 1 .. 0 = {}
    OBVIOUS
  <2> QED
    BY <1>1, <1>3, <2>1, <2>2 DEF DecodeIsExact
<1> QED
  BY <1>2, <1>5 DEF IInv

LEMMA EntriesAreTyped ==
  ASSUME NEW f, NEW values \in Seq(Vals), Tag(f) \in Int
  PROVE  Entries(f, values) \in Seq(Entry)
<1>1. DOMAIN values = 1 .. Len(values) /\ Len(values) \in Nat
  OBVIOUS
<1>2. \A i \in 1 .. Len(values) : [tag |-> Tag(f), val |-> values[i]] \in Entry
  BY DEF Entry
<1>3. Entries(f, values) = [i \in 1 .. Len(values) |-> [tag |-> Tag(f), val |-> values[i]]]
  BY <1>1 DEF Entries
<1>4. Entries(f, values) \in [1 .. Len(values) -> Entry]
  BY <1>2, <1>3
<1> QED
  BY <1>1, <1>4

\* What is written of what a body may have for a field.
LEMMA WrittenIsTyped ==
  ASSUME NEW f, f.repeated \in BOOLEAN, NEW values \in Values(f)
  PROVE  OnWire(f, values) \in Seq(Vals) /\ (values \notin Odd => values \in Seq(Vals))
<1> DEFINE E == Elements(f) \ {"huge"}
<1>1. E \subseteq Vals
  BY DEF Elements, Vals
<1>2. /\ <<>> \in Seq(Vals) /\ <<"converted">> \in Seq(Vals)
      /\ \A e \in Vals : <<e>> \in Seq(Vals)
      /\ \A e, d \in Vals : <<e, d>> \in Seq(Vals)
  BY DEF Vals
<1>3. \/ values \in Odd \/ values = <<>>
      \/ \E e \in E : values = <<e>>
      \/ \E e, d \in E : values = <<e, d>>
  BY DEF Values
<1> HIDE DEF E
<1>4. values \notin Odd => values \in Seq(Vals)
  BY <1>1, <1>2, <1>3
<1>5. \/ values \in Odd /\ OnWire(f, values) = <<"converted">>
      \/ values \notin Odd /\ OnWire(f, values) = <<>>
      \/ values \notin Odd /\ OnWire(f, values) = values
  BY DEF OnWire
<1> QED
  BY <1>2, <1>4, <1>5

LEMMA WriteSteps ==
  ASSUME IInv, NEW f \in Fields, WriteField(f) \/ WriteUnnamed(f) \/ Refuse(f)
  PROVE  IInv'
<1>1. Tag(f) \in Int /\ f.repeated \in BOOLEAN
  BY TagIsInt DEF IInv
<1>2. wire \in Seq(Entry) /\ at \in Nat \ {0}
  BY DEF IInv, WireInv
<1>3. <<>> \in Seq(Vals) /\ <<"zero">> \in Seq(Vals)
  BY DEF Vals
<1>4. wire' \in Seq(Entry)
  <2>1. CASE WriteField(f)
    <3>1. PICK values \in Values(f) : wire' = wire \o Entries(f, OnWire(f, values))
      BY <2>1 DEF WriteField
    <3>2. OnWire(f, values) \in Seq(Vals)
      BY <1>1, WrittenIsTyped
    <3>3. Entries(f, OnWire(f, values)) \in Seq(Entry)
      BY <1>1, <3>2, EntriesAreTyped
    <3> QED
      BY <1>2, <3>1, <3>3
  <2>2. CASE WriteUnnamed(f)
    <3>1. Entries(f, IF f.type \in Scalars THEN <<"zero">> ELSE <<>>) \in Seq(Entry)
      BY <1>1, <1>3, EntriesAreTyped
    <3> QED
      BY <1>2, <2>2, <3>1 DEF WriteUnnamed
  <2>3. CASE Refuse(f)
    BY <1>2, <2>3 DEF Refuse
  <2> QED
    BY <2>1, <2>2, <2>3
<1>5. /\ phase = "writing" /\ phase' \in {"writing", "refused"}
      /\ UNCHANGED <<fields, message>> /\ at' \in Nat \ {0}
  BY <1>2 DEF WriteField, WriteUnnamed, Refuse, Encoding
<1>6. WireInv'
  BY <1>4, <1>5 DEF WireInv
<1> QED
  BY <1>5, <1>6, WritingKeeps

LEMMA PeerStep ==
  ASSUME IInv, NEW tag \in Tags, NEW val \in Carried(tag), PeerWrites(tag, val)
  PROVE  IInv'
<1>1. tag \in Int
  BY TagIsInt DEF IInv, Tags, WireType
<1>2. val \in Vals
  <2>1. \A f : Elements(f) \subseteq Vals
    BY DEF Elements, Vals
  <2>2. "a" \in Vals
    BY DEF Vals
  <2> QED
    BY <2>1, <2>2 DEF Carried
<1>3. [tag |-> tag, val |-> val] \in Entry
  BY <1>1, <1>2 DEF Entry
<1>4. wire' \in Seq(Entry)
  BY <1>3 DEF PeerWrites, IInv, WireInv
<1>5. phase = "writing" /\ phase' = "writing" /\ UNCHANGED <<fields, message, at>>
  BY DEF PeerWrites
<1>6. WireInv'
  BY <1>4, <1>5 DEF IInv, WireInv
<1> QED
  BY <1>5, <1>6, WritingKeeps

LEMMA SendingStep ==
  ASSUME IInv, Sending
  PROVE  IInv'
<1>1. /\ phase = "writing" /\ phase' = "reading" /\ at' = 1
      /\ UNCHANGED <<fields, message, wire>>
  BY DEF Sending
<1>2. wire \in Seq(Entry) /\ Len(wire) \in Nat
  BY DEF IInv, WireInv
<1>3. WireInv'
  BY <1>1, <1>2 DEF WireInv
<1> QED
  BY <1>1, <1>3, WritingKeeps

\* One step of reading: every field reads right at the entries it has now,
\* and none of them ends the message.
LEMMA ReadingKeeps ==
  ASSUME IInv, UNCHANGED <<fields, wire>>, WireInv', MessageInv',
         \A i \in 1 .. EntriesRead' : ~Ends(wire[i].tag),
         phase' = "read" =>
           EntriesRead' = Len(wire) \/ Ends(wire[EntriesRead' + 1].tag),
         \A f \in Fields :
           /\ ReadsIn(wire, f, message'[f.name], EntriesRead')
           /\ \A i \in DOMAIN message'[f.name] : message'[f.name][i] # "huge"
  PROVE  IInv'
<1>1. Fields' = Fields
  BY DEF Fields
<1>2. FieldsInv'
  BY DEF IInv, FieldsInv
<1>3. ASSUME NEW f \in Fields
      PROVE  Reads(f, message[f.name], EntriesRead)'
  BY DEF Reads, IsAllValues, IsLastValue, Matching, ReadsIn, AllIn, LastIn, MatchingIn
<1>4. DecodeIsExact'
  BY <1>1, <1>3 DEF DecodeIsExact
<1> QED
  BY <1>2, <1>4 DEF IInv

LEMMA ReadSteps ==
  ASSUME IInv, NEW f \in Fields, ReadOne(f) \/ ReadMore(f)
  PROVE  IInv'
<1> DEFINE v == wire[at].val
           old == message[f.name]
           new == message'[f.name]
<1>1. /\ phase = "reading" /\ phase' = "reading" /\ at \in DOMAIN wire
      /\ wire[at].tag = Tag(f) /\ v # "huge" /\ at' = at + 1
      /\ UNCHANGED <<fields, wire>>
  BY DEF ReadOne, ReadMore, NextIs, Readable
<1>2. wire \in Seq(Entry) /\ at \in 1 .. Len(wire) /\ Len(wire) \in Nat
  BY <1>1 DEF IInv, WireInv
<1>3. v \in Vals
  <2>1. wire[at] \in Entry
    BY <1>2
  <2> QED
    BY <2>1 DEF Entry
<1>4. f.name \in Names /\ f.repeated \in BOOLEAN /\ old \in Seq(Vals)
  BY TagIsInt DEF IInv, MessageInv
<1>5. EntriesRead = at - 1 /\ EntriesRead' = at
  BY <1>1, <1>2 DEF EntriesRead
<1>6. /\ new = IF f.repeated THEN Append(old, v) ELSE <<v>>
      /\ message' = [message EXCEPT ![f.name] = new]
  BY <1>4 DEF ReadOne, ReadMore, IInv, MessageInv
<1>7. new \in Seq(Vals)
  BY <1>3, <1>4, <1>6
<1>8. WireInv'
  BY <1>1, <1>2 DEF WireInv
<1>9. MessageInv'
  <2>1. Names' = Names
    BY <1>1 DEF Names, Fields
  <2> QED
    BY <1>6, <1>7, <2>1 DEF IInv, MessageInv
<1>10. /\ ReadsIn(wire, f, old, at - 1)
       /\ \A i \in DOMAIN old : old[i] # "huge"
  BY <1>5, ReadsNow DEF IInv
<1>11. ReadsIn(wire, f, new, at)
  <2>1. CASE f.repeated
    <3>1. AllIn(wire, f, Append(old, v), at)
      BY <1>1, <1>2, <1>4, <1>10, <2>1, AllNext DEF ReadsIn
    <3> QED
      BY <1>6, <2>1, <3>1 DEF ReadsIn
  <2>2. CASE ~f.repeated
    BY <1>1, <1>2, <1>6, <2>2, LastNext DEF ReadsIn
  <2> QED
    BY <2>1, <2>2
<1>12. \A i \in DOMAIN new : new[i] # "huge"
  <2>1. CASE f.repeated
    <3>1. \A i \in DOMAIN new : new[i] = v \/ (i \in DOMAIN old /\ new[i] = old[i])
      BY <1>3, <1>4, <1>6, <2>1
    <3> QED
      BY <1>1, <1>10, <3>1
  <2>2. CASE ~f.repeated
    BY <1>1, <1>6, <2>2
  <2> QED
    BY <2>1, <2>2
<1>13. ASSUME NEW g \in Fields, g # f
       PROVE  /\ ReadsIn(wire, g, message'[g.name], at)
              /\ \A i \in DOMAIN message'[g.name] : message'[g.name][i] # "huge"
  <2>1. Tag(g) # Tag(f) /\ g.name # f.name /\ g.name \in Names
    BY <1>13, TagsDiffer, TagIsInt DEF IInv
  <2>2. message'[g.name] = message[g.name]
    BY <1>6, <2>1 DEF IInv, MessageInv
  <2>3. ReadsIn(wire, g, message[g.name], at)
    BY <1>1, <1>2, <1>5, <2>1, ReadsNow, OthersUnmoved DEF IInv
  <2> QED
    BY <2>2, <2>3, ReadsNow DEF IInv
<1>14. \A i \in 1 .. at : ~Ends(wire[i].tag)
  BY <1>1, <1>2, <1>5, TagsGoOn DEF IInv, DecodeIsExact
<1> QED
  BY <1>1, <1>5, <1>8, <1>9, <1>11, <1>12, <1>13, <1>14, ReadingKeeps

LEMMA SkipStep ==
  ASSUME IInv, Skip
  PROVE  IInv'
<1>1. /\ phase = "reading" /\ phase' = "reading" /\ at \in DOMAIN wire /\ at' = at + 1
      /\ UNCHANGED <<fields, wire, message>>
      /\ \A f \in Fields : wire[at].tag # Tag(f)
      /\ ~Ends(wire[at].tag)
  BY DEF Skip, NextIsOther
<1>2. wire \in Seq(Entry) /\ at \in 1 .. Len(wire) /\ Len(wire) \in Nat
  BY <1>1 DEF IInv, WireInv
<1>3. EntriesRead = at - 1 /\ EntriesRead' = at
  BY <1>1, <1>2 DEF EntriesRead
<1>4. WireInv' /\ MessageInv'
  BY <1>1, <1>2 DEF IInv, WireInv, MessageInv, Names, Fields
<1>5. ASSUME NEW f \in Fields
      PROVE  /\ ReadsIn(wire, f, message'[f.name], at)
             /\ \A i \in DOMAIN message'[f.name] : message'[f.name][i] # "huge"
  <2>1. ReadsIn(wire, f, message[f.name], at)
    BY <1>1, <1>2, <1>3, ReadsNow, OthersUnmoved DEF IInv
  <2> QED
    BY <1>1, <2>1, ReadsNow DEF IInv
<1>6. \A i \in 1 .. at : ~Ends(wire[i].tag)
  BY <1>1, <1>2, <1>3 DEF IInv, DecodeIsExact
<1> QED
  BY <1>1, <1>3, <1>4, <1>5, <1>6, ReadingKeeps

LEMMA EndSteps ==
  ASSUME IInv, End \/ Unskippable \/ \E f \in Fields : TooLarge(f)
  PROVE  IInv'
<1>1. /\ phase = "reading" /\ phase' \in {"read", "failed"}
      /\ UNCHANGED <<fields, wire, message, at>>
  BY DEF End, Unskippable, NextIsOther, TooLarge, NextIs
<1>2. EntriesRead' = EntriesRead /\ EntriesRead = at - 1
  BY <1>1 DEF EntriesRead
<1>3. WireInv' /\ MessageInv'
  BY <1>1 DEF IInv, WireInv, MessageInv, Names, Fields
<1>4. phase' = "read" => EntriesRead = Len(wire) \/ Ends(wire[EntriesRead + 1].tag)
  <2>1. phase' = "read" => at = Len(wire) + 1 \/ Ends(wire[at].tag)
    BY DEF End, Unskippable, NextIsOther, TooLarge
  <2>2. at \in Nat /\ Len(wire) \in Nat
    BY DEF IInv, WireInv
  <2>3. EntriesRead + 1 = at
    BY <1>2, <2>2
  <2> QED
    BY <1>2, <2>1, <2>2, <2>3
<1>5. \A i \in 1 .. EntriesRead : ~Ends(wire[i].tag)
  BY DEF IInv, DecodeIsExact
<1> QED
  BY <1>1, <1>2, <1>3, <1>4, <1>5, ReadsNow, ReadingKeeps DEF IInv

-----------------------------------------------------------------------------
LEMMA StepInv ==
  ASSUME IInv, [Next]_vars
  PROVE  IInv'
<1>1. CASE UNCHANGED vars
  <2>1. UNCHANGED <<fields, wire, message, at, phase>>
    BY <1>1 DEF vars
  <2>2. EntriesRead' = EntriesRead
    BY <2>1 DEF EntriesRead
  <2>3. WireInv' /\ MessageInv'
    BY <2>1 DEF IInv, WireInv, MessageInv, Names, Fields
  <2>4. /\ \A i \in 1 .. EntriesRead : ~Ends(wire[i].tag)
        /\ phase = "read" => EntriesRead = Len(wire) \/ Ends(wire[EntriesRead + 1].tag)
    BY DEF IInv, DecodeIsExact
  <2> QED
    BY <2>1, <2>2, <2>3, <2>4, ReadsNow, ReadingKeeps DEF IInv
<1>2. ASSUME NEW f \in Fields, WriteField(f) \/ WriteUnnamed(f) \/ Refuse(f)
      PROVE  IInv'
  BY <1>2, WriteSteps
<1>3. ASSUME NEW f \in Fields, ReadOne(f) \/ ReadMore(f)
      PROVE  IInv'
  BY <1>3, ReadSteps
<1>4. CASE End \/ Unskippable \/ \E f \in Fields : TooLarge(f)
  BY <1>4, EndSteps
<1>5. CASE Sending
  BY <1>5, SendingStep
<1>6. CASE Skip
  BY <1>6, SkipStep
<1>7. ASSUME NEW tag \in Tags, NEW val \in Carried(tag), PeerWrites(tag, val)
      PROVE  IInv'
  BY <1>7, PeerStep
<1> QED
  BY <1>1, <1>2, <1>3, <1>4, <1>5, <1>6, <1>7 DEF Next

-----------------------------------------------------------------------------
(***************************************************************************)
(* Requests.  Of the fields of a request encode writes one after another,  *)
(* so that the entries of each lie together on the wire.                   *)
(***************************************************************************)

\* The lists a body may have, which Values limits to two elements.
Short == {u \in Seq(Vals) : Len(u) <= 2}

\* The entries of f are those after the first s, and have the values u.
BlockIn(w, f, s, u) ==
  /\ s + Len(u) <= Len(w)
  /\ \A i \in DOMAIN w : (w[i].tag = Tag(f)) <=> (i \in (s + 1) .. (s + Len(u)))
  /\ \A j \in 1 .. Len(u) : w[s + j].val = u[j]

Amounts(f, u, value) ==
  IF f.repeated THEN value = u
  ELSE \/ u = <<>> /\ value = Default(f)
       \/ Len(u) = 1 /\ value = u

CarriesIn(w, f, value) ==
  \E s \in Nat, u \in Short : BlockIn(w, f, s, u) /\ Amounts(f, u, value)

\* The number of fields that encode is done with.
Written == IF phase \in {"writing", "refused"} THEN at - 1 ELSE Len(fields)

\* decode goes on after an entry with this tag.
Plain(tag) == ~Ends(tag) /\ tag % 8 \notin {6, 7}

\* Of a request, each of these is on the wire as the body has it, and of the
\* others there is nothing yet.
RequestInv ==
  sender = "frontend" =>
    /\ phase # "failed"
    /\ phase = "read" => at = Len(wire) + 1
    /\ \A i \in DOMAIN wire : wire[i].val # "huge" /\ Plain(wire[i].tag)
    /\ \A i \in DOMAIN fields :
         IF i <= Written
         THEN CarriesIn(wire, fields[i], Expected(body)[fields[i].name])
         ELSE /\ fields[i].name \notin DOMAIN body
              /\ \A j \in DOMAIN wire : wire[j].tag # Tag(fields[i])

LEMMA Concatenated ==
  ASSUME NEW w \in Seq(Entry), NEW es \in Seq(Entry)
  PROVE  /\ w \o es \in Seq(Entry) /\ Len(w \o es) = Len(w) + Len(es)
         /\ Len(w) \in Nat /\ Len(es) \in Nat
         /\ \A i \in 1 .. Len(w) : (w \o es)[i] = w[i]
         /\ \A i \in 1 .. Len(es) : (w \o es)[Len(w) + i] = es[i]
         /\ \A i \in DOMAIN (w \o es) :
              i \in 1 .. Len(w) \/ i - Len(w) \in 1 .. Len(es)
         /\ DOMAIN w = 1 .. Len(w) /\ DOMAIN (w \o es) = 1 .. Len(w) + Len(es)
OBVIOUS

\* What is written later, of other fields, leaves a block where it is.
LEMMA OthersKeep ==
  ASSUME NEW w \in Seq(Entry), NEW es \in Seq(Entry), NEW f, NEW value,
         \A i \in 1 .. Len(es) : es[i].tag # Tag(f),
         CarriesIn(w, f, value)
  PROVE  CarriesIn(w \o es, f, value)
<1>1. PICK s \in Nat, u \in Short : BlockIn(w, f, s, u) /\ Amounts(f, u, value)
  BY DEF CarriesIn
<1>2. Len(u) \in Nat
  BY DEF Short
<1> DEFINE l == w \o es
<1>3. /\ Len(w) \in Nat /\ Len(es) \in Nat /\ Len(l) = Len(w) + Len(es)
      /\ DOMAIN w = 1 .. Len(w) /\ DOMAIN l = 1 .. Len(w) + Len(es)
      /\ \A i \in 1 .. Len(w) : l[i] = w[i]
      /\ \A i \in 1 .. Len(es) : l[Len(w) + i] = es[i]
  BY Concatenated
<1> HIDE DEF l
<1>4. s + Len(u) <= Len(w)
  BY <1>1 DEF BlockIn
<1>5. ASSUME NEW i \in DOMAIN l
      PROVE  (l[i].tag = Tag(f)) <=> (i \in (s + 1) .. (s + Len(u)))
  <2>1. CASE i <= Len(w)
    <3>1. i \in DOMAIN w /\ l[i] = w[i]
      BY <1>3, <2>1
    <3> QED
      BY <1>1, <3>1 DEF BlockIn
  <2>2. CASE ~(i <= Len(w))
    <3> DEFINE k == i - Len(w)
    <3>1. k \in 1 .. Len(es) /\ i = Len(w) + k
      BY <1>3, <2>2
    <3>2. l[i] = es[k]
      BY <1>3, <3>1
    <3>3. i \notin (s + 1) .. (s + Len(u))
      BY <1>2, <1>3, <1>4, <2>2
    <3> QED
      BY <3>1, <3>2, <3>3
  <2> QED
    BY <2>1, <2>2
<1>6. ASSUME NEW j \in 1 .. Len(u)
      PROVE  l[s + j].val = u[j]
  <2>1. s + j \in 1 .. Len(w)
    BY <1>2, <1>3, <1>4
  <2> QED
    BY <1>1, <1>3, <2>1 DEF BlockIn
<1>7. BlockIn(l, f, s, u)
  BY <1>2, <1>3, <1>4, <1>5, <1>6 DEF BlockIn
<1> QED
  BY <1>1, <1>7 DEF CarriesIn, l

\* The entries of a field that had none.
LEMMA NewBlock ==
  ASSUME NEW w \in Seq(Entry), NEW f, Tag(f) \in Int, NEW u \in Short,
         \A i \in DOMAIN w : w[i].tag # Tag(f)
  PROVE  BlockIn(w \o Entries(f, u), f, Len(w), u)
<1> DEFINE es == Entries(f, u)
           l == w \o es
<1>1. u \in Seq(Vals) /\ Len(u) \in Nat /\ DOMAIN u = 1 .. Len(u)
  BY DEF Short
<1>2. es \in Seq(Entry)
  BY <1>1, EntriesAreTyped
<1>3. Len(es) = Len(u) /\ \A i \in 1 .. Len(u) : es[i].tag = Tag(f) /\ es[i].val = u[i]
  BY <1>1, <1>2 DEF Entries
<1> HIDE DEF es
<1>4. /\ Len(w) \in Nat /\ Len(l) = Len(w) + Len(u)
      /\ DOMAIN w = 1 .. Len(w) /\ DOMAIN l = 1 .. Len(w) + Len(u)
      /\ \A i \in 1 .. Len(w) : l[i] = w[i]
      /\ \A i \in 1 .. Len(u) : l[Len(w) + i] = es[i]
  <2>1. /\ Len(w) \in Nat /\ Len(l) = Len(w) + Len(es)
        /\ DOMAIN w = 1 .. Len(w) /\ DOMAIN l = 1 .. Len(w) + Len(es)
        /\ \A i \in 1 .. Len(w) : l[i] = w[i]
        /\ \A i \in 1 .. Len(es) : l[Len(w) + i] = es[i]
    BY <1>2, Concatenated
  <2> QED
    BY <1>3, <2>1
<1> HIDE DEF l
<1>5. ASSUME NEW i \in DOMAIN l
      PROVE  (l[i].tag = Tag(f)) <=> (i \in (Len(w) + 1) .. (Len(w) + Len(u)))
  <2>1. CASE i <= Len(w)
    <3>1. i \in DOMAIN w /\ l[i] = w[i]
      BY <1>4, <2>1
    <3> QED
      BY <1>1, <1>4, <2>1, <3>1
  <2>2. CASE ~(i <= Len(w))
    <3> DEFINE k == i - Len(w)
    <3>1. k \in 1 .. Len(u) /\ i = Len(w) + k
      BY <1>1, <1>4, <2>2
    <3>2. l[i] = es[k]
      BY <1>4, <3>1
    <3> QED
      BY <1>1, <1>3, <1>4, <3>1, <3>2
  <2> QED
    BY <2>1, <2>2
<1> QED
  BY <1>1, <1>3, <1>4, <1>5 DEF BlockIn, l, es

\* What is read of a wire is what it carries.
LEMMA CarriedIsRead ==
  ASSUME NEW w \in Seq(Entry), NEW f, f.repeated \in BOOLEAN,
         NEW value, NEW got \in Seq(Vals),
         CarriesIn(w, f, value), ReadsIn(w, f, got, Len(w))
  PROVE  got = value
<1> DEFINE M == MatchingIn(w, f, Len(w))
<1>1. PICK s \in Nat, u \in Short : BlockIn(w, f, s, u) /\ Amounts(f, u, value)
  BY DEF CarriesIn
<1>2. /\ u \in Seq(Vals) /\ Len(u) \in 0 .. 2 /\ DOMAIN u = 1 .. Len(u)
      /\ Len(w) \in Nat /\ DOMAIN w = 1 .. Len(w)
      /\ Len(got) \in Nat /\ DOMAIN got = 1 .. Len(got)
  <2>1. u \in Seq(Vals) /\ Len(u) <= 2
    BY DEF Short
  <2>2. Len(u) \in Nat /\ DOMAIN u = 1 .. Len(u)
    BY <2>1
  <2>3. Len(u) \in 0 .. 2
    BY <2>1, <2>2
  <2>4. /\ Len(w) \in Nat /\ DOMAIN w = 1 .. Len(w)
        /\ Len(got) \in Nat /\ DOMAIN got = 1 .. Len(got)
    OBVIOUS
  <2> QED
    BY <2>1, <2>2, <2>3, <2>4
<1>3. M = (s + 1) .. (s + Len(u)) /\ \A j \in 1 .. Len(u) : w[s + j].val = u[j]
  BY <1>1, <1>2 DEF BlockIn, MatchingIn
<1>4. CASE ~f.repeated
  <2>1. LastIn(w, f, got, Len(w))
    BY <1>4 DEF ReadsIn
  <2>2. CASE u = <<>> /\ value = Default(f)
    <3>1. M = {}
      BY <1>2, <1>3, <2>2
    <3> QED
      BY <2>1, <2>2, <3>1 DEF LastIn
  <2>3. CASE Len(u) = 1 /\ value = u
    <3>1. M = {s + 1} /\ w[s + 1].val = u[1]
      BY <1>3, <2>3
    <3>2. got = <<u[1]>>
      BY <2>1, <3>1 DEF LastIn
    <3>3. u = <<u[1]>>
      BY <1>2, <2>3
    <3> QED
      BY <2>3, <3>2, <3>3
  <2> QED
    BY <1>1, <1>4, <2>2, <2>3 DEF Amounts
<1>5. CASE f.repeated
  <2> DEFINE n == Len(got)
  <2>1. value = u
    BY <1>1, <1>5 DEF Amounts
  <2>2. AllIn(w, f, got, Len(w))
    BY <1>5 DEF ReadsIn
  <2>3. PICK place \in [DOMAIN got -> M] :
          /\ \A i \in M : \E j \in DOMAIN got : place[j] = i
          /\ \A j, l \in DOMAIN got : j < l => place[j] < place[l]
          /\ \A j \in DOMAIN got : got[j] = w[place[j]].val
    BY <2>2 DEF AllIn
  <2> HIDE DEF M
  <2>4. /\ place \in [1 .. n -> M]
        /\ \A i \in M : \E j \in 1 .. n : place[j] = i
        /\ \A j, l \in 1 .. n : j < l => place[j] < place[l]
        /\ \A j \in 1 .. n : got[j] = w[place[j]].val
    BY <1>2, <2>3
  <2> HIDE DEF n
  <2>5. n \in Nat /\ n = Len(got)
    BY <1>2 DEF n
  <2>6. CASE Len(u) = 0
    <3>1. M = {}
      BY <1>3, <2>6
    <3>2. n = 0
      <4>1. 1 \notin 1 .. n
        BY <2>4, <3>1
      <4> QED
        BY <2>5, <4>1
    <3> QED
      BY <1>2, <2>1, <2>5, <2>6, <3>2
  <2>7. CASE Len(u) = 1
    <3>1. M = {s + 1} /\ w[s + 1].val = u[1]
      BY <1>3, <2>7
    <3>2. \A j \in 1 .. n : place[j] = s + 1
      BY <2>4, <3>1
    <3>3. n = 1
      <4>1. PICK j \in 1 .. n : place[j] = s + 1
        BY <2>4, <3>1
      <4>2. ~(1 \in 1 .. n /\ 2 \in 1 .. n)
        <5> SUFFICES ASSUME 1 \in 1 .. n, 2 \in 1 .. n PROVE FALSE
          OBVIOUS
        <5>1. place[1] = s + 1 /\ place[2] = s + 1 /\ place[1] < place[2]
          BY <2>4, <3>2
        <5> QED
          BY <5>1
      <4> QED
        BY <2>5, <4>1, <4>2
    <3>4. got[1] = u[1]
      <4>1. place[1] = s + 1 /\ got[1] = w[place[1]].val
        BY <2>4, <3>2, <3>3
      <4> QED
        BY <3>1, <4>1
    <3> QED
      BY <1>2, <2>1, <2>5, <2>7, <3>3, <3>4
  <2>8. CASE Len(u) = 2
    <3>1. M = {s + 1, s + 2}
      <4>1. (s + 1) .. (s + 2) = {s + 1, s + 2}
        OBVIOUS
      <4> QED
        BY <1>3, <2>8, <4>1
    <3> 1 \in 1 .. Len(u) /\ 2 \in 1 .. Len(u)
      BY <2>8
    <3>2. w[s + 1].val = u[1] /\ w[s + 2].val = u[2]
      BY <1>3
    <3>3. \A j \in 1 .. n : place[j] \in {s + 1, s + 2}
      BY <2>4, <3>1
    <3>4. n <= 2
      <4> SUFFICES ASSUME 3 <= n PROVE FALSE
        BY <2>5
      <4>1. 1 \in 1 .. n /\ 2 \in 1 .. n /\ 3 \in 1 .. n
        BY <2>5
      <4>2. place[1] < place[2] /\ place[2] < place[3]
        BY <2>4, <4>1
      <4>3. /\ place[1] \in {s + 1, s + 2} /\ place[2] \in {s + 1, s + 2}
            /\ place[3] \in {s + 1, s + 2}
        BY <3>3, <4>1
      <4> QED
        BY <4>2, <4>3
    <3>5. PICK j \in 1 .. n : place[j] = s + 1
      BY <2>4, <3>1
    <3>6. PICK l \in 1 .. n : place[l] = s + 2
      BY <2>4, <3>1
    <3>7. j # l
      BY <3>5, <3>6
    <3>8. j < l
      <4>1. ~(l < j)
        BY <2>4, <3>5, <3>6
      <4> QED
        BY <2>5, <3>7, <4>1
    <3>9. n = 2 /\ j = 1 /\ l = 2
      BY <2>5, <3>4, <3>8
    <3>10. got[1] = u[1] /\ got[2] = u[2]
      <4>1. got[1] = w[place[1]].val /\ got[2] = w[place[2]].val
        BY <2>4, <3>9
      <4> QED
        BY <3>2, <3>5, <3>6, <3>9, <4>1
    <3> QED
      BY <1>2, <2>1, <2>5, <2>8, <3>9, <3>10
  <2> QED
    BY <1>2, <2>6, <2>7, <2>8
<1> QED
  BY <1>4, <1>5

-----------------------------------------------------------------------------
(* A request while it is written, and while it is read. *)

LEMMA RequestInitially ==
  ASSUME Init, IInv
  PROVE  RequestInv
<1>1. wire = <<>> /\ body = <<>> /\ at = 1 /\ phase = "writing"
  BY DEF Init
<1>2. \A i \in DOMAIN fields : i \in Nat \ {0}
  BY DEF IInv, FieldsInv, MessageOK
<1>3. DOMAIN wire = {} /\ DOMAIN body = {} /\ Written = 0
  BY <1>1 DEF Written
<1> QED
  BY <1>1, <1>2, <1>3 DEF RequestInv

\* encode is done with field f: it has written u, and has left what the body
\* has for the other fields as it was.
LEMMA WriteKeeps ==
  ASSUME IInv, RequestInv, NEW f \in Fields, Encoding(f), NEW u \in Short,
         \A j \in 1 .. Len(u) : u[j] # "huge",
         wire' = wire \o Entries(f, u), at' = at + 1,
         UNCHANGED <<fields, sender, phase>>,
         Amounts(f, u, Expected(body')[f.name]),
         \A n \in Names \ {f.name} :
           /\ n \in DOMAIN body' => n \in DOMAIN body
           /\ Expected(body')[n] = Expected(body)[n]
  PROVE  RequestInv'
<1> DEFINE es == Entries(f, u)
           m == at
<1>1. /\ phase = "writing" /\ sender = "frontend" /\ m \in DOMAIN fields /\ f = fields[m]
      /\ m \in Nat \ {0}
  BY DEF Encoding, IInv, WireInv
<1>2. /\ FieldsInv /\ wire \in Seq(Entry) /\ Tag(f) \in Int /\ f.repeated \in BOOLEAN
      /\ Plain(Tag(f))
  BY TagIsInt, TagsGoOn DEF IInv, WireInv, Plain
<1>3. u \in Seq(Vals) /\ Len(u) \in Nat /\ DOMAIN u = 1 .. Len(u)
  BY DEF Short
<1>4. es \in Seq(Entry) /\ Len(es) = Len(u)
  <2>1. es \in Seq(Entry)
    BY <1>2, <1>3, EntriesAreTyped
  <2> QED
    BY <1>3, <2>1 DEF Entries
<1>5. \A i \in 1 .. Len(es) : es[i].tag = Tag(f) /\ es[i].val = u[i]
  BY <1>3, <1>4 DEF Entries
<1> HIDE DEF es
<1>6. Written = m - 1 /\ Written' = m
  BY <1>1 DEF Written
<1>7. \A i \in DOMAIN wire :
        wire[i].tag # Tag(f) /\ wire[i].val # "huge" /\ Plain(wire[i].tag)
  <2>1. ~(m <= m - 1)
    BY <1>1
  <2> QED
    BY <1>1, <1>6, <2>1 DEF RequestInv
<1>8. \A i \in DOMAIN wire' : \/ i \in DOMAIN wire /\ wire'[i] = wire[i]
                              \/ \E j \in 1 .. Len(es) : wire'[i] = es[j]
  <2>1. wire' = wire \o es
    BY DEF es
  <2>2. TAKE i \in DOMAIN wire'
  <2>3. \/ i \in 1 .. Len(wire) /\ wire'[i] = wire[i]
        \/ i - Len(wire) \in 1 .. Len(es) /\ wire'[i] = es[i - Len(wire)]
    BY <1>2, <1>4, <2>1, <2>2
  <2> QED
    BY <1>2, <2>3
<1>9. \A j \in 1 .. Len(es) : es[j].val # "huge" /\ es[j].tag = Tag(f)
  BY <1>4, <1>5
<1>10. \A i \in DOMAIN wire' : wire'[i].val # "huge" /\ Plain(wire'[i].tag)
  BY <1>2, <1>7, <1>8, <1>9
<1>11. ASSUME NEW i \in DOMAIN fields
       PROVE  IF i <= m
              THEN CarriesIn(wire', fields[i], Expected(body')[fields[i].name])
              ELSE /\ fields[i].name \notin DOMAIN body'
                   /\ \A j \in DOMAIN wire' : wire'[j].tag # Tag(fields[i])
  <2> DEFINE g == fields[i]
  <2>1. g \in Fields /\ i \in Nat
    BY <1>2 DEF Fields, FieldsInv, MessageOK
  <2>2. CASE i = m
    <3>1. BlockIn(wire', f, Len(wire), u)
      BY <1>2, <1>7, NewBlock
    <3>2. Len(wire) \in Nat
      BY <1>2
    <3>3. CarriesIn(wire', f, Expected(body')[f.name])
      BY <3>1, <3>2 DEF CarriesIn
    <3> QED
      BY <1>1, <2>2, <3>3
  <2>3. CASE i # m
    <3>1. g # f
      BY <1>1, <1>2, <2>3 DEF FieldsInv, MessageOK
    <3>2. Tag(g) # Tag(f) /\ g.name # f.name /\ g.name \in Names
      BY <1>2, <2>1, <3>1, TagsDiffer, TagIsInt
    <3>3. Expected(body')[g.name] = Expected(body)[g.name]
          /\ (g.name \in DOMAIN body' => g.name \in DOMAIN body)
      BY <3>2
    <3>4. IF i <= m - 1
          THEN CarriesIn(wire, g, Expected(body)[g.name])
          ELSE /\ g.name \notin DOMAIN body
               /\ \A j \in DOMAIN wire : wire[j].tag # Tag(g)
      BY <1>1, <1>6 DEF RequestInv
    <3> HIDE DEF g
    <3>5. CASE i <= m
      <4>1. i <= m - 1
        BY <1>1, <2>1, <2>3, <3>5
      <4>2. CarriesIn(wire, g, Expected(body)[g.name])
        BY <3>4, <4>1
      <4>3. \A j \in 1 .. Len(es) : es[j].tag # Tag(g)
        BY <1>4, <1>5, <3>2
      <4>4. CarriesIn(wire \o es, g, Expected(body)[g.name])
        BY <1>2, <1>4, <4>2, <4>3, OthersKeep
      <4> QED
        BY <3>3, <3>5, <4>4 DEF es, g
    <3>6. CASE ~(i <= m)
      <4>1. ~(i <= m - 1)
        BY <1>1, <2>1, <3>6
      <4>2. \A j \in DOMAIN wire' : wire'[j].tag # Tag(g)
        BY <1>8, <1>9, <3>2, <3>4, <4>1
      <4> QED
        BY <3>3, <3>4, <3>6, <4>1, <4>2 DEF g
    <3> QED
      BY <3>5, <3>6
  <2> QED
    BY <2>2, <2>3
<1> HIDE DEF m
<1>12. Expected(body)' = Expected(body')
  BY DEF Expected, FromPartial, Base, Names, Fields
<1>13. RequestInv' =
         (sender' = "frontend" =>
            /\ phase' # "failed"
            /\ phase' = "read" => at' = Len(wire') + 1
            /\ \A i \in DOMAIN wire' : wire'[i].val # "huge" /\ Plain(wire'[i].tag)
            /\ \A i \in DOMAIN fields' :
                 IF i <= Written'
                 THEN CarriesIn(wire', fields'[i], Expected(body)'[fields'[i].name])
                 ELSE /\ fields'[i].name \notin DOMAIN body'
                      /\ \A j \in DOMAIN wire' : wire'[j].tag # Tag(fields'[i]))
  BY DEF RequestInv
<1> QED
  BY <1>1, <1>6, <1>10, <1>11, <1>12, <1>13

\* What a body may have for a field, what is written of it, and what that
\* amounts to.
Taken(values) == IF values \in Odd THEN <<"converted">> ELSE values

LEMMA WrittenIsTaken ==
  ASSUME NEW f, f.repeated \in BOOLEAN, NEW values \in Values(f)
  PROVE  /\ OnWire(f, values) \in Short
         /\ \A j \in 1 .. Len(OnWire(f, values)) : OnWire(f, values)[j] # "huge"
         /\ Amounts(f, OnWire(f, values), Taken(values))
<1> DEFINE E == Elements(f) \ {"huge"}
           u == OnWire(f, values)
<1>1. \A e \in E : e # "huge" /\ e \in Vals
  BY DEF Elements, Vals
<1>2. "zero" \in E => f.type \in Scalars
  BY DEF Elements
<1>3. \/ values \in Odd
      \/ values \notin Odd /\ values = <<>> /\ (f.repeated \/ f.type \notin Scalars)
      \/ values \notin Odd /\ \E e \in E : values = <<e>>
      \/ values \notin Odd /\ f.repeated /\ \E e, d \in E : values = <<e, d>>
  BY DEF Values
<1> HIDE DEF E
<1>4. /\ <<>> \in Short /\ Len(<<>>) = 0
      /\ \A e \in Vals : <<e>> \in Short /\ Len(<<e>>) = 1 /\ <<e>>[1] = e
      /\ \A e, d \in Vals : /\ <<e, d>> \in Short /\ Len(<<e, d>>) = 2
                            /\ <<e, d>>[1] = e /\ <<e, d>>[2] = d
  BY DEF Short
<1>5. CASE values \in Odd
  <2>1. u = <<"converted">> /\ Taken(values) = <<"converted">>
    BY <1>5 DEF OnWire, Taken
  <2>2. "converted" \in Vals /\ "converted" # "huge"
    BY DEF Vals
  <2>3. /\ u \in Short /\ Len(u) = 1 /\ u[1] # "huge"
        /\ \A j \in 1 .. Len(u) : j = 1
    BY <1>4, <2>1, <2>2
  <2> HIDE DEF u
  <2>4. Amounts(f, u, Taken(values))
    BY <2>1, <2>3 DEF Amounts
  <2> QED
    BY <2>3, <2>4 DEF u
<1>6. CASE values \notin Odd /\ values = <<>> /\ (f.repeated \/ f.type \notin Scalars)
  <2>1. <<>> # <<"zero">>
    OBVIOUS
  <2>2. u = <<>> /\ Taken(values) = <<>> /\ Default(f) = <<>>
    BY <1>6, <2>1 DEF OnWire, Taken, Default
  <2> HIDE DEF u
  <2>3. Amounts(f, u, Taken(values))
    BY <2>2 DEF Amounts
  <2>4. \A j \in 1 .. Len(u) : FALSE
    BY <1>4, <2>2
  <2> QED
    BY <1>4, <2>2, <2>3, <2>4 DEF u
<1>7. ASSUME values \notin Odd, NEW e \in E, values = <<e>>
      PROVE  u \in Short /\ (\A j \in 1 .. Len(u) : u[j] # "huge") /\ Amounts(f, u, Taken(values))
  <2>1. Taken(values) = values
    BY <1>7 DEF Taken
  <2>2. CASE ~f.repeated /\ values = <<"zero">>
    <3>1. e = "zero"
      BY <1>7, <2>2
    <3>2. u = <<>> /\ Default(f) = <<"zero">>
      BY <1>2, <1>7, <2>2, <3>1 DEF OnWire, Default
    <3> HIDE DEF u
    <3>3. \A j \in 1 .. Len(u) : FALSE
      BY <1>4, <3>2
    <3> QED
      BY <1>4, <2>1, <2>2, <3>2, <3>3 DEF Amounts
  <2>3. CASE ~(~f.repeated /\ values = <<"zero">>)
    <3>1. u = values
      BY <1>7, <2>3 DEF OnWire
    <3> HIDE DEF u
    <3>2. u \in Short /\ Len(u) = 1 /\ u[1] # "huge"
      BY <1>1, <1>4, <1>7, <3>1
    <3>3. \A j \in 1 .. Len(u) : j = 1
      BY <3>2
    <3> QED
      BY <2>1, <3>1, <3>2, <3>3 DEF Amounts
  <2> QED
    BY <2>2, <2>3
<1>8. ASSUME values \notin Odd, f.repeated, NEW e \in E, NEW d \in E, values = <<e, d>>
      PROVE  u \in Short /\ (\A j \in 1 .. Len(u) : u[j] # "huge") /\ Amounts(f, u, Taken(values))
  <2>1. u = values /\ Taken(values) = values
    BY <1>8 DEF OnWire, Taken
  <2> HIDE DEF u
  <2>2. u \in Short /\ Len(u) = 2 /\ u[1] # "huge" /\ u[2] # "huge"
    BY <1>1, <1>4, <1>8, <2>1
  <2>3. \A j \in 1 .. Len(u) : j = 1 \/ j = 2
    BY <2>2
  <2> QED
    BY <1>8, <2>1, <2>2, <2>3 DEF Amounts
<1> QED
  BY <1>3, <1>5, <1>6, <1>7, <1>8

LEMMA WriteFieldKeeps ==
  ASSUME IInv, RequestInv, NEW f \in Fields, WriteField(f)
  PROVE  RequestInv'
<1>1. PICK values \in Values(f) :
        /\ body' = [n \in DOMAIN body \cup {f.name} |->
                      IF n = f.name THEN values ELSE body[n]]
        /\ wire' = wire \o Entries(f, OnWire(f, values))
  BY DEF WriteField, Named
<1> DEFINE u == OnWire(f, values)
<1>2. /\ Encoding(f) /\ at' = at + 1 /\ UNCHANGED <<fields, sender, phase>>
      /\ f.repeated \in BOOLEAN /\ f.name \in Names
  BY TagIsInt DEF WriteField, IInv
<1>3. f.name \notin DOMAIN body
  <2>1. at \in DOMAIN fields /\ at \in Nat \ {0} /\ f = fields[at]
    BY <1>2 DEF Encoding, IInv, WireInv
  <2>2. Written = at - 1 /\ sender = "frontend"
    BY <1>2 DEF Encoding, Written
  <2> QED
    BY <2>1, <2>2 DEF RequestInv
<1>4. /\ DOMAIN body' = DOMAIN body \cup {f.name}
      /\ body'[f.name] = values
      /\ \A n \in DOMAIN body : body'[n] = body[n]
  BY <1>1, <1>3
<1>5. Expected(body')[f.name] = Taken(values)
  BY <1>2, <1>4 DEF Expected, FromPartial, Taken, Odd
<1>6. \A n \in Names \ {f.name} :
        /\ n \in DOMAIN body' => n \in DOMAIN body
        /\ Expected(body')[n] = Expected(body)[n]
  <2> SUFFICES ASSUME NEW n \in Names \ {f.name}
               PROVE  /\ n \in DOMAIN body' => n \in DOMAIN body
                      /\ Expected(body')[n] = Expected(body)[n]
    OBVIOUS
  <2>1. n \in DOMAIN body' <=> n \in DOMAIN body
    BY <1>4
  <2>2. n \in DOMAIN body => body'[n] = body[n]
    BY <1>4
  <2> QED
    BY <2>1, <2>2 DEF Expected, FromPartial
<1>7. u \in Short /\ (\A j \in 1 .. Len(u) : u[j] # "huge") /\ Amounts(f, u, Taken(values))
  BY <1>2, WrittenIsTaken
<1>8. wire' = wire \o Entries(f, u)
  BY <1>1
<1> HIDE DEF u
<1> QED
  BY <1>2, <1>5, <1>6, <1>7, <1>8, WriteKeeps

LEMMA WriteUnnamedKeeps ==
  ASSUME IInv, RequestInv, NEW f \in Fields, WriteUnnamed(f)
  PROVE  RequestInv'
<1> DEFINE u == IF f.type \in Scalars THEN <<"zero">> ELSE <<>>
<1>1. /\ Encoding(f) /\ at' = at + 1 /\ UNCHANGED <<fields, sender, phase, body>>
      /\ wire' = wire \o Entries(f, u) /\ ~f.repeated
      /\ f.name \in Names
  BY TagIsInt DEF WriteUnnamed, IInv
<1>2. f.name \notin DOMAIN body
  <2>1. at \in DOMAIN fields /\ at \in Nat \ {0} /\ f = fields[at]
    BY <1>1 DEF Encoding, IInv, WireInv
  <2>2. Written = at - 1 /\ sender = "frontend"
    BY <1>1 DEF Encoding, Written
  <2> QED
    BY <2>1, <2>2 DEF RequestInv
<1>3. Expected(body)[f.name] = Default(f)
  BY <1>1, <1>2, BaseIsDefault DEF Expected, FromPartial, IInv
<1>4. CASE f.type \in Scalars
  <2>1. u = <<"zero">> /\ Default(f) = <<"zero">>
    BY <1>1, <1>4 DEF Default
  <2>2. u \in Short /\ Len(u) = 1 /\ u[1] = "zero"
    BY <2>1 DEF Short, Vals
  <2>3. Amounts(f, u, Expected(body')[f.name])
    BY <1>1, <1>3, <2>1, <2>2 DEF Amounts
  <2> HIDE DEF u
  <2> QED
    BY <1>1, <2>2, <2>3, WriteKeeps
<1>5. CASE f.type \notin Scalars
  <2>1. u = <<>> /\ Default(f) = <<>>
    BY <1>5 DEF Default
  <2>2. u \in Short /\ Len(u) = 0
    BY <2>1 DEF Short
  <2>3. Amounts(f, u, Expected(body')[f.name])
    BY <1>1, <1>3, <2>1 DEF Amounts
  <2> HIDE DEF u
  <2> QED
    BY <1>1, <2>2, <2>3, WriteKeeps
<1> QED
  BY <1>4, <1>5

\* Whatever writes nothing leaves it as it is.
LEMMA WrittenStays ==
  ASSUME RequestInv, UNCHANGED <<fields, sender, body, wire>>,
         sender = "frontend" =>
           Written' = Written /\ phase' # "failed" /\ (phase' = "read" => at' = Len(wire) + 1)
  PROVE  RequestInv'
<1>1. Expected(body)' = Expected(body)
  BY DEF Expected, FromPartial, Base, Names, Fields
<1>2. RequestInv' =
        (sender' = "frontend" =>
           /\ phase' # "failed"
           /\ phase' = "read" => at' = Len(wire') + 1
           /\ \A i \in DOMAIN wire' : wire'[i].val # "huge" /\ Plain(wire'[i].tag)
           /\ \A i \in DOMAIN fields' :
                IF i <= Written'
                THEN CarriesIn(wire', fields'[i], Expected(body)'[fields'[i].name])
                ELSE /\ fields'[i].name \notin DOMAIN body'
                     /\ \A j \in DOMAIN wire' : wire'[j].tag # Tag(fields'[i]))
  BY DEF RequestInv
<1> QED
  BY <1>1, <1>2 DEF RequestInv

LEMMA RequestStep ==
  ASSUME IInv, RequestInv, [Next]_vars
  PROVE  RequestInv'
<1>1. at \in Nat \ {0} /\ Len(fields) \in Nat
  BY DEF IInv, WireInv, FieldsInv, MessageOK
<1>2. ASSUME NEW f \in Fields, WriteField(f) \/ WriteUnnamed(f) PROVE RequestInv'
  BY <1>2, WriteFieldKeeps, WriteUnnamedKeeps
<1>3. ASSUME NEW f \in Fields, Refuse(f) PROVE RequestInv'
  BY <1>3, WrittenStays DEF Refuse, Encoding, Written
<1>4. ASSUME NEW f \in Fields, ReadOne(f) \/ ReadMore(f) PROVE RequestInv'
  BY <1>4, WrittenStays DEF ReadOne, ReadMore, NextIs, Written
<1>5. ASSUME NEW f \in Fields, TooLarge(f) PROVE RequestInv'
  <2>1. phase = "reading" /\ at \in DOMAIN wire /\ wire[at].val = "huge"
        /\ UNCHANGED <<fields, sender, body, wire>>
    BY <1>5 DEF TooLarge, NextIs, Readable
  <2>2. sender # "frontend"
    BY <2>1 DEF RequestInv
  <2> QED
    BY <2>1, <2>2, WrittenStays
<1>6. CASE Sending
  <2>1. /\ phase = "writing" /\ phase' = "reading" /\ UNCHANGED <<fields, sender, body, wire>>
        /\ sender = "frontend" => at = Len(fields) + 1
    BY <1>6 DEF Sending
  <2>2. sender = "frontend" => Written' = Written
    BY <1>1, <2>1 DEF Written
  <2> QED
    BY <2>1, <2>2, WrittenStays
<1>7. CASE Skip
  BY <1>7, WrittenStays DEF Skip, NextIsOther, Written
<1>8. CASE Unskippable \/ End
  <2>1. /\ phase = "reading" /\ UNCHANGED <<fields, sender, body, wire, at>>
        /\ \/ phase' = "failed" /\ at \in DOMAIN wire /\ wire[at].tag % 8 \in {6, 7}
           \/ phase' = "read" /\ at = Len(wire) + 1
           \/ phase' = "read" /\ at \in DOMAIN wire /\ Ends(wire[at].tag)
    BY <1>8 DEF Unskippable, End, NextIsOther
  <2>2. sender = "frontend" => phase' = "read" /\ at = Len(wire) + 1
    BY <2>1 DEF RequestInv, Plain
  <2> QED
    BY <2>1, <2>2, WrittenStays DEF Written
<1>9. ASSUME NEW tag, NEW val, PeerWrites(tag, val) PROVE RequestInv'
  BY <1>9 DEF PeerWrites, RequestInv
<1>10. CASE UNCHANGED vars
  BY <1>10, WrittenStays DEF vars, Written, RequestInv
<1> QED
  BY <1>2, <1>3, <1>4, <1>5, <1>6, <1>7, <1>8, <1>9, <1>10 DEF Next

\* What has been read of all that was written is what was to be sent.
LEMMA Arrival ==
  ASSUME IInv, RequestInv
  PROVE  RequestArrives
<1> SUFFICES ASSUME sender = "frontend", phase = "read"
             PROVE  message = Expected(body)
  BY DEF RequestArrives, RequestInv
<1>1. FieldsInv /\ wire \in Seq(Entry) /\ message \in [Names -> Seq(Vals)]
  BY DEF IInv, WireInv, MessageInv
<1>2. EntriesRead = Len(wire) /\ Written = Len(fields)
  BY <1>1 DEF RequestInv, EntriesRead, Written
<1>3. ASSUME NEW n \in Names
      PROVE  message[n] = Expected(body)[n]
  <2>1. PICK i \in DOMAIN fields : fields[i].name = n
    BY DEF Names, Fields
  <2> DEFINE f == fields[i]
  <2>2. f \in Fields /\ i <= Len(fields)
    BY <1>1 DEF Fields, FieldsInv, MessageOK
  <2>3. CarriesIn(wire, f, Expected(body)[n])
    BY <1>2, <2>1, <2>2 DEF RequestInv
  <2>4. ReadsIn(wire, f, message[n], Len(wire))
    BY <1>2, <2>1, <2>2, ReadsNow DEF IInv
  <2>5. message[n] \in Seq(Vals) /\ f.repeated \in BOOLEAN
    BY <1>1, <2>2, TagIsInt
  <2> HIDE DEF f
  <2> QED
    BY <1>1, <2>3, <2>4, <2>5, CarriedIsRead
<1> QED
  BY <1>1, <1>3 DEF Expected, FromPartial

-----------------------------------------------------------------------------
(* JSON.  A name that toJSON has written is that of a field whose value is *)
(* not the default, has the kind of the field, and fromJSON looks for it   *)
(* under both spellings.                                                   *)

\* The field that has a name.
LEMMA FieldOfName ==
  ASSUME FieldsInv, NEW f \in Fields
  PROVE  (CHOOSE g \in Fields : g.name = f.name) = f
<1>1. \A g \in Fields : g.name = f.name => g = f
  BY TagsDiffer
<1> QED
  BY <1>1

LEMMA ElementReturns ==
  ASSUME NEW f, NEW e \in Vals
  PROVE  Coerced(f, InJSON(f, e)) = e
BY DEF Coerced, InJSON, Rounded, Vals

Elems(f) == [i \in DOMAIN message[f.name] |-> InJSON(f, message[f.name][i])]

LEMMA WhatIsJSON ==
  ASSUME FieldsInv, message \in [Names -> Seq(Vals)], NEW f \in Fields
  PROVE  /\ f.name \in DOMAIN ToJSON(message) <=> message[f.name] # Default(f)
         /\ f.name \in DOMAIN ToJSON(message) =>
              ToJSON(message)[f.name] =
                IF f.repeated THEN [kind |-> "array", of |-> Elems(f)] ELSE Elems(f)[1]
<1> DEFINE kept == {g.name : g \in {h \in Fields : message[h.name] # Default(h)}}
<1>1. f.name \in kept <=> message[f.name] # Default(f)
  BY TagsDiffer
<1>2. (CHOOSE g \in Fields : g.name = f.name) = f
  BY FieldOfName
<1>3. DOMAIN ToJSON(message) = kept
  BY DEF ToJSON
<1>4. f.name \in kept =>
        ToJSON(message)[f.name] =
          LET g == CHOOSE h \in Fields : h.name = f.name
              elements == [i \in DOMAIN message[f.name] |-> InJSON(g, message[f.name][i])]
          IN  IF g.repeated THEN [kind |-> "array", of |-> elements] ELSE elements[1]
  BY DEF ToJSON
<1> HIDE DEF kept
<1> QED
  BY <1>1, <1>2, <1>3, <1>4 DEF Elems

\* A field that is no list has one element, or none, which is its default.
OneEach ==
  \A f \in Fields : ~f.repeated => message[f.name] = Default(f) \/ Len(message[f.name]) = 1

LEMMA OneEachHolds ==
  ASSUME IInv
  PROVE  OneEach
<1> SUFFICES ASSUME NEW f \in Fields, ~f.repeated
             PROVE  message[f.name] = Default(f) \/ Len(message[f.name]) = 1
  BY DEF OneEach
<1>1. IsLastValue(f, message[f.name], EntriesRead)
  BY DEF IInv, DecodeIsExact, Reads
<1> QED
  BY <1>1 DEF IsLastValue

LEMMA FieldReturns ==
  ASSUME IInv, NEW S \in SUBSET Names, NEW f \in Fields
  PROVE  FromJSON(Respelled(ToJSON(message), S))[f.name] = message[f.name]
<1> DEFINE json == ToJSON(message)
           object == Respelled(json, S)
           value == message[f.name]
           elements == Elems(f)
<1>1. /\ FieldsInv /\ message \in [Names -> Seq(Vals)]
      /\ f.name \in Names /\ f.repeated \in BOOLEAN /\ value \in Seq(Vals)
  BY TagIsInt DEF IInv, MessageInv
<1>2. FromJSON(object)[f.name] = IF IsSet(f, object.camel) THEN Content(f, object.camel[f.name])
                                 ELSE IF IsSet(f, object.snake) THEN Content(f, object.snake[f.name])
                                 ELSE Default(f)
  <2>1. (CHOOSE g \in Fields : g.name = f.name) = f
    BY <1>1, FieldOfName
  <2> HIDE DEF object
  <2> QED
    BY <1>1, <2>1 DEF FromJSON
<1>3. /\ f.name \in DOMAIN json <=> value # Default(f)
      /\ f.name \in DOMAIN json =>
           json[f.name] = IF f.repeated THEN [kind |-> "array", of |-> elements] ELSE elements[1]
  BY <1>1, WhatIsJSON
<1>4. /\ object.camel = [n \in DOMAIN json \ S |-> json[n]]
      /\ object.snake = [n \in DOMAIN json \cap S |-> json[n]]
  BY DEF Respelled
<1> HIDE DEF json, object
<1>5. CASE f.name \notin DOMAIN json
  <2>1. ~IsSet(f, object.camel) /\ ~IsSet(f, object.snake)
    BY <1>4, <1>5 DEF IsSet
  <2> QED
    BY <1>2, <1>3, <1>5, <2>1 DEF object, json
<1>6. CASE f.name \in DOMAIN json
  <2>1. /\ DOMAIN value = 1 .. Len(value) /\ Len(value) \in Nat
        /\ \A i \in DOMAIN value : value[i] \in Vals
    BY <1>1
  <2>2. Content(f, json[f.name]) = value /\ (IF f.repeated THEN json[f.name].kind = "array"
                                                    ELSE json[f.name].kind # "null")
    <3>1. CASE f.repeated
      <4>1. json[f.name].of = elements /\ json[f.name].kind = "array"
        BY <1>3, <1>6, <3>1
      <4>2. \A i \in DOMAIN value : Coerced(f, elements[i]) = value[i]
        BY <2>1, ElementReturns DEF Elems
      <4>3. [i \in DOMAIN elements |-> Coerced(f, elements[i])] = [i \in DOMAIN value |-> value[i]]
        BY <4>2 DEF Elems
      <4>4. [i \in DOMAIN value |-> value[i]] = value
        BY <1>1
      <4> QED
        BY <3>1, <4>1, <4>3, <4>4 DEF Content
    <3>2. CASE ~f.repeated
      <4>1. Len(value) = 1
        BY <1>1, <1>3, <1>6, <3>2, OneEachHolds DEF OneEach
      <4>2. 1 \in DOMAIN value /\ value = <<value[1]>>
        BY <1>1, <2>1, <4>1
      <4>3. json[f.name] = InJSON(f, value[1])
        BY <1>3, <1>6, <3>2, <4>2 DEF Elems
      <4>4. Coerced(f, json[f.name]) = value[1]
        BY <2>1, <4>2, <4>3, ElementReturns
      <4>5. json[f.name].kind # "null"
        BY <4>3 DEF InJSON, Kind
      <4> QED
        BY <3>2, <4>2, <4>4, <4>5 DEF Content
    <3> QED
      BY <1>1, <3>1, <3>2
  <2>3. CASE f.name \in S
    <3>1. /\ ~IsSet(f, object.camel)
          /\ IsSet(f, object.snake) /\ object.snake[f.name] = json[f.name]
      BY <1>4, <1>6, <2>2, <2>3 DEF IsSet
    <3> QED
      BY <1>2, <2>2, <3>1 DEF object, json
  <2>4. CASE f.name \notin S
    <3>1. IsSet(f, object.camel) /\ object.camel[f.name] = json[f.name]
      BY <1>4, <1>6, <2>2, <2>4 DEF IsSet
    <3> QED
      BY <1>2, <2>2, <3>1 DEF object, json
  <2> QED
    BY <2>3, <2>4
<1> QED
  BY <1>5, <1>6

LEMMA JsonReturns ==
  ASSUME IInv
  PROVE  JsonKeeps
<1> SUFFICES ASSUME NEW S \in SUBSET Names
             PROVE  FromJSON(Respelled(ToJSON(message), S)) = message
  BY DEF JsonKeeps
<1> DEFINE back == FromJSON(Respelled(ToJSON(message), S))
<1>1. message \in [Names -> Seq(Vals)]
  BY DEF IInv, MessageInv
<1>2. \A n \in Names : back[n] = message[n]
  <2>1. TAKE n \in Names
  <2>2. PICK f \in Fields : f.name = n
    BY DEF Names
  <2> QED
    BY <2>2, FieldReturns
<1>3. back = [n \in Names |-> back[n]]
  BY DEF FromJSON
<1> HIDE DEF back
<1> QED
  BY <1>1, <1>2, <1>3 DEF back

-----------------------------------------------------------------------------
(***************************************************************************)
(* For every protocol whose messages' fields differ in number and in name, *)
(* and every sequence of entries: what the decode functions of demo.ts     *)
(* return has in each field the last value sent for it before a tag that   *)
(* ends the message, or all of them in order, or the default.              *)
(***************************************************************************)
THEOREM Decoding == ASSUME SchemaOK PROVE Spec => []DecodeIsExact
<1>1. Init => IInv
  BY InitInv
<1>2. IInv /\ [Next]_vars => IInv'
  BY StepInv
<1>3. IInv => DecodeIsExact
  BY DEF IInv
<1> QED
  BY <1>1, <1>2, <1>3, PTL DEF Spec

(***************************************************************************)
(* For every such protocol, and whichever fields the body of a request has *)
(* or lacks, or has null or of another type: what decode makes of what     *)
(* encode wrote is what fromPartial would make of that body, but for what  *)
(* the writer had to convert, and no request that was sent fails to be     *)
(* read.                                                                   *)
(***************************************************************************)
THEOREM RequestsArrive == ASSUME SchemaOK PROVE Spec => []RequestArrives
<1>1. Init => IInv /\ RequestInv
  BY InitInv, RequestInitially
<1>2. (IInv /\ RequestInv) /\ [Next]_vars => (IInv /\ RequestInv)'
  BY StepInv, RequestStep
<1>3. IInv /\ RequestInv => RequestArrives
  BY Arrival
<1> QED
  BY <1>1, <1>2, <1>3, PTL DEF Spec

(***************************************************************************)
(* And for every such protocol: a message that was read survives its       *)
(* toJSON and fromJSON, whichever names of the object are respelled as     *)
(* demo.proto has them, since each name is that of one field, each value   *)
(* has the field's kind, and what is left out was the default.             *)
(***************************************************************************)
THEOREM JsonIsLossless == ASSUME SchemaOK PROVE Spec => []JsonKeeps
<1>1. Init => IInv
  BY InitInv
<1>2. IInv /\ [Next]_vars => IInv'
  BY StepInv
<1>3. IInv => JsonKeeps
  BY JsonReturns
<1> QED
  BY <1>1, <1>2, <1>3, PTL DEF Spec
=============================================================================
