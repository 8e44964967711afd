------------------------------- MODULE Codec --------------------------------
(***************************************************************************)
(* How a message of the shop gets into and out of the frontend: encode and *)
(* decode of src/src/frontend/protos/demo.ts, which every gateway under    *)
(* src/src/frontend/gateways/rpc calls through, and the functions beside   *)
(* them that make a message of JSON or of a part of one.  The API routes   *)
(* hand a request body they have parsed straight to encode                 *)
(* (pages/api/cart.ts:37, checkout.ts:17): fields may be missing from it,  *)
(* null, or of another type.  What arrives was written by a peer in        *)
(* another language, built from this protocol or from an earlier or later  *)
(* one.                                                                    *)
(*                                                                         *)
(* An entry on the wire is a tag and a value.  The value of a field is a   *)
(* sequence: of any length if the field is repeated, of one element if it  *)
(* is a scalar, and empty or of one element if it is a message, which is   *)
(* one element here and field by field where it is the message that        *)
(* travels.  An entry is whole: of a nested message that ends early, the   *)
(* rest of whose bytes would be taken for entries of this one, nothing is  *)
(* said.  The writer and the reader are external (BinaryWriter,            *)
(* BinaryReader of @bufbuild/protobuf).                                    *)
(***************************************************************************)
EXTENDS Integers, Sequences

CONSTANTS Schema,      \* the fields of each message
          Methods,     \* the calls: their request and their response
          MaxEntries   \* bound: entries a peer writes

Scalars == {"string", "int32", "int64", "bool"}
Types == Scalars \cup DOMAIN Schema

FieldOK(f) ==
  /\ f.no \in Nat \ {0} /\ f.type \in Types /\ f.repeated \in BOOLEAN
  /\ f = [no |-> f.no, name |-> f.name, type |-> f.type, repeated |-> f.repeated]

\* No two fields of a message have the same number or the same name.
MessageOK(m) ==
  /\ m \in Seq({m[i] : i \in DOMAIN m})
  /\ \A i \in DOMAIN m :
       /\ FieldOK(m[i])
       /\ \A j \in DOMAIN m : i # j => m[i].no # m[j].no /\ m[i].name # m[j].name

SchemaOK ==
  /\ \A m \in DOMAIN Schema : MessageOK(Schema[m])
  /\ \A c \in Methods : c.request \in DOMAIN Schema /\ c.response \in DOMAIN Schema

VARIABLES
  fields,   \* those of the message that travels
  wide,     \* the names of those that are or hold an int64
  sender,   \* "frontend" or "peer"
  body,     \* what the frontend was given to send: the fields named so far
  wire,     \* the entries written
  at,       \* the field to be written, or the entry to be read, next
  message,  \* what has been read
  phase     \* writing, refused, reading, read or failed

vars == <<fields, wide, sender, body, wire, at, message, phase>>

Fields == {fields[i] : i \in DOMAIN fields}
Names == {f.name : f \in Fields}

-----------------------------------------------------------------------------
(* Tags and values. *)

WireType(t) == IF t \in {"int32", "int64", "bool"} THEN 0 ELSE 2
Tag(f) == 8 * f.no + WireType(f.type)

\* createBase: "", 0 and false are "zero".
Default(f) == IF f.repeated \/ f.type \notin Scalars THEN <<>> ELSE <<"zero">>
Base(fs) == [n \in {f.name : f \in fs} |-> Default(CHOOSE f \in fs : f.name = n)]

\* "huge" is, or holds, an int64 beyond Number.MAX_SAFE_INTEGER.
Elements(f) ==
  (IF f.type \in Scalars THEN {"zero", "a"} ELSE {"a", "b"})
    \cup (IF f.name \in wide THEN {"huge"} ELSE {})

-----------------------------------------------------------------------------
(* JSON and partial messages.  A JSON value has a kind and, unless it is   *)
(* null, a content; that of a message is one element here, too: the        *)
(* functions call those of the message's own type for it.                  *)

Kind(type) == CASE type = "string" -> "string"
                [] type \in {"int32", "int64"} -> "number"
                [] type = "bool" -> "bool"
                [] OTHER -> "object"

\* "half" is any number with a fraction.
Rounded(e) == IF e = "half" THEN "a" ELSE e

InJSON(f, e) ==
  [kind |-> Kind(f.type), of |-> IF Kind(f.type) = "number" THEN Rounded(e) ELSE e]

\* What a field would have anyway is left out.
ToJSON(value) ==
  [n \in {f.name : f \in {g \in Fields : value[g.name] # Default(g)}} |->
     LET f == CHOOSE g \in Fields : g.name = n
         elements == [i \in DOMAIN value[n] |-> InJSON(f, value[n][i])]
     IN  IF f.repeated THEN [kind |-> "array", of |-> elements] ELSE elements[1]]

\* String(), Number(), Boolean() and fromJSON of the field's own type leave
\* what has that type as it is, and make some value of it of any other.
Coerced(f, json) == IF json.kind = Kind(f.type) THEN json.of ELSE "converted"

\* An object has the name of a field as this protocol spells it (userId) or
\* as demo.proto does (user_id), or both.  A name of one word is the same.
IsSet(f, names) ==
  /\ f.name \in DOMAIN names
  /\ IF f.repeated THEN names[f.name].kind = "array" ELSE names[f.name].kind # "null"

Content(f, json) ==
  IF f.repeated THEN [i \in DOMAIN json.of |-> Coerced(f, json.of[i])]
  ELSE <<Coerced(f, json)>>

FromJSON(object) ==
  [n \in Names |->
     LET f == CHOOSE g \in Fields : g.name = n
     IN  IF IsSet(f, object.camel) THEN Content(f, object.camel[n])
         ELSE IF IsSet(f, object.snake) THEN Content(f, object.snake[n])
         ELSE Default(f)]

\* fromPartial: a field that is missing or null has its default.
FromPartial(object) ==
  [n \in Names |-> IF n \in DOMAIN object /\ object[n] # <<"null">>
                    THEN object[n] ELSE Base(Fields)[n]]

-----------------------------------------------------------------------------
(* The messages that travel, and those they are made of. *)

Listed(m) == {Schema[m][i] : i \in DOMAIN Schema[m]}
Parts(S) == S \cup {m \in DOMAIN Schema : \E n \in S : \E f \in Listed(n) : f.type = m}
Within(S) == Parts(Parts(Parts(S)))
HoldsInt64(type) ==
  \/ type = "int64"
  \/ \E m \in Within({type} \cap DOMAIN Schema) : \E f \in Listed(m) : f.type = "int64"

Sent == Within({c.request : c \in Methods})
Received == Within({c.response : c \in Methods})

\* The values a request body may have for a field it names: ones of the
\* field's type, null, and "odd", which is anything of another type.
Odd == {<<"null">>, <<"odd">>}
Values(f) ==
  LET es == Elements(f) \ {"huge"}
  IN  Odd \cup {<<e>> : e \in es} \cup
      (IF f.repeated THEN {<<>>} \cup {<<e, d>> : e, d \in es}
       ELSE IF f.type \in Scalars THEN {} ELSE {<<>>})

Init ==
  /\ sender \in {"frontend", "peer"}
  /\ \E m \in IF sender = "frontend" THEN Sent ELSE Received :
       /\ fields = Schema[m]
       /\ wide = {f.name : f \in {g \in Listed(m) : HoldsInt64(g.type)}}
       /\ message = Base(Listed(m))
  /\ body = <<>> /\ wire = <<>> /\ at = 1 /\ phase = "writing"

Entries(f, values) == [i \in DOMAIN values |-> [tag |-> Tag(f), val |-> values[i]]]

\* encode is at field f of the message the frontend sends.
Encoding(f) ==
  /\ phase = "writing" /\ sender = "frontend"
  /\ at \in DOMAIN fields /\ f = fields[at]

\* The writer makes a string and a flag of whatever it is given.  Of what is
\* null or missing it makes no number, no list and no message.
Lenient(f) == ~f.repeated /\ f.type \in {"string", "bool"}

Named(f, values) ==
  body' = [n \in DOMAIN body \cup {f.name} |-> IF n = f.name THEN values ELSE body[n]]

\* Mutant of WriteField: what equals the default is left out of a list, too.
WriteFieldNoZeros(f) ==
  /\ Encoding(f)
  /\ \E values \in Values(f) :
       /\ values = <<"null">> => Lenient(f)
       /\ Named(f, values)
       /\ wire' = wire \o Entries(f, IF values \in Odd THEN <<"converted">>
                                 ELSE IF values = <<"zero">> THEN <<>> ELSE values)
  /\ at' = at + 1
  /\ UNCHANGED <<fields, wide, sender, message, phase>>

\* A scalar that has the default is not written, and of a list every element
\* is.  What is odd is converted: null, too, is not the default, and a string
\* that is null is written as the word null.
OnWire(f, values) ==
  IF values \in Odd THEN <<"converted">>
  ELSE IF ~f.repeated /\ values = <<"zero">> THEN <<>> ELSE values

\* The body names the field.
WriteField(f) ==
  /\ Encoding(f)
  /\ \E values \in Values(f) :
       /\ values = <<"null">> => Lenient(f)
       /\ Named(f, values)
       /\ wire' = wire \o Entries(f, OnWire(f, values))
  /\ at' = at + 1
  /\ UNCHANGED <<fields, wide, sender, message, phase>>

\* The body does not name the field.  A string or a flag is written, as the
\* default, since undefined is not equal to it; a message is left out.
WriteUnnamed(f) ==
  /\ Encoding(f) /\ ~f.repeated /\ f.type \notin {"int32", "int64"}
  /\ wire' = wire \o Entries(f, IF f.type \in Scalars THEN <<"zero">> ELSE <<>>)
  /\ at' = at + 1
  /\ UNCHANGED <<fields, wide, sender, body, message, phase>>

\* encode throws, for a number or a list that is missing, for null, or for
\* something of another type: the call is rejected and nothing is sent.
Refuse(f) ==
  /\ Encoding(f) /\ ~Lenient(f)
  /\ phase' = "refused"
  /\ UNCHANGED <<fields, wide, sender, body, wire, at, message>>

\* A peer may write fields in any order, more than once, and zero ones, and
\* fields this protocol does not have or has with another type.
PeerWrites(tag, val) ==
  /\ phase = "writing" /\ sender = "peer" /\ Len(wire) < MaxEntries
  /\ wire' = Append(wire, [tag |-> tag, val |-> val])
  /\ UNCHANGED <<fields, wide, sender, body, at, message, phase>>

Sending ==
  /\ phase = "writing" /\ sender = "frontend" => at = Len(fields) + 1
  /\ phase = "writing"
  /\ phase' = "reading" /\ at' = 1
  /\ UNCHANGED <<fields, wide, sender, body, wire, message>>

\* The next entry is one of field f, with the type it has here.
NextIs(f) == phase = "reading" /\ at \in DOMAIN wire /\ wire[at].tag = Tag(f)

Readable == wire[at].val # "huge"

\* Mutant of ReadOne: the field is told by its number alone.
ReadOneOfAnyType(f) ==
  /\ phase = "reading" /\ at \in DOMAIN wire /\ wire[at].tag \div 8 = f.no
  /\ ~f.repeated /\ Readable
  /\ message' = [message EXCEPT ![f.name] = <<wire[at].val>>]
  /\ at' = at + 1
  /\ UNCHANGED <<fields, wide, sender, body, wire, phase>>

\* A field that is not repeated takes the value, whatever it had before: a
\* message is replaced and not merged.
ReadOne(f) ==
  /\ NextIs(f) /\ ~f.repeated /\ Readable
  /\ message' = [message EXCEPT ![f.name] = <<wire[at].val>>]
  /\ at' = at + 1
  /\ UNCHANGED <<fields, wide, sender, body, wire, phase>>

ReadMore(f) ==
  /\ NextIs(f) /\ f.repeated /\ Readable
  /\ message' = [message EXCEPT ![f.name] = Append(@, wire[at].val)]
  /\ at' = at + 1
  /\ UNCHANGED <<fields, wide, sender, body, wire, phase>>

\* longToNumber throws, and the call is rejected.
TooLarge(f) ==
  /\ NextIs(f) /\ ~Readable
  /\ phase' = "failed"
  /\ UNCHANGED <<fields, wide, sender, body, wire, at, message>>

\* The next entry is none of a field that this message has here.
NextIsOther ==
  /\ phase = "reading" /\ at \in DOMAIN wire
  /\ \A f \in Fields : wire[at].tag # Tag(f)

\* The end of a group and the tag 0 end the message, whatever follows.
Ends(tag) == tag = 0 \/ tag % 8 = 4

Skip ==
  /\ NextIsOther /\ ~Ends(wire[at].tag) /\ wire[at].tag % 8 \notin {6, 7}
  /\ at' = at + 1
  /\ UNCHANGED <<fields, wide, sender, body, wire, message, phase>>

\* reader.skip throws: there are no such wire types.
Unskippable ==
  /\ NextIsOther /\ wire[at].tag % 8 \in {6, 7}
  /\ phase' = "failed"
  /\ UNCHANGED <<fields, wide, sender, body, wire, at, message>>

End ==
  /\ phase = "reading"
  /\ at = Len(wire) + 1 \/ (NextIsOther /\ Ends(wire[at].tag))
  /\ phase' = "read"
  /\ UNCHANGED <<fields, wide, sender, body, wire, at, message>>

\* What a peer may write: a field of this message, one of the same number
\* and the other wire type, one with a number that is not in use, the end of
\* a group, the tag 0, and a wire type that does not exist.
Tags == {Tag(f) : f \in Fields} \cup {8 * f.no + 2 - WireType(f.type) : f \in Fields}
        \cup {8 * 99, 8 * 99 + 4, 0, 8 * 99 + 6}
Carried(tag) ==
  LET known == {f \in Fields : Tag(f) = tag}
  IN  IF known = {} THEN {"a"} ELSE UNION {Elements(f) : f \in known}

Next ==
  \/ \E f \in Fields : \/ WriteField(f) \/ WriteUnnamed(f) \/ Refuse(f)
                       \/ ReadOne(f) \/ ReadMore(f) \/ TooLarge(f)
  \/ Sending \/ Skip \/ Unskippable \/ End
  \/ \E tag \in Tags : \E val \in Carried(tag) : PeerWrites(tag, val)

Spec == Init /\ [][Next]_vars

-----------------------------------------------------------------------------
(* The entries of a field among the first k, and what they amount to. *)

Matching(f, k) == {i \in DOMAIN wire : i <= k /\ wire[i].tag = Tag(f)}

IsLastValue(f, value, k) ==
  \/ Matching(f, k) = {} /\ value = Default(f)
  \/ \E i \in Matching(f, k) :
       /\ \A j \in Matching(f, k) : j <= i
       /\ value = <<wire[i].val>>

IsAllValues(f, value, k) ==
  \E place \in [DOMAIN value -> Matching(f, k)] :
    /\ \A i \in Matching(f, k) : \E j \in DOMAIN value : place[j] = i
    /\ \A j, l \in DOMAIN value : j < l => place[j] < place[l]
    /\ \A j \in DOMAIN value : value[j] = wire[place[j]].val

Reads(f, value, k) ==
  IF f.repeated THEN IsAllValues(f, value, k) ELSE IsLastValue(f, value, k)

EntriesRead == IF phase \in {"writing", "refused"} THEN 0 ELSE at - 1

(***************************************************************************)
(* Entries in whatever order, repeated, of fields this protocol does not   *)
(* know or knows with another type: decode reads up to the first tag that  *)
(* ends a message, and a field has the last value sent for it before that, *)
(* or all of them in their order if it is repeated, or its default; no     *)
(* int64 that a number cannot hold is among them.                          *)
(***************************************************************************)
DecodeIsExact ==
  /\ \A i \in 1 .. EntriesRead : ~Ends(wire[i].tag)
  /\ phase = "read" =>
       EntriesRead = Len(wire) \/ Ends(wire[EntriesRead + 1].tag)
  /\ \A f \in Fields :
       /\ Reads(f, message[f.name], EntriesRead)
       /\ \A i \in DOMAIN message[f.name] : message[f.name][i] # "huge"

(***************************************************************************)
(* What is read of a request is what fromPartial would make of the body    *)
(* the frontend was given to send, or else the call was rejected before    *)
(* anything was sent: a field that was missing has its default, and one    *)
(* that the body has with another type what the writer has made of that.   *)
(* A string that was null arrives, as "null".                              *)
(***************************************************************************)
Expected(object) ==
  [n \in Names |-> IF n \in DOMAIN object /\ object[n] \in Odd
                    THEN <<"converted">> ELSE FromPartial(object)[n]]

RequestArrives ==
  sender = "frontend" =>
    /\ phase = "read" => message = Expected(body)
    /\ phase # "failed"

(***************************************************************************)
(* A message that was read survives its toJSON and fromJSON, whichever of  *)
(* the names of the object a peer respells as demo.proto has them: what    *)
(* toJSON left out has its default, and no name is taken for another.      *)
(***************************************************************************)
Respelled(json, S) ==
  [camel |-> [n \in DOMAIN json \ S |-> json[n]],
   snake |-> [n \in DOMAIN json \cap S |-> json[n]]]

JsonKeeps ==
  phase = "read" =>
    \A S \in SUBSET Names : FromJSON(Respelled(ToJSON(message), S)) = message
=============================================================================
