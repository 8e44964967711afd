-------------------------- MODULE FlagStoreProofs ---------------------------
(***************************************************************************)
(* Proofs about FlagStore, for any flags, variants and pages, and any      *)
(* number of messages, edits by hand and failed writes.                    *)
(*                                                                         *)
(* That the file keeps the wishes is not inductive: Storage and the pages  *)
(* put their copies into it, so that these have to keep the wishes too,    *)
(* but for the flags that were changed behind their back (StateInv and     *)
(* BaseInv).  What a page was edited to is no part of it: when it is put   *)
(* back, it differs from its base in what is asked for.                    *)
(***************************************************************************)
EXTENDS FlagStore, TLAPS

\* A copy has what was asked of each flag, except of those in `old`.
Agrees(copy, old) ==
  copy \in Documents \cup {Broken} => \A f \in Flags \ old : Value(copy, f) = wish[f]

StateInv == alive => file # Torn /\ Agrees(state, undone \cup unseen)

BaseInv == \A e \in Editors : Agrees(base[e], undone \cup behind[e])

IInv == TypeOK /\ StateInv /\ BaseInv /\ WishesHold

-----------------------------------------------------------------------------
LEMMA Valued ==
  /\ \A d \in Documents : \A f \in Flags : Value(d, f) = d[f] /\ d[f] \in Values
  /\ \A f \in Flags : Value(Broken, f) = Absent
  /\ Absent \in Values /\ NoFlags \in Documents
  /\ \A f \in Flags : NoFlags[f] = Absent
BY FlagAssumption DEF Value, Values, Documents, NoFlags

\* At first every copy is the file.
LEMMA Initially == Init => IInv
<1> SUFFICES ASSUME Init
             PROVE  IInv
  OBVIOUS
<1> USE FlagAssumption
<1>1. file \in Documents /\ state = file /\ wish = file /\ mailbox = <<>> /\ alive = TRUE
  BY DEF Init
<1>2. \A e \in Editors : base[e] = None
  BY DEF Init
<1>3. TypeOK
  <2>1. mailbox \in Seq(Mail) /\ Len(mailbox) = 0
    BY <1>1
  <2>2. /\ page \in [Editors -> Documents \cup {Broken, None}]
        /\ base \in [Editors -> Documents \cup {Broken, None}]
        /\ behind \in [Editors -> SUBSET Flags]
    BY DEF Init
  <2>3. unseen = {} /\ undone = {} /\ changes = 0 /\ handEdits = 0 /\ crashes = 0
    BY DEF Init
  <2> QED
    BY <1>1, <2>1, <2>2, <2>3 DEF TypeOK
<1>4. StateInv
  BY <1>1, Valued DEF StateInv, Agrees
<1>5. BaseInv
  BY <1>2 DEF BaseInv, Agrees
<1> QED
  BY <1>1, <1>3, <1>4, <1>5, Valued DEF IInv, WishesHold

-----------------------------------------------------------------------------
(* Types. *)


\* A message is put into the mailbox, or lost with it.
LEMMA Delivered ==
  ASSUME TypeOK, NEW m \in Mail, Deliver(m)
  PROVE  /\ mailbox' \in Seq(Mail) /\ Len(mailbox') <= changes'
         /\ changes' \in 0 .. MaxChanges
BY FlagAssumption DEF Deliver, TypeOK

LEMMA Received ==
  ASSUME TypeOK, mailbox # <<>>
  PROVE  /\ Head(mailbox) \in Mail
         /\ Tail(mailbox) \in Seq(Mail) /\ Len(Tail(mailbox)) <= changes
         /\ <<>> \in Seq(Mail) /\ Len(<<>>) <= changes
BY FlagAssumption DEF TypeOK

LEMMA MailKinds ==
  /\ \A m \in Mail : m.kind = "read" => m.page \in Editors
  /\ \A m \in Mail : m.kind = "write" => m.flag \in Flags /\ m.variant \in Variants
  /\ \A m \in Mail : m.kind = "replace" =>
       m.page \in Editors /\ m.document \in Documents \cup {Broken}
BY DEF Mail

\* The conjuncts of TypeOK a step may leave alone.
Files == file \in Documents \cup {Broken, Torn} /\ state \in Documents \cup {Broken}
         /\ alive \in BOOLEAN /\ (alive => state = file \/ unseen # {})
Boxes == mailbox \in Seq(Mail) /\ Len(mailbox) <= changes /\ changes \in 0 .. MaxChanges
Pages == page \in [Editors -> Documents \cup {Broken, None}]
         /\ base \in [Editors -> Documents \cup {Broken, None}]
         /\ behind \in [Editors -> SUBSET Flags]
Wishes == wish \in Documents /\ unseen \subseteq Flags /\ undone \subseteq Flags
Bounds == handEdits \in 0 .. MaxHandEdits /\ crashes \in 0 .. MaxCrashes

LEMMA TypeParts ==
  /\ TypeOK <=> Files /\ Boxes /\ Pages /\ Wishes /\ Bounds
  /\ TypeOK' <=> Files' /\ Boxes' /\ Pages' /\ Wishes' /\ Bounds'
BY DEF TypeOK, Files, Boxes, Pages, Wishes, Bounds

\* Putting a document into the file.
LEMMA CarryTypes ==
  ASSUME TypeOK, NEW d \in Documents \cup {Broken}, NEW mine, NEW old \in SUBSET Flags,
         CarryOut(d, mine, old), alive' = alive
  PROVE  Files' /\ Wishes'
<1>1. file' = d /\ state' = d /\ unseen' = {}
  BY DEF CarryOut
<1>2. undone' \subseteq Flags
  BY DEF CarryOut, TypeOK
<1>3. wish' \in Documents
  <2>1. \A f \in Flags : Value(d, f) \in Values /\ wish[f] \in Values
    BY Valued DEF TypeOK
  <2>2. wish' = [f \in Flags |-> IF f \in mine THEN Value(d, f) ELSE wish[f]]
    BY DEF CarryOut
  <2> QED
    BY <2>1, <2>2 DEF Documents
<1> QED
  BY <1>1, <1>2, <1>3 DEF Files, Wishes, TypeOK

LEMMA TypeStep ==
  ASSUME TypeOK, [Next]_vars
  PROVE  TypeOK'
<1> USE FlagAssumption
<1>1. Files /\ Boxes /\ Pages /\ Wishes /\ Bounds
  BY TypeParts
<1>2. CASE UNCHANGED vars
  BY <1>2 DEF vars, TypeOK
<1>3. ASSUME NEW f \in Flags, NEW v \in Variants, SetFlag(f, v) PROVE TypeOK'
  <2>1. [kind |-> "write", flag |-> f, variant |-> v] \in Mail
    BY DEF Mail
  <2>2. Boxes'
    BY <1>3, <2>1, Delivered DEF SetFlag, Boxes
  <2> QED
    BY <1>1, <1>3, <2>2, TypeParts DEF SetFlag, Files, Pages, Wishes, Bounds
<1>4. ASSUME NEW f \in Flags, NEW v \in Values, EditByHand(f, v) PROVE TypeOK'
  <2>1. file' \in Documents /\ wish' \in Documents
    BY <1>1, <1>4 DEF EditByHand, Wishes, Documents
  <2>2. behind' \in [Editors -> SUBSET Flags]
    BY <1>1, <1>4 DEF EditByHand, Pages
  <2>3. unseen' \subseteq Flags /\ undone' \subseteq Flags /\ unseen' # {}
    BY <1>1, <1>4 DEF EditByHand, Wishes
  <2>4. handEdits' \in 0 .. MaxHandEdits
    BY <1>1, <1>4 DEF EditByHand, Bounds
  <2> QED
    BY <1>1, <1>4, <2>1, <2>2, <2>3, <2>4, TypeParts
       DEF EditByHand, Files, Boxes, Pages, Wishes, Bounds
<1>5. ASSUME NEW e \in Editors, OpenPage(e) PROVE TypeOK'
  <2>1. [kind |-> "read", page |-> e] \in Mail
    BY DEF Mail
  <2>2. Boxes'
    BY <1>5, <2>1, Delivered DEF OpenPage, Boxes
  <2> QED
    BY <1>1, <1>5, <2>2, TypeParts DEF OpenPage, Files, Pages, Wishes, Bounds
<1>6. ASSUME NEW e \in Editors, Save(e) PROVE TypeOK'
  <2>1. [kind |-> "replace", page |-> e, document |-> page[e]] \in Mail
    BY <1>1, <1>6 DEF Mail, Pages, Save
  <2>2. Boxes'
    BY <1>6, <2>1, Delivered DEF Save, Boxes
  <2> QED
    BY <1>1, <1>6, <2>2, TypeParts DEF Save, Files, Pages, Wishes, Bounds
<1>7. ASSUME NEW e \in Editors, Close(e) \/ Garble(e) \/ Repair(e) PROVE TypeOK'
  <2>1. page' \in [Editors -> Documents \cup {Broken, None}]
    BY <1>1, <1>7 DEF Close, Garble, Repair, Pages
  <2>2. UNCHANGED <<file, state, alive, mailbox, base, wish, behind, unseen, undone,
                    changes, handEdits, crashes>>
    BY <1>7 DEF Close, Garble, Repair
  <2> QED
    BY <1>1, <2>1, <2>2, TypeParts DEF Files, Boxes, Pages, Wishes, Bounds
<1>8. ASSUME NEW e \in Editors, NEW f \in Flags, NEW v \in Values, Edit(e, f, v) PROVE TypeOK'
  <2>1. [page[e] EXCEPT ![f] = v] \in Documents
    BY <1>8 DEF Edit, Documents
  <2>2. page' \in [Editors -> Documents \cup {Broken, None}]
    BY <1>1, <1>8, <2>1 DEF Edit, Pages
  <2> QED
    BY <1>1, <1>8, <2>2, TypeParts DEF Edit, Files, Boxes, Pages, Wishes, Bounds
<1>9. CASE HandleRead
  <2>1. Head(mailbox).page \in Editors /\ Boxes'
    BY <1>1, <1>9, Received, MailKinds DEF HandleRead, Receive, Boxes
  <2>2. Pages'
    BY <1>1, <1>9, <2>1 DEF HandleRead, Pages, Files, Wishes
  <2> QED
    BY <1>1, <1>9, <2>1, <2>2, TypeParts DEF HandleRead, Files, Wishes, Bounds
<1>10. CASE HandleWrite
  <2> DEFINE f == Head(mailbox).flag
             v == Head(mailbox).variant
             d == [g \in Flags |-> IF g \in Settable(f) THEN v ELSE state[g]]
  <2>1. f \in Flags /\ v \in Values /\ Boxes'
    BY <1>1, <1>10, Received, MailKinds DEF HandleWrite, Receive, Boxes, Values
  <2>2. state \in Documents /\ CarryOut(d, Settable(f), unseen) /\ alive' = alive
    BY <1>10 DEF HandleWrite
  <2>3. /\ behind' = [e \in Editors |-> behind[e] \cup Settable(f)]
        /\ UNCHANGED <<page, base, handEdits, crashes>>
    BY <1>10 DEF HandleWrite
  <2>4. Settable(f) \subseteq Flags
    BY <2>1 DEF Settable
  <2> HIDE DEF f, v
  <2>5. d \in Documents
    BY <2>1, <2>2 DEF Documents
  <2> HIDE DEF d
  <2>6. Files' /\ Wishes'
    BY <1>1, <2>2, <2>5, CarryTypes DEF Wishes
  <2>7. Pages'
    BY <1>1, <2>3, <2>4 DEF Pages
  <2> QED
    BY <1>1, <2>1, <2>3, <2>6, <2>7, TypeParts DEF Bounds
<1>11. CASE HandleWriteBroken
  <2>1. Boxes'
    BY <1>1, <1>11, Received DEF HandleWriteBroken, Receive, Exit, Boxes
  <2>2. Files' /\ Wishes'
    <3>1. CASE Exit /\ UNCHANGED <<file, state, wish, unseen, undone>>
      BY <1>1, <3>1 DEF Exit, Files, Wishes
    <3>2. CASE alive' = alive /\ CarryOut(NoFlags, {}, unseen)
      BY <1>1, <3>2, CarryTypes, Valued DEF Wishes
    <3> QED
      BY <1>11, <3>1, <3>2 DEF HandleWriteBroken
  <2> QED
    BY <1>1, <1>11, <2>1, <2>2, TypeParts DEF HandleWriteBroken, Pages, Bounds
<1>12. CASE HandleReplace
  <2> DEFINE e == Head(mailbox).page
             d == Head(mailbox).document
             mine == Asked(e, d)
  <2>1. e \in Editors /\ d \in Documents \cup {Broken} /\ Boxes'
    BY <1>1, <1>12, Received, MailKinds DEF HandleReplace, Receive, Boxes
  <2>2. mine \subseteq Flags
    BY DEF Asked
  <2>3. Files' /\ Wishes'
    <3>1. CarryOut(d, mine, behind[e]) /\ alive' = alive /\ behind[e] \subseteq Flags
      BY <1>1, <1>12, <2>1 DEF HandleReplace, Pages
    <3> HIDE DEF e, d, mine
    <3> QED
      BY <1>1, <2>1, <2>2, <3>1, CarryTypes
  <2>4. Pages'
    <3>1. /\ base' = [base EXCEPT ![e] = d] /\ page' = page
          /\ behind' = [b \in Editors |-> IF b = e THEN {} ELSE behind[b] \cup mine]
      BY <1>12 DEF HandleReplace
    <3> HIDE DEF e, d, mine
    <3> QED
      BY <1>1, <2>1, <2>2, <3>1 DEF Pages
  <2> QED
    BY <1>1, <1>12, <2>1, <2>3, <2>4, TypeParts DEF HandleReplace, Bounds
<1>13. CASE WriteFails
  <2>1. Boxes'
    BY <1>1, <1>13, Received DEF WriteFails, Exit, Boxes
  <2>2. Files'
    BY <1>1, <1>13 DEF WriteFails, Exit, Files
  <2>3. Bounds'
    BY <1>1, <1>13 DEF WriteFails, Bounds
  <2> QED
    BY <1>1, <1>13, <2>1, <2>2, <2>3, TypeParts DEF WriteFails, Pages, Wishes
<1>14. CASE Restart
  BY <1>1, <1>14, TypeParts DEF Restart, Files, Boxes, Pages, Wishes, Bounds
<1>15. CASE RepairByHand
  <2>1. file' \in Documents /\ wish' = file' /\ unseen' = Flags /\ undone' = {}
    BY <1>15 DEF RepairByHand
  <2>2. behind' \in [Editors -> SUBSET Flags] /\ handEdits' \in 0 .. MaxHandEdits
    BY <1>1, <1>15 DEF RepairByHand, Bounds
  <2> QED
    BY <1>1, <1>15, <2>1, <2>2, TypeParts DEF RepairByHand, Files, Boxes, Pages, Wishes, Bounds
<1> QED
  BY <1>2, <1>3, <1>4, <1>5, <1>6, <1>7, <1>8, <1>9, <1>10, <1>11, <1>12, <1>13, <1>14, <1>15
     DEF Next

-----------------------------------------------------------------------------
(* Wishes. *)

\* What is put into the file has what was asked of each flag, if it had so
\* before of those that it is not asked to set and not behind of.
LEMMA Carried ==
  ASSUME TypeOK, NEW d \in Documents \cup {Broken}, NEW mine, NEW old,
         CarryOut(d, mine, old), Agrees(d, undone \cup old \cup mine)
  PROVE  \A f \in Flags \ undone' : Value(d, f) = wish'[f]
BY DEF CarryOut, Agrees

\* A copy elsewhere does so too, if it is now behind of the flags that are set.
LEMMA OthersCarried ==
  ASSUME TypeOK, NEW d, NEW mine, NEW old, CarryOut(d, mine, old),
         NEW b, NEW lag, Agrees(b, undone \cup lag), b \in Documents \cup {Broken}
  PROVE  \A f \in Flags \ (undone' \cup lag \cup mine) : Value(b, f) = wish'[f]
BY DEF CarryOut, Agrees

\* Steps that only change a page or the mailbox, or end Storage.
LEMMA Undisturbed ==
  ASSUME IInv, UNCHANGED <<file, state, base, wish, behind, unseen, undone>>, alive' => alive
  PROVE  StateInv' /\ BaseInv' /\ WishesHold'
BY DEF IInv, StateInv, BaseInv, WishesHold, Agrees

LEMMA HandStep ==
  ASSUME IInv, NEW f \in Flags, NEW v \in Values, EditByHand(f, v)
  PROVE  StateInv' /\ BaseInv' /\ WishesHold'
<1> USE FlagAssumption
<1>1. /\ file \in Documents /\ file' = [file EXCEPT ![f] = v]
      /\ wish' = [wish EXCEPT ![f] = v]
      /\ unseen' = unseen \cup {f} /\ undone' = undone \ {f}
      /\ behind' = [e \in Editors |-> behind[e] \cup {f}]
      /\ UNCHANGED <<state, alive, base>>
  BY DEF EditByHand
<1>2. TypeOK /\ StateInv /\ BaseInv /\ WishesHold
  BY DEF IInv
<1>3. wish'[f] = v /\ file'[f] = v /\ file' \in Documents
  BY <1>1, <1>2 DEF TypeOK, Documents
<1>4. \A g \in Flags \ {f} : wish'[g] = wish[g] /\ file'[g] = file[g]
  BY <1>1, <1>2 DEF TypeOK, Documents
<1>5. WishesHold'
  <2>1. file # Torn /\ \A g \in Flags \ undone : file[g] = wish[g]
    BY <1>1, <1>2, Valued DEF WishesHold
  <2>2. \A g \in Flags \ undone' : file'[g] = wish'[g]
    BY <1>1, <1>3, <1>4, <2>1
  <2> QED
    BY <1>3, <2>2, Valued DEF WishesHold
<1>6. StateInv'
  BY <1>1, <1>2, <1>3, <1>4 DEF StateInv, Agrees
<1>7. BaseInv'
  BY <1>1, <1>2, <1>4 DEF BaseInv, Agrees
<1> QED
  BY <1>5, <1>6, <1>7

\* Storage's own copy, with some flags set in it, is put into the file.
LEMMA OwnCopyCarried ==
  ASSUME IInv, alive, alive' = alive, base' = base,
         NEW d \in Documents, NEW mine, CarryOut(d, mine, unseen),
         \A g \in Flags \ mine : d[g] = Value(state, g),
         behind' = [e \in Editors |-> behind[e] \cup mine]
  PROVE  StateInv' /\ BaseInv' /\ WishesHold'
<1> USE FlagAssumption
<1>1. TypeOK /\ StateInv /\ BaseInv
  BY DEF IInv
<1>2. state \in Documents \cup {Broken}
  BY <1>1 DEF TypeOK
<1>3. Agrees(d, undone \cup unseen \cup mine)
  BY <1>1, <1>2, Valued DEF StateInv, Agrees
<1>4. \A g \in Flags \ undone' : Value(d, g) = wish'[g]
  BY <1>1, <1>3, Carried
<1>5. file' = d /\ state' = d /\ unseen' = {}
  BY DEF CarryOut
<1>6. StateInv' /\ WishesHold'
  BY <1>4, <1>5 DEF StateInv, WishesHold, Agrees
<1>7. ASSUME NEW e \in Editors PROVE Agrees(base[e], undone \cup behind[e])'
  <2>1. Agrees(base[e], undone \cup behind[e])
    BY <1>1 DEF BaseInv
  <2>2. base[e] \in Documents \cup {Broken} =>
          \A g \in Flags \ (undone' \cup behind[e] \cup mine) : Value(base[e], g) = wish'[g]
    BY <1>1, <2>1, OthersCarried
  <2>3. base'[e] = base[e] /\ behind'[e] = behind[e] \cup mine
    OBVIOUS
  <2> QED
    BY <2>2, <2>3 DEF Agrees
<1> QED
  BY <1>6, <1>7 DEF BaseInv

LEMMA WriteStep ==
  ASSUME IInv, HandleWrite
  PROVE  StateInv' /\ BaseInv' /\ WishesHold'
<1> DEFINE f == Head(mailbox).flag
           v == Head(mailbox).variant
           d == [g \in Flags |-> IF g \in Settable(f) THEN v ELSE state[g]]
<1>1. /\ alive /\ state \in Documents /\ alive' = alive /\ base' = base
      /\ CarryOut(d, Settable(f), unseen)
      /\ behind' = [e \in Editors |-> behind[e] \cup Settable(f)]
  BY DEF HandleWrite, Receive
<1>2. v \in Values
  BY Received, MailKinds DEF IInv, HandleWrite, Receive, Values
<1> HIDE DEF f, v
<1>3. d \in Documents /\ \A g \in Flags \ Settable(f) : d[g] = Value(state, g)
  BY <1>1, <1>2, Valued DEF Documents
<1> HIDE DEF d
<1> QED
  BY <1>1, <1>3, OwnCopyCarried

LEMMA ReplaceStep ==
  ASSUME IInv, HandleReplace
  PROVE  StateInv' /\ BaseInv' /\ WishesHold'
<1> USE FlagAssumption
<1> DEFINE e == Head(mailbox).page
           d == Head(mailbox).document
           mine == Asked(e, d)
<1>1. /\ alive /\ CarryOut(d, mine, behind[e])
      /\ base' = [base EXCEPT ![e] = d]
      /\ behind' = [b \in Editors |-> IF b = e THEN {} ELSE behind[b] \cup mine]
      /\ UNCHANGED alive
  BY DEF HandleReplace, Receive
<1>2. TypeOK /\ StateInv /\ BaseInv
  BY DEF IInv
<1>3. e \in Editors /\ d \in Documents \cup {Broken}
  BY <1>2, Received, MailKinds DEF HandleReplace, Receive
<1>4. \A f \in Flags \ mine : base[e] # None /\ Value(base[e], f) = Value(d, f)
  BY DEF Asked
<1> HIDE DEF e, d, mine
<1>5. Agrees(base[e], undone \cup behind[e])
  BY <1>2, <1>3 DEF BaseInv
<1>6. Agrees(d, undone \cup behind[e] \cup mine)
  <2>1. base[e] \in Documents \cup {Broken, None}
    BY <1>2, <1>3 DEF TypeOK
  <2> QED
    BY <1>4, <1>5, <2>1 DEF Agrees
<1>7. \A f \in Flags \ undone' : Value(d, f) = wish'[f]
  BY <1>1, <1>2, <1>3, <1>6, Carried
<1>8. file' = d /\ state' = d /\ unseen' = {}
  BY <1>1 DEF CarryOut
<1>9. StateInv' /\ WishesHold'
  BY <1>3, <1>7, <1>8 DEF StateInv, WishesHold, Agrees
<1>10. BaseInv'
  <2>1. ASSUME NEW b \in Editors, b # e PROVE Agrees(base[b], undone \cup behind[b])'
    <3>1. Agrees(base[b], undone \cup behind[b])
      BY <1>2 DEF BaseInv
    <3>2. base[b] \in Documents \cup {Broken} =>
            \A g \in Flags \ (undone' \cup behind[b] \cup mine) : Value(base[b], g) = wish'[g]
      BY <1>1, <1>2, <3>1, OthersCarried
    <3>3. base'[b] = base[b] /\ behind'[b] = behind[b] \cup mine
      BY <1>1, <1>2, <1>3, <2>1 DEF TypeOK
    <3> QED
      BY <3>2, <3>3 DEF Agrees
  <2>2. ASSUME NEW b \in Editors, b = e PROVE Agrees(base[b], undone \cup behind[b])'
    <3>1. base'[b] = file' /\ behind'[b] = {}
      BY <1>1, <1>2, <1>8, <2>2 DEF TypeOK
    <3>2. \A f \in Flags \ undone' : Value(file', f) = wish'[f]
      BY <1>7, <1>8
    <3> QED
      BY <3>1, <3>2 DEF Agrees
  <2> QED
    BY <2>1, <2>2 DEF BaseInv
<1> QED
  BY <1>9, <1>10

LEMMA WishStep ==
  ASSUME IInv, [Next]_vars
  PROVE  StateInv' /\ BaseInv' /\ WishesHold'
<1> USE FlagAssumption
<1>1. TypeOK /\ StateInv /\ BaseInv /\ WishesHold
  BY DEF IInv
<1>2. CASE UNCHANGED vars
  BY <1>2, Undisturbed DEF vars
<1>3. ASSUME NEW f \in Flags, NEW v \in Variants, SetFlag(f, v)
      PROVE  StateInv' /\ BaseInv' /\ WishesHold'
  BY <1>3, Undisturbed DEF SetFlag
<1>4. ASSUME NEW e \in Editors, OpenPage(e) \/ Save(e) \/ Close(e) \/ Garble(e) \/ Repair(e)
      PROVE  StateInv' /\ BaseInv' /\ WishesHold'
  <2>1. UNCHANGED <<file, state, alive, base, wish, behind, unseen, undone>>
    BY <1>4 DEF OpenPage, Save, Close, Garble, Repair
  <2> QED
    BY <2>1, Undisturbed
<1>5. ASSUME NEW e \in Editors, NEW f \in Flags, NEW v \in Values, Edit(e, f, v)
      PROVE  StateInv' /\ BaseInv' /\ WishesHold'
  BY <1>5, Undisturbed DEF Edit
<1>6. CASE HandleRead
  <2> DEFINE e == Head(mailbox).page
  <2>1. /\ alive /\ base' = [base EXCEPT ![e] = state]
        /\ behind' = [behind EXCEPT ![e] = unseen]
        /\ UNCHANGED <<file, state, alive, wish, unseen, undone>>
    BY <1>6 DEF HandleRead, Receive
  <2> HIDE DEF e
  <2>2. Agrees(state, undone \cup unseen)
    BY <1>1, <2>1 DEF StateInv
  <2>3. ASSUME NEW b \in Editors PROVE Agrees(base[b], undone \cup behind[b])'
    <3>1. CASE b = e
      BY <1>1, <2>1, <2>2, <3>1 DEF Agrees, TypeOK
    <3>2. CASE b # e
      BY <1>1, <2>1, <3>2 DEF Agrees, BaseInv, TypeOK
    <3> QED
      BY <3>1, <3>2
  <2> QED
    BY <1>1, <2>1, <2>3 DEF StateInv, BaseInv, WishesHold, Agrees
<1>7. CASE HandleWriteBroken
  <2>1. alive /\ state = Broken /\ UNCHANGED <<base, behind>>
    BY <1>7 DEF HandleWriteBroken, Receive
  <2>2. CASE alive' = FALSE /\ UNCHANGED <<file, state, wish, unseen, undone>>
    BY <2>1, <2>2, Undisturbed
  <2>3. CASE alive' = alive /\ CarryOut(NoFlags, {}, unseen)
    <3>1. behind' = [e \in Editors |-> behind[e] \cup {}]
      BY <1>1, <2>1 DEF TypeOK
    <3>2. NoFlags \in Documents /\ \A g \in Flags \ {} : NoFlags[g] = Value(state, g)
      BY <2>1, Valued
    <3> QED
      BY <2>1, <2>3, <3>1, <3>2, OwnCopyCarried
  <2> QED
    BY <1>7, <2>2, <2>3 DEF HandleWriteBroken, Exit
<1>8. CASE WriteFails
  <2>1. /\ alive' = FALSE /\ file' \in {file, Torn}
        /\ UNCHANGED <<state, base, wish, behind, unseen, undone>>
    BY <1>8 DEF WriteFails, Exit
  <2> QED
    BY <1>1, <2>1 DEF StateInv, BaseInv, WishesHold, Agrees
<1>9. CASE Restart
  BY <1>1, <1>9 DEF Restart, StateInv, BaseInv, WishesHold, Agrees
<1>10. CASE RepairByHand
  <2>1. /\ file' \in Documents /\ wish' = file' /\ unseen' = Flags
        /\ behind' = [e \in Editors |-> Flags]
    BY <1>10 DEF RepairByHand
  <2> QED
    BY <2>1, Valued DEF StateInv, BaseInv, WishesHold, Agrees
<1> QED
  BY <1>2, <1>3, <1>4, <1>5, <1>6, <1>7, <1>8, <1>9, <1>10, HandStep, WriteStep, ReplaceStep
     DEF Next

LEMMA Invariance == Spec => []IInv
<1>1. IInv /\ [Next]_vars => IInv'
  BY TypeStep, WishStep DEF IInv
<1> QED
  BY Initially, <1>1, PTL DEF Spec

-----------------------------------------------------------------------------
(***************************************************************************)
(* Storage, its mailbox and the pages keep their types, and while Storage  *)
(* runs, its copy is the file but for edits by hand (storage.ex).          *)
(***************************************************************************)
THEOREM TypeCorrect == Spec => []TypeOK
<1>1. IInv => TypeOK
  BY DEF IInv
<1> QED
  BY Invariance, <1>1, PTL

(***************************************************************************)
(* flagd serves what was last asked of each flag and carried out, except   *)
(* where a copy that was behind was put back: for any number of dashboards *)
(* and editor pages, and whatever fails (storage.ex:34-70).                *)
(***************************************************************************)
THEOREM FlagsKeepWishes == Spec => []WishesHold
<1>1. IInv => WishesHold
  BY DEF IInv
<1> QED
  BY Invariance, <1>1, PTL
=============================================================================
