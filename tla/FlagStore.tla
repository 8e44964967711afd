----------------------------- MODULE FlagStore ------------------------------
(***************************************************************************)
(* The feature flags, as flagd-ui changes them: Storage                    *)
(* (src/src/flagd-ui/lib/flagd_ui/storage.ex), a process with a mailbox    *)
(* that keeps a copy of the flag file flagd serves, and its clients.  A    *)
(* dashboard sets one flag.  An editor page, or a client of the API, reads *)
(* the whole document, changes some flags of its copy, and puts the copy   *)
(* back, as often as it likes.                                             *)
(*                                                                         *)
(* A document gives a flag its default variant, or leaves the flag out.    *)
(* Broken stands for JSON without flags, which an editor may save, and for *)
(* a file left half written, which does not even parse, there is Torn.     *)
(***************************************************************************)
EXTENDS Naturals, Sequences

CONSTANTS Flags, Variants, Editors,
          Absent,        \* no such flag
          Broken, Torn,
          None,          \* no page
          MaxChanges,    \* bound: messages to Storage
          MaxHandEdits,  \* bound: edits of the file behind Storage's back
          MaxCrashes     \* bound: exceptions of File.write!

Values == Variants \cup {Absent}
Documents == [Flags -> Values]

ASSUME FlagAssumption ==
  /\ Flags # {} /\ Absent \notin Variants
  /\ {Broken, Torn, None} \cap Documents = {} /\ Torn # Broken /\ None # Broken
  /\ MaxChanges \in Nat /\ MaxHandEdits \in Nat /\ MaxCrashes \in Nat

Mail ==
  [kind : {"read"}, page : Editors]
  \cup [kind : {"write"}, flag : Flags, variant : Variants]
  \cup [kind : {"replace"}, page : Editors, document : Documents \cup {Broken}]

\* What flagd makes of a flag.
Value(document, f) == IF document \in Documents THEN document[f] ELSE Absent
NoFlags == [f \in Flags |-> Absent]

VARIABLES
  file,     \* what flagd serves
  state,    \* Storage's copy
  alive,    \* Storage runs
  mailbox,  \* calls and casts to Storage
  page,     \* the content of each editor page
  base,     \* history: the document each page has read or put back last
  wish,     \* history: what was last asked of each flag and carried out
  behind,   \* history: flags somebody else has changed since a page was read
  unseen,   \* history: flags edited by hand since Storage read the file
  undone,   \* history: flags set back by a copy that was behind
  changes, handEdits, crashes

vars == <<file, state, alive, mailbox, page, base, wish, behind, unseen,
          undone, changes, handEdits, crashes>>

Init ==
  /\ file \in Documents /\ state = file /\ alive = TRUE
  /\ mailbox = <<>>
  /\ page = [e \in Editors |-> None]
  /\ base = [e \in Editors |-> None]
  /\ wish = file
  /\ behind = [e \in Editors |-> {}]
  /\ unseen = {} /\ undone = {}
  /\ changes = 0 /\ handEdits = 0 /\ crashes = 0

Deliver(m) ==
  /\ changes < MaxChanges
  /\ changes' = changes + 1
  /\ mailbox' = IF alive THEN Append(mailbox, m) ELSE mailbox

\* Dashboard: flag_changed casts, and says "Saved".
SetFlag(f, v) ==
  /\ Deliver([kind |-> "write", flag |-> f, variant |-> v])
  /\ UNCHANGED <<file, state, alive, page, base, wish, behind, unseen, undone, handEdits, crashes>>

\* AdvancedEditor: mount calls Storage, and exits if it is not there.
OpenPage(e) ==
  /\ alive
  /\ page[e] = None
  /\ ~\E i \in DOMAIN mailbox : mailbox[i].kind = "read" /\ mailbox[i].page = e
  /\ Deliver([kind |-> "read", page |-> e])
  /\ UNCHANGED <<file, state, alive, page, base, wish, behind, unseen, undone, handEdits, crashes>>

Edit(e, f, v) ==
  /\ page[e] \in Documents
  /\ page[e][f] # v
  /\ page' = [page EXCEPT ![e][f] = v]
  /\ UNCHANGED <<file, state, alive, mailbox, base, wish, behind, unseen, undone, changes, handEdits, crashes>>

\* The page's text becomes other JSON than a flag document.
Garble(e) ==
  /\ page[e] \in Documents
  /\ page' = [page EXCEPT ![e] = Broken]
  /\ UNCHANGED <<file, state, alive, mailbox, base, wish, behind, unseen, undone, changes, handEdits, crashes>>

Repair(e) ==
  /\ page[e] = Broken
  /\ \E d \in Documents : page' = [page EXCEPT ![e] = d]
  /\ UNCHANGED <<file, state, alive, mailbox, base, wish, behind, unseen, undone, changes, handEdits, crashes>>

\* The page keeps its content, which it will not read again.
Save(e) ==
  /\ page[e] # None
  /\ Deliver([kind |-> "replace", page |-> e, document |-> page[e]])
  /\ UNCHANGED <<file, state, alive, page, base, wish, behind, unseen, undone, handEdits, crashes>>

Close(e) ==
  /\ page[e] # None
  /\ page' = [page EXCEPT ![e] = None]
  /\ UNCHANGED <<file, state, alive, mailbox, base, wish, behind, unseen, undone, changes, handEdits, crashes>>

\* The flag file is also a file: it is mounted from the repository.
EditByHand(f, v) ==
  /\ file \in Documents /\ file[f] # v
  /\ handEdits < MaxHandEdits /\ handEdits' = handEdits + 1
  /\ file' = [file EXCEPT ![f] = v]
  /\ wish' = [wish EXCEPT ![f] = v]
  /\ unseen' = unseen \cup {f}
  /\ undone' = undone \ {f}
  /\ behind' = [e \in Editors |-> behind[e] \cup {f}]
  /\ UNCHANGED <<state, alive, mailbox, page, base, changes, crashes>>

RepairByHand ==
  /\ file \in {Broken, Torn}
  /\ handEdits < MaxHandEdits /\ handEdits' = handEdits + 1
  /\ file' \in Documents
  /\ wish' = file'
  /\ unseen' = Flags
  /\ undone' = {}
  /\ behind' = [e \in Editors |-> Flags]
  /\ UNCHANGED <<state, alive, mailbox, page, base, changes, crashes>>

-----------------------------------------------------------------------------
\* The copy of a document that Storage or a page has is put into the file:
\* `mine` are the flags it was asked to set, `old` those it has old values of.
CarryOut(document, mine, old) ==
  /\ file' = document /\ state' = document
  /\ wish' = [f \in Flags |-> IF f \in mine THEN Value(document, f) ELSE wish[f]]
  /\ undone' = (undone \ mine) \cup (old \ mine)
  /\ unseen' = {}

Exit == alive' = FALSE /\ mailbox' = <<>>

Receive(kind) ==
  /\ alive /\ mailbox # <<>>
  /\ Head(mailbox).kind = kind

HandleRead ==
  /\ Receive("read")
  /\ mailbox' = Tail(mailbox)
  /\ LET e == Head(mailbox).page
     IN /\ page' = [page EXCEPT ![e] = state]
        /\ base' = [base EXCEPT ![e] = state]
        /\ behind' = [behind EXCEPT ![e] = unseen]
  /\ UNCHANGED <<file, state, alive, wish, unseen, undone, changes, handEdits, crashes>>

\* A flag that the document does not have any more is not set, though the
\* dashboard has said that it was.
Settable(f) == IF state[f] = Absent THEN {} ELSE {f}

\* Mutant of HandleWrite: Storage's own copy is not replaced.
HandleWriteForgets ==
  /\ Receive("write") /\ state \in Documents
  /\ mailbox' = Tail(mailbox)
  /\ LET f == Head(mailbox).flag
         document == [g \in Flags |-> IF g \in Settable(f) THEN Head(mailbox).variant ELSE state[g]]
     IN /\ file' = document
        /\ wish' = [g \in Flags |-> IF g \in Settable(f) THEN document[g] ELSE wish[g]]
        /\ undone' = (undone \cup unseen) \ Settable(f) /\ unseen' = {}
        /\ behind' = [e \in Editors |-> behind[e] \cup Settable(f)]
  /\ UNCHANGED <<state, alive, page, base, changes, handEdits, crashes>>

HandleWrite ==
  /\ Receive("write") /\ state \in Documents
  /\ mailbox' = Tail(mailbox)
  /\ LET f == Head(mailbox).flag
         document == [g \in Flags |-> IF g \in Settable(f) THEN Head(mailbox).variant ELSE state[g]]
     IN /\ CarryOut(document, Settable(f), unseen)
        /\ behind' = [e \in Editors |-> behind[e] \cup Settable(f)]
  /\ UNCHANGED <<alive, page, base, changes, handEdits, crashes>>

\* Map.update raises on what is no map, and gives a map without flags an
\* empty list of them.
HandleWriteBroken ==
  /\ Receive("write") /\ state = Broken
  /\ \/ Exit /\ UNCHANGED <<file, state, wish, unseen, undone>>
     \/ /\ mailbox' = Tail(mailbox) /\ UNCHANGED alive
        /\ CarryOut(NoFlags, {}, unseen)
  /\ UNCHANGED <<page, base, behind, changes, handEdits, crashes>>

\* The flags of which the copy that is put back asks for something else than
\* the document it was made from.
Asked(e, document) ==
  {f \in Flags : base[e] = None \/ Value(base[e], f) # Value(document, f)}

\* The page that is put back has the document's values from here on.
HandleReplace ==
  /\ Receive("replace")
  /\ mailbox' = Tail(mailbox)
  /\ LET e == Head(mailbox).page
         document == Head(mailbox).document
         mine == Asked(e, document)
     IN /\ CarryOut(document, mine, behind[e])
        /\ base' = [base EXCEPT ![e] = document]
        /\ behind' = [d \in Editors |-> IF d = e THEN {} ELSE behind[d] \cup mine]
  /\ UNCHANGED <<alive, page, changes, handEdits, crashes>>

\* File.write! raises, before or after it has truncated the file.
WriteFails ==
  /\ alive /\ mailbox # <<>> /\ Head(mailbox).kind \in {"write", "replace"}
  /\ crashes < MaxCrashes /\ crashes' = crashes + 1
  /\ file' \in {file, Torn}
  /\ Exit
  /\ UNCHANGED <<state, page, base, wish, behind, unseen, undone, changes, handEdits>>

\* Mutant of Restart: the copy of the last process is taken over.
RestartWithOldCopy ==
  /\ ~alive /\ file # Torn
  /\ alive' = TRUE
  /\ unseen' = {}
  /\ UNCHANGED <<file, state, mailbox, page, base, wish, behind, undone, changes, handEdits, crashes>>

\* The supervisor starts Storage again, whose init reads the file.  It raises
\* as long as the file is torn.
Restart ==
  /\ ~alive /\ file # Torn
  /\ alive' = TRUE
  /\ state' = file
  /\ unseen' = {}
  /\ UNCHANGED <<file, mailbox, page, base, wish, behind, undone, changes, handEdits, crashes>>

Next ==
  \/ \E f \in Flags, v \in Variants : SetFlag(f, v)
  \/ \E f \in Flags, v \in Values : EditByHand(f, v)
  \/ \E e \in Editors : OpenPage(e) \/ Save(e) \/ Close(e) \/ Garble(e) \/ Repair(e)
  \/ \E e \in Editors, f \in Flags, v \in Values : Edit(e, f, v)
  \/ HandleRead \/ HandleWrite \/ HandleWriteBroken \/ HandleReplace
  \/ WriteFails \/ Restart \/ RepairByHand

Spec == Init /\ [][Next]_vars

-----------------------------------------------------------------------------
TypeOK ==
  /\ file \in Documents \cup {Broken, Torn}
  /\ state \in Documents \cup {Broken}
  /\ alive \in BOOLEAN
  /\ mailbox \in Seq(Mail) /\ Len(mailbox) <= changes
  /\ page \in [Editors -> Documents \cup {Broken, None}]
  /\ base \in [Editors -> Documents \cup {Broken, None}]
  /\ wish \in Documents
  /\ behind \in [Editors -> SUBSET Flags]
  /\ unseen \subseteq Flags /\ undone \subseteq Flags
  /\ changes \in 0 .. MaxChanges /\ handEdits \in 0 .. MaxHandEdits /\ crashes \in 0 .. MaxCrashes
  /\ alive => state = file \/ unseen # {}

\* What flagd serves is what was last asked of each flag and carried out,
\* except where somebody put back a copy that was behind: an editor page that
\* was read before, or Storage's copy after an edit by hand.  Dashboards among
\* themselves undo nothing, and neither does a crash.
WishesHold == file # Torn => \A f \in Flags \ undone : Value(file, f) = wish[f]

\* storage.ex:6: Storage is there "to linearize reads and writes preventing
\* conflicts and last-writer-wins": setting a flag is not undone by somebody
\* who did not touch that flag.
NothingIsUndone ==
  (file # Torn /\ unseen = {}) => \A f \in Flags : Value(file, f) = wish[f]
=============================================================================
