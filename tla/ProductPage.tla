---------------------------- MODULE ProductPage -----------------------------
(***************************************************************************)
(* The page of a product, and the questions its visitor asks the AI        *)
(* assistant (src/src/frontend/providers/ProductAIAssistant.provider.tsx,  *)
(* components/ProductReviews/ProductReviews.tsx).  The page stays when     *)
(* another product is opened from it, and so does the mutation observer of *)
(* TanStack Query (external) that follows one question at a time.          *)
(*                                                                         *)
(* The product on the screen changes with a render, what the assistant is  *)
(* asked about and what it shows in the effects of that render, which      *)
(* React (external) runs after it and before the next one.                 *)
(***************************************************************************)
EXTENDS Naturals, Sequences

CONSTANTS Products,
          MaxQuestions   \* bound: questions asked

VARIABLES
  product,   \* the product on the screen
  subject,   \* the product the question function asks about
  typed,     \* whether the question field holds a question
  asked,     \* the questions sent: what each is about, and how it went
  follows,   \* the question the observer follows, 0 if none
  display,   \* what it shows: "nothing", "loading", "error", or "answer"
  of         \* the question whose outcome is on the screen, 0 if none

vars == <<product, subject, typed, asked, follows, display, of>>

Init ==
  /\ product \in Products /\ subject = product /\ typed = FALSE
  /\ asked = <<>> /\ follows = 0 /\ display = "nothing" /\ of = 0

-----------------------------------------------------------------------------
Type ==
  /\ typed' = ~typed
  /\ UNCHANGED <<product, subject, asked, follows, display, of>>

\* handleAskAI: the last result is cleared, and the observer leaves the
\* question it was following for the new one.
Send ==
  /\ Len(asked) < MaxQuestions
  /\ asked' = Append(asked, [about |-> subject, state |-> "pending"])
  /\ follows' = Len(asked) + 1
  /\ display' = "loading" /\ of' = 0

\* The button and the Enter key wait until there is an answer.
Ask == typed /\ display # "loading" /\ Send /\ UNCHANGED <<product, subject, typed>>

\* The quick prompts do not: a question may overtake another.
QuickPrompt == Send /\ typed' = TRUE /\ UNCHANGED <<product, subject>>

\* Mutant of Reply: whichever answer arrives is shown.
ReplyShownAlways(i, ok) ==
  /\ asked[i].state = "pending"
  /\ asked' = [asked EXCEPT ![i].state = "done"]
  /\ display' = IF ok THEN "answer" ELSE "error"
  /\ of' = i
  /\ UNCHANGED <<product, subject, typed, follows>>

\* The route answers or fails.  Questions the observer has left are answered
\* all the same, and nobody is told.
Reply(i, ok) ==
  /\ asked[i].state = "pending"
  /\ asked' = [asked EXCEPT ![i].state = "done"]
  /\ IF i = follows THEN display' = (IF ok THEN "answer" ELSE "error") /\ of' = i
                    ELSE UNCHANGED <<display, of>>
  /\ UNCHANGED <<product, subject, typed, follows>>

\* Another product is rendered, with the answer about the one before.
Open(p) ==
  /\ subject = product /\ p # product
  /\ product' = p
  /\ UNCHANGED <<subject, typed, asked, follows, display, of>>

\* Its effects: useMutation takes the new question function, and then the
\* provider resets the assistant.
Effects ==
  /\ subject # product
  /\ subject' = product
  /\ follows' = 0 /\ display' = "nothing" /\ of' = 0
  /\ UNCHANGED <<product, typed, asked>>

Next ==
  \/ Type \/ Ask \/ QuickPrompt \/ Effects
  \/ \E i \in DOMAIN asked, ok \in BOOLEAN : Reply(i, ok)
  \/ \E p \in Products : Open(p)

Spec == Init /\ [][Next]_vars

-----------------------------------------------------------------------------
(***************************************************************************)
(* What the assistant shows is the outcome of the last question, about the *)
(* product on the screen, or in the moment between a render and its        *)
(* effects about the one that was there before: an earlier question that   *)
(* is answered late, and one about a product long left, never shows.       *)
(***************************************************************************)
AnswerFits ==
  /\ of # 0 => /\ of = Len(asked)
               /\ asked[of].about = subject
  /\ display = "loading" <=> follows # 0 /\ asked[follows].state = "pending"
=============================================================================
