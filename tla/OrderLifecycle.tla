--------------------------- MODULE OrderLifecycle ---------------------------
(***************************************************************************)
(* What checkout promises about an order, without the calls it makes to    *)
(* keep the promise: nothing is sent that is not paid for, nothing is      *)
(* recorded or confirmed that is not sent, and the answer to the customer  *)
(* agrees with what has become of the order.  It does not promise to send  *)
(* what is paid for, nor to give the money back.                           *)
(***************************************************************************)
CONSTANT Calls

VARIABLES paid,     \* orders the customer was charged for
          sent,     \* orders shipped
          settled,  \* orders whose cart was emptied
          known,    \* orders the customer was mailed or the back office told about
          answer    \* the status returned for each order

vars == <<paid, sent, settled, known, answer>>

Init ==
  /\ paid = {} /\ sent = {} /\ settled = {} /\ known = {}
  /\ answer = [c \in Calls |-> "none"]

Pay(c) ==
  /\ paid' = paid \cup {c}
  /\ UNCHANGED <<sent, settled, known, answer>>

Send(c) ==
  /\ c \in paid
  /\ answer[c] # "Internal"
  /\ sent' = sent \cup {c}
  /\ UNCHANGED <<paid, settled, known, answer>>

Settle(c) ==
  /\ c \in sent
  /\ settled' = settled \cup {c}
  /\ UNCHANGED <<paid, sent, known, answer>>

Tell(c) ==
  /\ c \in sent
  /\ known' = known \cup {c}
  /\ UNCHANGED <<paid, sent, settled, answer>>

Answer(c, status) ==
  /\ answer[c] = "none"
  /\ \/ status = "OK" /\ c \in sent
     \/ status = "Unavailable" /\ c \in paid
     \/ status = "Internal" /\ c \notin sent
  /\ answer' = [answer EXCEPT ![c] = status]
  /\ UNCHANGED <<paid, sent, settled, known>>

\* Checkout fails before it has answered the calls in S.
Abandon(S) ==
  /\ \A c \in S : answer[c] = "none"
  /\ answer' = [c \in Calls |-> IF c \in S THEN "lost" ELSE answer[c]]
  /\ UNCHANGED <<paid, sent, settled, known>>

Next ==
  \/ \E c \in Calls : Pay(c) \/ Send(c) \/ Settle(c) \/ Tell(c)
  \/ \E c \in Calls, status \in {"OK", "Unavailable", "Internal"} : Answer(c, status)
  \/ \E S \in SUBSET Calls : Abandon(S)

Spec == Init /\ [][Next]_vars
=============================================================================
