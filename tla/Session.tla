------------------------------ MODULE Session -------------------------------
(***************************************************************************)
(* Who the shopper is: a user id that each program start makes up, and     *)
(* that the first one to find none in its store leaves there for the rest  *)
(* (gateways/Session.gateway.ts of src/src/frontend and of                 *)
(* src/src/react-native-app).  A cart is filled and ordered under this id. *)
(* This module is about one store: the localStorage that all tabs of a     *)
(* browser share, or the AsyncStorage of the app on a phone.               *)
(*                                                                         *)
(* A tab calls getSession while its modules are loaded and keeps the id:   *)
(* Api.gateway.ts:11 first, CartDetail.tsx:14 on the first visit of the    *)
(* cart page.  The phone calls it for every request.  Reading the store    *)
(* and writing to it are two steps, which other tabs, and on the phone     *)
(* other calls, can come between.  The frontend's server loads the same    *)
(* modules to render a page: there getSession returns an id of its own     *)
(* (Session.gateway.ts:19), it stores nothing, and no request is sent      *)
(* under that id, since only a browser runs the queries and the handlers.  *)
(***************************************************************************)
EXTENDS Naturals, FiniteSets

CONSTANTS Clients,        \* the tabs of the browser, or the app
          OnPhone,        \* which of the two it is
          Requests,       \* the phone's requests, which may be concurrent
          MaxStarts       \* bound: times a client is started

VARIABLES
  stored,    \* the user id in the store, 0 if there is none
  own,       \* the id a client's process made up, 0 if it is not running
  missing,   \* the getSession calls of a client that have found none
  known,     \* what each getSession call has returned, 0 if nothing
  starts,
  disturbed  \* history: the store was cleared, or two processes found it
             \* empty before either had written to it

vars == <<stored, own, missing, known, starts, disturbed>>

\* "api" and "detail" are module-level copies, "value" is setSessionValue's.
Purposes == IF OnPhone THEN Requests ELSE {"api", "detail", "value"}

Init ==
  /\ stored = 0
  /\ own = [c \in Clients |-> 0]
  /\ missing = [c \in Clients |-> {}]
  /\ known = [c \in Clients |-> [p \in Purposes |-> 0]]
  /\ starts = 0 /\ disturbed = FALSE

\* defaultSession is made when the module is loaded.
Start(c) ==
  /\ own[c] = 0 /\ starts < MaxStarts
  /\ starts' = starts + 1
  /\ own' = [own EXCEPT ![c] = starts + 1]
  /\ UNCHANGED <<stored, missing, known, disturbed>>

\* A tab does one thing at a time, and loads the gateway first.
MayAsk(c, p) ==
  /\ own[c] # 0
  /\ known[c][p] = 0 /\ p \notin missing[c]
  /\ ~OnPhone => missing[c] = {} /\ (p # "api" => known[c]["api"] # 0)

\* What getSession has read.  If it is nothing, a write is to follow.
FoundMissing(c, p) ==
  IF stored # 0 THEN UNCHANGED <<missing, disturbed>>
  ELSE /\ missing' = [missing EXCEPT ![c] = @ \cup {p}]
       /\ disturbed' = (disturbed \/ \E d \in Clients \ {c} : missing[d] # {})

\* Mutant of GetItem: the cart page takes the id of its own process.
GetItemOwnDetail(c, p) ==
  /\ MayAsk(c, p)
  /\ known' = [known EXCEPT ![c][p] =
                IF p = "detail" THEN own[c] ELSE stored]
  /\ FoundMissing(c, p)
  /\ UNCHANGED <<stored, own, starts>>

\* getSession reads the store.
GetItem(c, p) ==
  /\ MayAsk(c, p)
  /\ known' = [known EXCEPT ![c][p] = stored]
  /\ FoundMissing(c, p)
  /\ UNCHANGED <<stored, own, starts>>

\* It found none: it stores the process's own id, and returns it.
SetItem(c, p) ==
  /\ p \in missing[c]
  /\ stored' = own[c]
  /\ missing' = [missing EXCEPT ![c] = @ \ {p}]
  /\ known' = [known EXCEPT ![c][p] = own[c]]
  /\ UNCHANGED <<own, starts, disturbed>>

\* setSessionValue writes the session it has read, with another currency.
WriteBack(c) ==
  /\ ~OnPhone /\ known[c]["value"] # 0
  /\ stored' = known[c]["value"]
  /\ known' = [known EXCEPT ![c]["value"] = 0]
  /\ UNCHANGED <<own, missing, starts, disturbed>>

\* A request of the phone has been sent.
Sent(c, p) ==
  /\ OnPhone /\ known[c][p] # 0
  /\ known' = [known EXCEPT ![c][p] = 0]
  /\ UNCHANGED <<stored, own, missing, starts, disturbed>>

\* The tab is closed or reloaded, the app is ended: at any point.
Stop(c) ==
  /\ own[c] # 0
  /\ own' = [own EXCEPT ![c] = 0]
  /\ missing' = [missing EXCEPT ![c] = {}]
  /\ known' = [known EXCEPT ![c] = [p \in Purposes |-> 0]]
  /\ UNCHANGED <<stored, starts, disturbed>>

\* The user clears the site's or the app's data.
Clear ==
  /\ stored # 0
  /\ stored' = 0
  /\ disturbed' = TRUE
  /\ UNCHANGED <<own, missing, known, starts>>

Next ==
  \/ \E c \in Clients : Start(c) \/ Stop(c) \/ WriteBack(c)
  \/ \E c \in Clients, p \in Purposes : GetItem(c, p) \/ SetItem(c, p) \/ Sent(c, p)
  \/ Clear

Spec == Init /\ [][Next]_vars

-----------------------------------------------------------------------------
(***************************************************************************)
(* A shopper is one shopper: unless the store is disturbed, an id in use   *)
(* is the one that is stored, so that what one tab puts into a cart, every *)
(* tab and every later start of the program shows and orders.  Otherwise   *)
(* CartDetail.tsx:14 orders the cart of a user that Api.gateway.ts:11 has  *)
(* put nothing into.                                                       *)
(***************************************************************************)
OneShopper ==
  ~disturbed =>
    \A c \in Clients, p \in Purposes : known[c][p] # 0 => known[c][p] = stored
=============================================================================
