--------------------------- MODULE CartConnection ---------------------------
(***************************************************************************)
(* The Valkey connection that all calls of the cart service share:         *)
(* EnsureRedisConnected (src/src/cart/src/cartstore/ValkeyCartStore.cs:    *)
(* 74-130), with the event handlers it subscribes.                         *)
(*                                                                         *)
(* A connection is a ConnectionMultiplexer, external: it loses its link    *)
(* and gets it back by itself, and tells those subscribed at that time.    *)
(* None is ever disposed, so that the handlers of one that has been        *)
(* replaced go on setting the flag.  With abortConnect=false, Connect      *)
(* returns a multiplexer whether or not it has a link.                     *)
(***************************************************************************)
EXTENDS Naturals

CONSTANTS Threads, None,
          MaxDrops,  \* bound: links lost
          MaxErrors  \* bound: attempts to open a connection that throw

ASSUME ConnectionAssumption ==
  None \notin Threads /\ MaxDrops \in Nat /\ MaxErrors \in Nat

VARIABLES
  where,     \* idle, lock, connect, test, subscribe or open
  locker,    \* the thread in the locked section
  opened,    \* how many multiplexers have been made: they are 1 .. opened
  redis,     \* _redis, 0 for null
  flag,      \* _isRedisConnectionOpened
  linked,    \* multiplexers that have a link
  heard,     \* multiplexers whose events are handled
  drops,     \* history: links lost
  errors     \* history: attempts that threw

connVars == <<where, locker, opened, redis, flag, linked, heard, drops, errors>>

ConnInit ==
  /\ where = [t \in Threads |-> "idle"]
  /\ locker = None /\ opened = 0 /\ redis = 0 /\ flag = FALSE
  /\ linked = {} /\ heard = {} /\ drops = 0 /\ errors = 0

At(t, place) == where[t] = place
GoTo(t, place) == where' = [where EXCEPT ![t] = place]

\* The flag is read without the lock.
Pass(t) == At(t, "idle") /\ flag /\ UNCHANGED connVars

Wait(t) ==
  /\ At(t, "idle") /\ ~flag
  /\ GoTo(t, "lock")
  /\ UNCHANGED <<locker, opened, redis, flag, linked, heard, drops, errors>>

\* Mutant of Enter: the flag is not read again in the locked section.
EnterUnchecked(t) ==
  /\ At(t, "lock") /\ locker = None
  /\ GoTo(t, "connect") /\ locker' = t
  /\ UNCHANGED <<opened, redis, flag, linked, heard, drops, errors>>

\* The flag is read again in the locked section.
Enter(t) ==
  /\ At(t, "lock") /\ locker = None
  /\ \/ flag /\ GoTo(t, "idle") /\ UNCHANGED locker
     \/ ~flag /\ GoTo(t, "connect") /\ locker' = t
  /\ UNCHANGED <<opened, redis, flag, linked, heard, drops, errors>>

\* Mutant of Throw: the section is left without giving the lock back.
ThrowLocked(t) ==
  /\ errors < MaxErrors
  /\ errors' = errors + 1
  /\ GoTo(t, "idle") /\ UNCHANGED locker

\* An exception leaves the locked section.
Throw(t) ==
  /\ errors < MaxErrors
  /\ errors' = errors + 1
  /\ GoTo(t, "idle") /\ locker' = None

\* _redis is replaced before it is known whether it has a link, unless
\* ConnectionMultiplexer.Connect itself throws.
Connect(t) ==
  /\ At(t, "connect")
  /\ \/ /\ opened' = opened + 1 /\ redis' = opened + 1
        /\ \/ /\ GoTo(t, "test")
              /\ linked' = linked \cup {opened + 1}
              /\ UNCHANGED <<locker, errors>>
           \/ Throw(t) /\ UNCHANGED linked
     \/ Throw(t) /\ UNCHANGED <<opened, redis, linked>>
  /\ UNCHANGED <<flag, heard, drops>>

\* StringSet and StringGet time out without a link, and may with one.
Test(t) ==
  /\ At(t, "test")
  /\ \/ redis \in linked /\ GoTo(t, "subscribe") /\ UNCHANGED <<locker, errors>>
     \/ Throw(t)
  /\ UNCHANGED <<opened, redis, flag, linked, heard, drops>>

Subscribe(t) ==
  /\ At(t, "subscribe")
  /\ heard' = heard \cup {redis}
  /\ GoTo(t, "open")
  /\ UNCHANGED <<locker, opened, redis, flag, linked, drops, errors>>

\* Mutant of Open: the lock is kept.
OpenLocked(t) ==
  /\ At(t, "open")
  /\ flag' = TRUE
  /\ GoTo(t, "idle")
  /\ UNCHANGED <<locker, opened, redis, linked, heard, drops, errors>>

Open(t) ==
  /\ At(t, "open")
  /\ flag' = TRUE
  /\ GoTo(t, "idle") /\ locker' = None
  /\ UNCHANGED <<opened, redis, linked, heard, drops, errors>>

\* ConnectionFailed and ConnectionRestored, of any multiplexer ever made
ConnectionFailed(m) ==
  /\ m \in linked /\ drops < MaxDrops
  /\ drops' = drops + 1
  /\ linked' = linked \ {m}
  /\ flag' = (flag /\ m \notin heard)
  /\ UNCHANGED <<where, locker, opened, redis, heard, errors>>

ConnectionRestored(m) ==
  /\ m \in (1 .. opened) \ linked
  /\ linked' = linked \cup {m}
  /\ flag' = (flag \/ m \in heard)
  /\ UNCHANGED <<where, locker, opened, redis, heard, drops, errors>>

Step(t) == Enter(t) \/ Connect(t) \/ Test(t) \/ Subscribe(t) \/ Open(t)

ConnNext ==
  \/ \E t \in Threads : Pass(t) \/ Wait(t) \/ Step(t)
  \/ \E m \in 1 .. opened : ConnectionFailed(m) \/ ConnectionRestored(m)

ConnSpec == ConnInit /\ [][ConnNext]_connVars

\* Calls keep coming, threads run, the lock is fair enough, and a multiplexer
\* reconnects.
ConnFairness ==
  /\ \A t \in Threads : WF_connVars(Wait(t)) /\ WF_connVars(Step(t)) /\ SF_connVars(Enter(t))
  /\ \A m \in 1 .. 1 + MaxDrops + MaxErrors : WF_connVars(ConnectionRestored(m))

ConnFairSpec == ConnSpec /\ ConnFairness

-----------------------------------------------------------------------------
Inside(t) == where[t] \in {"connect", "test", "subscribe", "open"}

ConnTypeOK ==
  /\ where \in [Threads -> {"idle", "lock", "connect", "test", "subscribe", "open"}]
  /\ locker \in Threads \cup {None}
  /\ \A t \in Threads : Inside(t) <=> locker = t
  /\ opened \in Nat /\ redis = opened /\ flag \in BOOLEAN
  /\ linked \subseteq 1 .. opened /\ heard \subseteq 1 .. opened
  /\ drops \in 0 .. MaxDrops /\ errors \in 0 .. MaxErrors

\* Of the threads that find the flag down, one opens a connection: each one
\* opened after the first answers to a link lost or an attempt that threw.
OpeningsArePaidFor == opened <= 1 + drops + errors

\* A thread that waits for the lock gets out again.
WaitersReturn == \A t \in Threads : where[t] = "lock" ~> where[t] = "idle"

\* Whatever links were lost and attempts threw, in the end the flag is up, and
\* so is the connection it stands for.
ServiceRecovers == <>[](flag /\ redis \in linked)
=============================================================================
