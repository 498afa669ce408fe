--------------------------- MODULE SseBrokerProofs ---------------------------
(***************************************************************************)
(* Proofs about SseBroker, for any number of connections, publishers and   *)
(* broadcasts.                                                             *)
(***************************************************************************)
EXTENDS SseBroker, TLAPS

-----------------------------------------------------------------------------
(* The inductive invariant.  TypeOK alone is not one: that waiting holds    *)
(* registered clients only needs that nobody is unregistered during a       *)
(* fan-out, and that a registered client reads needs to know where both     *)
(* goroutines of its connection are.                                        *)

\* Listen does not run before SyncStats has ended.
ListensAfterSync == main = "sync" <=> listener = "off"

\* Events wait for clients only inside the loop over them.
WaitingInFanout == listener # "fanout" => waiting = {}

\* A connection is registered from the receive of its newClients send to the
\* receive of its closingClients send.
RegisteredWatched == \A c \in Conns : c \in clients <=> watching[c] \in {"waiting", "closing"}

\* Its handler is in the loop that reads messageChan from the first on.
WatchedReads == \A c \in Conns : watching[c] # "none" <=> serving[c] \in {"reading", "writing"}

Inv == /\ TypeOK
       /\ ListensAfterSync
       /\ WaitingInFanout
       /\ RegisteredWatched
       /\ WatchedReads

(* The invariant holds at the start of main.                                *)
LEMMA InvInit == Init => Inv
  BY SseAssumption DEF Init, Inv, TypeOK, ListensAfterSync, WaitingInFanout,
                       RegisteredWatched, WatchedReads, Capacity

(* Every step of main, the broker, its publishers and its connections keeps *)
(* the types, and only registered clients wait for an event.                *)
LEMMA TypeStep == Inv /\ [Next]_vars => TypeOK'
<1>. SUFFICES ASSUME Inv, [Next]_vars PROVE TypeOK'
  OBVIOUS
<1>. USE SseAssumption DEF Inv, TypeOK, Capacity
<1>1. CASE Boot \/ BootUnsent \/ Callback \/ CallbackError
  BY <1>1 DEF Boot, BootUnsent, Start, Callback, CallbackError, CallbackEnds, SendToNotifier,
              StatsError
<1>2. CASE Receive \/ FanoutDone
  BY <1>2 DEF Receive, FanoutDone
<1>3. ASSUME NEW p \in Publishers, StartBroadcast(p) \/ Broadcast(p) PROVE TypeOK'
  BY <1>3 DEF StartBroadcast, Broadcast, SendToNotifier
<1>4. ASSUME NEW c \in Conns, Connect(c) \/ Join(c) \/ Written(c) \/ Disconnect(c) PROVE TypeOK'
  BY <1>4 DEF Connect, Join, Written, Disconnect
<1>5. ASSUME NEW c \in Conns, Unregister(c) PROVE TypeOK'
  <2>1. waiting = {}
    BY <1>5 DEF Unregister, WaitingInFanout
  <2>. QED
    BY <1>5, <2>1 DEF Unregister
<1>6. ASSUME NEW c \in Conns, SendToClient(c) PROVE TypeOK'
  BY <1>6 DEF SendToClient
<1>7. CASE UNCHANGED vars
  BY <1>7 DEF vars
<1>. QED
  BY <1>1, <1>2, <1>3, <1>4, <1>5, <1>6, <1>7 DEF Next

(* Listen starts once, after SyncStats, and leaves a fan-out only when      *)
(* every client has been sent the event.                                    *)
LEMMA ListenStep == Inv /\ [Next]_vars => (ListensAfterSync /\ WaitingInFanout)'
<1>. SUFFICES ASSUME Inv, [Next]_vars PROVE (ListensAfterSync /\ WaitingInFanout)'
  OBVIOUS
<1>. USE DEF Inv, ListensAfterSync, WaitingInFanout
<1>1. CASE Boot \/ BootUnsent \/ Callback \/ CallbackError \/ Receive \/ FanoutDone
  BY <1>1 DEF Boot, BootUnsent, Start, Callback, CallbackError, CallbackEnds, Receive, FanoutDone
<1>2. ASSUME NEW p \in Publishers, StartBroadcast(p) \/ Broadcast(p)
      PROVE (ListensAfterSync /\ WaitingInFanout)'
  BY <1>2 DEF StartBroadcast, Broadcast
<1>3. ASSUME NEW c \in Conns,
             Connect(c) \/ Join(c) \/ Written(c) \/ Disconnect(c) \/ Unregister(c) \/ SendToClient(c)
      PROVE (ListensAfterSync /\ WaitingInFanout)'
  BY <1>3 DEF Connect, Join, Written, Disconnect, Unregister, SendToClient
<1>4. CASE UNCHANGED vars
  BY <1>4 DEF vars
<1>. QED
  BY <1>1, <1>2, <1>3, <1>4 DEF Next

(* A handler enters its loop as it is registered, and nothing leads out of  *)
(* it; the end of the request moves only its other goroutine.               *)
LEMMA ConnectionStep == Inv /\ [Next]_vars => (RegisteredWatched /\ WatchedReads)'
<1>. SUFFICES ASSUME Inv, [Next]_vars PROVE (RegisteredWatched /\ WatchedReads)'
  OBVIOUS
<1>. USE DEF Inv, TypeOK, RegisteredWatched, WatchedReads
<1>1. CASE Boot \/ BootUnsent \/ Callback \/ CallbackError \/ Receive \/ FanoutDone
  BY <1>1 DEF Boot, BootUnsent, Start, Callback, CallbackError, CallbackEnds, Receive, FanoutDone
<1>2. ASSUME NEW p \in Publishers, StartBroadcast(p) \/ Broadcast(p)
      PROVE (RegisteredWatched /\ WatchedReads)'
  BY <1>2 DEF StartBroadcast, Broadcast
<1>3. ASSUME NEW c \in Conns, Connect(c) \/ Join(c) PROVE (RegisteredWatched /\ WatchedReads)'
  BY <1>3 DEF Connect, Join
<1>4. ASSUME NEW c \in Conns, Disconnect(c) \/ Unregister(c) PROVE (RegisteredWatched /\ WatchedReads)'
  BY <1>4 DEF Disconnect, Unregister
<1>5. ASSUME NEW c \in Conns, Written(c) \/ SendToClient(c) PROVE (RegisteredWatched /\ WatchedReads)'
  BY <1>5 DEF Written, SendToClient
<1>6. CASE UNCHANGED vars
  BY <1>6 DEF vars
<1>. QED
  BY <1>1, <1>2, <1>3, <1>4, <1>5, <1>6 DEF Next

(* So the broker never leaves the invariant.                                *)
THEOREM Invariant == Spec => []Inv
<1>1. Inv /\ [Next]_vars => Inv'
  BY TypeStep, ListenStep, ConnectionStep DEF Inv
<1>. QED
  BY InvInit, <1>1, PTL DEF Spec

(* The channels, the broker's client set and the connections have the       *)
(* values the code gives them; at most one event is buffered and only       *)
(* registered clients wait for one.                                         *)
THEOREM TypeCorrect == Spec => []TypeOK
<1>1. Inv => TypeOK
  BY DEF Inv
<1>. QED
  BY <1>1, Invariant, PTL

(* Listen never waits for a handler that has stopped reading: whoever is    *)
(* registered will receive from messageChan, also after its browser left.   *)
THEOREM ClientsCanBeSentTo == Spec => []RegisteredReads
<1>1. Inv => RegisteredReads
  BY DEF Inv, TypeOK, RegisteredWatched, WatchedReads, RegisteredReads
<1>. QED
  BY <1>1, Invariant, PTL
=============================================================================
