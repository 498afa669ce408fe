------------------------------ MODULE SseBroker ------------------------------
(***************************************************************************)
(* Pushing statistics to the dashboards: sse.Broker, the goroutines that   *)
(* send to its channels, and the order in which main starts them.          *)
(*                                                                         *)
(* Notifier is a buffered Go channel; newClients, closingClients and each  *)
(* client's messageChan are unbuffered, so a send on them is one step of   *)
(* sender and receiver together.                                           *)
(***************************************************************************)
EXTENDS Naturals, FiniteSets

CONSTANTS Conns,        \* HTTP connections to /stats/events
          Publishers,   \* goroutines that call BroadcastStats: the worker
                        \*   and the aggregator
          MaxBroadcasts, \* bound on the broadcasts of each publisher
          MaxFaults     \* bound on stats that cannot be read or serialized

ASSUME SseAssumption == MaxBroadcasts \in Nat /\ MaxFaults \in Nat

VARIABLES main,         \* "sync": SyncStats has a broadcast to send; "up" after it
          listener,     \* Listen: "off", "select", "callback" or "fanout"
          buffered,     \* events in Notifier
          clients,      \* broker.clients
          waiting,      \* fanout: clients still to be sent the event
          serving,      \* ServeHTTP per connection: "none", "joining",
                        \*   "reading" from messageChan, "writing" the response
          watching,     \* its goroutine: "none", "waiting" for the end of the
                        \*   request, "closing" (sending), "done"
          welcomed,     \* connections that were written some event
          publisher,    \* "idle" or "sending", per publisher
          broadcasts,   \* broadcasts so far, per publisher
          faults        \* stats not read or serialized so far

vars == <<main, listener, buffered, clients, waiting, serving, watching,
          welcomed, publisher, broadcasts, faults>>

\* Mutant: an unbuffered Notifier.
CapacityNone == 0

\* make(chan []byte, 1)
Capacity == 1

Init == /\ main = "sync"
        /\ listener = "off"
        /\ buffered = 0
        /\ clients = {}
        /\ waiting = {}
        /\ serving = [c \in Conns |-> "none"]
        /\ watching = [c \in Conns |-> "none"]
        /\ welcomed = {}
        /\ publisher = [p \in Publishers |-> "idle"]
        /\ broadcasts = [p \in Publishers |-> 0]
        /\ faults = 0

\* BroadcastStats returns an error before it sends; its callers log that.
StatsError == /\ faults < MaxFaults
              /\ faults' = faults + 1
              /\ UNCHANGED buffered

\* Mutant: a send that does not wait for room.
SendToNotifierAnyway == buffered' = buffered + 1

\* svc.sseServer.Notifier <- jsonBytes
SendToNotifier == /\ buffered < Capacity
                  /\ buffered' = buffered + 1

-----------------------------------------------------------------------------
(* main: SyncStats, which broadcasts once through UpdateAggregateStats,    *)
(* then go Listen, the worker and the HTTP server.                         *)
Start == /\ main = "sync"
         /\ main' = "up"
         /\ listener' = "select"
         /\ UNCHANGED <<clients, waiting, serving, watching, welcomed, publisher, broadcasts>>

Boot == Start /\ SendToNotifier /\ UNCHANGED faults

BootUnsent == Start /\ StatsError

-----------------------------------------------------------------------------
(* BroadcastStats by the worker and the aggregator.                        *)
StartBroadcast(p) ==
    /\ main = "up"
    /\ publisher[p] = "idle"
    /\ broadcasts[p] < MaxBroadcasts
    /\ publisher' = [publisher EXCEPT ![p] = "sending"]
    /\ broadcasts' = [broadcasts EXCEPT ![p] = @ + 1]
    /\ UNCHANGED <<main, listener, buffered, clients, waiting, serving, watching, welcomed, faults>>

Broadcast(p) ==
    /\ publisher[p] = "sending"
    /\ SendToNotifier
    /\ publisher' = [publisher EXCEPT ![p] = "idle"]
    /\ UNCHANGED <<main, listener, clients, waiting, serving, watching, welcomed, broadcasts, faults>>

-----------------------------------------------------------------------------
(* ServeHTTP.                                                              *)
Connect(c) ==
    /\ main = "up"
    /\ serving[c] = "none"
    /\ serving' = [serving EXCEPT ![c] = "joining"]
    /\ UNCHANGED <<main, listener, buffered, clients, waiting, watching, welcomed, publisher, broadcasts, faults>>

\* broker.newClients <- messageChan meets case s := <-broker.newClients
Join(c) ==
    /\ serving[c] = "joining"
    /\ listener = "select"
    /\ listener' = "callback"
    /\ clients' = clients \cup {c}
    /\ serving' = [serving EXCEPT ![c] = "reading"]
    /\ watching' = [watching EXCEPT ![c] = "waiting"]
    /\ UNCHANGED <<main, buffered, waiting, welcomed, publisher, broadcasts, faults>>

\* Mutant: the handler returns when its browser is gone.
WrittenReturns(c) ==
    /\ serving[c] = "writing"
    /\ serving' = [serving EXCEPT ![c] = IF watching[c] = "waiting" THEN "reading" ELSE "none"]
    /\ welcomed' = welcomed \cup {c}
    /\ UNCHANGED <<main, listener, buffered, clients, waiting, watching, publisher, broadcasts, faults>>

\* Fprintf and Flush return, with an error nobody looks at when the peer left;
\* the loop has no exit.
Written(c) ==
    /\ serving[c] = "writing"
    /\ serving' = [serving EXCEPT ![c] = "reading"]
    /\ welcomed' = welcomed \cup {c}
    /\ UNCHANGED <<main, listener, buffered, clients, waiting, watching, publisher, broadcasts, faults>>

\* Mutant: the end of the request ends the handler at once.
DisconnectEndsHandler(c) ==
    /\ watching[c] = "waiting"
    /\ watching' = [watching EXCEPT ![c] = "closing"]
    /\ serving' = [serving EXCEPT ![c] = "none"]
    /\ UNCHANGED <<main, listener, buffered, clients, waiting, welcomed, publisher, broadcasts, faults>>

\* The browser goes away: req.Context() is done.
Disconnect(c) ==
    /\ watching[c] = "waiting"
    /\ watching' = [watching EXCEPT ![c] = "closing"]
    /\ UNCHANGED <<main, listener, buffered, clients, waiting, serving, welcomed, publisher, broadcasts, faults>>

\* broker.closingClients <- messageChan meets case s := <-broker.closingClients
Unregister(c) ==
    /\ watching[c] = "closing"
    /\ listener = "select"
    /\ clients' = clients \ {c}
    /\ watching' = [watching EXCEPT ![c] = "done"]
    /\ UNCHANGED <<main, listener, buffered, waiting, serving, welcomed, publisher, broadcasts, faults>>

-----------------------------------------------------------------------------
(* Listen.                                                                 *)

\* onListenerJoinCallback is cache.BroadcastStats, called by the one goroutine
\* that receives from Notifier.
CallbackEnds ==
    /\ listener = "callback"
    /\ listener' = "select"
    /\ UNCHANGED <<main, clients, waiting, serving, watching, welcomed, publisher, broadcasts>>

Callback == CallbackEnds /\ SendToNotifier /\ UNCHANGED faults

CallbackError == CallbackEnds /\ StatsError

\* case event := <-broker.Notifier
Receive ==
    /\ listener = "select"
    /\ buffered > 0
    /\ buffered' = buffered - 1
    /\ listener' = "fanout"
    /\ waiting' = clients
    /\ UNCHANGED <<main, clients, serving, watching, welcomed, publisher, broadcasts, faults>>

\* clientMessageChan <- event meets <-messageChan in ServeHTTP
SendToClient(c) ==
    /\ listener = "fanout"
    /\ c \in waiting
    /\ serving[c] = "reading"
    /\ waiting' = waiting \ {c}
    /\ serving' = [serving EXCEPT ![c] = "writing"]
    /\ UNCHANGED <<main, listener, buffered, clients, watching, welcomed, publisher, broadcasts, faults>>

FanoutDone ==
    /\ listener = "fanout"
    /\ waiting = {}
    /\ listener' = "select"
    /\ UNCHANGED <<main, buffered, clients, waiting, serving, watching, welcomed, publisher, broadcasts, faults>>

-----------------------------------------------------------------------------
Next == \/ Boot \/ BootUnsent
        \/ Callback \/ CallbackError \/ Receive \/ FanoutDone
        \/ \E p \in Publishers : StartBroadcast(p) \/ Broadcast(p)
        \/ \E c \in Conns : \/ Connect(c) \/ Join(c) \/ Written(c) \/ Disconnect(c)
                            \/ Unregister(c) \/ SendToClient(c)

Spec == Init /\ [][Next]_vars

\* Goroutines that can run do run; Go's select and its channel queues starve
\* nobody, so a communication that is possible again and again takes place.
\* A write to a browser ends, if only with an error.  Nobody has to connect,
\* disconnect or have news, and no stats have to be unreadable.
Fairness ==
    /\ WF_vars(Boot) /\ WF_vars(Callback) /\ WF_vars(Receive) /\ WF_vars(FanoutDone)
    /\ \A p \in Publishers : SF_vars(Broadcast(p))
    /\ \A c \in Conns : /\ SF_vars(Join(c)) /\ WF_vars(Written(c))
                        /\ SF_vars(Unregister(c)) /\ WF_vars(SendToClient(c))

FairSpec == Spec /\ Fairness

-----------------------------------------------------------------------------
TypeOK == /\ main \in {"sync", "up"}
          /\ listener \in {"off", "select", "callback", "fanout"}
          /\ buffered \in 0..Capacity
          /\ clients \subseteq Conns
          /\ waiting \subseteq clients
          /\ serving \in [Conns -> {"none", "joining", "reading", "writing"}]
          /\ watching \in [Conns -> {"none", "waiting", "closing", "done"}]
          /\ welcomed \subseteq Conns
          /\ publisher \in [Publishers -> {"idle", "sending"}]
          /\ broadcasts \in [Publishers -> 0..MaxBroadcasts]
          /\ faults \in 0..MaxFaults

(* SyncStats broadcasts before anybody receives from Notifier (main.go:69,  *)
(* 77); the server starts all the same.                                     *)
ServerStarts == <>(main = "up")

(* The fan-out of an event ends although clients disconnect in the middle   *)
(* of it: a handler whose browser left still takes the event, and only its  *)
(* other goroutine waits for Listen to unregister it.                       *)
FanoutEnds == (listener = "fanout") ~> (listener = "select")

(* Every registered client can still be sent to: Listen never waits for a   *)
(* connection whose handler has stopped reading for good.  "reading" and    *)
(* "writing" are the states that lead back to a receive.                    *)
RegisteredReads == \A c \in clients : serving[c] \in {"reading", "writing"}

(* "send stats to the client when it first connects" (sse.go:90)            *)
ClientIsWelcomed ==
    \A c \in Conns : (serving[c] = "joining") ~> (c \in welcomed \/ watching[c] = "done")
=============================================================================
