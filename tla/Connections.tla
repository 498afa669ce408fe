----------------------------- MODULE Connections -----------------------------
(***************************************************************************)
(* The two connections to RabbitMQ, the producer's (broker.Service) and the *)
(* worker's, around the task queue: how the loss of one is reported on the  *)
(* channel rabbitCloseError, and what opens it again.  Each is opened in    *)
(* three steps: Dial, setup (Channel and the declarations; Consume), and    *)
(* NotifyClose.  Their order differs between the clients, and between the   *)
(* first time and the next.                                                *)
(***************************************************************************)
EXTENDS TaskQueue

CONSTANTS MaxTasks,      \* bound: tasks published
          MaxFaults      \* bound: lost connections, failed Dials and crashes

ASSUME LimitsAssumption == MaxTasks \in Nat /\ MaxFaults \in Nat

VARIABLES conn,      \* client -> the connection in its field conn
          told,      \* client -> its channel rabbitCloseError: not registered, or
                     \* registered, or an error is being sent, or closed
          todo,      \* client -> the steps left until it is in its loop
          missed,    \* history: the clients whose connection was lost in the gap
          faults

cvars == <<conn, told, todo, missed, faults>>
vars == <<qvars, cvars>>

Clients == {"producer", "worker"}

\* NewService; Worker.Start, which main calls after it.
FirstSteps == [producer |-> <<"dial", "setup", "notify">>,
               worker   |-> <<"dial", "notify", "setup">>]

\* Mutant: the worker's new connection is not registered.
NextStepsUnregistered == [producer |-> <<"dial", "notify", "setup">>,
                          worker   |-> <<"dial", "setup">>]

\* The body of WatchForReconnect; Worker.reconnect.
NextSteps == [producer |-> <<"dial", "notify", "setup">>,
              worker   |-> <<"dial", "setup", "notify">>]

Started == [producer |-> FirstSteps.producer, worker |-> <<"main">>]

Init == /\ QInit
        /\ conn = [c \in Clients |-> "none"] /\ told = [c \in Clients |-> "no"]
        /\ todo = Started
        /\ missed = {} /\ faults = 0

Left(c) == Range(todo[c])
At(c, step) == todo[c] # <<>> /\ Head(todo[c]) = step

\* main goes on to the worker when NewService has returned.
Advanced(c) ==
    [d \in Clients |-> IF d = c THEN Tail(todo[d])
                       ELSE IF At(d, "main") /\ Len(todo[c]) = 1 THEN FirstSteps[d]
                       ELSE todo[d]]

Fault == faults < MaxFaults /\ faults' = faults + 1

\* The process ends and is started again.
Fatal == /\ Restart
         /\ conn' = [c \in Clients |-> "none"] /\ told' = [c \in Clients |-> "no"]
         /\ todo' = Started /\ missed' = {}

Crash == Fault /\ Fatal

-----------------------------------------------------------------------------
(* Opening a connection.                                                   *)

\* amqp.Dial, within three attempts (one in Start).
Dial(c) == /\ At(c, "dial")
           /\ conn' = [conn EXCEPT ![c] = "up"]
           /\ todo' = Advanced(c)
           /\ UNCHANGED <<qvars, told, missed, faults>>

DialFails(c) == At(c, "dial") /\ Fault /\ Fatal

\* Mutant: the worker goes on receiving from the old connection.
SetupKeepsDeliveries(c) == /\ At(c, "setup") /\ conn[c] = "up"
                           /\ todo' = Advanced(c)
                           /\ UNCHANGED <<qvars, conn, told, missed, faults>>

\* setup; Channel, Qos and Consume, which renew the worker's deliveries.
Setup(c) == /\ At(c, "setup") /\ conn[c] = "up"
            /\ IF c = "worker" /\ link = "lost" THEN Reopen ELSE UNCHANGED qvars
            /\ todo' = Advanced(c)
            /\ UNCHANGED <<conn, told, missed, faults>>

\* Mutant: the error is only logged.
SetupErrorLogged(c) == /\ At(c, "setup") /\ conn[c] = "lost" /\ told[c] # "sending"
                       /\ todo' = Advanced(c)
                       /\ UNCHANGED <<qvars, conn, told, missed, faults>>

\* A call on a lost connection is an error, and that a Fatal; but the call
\* hangs while amqp is sending the loss to a channel that nobody receives from.
SetupFails(c) == /\ At(c, "setup") /\ conn[c] = "lost" /\ told[c] # "sending"
                 /\ Fatal
                 /\ UNCHANGED faults

\* amqp closes the channel it is given if the connection is already lost.
NotifyClose(c) == /\ At(c, "notify")
                  /\ told' = [told EXCEPT ![c] = IF conn[c] = "up" THEN "yes" ELSE "closed"]
                  /\ todo' = Advanced(c)
                  /\ UNCHANGED <<qvars, conn, missed, faults>>

-----------------------------------------------------------------------------
(* Losing it.                                                              *)

\* Between setup and NotifyClose, in either order.
InGap(c) == ("setup" \in Left(c)) # ("notify" \in Left(c))

Lose(c) == /\ conn[c] = "up" /\ Fault
           /\ conn' = [conn EXCEPT ![c] = "lost"]
           /\ told' = [told EXCEPT ![c] = IF @ = "yes" THEN "sending" ELSE @]
           /\ missed' = IF InGap(c) THEN missed \cup {c} ELSE missed
           /\ IF c = "worker" /\ link = "up" THEN LoseConnection ELSE UNCHANGED qvars
           /\ UNCHANGED todo

\* WatchForReconnect, and runLoop between two deliveries, receive the error;
\* a closed channel they receive from for ever, and nothing comes of it.
LossReceived(c) ==
    /\ todo[c] = <<>> /\ told[c] = "sending"
    /\ c = "worker" => taken = NoTask
    /\ todo' = [todo EXCEPT ![c] = NextSteps[c]]
    /\ told' = [told EXCEPT ![c] = "no"]
    /\ UNCHANGED <<qvars, conn, missed, faults>>

-----------------------------------------------------------------------------
(* The queue.                                                              *)

\* A handler publishes on the producer's channel, which is the current one
\* once setup is done.
Publish == /\ published < MaxTasks
           /\ conn["producer"] = "up" /\ "setup" \notin Left("producer")
           /\ todo["worker"] # <<"main">>
           /\ Enqueue /\ UNCHANGED cvars

Consuming == "main" \notin Left("worker") /\ "setup" \notin Left("worker")

Push == Consuming /\ Deliver /\ UNCHANGED cvars

RunLoop == todo["worker"] = <<>> /\ Take /\ UNCHANGED cvars
Settle == (Ack \/ Nack) /\ UNCHANGED cvars
TimeToLive == Expire /\ UNCHANGED cvars

Open(c) == Dial(c) \/ DialFails(c) \/ Setup(c) \/ SetupFails(c) \/ NotifyClose(c)

Next == \/ \E c \in Clients : Open(c) \/ Lose(c) \/ LossReceived(c)
        \/ Publish \/ Push \/ RunLoop \/ Settle \/ TimeToLive
        \/ Crash

\* The goroutines run, RabbitMQ and Dial answer, and select chooses the error
\* some time.
Fairness == /\ \A c \in Clients : WF_vars(Open(c)) /\ WF_vars(LossReceived(c))
            /\ WF_vars(RunLoop) /\ WF_vars(Settle)

Spec == Init /\ [][Next]_vars /\ Fairness

-----------------------------------------------------------------------------
Steps == {"dial", "setup", "notify", "main"}

CTypeOK == /\ QTypeOK
           /\ conn \in [Clients -> {"none", "up", "lost"}]
           /\ told \in [Clients -> {"no", "yes", "sending", "closed"}]
           /\ \A c \in Clients : todo[c] \in Seq(Steps) /\ Len(todo[c]) <= 3
           /\ missed \subseteq Clients
           /\ faults \in 0 .. MaxFaults
           /\ Consuming => (link = "up" <=> conn["worker"] = "up")

Ready(c) == todo[c] = <<>> /\ conn[c] = "up" /\ told[c] = "yes"

(* Whoever is in its loop without a connection is going to hear of the loss *)
(* (broker.go:36, worker.go:178), unless the connection was lost in the gap *)
(* between setup and NotifyClose.                                          *)
LossWillBeHeard ==
    \A c \in Clients \ missed :
       todo[c] = <<>> => \/ conn[c] = "up" /\ told[c] = "yes"
                         \/ conn[c] = "lost" /\ told[c] = "sending"

(* A connection that is lost is opened again, with its successor watched in *)
(* turn, however often it happens and at whatever step, also while tasks    *)
(* are being processed; all but a loss in the gap, after which the client   *)
(* spins on a closed channel or hangs in setup until the process is started *)
(* again (broker.go:45-46, 68; worker.go:91-121, 171-173).                  *)
LossIsRepaired ==
    \A c \in Clients : conn[c] = "lost" ~> Ready(c) \/ c \in missed

(* "watch for unexpected connection loss to rabbitMQ and re-establish       *)
(* connection" (broker.go:33), without exception.  The code breaks it.      *)
AlwaysReestablished == conn["producer"] = "lost" ~> conn["producer"] = "up"
=============================================================================
