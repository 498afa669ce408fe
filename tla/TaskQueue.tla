------------------------------ MODULE TaskQueue ------------------------------
(***************************************************************************)
(* The RabbitMQ task queue with its producer (broker.Service) and its one  *)
(* consumer (Worker).  A task is the number RabbitMQ gave it on arrival;   *)
(* what the message says is the business of the modules that extend this   *)
(* one.  The queue and its messages are durable, so a restart of RabbitMQ  *)
(* looks like the loss of the worker's connection.                         *)
(***************************************************************************)
EXTENDS Naturals, Sequences, Functions

VARIABLES published,   \* number of tasks RabbitMQ has accepted
          queue,       \* ready tasks, oldest first
          inbox,       \* deliveries in worker.delivery, not yet received by runLoop
          taken,       \* the delivery runLoop is processing, or NoTask
          link,        \* the worker's connection: "up", or "lost" until reconnect
          prefetch,    \* TRUE while Qos(1) is in force on the worker's channel
          acked,       \* tasks settled by an Ack that reached RabbitMQ
          dead         \* tasks in "dead.letter.queue"

qvars == <<published, queue, inbox, taken, link, prefetch, acked, dead>>

NoTask == 0

Tasks == 1..published

\* A delivery is on loan to the worker only while its connection lives.
OnLoan == IF link = "up"
          THEN (IF taken = NoTask THEN <<>> ELSE <<taken>>) \o inbox
          ELSE <<>>

Settled == acked \cup dead

QInit == /\ published = 0
         /\ queue = <<>>
         /\ inbox = <<>>
         /\ taken = NoTask
         /\ link = "up"
         /\ prefetch = TRUE
         /\ acked = {}
         /\ dead = {}

(***************************************************************************)
(* Producer: Publish, when RabbitMQ does get the message.                  *)
(***************************************************************************)
Enqueue == /\ published' = published + 1
           /\ queue' = Append(queue, published + 1)
           /\ UNCHANGED <<inbox, taken, link, prefetch, acked, dead>>

(***************************************************************************)
(* RabbitMQ pushes the oldest ready task to the worker's channel: one at a *)
(* time under Qos(1), all of them when no prefetch was set.                *)
(***************************************************************************)
Deliver == /\ link = "up"
           /\ queue # <<>>
           /\ prefetch => OnLoan = <<>>
           /\ inbox' = Append(inbox, Head(queue))
           /\ queue' = Tail(queue)
           /\ UNCHANGED <<published, taken, link, prefetch, acked, dead>>

(***************************************************************************)
(* runLoop receives a delivery.  The select may choose the delivery even   *)
(* when the connection is already lost.                                    *)
(***************************************************************************)
Take == /\ taken = NoTask
        /\ inbox # <<>>
        /\ taken' = Head(inbox)
        /\ inbox' = Tail(inbox)
        /\ UNCHANGED <<published, queue, link, prefetch, acked, dead>>

\* Mutants: settling over a connection that is gone.
AckStale == /\ taken # NoTask
            /\ taken' = NoTask
            /\ acked' = acked \cup {taken}
            /\ UNCHANGED <<published, queue, inbox, link, prefetch, dead>>

NackStale == /\ taken # NoTask
             /\ taken' = NoTask
             /\ dead' = dead \cup {taken}
             /\ UNCHANGED <<published, queue, inbox, link, prefetch, acked>>

(***************************************************************************)
(* d.Ack(false) and d.Nack(false, false).  On a dead connection they       *)
(* return an error nobody looks at.                                        *)
(***************************************************************************)
Ack == /\ taken # NoTask
       /\ taken' = NoTask
       /\ acked' = IF link = "up" THEN acked \cup {taken} ELSE acked
       /\ UNCHANGED <<published, queue, inbox, link, prefetch, dead>>

Nack == /\ taken # NoTask
        /\ taken' = NoTask
        /\ dead' = IF link = "up" THEN dead \cup {taken} ELSE dead
        /\ UNCHANGED <<published, queue, inbox, link, prefetch, acked>>

\* Mutant: tasks on loan return to the end of the queue.
LoseConnectionToTail == /\ link = "up"
                        /\ link' = "lost"
                        /\ queue' = queue \o OnLoan
                        /\ UNCHANGED <<published, inbox, taken, prefetch, acked, dead>>

(***************************************************************************)
(* The connection breaks: RabbitMQ puts what was on loan back where it     *)
(* was, at the head of the queue.  The Go side still holds the deliveries. *)
(***************************************************************************)
LoseConnection == /\ link = "up"
                  /\ link' = "lost"
                  /\ queue' = OnLoan \o queue
                  /\ UNCHANGED <<published, inbox, taken, prefetch, acked, dead>>

(***************************************************************************)
(* Worker.reconnect, run by runLoop between two deliveries: a new channel, *)
(* a new delivery chan, and no Qos.                                        *)
(***************************************************************************)
Reopen == /\ link = "lost"
          /\ taken = NoTask
          /\ link' = "up"
          /\ inbox' = <<>>
          /\ prefetch' = FALSE
          /\ UNCHANGED <<published, queue, taken, acked, dead>>

(***************************************************************************)
(* x-message-ttl: the oldest ready task waited 24 hours.                   *)
(***************************************************************************)
Expire == /\ queue # <<>>
          /\ dead' = dead \cup {Head(queue)}
          /\ queue' = Tail(queue)
          /\ UNCHANGED <<published, inbox, taken, link, prefetch, acked>>

(***************************************************************************)
(* The server process ends (a Fatal, a crash) and Worker.Start runs anew.  *)
(***************************************************************************)
Restart == /\ queue' = OnLoan \o queue
           /\ inbox' = <<>>
           /\ taken' = NoTask
           /\ link' = "up"
           /\ prefetch' = TRUE
           /\ UNCHANGED <<published, acked, dead>>

QNext == \/ Enqueue \/ Deliver \/ Take \/ Ack \/ Nack
         \/ LoseConnection \/ Reopen \/ Expire \/ Restart

QSpec == QInit /\ [][QNext]_qvars

-----------------------------------------------------------------------------
(* Types. *)
QTypeOK == /\ published \in Nat
           /\ queue \in Seq(Nat)
           /\ inbox \in Seq(Nat)
           /\ taken \in Nat
           /\ link \in {"up", "lost"}
           /\ prefetch \in BOOLEAN
           /\ acked \subseteq Tasks
           /\ dead \subseteq Tasks

Increasing(s) == \A i, j \in 1..Len(s) : i < j => s[i] < s[j]

(* Losing the connection, redelivering and reconnecting never reorder the  *)
(* tasks: what the worker holds followed by what is ready is in publishing *)
(* order.  An approval is therefore settled before the deactivation that   *)
(* followed it, whatever the connection did in between.                    *)
InPublishOrder == Increasing(OnLoan \o queue)

(* Every published task has exactly one home: ready or on loan, finished,  *)
(* or in the dead-letter queue.  The stale Ack of a delivery from a dead   *)
(* connection neither settles a task that will be redelivered nor settles  *)
(* one twice.                                                              *)
OneHome == /\ Range(OnLoan \o queue) = Tasks \ Settled
           /\ acked \cap dead = {}

\* The abstract queue, under the identity mapping.
Log == INSTANCE TaskLog

(* The queue implements the abstract log: each task is settled at most     *)
(* once and, expiry aside, oldest first.                                   *)
ImplementsLog == Log!LSpec
=============================================================================
