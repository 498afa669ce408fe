------------------------------- MODULE TaskLog -------------------------------
(***************************************************************************)
(* What the task queue promises to the rest of mc-gatekeeper, without any  *)
(* connection, prefetch or delivery: tasks are numbered 1, 2, 3, ... as    *)
(* they are accepted, each one is settled at most once, and the worker     *)
(* settles them oldest first.  Only the message TTL of the queue may take  *)
(* a younger task away before its elders.                                  *)
(***************************************************************************)
EXTENDS Naturals

VARIABLES published,   \* number of tasks accepted so far
          acked,       \* tasks the worker finished
          dead         \* tasks in "dead.letter.queue"

lvars == <<published, acked, dead>>

Unsettled == (1..published) \ (acked \cup dead)

Oldest(t) == t \in Unsettled /\ \A u \in Unsettled : t <= u

LInit == /\ published = 0
         /\ acked = {}
         /\ dead = {}

Accept == /\ published' = published + 1
          /\ UNCHANGED <<acked, dead>>

Acknowledge(t) == /\ Oldest(t)
                  /\ acked' = acked \cup {t}
                  /\ UNCHANGED <<published, dead>>

Reject(t) == /\ Oldest(t)
             /\ dead' = dead \cup {t}
             /\ UNCHANGED <<published, acked>>

Overdue(t) == /\ t \in Unsettled
              /\ dead' = dead \cup {t}
              /\ UNCHANGED <<published, acked>>

LNext == \/ Accept
         \/ \E t \in Unsettled : Acknowledge(t) \/ Reject(t) \/ Overdue(t)

LSpec == LInit /\ [][LNext]_lvars
=============================================================================
