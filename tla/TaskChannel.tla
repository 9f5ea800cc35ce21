---------------------------- MODULE TaskChannel -----------------------------
(***************************************************************************)
(* What SpscTaskQueue promises the thread pool: a first-in first-out       *)
(* channel from one producer to one consumer that holds at most Capacity   *)
(* tasks and that the producer may close, after which the consumer stops.  *)
(***************************************************************************)
EXTENDS Naturals, Sequences

CONSTANT Capacity

VARIABLES
    channel,   \* tasks sent and not yet received
    sent,      \* how many tasks were sent; tasks are numbered in sending order
    received,  \* how many tasks were received
    closed,
    stopped    \* the consumer has been told to stop

vars == <<channel, sent, received, closed, stopped>>

Init ==
    /\ channel = << >>
    /\ sent = 0
    /\ received = 0
    /\ closed = FALSE
    /\ stopped = FALSE

Send ==
    /\ ~closed
    /\ Len(channel) < Capacity
    /\ sent' = sent + 1
    /\ channel' = Append(channel, sent')
    /\ UNCHANGED <<received, closed, stopped>>

\* The next task in sending order.  A task in flight when the channel is closed
\* may still be received, or be dropped.
Receive ==
    /\ ~stopped
    /\ channel # << >>
    /\ received' = Head(channel)
    /\ channel' = Tail(channel)
    /\ UNCHANGED <<sent, closed, stopped>>

Close ==
    /\ closed' = TRUE
    /\ UNCHANGED <<channel, sent, received, stopped>>

Stop ==
    /\ closed
    /\ stopped' = TRUE
    /\ UNCHANGED <<channel, sent, received, closed>>

Next == Send \/ Receive \/ Close \/ Stop

Spec == Init /\ [][Next]_vars
=============================================================================
