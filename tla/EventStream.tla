----------------------------- MODULE EventStream -----------------------------
(***************************************************************************)
(* What the trace of one run promises a client that follows it page by     *)
(* page: a stream that only grows at its end and never changes, of which   *)
(* the client has received a beginning.  RunLog shows that the locking of  *)
(* append_event and the cursor of list_events keep this promise.           *)
(***************************************************************************)
EXTENDS Naturals, Sequences

CONSTANTS
    Sources,    \* who may publish an event
    Page        \* the most a client receives at once

VARIABLES
    events,     \* what has been published, in order, each known by its source
    received    \* what the client has received, in the order it came

vars == <<events, received>>

\* One sequence continues another.
Extends(new, old) ==
    /\ Len(new) > Len(old)
    /\ \A i \in DOMAIN old : new[i] = old[i]

Init ==
    /\ events = <<>>
    /\ received = <<>>

\* A source commits the events of one transaction, several at once.
Publish ==
    /\ Extends(events', events)
    /\ \A i \in DOMAIN events' : events'[i] \in Sources
    /\ UNCHANGED received

\* The client asks for what follows the last event it has.
Receive ==
    /\ Extends(received', received)
    /\ Len(received') <= Len(received) + Page
    /\ Len(received') <= Len(events)
    /\ \A i \in DOMAIN received' : received'[i] = events[i]
    /\ UNCHANGED events

Next == Publish \/ Receive

Spec == Init /\ [][Next]_vars

=============================================================================
