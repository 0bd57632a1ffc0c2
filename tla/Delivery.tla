------------------------------ MODULE Delivery ------------------------------
(***************************************************************************)
(* What NSQ, go-nsq and the handler together promise to an event of a      *)
(* repository: at least one delivery, at most MaxAttempts, one event in    *)
(* hand at a time.  What is due for it is fixed when it is sent, and every *)
(* delivery goes through it from the start; the event is over only at the  *)
(* end of that or when it was delivered MaxAttempts times, and an event    *)
(* that is over never comes back.                                          *)
(***************************************************************************)
EXTENDS Naturals

CONSTANT MaxAttempts

VARIABLES
    due,       \* the operations due for each event
    waiting,   \* the events to deliver, with the deliveries so far
    hand,      \* the event being handled, if any, likewise
    left       \* the operations of it that are left

vars == <<due, waiting, hand, left>>

New(id) == [id |-> id, tries |-> 0]

Init ==
    /\ waiting = {New(id) : id \in DOMAIN due}
    /\ hand = {} /\ left = {}

Post(id) ==
    /\ id \notin DOMAIN due
    /\ DOMAIN due' = DOMAIN due \cup {id}
    /\ \A i \in DOMAIN due : due'[i] = due[i]
    /\ waiting' = waiting \cup {New(id)}
    /\ UNCHANGED <<hand, left>>

Take(m) ==
    /\ hand = {} /\ m.tries < MaxAttempts
    /\ waiting' = waiting \ {m}
    /\ hand' = {[m EXCEPT !.tries = @ + 1]}
    /\ left' = due[m.id]
    /\ UNCHANGED due

GiveUp(m) ==
    /\ hand = {} /\ m.tries >= MaxAttempts
    /\ waiting' = waiting \ {m}
    /\ UNCHANGED <<due, hand, left>>

Perform ==
    /\ \E o \in left : left' = left \ {o}
    /\ UNCHANGED <<due, waiting, hand>>

\* The end of the last operation may be that of the event.
Finish ==
    /\ hand # {} /\ \A o, p \in left : o = p
    /\ hand' = {} /\ left' = {}
    /\ UNCHANGED <<due, waiting>>

\* An error, or the end of the process.
PutBack ==
    /\ hand # {}
    /\ waiting' = waiting \cup hand
    /\ hand' = {} /\ left' = {}
    /\ UNCHANGED due

\* The event waits for its next delivery while this one goes on.
Timeout ==
    /\ waiting' = waiting \cup hand
    /\ UNCHANGED <<due, hand, left>>

Next ==
    \/ \E id \in DOMAIN due' : Post(id)
    \/ \E m \in waiting : Take(m) \/ GiveUp(m)
    \/ Perform \/ Finish \/ PutBack \/ Timeout

Spec == Init /\ [][Next]_vars

=============================================================================
