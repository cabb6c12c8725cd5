------------------------------ MODULE Delivery ------------------------------
(***************************************************************************)
(* What the consumer group of a topic promises, whatever threads, crashes, *)
(* rebalances and failed calls there are behind it: FastConsumer           *)
(* implements this specification.                                          *)
(*                                                                         *)
(* An event is handled at most once for good and is never unhandled.  A    *)
(* message is given up only one at a time, or all at once by the group's   *)
(* first join of a partition.  The committed position of a partition only  *)
(* moves forward, and only over messages that are handled, given up or     *)
(* need no handling.                                                       *)
(***************************************************************************)
EXTENDS Integers, Sequences

CONSTANTS
    Partitions, Events,
    PartitionOf,    \* the partition that an event is sent to
    Idle            \* events that need no handling

VARIABLES
    log,            \* [Partitions -> Seq(Events)]
    committed,      \* the group's position in each partition, -1 before any
    handled,        \* events that were handled
    givenUp         \* messages <<partition, offset>> that were given up

vars == <<log, committed, handled, givenUp>>

Sent == UNION {{p} \X (1 .. Len(log[p])) : p \in Partitions}
EventAt(m) == log[m[1]][m[2]]
Settled(m) == EventAt(m) \in handled \cup Idle \/ m \in givenUp

Init ==
    /\ log = [p \in Partitions |-> <<>>]
    /\ committed = [p \in Partitions |-> -1]
    /\ handled = {} /\ givenUp = {}

\* An event is sent, perhaps again.
Send(e) ==
    /\ log' = [log EXCEPT ![PartitionOf[e]] = Append(@, e)]
    /\ UNCHANGED <<committed, handled, givenUp>>

\* The event of a message that was sent is handled: every copy is settled.
Handle(m) ==
    /\ handled' = handled \cup {EventAt(m)}
    /\ UNCHANGED <<log, committed, givenUp>>

\* Handling failed at some point: the group does not try this message again
\* on its own.  What failed may be only the answer to the last call.
GiveUp(m) ==
    /\ givenUp' = givenUp \cup {m}
    /\ handled' \in {handled, handled \cup {EventAt(m)}}
    /\ UNCHANGED <<log, committed>>

\* The group joins p without a position there: it starts at the end.
StartAtEnd(p) ==
    /\ committed[p] = -1
    /\ givenUp' = givenUp \cup ({p} \X (1 .. Len(log[p])))
    /\ UNCHANGED <<log, committed, handled>>

\* The positions of any number of partitions advance.
Commit ==
    /\ DOMAIN committed' = Partitions
    /\ \A p \in Partitions :
          \/ committed'[p] = committed[p]
          \/ /\ committed'[p] \in (committed[p] + 1) .. Len(log[p])
             /\ \A o \in 1 .. committed'[p] : Settled(<<p, o>>)
    /\ UNCHANGED <<log, handled, givenUp>>

Next ==
    \/ \E e \in Events : Send(e)
    \/ \E m \in Sent : Handle(m) \/ GiveUp(m)
    \/ \E p \in Partitions : StartAtEnd(p)
    \/ Commit

Spec == Init /\ [][Next]_vars
=============================================================================
