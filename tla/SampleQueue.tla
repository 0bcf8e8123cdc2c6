---------------------------- MODULE SampleQueue ----------------------------
(***************************************************************************)
(* What a RingBuffer promises its users: a queue of samples of bounded     *)
(* size.  The size is one less than the number of slots, because a ring    *)
(* whose read and write positions are equal always counts as empty; the    *)
(* push that would fill the last slot therefore forgets everything that    *)
(* was still unread.                                                       *)
(***************************************************************************)
EXTENDS Integers, Sequences

CONSTANTS
    Sample,      \* the values a sample can have, NaN among them
    Zero,        \* the sample 0.0
    NaN,         \* not a number
    Capacities   \* the numbers of slots a ring is created with

VARIABLES
    capacity,    \* the number of slots
    queue,       \* the samples pushed and not yet popped, oldest first
    popped,      \* what the last pop returned
    call         \* the last call made, with the sample of a push

vars == <<capacity, queue, popped, call>>

Sanitise(s) == IF s = NaN THEN Zero ELSE s

Init == /\ capacity \in Capacities
        /\ queue = <<>>
        /\ popped = Zero
        /\ call = <<"clear">>

Clear == /\ capacity' \in Capacities
         /\ queue' = <<>>
         /\ call' = <<"clear">>
         /\ UNCHANGED popped

Push(s) == /\ queue' = IF Len(queue) + 1 < capacity
                       THEN Append(queue, Sanitise(s))
                       ELSE <<>>
           /\ call' = <<"push", s>>
           /\ UNCHANGED <<capacity, popped>>

Pop == /\ queue # <<>>
       /\ popped' = Head(queue)
       /\ queue' = Tail(queue)
       /\ call' = <<"pop">>
       /\ UNCHANGED capacity

Next == \/ Clear
        \/ \E s \in Sample : Push(s)
        \/ Pop

Spec == Init /\ [][Next]_vars
=============================================================================
