----------------------------- MODULE DelayLine -----------------------------
(***************************************************************************)
(* What an OnnxProcessor promises its host: a delay line as long as the    *)
(* latency it reports.  It takes a block and gives a block in each         *)
(* callback; owed are the samples taken and not given back, as numbers     *)
(* between two callbacks.  At first the line fills.  A full line gives the *)
(* block due, which changes nothing here, or is late and gives silence,    *)
(* and later gives up one of the blocks due for each time it was late.     *)
(* The latency is a number of whole blocks, or the line would not have it. *)
(***************************************************************************)
EXTENDS Integers

CONSTANT BlockSizes  \* the block sizes the host prepares with

VARIABLES
    block,           \* samples taken and given in each callback
    latency,         \* the latency reported
    owed,            \* samples taken and not given back
    late             \* times the line was late and has not caught up

vars == <<block, latency, owed, late>>

Empty == /\ block \in BlockSizes
         /\ latency \in Nat
         /\ latency % block = 0
         /\ owed = 0
         /\ late = 0

Init == Empty

Full == owed >= latency

Fill == /\ ~Full
        /\ owed' = owed + block
        /\ UNCHANGED <<block, latency, late>>

BeLate == /\ Full
          /\ owed' = owed + block
          /\ late' = late + 1
          /\ UNCHANGED <<block, latency>>

CatchUp == /\ Full
           /\ late > 0
           /\ owed' = owed - block
           /\ late' = late - 1
           /\ UNCHANGED <<block, latency>>

(***************************************************************************)
(* The host prepares anew, or another model is loaded.                     *)
(***************************************************************************)
Restart == Empty'

Next == \/ Fill
        \/ BeLate
        \/ CatchUp
        \/ Restart

Spec == Init /\ [][Next]_vars
=============================================================================
