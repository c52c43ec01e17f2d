------------------------------- MODULE AudioPipe -------------------------------
(***************************************************************************)
(* What a stream of opensl_io.c promises: the samples that go in at one    *)
(* end come out at the other in the order they went in, each of them once, *)
(* and no more than Capacity of them are on their way.  Samples are        *)
(* numbered from 1 as they go in.                                          *)
(***************************************************************************)
EXTENDS Naturals

CONSTANT Capacity

VARIABLES
    in,     \* the number of samples that have gone in
    out     \* the number of the sample that came out last

Init == in = 0 /\ out = 0

Put ==
    /\ in - out < Capacity
    /\ in' = in + 1
    /\ UNCHANGED out

Get ==
    /\ out < in
    /\ out' = out + 1
    /\ UNCHANGED in

Next == Put \/ Get

Spec == Init /\ [][Next]_<<in, out>>
=============================================================================
