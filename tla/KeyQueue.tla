------------------------------ MODULE KeyQueue ------------------------------
(***************************************************************************)
(* What drivers/ps2.cpp promises about typed characters: those it takes in *)
(* are handed out in the order they were typed, each to one caller. It may *)
(* refuse a character when it holds Capacity of them.                      *)
(***************************************************************************)
EXTENDS Naturals, Sequences

CONSTANTS
  Chars,    \* characters
  Capacity  \* how many it can hold

VARIABLES
  queue,     \* taken in, not handed out
  delivered  \* the last one handed out, whoever asked; the bit flips with each

Init == queue = <<>> /\ delivered.bit = 0

Accept(c) ==
  /\ Len(queue) < Capacity
  /\ queue' = Append(queue, c)
  /\ UNCHANGED delivered

Deliver ==
  /\ queue # <<>>
  /\ queue' = Tail(queue)
  /\ delivered' = [c |-> Head(queue), bit |-> 1 - delivered.bit]

Next == Deliver \/ \E c \in Chars : Accept(c)

Spec == Init /\ [][Next]_<<queue, delivered>>
=============================================================================
