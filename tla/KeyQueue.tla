------------------------------ MODULE KeyQueue ------------------------------
(***************************************************************************)
(* What the key buffer promises its reader: a queue of bounded length.     *)
(* A key that comes when it is full is lost; the others are given out      *)
(* once, in the order they came.                                           *)
(***************************************************************************)
EXTENDS Naturals, Sequences

CONSTANTS Chars, NoKey, Capacity

VARIABLES queue, got        \* got: the key just given out, until it is used

Init == queue = <<>> /\ got = NoKey

Put(k) == Len(queue) < Capacity /\ queue' = Append(queue, k) /\ UNCHANGED got

Get ==
    /\ queue # <<>>
    /\ got' = Head(queue)
    /\ queue' = Tail(queue)

Use == got' = NoKey /\ UNCHANGED queue

Next == (\E k \in Chars : Put(k)) \/ Get \/ Use

Spec == Init /\ [][Next]_<<queue, got>>
=============================================================================
