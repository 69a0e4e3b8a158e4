--------------------------------- MODULE Stack ---------------------------------
(***************************************************************************)
(* What a program that keeps a stack in memory expects of the load and     *)
(* store instructions: a register x and a sequence of words, last in first *)
(* out, whose elements can also be read and written in place.  Nothing     *)
(* here knows of addresses, caches or policies.                            *)
(***************************************************************************)
EXTENDS Naturals, Sequences

CONSTANT Item   \* the values of x and of the elements

VARIABLES
    stack, x,
    place   \* the element the last operation read or wrote in place, 0 if none

svars == <<stack, x, place>>

Init == stack = <<>> /\ x \in Item /\ place = 0

Set  == x' \in Item /\ place' = 0 /\ UNCHANGED stack
Push == stack' = Append(stack, x) /\ place' = 0 /\ UNCHANGED x

Pop ==
    /\ stack # <<>>
    /\ x' = stack[Len(stack)]
    /\ stack' = SubSeq(stack, 1, Len(stack) - 1)
    /\ place' = 0

Peek(k) == x' = stack[k] /\ place' = k /\ UNCHANGED stack
Poke(k) == stack' = [stack EXCEPT ![k] = x] /\ place' = k /\ UNCHANGED x

Next == Set \/ Push \/ Pop \/ \E k \in DOMAIN stack : Peek(k) \/ Poke(k)

Spec == Init /\ [][Next]_svars
================================================================================
