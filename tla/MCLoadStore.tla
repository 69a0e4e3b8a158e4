------------------------------ MODULE MCLoadStore ------------------------------
(* Instances of LoadStore for TLC: addresses and registers of four bits,     *)
(* words of two bytes of two bits.                                           *)
EXTENDS LoadStore

MCByte     == 0 .. 3
MCImages   == {[a \in Address |-> 0]}
MCItems    == {2, 13}
MCSettings == Organizations \X Policies

\* Of the offsets of two bits those that are not negative.
MCForward  == {0, 1}
================================================================================
