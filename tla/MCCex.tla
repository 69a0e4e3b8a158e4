--------------------------------- MODULE MCCex ---------------------------------
(* Instances of Cex for TLC: all conditions, parts of up to MaxCount.        *)
EXTENDS Cex

AllCodes == 0 .. 15
AllParts == Counts \X Counts
===============================================================================
