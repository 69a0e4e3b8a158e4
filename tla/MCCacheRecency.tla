---------------------------- MODULE MCCacheRecency ----------------------------
(* CacheRecency for TLC: bytes are 0 and 1; words and bytes, odd addresses   *)
(* and address 0, every setting the user can enter.                          *)
EXTENDS CacheRecency

Bits    == {0, 1}
MCMixed == {<<0, "WORD">>, <<0, "BYTE">>, <<2, "WORD">>, <<3, "BYTE">>,
            <<5, "WORD">>, <<6, "WORD">>}
MCMixedData   == {<<1, 1>>}
MCMixedImage  == {[a \in Address |-> IF a = 0 THEN 1 ELSE 0]}
MCAllSettings == (Organizations \cup {"N_WAY"}) \X Policies
===============================================================================
