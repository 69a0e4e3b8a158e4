------------------------------- MODULE MCCache -------------------------------
(* Instances of Cache for TLC: bytes are 0 and 1, memories a few words.    *)
EXTENDS Cache

Bits == {0, 1}

\* Three words away from address 0, all of them in one direct line or two.
MCWords     == {2, 4, 6} \X {"WORD"}
MCWordData  == {<<0, 1>>, <<1, 0>>}
MCWordImage == {[a \in Address |-> 0], [a \in Address |-> a % 2]}

\* Every setting the user can enter, the refused N_WAY (2) included.
MCAllSettings == (Organizations \cup {"N_WAY"}) \X Policies

\* Programs that only load, a word or its low byte.
MCByteThenWord == {2} \X Width
MCOnes         == {[a \in Address |-> 1]}
==============================================================================
