------------------------------ MODULE WordStore ------------------------------
(***************************************************************************)
(* What the XM-23 cache promises to the CPU: a store of words in which a   *)
(* load returns the last word stored, in front of a main memory that       *)
(* receives those words some time later.                                   *)
(*                                                                         *)
(* Nothing here knows of lines, tags, policies or replacement.  Losing the *)
(* words that memory has not received yet is allowed in one step only, the *)
(* change of the cache settings.                                           *)
(***************************************************************************)
CONSTANTS
    Addr,   \* the word addresses the program uses
    Word    \* the values of a memory word

VARIABLES
    store,  \* store[a]: the word a load of a returns
    saved,  \* saved[a]: the word main memory holds at a
    out     \* the word last exchanged with the CPU (cpu.mbr)

svars == <<store, saved, out>>

Init ==
    /\ store \in [Addr -> Word]
    /\ saved = store
    /\ out \in Word

(* Main memory may receive, for any set of addresses, the word stored      *)
(* there; it never receives anything else.                                 *)
Propagate ==
    /\ saved' \in [Addr -> Word]
    /\ \A a \in Addr : saved'[a] \in {saved[a], store'[a]}

Load(a) ==
    /\ out' = store[a]
    /\ store' = store
    /\ Propagate

Store(a, w) ==
    /\ store' = [store EXCEPT ![a] = w]
    /\ out' = w
    /\ Propagate

(* A change of settings forgets what main memory has not received.         *)
Reset ==
    /\ store' = saved
    /\ UNCHANGED <<saved, out>>

Next ==
    \/ \E a \in Addr : Load(a) \/ \E w \in Word : Store(a, w)
    \/ Reset

Spec == Init /\ [][Next]_svars
=============================================================================
