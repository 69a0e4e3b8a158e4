---------------------------- MODULE CacheRecency ----------------------------
(***************************************************************************)
(* Cache with the history its usage counters stand for: which line was     *)
(* used after which ("Determines the index of the LRU cache line",         *)
(* cache.c:104).  cache_find_lru_associative knows only the counters.      *)
(***************************************************************************)
EXTENDS Cache

VARIABLE later  \* the pairs <<i, j>> of lines: i was used since the last reset
                \* and, if j was too, after the last use of j

rvars == <<mem, cache, organization_method, replacement_policy, mar, mbr, later>>

Used(i) == (later \ (Lines \X {i})) \cup ({i} \X (Lines \ {i}))

Access1(x) == Read(x[1], x[2]) \/ \E w \in Data : Write(x[1], w, x[2])

RInit == Init /\ later = {}

RNext ==
    \/ \E x \in Access : Access1(x) /\ later' = Used(Index(x[1]))
    \/ /\ \E s \in Settings : Reconfigure(s[1], s[2])
       /\ later' = {}

RSpec == RInit /\ [][RNext]_rvars

(* The counters never contradict the history: of two lines of different    *)
(* age the one with the higher counter was used, and was used later if the *)
(* other was too; a line that was never used is of age 0.                  *)
UsageAgreesWithHistory ==
    ~Direct => \A i, j \in Lines :
        cache[i].usage > cache[j].usage => <<i, j>> \in later
=============================================================================
