---------------------------- MODULE MCRandRange ----------------------------
(***************************************************************************)
(* Every call randrange(0, l) the arena code makes, for working sets up to *)
(* MaxLimit lines, with glibc's RAND_MAX.  init_arena calls it with        *)
(* l = 1 .. numlines - 1, random_start with l = numlines; dio_raw's default *)
(* working set is 3072 kB = 98304 lines of 32 bytes.                        *)
(***************************************************************************)
EXTENDS RandRange

CONSTANT MaxLimit

VARIABLE limit   \* the max - min of the call

Init == limit \in 1 .. MaxLimit

Next == UNCHANGED limit

Spec == Init /\ [][Next]_limit

\* glibc: RAND_MAX == 2147483647.
GlibcRandMax == 2147483647

(* randrange's own comment: the result lies in [min, max).  init_arena's *)
(* Sattolo shuffle and random_start index the arena with it.  Every value *)
(* of RandRange(0, limit) is below limit exactly when RandTop(limit),     *)
(* the largest quotient, is at most limit (limit itself is retried).      *)
RandRangeWithinBounds ==
  RandTop(limit) <= limit
=============================================================================
