------------------------------ MODULE MCArena ------------------------------
(***************************************************************************)
(* Instantiates Arena for TLC.  NumLines is the working set in cache      *)
(* lines (wss * 32 in the programs; 5 here), RAND_MAX is glibc's value.    *)
(***************************************************************************)
EXTENDS Arena

\* glibc: RAND_MAX == 2147483647.
GlibcRandMax == 2147483647

=============================================================================
