----------------------------- MODULE RandRange -----------------------------
(***************************************************************************)
(* randrange(min, max) of mc2spin.c, mc2measure.c and dio_raw.c: "generate *)
(* a random number on the range [min, max) w/o skew".                      *)
(***************************************************************************)
EXTENDS Naturals

CONSTANT RAND_MAX   \* the C library's RAND_MAX

(* limit = max - min; devisor = RAND_MAX / limit; retval = rand() / devisor *)
(* is retried while it equals limit.  rand() / devisor takes every value   *)
(* of 0 .. RandTop(limit), which exceeds limit when limit is large.        *)
RandTop(limit) == RAND_MAX \div (RAND_MAX \div limit)

RandRange(min, max) ==
  { v + min : v \in (0 .. RandTop(max - min)) \ {max - min} }
=============================================================================
