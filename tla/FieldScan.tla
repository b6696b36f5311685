----------------------------- MODULE FieldScan -----------------------------
(***************************************************************************)
(* main_job of rt_field.c, the DIS field stressmark, for its one token     *)
(* (n = 1): the field is filled with random bytes, then scanned left to    *)
(* right; where the token's delimiter occurs, its bytes are rewritten      *)
(* with a neighbour mod_offset away, the scan skips it and a new subfield  *)
(* starts; every other byte is added to the current subfield's count, sum  *)
(* and min.  The delimiter is abstracted to its first Len(Delimiter)       *)
(* bytes, the field to F bytes followed by the ones the scan can read past *)
(* its end: the field buffer has f_max > f bytes, those past f are never   *)
(* written by the fill loop, so their value is indeterminate.              *)
(***************************************************************************)
EXTENDS Naturals, Sequences, FiniteSetsExt

CONSTANTS
  F,              \* f, the bytes the fill loop writes
  TOKEN_LENGTH,   \* the bytes of input_token the delimiter keeps
  Bytes,          \* byte values randInt(MIN_TOKEN_VALUE, MAX_TOKEN_VALUE)
                  \* and the indeterminate bytes past f may take
  MAX_SUBFIELDS,  \* the bound the scan loop tests subfields against
  SUBFIELD_MOD    \* 2^8: token.subfields is an unsigned char

MAX_TOKEN_VALUE == 255
MOD_OFFSET == 256   \* mod_offset

\* input_token, copied into token[0].delimiter by the first loop.
input_token == <<1, 1, 34, 1, 194, 1, 45, 0>>   \* 0x1, 0x1, 0x22, 0x1, 0xc2, 0x1, 0x2d, 0x0

Delimiter == SubSeq(input_token, 1, TOKEN_LENGTH)

L == Len(Delimiter)  \* token[0].length

ASSUME F \in Nat \ {0} /\ TOKEN_LENGTH \in 1 .. 8
ASSUME Bytes \subseteq 0 .. MAX_TOKEN_VALUE
ASSUME MAX_SUBFIELDS \in Nat /\ SUBFIELD_MOD \in Nat \ {0}

\* The cells the scan can touch: f bytes and the L past them.
Cells == 0 .. (F + L - 1)

VARIABLES
  pc,         \* "fill", "scan", "done"
  field,      \* the field buffer
  orig,       \* the field as filled (history, for the checks)
  index,      \* the scan position
  subfields,  \* token[0].subfields
  stat        \* token[0].stat

vars == <<pc, field, orig, index, subfields, stat>>

-----------------------------------------------------------------------------
EmptyStat == [count |-> 0, min |-> MAX_TOKEN_VALUE, sum |-> 0]

(* delimiter[offset]; for offset = length the comparison reads the byte   *)
(* after the array in struct tokenS, which is length itself.              *)
DelimAt(o) == IF o < L THEN Delimiter[o + 1] ELSE L

(* The inner while: offset counts matching bytes; the field byte is       *)
(* compared before offset < length is tested.                             *)
RECURSIVE MatchLen(_, _, _)
MatchLen(fld, i, o) ==
  IF fld[i + o] = DelimAt(o) /\ o < L THEN MatchLen(fld, i, o + 1) ELSE o

(* The for loop over a matched delimiter: each byte is replaced by its    *)
(* sum with the byte mod_offset further on (mod f), modulo 256, in order. *)
RECURSIVE Rewrite(_, _, _)
Rewrite(fld, i, o) ==
  IF o = L THEN fld
  ELSE Rewrite([fld EXCEPT ![i + o] =
                  (fld[i + o] + fld[(i + o + MOD_OFFSET) % F])
                    % (MAX_TOKEN_VALUE + 1)], i, o + 1)

\* Mutant: the min test reversed.
AccumulateMinReversed(s, b) ==
  [count |-> s.count + 1,
   min   |-> IF s.min < b THEN b ELSE s.min,
   sum   |-> (s.sum + b) % 256]

(* A byte of the current subfield: count++, sum += byte (an unsigned      *)
(* char), min lowered.                                                    *)
Accumulate(s, b) ==
  [count |-> s.count + 1,
   min   |-> IF s.min > b THEN b ELSE s.min,
   sum   |-> (s.sum + b) % 256]

Init ==
  /\ pc = "fill"
  /\ \E past \in [F .. (F + L - 1) -> Bytes] :
       field = [c \in Cells |-> IF c < F THEN 0 ELSE past[c]]
  /\ orig = field
  /\ index = 0
  /\ subfields = 0
  /\ stat = [s \in 0 .. (SUBFIELD_MOD - 1) |-> EmptyStat]

(* The fill loop (field[l] = randInt(...) for l < f) and the reset of the *)
(* token's statistics before the scan.                                    *)
Fill ==
  /\ pc = "fill"
  /\ \E v \in [0 .. (F - 1) -> Bytes] :
       field' = [c \in Cells |-> IF c < F THEN v[c] ELSE field[c]]
  /\ orig' = field'
  /\ index' = 0
  /\ subfields' = 0
  /\ stat' = [stat EXCEPT ![0] = EmptyStat]
  /\ pc' = "scan"

(* One iteration of the scan loop, while index < f and                    *)
(* subfields < MAX_SUBFIELDS.                                             *)
ScanStep ==
  /\ pc = "scan"
  /\ index < F
  /\ subfields < MAX_SUBFIELDS
  /\ LET o == MatchLen(field, index, 0)
         s == (subfields + 1) % SUBFIELD_MOD
     IN  IF o = L
           THEN /\ field' = Rewrite(field, index, 0)
                /\ index' = index + L
                /\ subfields' = s
                /\ stat' = [stat EXCEPT ![s] = EmptyStat]
           ELSE /\ stat' = [stat EXCEPT ![subfields] =
                              Accumulate(stat[subfields], field[index])]
                /\ index' = index + 1
                /\ UNCHANGED <<field, subfields>>
  /\ UNCHANGED <<pc, orig>>

ScanDone ==
  /\ pc = "scan"
  /\ ~(index < F /\ subfields < MAX_SUBFIELDS)
  /\ pc' = "done"
  /\ UNCHANGED <<field, orig, index, subfields, stat>>

Next == Fill \/ ScanStep \/ ScanDone

Spec == Init /\ [][Next]_vars

-----------------------------------------------------------------------------
(* Reference: the delimiters a left-to-right scan finds, each starting    *)
(* before f and none overlapping the previous one, and the bytes of       *)
(* subfield s, those before f in no delimiter with s delimiters before.   *)
IsDelimiterAt(i) == \A o \in 1 .. L : orig[i + o - 1] = Delimiter[o]

RECURSIVE Delimiters(_)
Delimiters(i) ==
  IF i >= F THEN <<>>
  ELSE IF IsDelimiterAt(i) THEN <<i>> \o Delimiters(i + L)
  ELSE Delimiters(i + 1)

Body(ds, s) ==
  { p \in 0 .. (F - 1) :
      /\ \A m \in 1 .. Len(ds) : ~(ds[m] <= p /\ p < ds[m] + L)
      /\ Cardinality({m \in 1 .. Len(ds) : ds[m] < p}) = s }

RefStat(ds, s) ==
  [count |-> Cardinality(Body(ds, s)),
   min   |-> Min({MAX_TOKEN_VALUE} \cup {orig[p] : p \in Body(ds, s)}),
   sum   |-> MapThenSumSet(LAMBDA p : orig[p], Body(ds, s)) % 256]

(* When main_job's scan ends, subfields is the number of delimiters in    *)
(* the field and every subfield's count, min and sum are those of the     *)
(* bytes between consecutive delimiters.                                  *)
StatsMatchReference ==
  pc = "done" =>
    LET ds == Delimiters(0)
    IN  /\ subfields = Len(ds)
        /\ \A s \in 0 .. Len(ds) : stat[s] = RefStat(ds, s)

(* The scan consumes only the f bytes the fill loop wrote: no delimiter   *)
(* is matched against bytes past the end of the field.                    *)
ScanStaysInField == index <= F

=============================================================================
