----------------------------- MODULE WideValues -----------------------------
(***************************************************************************)
(* Integers that cross between Pawn's cells and libcurl's wider types, in  *)
(* both directions: the off_t branch of curl_easy_setopt (curl_natives.cc) *)
(* and the arguments of SeekCallback (amx_curl_callback_class.cc).         *)
(*                                                                         *)
(* A cell holds one of M values, in two's complement; a curl_off_t one of  *)
(* M * M.  In the build M is 2^32.  A shift by the width of a cell is a    *)
(* division by M, rounding down; the disjoint `|' of two words is a sum.   *)
(***************************************************************************)
EXTENDS Integers, Sequences

CONSTANT M  (* how many values a cell has *)

ASSUME CellAssumption == M \in Nat \ {0} /\ 2 * (M \div 2) = M

Cell == -(M \div 2) .. (M \div 2) - 1

\* static_cast<uint32_t> of a cell.
Unsigned(c) == IF c < 0 THEN c + M ELSE c

\* static_cast<curl_off_t> of a uint64_t.
ToOffset(u) == IF 2 * u >= M * M THEN u - M * M ELSE u

\* Mutant: the low cell is widened as it is, and its sign covers the high word.
SmearedOffset(hi, lo) == ToOffset(IF lo < 0 THEN M * M + lo ELSE Unsigned(hi) * M + lo)

\* curl_easy_setopt: the two cells of an off_t option become one curl_off_t.
OffsetOf(hi, lo) == ToOffset(Unsigned(hi) * M + Unsigned(lo))

\* What a pair of cells stands for: the high one carries the sign.
Denotes(hi, lo) == hi * M + Unsigned(lo)

\* static_cast<int> of a curl_off_t.
LowCell(v) == LET u == v % M IN IF 2 * u >= M THEN u - M ELSE u

\* offset >> 32, on a signed curl_off_t.
HighPart(v) == v \div M

\* The words a 64-bit argument takes on the stack of a variadic call, low word first.
WordsOf(v) == <<LowCell(v), HighPart(v)>>

\* SeekCallback: the words it passes to MF_ExecuteForward after the forward's number.
SeekWords(user, v, origin) == <<user>> \o WordsOf(HighPart(v)) \o <<LowCell(v), origin>>

\* The two conversions agree.
OffsetsExact == \A hi, lo \in Cell : OffsetOf(hi, lo) = Denotes(hi, lo)
=============================================================================
