----------------------------- MODULE RoundCeil2 -----------------------------
(***************************************************************************)
(* util_round_ceil2_ull (src/utils/utils.c) on words of W bits, in the two *)
(* ways in which it is compiled.  htable_create takes its index_capacity   *)
(* from it, and the probe loops of HTable mask hashes with that capacity   *)
(* minus one.                                                              *)
(***************************************************************************)
EXTENDS HTable, Bitwise, SequencesExt

CONSTANT LogW      \* 6 in the code

ASSUME LogWAssumption == LogW \in 1..6

W == 2 ^ LogW
Word == 0..2 ^ W - 1

(* W - __builtin_clzll (v) *)
BitLength(v) == CHOOSE n \in 1..W : 2 ^ (n - 1) <= v /\ v < 2 ^ n

(* What a compiler with __builtin_clzll may return: shifting 1 by the      *)
(* width of the word is undefined.                                         *)
Gnu(value) ==
    IF value <= 2 THEN {value}
    ELSE IF BitLength(value - 1) = W THEN Word
    ELSE {2 ^ BitLength(value - 1)}

(* Mutant: the widest shift is left out. *)
Shifts_OneShort == [k \in 1..LogW - 1 |-> 2 ^ (k - 1)]

Shifts == [k \in 1..LogW |-> 2 ^ (k - 1)]

(* value |= value >> n, for those n in turn *)
Smear(value) == FoldLeft(LAMBDA w, n : w | shiftR(w, n), value, Shifts)

Portable(value) == IF value <= 2 THEN value ELSE (Smear(value - 1) + 1) % 2 ^ W

util_round_ceil2_ull == [value \in Word |-> Gnu(value) \cup {Portable(value)}]

-----------------------------------------------------------------------------
(* Properties *)

(* Growth doubles what htable_create chose: at every moment, both builds   *)
(* would have chosen the table's index_capacity for any number of slots    *)
(* above half of it, so that it is a power of two and is never too small.  *)
RoundsUp ==
    \A value \in index_capacity \div 2 + 1..index_capacity :
      util_round_ceil2_ull[value] = {index_capacity}
=============================================================================
