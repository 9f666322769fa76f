---------------------------- MODULE RandomRange ----------------------------
(* Random numbers of a range (src/random_stream.c), on words of any even   *)
(* number of values where the source has 2^32.                             *)
EXTENDS Integers

CONSTANT Half   \* half of the number of values of a word
ASSUME HalfAssumption == Half \in Nat \ {0}

Words == 2 * Half
U32s == 0..(Words - 1)
S32s == (-Half)..(Half - 1)

ToU32(n) == n % Words
ToS32(n) == IF ToU32(n) \in S32s THEN ToU32(n) ELSE ToU32(n) - Words

(* A faulty variant of the next definition, and no part of the model.      *)
NoThreshold(range) == 0

(* (u32)(-(s32)range) % range: what does not fill a whole range is left    *)
(* out.                                                                    *)
Threshold(range) == ToU32(-ToS32(range)) % range

(* random_get_u32_range, when the stream gives r: the number, or again. *)
Again == Words
GetU32Range(r, minVal, maxVal) ==
  LET range == ToU32(maxVal - minVal)
  IN  IF r >= Threshold(range) THEN ToU32(minVal + (r % range)) ELSE Again

(* random_get_s32_range; maxVal - minVal may not overflow. *)
GetS32Range(r, minVal, maxVal) ==
  LET range == maxVal - minVal
      val == GetU32Range(r, 0, ToU32(range))
  IN  CASE range <= 0 -> minVal
        [] range > 0 /\ val = Again -> Again
        [] OTHER -> ToS32(ToU32(minVal + val))
=============================================================================
