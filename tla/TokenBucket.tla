------------------------------ MODULE TokenBucket ------------------------------
(***************************************************************************)
(* What rate_limit.py promises, without its bookkeeping: a bucket that     *)
(* fills at a steady rate up to its size, and a call that is admitted      *)
(* exactly when a whole token is there.  Tokens are counted in units; one  *)
(* token is Unit of them and Rate units arrive per tick.                   *)
(***************************************************************************)
EXTENDS Naturals

CONSTANTS Unit, Rate, Burst

VARIABLES level,     \* units in the bucket
          verdict    \* what the last call was told

Size == Burst * Unit

Smaller(a, b) == IF a <= b THEN a ELSE b

Init == level = Size /\ verdict = "none"

Fill == level' = Smaller(Size, level + Rate) /\ UNCHANGED verdict

Admit == level >= Unit /\ level' = level - Unit /\ verdict' = "admitted"

Refuse == level < Unit /\ verdict' = "refused" /\ UNCHANGED level

Next == Fill \/ Admit \/ Refuse

Spec == Init /\ [][Next]_<<level, verdict>>
=============================================================================
