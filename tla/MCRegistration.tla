----------------------------- MODULE MCRegistration -----------------------------
(* Registration for TLC: two texts that differ by space only, one other, and  *)
(* the empty one.                                                            *)
EXTENDS Registration, TLC

CONSTANTS x, xSpaced, y, r1, r2, l1

MCTexts == {x, xSpaced, y, Empty}
MCTrimSpace == [t \in MCTexts |-> IF t = xSpaced THEN x ELSE t]
TwoRegisters == {r1, r2}
OneLogin == {l1}
MCSymmetry == Permutations(TwoRegisters)
=============================================================================
