------------------------------ MODULE MCEntityRead ------------------------------
(***************************************************************************)
(* Small instances of EntityRead.                                          *)
(***************************************************************************)
EXTENDS EntityRead, TLC

CONSTANTS r1, r2, s1, s2, f1, f2

TwoReaders     == {r1, r2}
TwoSensors     == {s1, s2}
OneAssociated  == {s1}
TwoFirmwares   == {f1, f2}
AllKinds       == {"chassis", "fan", "psu", "server"}
Symmetry       == Permutations(TwoReaders) \cup Permutations(TwoFirmwares)
=============================================================================
