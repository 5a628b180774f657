---------------------------- MODULE MCEntityCache ----------------------------
(***************************************************************************)
(* Small instances of EntityCache.                                         *)
(***************************************************************************)
EXTENDS EntityCache, TLC

CONSTANTS main, req, o1, o2, i1, i2, i3, i4, i5

TwoReaders == {main, req}
OneReader == {main}
OneObject == {o1}
TwoObjects == {o1, o2}
FourInstances == {i1, i2, i3, i4}
FiveInstances == {i1, i2, i3, i4, i5}
ThreeInstances == {i1, i2, i3}
InstanceSymmetry == Permutations(Instances)
=============================================================================
