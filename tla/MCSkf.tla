------------------------------- MODULE MCSkf -------------------------------
(* Two whole libraries and an incomplete one; two devices with at most one *)
(* application and one container each.                                     *)
EXTENDS Skf, TLC

CONSTANTS l1, l2, l3, d1, d2, a1, c1

MCLibs == {l1, l2, l3}
MCComplete == {l1, l2}
MCDevs == {d1, d2}
MCApps == {a1}
MCContainers == {c1}
MCSymmetry == Permutations({l1, l2}) \cup Permutations({d1, d2})
============================================================================
