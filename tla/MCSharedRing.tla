---------------------------- MODULE MCSharedRing ----------------------------
(* A writer and a reader, which may take each other's segment away.        *)
EXTENDS SharedRing

CONSTANTS writer, reader, v1, v2, v3

MCProcs == {writer, reader}
MCReaders == {reader}
MCSizes == {1, 2}
MCValues == {v1, v2, v3}

(* Bound: there is only one segment at a time that has been written.       *)
OneRing == Cardinality({id \in Ids : lengths[id] # {}}) <= 1

MCSymmetry == Permutations(MCValues)
============================================================================
