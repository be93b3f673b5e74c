---------------------------- MODULE MCOmapPmTput ----------------------------
EXTENDS OmapPmTput, TLC

CONSTANTS d1, d2, d3

MCDevs == {d1, d2, d3}
MCSymmetry == Permutations(MCDevs)
====
