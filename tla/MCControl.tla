----------------------------- MODULE MCControl -----------------------------
(* Two terminals, room for two server processes, two settings with two      *)
(* values each.                                                             *)
EXTENDS Control, TLC

CONSTANTS s1, s2, p1, p2

MCSessions == {s1, s2}
MCPids == {p1, p2}

Symmetry == Permutations(MCSessions) \cup Permutations(MCPids)
=============================================================================
