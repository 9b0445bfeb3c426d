--------------------------- MODULE MCSystemPrompter ---------------------------
(* SystemPrompter with two callers, one of them with two prompts.          *)
EXTENDS SystemPrompter, TLC

CONSTANTS nameA, nameB, cbA1, cbA2, cbB1, o1, o2, o3, q1, null

MCName == {nameA, nameB}
MCCallback == {cbA1, cbA2, cbB1}
MCNameOf == [c \in MCCallback |-> IF c = cbB1 THEN nameB ELSE nameA]
Symmetry == Permutations({o1, o2, o3}) \cup Permutations({cbA1, cbA2})
=============================================================================
