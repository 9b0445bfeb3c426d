--------------------------- MODULE MCPromptProtocol ---------------------------
(* PromptProtocol with one prompt in each of two processes.                *)
EXTENDS PromptProtocol, TLC

CONSTANTS nameA, nameB, cbA, cbB, o1, o2, null

MCNameOf == [c \in Callback |-> IF c = cbA THEN nameA ELSE nameB]
MCLimit == (cbA :> 2) @@ (cbB :> 1)
=============================================================================
