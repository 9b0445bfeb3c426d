--------------------------- MODULE MCSecretExchange ---------------------------
(***************************************************************************)
(* How a secret travels, one part at a time: the exchange between a         *)
(* prompter and a client, with two passwords, and a passphrase on its way   *)
(* from the keyring or the prompt to ssh-add.                               *)
(***************************************************************************)
EXTENDS SecretExchange, SshAskpass, TLC

CONSTANTS prompterEnd, clientEnd, pw1, pw2, null, junk

VARIABLE part

MCPeer == (prompterEnd :> clientEnd) @@ (clientEnd :> prompterEnd)

MCInit ==
    /\ part \in {"exchange", "askpass"}
    /\ Init /\ HInit
    /\ part = "askpass" \/ keyring = <<>>

MCNext ==
    \/ part = "exchange" /\ Next /\ UNCHANGED <<part, hvars>>
    \/ part = "askpass" /\ HNext /\ UNCHANGED <<part, vars>>

MCSpec == MCInit /\ [][MCNext]_<<part, vars, hvars>> /\ HFairness
=============================================================================
