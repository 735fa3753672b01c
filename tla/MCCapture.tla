----------------------------- MODULE MCCapture -----------------------------
(***************************************************************************)
(* Capture with a wave of mine and one of someone else.                    *)
(***************************************************************************)
EXTENDS Capture
CONSTANTS theirs, mine, testnet
SameNetwork == [w \in Wave |-> testnet]
=============================================================================
