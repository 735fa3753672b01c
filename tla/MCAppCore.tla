----------------------------- MODULE MCAppCore -----------------------------
(***************************************************************************)
(* AppCore with two waves, both of one of two networks.                    *)
(***************************************************************************)
EXTENDS AppCore
CONSTANTS w1, w2, t1, t2, k1, testnet, mainnet
SameNetwork == [w \in Wave |-> testnet]
=============================================================================
