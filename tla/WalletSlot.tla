----------------------------- MODULE WalletSlot -----------------------------
(***************************************************************************)
(* What activateWallet of lib/engine.js promises, whatever overlaps: the    *)
(* engine's wallet is one slot, emptied by every request for another        *)
(* wallet and filled by the newest request alone; the paid gate asks the    *)
(* wallet that filled the slot last.                                       *)
(***************************************************************************)
EXTENDS Naturals

CONSTANTS
  Network,    \* what a wallet may settle on
  MaxWallets  \* bound on the wallets asked for

ASSUME WalletSlotAssumption == MaxWallets \in Nat

VARIABLES
  seq,  \* activateSeq: the newest request
  slot, \* payments: the wallet in use, named by its request
  gate, \* the wallet whose verifier the paid gate holds
  net   \* the network each requested wallet settles on

slotVars == <<seq, slot, gate, net>>

Wallet == 1 .. MaxWallets
NoWallet == 0

SlotTypeOK ==
  /\ seq \in 0 .. MaxWallets
  /\ slot \in Wallet \cup {NoWallet}
  /\ gate \in Wallet \cup {NoWallet}
  /\ net \in [Wallet -> Network]

SlotInit ==
  /\ seq = 0
  /\ slot = NoWallet
  /\ gate = NoWallet
  /\ \E n \in Network : net = [w \in Wallet |-> n] \* told by no one yet

\* Another wallet is asked for; the one in use is given up at once.
Ask ==
  /\ seq < MaxWallets
  /\ seq' = seq + 1
  /\ slot' = NoWallet
  /\ \E n \in Network : net' = [net EXCEPT ![seq + 1] = n]
  /\ UNCHANGED gate

\* The newest request is met.
Fill ==
  /\ seq > 0
  /\ slot = NoWallet
  /\ slot' = seq
  /\ gate' = seq
  /\ UNCHANGED <<seq, net>>

SlotSpec == SlotInit /\ [][Ask \/ Fill]_slotVars

=============================================================================
