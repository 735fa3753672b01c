----------------------------- MODULE MCPaidGate -----------------------------
\* The instance TLC checks PaidGate on.
EXTENDS PaidGate, TLC

CONSTANTS testnet, mainnet

\* No definition tells one network from the other.
NetworkSymmetry == Permutations(Network)

\* A start burn in order, for a fee of 2.
Good(kind, n) ==
  [kind |-> kind, fee |-> 2, claimed |-> 2, payer |-> "they pay",
   burn |-> [readable |-> TRUE, net |-> n, locks |-> {"black hole"}, total |-> 2,
             memos |-> {TheirWave}, payer |-> "they pay", spent |-> FALSE],
   proof |-> [reason |-> "start", wave |-> TheirWave, peer |-> They, fresh |-> TRUE,
              signed |-> TRUE]]

\* In order on each network, and at an unclassified mint; of half the fee; made for
\* another wave, with a reference that does not decode; below the floor; and with a
\* proof gone stale.
MCStarts ==
  {Good(kind, n) : kind \in {"cashu", "usdt"}, n \in Network}
    \cup {Good("cashu", Unknown),
          [Good("cashu", Unknown) EXCEPT !.burn.total = 1],
          [Good("cashu", Unknown) EXCEPT !.burn.memos = {"another wave"},
                                         !.burn.readable = FALSE],
          [Good("cashu", Unknown) EXCEPT !.fee = NoFee, !.claimed = 1],
          [Good("trx", Unknown) EXCEPT !.proof.fresh = FALSE]}

=============================================================================
