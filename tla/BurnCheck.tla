----------------------------- MODULE BurnCheck -----------------------------
(***************************************************************************)
(* The offline half of the paid gate, as operators: when the start proof of*)
(* a wave is good enough to look at (lib/attest.js), and what a wallet may *)
(* answer when it is asked whether the burn behind it is real: a Cashu     *)
(* wallet (verifyBurnTx, cashu-burn.js, mint-networks.js), a TRX and a USDT*)
(* wallet.  An answer is "ok", "no" (definitive) or "transient".           *)
(*                                                                         *)
(* A burn is what its reference reveals to whoever reads it:               *)
(*   readable  it decodes; the transaction is a transfer of the right kind *)
(*   net       the network of its mint, or the chain it was made on        *)
(*   locks     what its coins are locked to, or whom the transfer pays     *)
(*   total     its amount                                                  *)
(*   memos     the waves its memos commit to                               *)
(*   payer     the wallet that made it                                     *)
(*   spent     some of its coins are spent, or being spent                 *)
(***************************************************************************)
EXTENDS Naturals

CONSTANTS
  Unknown, \* the network of a mint that nobody has classified
  NoFee    \* of a wave announced without a fee

Burnt == {"black hole"} \* the locks of a burn: the NUMS key, the burn address

\* The least a start burn must amount to: the announced fee, else what it claims.
MinAmount(fee, claimed) == IF fee = NoFee THEN claimed ELSE fee

\* startProofValid(): a start burn of this wave, by its initiator, signed and fresh.
startProofValid(proof, wave, by) ==
  /\ proof.reason = "start"
  /\ proof.wave = wave
  /\ proof.peer = by
  /\ proof.fresh
  /\ proof.signed

\* crossNetworkMints(): both mints are classified, and differently.
crossNetworkMints(a, b) == Unknown \notin {a, b} /\ a # b

\* verifyBurnProofs(): every coin is locked to the NUMS key with a memo of the wave.
verifyBurnProofs(burn, wave, least) ==
  /\ burn.locks = Burnt
  /\ burn.total >= least
  /\ burn.memos = {wave}

\* CashuWallet.verifyBurnTx(): another network is a definitive no, found offline; a
\* reference that does not decode is as transient as a mint out of reach.
CashuAnswers(mint, burn, wave, least) ==
  IF ~burn.readable THEN {"transient"}
  ELSE IF crossNetworkMints(burn.net, mint) THEN {"no"}
  ELSE {"transient",
        IF verifyBurnProofs(burn, wave, least) /\ ~burn.spent THEN "ok" ELSE "no"}

\* What both Tron wallets look for on their own chain.
TronBurn(chain, burn, wave, from, least) ==
  /\ burn.readable /\ burn.net = chain
  /\ burn.locks = Burnt
  /\ burn.payer = from
  /\ burn.total >= least
  /\ wave \in burn.memos

\* TronWallet.verifyBurnTx(): a node out of reach is transient.
TrxAnswers(chain, burn, wave, from, least) ==
  {"transient", IF TronBurn(chain, burn, wave, from, least) THEN "ok" ELSE "no"}

\* TronUsdtWallet.verifyBurnTx(): a node out of reach is a definitive no.
UsdtAnswers(chain, burn, wave, from, least) ==
  {"no", IF TronBurn(chain, burn, wave, from, least) THEN "ok" ELSE "no"}

\* What a wallet of this kind on this network may answer.
Answers(kind, net, burn, wave, from, least) ==
  CASE kind = "cashu" -> CashuAnswers(net, burn, wave, least)
    [] kind = "trx" -> TrxAnswers(net, burn, wave, from, least)
    [] kind = "usdt" -> UsdtAnswers(net, burn, wave, from, least)

\* A burn that is worth a wave's start: coins nobody can spend, made for this wave, of
\* the least amount.
Settles(burn, wave, least) ==
  burn.locks = Burnt /\ burn.total >= least /\ wave \in burn.memos

=============================================================================
