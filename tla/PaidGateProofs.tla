--------------------------- MODULE PaidGateProofs ---------------------------
(***************************************************************************)
(* Theorems about PaidGate, for every set of start burns and every bound:  *)
(* its state stays well formed, a gated wave is announced with its burn,   *)
(* a seat is paid once, and no fee is burned for a wave whose own start    *)
(* burn settles nothing.                                                   *)
(***************************************************************************)
EXTENDS PaidGate, TLAPS

-----------------------------------------------------------------------------
\* What a wallet's answer says of a burn.

\* Of whatever kind the wallet is and whatever network it is on, it confirms only burns that
\* settle a wave.
LEMMA OkSettles ==
  ASSUME NEW kind \in {"cashu", "trx", "usdt"}, NEW mint, NEW burn, NEW wave, NEW from,
         NEW least, "ok" \in Answers(kind, mint, burn, wave, from, least)
  PROVE  Settles(burn, wave, least)
<1>1. CASE kind = "cashu"
  <2>1. "ok" \in CashuAnswers(mint, burn, wave, least)
    BY <1>1 DEF Answers
  <2>2. verifyBurnProofs(burn, wave, least)
    BY <2>1 DEF CashuAnswers
  <2> QED
    BY <2>2 DEF verifyBurnProofs, Settles
<1>2. CASE kind = "trx"
  <2>1. "ok" \in TrxAnswers(mint, burn, wave, from, least)
    BY <1>2 DEF Answers
  <2>2. TronBurn(mint, burn, wave, from, least)
    BY <2>1 DEF TrxAnswers
  <2> QED
    BY <2>2 DEF TronBurn, Settles
<1>3. CASE kind = "usdt"
  <2>1. "ok" \in UsdtAnswers(mint, burn, wave, from, least)
    BY <1>3 DEF Answers
  <2>2. TronBurn(mint, burn, wave, from, least)
    BY <2>1 DEF UsdtAnswers
  <2> QED
    BY <2>2 DEF TronBurn, Settles
<1> QED
  BY <1>1, <1>2, <1>3

-----------------------------------------------------------------------------
\* Types.

FlowsType == [Flow -> [kind : {"none", "start", "join"}, pc : FlowPc,
                       wal : Wallet \cup {NoWallet}, by : Wallet \cup {NoWallet}]]
OwnType == [Flow -> [phase : {"none", "paying", "announced"},
                     gated : BOOLEAN, burned : BOOLEAN, signed : BOOLEAN]]
TheirsType == [start : Starts, ended : BOOLEAN,
               memo : {"none", "joined", "ticket"}, fees : 0 .. MaxFees,
               phase : {"none", "lobby", "racing"}, gated : BOOLEAN,
               paid : {"pending", "verified"}, proof : BOOLEAN, joined : BOOLEAN,
               burn : BOOLEAN]
AskType == [try : 0 .. MaxRetries, by : Wallet, st : {"asked", "backoff"}]

\* A verification names a wallet, which the gate has had since, and the last try is not
\* put off again.
AskInv ==
  /\ asks # {} => gate # NoWallet
  /\ \A k \in asks : k.st = "backoff" => k.try < MaxRetries

\* The other peer's wave stays one, and the seat in it goes the way the three say.
LEMMA WaveGone ==
  ASSUME NEW t \in TheirsType
  PROVE  /\ Unheld(t) \in TheirsType /\ GivenUp(t) \in TheirsType /\ Forgotten(t) \in TheirsType
         /\ Unheld(t).phase = "none" /\ ~Unheld(t).joined /\ Unheld(t).start = t.start
         /\ Unheld(t).memo = t.memo /\ Unheld(t).fees = t.fees
         /\ ~GivenUp(t).joined /\ GivenUp(t).fees = 0 /\ GivenUp(t).memo = t.memo
         /\ GivenUp(t).phase = t.phase /\ GivenUp(t).start = t.start
         /\ GivenUp(t).gated = t.gated /\ GivenUp(t).paid = t.paid /\ GivenUp(t).proof = t.proof
         /\ Forgotten(t).phase = "none" /\ ~Forgotten(t).joined /\ Forgotten(t).fees = 0
         /\ Forgotten(t).memo = "none" /\ Forgotten(t).start = t.start
<1> DEFINE g == GivenUp(t)
<1>1. 0 \in 0 .. MaxFees
  BY PaidGateAssumption
<1>2. /\ g \in TheirsType
      /\ ~g.joined /\ g.fees = 0 /\ g.memo = t.memo /\ g.phase = t.phase
      /\ g.start = t.start /\ g.gated = t.gated /\ g.paid = t.paid /\ g.proof = t.proof
  BY <1>1 DEF GivenUp, TheirsType
<1>3. ASSUME NEW u \in TheirsType
      PROVE  /\ Unheld(u) \in TheirsType
             /\ Unheld(u).phase = "none" /\ ~Unheld(u).joined /\ Unheld(u).start = u.start
             /\ Unheld(u).memo = u.memo /\ Unheld(u).fees = u.fees
  BY DEF Unheld, TheirsType
<1> HIDE DEF g
<1> DEFINE h == Unheld(g)
<1>4. h \in TheirsType /\ h.phase = "none" /\ ~h.joined /\ h.start = t.start /\ h.fees = 0
  BY <1>2, <1>3
<1> HIDE DEF h
<1>5. /\ [h EXCEPT !.ended = TRUE, !.memo = "none"] \in TheirsType
      /\ [h EXCEPT !.ended = TRUE, !.memo = "none"].phase = "none"
      /\ ~[h EXCEPT !.ended = TRUE, !.memo = "none"].joined
      /\ [h EXCEPT !.ended = TRUE, !.memo = "none"].fees = 0
      /\ [h EXCEPT !.ended = TRUE, !.memo = "none"].memo = "none"
      /\ [h EXCEPT !.ended = TRUE, !.memo = "none"].start = t.start
  BY <1>4 DEF TheirsType
<1>6. Forgotten(t) = [h EXCEPT !.ended = TRUE, !.memo = "none"]
  BY DEF Forgotten, h, g
<1> QED
  BY <1>2, <1>3, <1>5, <1>6 DEF g

\* The commands' table stays one when a command ends or goes on to the burn.
LEMMA FlowsTypes ==
  ASSUME TypeOK, NEW f \in Flow
  PROVE  /\ Ended(f) \in FlowsType
         /\ \A kind \in {"start", "join"} : Burning(f, kind) \in FlowsType
<1>1. NoFlow \in [kind : {"none", "start", "join"}, pc : FlowPc,
                  wal : Wallet \cup {NoWallet}, by : Wallet \cup {NoWallet}]
  BY DEF NoFlow, FlowPc
<1>2. slot \in Wallet \cup {NoWallet} /\ "burning" \in FlowPc
  BY DEF TypeOK, SlotTypeOK, FlowPc
<1> QED
  BY <1>1, <1>2 DEF Ended, Burning, FlowsType, TypeOK

LEMMA InitType == Init => TypeOK
<1> SUFFICES ASSUME Init PROVE TypeOK
  OBVIOUS
<1>1. SlotTypeOK
  BY WalletSlotAssumption DEF Init, SlotInit, SlotTypeOK
<1>2. flows \in FlowsType
  BY DEF Init, NoFlow, FlowPc, FlowsType
<1>3. own \in OwnType
  BY DEF Init, NoOwn, OwnType
<1>4. theirs \in TheirsType
  BY PaidGateAssumption DEF Init, TheirsType
<1> QED
  BY <1>1, <1>2, <1>3, <1>4 DEF TypeOK, FlowsType, OwnType, TheirsType, Init

LEMMA SlotStepType ==
  ASSUME SlotTypeOK, Ask \/ Fill
  PROVE  SlotTypeOK'
<1>1. CASE Ask
  <2>1. seq + 1 \in Wallet /\ seq' \in 0 .. MaxWallets
    BY <1>1, WalletSlotAssumption DEF Ask, SlotTypeOK, Wallet
  <2>2. net' \in [Wallet -> Network]
    BY <1>1, <2>1 DEF Ask, SlotTypeOK
  <2> QED
    BY <1>1, <2>1, <2>2 DEF Ask, SlotTypeOK
<1>2. CASE Fill
  BY <1>2, WalletSlotAssumption DEF Fill, SlotTypeOK, Wallet
<1> QED
  BY <1>1, <1>2

-----------------------------------------------------------------------------
\* The inductive invariant.

\* A fee was asked for no seat, or for the one that is held or kept over a time-out: the
\* memo of a kept seat is handed back when the wave is met again, before anyone may join.
Seat(t) ==
  /\ t.fees <= 1
  /\ ~t.joined /\ t.memo = "none" => t.fees = 0
  /\ t.phase # "none" => t.memo = "none"
  /\ t.phase = "none" => ~t.joined

\* A gated lobby counts as paid only for a start burn that settles it.
Real(t) ==
  t.phase = "lobby" /\ t.gated /\ t.paid = "verified" =>
    Settles(t.start.burn, TheirWave, Least(t.start))

\* A lobby whose proof was never kept was adopted before the gate was on.
TheirsInv ==
  /\ Seat(theirs) /\ Real(theirs)
  /\ theirs.phase = "lobby" /\ ~theirs.proof => ~theirs.gated

\* A wave of mine is signed only with its burn, and announced behind the gate only signed.
OwnInv ==
  \A f \in Flow : /\ own[f].signed => own[f].burned
                  /\ own[f].phase = "announced" /\ own[f].gated => own[f].signed

IInv == TypeOK /\ AskInv /\ TheirsInv /\ OwnInv

\* The type invariant by its parts.
LEMMA TypeParts ==
  TypeOK <=> /\ SlotTypeOK /\ flows \in FlowsType /\ own \in OwnType
             /\ theirs \in TheirsType /\ asks \subseteq AskType
BY DEF TypeOK, FlowsType, OwnType, TheirsType, AskType

LEMMA InitInv == Init => IInv
<1> SUFFICES ASSUME Init PROVE IInv
  OBVIOUS
<1>1. AskInv
  BY DEF Init, AskInv
<1>2. TheirsInv
  BY DEF Init, TheirsInv, Seat, Real
<1>3. OwnInv
  BY DEF Init, OwnInv, NoOwn
<1> QED
  BY <1>1, <1>2, <1>3, InitType DEF IInv

\* A step of the other peer's wave.
LEMMA AskedInv ==
  ASSUME IInv, enforcePaid, Asked, gate' = gate
  PROVE  asks' \subseteq AskType /\ AskInv'
<1> DEFINE k == [try |-> 0, by |-> gate, st |-> "asked"]
<1>1. gate \in Wallet /\ gate # NoWallet
  BY DEF IInv, TypeOK, SlotTypeOK, enforcePaid
<1>2. k \in AskType
  BY <1>1, PaidGateAssumption DEF AskType
<1>3. asks' = asks \cup {k}
  BY DEF Asked
<1> QED
  BY <1>1, <1>2, <1>3, TypeParts DEF IInv, AskInv

LEMMA AdoptInv ==
  ASSUME IInv, Adopt
  PROVE  IInv'
<1> DEFINE e == enforcePaid
<1>1. e \in BOOLEAN /\ gate' = gate
  BY DEF enforcePaid, Adopt, slotVars
<1>2. asks' \subseteq AskType /\ AskInv'
  <2>1. CASE enforcePaid
    BY <1>1, <2>1, AskedInv DEF Adopt
  <2>2. CASE ~enforcePaid
    BY <1>1, <2>2, TypeParts DEF Adopt, IInv, AskInv
  <2> QED
    BY <2>1, <2>2
<1>3. theirs \in TheirsType /\ Seat(theirs)
  BY TypeParts DEF IInv, TheirsInv
<1>4. theirs' = [theirs EXCEPT !.phase = "lobby", !.gated = e,
                   !.paid = IF e THEN "pending" ELSE "verified",
                   !.proof = e, !.joined = theirs.memo # "none",
                   !.burn = theirs.memo = "ticket", !.memo = "none"]
  BY DEF Adopt
<1> HIDE DEF e
<1>5. theirs' \in TheirsType
  BY <1>1, <1>3, <1>4 DEF TheirsType
<1>6. /\ theirs'.phase = "lobby" /\ theirs'.gated = e /\ theirs'.proof = e
      /\ theirs'.paid = (IF e THEN "pending" ELSE "verified")
      /\ theirs'.joined = (theirs.memo # "none") /\ theirs'.memo = "none"
      /\ theirs'.fees = theirs.fees
  BY <1>3, <1>4 DEF TheirsType
<1>7. theirs.phase = "none" /\ ~theirs.joined
  BY <1>3 DEF Adopt, Seat
<1>8. Seat(theirs')
  BY <1>3, <1>6, <1>7 DEF Seat
<1>9. TheirsInv'
  BY <1>1, <1>6, <1>8 DEF TheirsInv, Real
<1> QED
  BY <1>2, <1>5, <1>9, TypeParts DEF Adopt, IInv, OwnInv, SlotTypeOK, slotVars, TypeOK,
     FlowsType, OwnType, TheirsType, AskType

LEMMA WaveStepInv ==
  ASSUME IInv, WaveStep
  PROVE  IInv'
<1>a. theirs \in TheirsType /\ Seat(theirs) /\ Real(theirs) /\ asks \subseteq AskType
  BY TypeParts DEF IInv, TheirsInv
<1>b. ASSUME UNCHANGED <<slotVars, flows, own>>, theirs' \in TheirsType, TheirsInv',
             asks' \subseteq AskType, AskInv'
      PROVE  IInv'
  BY <1>b, TypeParts DEF IInv, OwnInv, slotVars, SlotTypeOK, TypeOK, FlowsType, OwnType,
     TheirsType, AskType
<1>c. ASSUME UNCHANGED <<slotVars, asks>>
      PROVE  asks' \subseteq AskType /\ AskInv'
  BY <1>a, <1>c DEF IInv, AskInv, slotVars
<1>d. ASSUME NEW t \in TheirsType, t.phase = "none", ~t.joined, t.fees <= 1,
             t.memo = "none" => t.fees = 0, theirs' = t
      PROVE  TheirsInv'
  BY <1>d DEF TheirsInv, Seat, Real
<1>1. CASE Adopt
  BY <1>1, AdoptInv
<1>2. CASE Sync
  <2>1. asks' \subseteq AskType /\ AskInv'
    BY <1>2, AskedInv DEF Sync, slotVars
  <2>2. /\ theirs' \in TheirsType
        /\ theirs'.phase = theirs.phase /\ theirs'.gated = theirs.gated
        /\ theirs'.paid = theirs.paid /\ theirs'.start = theirs.start
        /\ theirs'.joined = theirs.joined /\ theirs'.memo = theirs.memo
        /\ theirs'.fees = theirs.fees /\ theirs'.proof
    BY <1>2, <1>a DEF Sync, TheirsType
  <2>3. TheirsInv'
    BY <1>a, <2>2 DEF TheirsInv, Seat, Real
  <2> QED
    BY <1>2, <1>b, <2>1, <2>2, <2>3 DEF Sync
<1>3. CASE Races
  <2>1. /\ theirs' \in TheirsType
        /\ theirs'.phase = "racing" /\ theirs'.memo = "none" /\ theirs'.fees = theirs.fees
        /\ theirs'.joined = (theirs.joined \/ theirs.memo # "none")
    BY <1>3, <1>a DEF Races, TheirsType
  <2>2. TheirsInv'
    BY <1>a, <2>1 DEF TheirsInv, Seat, Real
  <2> QED
    BY <1>3, <1>b, <1>c, <2>1, <2>2 DEF Races
<1>4. CASE LobbyTimeout
  <2> DEFINE u == Unheld(theirs)
             m == CASE ~theirs.joined -> theirs.memo
                    [] theirs.joined /\ theirs.burn -> "ticket"
                    [] OTHER -> "joined"
  <2>1. u \in TheirsType /\ u.phase = "none" /\ ~u.joined /\ u.fees = theirs.fees
    BY <1>a, WaveGone
  <2>2. m \in {"none", "joined", "ticket"} /\ (theirs.joined => m # "none")
        /\ (~theirs.joined => m = theirs.memo)
    BY <1>a DEF TheirsType
  <2>3. theirs' = [u EXCEPT !.memo = m]
    BY <1>4 DEF LobbyTimeout
  <2> HIDE DEF u, m
  <2>4. /\ theirs' \in TheirsType /\ theirs'.phase = "none" /\ ~theirs'.joined
        /\ theirs'.fees = theirs.fees /\ theirs'.memo = m
    BY <2>1, <2>2, <2>3 DEF TheirsType
  <2>5. theirs'.memo = "none" => theirs'.fees = 0
    BY <1>a, <2>2, <2>4 DEF Seat
  <2>6. TheirsInv'
    BY <1>a, <1>d, <2>4, <2>5 DEF Seat
  <2> QED
    BY <1>4, <1>b, <1>c, <2>4, <2>6 DEF LobbyTimeout
<1>5. CASE RaceEnds
  <2>1. theirs' \in TheirsType /\ TheirsInv'
    BY <1>5, <1>a, <1>d, WaveGone DEF RaceEnds
  <2> QED
    BY <1>5, <1>b, <1>c, <2>1 DEF RaceEnds
<1>6. CASE Unsubscribe
  <2> DEFINE g == GivenUp(theirs)
  <2>1. /\ g \in TheirsType /\ ~g.joined /\ g.fees = 0 /\ g.memo = theirs.memo
        /\ g.phase = theirs.phase /\ g.start = theirs.start /\ g.gated = theirs.gated
        /\ g.paid = theirs.paid /\ g.proof = theirs.proof
    BY <1>a, WaveGone
  <2>2. theirs' = g
    BY <1>6 DEF Unsubscribe
  <2> HIDE DEF g
  <2>3. TheirsInv'
    BY <1>a, <2>1, <2>2 DEF IInv, TheirsInv, Seat, Real
  <2> QED
    BY <1>6, <1>b, <1>c, <2>1, <2>2, <2>3 DEF Unsubscribe
<1>7. CASE SwitchTopic
  <2> DEFINE g == IF theirs.joined THEN GivenUp(theirs) ELSE theirs
             u == Unheld(g)
  <2>1. g \in TheirsType /\ g.fees <= 1 /\ (g.memo = "none" => g.fees = 0)
    BY <1>a, WaveGone DEF Seat
  <2> HIDE DEF g
  <2>2. /\ u \in TheirsType /\ u.phase = "none" /\ ~u.joined
        /\ u.memo = g.memo /\ u.fees = g.fees
    BY <2>1, WaveGone
  <2>3. theirs' = [u EXCEPT !.ended = FALSE]
    BY <1>7 DEF SwitchTopic, g
  <2> HIDE DEF u
  <2>4. /\ theirs' \in TheirsType /\ theirs'.phase = "none" /\ ~theirs'.joined
        /\ theirs'.memo = g.memo /\ theirs'.fees = g.fees
    BY <2>2, <2>3 DEF TheirsType
  <2>5. TheirsInv'
    BY <1>d, <2>1, <2>4
  <2>6. own' \in OwnType /\ OwnInv'
    BY <1>7 DEF SwitchTopic, OwnType, OwnInv, NoOwn
  <2> QED
    BY <1>7, <1>c, <2>4, <2>5, <2>6, TypeParts DEF SwitchTopic, IInv, slotVars, SlotTypeOK,
       TypeOK, FlowsType, OwnType, TheirsType, AskType
<1>8. CASE \E k \in asks : AskAnswered(k)
  <2> PICK k \in asks : AskAnswered(k)
    BY <1>8
  <2>1. k \in AskType /\ AskInv /\ gate' = gate
    BY <1>a DEF IInv, AskAnswered, slotVars
  <2>2. asks' \subseteq AskType /\ AskInv'
    <3>1. CASE asks' = asks \ {k}
      BY <1>a, <2>1, <3>1 DEF AskInv
    <3>2. CASE k.try < MaxRetries /\ asks' = (asks \ {k}) \cup {[k EXCEPT !.st = "backoff"]}
      <4> DEFINE b == [k EXCEPT !.st = "backoff"]
      <4>1. b \in AskType /\ b.try = k.try /\ b.st = "backoff"
        BY <2>1 DEF AskType
      <4> HIDE DEF b
      <4> QED
        BY <1>a, <2>1, <3>2, <4>1 DEF AskInv, b
    <3> QED
      BY <3>1, <3>2 DEF AskAnswered
  <2>3. CASE theirs' = theirs
    BY <1>b, <1>a, <2>2, <2>3 DEF AskAnswered, IInv, TheirsInv
  <2>4. CASE theirs' = Forgotten(theirs)
    <3>1. theirs' \in TheirsType /\ TheirsInv'
      BY <2>4, <1>a, <1>d, WaveGone
    <3> QED
      BY <1>b, <2>2, <3>1 DEF AskAnswered
  <2>5. CASE "ok" \in Verdict(k) /\ theirs' = [theirs EXCEPT !.paid = "verified"]
    <3>1. theirs.start.kind \in {"cashu", "trx", "usdt"}
      BY <1>a, PaidGateAssumption DEF TheirsType
    <3>2. Settles(theirs.start.burn, TheirWave, Least(theirs.start))
      BY <2>5, <3>1, OkSettles DEF Verdict
    <3>3. /\ theirs' \in TheirsType
          /\ theirs'.phase = theirs.phase /\ theirs'.gated = theirs.gated
          /\ theirs'.proof = theirs.proof /\ theirs'.start = theirs.start
          /\ theirs'.joined = theirs.joined /\ theirs'.memo = theirs.memo
          /\ theirs'.fees = theirs.fees
      BY <1>a, <2>5 DEF TheirsType
    <3>4. TheirsInv'
      BY <1>a, <3>2, <3>3 DEF IInv, TheirsInv, Seat, Real
    <3> QED
      BY <1>b, <2>2, <3>3, <3>4 DEF AskAnswered
  <2> QED
    BY <2>3, <2>4, <2>5 DEF AskAnswered
<1>9. CASE \E k \in asks : BackoffEnds(k)
  <2> PICK k \in asks : BackoffEnds(k)
    BY <1>9
  <2> DEFINE a == [k EXCEPT !.st = "asked", !.try = @ + 1, !.by = gate]
  <2>1. k \in AskType /\ k.try < MaxRetries /\ gate # NoWallet /\ gate' = gate
    BY <1>a DEF IInv, AskInv, BackoffEnds, slotVars
  <2>2. gate \in Wallet /\ k.try + 1 \in 0 .. MaxRetries
    BY <2>1, PaidGateAssumption DEF IInv, TypeOK, SlotTypeOK, AskType
  <2>3. a \in AskType /\ a.st = "asked"
    BY <2>1, <2>2 DEF AskType
  <2>4. asks' \subseteq asks \cup {a}
    BY DEF BackoffEnds
  <2> HIDE DEF a
  <2>5. asks' \subseteq AskType /\ AskInv'
    BY <1>a, <2>1, <2>3, <2>4 DEF AskInv, IInv
  <2>6. theirs' \in TheirsType /\ TheirsInv'
    BY <1>a DEF BackoffEnds, IInv, TheirsInv
  <2> QED
    BY <1>b, <2>5, <2>6 DEF BackoffEnds
<1> QED
  BY <1>1, <1>2, <1>3, <1>4, <1>5, <1>6, <1>7, <1>8, <1>9 DEF WaveStep

\* A step of a command.  A fee is asked for a seat that was not held nor kept.
LEMMA GoesOnInv ==
  ASSUME IInv, NEW f \in Flow, NEW kind \in {"start", "join"}, GoesOn(f, kind),
         UNCHANGED <<slotVars, asks>>
  PROVE  IInv'
<1>a. /\ theirs \in TheirsType /\ own \in OwnType /\ TheirsInv /\ OwnInv
      /\ Ended(f) \in FlowsType /\ Burning(f, "start") \in FlowsType
      /\ Burning(f, "join") \in FlowsType
  BY TypeParts, FlowsTypes DEF IInv
<1>b. ASSUME flows' \in FlowsType, own' \in OwnType, OwnInv', theirs' \in TheirsType, TheirsInv'
      PROVE  IInv'
  BY <1>b, TypeParts DEF IInv, AskInv, slotVars, SlotTypeOK, TypeOK, FlowsType, OwnType,
     TheirsType, AskType
<1>1. CASE StartGoesOn(f)
  <2>1. flows' \in FlowsType
    BY <1>1, <1>a DEF StartGoesOn
  <2> DEFINE w == [phase |-> IF enforcePaid THEN "paying" ELSE "announced",
                   gated |-> enforcePaid, burned |-> FALSE, signed |-> FALSE]
  <2>2. own' = [own EXCEPT ![f] = w]
    BY <1>1 DEF StartGoesOn, StartWave
  <2>3. /\ w \in [phase : {"none", "paying", "announced"},
                  gated : BOOLEAN, burned : BOOLEAN, signed : BOOLEAN]
        /\ ~w.signed /\ ~(w.phase = "announced" /\ w.gated)
    BY DEF enforcePaid
  <2> HIDE DEF w
  <2>4. own' \in OwnType /\ OwnInv'
    BY <1>a, <2>2, <2>3 DEF OwnType, OwnInv
  <2> QED
    BY <1>1, <1>a, <1>b, <2>1, <2>4 DEF StartGoesOn, TheirsInv
<1>2. CASE JoinGoesOn(f)
  <2>1. flows' \in FlowsType
    BY <1>2, <1>a DEF JoinGoesOn
  <2>2. own' \in OwnType /\ OwnInv'
    BY <1>2, <1>a DEF JoinGoesOn, OwnInv
  <2>3. CASE Joinable
    <3> DEFINE n == IF slot = NoWallet THEN theirs.fees ELSE theirs.fees + 1
    <3>1. theirs.fees = 0
      BY <1>a, <2>3 DEF Joinable, TheirsInv, Seat
    <3>2. n \in 0 .. MaxFees /\ n <= 1
      BY <1>2, <3>1, PaidGateAssumption DEF JoinGoesOn
    <3>3. theirs' = [theirs EXCEPT !.joined = TRUE, !.fees = n]
      BY <1>2, <2>3 DEF JoinGoesOn
    <3> HIDE DEF n
    <3>4. /\ theirs' \in TheirsType
          /\ theirs'.phase = theirs.phase /\ theirs'.gated = theirs.gated
          /\ theirs'.paid = theirs.paid /\ theirs'.start = theirs.start
          /\ theirs'.proof = theirs.proof /\ theirs'.memo = theirs.memo
          /\ theirs'.joined /\ theirs'.fees = n
      BY <1>a, <3>2, <3>3 DEF TheirsType
    <3>5. theirs.phase = "lobby"
      BY <2>3 DEF Joinable
    <3>6. TheirsInv'
      BY <1>a, <3>2, <3>4, <3>5 DEF TheirsInv, Seat, Real
    <3> QED
      BY <1>b, <2>1, <2>2, <3>4, <3>6
  <2>4. CASE ~Joinable
    BY <1>2, <1>a, <1>b, <2>1, <2>2, <2>4 DEF JoinGoesOn, TheirsInv
  <2> QED
    BY <2>3, <2>4
<1> QED
  BY <1>1, <1>2 DEF GoesOn

LEMMA FlowStepInv ==
  ASSUME IInv, FlowStep
  PROVE  IInv'
<1> PICK f \in Flow : \/ Funded(f) \/ BurnDone(f) \/ Confirmed(f) \/ PayTimeout(f)
                      \/ \E kind \in {"start", "join"} : Command(f, kind)
  BY DEF FlowStep
<1>a. /\ theirs \in TheirsType /\ own \in OwnType /\ flows \in FlowsType
      /\ TheirsInv /\ OwnInv /\ Ended(f) \in FlowsType
      /\ slot \in Wallet \cup {NoWallet}
  BY TypeParts, FlowsTypes DEF IInv, SlotTypeOK
<1>b. ASSUME flows' \in FlowsType, own' \in OwnType, OwnInv', theirs' \in TheirsType, TheirsInv',
             UNCHANGED <<slotVars, asks>>
      PROVE  IInv'
  BY <1>b, TypeParts DEF IInv, AskInv, slotVars, SlotTypeOK, TypeOK, FlowsType, OwnType,
     TheirsType, AskType
<1>c. ASSUME flows' \in FlowsType, UNCHANGED <<slotVars, own, theirs, asks>>
      PROVE  IInv'
  BY <1>a, <1>b, <1>c DEF OwnInv, TheirsInv
<1>1. CASE Funded(f)
  <2>1. CASE GoesOn(f, flows[f].kind)
    BY <1>1, <2>1, GoesOnInv DEF Funded, GoesOn
  <2>2. CASE flows' = Ended(f) /\ UNCHANGED <<own, theirs>>
    BY <1>1, <1>a, <1>c, <2>2 DEF Funded
  <2>3. CASE flows' = [flows EXCEPT ![f].pc = "lost"] /\ UNCHANGED <<own, theirs>>
    <3>1. flows' \in FlowsType
      BY <1>a, <2>3 DEF FlowsType, FlowPc
    <3> QED
      BY <1>1, <1>c, <2>3, <3>1 DEF Funded
  <2> QED
    BY <1>1, <2>1, <2>2, <2>3 DEF Funded
<1>2. CASE BurnDone(f)
  <2>1. CASE flows' = Ended(f) /\ UNCHANGED <<own, theirs>>
    BY <1>2, <1>a, <1>c, <2>1 DEF BurnDone
  <2>2. CASE /\ own' = IF own[f].phase = "paying"
                       THEN [own EXCEPT ![f].burned = TRUE, ![f].signed = TRUE] ELSE own
             /\ flows' = IF slot = NoWallet THEN Ended(f)
                         ELSE [flows EXCEPT ![f].by = slot, ![f].pc = "confirming"]
             /\ UNCHANGED theirs
    <3>1. flows' \in FlowsType
      BY <1>a, <2>2 DEF FlowsType, FlowPc
    <3>2. own' \in OwnType /\ OwnInv'
      BY <1>a, <2>2 DEF OwnType, OwnInv
    <3> QED
      BY <1>2, <1>a, <1>b, <2>2, <3>1, <3>2 DEF BurnDone, TheirsInv
  <2>3. CASE /\ theirs' = [theirs EXCEPT !.burn = theirs.phase # "none"]
             /\ flows' = Ended(f)
             /\ UNCHANGED own
    <3>1. /\ theirs' \in TheirsType
          /\ theirs'.phase = theirs.phase /\ theirs'.gated = theirs.gated
          /\ theirs'.paid = theirs.paid /\ theirs'.start = theirs.start
          /\ theirs'.proof = theirs.proof /\ theirs'.memo = theirs.memo
          /\ theirs'.joined = theirs.joined /\ theirs'.fees = theirs.fees
      BY <1>a, <2>3 DEF TheirsType
    <3>2. TheirsInv'
      BY <1>a, <3>1 DEF TheirsInv, Seat, Real
    <3> QED
      BY <1>2, <1>a, <1>b, <2>3, <3>1, <3>2 DEF BurnDone, OwnInv
  <2> QED
    BY <1>2, <2>1, <2>2, <2>3 DEF BurnDone
<1>3. CASE Confirmed(f)
  <2>1. own' \in OwnType /\ OwnInv'
    <3>1. CASE UNCHANGED own
      BY <1>a, <3>1 DEF OwnInv
    <3>2. CASE AnnouncePaid(f)
      BY <1>a, <3>2 DEF AnnouncePaid, OwnType, OwnInv
    <3> QED
      BY <1>3, <3>1, <3>2 DEF Confirmed
  <2> QED
    BY <1>3, <1>a, <1>b, <2>1 DEF Confirmed, TheirsInv
<1>4. CASE PayTimeout(f)
  <2>1. own' \in OwnType /\ OwnInv'
    BY <1>4, <1>a DEF PayTimeout, OwnType, OwnInv, NoOwn
  <2> QED
    BY <1>4, <1>a, <1>b, <2>1 DEF PayTimeout, TheirsInv
<1>5. CASE \E kind \in {"start", "join"} : Command(f, kind)
  <2> PICK kind \in {"start", "join"} : Command(f, kind)
    BY <1>5
  <2>1. CASE slot = NoWallet
    BY <2>1, GoesOnInv DEF Command
  <2>2. CASE slot # NoWallet
    <3>1. flows' \in FlowsType
      BY <1>a, <2>2 DEF Command, FlowsType, FlowPc
    <3> QED
      BY <1>c, <2>2, <3>1 DEF Command
  <2> QED
    BY <2>1, <2>2
<1> QED
  BY <1>1, <1>2, <1>3, <1>4, <1>5

LEMMA NextInv == IInv /\ [Next]_vars => IInv'
<1> SUFFICES ASSUME IInv, [Next]_vars PROVE IInv'
  OBVIOUS
<1>1. CASE WalletStep
  <2>1. SlotTypeOK'
    BY <1>1, SlotStepType DEF WalletStep, IInv, TypeOK
  <2>2. gate' = NoWallet => gate = NoWallet
    BY <1>1 DEF WalletStep, Ask, Fill, IInv, TypeOK, SlotTypeOK, NoWallet
  <2> QED
    BY <1>1, <2>1, <2>2, TypeParts DEF WalletStep, gateVars, IInv, AskInv, TheirsInv, OwnInv,
       TypeOK, FlowsType, OwnType, TheirsType, AskType
<1>2. CASE FlowStep
  BY <1>2, FlowStepInv
<1>3. CASE WaveStep
  BY <1>3, WaveStepInv
<1>4. CASE UNCHANGED vars
  BY <1>4 DEF vars, slotVars, gateVars, IInv, AskInv, TheirsInv, OwnInv, TypeOK, SlotTypeOK
<1> QED
  BY <1>1, <1>2, <1>3, <1>4 DEF Next

-----------------------------------------------------------------------------
\* The theorems.

\* The invariant the others are drawn from: who verifies, what is signed, whose seat is paid.
THEOREM Invariance == Spec => []IInv
<1>1. Init => IInv
  BY InitInv
<1>2. IInv /\ [Next]_vars => IInv'
  BY NextInv
<1> QED
  BY <1>1, <1>2, PTL DEF Spec

\* The slot, the commands, both kinds of wave and the verifications stay well formed: a
\* verification asks a wallet that exists, and no more often than its retries.
THEOREM TypeCorrect == Spec => []TypeOK
<1>1. IInv => TypeOK
  BY DEF IInv
<1> QED
  BY <1>1, Invariance, PTL

\* Whatever wallet switches, failed burns and pay time-outs come between, a wave of mine is
\* announced behind the gate only with a burn made and signed for it.
THEOREM GatedAnnounceIsBurned == Spec => []AnnouncedIsBurned
<1>1. IInv => AnnouncedIsBurned
  BY DEF IInv, OwnInv, AnnouncedIsBurned
<1> QED
  BY <1>1, Invariance, PTL

\* One seat asks for one fee, over lobby time-outs, late starts, topic switches and repeated
\* commands.
THEOREM OneFeePerSeat == Spec => []SeatPaidOnce
<1>1. IInv => SeatPaidOnce
  BY DEF IInv, TheirsInv, Seat, SeatPaidOnce
<1> QED
  BY <1>1, Invariance, PTL

\* Only a join over the slot's wallet starts a join burn, in a lobby that counts as paid.
LEMMA JoinBurns ==
  ASSUME IInv, [Next]_vars, NEW f \in Flow,
         flows[f].pc # "burning", flows'[f].pc = "burning", flows'[f].kind = "join"
  PROVE  theirs.phase = "lobby" /\ theirs.paid = "verified"
<1>a. flows \in FlowsType
  BY TypeParts DEF IInv
<1>1. ASSUME NEW g \in Flow, NEW kind \in {"start", "join"}, GoesOn(g, kind)
      PROVE  Joinable
  <2>1. CASE flows' = Ended(g)
    BY <1>a, <2>1 DEF Ended, NoFlow, FlowsType
  <2>2. CASE flows' = Burning(g, "start")
    BY <1>a, <2>2 DEF Burning, FlowsType
  <2> QED
    BY <1>1, <2>1, <2>2 DEF GoesOn, StartGoesOn, JoinGoesOn
<1>2. PICK g \in Flow : \/ Funded(g) \/ BurnDone(g) \/ Confirmed(g)
                        \/ \E kind \in {"start", "join"} : Command(g, kind)
  BY DEF Next, vars, gateVars, WalletStep, FlowStep, WaveStep, PayTimeout, Adopt, Sync, Races,
     LobbyTimeout, RaceEnds, Unsubscribe, SwitchTopic, AskAnswered, BackoffEnds
<1>3. flows' # Ended(g)
  BY <1>a DEF Ended, NoFlow, FlowsType
<1>4. Joinable
  <2>1. CASE Funded(g)
    <3>1. flows' # [flows EXCEPT ![g].pc = "lost"]
      BY <1>a DEF FlowsType
    <3> QED
      BY <1>1, <1>3, <2>1, <3>1 DEF Funded, GoesOn
  <2>2. CASE BurnDone(g)
    BY <1>a, <1>3, <2>2 DEF BurnDone, FlowsType
  <2>3. CASE Confirmed(g)
    BY <1>3, <2>3 DEF Confirmed
  <2>4. CASE \E kind \in {"start", "join"} : Command(g, kind)
    <3> PICK kind \in {"start", "join"} : Command(g, kind)
      BY <2>4
    <3>1. CASE slot = NoWallet
      BY <1>1, <3>1 DEF Command
    <3>2. CASE slot # NoWallet
      BY <1>a, <3>2 DEF Command, FlowsType
    <3> QED
      BY <3>1, <3>2
  <2> QED
    BY <1>2, <2>1, <2>2, <2>3, <2>4
<1> QED
  BY <1>4 DEF Joinable

\* A wave met behind the gate has a join fee burned for it only if its start burn locks coins
\* nobody can spend, for this wave, of the least amount: unreachable mints, retries, wallet
\* switches in the middle of a verification and late verdicts let none through.
THEOREM NoFeeForSham == Spec => FeeOnlyForRealBurn
<1> DEFINE A == \A f \in Flow : flows[f].pc # "burning" /\ flows'[f].pc = "burning"
                                  /\ flows'[f].kind = "join" /\ theirs.gated
                       => Settles(theirs.start.burn, TheirWave, Least(theirs.start))
<1>1. IInv /\ [Next]_vars => [A]_vars
  BY JoinBurns DEF IInv, TheirsInv, Real
<1> QED
  BY <1>1, Invariance, PTL DEF Spec, FeeOnlyForRealBurn

=============================================================================
