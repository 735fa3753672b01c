------------------------------ MODULE PaidGate ------------------------------
(***************************************************************************)
(* The fees of one peer: the start-wave and join-wave commands of           *)
(* lib/engine.js with lib/payments.js, and the paid gate of lib/wave.js     *)
(* they go through, over the slot of WalletSlot, which any step may empty    *)
(* or fill meanwhile.                                                      *)
(*                                                                         *)
(* The peer starts waves of its own, one per start command, and meets one   *)
(* wave of another peer, started by one of the candidate start burns, which *)
(* the wallets judge as BurnCheck says.  Every await of a command is a step *)
(* of its own.                                                             *)
(***************************************************************************)
EXTENDS WalletSlot, BurnCheck, FiniteSets

CONSTANTS
  Starts,     \* how the other peer's wave may have been started
  MinFee,     \* my floor under the fee of a wave
  MaxFlows,   \* bound on the fee commands in progress at a time
  MaxAsks,    \* bound on the verifications of the start burn in progress at a time
  MaxRetries, \* VERIFY_MAX_RETRIES
  MaxFees     \* bound on the fees asked for one seat

ASSUME PaidGateAssumption ==
  /\ \A s \in Starts : s.kind \in {"cashu", "trx", "usdt"}
  /\ MinFee \in Nat
  /\ MaxFlows \in Nat \ {0}
  /\ MaxAsks \in Nat
  /\ MaxRetries \in Nat
  /\ MaxFees \in Nat

VARIABLES
  flows,  \* the commands in progress
  own,    \* the wave each start command of mine opened
  theirs, \* the other peer's wave
  asks    \* the verifications of its start burn

gateVars == <<flows, own, theirs, asks>>
vars == <<slotVars, gateVars>>

Flow == 1 .. MaxFlows
FlowPc == {"idle", "funding", "burning", "confirming", "lost"}

NoFlow == [kind |-> "none", pc |-> "idle", wal |-> NoWallet, by |-> NoWallet]
NoOwn == [phase |-> "none", gated |-> FALSE, burned |-> FALSE, signed |-> FALSE]

\* The other peer's wave and its initiator.
TheirWave == "their wave"
They == "they"

\* A start of it: the burn, the proof that names it, and the fee announced with it; all
\* wallets of this host are of the start's kind.
Least(s) == MinAmount(s.fee, s.claimed)

enforcePaid == gate # NoWallet \* setWallet was called with a verifier

\* The other peer's wave without a WaveState here.
Unheld(t) ==
  [t EXCEPT !.phase = "none", !.gated = FALSE, !.paid = "verified", !.proof = FALSE,
            !.joined = FALSE, !.burn = FALSE]

\* ... and the seat in it given up: a later join is another seat.
GivenUp(t) == [t EXCEPT !.joined = FALSE, !.burn = FALSE, !.fees = 0]

\* endedWaves: it never comes back.
Forgotten(t) == [Unheld(GivenUp(t)) EXCEPT !.ended = TRUE, !.memo = "none"]

-----------------------------------------------------------------------------
\* My own wave.

\* startWave: it waits for its burn behind the gate, and is announced without one.
StartWave(f) ==
  own' = [own EXCEPT ![f] = [phase |-> IF enforcePaid THEN "paying" ELSE "announced",
                             gated |-> enforcePaid, burned |-> FALSE, signed |-> FALSE]]

\* PAY_TIMEOUT_MS: the start burn was not announced in time.
PayTimeout(f) ==
  /\ own[f].phase = "paying"
  /\ own' = [own EXCEPT ![f] = NoOwn]
  /\ UNCHANGED <<slotVars, flows, theirs, asks>>

\* announcePaid: the wave is announced with its confirmed burn if it is still waiting.
AnnouncePaid(f) ==
  own' = IF own[f].phase = "paying" /\ own[f].signed
         THEN [own EXCEPT ![f].phase = "announced"] ELSE own

-----------------------------------------------------------------------------
\* The other peer's wave.

Joinable == theirs.phase = "lobby" /\ ~theirs.joined /\ theirs.paid = "verified"

\* verifyStartProof's call of the verifier.
Asked == asks' = asks \cup {[try |-> 0, by |-> gate, st |-> "asked"]}

\* validStartProof() and belowFloor(): is a message of the wave heeded?
Heeded ==
  enforcePaid => /\ startProofValid(theirs.start.proof, TheirWave, They)
                 /\ theirs.start.fee # NoFee \/ MinFee = 0
                 /\ theirs.start.fee # NoFee => theirs.start.fee >= MinFee

\* An announce or a lobby sync of it (handleWaveAnnounce, handleWaveSync, enterLobby).
\* Only a gate that is on keeps its start proof and has it verified.  A seat kept over
\* a lobby time-out is restored.
Adopt ==
  /\ theirs.phase = "none" /\ ~theirs.ended
  /\ Heeded
  /\ enforcePaid => Cardinality(asks) < MaxAsks
  /\ theirs' = [theirs EXCEPT !.phase = "lobby", !.gated = enforcePaid,
                  !.paid = IF enforcePaid THEN "pending" ELSE "verified",
                  !.proof = enforcePaid, !.joined = theirs.memo # "none",
                  !.burn = theirs.memo = "ticket", !.memo = "none"]
  /\ IF enforcePaid THEN Asked ELSE UNCHANGED asks
  /\ UNCHANGED <<slotVars, flows, own>>

\* A lobby sync of a wave adopted before the gate was on: its proof is verified now.
Sync ==
  /\ theirs.phase = "lobby" /\ ~theirs.proof
  /\ enforcePaid /\ Heeded
  /\ Cardinality(asks) < MaxAsks
  /\ theirs' = [theirs EXCEPT !.proof = TRUE]
  /\ Asked
  /\ UNCHANGED <<slotVars, flows, own>>

\* A wave-start or a racing sync: the race needs no verdict.
Races ==
  /\ theirs.phase \in {"none", "lobby"} /\ ~theirs.ended
  /\ Heeded
  /\ theirs' = [theirs EXCEPT !.phase = "racing",
                  !.joined = @ \/ theirs.memo # "none",
                  !.burn = @ \/ theirs.memo = "ticket", !.memo = "none"]
  /\ UNCHANGED <<slotVars, flows, own, asks>>

\* Bug: a lobby that times out forgets the seat.
BugLobbyTimeout ==
  /\ theirs.phase = "lobby"
  /\ theirs' = Unheld(theirs)
  /\ UNCHANGED <<slotVars, flows, own, asks>>

\* goIdle: a lobby that times out keeps the seat for a late start.
LobbyTimeout ==
  /\ theirs.phase = "lobby"
  /\ theirs' = [Unheld(theirs) EXCEPT !.memo =
                  CASE ~theirs.joined -> theirs.memo
                    [] theirs.joined /\ theirs.burn -> "ticket"
                    [] OTHER -> "joined"]
  /\ UNCHANGED <<slotVars, flows, own, asks>>

\* ... and a race that ends does not.
RaceEnds ==
  /\ theirs.phase = "racing"
  /\ theirs' = Forgotten(theirs)
  /\ UNCHANGED <<slotVars, flows, own, asks>>

\* unsubscribe-wave un-joins.
Unsubscribe ==
  /\ theirs.joined
  /\ theirs' = GivenUp(theirs)
  /\ UNCHANGED <<slotVars, flows, own, asks>>

\* The host moves the peer to another topic: every wave is torn down, endedWaves is
\* cleared and abandonedJoins is not.
SwitchTopic ==
  /\ own' = [f \in Flow |-> NoOwn]
  /\ theirs' = [Unheld(IF theirs.joined THEN GivenUp(theirs) ELSE theirs)
                  EXCEPT !.ended = FALSE]
  /\ UNCHANGED <<slotVars, flows, asks>>

\* What the verifier may say of its start burn.
Verdict(k) ==
  LET start == theirs.start
  IN  Answers(start.kind, net[k.by], start.burn, TheirWave, start.payer, Least(start))

\* Bug: an error that is not a rejection counts as proof.
BugAskAnswered(k) ==
  /\ k.st = "asked"
  /\ asks' = asks \ {k}
  /\ \E v \in Verdict(k) :
       theirs' = CASE theirs.phase # "lobby" -> theirs
                   [] v = "no" /\ theirs.phase = "lobby" -> Forgotten(theirs)
                   [] OTHER -> [theirs EXCEPT !.paid = "verified"]
  /\ UNCHANGED <<slotVars, flows, own>>

\* The verification settles paid, is tried again after a transient failure, or gives
\* the wave up for good.
AskAnswered(k) ==
  /\ k.st = "asked"
  /\ IF theirs.phase # "lobby" THEN asks' = asks \ {k} /\ UNCHANGED theirs
     ELSE \E v \in Verdict(k) :
            \/ /\ v = "ok"
               /\ asks' = asks \ {k}
               /\ theirs' = [theirs EXCEPT !.paid = "verified"]
            \/ /\ v = "transient" /\ k.try < MaxRetries
               /\ asks' = (asks \ {k}) \cup {[k EXCEPT !.st = "backoff"]}
               /\ UNCHANGED theirs
            \/ /\ v = "no" \/ (v = "transient" /\ k.try = MaxRetries)
               /\ asks' = asks \ {k}
               /\ theirs' = Forgotten(theirs)
  /\ UNCHANGED <<slotVars, flows, own>>

\* The backoff timer: another try by the verifier of the moment.
BackoffEnds(k) ==
  /\ k.st = "backoff"
  /\ asks' = (asks \ {k}) \cup
               (IF theirs.phase # "lobby" THEN {}
                ELSE {[k EXCEPT !.st = "asked", !.try = @ + 1, !.by = gate]})
  /\ UNCHANGED <<slotVars, flows, own, theirs>>

-----------------------------------------------------------------------------
\* The commands.

Ended(f) == [flows EXCEPT ![f] = NoFlow]
\* Bug: the record of a burn names no wave.
BugBurning(f, kind) == [flows EXCEPT ![f] = [kind |-> kind, pc |-> "burning", wal |-> slot]]

Burning(f, kind) ==
  [flows EXCEPT ![f] = [kind |-> kind, pc |-> "burning", wal |-> slot, by |-> NoWallet]]

\* handleStartWave after the funds were read: without a wallet no burn, and no word of it.
StartGoesOn(f) ==
  /\ own[f].phase # "paying"
  /\ StartWave(f)
  /\ flows' = IF slot = NoWallet THEN Ended(f) ELSE Burning(f, "start")
  /\ UNCHANGED theirs

\* handleJoin: join() takes the seat first, the fee is burned after.
JoinGoesOn(f) ==
  /\ theirs.fees < MaxFees
  /\ IF Joinable
     THEN /\ theirs' = [theirs EXCEPT !.joined = TRUE,
                                      !.fees = IF slot = NoWallet THEN @ ELSE @ + 1]
          /\ flows' = IF slot = NoWallet THEN Ended(f) ELSE Burning(f, "join")
     ELSE flows' = Ended(f) /\ UNCHANGED theirs
  /\ UNCHANGED own

GoesOn(f, kind) ==
  \/ kind = "start" /\ StartGoesOn(f)
  \/ kind = "join" /\ JoinGoesOn(f)

\* start-wave or join-wave is executed: with a wallet its balance is read first.
Command(f, kind) ==
  /\ flows[f] = NoFlow
  /\ \A g \in Flow : g < f => flows[g] # NoFlow
  /\ IF slot = NoWallet THEN GoesOn(f, kind)
     ELSE /\ flows' = [flows EXCEPT ![f].kind = kind, ![f].pc = "funding"]
          /\ UNCHANGED <<own, theirs>>
  /\ UNCHANGED <<slotVars, asks>>

\* The balance read returned.  fundedForFee reads `payments` again to compare: when the
\* wallet is being switched it throws, and nothing catches it.  A failed read goes on.
Funded(f) ==
  /\ flows[f].pc = "funding"
  /\ \/ /\ slot # NoWallet
        /\ flows' = Ended(f)
        /\ UNCHANGED <<own, theirs>>
     \/ /\ slot = NoWallet
        /\ flows' = [flows EXCEPT ![f].pc = "lost"]
        /\ UNCHANGED <<own, theirs>>
     \/ GoesOn(f, flows[f].kind)
  /\ UNCHANGED <<slotVars, asks>>

\* Bug: a start is signed whether or not the burn went through.
BugBurnDone(f) ==
  /\ flows[f].pc = "burning"
  /\ \/ /\ flows[f].kind = "start"
        /\ own' = [own EXCEPT ![f].signed = own[f].phase = "paying"]
        /\ flows' = [flows EXCEPT ![f].by = slot, ![f].pc = "confirming"]
        /\ UNCHANGED theirs
     \/ /\ flows[f].kind = "join"
        /\ flows' = Ended(f)
        /\ UNCHANGED <<own, theirs>>
  /\ UNCHANGED <<slotVars, asks>>

\* payFee: the burn failed, or went through and recordBurn signs it into the wave if it is
\* still held.  A start goes on to confirmBurn with the `payments` of that moment.
BurnDone(f) ==
  /\ flows[f].pc = "burning"
  /\ \/ /\ flows' = Ended(f)
        /\ UNCHANGED <<own, theirs>>
     \/ /\ flows[f].kind = "start"
        /\ own' = IF own[f].phase = "paying"
                  THEN [own EXCEPT ![f].burned = TRUE, ![f].signed = TRUE] ELSE own
        /\ flows' = IF slot = NoWallet THEN Ended(f)
                    ELSE [flows EXCEPT ![f].by = slot, ![f].pc = "confirming"]
        /\ UNCHANGED theirs
     \/ /\ flows[f].kind = "join"
        /\ theirs' = [theirs EXCEPT !.burn = theirs.phase # "none"]
        /\ flows' = Ended(f)
        /\ UNCHANGED own
  /\ UNCHANGED <<slotVars, asks>>

\* The confirmation poll ended.  A wallet of another network never confirms the burn,
\* and with no wallet at all the report of the success throws before the announce.
Confirmed(f) ==
  /\ flows[f].pc = "confirming"
  /\ \/ UNCHANGED own
     \/ /\ net[flows[f].by] = net[flows[f].wal]
        /\ slot # NoWallet
        /\ AnnouncePaid(f)
  /\ flows' = Ended(f)
  /\ UNCHANGED <<slotVars, theirs, asks>>

-----------------------------------------------------------------------------
Init ==
  /\ SlotInit
  /\ flows = [f \in Flow |-> NoFlow]
  /\ own = [f \in Flow |-> NoOwn]
  /\ \E start \in Starts :
       theirs = [start |-> start, ended |-> FALSE, memo |-> "none", fees |-> 0,
                 phase |-> "none", gated |-> FALSE, paid |-> "verified",
                 proof |-> FALSE, joined |-> FALSE, burn |-> FALSE]
  /\ asks = {}

WalletStep == (Ask \/ Fill) /\ UNCHANGED gateVars

FlowStep ==
  \E f \in Flow : \/ Funded(f) \/ BurnDone(f) \/ Confirmed(f) \/ PayTimeout(f)
                  \/ \E kind \in {"start", "join"} : Command(f, kind)

WaveStep ==
  \/ Adopt \/ Sync \/ Races \/ LobbyTimeout \/ RaceEnds \/ Unsubscribe \/ SwitchTopic
  \/ \E k \in asks : AskAnswered(k) \/ BackoffEnds(k)

Next == WalletStep \/ FlowStep \/ WaveStep

Spec == Init /\ [][Next]_vars

-----------------------------------------------------------------------------
\* Properties.

\* Type correctness of every variable.
TypeOK ==
  /\ SlotTypeOK
  /\ flows \in [Flow -> [kind : {"none", "start", "join"}, pc : FlowPc,
                         wal : Wallet \cup {NoWallet}, by : Wallet \cup {NoWallet}]]
  /\ own \in [Flow -> [phase : {"none", "paying", "announced"},
                       gated : BOOLEAN, burned : BOOLEAN, signed : BOOLEAN]]
  /\ theirs \in [start : Starts, ended : BOOLEAN,
                 memo : {"none", "joined", "ticket"}, fees : 0 .. MaxFees,
                 phase : {"none", "lobby", "racing"}, gated : BOOLEAN,
                 paid : {"pending", "verified"}, proof : BOOLEAN, joined : BOOLEAN,
                 burn : BOOLEAN]
  /\ asks \subseteq [try : 0 .. MaxRetries, by : Wallet, st : {"asked", "backoff"}]

\* My wave is announced behind the gate only with a burn that was made, and signed
\* while the wave was waiting for it.
AnnouncedIsBurned ==
  \A f \in Flow : own[f].phase = "announced" /\ own[f].gated =>
                    own[f].burned /\ own[f].signed

\* A wave adopted behind the gate is joined, and its fee burned, only if its own start
\* burn settles it: mints out of reach or unclassified, retries, references that do not
\* decode and a switch of wallet do not let one through.
FeeOnlyForRealBurn ==
  [][\A f \in Flow : flows[f].pc # "burning" /\ flows'[f].pc = "burning"
                       /\ flows'[f].kind = "join" /\ theirs.gated
                       => Settles(theirs.start.burn, TheirWave, Least(theirs.start))]_vars

\* One seat asks for one fee, whatever lobby time-outs, late starts and repeated commands
\* come between: a second fee needs the seat to be given up.
SeatPaidOnce == theirs.fees <= 1

=============================================================================
