------------------------------- MODULE Engine -------------------------------
(***************************************************************************)
(* One peer's engine (lib/engine.js): the wallet it is told to use, the     *)
(* balance polls, the commands that use the wallet, the rpc seam the UI     *)
(* calls it through (lib/rpc.js) and the host that taps its wallet messages *)
(* and moves it to a directory topic (workers/hyperwave.js, worklet).       *)
(*                                                                         *)
(* Every await of the code is a step of its own: an activation of a wallet, *)
(* a balance read, a wallet's call and a switch of topic go on while the    *)
(* others do, and each re-reads `payments` where the code does.  A wallet   *)
(* is named by the number of the activation that makes it.  The commands    *)
(* that pay a fee are in PaidGate.                                         *)
(***************************************************************************)
EXTENDS Naturals, FiniteSets

CONSTANTS
  MaxActs,  \* bound on the wallet activations
  MaxFlows  \* bound on the commands in progress at a time

ASSUME EngineAssumption ==
  /\ MaxActs \in Nat \ {0}
  /\ MaxFlows \in Nat \ {0}

VARIABLES
  up,    \* the host: no engine yet, engine up, torn down
  wal,   \* the engine's wallet fields
  acts,  \* the activateWallet calls
  chain, \* the balance polls, by the activation that armed them
  reads, \* pushBalance calls nobody awaits, by the wallet they read
  flows, \* the commands in progress
  host   \* the host's topic policy and the topic switches in progress

vars == <<up, wal, acts, chain, reads, flows, host>>

Network == {"testnet", "mainnet"}
Act == 1 .. MaxActs
Flow == 1 .. MaxFlows
NoWallet == 0

Request == {"tip", "send", "history"}   \* REQUEST_REPLY
Kind == Request \cup {"mint"}           \* mint: fund, redeem, cash-out
FlowPc == {"idle", "sent", "funding", "paying"}

Started == {a \in Act : acts[a].pc # "none"}
seq == Cardinality(Started)             \* activateSeq
Net(a) == acts[a].net
BaseTopic(net) == IF net = "mainnet" THEN "main" ELSE "base" \* topicForNetwork

Quiet == [st |-> "off", on |-> NoWallet]
Armed == [st |-> "armed", on |-> NoWallet]
NoFlow == [kind |-> "none", pc |-> "idle", open |-> FALSE]

-----------------------------------------------------------------------------
\* A `wallet` message of wallet a passes the host's emit: on a change of network it asks
\* for that network's topic, which the engine ignores when it still sits on it.
WalletMessage(a) ==
  LET topic == BaseTopic(Net(a)) IN
  CASE Net(a) = host.last -> UNCHANGED host
    [] Net(a) # host.last /\ topic = host.topic -> host' = [host EXCEPT !.last = Net(a)]
    [] OTHER -> host' = [host EXCEPT !.last = Net(a), !.moving = @ \cup {topic}]

\* The rest of switchTopic, after the old topic was left.
TopicMoved(topic) ==
  /\ topic \in host.moving
  /\ host' = [host EXCEPT !.topic = topic, !.moving = @ \ {topic}]
  /\ UNCHANGED <<up, wal, acts, chain, reads, flows>>

\* clearTimeout(tBalance): the armed poll it names stops, one that is reading goes on.
PollStopped ==
  IF wal.tick # NoWallet /\ chain[wal.tick].st = "armed"
  THEN [chain EXCEPT ![wal.tick] = Quiet] ELSE chain

\* Bug: a switch leaves the old wallet undisposed.
BugActivate(net) ==
  /\ seq < MaxActs
  /\ chain' = PollStopped
  /\ wal' = [wal EXCEPT !.cur = NoWallet, !.tick = NoWallet]
  /\ acts' = [acts EXCEPT ![seq + 1] = [pc |-> "making", net |-> net]]

\* activateWallet(account) up to `await makePayments`, with the options of the moment.
Activate(net) ==
  /\ seq < MaxActs
  /\ chain' = PollStopped
  /\ wal' = [wal EXCEPT !.cur = NoWallet, !.tick = NoWallet,
                        !.disposed = @ \cup ({wal.cur} \ {NoWallet})]
  /\ acts' = [acts EXCEPT ![seq + 1] = [pc |-> "making", net |-> net]]

Bootstrap ==
  /\ up = "none"
  /\ up' = "up"
  /\ \E net \in Network : Activate(net)
  /\ UNCHANGED <<reads, flows, host>>

\* set-account and set-wallet-options: the wallet is built again, live.
SetWallet ==
  /\ up = "up"
  /\ \E net \in Network : Activate(net)
  /\ UNCHANGED <<up, reads, flows, host>>

\* Bug: whichever wallet is made last wins.
BugWalletMade(a) ==
  /\ acts[a].pc = "making"
  /\ acts' = [acts EXCEPT ![a].pc = "pushing"]
  /\ wal' = [wal EXCEPT !.cur = a, !.push = a, !.verifier = a,
                        !.disposed = @ \cup ({wal.cur} \ {NoWallet})]
  /\ UNCHANGED <<up, chain, reads, flows, host>>

\* makePayments resolved: an activation that was superseded drops its wallet, another
\* makes it the wallet and wires the gate to it (wireWallet, setWallet).
WalletMade(a) ==
  /\ acts[a].pc = "making"
  /\ IF a # seq
     THEN /\ acts' = [acts EXCEPT ![a].pc = "dropped"]
          /\ wal' = [wal EXCEPT !.disposed = @ \cup {a}]
     ELSE /\ acts' = [acts EXCEPT ![a].pc = "pushing"]
          /\ wal' = [wal EXCEPT !.cur = a, !.push = a, !.verifier = a]
  /\ UNCHANGED <<up, chain, reads, flows, host>>

WalletFailed(a) ==
  /\ acts[a].pc = "making"
  /\ acts' = [acts EXCEPT ![a].pc = "failed"]
  /\ UNCHANGED <<up, wal, chain, reads, flows, host>>

\* The activation's own pushBalance returned: the poll is armed, whatever happened since.
FirstBalance(a) ==
  /\ acts[a].pc = "pushing"
  /\ acts' = [acts EXCEPT ![a].pc = "done"]
  /\ chain' = [chain EXCEPT ![a] = Armed]
  /\ wal' = [wal EXCEPT !.tick = a]
  /\ WalletMessage(a)
  /\ UNCHANGED <<up, reads, flows>>

\* Bug: the poll reads the wallet it was started for.
BugPollFires(a) ==
  /\ chain[a].st = "armed"
  /\ chain' = [chain EXCEPT ![a] = [st |-> "reading", on |-> a]]
  /\ UNCHANGED <<up, wal, acts, reads, flows, host>>

\* balanceTick: one read of the wallet pushBalance names by then, and the next tick.
PollFires(a) ==
  /\ chain[a].st = "armed"
  /\ chain' = [chain EXCEPT ![a] = [st |-> "reading", on |-> wal.push]]
  /\ UNCHANGED <<up, wal, acts, reads, flows, host>>

PollReturns(a) ==
  /\ chain[a].st = "reading"
  /\ WalletMessage(chain[a].on)
  /\ IF wal.tick # NoWallet
     THEN /\ chain' = [chain EXCEPT ![a] = Armed]
          /\ wal' = [wal EXCEPT !.tick = a]
     ELSE /\ chain' = [chain EXCEPT ![a] = Quiet]
          /\ UNCHANGED wal
  /\ UNCHANGED <<up, acts, reads, flows>>

\* refresh-wallet, and the refresh after a payment.
Refreshed == IF wal.push = NoWallet THEN reads ELSE reads \cup {wal.push}

Refresh ==
  /\ up = "up"
  /\ wal.push # NoWallet
  /\ reads' = Refreshed
  /\ UNCHANGED <<up, wal, acts, chain, flows, host>>

ReadReturns(a) ==
  /\ a \in reads
  /\ reads' = reads \ {a}
  /\ WalletMessage(a)
  /\ UNCHANGED <<up, wal, acts, chain, flows>>

-----------------------------------------------------------------------------
\* Bug: an idle flow has a state of its own.
BugEnded(f) == [flows EXCEPT ![f] = [kind |-> "none", pc |-> "idle"]]

\* Commands.  `open` says that the seam still has the request pending; a command's
\* result is its reply.
Ended(f) == [flows EXCEPT ![f] = NoFlow]

\* The UI calls, and the command is on its way through the pipe.
Call(f, kind) ==
  /\ up # "closed"
  /\ flows[f] = NoFlow
  /\ \A g \in Flow : g < f => flows[g] # NoFlow
  /\ flows' = [flows EXCEPT ![f] = [kind |-> kind, pc |-> "sent", open |-> kind \in Request]]
  /\ UNCHANGED <<up, wal, acts, chain, reads, host>>

\* Bug: a command before bootstrap is dropped without an answer.
BugExec(f) ==
  /\ flows[f].pc = "sent"
  /\ up # "closed"
  /\ flows' = CASE up = "none" -> [flows EXCEPT ![f].pc = "idle"]
                [] up = "up" /\ wal.cur = NoWallet -> Ended(f)
                [] up = "up" /\ wal.cur # NoWallet ->
                     [flows EXCEPT ![f].pc = IF flows[f].kind = "send" THEN "funding"
                                             ELSE "paying"]
  /\ UNCHANGED <<up, wal, acts, chain, reads, host>>

\* It reaches the seam: turned down before the engine is attached, answered at once
\* without a wallet, and else on to the balance (a send) or the wallet's call.
Exec(f) ==
  /\ flows[f].pc = "sent"
  /\ up # "closed"
  /\ flows' = IF up = "none" \/ wal.cur = NoWallet THEN Ended(f)
              ELSE [flows EXCEPT ![f].pc = IF flows[f].kind = "send" THEN "funding"
                                           ELSE "paying"]
  /\ UNCHANGED <<up, wal, acts, chain, reads, host>>

\* A send's balance was read: not enough, a wallet that was switched away meanwhile (the
\* call of null is caught and reported), or the call.
Funded(f) ==
  /\ flows[f].pc = "funding"
  /\ \/ flows' = Ended(f)
     \/ /\ wal.cur # NoWallet
        /\ flows' = [flows EXCEPT ![f].pc = "paying"]
  /\ UNCHANGED <<up, wal, acts, chain, reads, host>>

\* The wallet's call returned: its result goes out, and a success refreshes the balance.
Paid(f) ==
  /\ flows[f].pc = "paying"
  /\ flows' = Ended(f)
  /\ UNCHANGED reads \/ reads' = Refreshed
  /\ UNCHANGED <<up, wal, acts, chain, host>>

TipDone(f) == flows[f].kind \in {"tip", "send"} /\ Paid(f)

MintDone(f) == flows[f].kind = "mint" /\ Paid(f)

HistoryDone(f) ==
  /\ flows[f].kind = "history" /\ flows[f].pc = "paying"
  /\ flows' = Ended(f)
  /\ UNCHANGED <<up, wal, acts, chain, reads, host>>

\* goodbye: the seam answers what is pending, the engine stops its poll and disposes
\* its wallet.  Calls in progress run on; what the pipe still held is lost with the UI.
Close ==
  /\ up = "up"
  /\ up' = "closed"
  /\ flows' = [f \in Flow |-> IF flows[f].pc = "sent" THEN NoFlow
                              ELSE [flows[f] EXCEPT !.open = FALSE]]
  /\ chain' = PollStopped
  /\ wal' = [wal EXCEPT !.tick = NoWallet, !.disposed = @ \cup ({wal.cur} \ {NoWallet})]
  /\ UNCHANGED <<acts, reads, host>>

-----------------------------------------------------------------------------
Init ==
  /\ up = "none"
  /\ wal = [cur |-> NoWallet, tick |-> NoWallet, push |-> NoWallet, verifier |-> NoWallet,
            disposed |-> {}]
  /\ acts = [a \in Act |-> [pc |-> "none", net |-> "testnet"]]
  /\ chain = [a \in Act |-> Quiet]
  /\ reads = {}
  /\ flows = [f \in Flow |-> NoFlow]
  /\ host = [topic |-> "base", last |-> "none", moving |-> {}]

WalletStep ==
  \E a \in Act : \/ WalletMade(a) \/ WalletFailed(a) \/ FirstBalance(a)
                 \/ PollFires(a) \/ PollReturns(a) \/ ReadReturns(a)

FlowStep ==
  \E f \in Flow : \/ Exec(f) \/ Funded(f) \/ TipDone(f) \/ MintDone(f) \/ HistoryDone(f)
                  \/ \E kind \in Kind : Call(f, kind)

HostStep ==
  \/ Bootstrap \/ SetWallet \/ Refresh \/ Close
  \/ \E topic \in {"base", "main"} : TopicMoved(topic)

Next == WalletStep \/ FlowStep \/ HostStep

Spec == Init /\ [][Next]_vars

\* The wallet's promises settle, timers fire, the pipe delivers, and leaving a topic ends.
Fairness ==
  /\ \A a \in Act : /\ WF_vars(WalletMade(a) \/ WalletFailed(a))
                    /\ WF_vars(FirstBalance(a))
                    /\ WF_vars(PollFires(a))
                    /\ WF_vars(PollReturns(a))
                    /\ WF_vars(ReadReturns(a))
  /\ \A topic \in {"base", "main"} : WF_vars(TopicMoved(topic))
  /\ \A f \in Flow : WF_vars(Exec(f) \/ Funded(f) \/ TipDone(f) \/ MintDone(f) \/ HistoryDone(f))

FairSpec == Spec /\ Fairness

-----------------------------------------------------------------------------
\* Properties.

\* Type correctness of every variable.
TypeOK ==
  /\ up \in {"none", "up", "closed"}
  /\ wal \in [cur : Act \cup {NoWallet}, tick : Act \cup {NoWallet},
              push : Act \cup {NoWallet}, verifier : Act \cup {NoWallet},
              disposed : SUBSET Act]
  /\ acts \in [Act -> [pc : {"none", "making", "pushing", "done", "dropped", "failed"},
                       net : Network]]
  /\ chain \in [Act -> [st : {"off", "armed", "reading"}, on : Act \cup {NoWallet}]]
  /\ reads \in SUBSET Act
  /\ flows \in [Flow -> [kind : Kind \cup {"none"}, pc : FlowPc, open : BOOLEAN]]
  /\ host \in [topic : {"base", "main"}, last : Network \cup {"none"},
               moving : SUBSET {"base", "main"}]

\* Switches of the wallet overlap as they like, and no wallet is left behind: every one
\* that was built is the engine's or was disposed (activateSeq's guard).
OneLiveWallet ==
  up # "closed" =>
    \A a \in Act : acts[a].pc \in {"pushing", "done", "dropped"} =>
                     a = wal.cur \/ a \in wal.disposed

\* A slow switch never clobbers a newer one: the engine's wallet, and the one its paid gate
\* asks, is a slot that only the newest activation fills, at every step.
Slot == INSTANCE WalletSlot
          WITH MaxWallets <- MaxActs, slot <- wal.cur, gate <- wal.verifier,
               net <- [a \in Act |-> acts[a].net]
WalletIsSlot == Slot!SlotSpec

\* Every request is answered: before the engine is up, over a wallet that is switched
\* away, and by the seam when it is torn down under the call.
RequestsAnswered ==
  \A f \in Flow : flows[f].open ~> ~flows[f].open

\* Balance reads of a wallet that was switched away may report after the new one's:
\* the poll brings the host back to the network of the wallet in use.
HostSeesActiveWallet ==
  <>[](up = "up" /\ wal.cur # NoWallet) =>
    <>[](wal.cur # NoWallet /\ host.last = Net(wal.cur))

\* "on a network change, issue a generic set-topic so this peer moves to that network's
\* directory" (workers/hyperwave.js:43-46).  A switch back that comes while the old topic is
\* being left finds the topic unchanged and does nothing; then the first move goes through.
TopicFollowsWallet ==
  <>[](up = "up" /\ wal.cur # NoWallet) =>
    <>[](wal.cur # NoWallet /\ host.topic = BaseTopic(Net(wal.cur)))

=============================================================================
