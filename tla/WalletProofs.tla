---------------------------- MODULE WalletProofs ----------------------------
(***************************************************************************)
(* Theorems about the wallets: Engine, which brings one up, switches it    *)
(* and sends it the commands, for every bound on activations and commands; *)
(* and CashuWallet, what is brought up, for every set of mints, every      *)
(* number of operations in progress and every bound.                       *)
(*                                                                         *)
(* Engine: its state stays well formed, no wallet is left behind           *)
(* undisposed, and its wallet is the slot of WalletSlot.  What a safe      *)
(* switch rests on is that activations are numbered without a gap, so the  *)
(* newest one is Cardinality(Started), and that only the newest one may    *)
(* still be making a wallet while the slot is empty.                       *)
(*                                                                         *)
(* CashuWallet: its types, and that the file agrees with the mints' books  *)
(* but for what is in hand or at risk.  The argument follows a coin.  A    *)
(* coin in any store, or read from one, is of the mint it is kept under; a *)
(* coin an operation got is nobody else's until it is written; and a coin  *)
(* that the file and a store do not both have is put at risk when that     *)
(* store is written.                                                       *)
(***************************************************************************)
EXTENDS Engine, CashuWallet, FiniteSetTheorems, TLAPS

-----------------------------------------------------------------------------
\* Types.

\* clearTimeout() leaves a table of polls.
LEMMA PollStoppedType ==
  ASSUME TypeOK
  PROVE  PollStopped \in [Act -> [st : {"off", "armed", "reading"},
                                  on : Act \cup {NoWallet}]]
<1>1. Quiet \in [st : {"off", "armed", "reading"}, on : Act \cup {NoWallet}]
  BY DEF Quiet
<1> QED
  BY <1>1 DEF PollStopped, TypeOK

\* A wallet message leaves a host.
LEMMA WalletMessageType ==
  ASSUME TypeOK, NEW a \in Act, WalletMessage(a)
  PROVE  host' \in [topic : {"base", "main"}, last : Network \cup {"none"},
                    moving : SUBSET {"base", "main"}]
<1> DEFINE topic == BaseTopic(Net(a))
<1>1. Net(a) \in Network /\ topic \in {"base", "main"}
  BY DEF TypeOK, Net, BaseTopic
<1>2. host.moving \cup {topic} \in SUBSET {"base", "main"}
  BY <1>1 DEF TypeOK
<1>3. CASE Net(a) = host.last
  BY <1>3 DEF WalletMessage, TypeOK
<1>4. CASE Net(a) # host.last /\ topic = host.topic
  BY <1>1, <1>4 DEF WalletMessage, TypeOK
<1>5. CASE Net(a) # host.last /\ topic # host.topic
  <2>1. host' = [host EXCEPT !.last = Net(a), !.moving = @ \cup {topic}]
    BY <1>5 DEF WalletMessage
  <2> QED
    BY <1>1, <1>2, <2>1 DEF TypeOK
<1> QED
  BY <1>3, <1>4, <1>5

LEMMA InitType == Init => TypeOK
BY EngineAssumption DEF Init, TypeOK, Quiet, NoFlow, Network, Act, NoWallet, Flow,
  FlowPc, Kind, Request

\* The activations are numbered without a gap, and the newest is Cardinality(Started).
Numbered == Started = 1 .. seq /\ seq \in 0 .. MaxActs

LEMMA SeqOfNumbers ==
  ASSUME NEW n \in Nat, Started = 1 .. n
  PROVE  seq = n
BY FS_Interval DEF seq

\* Another activation extends them by one.
LEMMA ActivateNumbered ==
  ASSUME TypeOK, Numbered, NEW net \in Network, Activate(net)
  PROVE  /\ seq + 1 \in Act
         /\ Started' = 1 .. (seq + 1)
         /\ seq' = seq + 1
<1>1. seq \in Nat /\ seq + 1 \in Act
  BY EngineAssumption DEF Activate, Numbered, Act
<1>2. Started' = Started \cup {seq + 1}
  <2> DEFINE n == seq + 1
  <2>1. acts' = [acts EXCEPT ![n] = [pc |-> "making", net |-> net]] /\ n \in Act
    BY <1>1 DEF Activate
  <2> HIDE DEF n
  <2>2. Started' = Started \cup {n}
    BY <2>1 DEF Started, TypeOK
  <2> QED
    BY <2>2 DEF n
<1>3. Started' = 1 .. (seq + 1)
  BY <1>1, <1>2 DEF Numbered
<1>4. seq' = seq + 1
  <2> DEFINE n == seq + 1
  <2>1. n \in Nat /\ Started' = 1 .. n
    BY <1>1, <1>3
  <2> HIDE DEF n
  <2>2. seq' = Cardinality(1 .. n)
    BY <2>1 DEF seq
  <2>3. seq' = n
    BY <2>1, <2>2, FS_Interval
  <2> QED
    BY <2>3 DEF n
<1> QED
  BY <1>1, <1>3, <1>4

\* An activation, an answer of the wallet or the poll, a command and a host's step each
\* keep the types.
LEMMA ActivateType ==
  ASSUME TypeOK, Numbered, NEW net \in Network, Activate(net),
         UNCHANGED <<reads, flows, host>>, up' \in {"none", "up", "closed"}
  PROVE  TypeOK'
<1> DEFINE n == seq + 1
<1>1. n \in Act
  BY ActivateNumbered
<1>2. acts' = [acts EXCEPT ![n] = [pc |-> "making", net |-> net]]
  BY DEF Activate
<1>3. chain' \in [Act -> [st : {"off", "armed", "reading"}, on : Act \cup {NoWallet}]]
  BY PollStoppedType DEF Activate
<1>4. wal' \in [cur : Act \cup {NoWallet}, tick : Act \cup {NoWallet},
                push : Act \cup {NoWallet}, verifier : Act \cup {NoWallet},
                disposed : SUBSET Act]
  <2> DEFINE rest == wal.disposed \cup ({wal.cur} \ {NoWallet})
  <2>1. rest \in SUBSET Act
    BY DEF TypeOK
  <2>2. wal' = [wal EXCEPT !.cur = NoWallet, !.tick = NoWallet, !.disposed = rest]
    BY DEF Activate, TypeOK
  <2> HIDE DEF rest
  <2> QED
    BY <2>1, <2>2 DEF TypeOK
<1> HIDE DEF n
<1> QED
  BY <1>1, <1>2, <1>3, <1>4 DEF TypeOK

\* A poll runs only over a wallet to read, which it names from the moment it fires.
PollsRead ==
  \A a \in Act : /\ chain[a].st # "off" \/ acts[a].pc = "pushing" => wal.push # NoWallet
                 /\ chain[a].st = "reading" => chain[a].on # NoWallet

LEMMA WalletStepType ==
  ASSUME TypeOK, PollsRead, WalletStep
  PROVE  TypeOK'
<1> PICK a \in Act : \/ WalletMade(a) \/ WalletFailed(a) \/ FirstBalance(a)
                     \/ PollFires(a) \/ PollReturns(a) \/ ReadReturns(a)
  BY DEF WalletStep
<1> DEFINE PollType == [st : {"off", "armed", "reading"}, on : Act \cup {NoWallet}]
           WalType == [cur : Act \cup {NoWallet}, tick : Act \cup {NoWallet},
                       push : Act \cup {NoWallet}, verifier : Act \cup {NoWallet},
                       disposed : SUBSET Act]
<1>a. Armed \in PollType /\ Quiet \in PollType
  BY DEF Armed, Quiet
<1>b. [wal EXCEPT !.tick = a] \in WalType
  BY DEF TypeOK
<1>1. CASE WalletMade(a)
  <2>1. wal' \in WalType
    <3>1. CASE a # seq
      <4>1. wal' = [wal EXCEPT !.disposed = @ \cup {a}]
        BY <1>1, <3>1 DEF WalletMade
      <4>2. wal.disposed \cup {a} \in SUBSET Act
        BY DEF TypeOK
      <4> QED
        BY <4>1, <4>2 DEF TypeOK
    <3>2. CASE a = seq
      <4>1. wal' = [wal EXCEPT !.cur = a, !.push = a, !.verifier = a]
        BY <1>1, <3>2 DEF WalletMade
      <4> QED
        BY <4>1 DEF TypeOK
    <3> QED
      BY <3>1, <3>2
  <2>2. acts' \in [Act -> [pc : {"none", "making", "pushing", "done", "dropped", "failed"},
                           net : Network]]
    BY <1>1 DEF TypeOK, WalletMade
  <2> QED
    BY <1>1, <2>1, <2>2 DEF TypeOK, WalletMade
<1>2. CASE WalletFailed(a)
  BY <1>2 DEF TypeOK, WalletFailed
<1>3. CASE FirstBalance(a)
  <2>1. host' \in [topic : {"base", "main"}, last : Network \cup {"none"},
                   moving : SUBSET {"base", "main"}]
    BY <1>3, WalletMessageType DEF FirstBalance
  <2>2. chain' \in [Act -> PollType]
    BY <1>3, <1>a DEF TypeOK, FirstBalance
  <2> QED
    BY <1>3, <1>b, <2>1, <2>2 DEF TypeOK, FirstBalance
<1>4. CASE PollFires(a)
  BY <1>4 DEF TypeOK, PollFires
<1>5. CASE PollReturns(a)
  <2>1. chain[a].on \in Act
    BY <1>5 DEF PollsRead, PollReturns, TypeOK
  <2>2. host' \in [topic : {"base", "main"}, last : Network \cup {"none"},
                   moving : SUBSET {"base", "main"}]
    BY <1>5, <2>1, WalletMessageType DEF PollReturns
  <2>3. chain' \in [Act -> PollType]
    BY <1>5, <1>a DEF TypeOK, PollReturns
  <2>4. wal' \in WalType
    BY <1>5, <1>b DEF TypeOK, PollReturns
  <2> QED
    BY <1>5, <2>2, <2>3, <2>4 DEF TypeOK, PollReturns
<1>6. CASE ReadReturns(a)
  <2>1. host' \in [topic : {"base", "main"}, last : Network \cup {"none"},
                   moving : SUBSET {"base", "main"}]
    BY <1>6, WalletMessageType DEF ReadReturns
  <2> QED
    BY <1>6, <2>1 DEF TypeOK, ReadReturns
<1> QED
  BY <1>1, <1>2, <1>3, <1>4, <1>5, <1>6

\* What the commands do to the table of commands, and the refresh to the reads.
LEMMA CommandTypes ==
  ASSUME TypeOK, NEW f \in Flow
  PROVE  /\ Ended(f) \in [Flow -> [kind : Kind \cup {"none"}, pc : FlowPc, open : BOOLEAN]]
         /\ Refreshed \in SUBSET Act
<1>1. NoFlow \in [kind : Kind \cup {"none"}, pc : FlowPc, open : BOOLEAN]
  BY DEF NoFlow, FlowPc
<1> QED
  BY <1>1 DEF Ended, Refreshed, TypeOK

LEMMA FlowStepType ==
  ASSUME TypeOK, FlowStep
  PROVE  TypeOK'
<1> PICK f \in Flow : \/ Exec(f) \/ Funded(f) \/ TipDone(f) \/ MintDone(f) \/ HistoryDone(f)
                      \/ \E kind \in Kind : Call(f, kind)
  BY DEF FlowStep
<1> DEFINE FlowType == [Flow -> [kind : Kind \cup {"none"}, pc : FlowPc, open : BOOLEAN]]
<1>a. Ended(f) \in FlowType /\ Refreshed \in SUBSET Act
  BY CommandTypes
<1>b. \A pc \in FlowPc : [flows EXCEPT ![f].pc = pc] \in FlowType
  BY DEF TypeOK
<1>c. {"funding", "paying"} \subseteq FlowPc
  BY DEF FlowPc
<1>1. CASE Exec(f)
  BY <1>1, <1>a, <1>b, <1>c DEF TypeOK, Exec
<1>2. CASE Funded(f)
  BY <1>2, <1>a, <1>b, <1>c DEF TypeOK, Funded
<1>3. CASE Paid(f)
  BY <1>3, <1>a DEF TypeOK, Paid
<1>4. CASE HistoryDone(f)
  BY <1>4, <1>a DEF TypeOK, HistoryDone
<1>5. CASE \E kind \in Kind : Call(f, kind)
  BY <1>5 DEF TypeOK, Call, FlowPc
<1> QED
  BY <1>1, <1>2, <1>3, <1>4, <1>5 DEF TipDone, MintDone

LEMMA HostStepType ==
  ASSUME TypeOK, Numbered, HostStep
  PROVE  TypeOK'
<1>1. CASE Bootstrap
  BY <1>1, ActivateType DEF Bootstrap
<1>2. CASE SetWallet
  BY <1>2, ActivateType DEF SetWallet, TypeOK
<1>3. CASE Refresh
  BY <1>3 DEF TypeOK, Refresh, Refreshed
<1>4. CASE Close
  <2>1. flows' \in [Flow -> [kind : Kind \cup {"none"}, pc : FlowPc, open : BOOLEAN]]
    BY <1>4 DEF Close, NoFlow, FlowPc, TypeOK
  <2>2. wal' \in [cur : Act \cup {NoWallet}, tick : Act \cup {NoWallet},
                  push : Act \cup {NoWallet}, verifier : Act \cup {NoWallet},
                  disposed : SUBSET Act]
    BY <1>4 DEF Close, TypeOK
  <2> QED
    BY <1>4, <2>1, <2>2, PollStoppedType DEF TypeOK, Close
<1>5. CASE \E topic \in {"base", "main"} : TopicMoved(topic)
  <2> PICK topic \in {"base", "main"} : TopicMoved(topic)
    BY <1>5
  <2>1. host.moving \ {topic} \in SUBSET {"base", "main"}
    BY DEF TypeOK
  <2>2. host' \in [topic : {"base", "main"}, last : Network \cup {"none"},
                   moving : SUBSET {"base", "main"}]
    BY <2>1 DEF TypeOK, TopicMoved
  <2> QED
    BY <2>2 DEF TypeOK, TopicMoved
<1> QED
  BY <1>1, <1>2, <1>3, <1>4, <1>5 DEF HostStep

-----------------------------------------------------------------------------
\* The inductive invariant.

\* The slot is empty or holds the newest activation's wallet, which was made.
Slotted ==
  /\ wal.cur \in {NoWallet, seq}
  /\ wal.cur # NoWallet => acts[wal.cur].pc \in {"pushing", "done"}

\* Whichever wallet was made is in use or disposed, after the teardown as well.
WalletKept ==
  \A a \in Act : acts[a].pc \in {"pushing", "done", "dropped"} =>
                   a = wal.cur \/ a \in wal.disposed

IInv == TypeOK /\ Numbered /\ PollsRead /\ Slotted /\ WalletKept

LEMMA InitInv == Init => IInv
<1> SUFFICES ASSUME Init PROVE IInv
  OBVIOUS
<1>1. TypeOK
  BY InitType
<1>2. Numbered
  <2>1. Started = 1 .. 0
    BY DEF Init, Started
  <2>2. seq = 0
    BY <2>1, SeqOfNumbers
  <2> QED
    BY <2>1, <2>2, EngineAssumption DEF Numbered
<1>3. PollsRead /\ Slotted /\ WalletKept
  BY DEF Init, PollsRead, Slotted, WalletKept, Quiet
<1> QED
  BY <1>1, <1>2, <1>3 DEF IInv

\* A request for another wallet empties the slot, whose wallet is disposed of.
LEMMA ActivateInv ==
  ASSUME IInv, NEW net \in Network, Activate(net),
         UNCHANGED <<reads, flows, host>>, up' \in {"none", "up", "closed"}
  PROVE  IInv'
<1> DEFINE n == seq + 1
<1>1. TypeOK'
  BY ActivateType DEF IInv
<1>2. n \in Act /\ Started' = 1 .. n /\ seq' = n
  BY ActivateNumbered DEF IInv
<1>3. Numbered'
  BY <1>2, EngineAssumption DEF Numbered, Act
<1>4. /\ acts' = [acts EXCEPT ![n] = [pc |-> "making", net |-> net]]
      /\ chain' = PollStopped
      /\ wal'.cur = NoWallet /\ wal'.push = wal.push
      /\ wal'.disposed = wal.disposed \cup ({wal.cur} \ {NoWallet})
  BY DEF Activate, IInv, TypeOK
<1> HIDE DEF n
<1>5. PollsRead'
  <2>1. \A a \in Act : chain'[a] = chain[a] \/ chain'[a].st = "off"
    BY <1>4 DEF PollStopped, Quiet, IInv, TypeOK
  <2>2. \A a \in Act : acts'[a].pc = "pushing" => acts[a].pc = "pushing"
    BY <1>2, <1>4 DEF IInv, TypeOK
  <2> QED
    BY <1>4, <2>1, <2>2 DEF PollsRead, IInv
<1>6. Slotted'
  BY <1>4 DEF Slotted
<1>7. WalletKept'
  <2> SUFFICES ASSUME NEW a \in Act, acts'[a].pc \in {"pushing", "done", "dropped"}
               PROVE  a \in wal'.disposed
    BY DEF WalletKept
  <2>1. acts[a].pc \in {"pushing", "done", "dropped"}
    BY <1>2, <1>4 DEF IInv, TypeOK
  <2>2. a # NoWallet
    BY DEF Act, NoWallet
  <2> QED
    BY <1>4, <2>1, <2>2 DEF IInv, WalletKept
<1> QED
  BY <1>1, <1>3, <1>5, <1>6, <1>7 DEF IInv

\* No other step starts an activation.
LEMMA NoNewActivation ==
  ASSUME TypeOK, Numbered, WalletStep \/ UNCHANGED acts
  PROVE  Started' = Started /\ seq' = seq /\ Numbered'
<1>1. CASE WalletStep
  <2> PICK a \in Act : \/ WalletMade(a) \/ WalletFailed(a) \/ FirstBalance(a)
                       \/ PollFires(a) \/ PollReturns(a) \/ ReadReturns(a)
    BY <1>1 DEF WalletStep
  <2>1. \A b \in Act : acts'[b].pc = "none" <=> acts[b].pc = "none"
    BY DEF TypeOK, WalletMade, WalletFailed, FirstBalance, PollFires, PollReturns, ReadReturns
  <2>2. Started' = Started
    BY <2>1 DEF Started
  <2> QED
    BY <2>2 DEF Numbered, seq
<1>2. CASE UNCHANGED acts
  BY <1>2 DEF Started, seq, Numbered
<1> QED
  BY <1>1, <1>2

LEMMA WalletStepInv ==
  ASSUME IInv, WalletStep
  PROVE  IInv'
<1> PICK a \in Act : \/ WalletMade(a) \/ WalletFailed(a) \/ FirstBalance(a)
                     \/ PollFires(a) \/ PollReturns(a) \/ ReadReturns(a)
  BY DEF WalletStep
<1>1. TypeOK'
  BY WalletStepType DEF IInv
<1>2. seq' = seq /\ Numbered'
  BY NoNewActivation DEF IInv
<1>3. a # NoWallet /\ NoWallet \notin Act
  BY DEF Act, NoWallet
<1>4. CASE WalletMade(a)
  <2>1. wal.cur # a
    BY <1>3, <1>4 DEF WalletMade, IInv, Slotted
  <2>2. PollsRead'
    <3>1. wal'.push \in {wal.push, a} /\ UNCHANGED chain
      BY <1>4 DEF WalletMade, IInv, TypeOK
    <3>2. \A b \in Act : acts'[b].pc = "pushing" => b = a \/ acts[b].pc = "pushing"
      BY <1>4 DEF WalletMade, IInv, TypeOK
    <3>3. acts'[a].pc = "pushing" => wal'.push = a
      <4>1. CASE a # seq
        BY <1>4, <4>1 DEF WalletMade, IInv, TypeOK
      <4>2. CASE a = seq
        <5>1. wal' = [wal EXCEPT !.cur = a, !.push = a, !.verifier = a]
          BY <1>4, <4>2 DEF WalletMade
        <5> QED
          BY <5>1 DEF IInv, TypeOK
      <4> QED
        BY <4>1, <4>2
    <3> QED
      BY <1>3, <3>1, <3>2, <3>3 DEF IInv, PollsRead
  <2>3. CASE a # seq
    <3>1. /\ acts' = [acts EXCEPT ![a].pc = "dropped"]
          /\ wal'.cur = wal.cur /\ wal'.disposed = wal.disposed \cup {a}
      BY <1>4, <2>3 DEF WalletMade, IInv, TypeOK
    <3>2. Slotted'
      BY <1>2, <2>1, <3>1 DEF IInv, TypeOK, Slotted
    <3>3. WalletKept'
      BY <3>1 DEF IInv, TypeOK, WalletKept
    <3> QED
      BY <1>1, <1>2, <2>2, <3>2, <3>3 DEF IInv
  <2>4. CASE a = seq
    <3>1. /\ acts' = [acts EXCEPT ![a].pc = "pushing"]
          /\ wal'.cur = a /\ wal'.disposed = wal.disposed
      BY <1>4, <2>4 DEF WalletMade, IInv, TypeOK
    <3>2. wal.cur = NoWallet
      BY <2>1, <2>4 DEF IInv, Slotted
    <3>3. Slotted'
      BY <1>2, <2>4, <3>1 DEF IInv, TypeOK, Slotted
    <3>4. WalletKept'
      BY <1>3, <3>1, <3>2 DEF IInv, TypeOK, WalletKept
    <3> QED
      BY <1>1, <1>2, <2>2, <3>3, <3>4 DEF IInv
  <2> QED
    BY <2>3, <2>4
<1>5. CASE WalletFailed(a)
  <2>1. wal.cur # a
    BY <1>3, <1>5 DEF WalletFailed, IInv, Slotted
  <2>2. PollsRead'
    BY <1>5 DEF WalletFailed, IInv, TypeOK, PollsRead
  <2>3. Slotted' /\ WalletKept'
    BY <1>2, <1>5, <2>1 DEF WalletFailed, IInv, TypeOK, Slotted, WalletKept
  <2> QED
    BY <1>1, <1>2, <2>2, <2>3 DEF IInv
<1>6. CASE FirstBalance(a)
  <2>1. wal'.cur = wal.cur /\ wal'.disposed = wal.disposed /\ wal'.push = wal.push
    BY <1>6 DEF FirstBalance, IInv, TypeOK
  <2>2. PollsRead'
    BY <1>6, <2>1 DEF FirstBalance, IInv, TypeOK, PollsRead, Armed
  <2>3. Slotted' /\ WalletKept'
    BY <1>2, <1>6, <2>1 DEF FirstBalance, IInv, TypeOK, Slotted, WalletKept
  <2> QED
    BY <1>1, <1>2, <2>2, <2>3 DEF IInv
<1>7. CASE PollFires(a)
  <2>1. PollsRead'
    BY <1>7 DEF PollFires, IInv, TypeOK, PollsRead
  <2> QED
    BY <1>1, <1>2, <1>7, <2>1 DEF PollFires, IInv, Slotted, WalletKept
<1>8. CASE PollReturns(a)
  <2>1. wal'.cur = wal.cur /\ wal'.disposed = wal.disposed /\ wal'.push = wal.push
    BY <1>8 DEF PollReturns, IInv, TypeOK
  <2>2. \A b \in Act : chain'[b] = chain[b] \/ (b = a /\ chain'[b] \in {Armed, Quiet})
    BY <1>8 DEF PollReturns, IInv, TypeOK
  <2>3. wal'.push # NoWallet /\ UNCHANGED acts
    BY <1>8, <2>1 DEF PollReturns, IInv, PollsRead
  <2>4. \A b \in Act : chain'[b].st = "reading" => chain'[b].on # NoWallet
    <3> TAKE b \in Act
    <3>1. chain'[b].st = "reading" => chain'[b] = chain[b]
      BY <2>2 DEF Armed, Quiet
    <3> QED
      BY <3>1 DEF IInv, PollsRead
  <2>5. PollsRead'
    BY <2>3, <2>4 DEF PollsRead
  <2> QED
    BY <1>1, <1>2, <2>1, <2>3, <2>5 DEF IInv, Slotted, WalletKept
<1>9. CASE ReadReturns(a)
  BY <1>1, <1>2, <1>9 DEF ReadReturns, IInv, PollsRead, Slotted, WalletKept
<1> QED
  BY <1>4, <1>5, <1>6, <1>7, <1>8, <1>9

LEMMA NextInv == IInv /\ [Next]_vars => IInv'
<1> SUFFICES ASSUME IInv, [Next]_vars PROVE IInv'
  OBVIOUS
<1>1. CASE WalletStep
  BY <1>1, WalletStepInv
<1>2. CASE FlowStep
  <2>1. TypeOK'
    BY <1>2, FlowStepType DEF IInv
  <2>2. UNCHANGED <<wal, acts, chain>>
    BY <1>2 DEF FlowStep, Exec, Funded, TipDone, MintDone, Paid, HistoryDone, Call
  <2>3. seq' = seq /\ Numbered'
    BY <2>2, NoNewActivation DEF IInv
  <2> QED
    BY <2>1, <2>2, <2>3 DEF IInv, PollsRead, Slotted, WalletKept
<1>3. CASE Bootstrap
  BY <1>3, ActivateInv DEF Bootstrap
<1>4. CASE SetWallet
  BY <1>4, ActivateInv DEF SetWallet, IInv, TypeOK
<1>5. CASE Refresh \/ \E topic \in {"base", "main"} : TopicMoved(topic)
  <2>1. TypeOK'
    BY <1>5, HostStepType DEF HostStep, IInv
  <2>2. UNCHANGED <<wal, acts, chain>>
    BY <1>5 DEF Refresh, TopicMoved
  <2>3. seq' = seq /\ Numbered'
    BY <2>2, NoNewActivation DEF IInv
  <2> QED
    BY <2>1, <2>2, <2>3 DEF IInv, PollsRead, Slotted, WalletKept
<1>6. CASE Close
  <2>1. TypeOK'
    BY <1>6, HostStepType DEF HostStep, IInv
  <2>2. /\ wal'.cur = wal.cur /\ wal'.push = wal.push /\ wal.disposed \subseteq wal'.disposed
        /\ chain' = PollStopped /\ UNCHANGED acts
    BY <1>6 DEF Close, IInv, TypeOK
  <2>3. seq' = seq /\ Numbered'
    BY <2>2, NoNewActivation DEF IInv
  <2>4. \A a \in Act : chain'[a] = chain[a] \/ chain'[a].st = "off"
    BY <2>2 DEF PollStopped, Quiet, IInv, TypeOK
  <2>5. PollsRead'
    BY <2>2, <2>4 DEF PollsRead, IInv
  <2> QED
    BY <2>1, <2>2, <2>3, <2>5 DEF IInv, Slotted, WalletKept
<1>7. CASE UNCHANGED vars
  <2>1. seq' = seq /\ Numbered'
    BY <1>7, NoNewActivation DEF IInv, vars
  <2> QED
    BY <1>7, <2>1 DEF vars, IInv, TypeOK, PollsRead, Slotted, WalletKept
<1> QED
  BY <1>1, <1>2, <1>3, <1>4, <1>5, <1>6, <1>7 DEF Next, HostStep

-----------------------------------------------------------------------------
\* The theorems.

\* The inductive invariant: activations are numbered without a gap, only the newest may be
\* making a wallet while the slot is empty, and every other wallet built was disposed.
THEOREM Invariance == Spec => []IInv
<1>1. Init => IInv
  BY InitInv
<1>2. IInv /\ [Next]_vars => IInv'
  BY NextInv
<1> QED
  BY <1>1, <1>2, PTL DEF Spec

\* The engine's wallet, its activations, polls, reads, commands and host stay well formed:
\* no poll reads a wallet that is not there.
THEOREM TypeCorrect == Spec => []TypeOK
<1>1. IInv => TypeOK
  BY DEF IInv
<1> QED
  BY <1>1, Invariance, PTL

\* However many switches of the wallet overlap and in whatever order their wallets come,
\* until the teardown each wallet that was built is in use or was disposed.
THEOREM NoWalletLeftBehind == Spec => []OneLiveWallet
<1>1. IInv => OneLiveWallet
  BY DEF IInv, WalletKept, OneLiveWallet
<1> QED
  BY <1>1, Invariance, PTL

-----------------------------------------------------------------------------
\* Engine implements WalletSlot.

LEMMA InitSlot == Init => Slot!SlotInit
<1> SUFFICES ASSUME Init PROVE Slot!SlotInit
  OBVIOUS
<1>1. seq = 0
  BY SeqOfNumbers DEF Init, Started
<1>2. wal.cur = 0 /\ wal.verifier = 0
  BY DEF Init, NoWallet
<1>3. [a \in Act |-> acts[a].net] = [w \in Act |-> "testnet"]
  BY DEF Init
<1> QED
  BY <1>1, <1>2, <1>3 DEF Slot!SlotInit, Slot!Wallet, Slot!NoWallet, Network, Act

\* A request for another wallet is a step of the slot.
LEMMA ActivateAsks ==
  ASSUME IInv, NEW net \in Network, Activate(net)
  PROVE  Slot!Ask
<1> DEFINE n == seq + 1
           nets == [a \in Act |-> acts[a].net]
<1>1. n \in Act /\ seq' = n /\ seq < MaxActs
  BY ActivateNumbered DEF IInv, Activate
<1>2. wal'.cur = NoWallet /\ wal'.verifier = wal.verifier
  BY DEF Activate, IInv, TypeOK
<1>3. [a \in Act |-> acts'[a].net] = [nets EXCEPT ![n] = net]
  <2>1. acts' = [acts EXCEPT ![n] = [pc |-> "making", net |-> net]]
    BY DEF Activate
  <2> HIDE DEF n
  <2> QED
    BY <1>1, <2>1 DEF IInv, TypeOK
<1> QED
  BY <1>1, <1>2, <1>3 DEF Slot!Ask, Slot!NoWallet, NoWallet

LEMMA StepOfSlot == IInv /\ [Next]_vars => [Slot!Ask \/ Slot!Fill]_(Slot!slotVars)
<1> SUFFICES ASSUME IInv, [Next]_vars
             PROVE  Slot!Ask \/ Slot!Fill \/ UNCHANGED Slot!slotVars
  OBVIOUS
<1>a. ASSUME wal'.cur = wal.cur, wal'.verifier = wal.verifier, seq' = seq,
             \A a \in Act : acts'[a].net = acts[a].net
      PROVE  UNCHANGED Slot!slotVars
  BY <1>a DEF Slot!slotVars
<1>1. CASE WalletStep
  <2> PICK a \in Act : \/ WalletMade(a) \/ WalletFailed(a) \/ FirstBalance(a)
                       \/ PollFires(a) \/ PollReturns(a) \/ ReadReturns(a)
    BY <1>1 DEF WalletStep
  <2>1. seq' = seq
    BY <1>1, NoNewActivation DEF IInv
  <2>2. \A b \in Act : acts'[b].net = acts[b].net
    BY DEF IInv, TypeOK, WalletMade, WalletFailed, FirstBalance, PollFires, PollReturns,
           ReadReturns
  <2>3. CASE WalletMade(a) /\ a = seq
    <3>1. wal.cur = NoWallet /\ seq > 0
      BY <2>3 DEF WalletMade, IInv, Slotted, Act
    <3>2. wal'.cur = seq /\ wal'.verifier = seq
      BY <2>3 DEF WalletMade, IInv, TypeOK
    <3>3. [b \in Act |-> acts'[b].net] = [b \in Act |-> acts[b].net]
      BY <2>2
    <3> QED
      BY <2>1, <3>1, <3>2, <3>3 DEF Slot!Fill, Slot!NoWallet, NoWallet
  <2>4. CASE ~(WalletMade(a) /\ a = seq)
    <3>1. wal'.cur = wal.cur /\ wal'.verifier = wal.verifier
      BY <2>4 DEF IInv, TypeOK, WalletMade, WalletFailed, FirstBalance, PollFires,
                  PollReturns, ReadReturns
    <3> QED
      BY <1>a, <2>1, <2>2, <3>1
  <2> QED
    BY <2>3, <2>4
<1>2. CASE Bootstrap \/ SetWallet
  BY <1>2, ActivateAsks DEF Bootstrap, SetWallet
<1>3. CASE FlowStep \/ Refresh \/ (\E topic \in {"base", "main"} : TopicMoved(topic))
           \/ UNCHANGED vars
  <2>1. UNCHANGED <<wal, acts>>
    BY <1>3 DEF FlowStep, Exec, Funded, TipDone, MintDone, Paid, HistoryDone, Call, Refresh,
                TopicMoved, vars
  <2>2. seq' = seq
    BY <2>1, NoNewActivation DEF IInv
  <2> QED
    BY <1>a, <2>1, <2>2
<1>4. CASE Close
  <2>1. UNCHANGED acts /\ wal'.cur = wal.cur /\ wal'.verifier = wal.verifier
    BY <1>4 DEF Close, IInv, TypeOK
  <2>2. seq' = seq
    BY <2>1, NoNewActivation DEF IInv
  <2> QED
    BY <1>a, <2>1, <2>2
<1> QED
  BY <1>1, <1>2, <1>3, <1>4 DEF Next, HostStep

\* The engine's wallet, with the wallet its paid gate asks, is a slot that every request for
\* a wallet empties and only the newest one fills: a wallet that is late never clobbers it.
THEOREM ImplementsSlot == Spec => WalletIsSlot
<1>1. Init => Slot!SlotInit
  BY InitSlot
<1>2. IInv /\ [Next]_vars => [Slot!Ask \/ Slot!Fill]_(Slot!slotVars)
  BY StepOfSlot
<1> QED
  BY <1>1, <1>2, Invariance, PTL DEF Spec, WalletIsSlot, Slot!SlotSpec

-----------------------------------------------------------------------------
\* The inductive invariant of CashuWallet.

Operation ==
  [kind : OpKind, pc : OpPc, wal : Wal, at : Mint \cup {NoMint},
   read : SUBSET Coin, gone : SUBSET Coin, got : SUBSET Coin,
   sent : SUBSET Coin, n : 0 .. MaxCoins + MaxPolls]

Books == [Coin -> [at : Mint \cup {NoMint}, st : CoinSt]]

\* A coin that was in the wallet in the books b.
Ours(b, c) == b[c].st \in {"live", "spent"}

\* Every coin is issued by a mint.
Issued(b) == \A c \in Coin : b[c].st # "none" => b[c].at \in Mint

\* The coins of a store are kept under their mint, and the tokens of its ledger were sent.
StoreFits(b, s) ==
  /\ \A m \in Mint : \A c \in s.held[m] : Ours(b, c) /\ b[c].at = m
  /\ \A c \in s.sent : b[c].st = "sent"

\* The coins an operation got of its mint, that no store had.
Taken(op) == op.got \ op.read

\* Which operations wait for a payment, and which for quotes.
Waits(op) ==
  /\ op.pc = "unpaid" => op.kind = "mint"
  /\ op.pc = "quoting" => op.kind \in {"melt", "move"}

\* What an operation read and got are coins of its mint; it lets go of coins it read.
OpFits(b, op) ==
  /\ op.pc # "idle" => op.at \in Mint
  /\ Waits(op)
  /\ op.pc # "answered" => op.gone = {} /\ op.got = {} /\ op.sent = {}
  /\ op.kind = "mint" => op.read = {}
  /\ \A c \in op.read :
       /\ b[c].at = op.at
       /\ IF op.kind = "redeem" THEN b[c].st \in {"tip", "spent"} ELSE Ours(b, c)
  /\ op.gone \subseteq op.read
  /\ \A c \in op.gone : b[c].st = "spent" /\ c \notin op.got
  /\ \A c \in op.got : Ours(b, c) /\ b[c].at = op.at
  /\ \A c \in Taken(op) : b[c].st = "live"
  /\ \A c \in op.sent : b[c].st = "sent"
  /\ Replaces(op) /\ op.pc = "answered" => op.read \subseteq op.gone \cup op.got

Has(s, c) == \E m \in Mint : c \in s.held[m]

\* In no store.
Outside(c) == ~Has(file, c) /\ \A w \in Wal : ~Has(mem[w], c)

\* A tip that is redeemed never was a coin of a store.
TipsApart ==
  \A o \in Op : ops[o].kind = "redeem" => \A c \in ops[o].read :
    /\ Outside(c)
    /\ \A p \in Op : c \notin ops[p].got /\ (ops[p].kind # "redeem" => c \notin ops[p].read)

\* What an operation got is nobody else's.
TakenApart ==
  \A o \in Op : \A c \in Taken(ops[o]) :
    /\ Outside(c)
    /\ \A p \in Op \ {o} : c \notin ops[p].got /\ c \notin ops[p].read

Fits ==
  /\ Issued(coin)
  /\ StoreFits(coin, file) /\ \A w \in Wal : StoreFits(coin, mem[w])
  /\ \A o \in Op : OpFits(coin, ops[o])

CashuIInv == CashuTypeOK /\ Fits /\ TipsApart /\ TakenApart /\ FileMatchesBooks

-----------------------------------------------------------------------------
\* Stores and books.

LEMMA KeptIs ==
  ASSUME NEW s, NEW c
  PROVE  c \in Kept(s) <=> Has(s, c) \/ c \in s.sent
BY DEF Kept, Has

LEMMA Coins == MaxCoins \in Nat /\ MaxPolls \in Nat /\ MaxPolls >= 1 /\ MaxFaults \in Nat
BY CashuWalletAssumption

\* From the books b to d coins are issued, and live coins and tips are spent.
BooksGrow(b, d) ==
  \A c \in Coin : b[c].st # "none" =>
    /\ d[c].at = b[c].at
    /\ d[c].st = b[c].st \/ (b[c].st \in {"live", "tip"} /\ d[c].st = "spent")

LEMMA IssuedGrows ==
  ASSUME NEW b, NEW d, Issued(b), BooksGrow(b, d),
         \A c \in Coin : b[c].st = "none" /\ d[c].st # "none" => d[c].at \in Mint
  PROVE  Issued(d)
BY DEF Issued, BooksGrow

LEMMA StoreFitsGrows ==
  ASSUME NEW b, NEW d, NEW s \in Store, StoreFits(b, s), BooksGrow(b, d)
  PROVE  StoreFits(d, s)
<1>1. ASSUME NEW m \in Mint, NEW c \in s.held[m] PROVE Ours(d, c) /\ d[c].at = m
  <2>1. c \in Coin /\ Ours(b, c) /\ b[c].at = m
    BY <1>1 DEF Store, StoreFits
  <2> QED
    BY <2>1 DEF BooksGrow, Ours
<1>2. ASSUME NEW c \in s.sent PROVE d[c].st = "sent"
  <2>1. c \in Coin /\ b[c].st = "sent"
    BY <1>2 DEF Store, StoreFits
  <2> QED
    BY <2>1 DEF BooksGrow
<1> QED
  BY <1>1, <1>2 DEF StoreFits

\* An operation that got nothing yet, or whose coins nobody spent.
LEMMA OpFitsGrows ==
  ASSUME NEW b, NEW d, NEW op \in Operation, OpFits(b, op), BooksGrow(b, d),
         \A c \in Taken(op) : d[c].st = b[c].st
  PROVE  OpFits(d, op)
<1>1. /\ op.read \in SUBSET Coin /\ op.gone \in SUBSET Coin /\ op.got \in SUBSET Coin
      /\ op.sent \in SUBSET Coin
  BY DEF Operation
<1>2. ASSUME NEW c \in op.read
      PROVE  /\ d[c].at = op.at
             /\ IF op.kind = "redeem" THEN d[c].st \in {"tip", "spent"} ELSE Ours(d, c)
  <2>1. /\ c \in Coin /\ b[c].at = op.at
        /\ IF op.kind = "redeem" THEN b[c].st \in {"tip", "spent"} ELSE Ours(b, c)
    BY <1>1, <1>2 DEF OpFits
  <2> QED
    BY <2>1 DEF BooksGrow, Ours
<1>3. ASSUME NEW c \in op.gone PROVE d[c].st = "spent" /\ c \notin op.got
  <2>1. c \in Coin /\ b[c].st = "spent" /\ c \notin op.got
    BY <1>1, <1>3 DEF OpFits
  <2> QED
    BY <2>1 DEF BooksGrow
<1>4. ASSUME NEW c \in op.got PROVE Ours(d, c) /\ d[c].at = op.at
  <2>1. c \in Coin /\ Ours(b, c) /\ b[c].at = op.at
    BY <1>1, <1>4 DEF OpFits
  <2> QED
    BY <2>1 DEF BooksGrow, Ours
<1>5. \A c \in Taken(op) : d[c].st = "live"
  BY DEF OpFits
<1>6. ASSUME NEW c \in op.sent PROVE d[c].st = "sent"
  <2>1. c \in Coin /\ b[c].st = "sent"
    BY <1>1, <1>6 DEF OpFits
  <2> QED
    BY <2>1 DEF BooksGrow
<1> QED
  BY <1>2, <1>3, <1>4, <1>5, <1>6 DEF OpFits

LEMMA NoOpIs ==
  /\ NoOp \in Operation /\ NoOp.pc = "idle" /\ NoOp.kind = "mint" /\ NoOp.wal = "new"
  /\ NoOp.read = {} /\ NoOp.gone = {} /\ NoOp.got = {} /\ NoOp.sent = {}
  /\ Taken(NoOp) = {} /\ \A b : OpFits(b, NoOp)
<1>1. 0 \in 0 .. MaxCoins + MaxPolls
  BY Coins
<1>2. /\ NoOp \in Operation /\ NoOp.pc = "idle" /\ NoOp.kind = "mint" /\ NoOp.wal = "new"
      /\ NoOp.read = {} /\ NoOp.gone = {} /\ NoOp.got = {} /\ NoOp.sent = {}
  BY <1>1 DEF NoOp, Operation, OpKind, OpPc, Wal
<1>3. Taken(NoOp) = {}
  BY <1>2 DEF Taken
<1> HIDE DEF NoOp
<1>4. \A b : OpFits(b, NoOp)
  BY <1>2, <1>3 DEF OpFits, Waits
<1> QED
  BY <1>2, <1>3, <1>4

LEMMA Types ==
  ASSUME CashuTypeOK
  PROVE  /\ coin \in Books /\ home \in [Wal -> Mint] /\ mem \in [Wal -> Store] /\ file \in Store
         /\ ops \in [Op -> Operation] /\ risk \in SUBSET Coin /\ faults \in 0 .. MaxFaults
         /\ "new" \in Wal /\ "old" \in Wal
BY DEF CashuTypeOK, Books, Operation, Wal

LEMMA OpTypes ==
  ASSUME NEW op \in Operation
  PROVE  /\ op.kind \in OpKind /\ op.pc \in OpPc /\ op.wal \in Wal /\ op.at \in Mint \cup {NoMint}
         /\ op.read \in SUBSET Coin /\ op.gone \in SUBSET Coin /\ op.got \in SUBSET Coin
         /\ op.sent \in SUBSET Coin /\ op.n \in 0 .. MaxCoins + MaxPolls
         /\ Taken(op) \in SUBSET Coin
BY DEF Operation, Taken

LEMMA InFlightIs ==
  ASSUME NEW c
  PROVE  c \in InFlight <=> \E o \in Op : c \in InHand(o)
BY DEF InFlight

LEMMA InHandIs ==
  ASSUME NEW o \in Op, NEW c
  PROVE  c \in InHand(o) <=> /\ ops[o].pc = "answered"
                             /\ c \in ops[o].gone \/ c \in Taken(ops[o]) \/ c \in ops[o].sent
BY DEF InHand, Taken
-----------------------------------------------------------------------------
\* Steps of one operation that leave the books and the stores alone.

\* Where an operation's coins are read from: a store, what it had read, or a tip.
Source(o, n) ==
  \A c \in n.read :
    \/ n.kind = "redeem" /\ coin[c].st = "tip" /\ coin[c].at = n.at
    \/ n.kind \notin {"redeem", "mint"} /\ n.at \in Mint /\ \E w \in Wal : c \in mem[w].held[n.at]
    \/ /\ n.kind \notin {"redeem", "mint"} /\ ops[o].kind \notin {"redeem", "mint"}
       /\ n.at = ops[o].at /\ c \in ops[o].read

\* An operation gets no answer: it begins, waits, or ends with what it has in hand at risk.
LEMMA OpSetKeeps ==
  ASSUME CashuIInv, NEW o \in Op, NEW n \in Operation, ops' = [ops EXCEPT ![o] = n],
         n.pc # "answered", n.gone = {}, n.got = {}, n.sent = {},
         n.pc # "idle" => n.at \in Mint, n.kind = "mint" => n.read = {}, Waits(n),
         Source(o, n),
         UNCHANGED <<coin, home, mem, file>>, faults' \in 0 .. MaxFaults,
         risk' = risk \cup InHand(o)
  PROVE  CashuIInv'
<1>1. /\ coin \in Books /\ home \in [Wal -> Mint] /\ mem \in [Wal -> Store] /\ file \in Store
      /\ ops \in [Op -> Operation] /\ risk \in SUBSET Coin /\ Fits /\ TipsApart /\ TakenApart
      /\ FileMatchesBooks
  BY Types DEF CashuIInv
<1>2. /\ ops' \in [Op -> Operation] /\ ops'[o] = n /\ \A p \in Op : p # o => ops'[p] = ops[p]
  BY <1>1
<1>3. Taken(n) = {} /\ n.read \in SUBSET Coin
  BY OpTypes DEF Taken
<1>4. CashuTypeOK'
  <2>1. InHand(o) \subseteq Coin
    BY <1>1, OpTypes DEF InHand
  <2>2. risk' \in SUBSET Coin
    BY <1>1, <2>1
  <2> QED
    BY <1>1, <1>2, <2>2 DEF CashuTypeOK, Books, Operation
<1>5. OpFits(coin, n)
  <2>1. ASSUME NEW c \in n.read
        PROVE  /\ coin[c].at = n.at
               /\ IF n.kind = "redeem" THEN coin[c].st \in {"tip", "spent"} ELSE Ours(coin, c)
    <3>1. CASE n.kind = "redeem" /\ coin[c].st = "tip" /\ coin[c].at = n.at
      BY <3>1
    <3>2. CASE /\ n.kind \notin {"redeem", "mint"} /\ n.at \in Mint
               /\ \E w \in Wal : c \in mem[w].held[n.at]
      BY <1>1, <3>2 DEF Fits, StoreFits
    <3>3. CASE /\ n.kind \notin {"redeem", "mint"} /\ ops[o].kind \notin {"redeem", "mint"}
               /\ n.at = ops[o].at /\ c \in ops[o].read
      BY <1>1, <3>3 DEF Fits, OpFits
    <3> QED
      BY <3>1, <3>2, <3>3 DEF Source
  <2> QED
    BY <1>3, <2>1 DEF OpFits
<1>6. Fits'
  BY <1>1, <1>2, <1>5 DEF Fits
<1>7. \A c : Outside(c)' <=> Outside(c)
  BY DEF Outside, Has
<1>8. ASSUME NEW c \in Coin, coin[c].st = "tip"
      PROVE  /\ Outside(c)
             /\ \A p \in Op : c \notin ops[p].got
                             /\ (ops[p].kind # "redeem" => c \notin ops[p].read)
  <2>1. \A s \in Store : StoreFits(coin, s) => ~Has(s, c)
    BY <1>8 DEF StoreFits, Has, Ours
  <2>2. Outside(c)
    BY <1>1, <2>1 DEF Outside, Fits
  <2>3. ASSUME NEW p \in Op
        PROVE  c \notin ops[p].got /\ (ops[p].kind # "redeem" => c \notin ops[p].read)
    BY <1>1, <1>8 DEF Fits, OpFits, Ours
  <2> QED
    BY <2>2, <2>3
<1>9. ASSUME NEW c \in Coin, Outside(c), coin[c].st # "tip",
             ops[o].kind \notin {"redeem", "mint"} => c \notin ops[o].read
      PROVE  c \notin n.read
  <2>1. \A w \in Wal : n.at \in Mint => c \notin mem[w].held[n.at]
    BY <1>9 DEF Outside, Has
  <2> QED
    BY <1>9, <2>1 DEF Source
<1>10. TipsApart'
  <2>1. ASSUME NEW q \in Op, ops'[q].kind = "redeem", NEW c \in ops'[q].read, NEW p \in Op
        PROVE  /\ Outside(c)
               /\ c \notin ops'[p].got /\ (ops'[p].kind # "redeem" => c \notin ops'[p].read)
    <3>1. c \in Coin
      BY <1>1, <1>2, <2>1, OpTypes
    <3>2. /\ Outside(c) /\ \A r \in Op : c \notin ops[r].got
                             /\ (ops[r].kind # "redeem" => c \notin ops[r].read)
      <4>1. CASE q # o
        BY <1>1, <1>2, <2>1, <4>1 DEF TipsApart
      <4>2. CASE q = o
        <5>1. coin[c].st = "tip"
          BY <1>2, <2>1, <4>2 DEF Source
        <5> QED
          BY <1>8, <3>1, <5>1
      <4> QED
        BY <4>1, <4>2
    <3>3. n.kind # "redeem" => c \notin n.read
      <4>1. SUFFICES ASSUME n.kind # "redeem", c \in n.read PROVE FALSE
        OBVIOUS
      <4>2. \A w \in Wal : n.at \in Mint => c \notin mem[w].held[n.at]
        BY <3>2 DEF Outside, Has
      <4> QED
        BY <3>2, <4>1, <4>2 DEF Source
    <3> QED
      BY <1>2, <3>2, <3>3
  <2> QED
    BY <1>7, <2>1 DEF TipsApart
<1>11. TakenApart'
  <2>1. ASSUME NEW q \in Op, NEW c \in Taken(ops'[q]), NEW p \in Op \ {q}
        PROVE  Outside(c) /\ c \notin ops'[p].got /\ c \notin ops'[p].read
    <3>1. q # o /\ c \in Taken(ops[q]) /\ c \in Coin
      BY <1>1, <1>2, <1>3, <2>1, OpTypes
    <3>2. Outside(c) /\ \A r \in Op \ {q} : c \notin ops[r].got /\ c \notin ops[r].read
      BY <1>1, <3>1 DEF TakenApart
    <3>3. coin[c].st = "live"
      BY <1>1, <3>1 DEF Fits, OpFits
    <3>4. c \notin n.read
      BY <1>9, <3>1, <3>2, <3>3
    <3> QED
      BY <1>2, <2>1, <3>2, <3>4
  <2> QED
    <3>1. \A q \in Op : \A c \in Taken(ops'[q]) : Outside(c)
      <4>1. ASSUME NEW q \in Op, NEW c \in Taken(ops'[q]) PROVE Outside(c)
        <5>1. q # o /\ c \in Taken(ops[q])
          BY <1>2, <1>3, <4>1
        <5> QED
          BY <1>1, <5>1 DEF TakenApart
      <4> QED
        BY <4>1
    <3> QED
      BY <1>7, <2>1, <3>1 DEF TakenApart
<1>12. ASSUME NEW c, c \in InFlight \cup risk PROVE c \in (InFlight \cup risk)'
  <2>1. CASE c \in risk
    BY <2>1
  <2>2. CASE c \in InFlight
    <3>1. PICK p \in Op : c \in InHand(p)
      BY <2>2, InFlightIs
    <3>2. CASE p = o
      BY <3>1, <3>2
    <3>3. CASE p # o
      <4>1. c \in InHand(p)'
        BY <1>2, <3>1, <3>3 DEF InHand
      <4> QED
        BY <4>1 DEF InFlight
    <3> QED
      BY <3>2, <3>3
  <2> QED
    BY <1>12, <2>1, <2>2
<1>13. FileMatchesBooks'
  BY <1>1, <1>12 DEF FileMatchesBooks, NothingLost, NoPhantoms
<1> QED
  BY <1>4, <1>6, <1>10, <1>11, <1>13 DEF CashuIInv
\* A step of an operation that has no answer yet, or ends without one, puts nothing at risk.
LEMMA NothingInHand ==
  ASSUME NEW o \in Op, ops[o].pc # "answered"
  PROVE  InHand(o) = {}
BY DEF InHand

LEMMA StartKeeps ==
  ASSUME CashuIInv, NEW o \in Op, NEW kind \in OpKind, NEW pc \in {"unpaid", "quoting", "asked"},
         NEW m \in Mint, NEW S \in SUBSET Coin, Start(o, kind, pc, m, S),
         kind = "mint" => S = {}, pc = "unpaid" => kind = "mint",
         pc = "quoting" => kind \in {"melt", "move"},
         \A c \in S : \/ kind = "redeem" /\ coin[c].st = "tip" /\ coin[c].at = m
                      \/ kind \notin {"redeem", "mint"} /\ \E w \in Wal : c \in mem[w].held[m]
  PROVE  CashuIInv'
<1> DEFINE n == [NoOp EXCEPT !.kind = kind, !.pc = pc, !.at = m, !.read = S]
<1>1. /\ ops[o].pc = "idle" /\ ops' = [ops EXCEPT ![o] = n]
      /\ UNCHANGED <<coin, home, mem, file, faults, risk>>
  BY DEF Start, Busy
<1>2. /\ n \in Operation /\ n.kind = kind /\ n.pc = pc /\ n.at = m /\ n.read = S
      /\ n.gone = {} /\ n.got = {} /\ n.sent = {}
  <2>1. 0 \in 0 .. MaxCoins + MaxPolls
    BY Coins
  <2> QED
    BY <2>1 DEF NoOp, Operation, OpPc, Wal
<1> HIDE DEF n
<1>3. Source(o, n)
  BY <1>2 DEF Source
<1>4. risk' = risk \cup InHand(o) /\ faults' \in 0 .. MaxFaults
  BY <1>1, NothingInHand, Types DEF CashuIInv
<1>5. /\ n.pc # "answered" /\ (n.pc # "idle" => n.at \in Mint)
      /\ n.kind = "mint" => n.read = {}
      /\ Waits(n)
  BY <1>2 DEF Waits
<1> QED
  BY <1>1, <1>2, <1>3, <1>4, <1>5, OpSetKeeps

LEMMA BeginsKeeps ==
  ASSUME CashuIInv, NEW o \in Op,
         fund(o) \/ lockedSend(o) \/ payInvoice(o) \/ consolidate(o) \/ receive(o)
  PROVE  CashuIInv'
<1>1. home["new"] \in Mint /\ mem["new"] \in Store /\ "new" \in Wal /\ Fits /\ coin \in Books
  BY Types DEF CashuIInv
<1>2. \A m \in Mint : mem["new"].held[m] \in SUBSET Coin
  BY <1>1 DEF Store
<1>3. CASE fund(o)
  BY <1>1, <1>3, StartKeeps DEF fund, OpKind
<1>4. CASE lockedSend(o)
  BY <1>1, <1>2, <1>4, StartKeeps DEF lockedSend, OpKind
<1>5. CASE payInvoice(o)
  BY <1>1, <1>5, StartKeeps DEF payInvoice, OpKind
<1>6. CASE consolidate(o)
  BY <1>1, <1>2, <1>6, StartKeeps DEF consolidate, OpKind
<1>7. CASE receive(o)
  <2>1. PICK c \in Coin : coin[c].st = "tip" /\ Start(o, "redeem", "asked", coin[c].at, {c})
    BY <1>7 DEF receive
  <2>2. coin[c].at \in Mint
    BY <1>1, <2>1 DEF Fits, Issued
  <2> QED
    BY <2>1, <2>2, StartKeeps DEF OpKind
<1> QED
  BY <1>3, <1>4, <1>5, <1>6, <1>7

\* An operation that ends.
LEMMA EndKeeps ==
  ASSUME CashuIInv, NEW o \in Op, End(o), UNCHANGED <<coin, home, mem, file>>,
         faults' \in 0 .. MaxFaults, risk' = risk \cup InHand(o)
  PROVE  CashuIInv'
<1>1. ops' = [ops EXCEPT ![o] = NoOp]
  BY DEF End
<1>2. Source(o, NoOp) /\ Waits(NoOp)
  BY NoOpIs DEF Source, Waits
<1> QED
  BY <1>1, <1>2, NoOpIs, OpSetKeeps

LEMMA PollKeeps ==
  ASSUME CashuIInv, NEW o \in Op, Poll(o)
  PROVE  CashuIInv'
<1>1. /\ ops \in [Op -> Operation] /\ ops[o] \in Operation /\ OpFits(coin, ops[o])
      /\ faults \in 0 .. MaxFaults /\ ops[o].pc = "unpaid"
      /\ UNCHANGED <<coin, home, mem, file, faults, risk>>
  BY Types DEF CashuIInv, Fits, Poll
<1>2. risk' = risk \cup InHand(o) /\ faults' \in 0 .. MaxFaults
  BY <1>1, NothingInHand
<1>3. ASSUME NEW pc \in {"asked", "unpaid"}, NEW k \in 0 .. MaxCoins + MaxPolls,
             ops' = [ops EXCEPT ![o] = [ops[o] EXCEPT !.pc = pc, !.n = k]]
      PROVE  CashuIInv'
  <2> DEFINE n == [ops[o] EXCEPT !.pc = pc, !.n = k]
  <2>1. /\ n \in Operation /\ n.kind = ops[o].kind /\ n.pc = pc /\ n.at = ops[o].at
        /\ n.read = ops[o].read /\ n.gone = ops[o].gone /\ n.got = ops[o].got
        /\ n.sent = ops[o].sent
    BY <1>1 DEF Operation, OpPc
  <2>2. ops' = [ops EXCEPT ![o] = n]
    BY <1>3
  <2> HIDE DEF n
  <2>3. /\ n.gone = {} /\ n.got = {} /\ n.sent = {} /\ n.at \in Mint
        /\ n.kind = "mint" /\ n.read = {} /\ Waits(n)
    BY <1>1, <2>1 DEF OpFits, Waits
  <2>4. Source(o, n)
    BY <2>3 DEF Source
  <2> QED
    BY <1>1, <1>2, <2>1, <2>2, <2>3, <2>4, OpSetKeeps
<1>4. CASE ops' = [ops EXCEPT ![o].pc = "asked", ![o].n = 1]
  <2>1. 1 \in 0 .. MaxCoins + MaxPolls
    BY Coins
  <2>2. ops' = [ops EXCEPT ![o] = [ops[o] EXCEPT !.pc = "asked", !.n = 1]]
    BY <1>1, <1>4
  <2> QED
    BY <1>3, <2>1, <2>2
<1>5. CASE ops[o].n < MaxPolls /\ ops' = [ops EXCEPT ![o].n = @ + 1]
  <2>1. ops[o].n + 1 \in 0 .. MaxCoins + MaxPolls
    BY <1>1, <1>5, OpTypes, Coins
  <2>2. ops' = [ops EXCEPT ![o] = [ops[o] EXCEPT !.pc = "unpaid", !.n = ops[o].n + 1]]
    BY <1>1, <1>5 DEF Operation
  <2> QED
    BY <1>3, <2>1, <2>2
<1>6. CASE End(o)
  BY <1>1, <1>2, <1>6, EndKeeps
<1> QED
  BY <1>4, <1>5, <1>6 DEF Poll
LEMMA QuotedKeeps ==
  ASSUME CashuIInv, NEW o \in Op, Quoted(o)
  PROVE  CashuIInv'
<1> DEFINE offer == IF ops[o].kind = "melt" THEN mem[ops[o].wal].held[ops[o].at]
                    ELSE ops[o].read
<1>1. /\ ops \in [Op -> Operation] /\ ops[o] \in Operation /\ OpFits(coin, ops[o])
      /\ faults \in 0 .. MaxFaults /\ ops[o].pc = "quoting" /\ mem \in [Wal -> Store]
      /\ UNCHANGED <<coin, home, mem, file, faults, risk>>
  BY Types DEF CashuIInv, Fits, Quoted
<1>2. risk' = risk \cup InHand(o) /\ faults' \in 0 .. MaxFaults
  BY <1>1, NothingInHand
<1>3. /\ ops[o].kind \in {"melt", "move"} /\ ops[o].at \in Mint /\ ops[o].wal \in Wal
      /\ ops[o].gone = {} /\ ops[o].got = {} /\ ops[o].sent = {}
  BY <1>1, OpTypes DEF OpFits, Waits
<1>4. offer \in SUBSET Coin
  BY <1>1, <1>3, OpTypes DEF Store
<1>5. IsFiniteSet(offer) /\ Cardinality(offer) \in 0 .. MaxCoins
  <2>1. IsFiniteSet(Coin) /\ Cardinality(Coin) = MaxCoins
    BY FS_Interval, Coins DEF Coin
  <2> QED
    BY <1>4, <2>1, FS_Subset, FS_CardinalityType, Coins
<1>6. CASE End(o)
  BY <1>1, <1>2, <1>6, EndKeeps
<1>7. ASSUME NEW k \in 0 .. MaxCoins + MaxPolls,
             ops' = [ops EXCEPT ![o].pc = "asked", ![o].read = offer, ![o].n = k]
      PROVE  CashuIInv'
  <2> DEFINE n == [ops[o] EXCEPT !.pc = "asked", !.read = offer, !.n = k]
  <2>1. ops' = [ops EXCEPT ![o] = n]
    <3> HIDE DEF offer
    <3> QED
      BY <1>1, <1>7
  <2>2. /\ n \in Operation /\ n.kind = ops[o].kind /\ n.pc = "asked" /\ n.at = ops[o].at
        /\ n.read = offer /\ n.gone = ops[o].gone /\ n.got = ops[o].got
        /\ n.sent = ops[o].sent
    <3> HIDE DEF offer
    <3> QED
      BY <1>1, <1>4 DEF Operation, OpPc
  <2> HIDE DEF n
  <2>3. Source(o, n)
    BY <1>3, <2>2 DEF Source
  <2>4. Waits(n) /\ n.kind # "mint"
    BY <1>3, <2>2 DEF Waits
  <2> QED
    BY <1>1, <1>2, <1>3, <2>1, <2>2, <2>3, <2>4, OpSetKeeps
<1>8. PICK r \in {0, 1} :
        LET n == IF ops[o].kind = "melt" THEN 1 ELSE Cardinality(offer) - r
        IN  IF n > 0 /\ n + r <= Cardinality(offer)
            THEN ops' = [ops EXCEPT ![o].pc = "asked", ![o].read = offer, ![o].n = n]
            ELSE End(o)
  BY DEF Quoted
<1> DEFINE k == IF ops[o].kind = "melt" THEN 1 ELSE Cardinality(offer) - r
<1>9. CASE k > 0 /\ k + r <= Cardinality(offer)
  <2>1. ops' = [ops EXCEPT ![o].pc = "asked", ![o].read = offer, ![o].n = k]
    BY <1>8, <1>9
  <2>2. k \in 0 .. MaxCoins + MaxPolls
    <3> HIDE DEF offer
    <3> QED
      BY <1>5, <1>9, Coins
  <2> HIDE DEF k, offer
  <2> QED
    BY <1>7, <2>1, <2>2
<1> QED
  BY <1>6, <1>8, <1>9

LEMMA LostKeeps ==
  ASSUME CashuIInv, NEW o \in Op, MintRefuses(o) \/ ReplyLost(o)
  PROVE  CashuIInv'
<1>1. faults \in 0 .. MaxFaults
  BY Types DEF CashuIInv
<1>2. CASE MintRefuses(o)
  <2>1. risk' = risk \cup InHand(o) /\ faults' \in 0 .. MaxFaults
    BY <1>1, <1>2, NothingInHand DEF MintRefuses
  <2> QED
    BY <1>2, <2>1, EndKeeps DEF MintRefuses
<1>3. CASE ReplyLost(o)
  <2>1. risk' = risk \cup InHand(o) /\ faults' \in 0 .. MaxFaults
    BY <1>1, <1>3, Coins DEF ReplyLost
  <2> QED
    BY <1>3, <2>1, EndKeeps DEF ReplyLost
<1> QED
  BY <1>2, <1>3
-----------------------------------------------------------------------------
\* The mints.

\* A coin that is not issued is nobody's.
LEMMA FreshIsNobodys ==
  ASSUME CashuIInv, NEW c \in Fresh
  PROVE  /\ c \in Coin /\ coin[c].st = "none" /\ Outside(c)
         /\ \A p \in Op : c \notin ops[p].read /\ c \notin ops[p].got
<1>1. c \in Coin /\ coin[c].st = "none"
  BY DEF Fresh
<1>2. \A s : StoreFits(coin, s) => ~Has(s, c)
  BY <1>1 DEF StoreFits, Has, Ours
<1>3. Outside(c)
  BY <1>2 DEF Outside, CashuIInv, Fits
<1>4. ASSUME NEW p \in Op PROVE c \notin ops[p].read /\ c \notin ops[p].got
  BY <1>1 DEF CashuIInv, Fits, OpFits, Ours
<1> QED
  BY <1>1, <1>3, <1>4

LEMMA TipArrivesKeeps ==
  ASSUME CashuIInv, TipArrives
  PROVE  CashuIInv'
<1>1. PICK t \in Next_(1), m \in Mint :
        coin' = Issue({t}, m, "tip") /\ UNCHANGED <<home, mem, file, ops, faults, risk>>
  BY DEF TipArrives
<1>2. /\ coin \in Books /\ mem \in [Wal -> Store] /\ file \in Store
      /\ ops \in [Op -> Operation] /\ Fits /\ TipsApart /\ TakenApart
      /\ FileMatchesBooks /\ CashuTypeOK
  BY Types DEF CashuIInv
<1>3. t \in Coin /\ coin[t].st = "none"
  BY <1>1 DEF Next_, Fresh
<1>4. \A c \in Coin : coin'[c] = IF c = t THEN [at |-> m, st |-> "tip"] ELSE coin[c]
  BY <1>1 DEF Issue
<1>5. coin' \in Books
  BY <1>1, <1>2 DEF Issue, Books, CoinSt
<1>6. CashuTypeOK'
  BY <1>1, <1>2, <1>5 DEF CashuTypeOK, Books
<1>7. BooksGrow(coin, coin')
  BY <1>3, <1>4 DEF BooksGrow
<1>8. Issued(coin')
  BY <1>2, <1>3, <1>4 DEF Fits, Issued
<1>9. StoreFits(coin', file) /\ \A w \in Wal : StoreFits(coin', mem[w])
  BY <1>2, <1>7, StoreFitsGrows DEF Fits
<1>10. ASSUME NEW p \in Op PROVE OpFits(coin', ops[p])
  <2>1. \A c \in Taken(ops[p]) : c \in Coin /\ coin[c].st = "live"
    BY <1>2, OpTypes DEF Fits, OpFits
  <2>2. \A c \in Taken(ops[p]) : coin'[c].st = coin[c].st
    BY <1>3, <1>4, <2>1
  <2> QED
    BY <1>2, <1>7, <2>2, OpFitsGrows DEF Fits
<1>11. Fits'
  BY <1>1, <1>8, <1>9, <1>10 DEF Fits
<1>12. TipsApart' /\ TakenApart'
  BY <1>1, <1>2 DEF TipsApart, TakenApart, Outside, Has
<1>13. FileMatchesBooks'
  <2>1. InFlight' = InFlight /\ risk' = risk
    BY <1>1 DEF InFlight, InHand
  <2>2. NothingLost'
    <3>1. ASSUME NEW c \in Coin, c \notin InFlight \cup risk
          PROVE  /\ coin'[c].st = "live" => c \in file.held[coin'[c].at]
                 /\ coin'[c].st = "sent" => c \in file.sent
      <4>1. CASE c = t
        BY <1>4, <4>1
      <4>2. CASE c # t
        BY <1>2, <1>4, <3>1, <4>2 DEF FileMatchesBooks, NothingLost
      <4> QED
        BY <4>1, <4>2
    <3> QED
      BY <1>1, <2>1, <3>1 DEF NothingLost
  <2>3. NoPhantoms'
    <3>1. ASSUME NEW n \in Mint, NEW c \in file.held[n], c \notin InFlight \cup risk
          PROVE  coin'[c].st = "live" /\ coin'[c].at = n
      <4>1. c \in Coin
        BY <1>2, <3>1 DEF Store
      <4>2. coin[c].st = "live" /\ coin[c].at = n
        BY <1>2, <3>1 DEF FileMatchesBooks, NoPhantoms
      <4> QED
        BY <1>3, <1>4, <4>1, <4>2
    <3> QED
      BY <1>1, <2>1, <3>1 DEF NoPhantoms
  <2> QED
    BY <2>2, <2>3 DEF FileMatchesBooks
<1> QED
  BY <1>6, <1>11, <1>12, <1>13 DEF CashuIInv

LEMMA MintAnswersKeeps ==
  ASSUME CashuIInv, NEW o \in Op, MintAnswers(o)
  PROVE  CashuIInv'
<1> DEFINE op == ops[o]
           new(k) == Next_(k)
<1>1. PICK gone \in Picks(op), k \in Change(op) :
        /\ \A c \in gone : coin[c].st \in {"live", "tip"}
        /\ coin' = [c \in Coin |->
                      IF c \in gone THEN [coin[c] EXCEPT !.st = "spent"]
                      ELSE Issue(Next_(k), op.at, IF op.kind = "lock" THEN "sent" ELSE "live")[c]]
        /\ ops' = [ops EXCEPT ![o].pc = "answered", ![o].gone = gone,
                              ![o].got = IF op.kind = "lock" THEN op.read \ gone ELSE Next_(k),
                              ![o].sent = IF op.kind = "lock" THEN Next_(k) ELSE {}]
  BY DEF MintAnswers
<1> DEFINE iss == Next_(k)
           st == IF op.kind = "lock" THEN "sent" ELSE "live"
           got == IF op.kind = "lock" THEN op.read \ gone ELSE iss
           sent == IF op.kind = "lock" THEN iss ELSE {}
           n == [op EXCEPT !.pc = "answered", !.gone = gone, !.got = got, !.sent = sent]
<1>2. /\ coin \in Books /\ mem \in [Wal -> Store] /\ file \in Store
      /\ ops \in [Op -> Operation] /\ op \in Operation /\ Fits /\ TipsApart /\ TakenApart
      /\ FileMatchesBooks /\ CashuTypeOK /\ OpFits(coin, op)
      /\ op.pc = "asked" /\ UNCHANGED <<home, mem, file, faults, risk>>
  BY Types DEF CashuIInv, MintAnswers, Fits
<1>3. op.at \in Mint /\ op.read \in SUBSET Coin /\ op.kind \in OpKind
  BY <1>2, OpTypes DEF OpFits
<1>4. /\ gone \subseteq op.read
      /\ op.kind \in {"melt", "move", "redeem"} => gone = op.read
  <2>1. CASE op.kind = "mint"
    BY <2>1 DEF Picks
  <2>2. CASE op.kind = "lock"
    BY <2>2 DEF Picks
  <2>3. CASE op.kind \in {"melt", "move", "redeem"}
    BY <2>3 DEF Picks
  <2> QED
    BY <1>3, <2>1, <2>2, <2>3 DEF OpKind
<1>5. iss \subseteq Fresh
  BY DEF Next_
<1>6. \A c \in iss : /\ c \in Coin /\ coin[c].st = "none" /\ Outside(c)
                     /\ \A p \in Op : c \notin ops[p].read /\ c \notin ops[p].got
  BY <1>5, FreshIsNobodys
<1>7. \A c \in gone : c \in Coin /\ coin[c].st \in {"live", "tip"} /\ c \notin iss
  BY <1>1, <1>3, <1>4, <1>6
<1>8. \A c \in Coin : coin'[c] = IF c \in gone THEN [coin[c] EXCEPT !.st = "spent"]
                                 ELSE IF c \in iss THEN [at |-> op.at, st |-> st] ELSE coin[c]
  BY <1>1 DEF Issue
<1>9. ops' = [ops EXCEPT ![o] = n]
  <2> DEFINE g == IF op.kind = "lock" THEN op.read \ gone ELSE Next_(k)
             s == IF op.kind = "lock" THEN Next_(k) ELSE {}
  <2>1. ops' = [ops EXCEPT ![o].pc = "answered", ![o].gone = gone, ![o].got = g, ![o].sent = s]
    BY <1>1
  <2>2. g = got /\ s = sent
    OBVIOUS
  <2> HIDE DEF g, s, got, sent
  <2> QED
    BY <1>2, <2>1, <2>2
<1> HIDE DEF iss
<1>10. st \in {"sent", "live"} /\ got \in SUBSET Coin /\ sent \in SUBSET Coin
  BY <1>3, <1>6
<1>11. /\ op.kind = "lock" => got = op.read \ gone /\ sent = iss /\ st = "sent"
       /\ op.kind # "lock" => got = iss /\ sent = {} /\ st = "live"
  OBVIOUS
<1> HIDE DEF st, got, sent
<1>12. /\ n \in Operation /\ n.kind = op.kind /\ n.pc = "answered" /\ n.at = op.at
       /\ n.read = op.read /\ n.gone = gone /\ n.got = got /\ n.sent = sent /\ n.wal = op.wal
  BY <1>2, <1>3, <1>4, <1>10 DEF Operation, OpPc
<1> HIDE DEF n
<1> DEFINE Sort == [at : Mint \cup {NoMint}, st : CoinSt]
<1>a. ASSUME NEW c \in gone
      PROVE  coin'[c] \in Sort /\ coin'[c].at = coin[c].at /\ coin'[c].st = "spent"
  <2>1. coin[c] \in Sort /\ c \in Coin
    BY <1>2, <1>7 DEF Books
  <2>2. coin'[c] = [coin[c] EXCEPT !.st = "spent"]
    BY <1>8, <2>1
  <2> QED
    BY <2>1, <2>2 DEF CoinSt
<1>b. ASSUME NEW c \in iss
      PROVE  coin'[c] \in Sort /\ coin'[c].at = op.at /\ coin'[c].st = st
  <2>1. c \in Coin /\ c \notin gone
    BY <1>6, <1>7
  <2>2. coin'[c] = [at |-> op.at, st |-> st]
    BY <1>8, <2>1
  <2> QED
    BY <1>3, <1>10, <2>2 DEF CoinSt
<1>c. ASSUME NEW c \in Coin, c \notin gone, c \notin iss
      PROVE  coin'[c] = coin[c] /\ coin'[c] \in Sort
  BY <1>2, <1>8, <1>c DEF Books
<1>13. coin' \in Books
  <2>1. ASSUME NEW c \in Coin PROVE coin'[c] \in Sort
    BY <1>a, <1>b, <1>c
  <2>2. DOMAIN coin' = Coin /\ coin' = [c \in DOMAIN coin' |-> coin'[c]]
    BY <1>1
  <2> QED
    BY <2>1, <2>2 DEF Books
<1>14. ops' \in [Op -> Operation] /\ ops'[o] = n /\ \A p \in Op : p # o => ops'[p] = ops[p]
  BY <1>2, <1>9, <1>12
<1>15. CashuTypeOK'
  BY <1>2, <1>13, <1>14 DEF CashuTypeOK, Books, Operation
<1>16. BooksGrow(coin, coin')
  <2>1. ASSUME NEW c \in Coin, coin[c].st # "none"
        PROVE  /\ coin'[c].at = coin[c].at
               /\ \/ coin'[c].st = coin[c].st
                  \/ coin[c].st \in {"live", "tip"} /\ coin'[c].st = "spent"
    <3>1. coin[c] \in [at : Mint \cup {NoMint}, st : CoinSt] /\ c \notin iss
      BY <1>2, <1>6, <2>1 DEF Books
    <3> QED
      BY <1>7, <1>8, <3>1
  <2> QED
    BY <2>1 DEF BooksGrow
<1>17. Issued(coin')
  <2>1. ASSUME NEW c \in Coin, coin'[c].st # "none" PROVE coin'[c].at \in Mint
    <3>1. CASE c \in gone
      BY <1>2, <1>7, <1>a, <3>1 DEF Fits, Issued
    <3>2. CASE c \in iss
      BY <1>3, <1>b, <3>2
    <3>3. CASE c \notin gone /\ c \notin iss
      BY <1>2, <1>c, <2>1, <3>3 DEF Fits, Issued
    <3> QED
      BY <3>1, <3>2, <3>3
  <2> QED
    BY <2>1 DEF Issued
<1>18. StoreFits(coin', file) /\ \A w \in Wal : StoreFits(coin', mem[w])
  BY <1>2, <1>16, StoreFitsGrows DEF Fits
<1>19. Taken(n) = (IF op.kind = "lock" THEN {} ELSE iss)
  BY <1>6, <1>11, <1>12 DEF Taken
<1>20. OpFits(coin', n)
  <2>1. ASSUME NEW c \in op.read
        PROVE  /\ coin'[c].at = op.at
               /\ IF op.kind = "redeem" THEN coin'[c].st \in {"tip", "spent"} ELSE Ours(coin', c)
    <3>1. /\ c \in Coin /\ coin[c].at = op.at
          /\ IF op.kind = "redeem" THEN coin[c].st \in {"tip", "spent"} ELSE Ours(coin, c)
      BY <1>2, <1>3, <2>1 DEF OpFits
    <3> QED
      BY <1>16, <3>1 DEF BooksGrow, Ours
  <2>2. ASSUME NEW c \in gone PROVE coin'[c].st = "spent" /\ c \notin got
    <3>1. coin[c] \in [at : Mint \cup {NoMint}, st : CoinSt]
      BY <1>2, <1>7 DEF Books
    <3> QED
      BY <1>7, <1>8, <1>11, <3>1
  <2>3. ASSUME NEW c \in iss PROVE coin'[c].at = op.at /\ coin'[c].st = st
    BY <1>b
  <2>4. ASSUME NEW c \in got PROVE Ours(coin', c) /\ coin'[c].at = op.at
    BY <1>11, <2>1, <2>3, <2>4 DEF Ours
  <2>5. \A c \in Taken(n) : coin'[c].st = "live"
    BY <1>11, <1>19, <2>3
  <2>6. \A c \in sent : coin'[c].st = "sent"
    BY <1>11, <2>3
  <2>7. Replaces(n) => n.read \subseteq n.gone \cup n.got
    BY <1>4, <1>11, <1>12 DEF Replaces
  <2>8. Waits(n)
    BY <1>12 DEF Waits
  <2>9. n.kind = "mint" => n.read = {}
    BY <1>2, <1>12 DEF OpFits
  <2> QED
    BY <1>3, <1>4, <1>12, <2>1, <2>2, <2>4, <2>5, <2>6, <2>7, <2>8, <2>9 DEF OpFits
<1>21. ASSUME NEW p \in Op, p # o PROVE OpFits(coin', ops[p])
  <2>1. \A c \in Taken(ops[p]) : c \in Coin /\ c \notin op.read /\ coin[c].st = "live"
    BY <1>2, <1>21, OpTypes DEF TakenApart, Fits, OpFits
  <2>2. \A c \in Taken(ops[p]) : coin'[c].st = coin[c].st
    BY <1>4, <1>6, <1>8, <2>1
  <2> QED
    BY <1>2, <1>16, <2>2, OpFitsGrows DEF Fits
<1>22. Fits'
  BY <1>2, <1>14, <1>17, <1>18, <1>20, <1>21 DEF Fits
<1>23. \A c : Outside(c)' <=> Outside(c)
  BY <1>2 DEF Outside, Has
<1>24. TipsApart'
  <2>1. ASSUME NEW q \in Op, ops'[q].kind = "redeem", NEW c \in ops'[q].read, NEW p \in Op
        PROVE  /\ Outside(c)
               /\ c \notin ops'[p].got /\ (ops'[p].kind # "redeem" => c \notin ops'[p].read)
    <3>1. ops[q].kind = "redeem" /\ c \in ops[q].read
      BY <1>12, <1>14, <2>1
    <3>2. /\ Outside(c) /\ \A r \in Op : c \notin ops[r].got
                             /\ (ops[r].kind # "redeem" => c \notin ops[r].read)
      BY <1>2, <3>1 DEF TipsApart
    <3>3. c \notin got
      BY <1>6, <1>11, <3>1, <3>2
    <3> QED
      BY <1>12, <1>14, <3>2, <3>3
  <2> QED
    BY <1>23, <2>1 DEF TipsApart
<1>25. TakenApart'
  <2>1. ASSUME NEW q \in Op, NEW c \in Taken(ops'[q])
        PROVE  /\ Outside(c)
               /\ \A p \in Op \ {q} : c \notin ops'[p].got /\ c \notin ops'[p].read
    <3>1. CASE q = o
      <4>1. c \in iss
        BY <1>14, <1>19, <2>1, <3>1
      <4> QED
        BY <1>6, <1>14, <3>1, <4>1
    <3>2. CASE q # o
      <4>1. c \in Taken(ops[q])
        BY <1>14, <2>1, <3>2
      <4>2. Outside(c) /\ \A p \in Op \ {q} : c \notin ops[p].got /\ c \notin ops[p].read
        BY <1>2, <4>1 DEF TakenApart
      <4>3. c \in ops[q].got
        BY <4>1 DEF Taken
      <4>4. c \notin got
        BY <1>6, <1>11, <3>2, <4>2, <4>3
      <4> QED
        BY <1>12, <1>14, <3>2, <4>2, <4>4
    <3> QED
      BY <3>1, <3>2
  <2> QED
    BY <1>23, <2>1 DEF TakenApart
<1>26. FileMatchesBooks'
  <2>1. ASSUME NEW c, c \notin (InFlight \cup risk)'
        PROVE  c \notin InFlight \cup risk /\ c \notin gone /\ c \notin iss
    <3>1. c \notin InHand(o)'
      BY <2>1 DEF InFlight
    <3>2. c \notin gone /\ c \notin Taken(n) /\ c \notin sent
      BY <1>12, <1>14, <3>1 DEF InHand, Taken
    <3>3. c \notin iss
      BY <1>11, <1>19, <3>2
    <3>4. ASSUME NEW p \in Op PROVE c \notin InHand(p)
      <4>1. CASE p = o
        BY <1>2, <4>1, NothingInHand
      <4>2. CASE p # o
        <5>1. c \notin InHand(p)'
          BY <2>1 DEF InFlight
        <5> QED
          BY <1>14, <4>2, <5>1 DEF InHand
      <4> QED
        BY <4>1, <4>2
    <3> QED
      BY <1>2, <2>1, <3>2, <3>3, <3>4, InFlightIs
  <2>2. \A c \in Coin : c \notin (InFlight \cup risk)'
           => coin'[c] = coin[c] /\ c \notin InFlight \cup risk
    BY <1>8, <2>1
  <2>3. NothingLost'
    BY <1>2, <2>2 DEF FileMatchesBooks, NothingLost
  <2>4. NoPhantoms'
    <3>1. \A m \in Mint : file.held[m] \in SUBSET Coin
      BY <1>2 DEF Store
    <3> QED
      BY <1>2, <2>2, <3>1 DEF FileMatchesBooks, NoPhantoms
  <2> QED
    BY <2>3, <2>4 DEF FileMatchesBooks
<1> QED
  BY <1>15, <1>22, <1>24, <1>25, <1>26 DEF CashuIInv
-----------------------------------------------------------------------------
\* The answer is written.

\* What an operation leaves in its store.
LEMMA OutcomeIs ==
  ASSUME CashuIInv, NEW o \in Op, ops[o].pc = "answered"
  PROVE  LET op == ops[o]
             x == mem[op.wal]
             s == Outcome(op)
         IN  /\ s \in Store /\ StoreFits(coin, s) /\ s.sent = x.sent
             /\ \A m \in Mint \ {op.at} : s.held[m] = x.held[m]
             /\ s.held[op.at] = IF Replaces(op) THEN op.got ELSE x.held[op.at] \cup op.got
<1> DEFINE op == ops[o]
           x == mem[op.wal]
           S == IF Replaces(op) THEN op.got ELSE x.held[op.at] \cup op.got
           s == [x EXCEPT !.held[op.at] = S]
<1>1. /\ op \in Operation /\ OpFits(coin, op) /\ x \in Store /\ StoreFits(coin, x)
      /\ op.at \in Mint /\ op.got \in SUBSET Coin
  BY Types, OpTypes DEF CashuIInv, Fits, OpFits
<1>2. Outcome(op) = s
  BY DEF Outcome, SetAt, AddAt
<1>3. S \in SUBSET Coin /\ \A c \in S : c \in op.got \/ c \in x.held[op.at]
  BY <1>1 DEF Store
<1> HIDE DEF S
<1>4. /\ s \in Store /\ s.sent = x.sent /\ s.held[op.at] = S
      /\ \A m \in Mint : m # op.at => s.held[m] = x.held[m]
  BY <1>1, <1>3 DEF Store
<1> HIDE DEF s
<1>5. StoreFits(coin, s)
  <2>1. ASSUME NEW m \in Mint, NEW c \in s.held[m] PROVE Ours(coin, c) /\ coin[c].at = m
    <3>1. CASE c \in x.held[m]
      BY <1>1, <3>1 DEF StoreFits
    <3>2. CASE c \notin x.held[m]
      <4>1. m = op.at /\ c \in op.got
        BY <1>3, <1>4, <2>1, <3>2
      <4> QED
        BY <1>1, <4>1 DEF OpFits
    <3> QED
      BY <3>1, <3>2
  <2> QED
    BY <1>1, <1>4, <2>1 DEF StoreFits
<1> QED
  BY <1>2, <1>4, <1>5 DEF S

\* What it leaves agrees with the books, but for what is in others' hands or at risk.
LEMMA OutcomeMatchesBooks ==
  ASSUME CashuIInv, NEW o \in Op, ops[o].pc = "answered",
         NEW c \in Coin, c \notin risk, c \notin Over(ops[o].wal), c \notin Raced(ops[o]),
         \A p \in Op \ {o} : c \notin InHand(p)
  PROVE  LET op == ops[o]
             s == Outcome(op)
         IN  /\ coin[c].st = "live" => c \in s.held[coin[c].at]
             /\ coin[c].st = "sent" => c \in s.sent \cup op.sent
             /\ \A m \in Mint : c \in s.held[m] => coin[c].st = "live" /\ coin[c].at = m
<1> DEFINE op == ops[o]
           x == mem[op.wal]
           s == Outcome(op)
<1>1. /\ op \in Operation /\ OpFits(coin, op) /\ x \in Store /\ StoreFits(coin, x)
      /\ file \in Store /\ StoreFits(coin, file) /\ Issued(coin)
      /\ op.at \in Mint /\ op.got \in SUBSET Coin /\ op.wal \in Wal /\ op.kind \in OpKind
      /\ TipsApart /\ TakenApart /\ FileMatchesBooks
  BY Types, OpTypes DEF CashuIInv, Fits, OpFits
<1>2. /\ s \in Store /\ StoreFits(coin, s) /\ s.sent = x.sent
      /\ \A m \in Mint \ {op.at} : s.held[m] = x.held[m]
      /\ s.held[op.at] = IF Replaces(op) THEN op.got ELSE x.held[op.at] \cup op.got
  BY OutcomeIs
<1> HIDE DEF s
<1>3. c \in InFlight <=> c \in op.gone \/ c \in Taken(op) \/ c \in op.sent
  BY InFlightIs, InHandIs
<1>4. Has(file, c) \/ c \in file.sent <=> Has(x, c) \/ c \in x.sent
  BY KeptIs DEF Over, Differ
\* The file and the store have the same coins, so under the same mint.
<1>5. \A m \in Mint : c \in file.held[m] <=> c \in x.held[m]
  <2>1. ASSUME NEW m \in Mint, c \in file.held[m] PROVE c \in x.held[m]
    <3>1. coin[c].st # "sent" /\ coin[c].at = m /\ Has(file, c)
      BY <1>1, <2>1 DEF StoreFits, Ours, Has
    <3>2. PICK k \in Mint : c \in x.held[k]
      BY <1>1, <1>4, <3>1 DEF StoreFits, Has
    <3> QED
      BY <1>1, <3>1, <3>2 DEF StoreFits
  <2>2. ASSUME NEW m \in Mint, c \in x.held[m] PROVE c \in file.held[m]
    <3>1. coin[c].st # "sent" /\ coin[c].at = m /\ Has(x, c)
      BY <1>1, <2>2 DEF StoreFits, Ours, Has
    <3>2. PICK k \in Mint : c \in file.held[k]
      BY <1>1, <1>4, <3>1 DEF StoreFits, Has
    <3> QED
      BY <1>1, <3>1, <3>2 DEF StoreFits
  <2> QED
    BY <2>1, <2>2
<1>6. c \in file.sent <=> c \in x.sent
  BY <1>1, <1>4, <1>5 DEF StoreFits, Ours, Has
<1>7. ASSUME coin[c].st = "live" PROVE c \in s.held[coin[c].at]
  <2>1. coin[c].at \in Mint
    BY <1>1, <1>7 DEF Issued
  <2>2. CASE c \in Taken(op)
    <3>1. c \in op.got /\ coin[c].at = op.at
      BY <1>1, <2>2 DEF Taken, OpFits
    <3> QED
      BY <1>2, <3>1
  <2>3. CASE c \notin Taken(op)
    <3>1. c \notin op.gone /\ c \notin op.sent
      BY <1>1, <1>7 DEF OpFits
    <3>2. c \in x.held[coin[c].at]
      BY <1>1, <1>3, <1>5, <1>7, <2>1, <2>3, <3>1 DEF FileMatchesBooks, NothingLost
    <3>3. CASE coin[c].at # op.at \/ ~Replaces(op)
      BY <1>2, <2>1, <3>2, <3>3
    <3>4. CASE coin[c].at = op.at /\ Replaces(op)
      <4>1. c \in op.read
        BY <3>2, <3>4 DEF Raced, Differ
      <4>2. c \in op.got
        BY <1>1, <3>1, <3>4, <4>1 DEF OpFits
      <4> QED
        BY <1>2, <3>4, <4>2
    <3> QED
      BY <3>3, <3>4
  <2> QED
    BY <2>2, <2>3
<1>8. ASSUME coin[c].st = "sent" PROVE c \in s.sent \cup op.sent
  <2>1. c \notin op.gone /\ c \notin Taken(op)
    BY <1>1, <1>8 DEF OpFits
  <2> QED
    BY <1>1, <1>2, <1>3, <1>6, <1>8, <2>1 DEF FileMatchesBooks, NothingLost
<1>9. ASSUME NEW m \in Mint, c \in s.held[m] PROVE coin[c].st = "live" /\ coin[c].at = m
  <2>1. Ours(coin, c) /\ coin[c].at = m
    BY <1>2, <1>9 DEF StoreFits
  <2>2. CASE c \in Taken(op)
    BY <1>1, <2>1, <2>2 DEF OpFits
  <2>3. CASE c \notin Taken(op)
    <3>1. c \notin op.sent
      BY <1>1, <2>1 DEF OpFits, Ours
    <3>2. c \in x.held[m] /\ c \notin op.gone
      <4>1. CASE Replaces(op) /\ m = op.at
        <5>1. c \in op.got /\ c \in op.read
          BY <1>2, <1>9, <2>3, <4>1 DEF Taken
        <5>2. c \in x.held[m]
          BY <4>1, <5>1 DEF Raced, Differ
        <5> QED
          BY <1>1, <5>1, <5>2 DEF OpFits
      <4>2. CASE Replaces(op) /\ m # op.at
        <5>1. c \in x.held[m]
          BY <1>2, <1>9, <4>2
        <5>2. c \notin op.read
          BY <1>1, <2>1, <4>2 DEF OpFits
        <5> QED
          BY <1>1, <5>1, <5>2 DEF OpFits
      <4>3. CASE ~Replaces(op)
        <5>1. op.kind = "mint" \/ op.kind = "redeem"
          BY <1>1, <4>3 DEF Replaces, OpKind
        <5>2. c \notin op.read
          <6>1. CASE op.kind = "mint"
            BY <1>1, <6>1 DEF OpFits
          <6>2. CASE op.kind = "redeem"
            <7>1. SUFFICES ASSUME c \in op.read PROVE FALSE
              OBVIOUS
            <7>2. c \notin op.got /\ ~Has(x, c)
              BY <1>1, <6>2, <7>1 DEF TipsApart, Outside
            <7> QED
              BY <1>2, <1>9, <4>3, <7>2 DEF Has
          <6> QED
            BY <5>1, <6>1, <6>2
        <5>3. c \notin op.got
          BY <2>3, <5>2 DEF Taken
        <5> QED
          BY <1>1, <1>2, <1>9, <4>3, <5>2, <5>3 DEF OpFits
      <4> QED
        BY <4>1, <4>2, <4>3
    <3> QED
      BY <1>1, <1>3, <1>5, <2>3, <3>1, <3>2 DEF FileMatchesBooks, NoPhantoms
  <2> QED
    BY <2>2, <2>3
<1> QED
  BY <1>7, <1>8, <1>9 DEF s
LEMMA AtRiskAreCoins ==
  ASSUME CashuIInv, NEW o \in Op, ops[o].pc = "answered"
  PROVE  Over(ops[o].wal) \cup Raced(ops[o]) \cup InHand(o) \in SUBSET Coin
<1>1. /\ ops[o] \in Operation /\ OpFits(coin, ops[o]) /\ mem \in [Wal -> Store]
      /\ file \in Store /\ ops[o].wal \in Wal /\ ops[o].at \in Mint
      /\ ops[o].read \in SUBSET Coin /\ ops[o].gone \in SUBSET Coin
      /\ ops[o].got \in SUBSET Coin /\ ops[o].sent \in SUBSET Coin
  BY Types, OpTypes DEF CashuIInv, Fits, OpFits
<1>2. \A s \in Store : Kept(s) \in SUBSET Coin
  <2>1. ASSUME NEW s \in Store, NEW c \in Kept(s) PROVE c \in Coin
    BY <2>1, KeptIs DEF Has, Store
  <2> QED
    BY <2>1
<1>3. Over(ops[o].wal) \in SUBSET Coin
  BY <1>1, <1>2 DEF Over, Differ
<1>4. Raced(ops[o]) \in SUBSET Coin
  BY <1>1 DEF Raced, Differ, Store
<1>5. InHand(o) \in SUBSET Coin
  BY <1>1 DEF InHand
<1> QED
  BY <1>3, <1>4, <1>5

LEMMA FinishKeeps ==
  ASSUME CashuIInv, NEW o \in Op, Finish(o)
  PROVE  CashuIInv'
<1> DEFINE op == ops[o]
           n == Afterwards(op)
           s == Outcome(op)
           x == Record(s, op.sent)
<1>1. /\ op.pc = "answered" /\ mem' = [mem EXCEPT ![op.wal] = x] /\ file' = x
      /\ risk' = risk \cup Over(op.wal) \cup Raced(op)
      /\ ops' = [ops EXCEPT ![o] = n] /\ UNCHANGED <<coin, home, faults>>
  BY DEF Finish, Write
<1>2. /\ coin \in Books /\ home \in [Wal -> Mint] /\ mem \in [Wal -> Store] /\ file \in Store
      /\ ops \in [Op -> Operation] /\ op \in Operation /\ risk \in SUBSET Coin /\ Fits
      /\ TipsApart /\ TakenApart /\ OpFits(coin, op) /\ CashuTypeOK /\ op.wal \in Wal
  BY Types, OpTypes DEF CashuIInv, Fits
<1>3. /\ s \in Store /\ StoreFits(coin, s) /\ s.sent = mem[op.wal].sent
      /\ \A m \in Mint \ {op.at} : s.held[m] = mem[op.wal].held[m]
      /\ s.held[op.at] = IF Replaces(op) THEN op.got ELSE mem[op.wal].held[op.at] \cup op.got
  BY <1>1, OutcomeIs
<1>4. /\ x \in Store /\ x.held = s.held /\ x.sent = s.sent \cup op.sent
  <2> HIDE DEF s
  <2> QED
    BY <1>2, <1>3, OpTypes DEF Record, Store
<1>5. StoreFits(coin, x)
  BY <1>2, <1>3, <1>4 DEF StoreFits, OpFits
<1> HIDE DEF x
<1>6. /\ n \in Operation /\ n.pc \in {"asked", "idle"} /\ n.kind = "mint" /\ n.read = {}
      /\ n.gone = {} /\ n.got = {} /\ n.sent = {} /\ (n.pc # "idle" => n.at \in Mint)
  <2>1. home[op.wal] \in Mint /\ op.n \in 0 .. MaxCoins + MaxPolls
    BY <1>2, OpTypes
  <2>2. CASE op.kind = "move"
    <3> DEFINE h == home[op.wal]
    <3>1. n = [NoOp EXCEPT !.pc = "asked", !.wal = op.wal, !.at = h, !.n = op.n]
      BY <2>2 DEF Afterwards
    <3> HIDE DEF h, n
    <3>2. h \in Mint
      BY <2>1 DEF h
    <3> QED
      BY <1>2, <2>1, <3>1, <3>2, NoOpIs DEF Operation, OpPc
  <2>3. CASE op.kind # "move"
    BY <2>3, NoOpIs DEF Afterwards
  <2> QED
    BY <2>2, <2>3
<1> HIDE DEF n
<1>7. /\ ops' \in [Op -> Operation] /\ ops'[o] = n /\ \A p \in Op : p # o => ops'[p] = ops[p]
  BY <1>1, <1>2, <1>6
<1>8. Taken(n) = {} /\ OpFits(coin, n)
  BY <1>6 DEF Taken, OpFits, Waits
<1>9. mem' \in [Wal -> Store] /\ mem'[op.wal] = x
      /\ \A w \in Wal : w # op.wal => mem'[w] = mem[w]
  BY <1>1, <1>2, <1>4
<1>10. CashuTypeOK'
  <2>1. risk' \in SUBSET Coin
    BY <1>1, <1>2, AtRiskAreCoins
  <2> QED
    BY <1>1, <1>2, <1>4, <1>7, <1>9, <2>1 DEF CashuTypeOK, Books, Operation
<1>11. Fits'
  BY <1>1, <1>2, <1>5, <1>7, <1>8, <1>9 DEF Fits
<1>12. ASSUME NEW c, Outside(c), c \notin op.got PROVE Outside(c)'
  <2>1. ~Has(x, c)
    <3>1. ASSUME NEW m \in Mint PROVE c \notin x.held[m]
      BY <1>2, <1>3, <1>4, <1>12 DEF Outside, Has
    <3> QED
      BY <3>1 DEF Has
  <2>2. \A w \in Wal : ~Has(mem'[w], c)
    BY <1>9, <1>12, <2>1 DEF Outside
  <2> QED
    BY <1>1, <2>1, <2>2 DEF Outside, Has
<1>13. TipsApart'
  <2>1. ASSUME NEW q \in Op, ops'[q].kind = "redeem", NEW c \in ops'[q].read
        PROVE  /\ Outside(c)'
               /\ \A p \in Op : /\ c \notin ops'[p].got
                                /\ (ops'[p].kind # "redeem" => c \notin ops'[p].read)
    <3>1. q # o /\ ops[q].kind = "redeem" /\ c \in ops[q].read
      BY <1>6, <1>7, <2>1
    <3>2. /\ Outside(c) /\ \A r \in Op : c \notin ops[r].got
                             /\ (ops[r].kind # "redeem" => c \notin ops[r].read)
      BY <1>2, <3>1 DEF TipsApart
    <3> QED
      BY <1>6, <1>7, <1>12, <3>2
  <2> QED
    BY <2>1 DEF TipsApart
<1>14. TakenApart'
  <2>1. ASSUME NEW q \in Op, NEW c \in Taken(ops'[q])
        PROVE  /\ Outside(c)'
               /\ \A p \in Op \ {q} : c \notin ops'[p].got /\ c \notin ops'[p].read
    <3>1. q # o /\ c \in Taken(ops[q])
      BY <1>7, <1>8, <2>1
    <3>2. Outside(c) /\ \A p \in Op \ {q} : c \notin ops[p].got /\ c \notin ops[p].read
      BY <1>2, <3>1 DEF TakenApart
    <3> QED
      BY <1>6, <1>7, <1>12, <3>1, <3>2
  <2> QED
    BY <2>1 DEF TakenApart
<1>15. ASSUME NEW c \in Coin, c \notin (InFlight \cup risk)'
       PROVE  /\ coin[c].st = "live" => c \in x.held[coin[c].at]
              /\ coin[c].st = "sent" => c \in x.sent
              /\ \A m \in Mint : c \in x.held[m] => coin[c].st = "live" /\ coin[c].at = m
  <2>1. c \notin risk /\ c \notin Over(op.wal) /\ c \notin Raced(op)
    BY <1>1, <1>15
  <2>2. ASSUME NEW p \in Op \ {o} PROVE c \notin InHand(p)
    <3>1. c \notin InHand(p)'
      BY <1>15 DEF InFlight
    <3> QED
      BY <1>7, <3>1 DEF InHand
  <2>3. /\ coin[c].st = "live" => c \in s.held[coin[c].at]
        /\ coin[c].st = "sent" => c \in s.sent \cup op.sent
        /\ \A m \in Mint : c \in s.held[m] => coin[c].st = "live" /\ coin[c].at = m
    BY <1>1, <2>1, <2>2, OutcomeMatchesBooks
  <2> QED
    BY <1>4, <2>3
<1>16. FileMatchesBooks'
  <2>1. NothingLost'
    BY <1>1, <1>15 DEF NothingLost
  <2>2. \A m \in Mint : x.held[m] \in SUBSET Coin
    BY <1>4 DEF Store
  <2>3. NoPhantoms'
    BY <1>1, <1>15, <2>2 DEF NoPhantoms
  <2> QED
    BY <2>1, <2>3 DEF FileMatchesBooks
<1> QED
  BY <1>10, <1>11, <1>13, <1>14, <1>16 DEF CashuIInv
-----------------------------------------------------------------------------
\* The world around the wallet.

\* The operations go on in the wallet that is replaced; the new one has what the file has.
LEMMA SwitchMintKeeps ==
  ASSUME CashuIInv, NEW m \in Mint, SwitchMint(m)
  PROVE  CashuIInv'
<1>1. /\ coin \in Books /\ home \in [Wal -> Mint] /\ mem \in [Wal -> Store] /\ file \in Store
      /\ ops \in [Op -> Operation] /\ Fits /\ TipsApart /\ TakenApart /\ CashuTypeOK
      /\ FileMatchesBooks /\ Wal = {"new", "old"}
  BY Types DEF CashuIInv, Wal
<1>2. /\ home' = [new |-> m, old |-> home["new"]] /\ mem' = [new |-> file, old |-> mem["new"]]
      /\ ops' = [o \in Op |-> IF Busy(o) THEN [ops[o] EXCEPT !.wal = "old"] ELSE NoOp]
      /\ UNCHANGED <<coin, file, faults, risk>>
  BY DEF SwitchMint
<1>3. home' \in [Wal -> Mint]
  BY <1>1, <1>2
<1>4. mem' \in [Wal -> Store] /\ mem'["new"] = file /\ mem'["old"] = mem["new"]
  BY <1>1, <1>2
<1>5. ASSUME NEW o \in Op
      PROVE  /\ ops'[o] \in Operation /\ OpFits(coin, ops'[o])
             /\ ops'[o].gone \subseteq ops[o].gone
             /\ ops'[o].got \subseteq ops[o].got /\ ops'[o].read \subseteq ops[o].read
             /\ Taken(ops'[o]) \subseteq Taken(ops[o])
             /\ ops'[o].read # {} => ops'[o].kind = ops[o].kind
             /\ \A c : c \in InHand(o) => c \in InHand(o)'
  <2>1. CASE Busy(o)
    <3>1. ops'[o] = [ops[o] EXCEPT !.wal = "old"]
      BY <1>2, <2>1
    <3> DEFINE n == [ops[o] EXCEPT !.wal = "old"]
    <3>2. /\ n \in Operation /\ n.kind = ops[o].kind /\ n.pc = ops[o].pc /\ n.at = ops[o].at
          /\ n.read = ops[o].read /\ n.gone = ops[o].gone /\ n.got = ops[o].got
          /\ n.sent = ops[o].sent
      BY <1>1 DEF Operation
    <3>3. ops'[o] = n
      BY <3>1
    <3> HIDE DEF n
    <3>4. OpFits(coin, ops[o])
      BY <1>1 DEF Fits
    <3>5. OpFits(coin, n) /\ Taken(n) = Taken(ops[o])
      BY <3>2, <3>4 DEF OpFits, Waits, Taken, Replaces
    <3>6. \A c : c \in InHand(o) => c \in InHand(o)'
      BY <3>2, <3>3 DEF InHand
    <3> QED
      BY <3>2, <3>3, <3>5, <3>6
  <2>2. CASE ~Busy(o)
    <3>1. ops'[o] = NoOp
      BY <1>2, <2>2
    <3>2. \A c : c \notin InHand(o)
      BY <2>2, NothingInHand DEF Busy
    <3> QED
      BY <3>1, <3>2, NoOpIs
  <2> QED
    BY <2>1, <2>2
<1>6. ops' \in [Op -> Operation]
  BY <1>2, <1>5
<1>7. CashuTypeOK'
  BY <1>1, <1>2, <1>3, <1>4, <1>6 DEF CashuTypeOK, Books, Operation
<1>8. Fits'
  BY <1>1, <1>2, <1>4, <1>5 DEF Fits
<1>9. ASSUME NEW c, Outside(c) PROVE Outside(c)'
  BY <1>1, <1>2, <1>4, <1>9 DEF Outside, Has
<1>10. TipsApart'
  <2>1. ASSUME NEW q \in Op, ops'[q].kind = "redeem", NEW c \in ops'[q].read
        PROVE  /\ Outside(c)'
               /\ \A p \in Op : /\ c \notin ops'[p].got
                                /\ (ops'[p].kind # "redeem" => c \notin ops'[p].read)
    <3>1. ops[q].kind = "redeem" /\ c \in ops[q].read
      BY <1>5, <2>1
    <3>2. /\ Outside(c) /\ \A r \in Op : c \notin ops[r].got
                             /\ (ops[r].kind # "redeem" => c \notin ops[r].read)
      BY <1>1, <3>1 DEF TipsApart
    <3>3. ASSUME NEW p \in Op
          PROVE  c \notin ops'[p].got /\ (ops'[p].kind # "redeem" => c \notin ops'[p].read)
      <4>1. ops'[p].read \subseteq ops[p].read /\ ops'[p].got \subseteq ops[p].got
        BY <1>5
      <4>2. ops'[p].read # {} => ops'[p].kind = ops[p].kind
        BY <1>5
      <4> QED
        BY <3>2, <4>1, <4>2
    <3> QED
      BY <1>9, <3>2, <3>3
  <2> QED
    BY <2>1 DEF TipsApart
<1>11. TakenApart'
  <2>1. ASSUME NEW q \in Op, NEW c \in Taken(ops'[q])
        PROVE  /\ Outside(c)'
               /\ \A p \in Op \ {q} : c \notin ops'[p].got /\ c \notin ops'[p].read
    <3>1. c \in Taken(ops[q])
      BY <1>5, <2>1
    <3>2. Outside(c) /\ \A p \in Op \ {q} : c \notin ops[p].got /\ c \notin ops[p].read
      BY <1>1, <3>1 DEF TakenApart
    <3>3. ASSUME NEW p \in Op \ {q} PROVE c \notin ops'[p].got /\ c \notin ops'[p].read
      <4>1. ops'[p].read \subseteq ops[p].read /\ ops'[p].got \subseteq ops[p].got
        BY <1>5
      <4> QED
        BY <3>2, <4>1
    <3> QED
      BY <1>9, <3>2, <3>3
  <2> QED
    BY <2>1 DEF TakenApart
<1>12. ASSUME NEW c, c \in InFlight \cup risk PROVE c \in (InFlight \cup risk)'
  <2>1. CASE c \in risk
    BY <1>2, <2>1
  <2>2. CASE c \in InFlight
    <3>1. PICK p \in Op : c \in InHand(p)
      BY <2>2, InFlightIs
    <3>2. c \in InHand(p)'
      BY <1>5, <3>1
    <3> QED
      BY <3>2 DEF InFlight
  <2> QED
    BY <1>12, <2>1, <2>2
<1>13. FileMatchesBooks'
  BY <1>1, <1>2, <1>12 DEF FileMatchesBooks, NothingLost, NoPhantoms
<1> QED
  BY <1>7, <1>8, <1>10, <1>11, <1>13 DEF CashuIInv

\* The process comes up with what the file has: the old one, or one written half way.
LEMMA RestartKeeps ==
  ASSUME CashuIInv, Restart
  PROVE  CashuIInv'
<1>1. /\ coin \in Books /\ home \in [Wal -> Mint] /\ mem \in [Wal -> Store] /\ file \in Store
      /\ ops \in [Op -> Operation] /\ risk \in SUBSET Coin /\ Fits /\ CashuTypeOK
      /\ FileMatchesBooks /\ faults \in 0 .. MaxFaults /\ "new" \in Wal
  BY Types DEF CashuIInv
<1> DEFINE answered == {p \in Op : ops[p].pc = "answered"}
           inHand == UNION {InHand(o) : o \in Op}
           written == UNION {Over(ops[o].wal) \cup Raced(ops[o]) : o \in answered}
<1>2. /\ faults' \in 0 .. MaxFaults
      /\ file' = file \/ \E o \in answered : file' = Outcome(ops[o])
      /\ risk' = risk \cup inHand \cup (IF file' = file THEN {} ELSE written)
      /\ mem' = [w \in Wal |-> file'] /\ ops' = [o \in Op |-> NoOp]
      /\ home' = [w \in Wal |-> home["new"]] /\ coin' = coin
  <2>1. faults' \in 0 .. MaxFaults
    BY <1>1, Coins DEF Restart
  <2>2. file' = file \/ \E o \in answered : file' = Outcome(ops[o])
    BY DEF Restart
  <2> QED
    BY <2>1, <2>2 DEF Restart
<1>3. file' \in Store /\ StoreFits(coin, file')
  BY <1>1, <1>2, OutcomeIs DEF Fits
<1>4. ASSUME NEW o \in answered
      PROVE  Over(ops[o].wal) \cup Raced(ops[o]) \in SUBSET Coin
  BY AtRiskAreCoins
<1>5. ASSUME NEW o \in Op PROVE InHand(o) \in SUBSET Coin
  BY AtRiskAreCoins, NothingInHand
<1>6. risk' \in SUBSET Coin
  <2>1. inHand \in SUBSET Coin /\ written \in SUBSET Coin
    BY <1>4, <1>5
  <2> HIDE DEF inHand, written
  <2> QED
    BY <1>1, <1>2, <2>1
<1>7. CashuTypeOK'
  BY <1>1, <1>2, <1>3, <1>6, NoOpIs DEF CashuTypeOK, Books, Operation
<1>8. Fits'
  BY <1>1, <1>2, <1>3, NoOpIs DEF Fits
<1>9. TipsApart' /\ TakenApart'
  BY <1>2, NoOpIs DEF TipsApart, TakenApart
<1>10. ASSUME NEW c \in Coin, c \notin risk'
       PROVE  /\ coin[c].st = "live" => c \in file'.held[coin[c].at]
              /\ coin[c].st = "sent" => c \in file'.sent
              /\ \A m \in Mint : c \in file'.held[m] => coin[c].st = "live" /\ coin[c].at = m
  <2>1. c \notin risk /\ \A o \in Op : c \notin InHand(o)
    BY <1>2, <1>10
  <2>2. CASE file' = file
    <3>1. c \notin InFlight
      BY <2>1, InFlightIs
    <3> QED
      BY <1>1, <2>1, <2>2, <3>1 DEF FileMatchesBooks, NothingLost, NoPhantoms
  <2>3. CASE file' # file
    <3>1. PICK o \in answered : file' = Outcome(ops[o])
      BY <1>2, <2>3
    <3>2. o \in Op /\ ops[o].pc = "answered"
      OBVIOUS
    <3>3. c \notin written
      BY <1>2, <1>10, <2>3
    <3>4. c \notin Over(ops[o].wal) /\ c \notin Raced(ops[o])
      BY <3>1, <3>3
    <3>5. c \notin ops[o].sent
      BY <2>1, <3>2, InHandIs
    <3> DEFINE s == Outcome(ops[o])
    <3>6. /\ coin[c].st = "live" => c \in s.held[coin[c].at]
          /\ coin[c].st = "sent" => c \in s.sent \cup ops[o].sent
          /\ \A m \in Mint : c \in s.held[m] => coin[c].st = "live" /\ coin[c].at = m
      BY <2>1, <3>2, <3>4, OutcomeMatchesBooks
    <3> QED
      BY <3>1, <3>5, <3>6
  <2> QED
    BY <2>2, <2>3
<1>11. FileMatchesBooks'
  <2>1. NothingLost'
    BY <1>2, <1>10 DEF NothingLost
  <2>2. \A m \in Mint : file'.held[m] \in SUBSET Coin
    BY <1>3 DEF Store
  <2>3. NoPhantoms'
    BY <1>2, <1>10, <2>2 DEF NoPhantoms
  <2> QED
    BY <2>1, <2>3 DEF FileMatchesBooks
<1> QED
  BY <1>7, <1>8, <1>9, <1>11 DEF CashuIInv

-----------------------------------------------------------------------------
\* The theorems.

LEMMA InitKeeps == CashuInit => CashuIInv
<1> SUFFICES ASSUME CashuInit PROVE CashuIInv
  OBVIOUS
<1> DEFINE held == [m \in Mint |-> {c \in 1 .. Saved : coin[c].at = m}]
<1>1. 1 .. Saved \subseteq Coin
  BY CashuWalletAssumption DEF Coin
<1>2. /\ coin \in Books /\ file = [held |-> held, sent |-> {}] /\ mem = [w \in Wal |-> file]
      /\ ops = [o \in Op |-> NoOp] /\ faults = 0 /\ risk = {}
      /\ \A c \in Coin : IF c <= Saved THEN coin[c].st = "live" /\ coin[c].at \in Mint
                                       ELSE coin[c].st = "none" /\ coin[c].at = NoMint
  BY DEF CashuInit, Books, CoinSt
<1>3. held \in [Mint -> SUBSET Coin] /\ \A m \in Mint : \A c :
                                     c \in held[m] <=> c \in 1 .. Saved /\ coin[c].at = m
  BY <1>1
<1> HIDE DEF held
<1>4. file \in Store /\ file.held = held /\ file.sent = {}
  BY <1>2, <1>3 DEF Store
<1>5. ASSUME NEW m \in Mint, NEW c \in file.held[m]
      PROVE  coin[c].st = "live" /\ coin[c].at = m
  BY <1>1, <1>2, <1>3, <1>4, CashuWalletAssumption
<1>6. StoreFits(coin, file)
  BY <1>4, <1>5 DEF StoreFits, Ours
<1>7. CashuTypeOK
  <2>1. home \in [Wal -> Mint]
    BY DEF CashuInit
  <2>2. faults \in 0 .. MaxFaults
    BY <1>2, Coins
  <2> QED
    BY <1>2, <1>4, <2>1, <2>2, NoOpIs DEF CashuTypeOK, Books, Operation
<1>8. Fits
  BY <1>2, <1>6, NoOpIs DEF Fits, Issued
<1>9. TipsApart /\ TakenApart
  BY <1>2, NoOpIs DEF TipsApart, TakenApart
<1>10. FileMatchesBooks
  <2>1. ASSUME NEW c \in Coin
        PROVE  /\ coin[c].st = "live" => c \in file.held[coin[c].at]
               /\ coin[c].st # "sent"
    <3>1. c \in Nat /\ c >= 1 /\ Saved \in Nat
      BY Coins, CashuWalletAssumption DEF Coin
    <3> QED
      BY <1>2, <1>3, <1>4, <3>1
  <2> QED
    BY <1>5, <2>1 DEF FileMatchesBooks, NothingLost, NoPhantoms
<1> QED
  BY <1>7, <1>8, <1>9, <1>10 DEF CashuIInv

LEMMA NextKeeps == CashuIInv /\ [CashuNext]_cashuVars => CashuIInv'
<1> SUFFICES ASSUME CashuIInv, [CashuNext]_cashuVars PROVE CashuIInv'
  OBVIOUS
<1>1. ASSUME NEW o \in Op, OpStep(o) PROVE CashuIInv'
  BY <1>1, BeginsKeeps, PollKeeps, QuotedKeeps, MintAnswersKeeps, LostKeeps, FinishKeeps
  DEF OpStep
<1>2. CASE TipArrives
  BY <1>2, TipArrivesKeeps
<1>3. CASE \E m \in Mint : SwitchMint(m)
  BY <1>3, SwitchMintKeeps
<1>4. CASE Restart
  BY <1>4, RestartKeeps
<1>5. CASE UNCHANGED cashuVars
  <2>1. /\ coin' = coin /\ home' = home /\ mem' = mem /\ file' = file /\ ops' = ops
        /\ faults' = faults /\ risk' = risk
    BY <1>5 DEF cashuVars
  <2>2. InFlight' = InFlight
    BY <2>1 DEF InFlight, InHand
  <2>3. CashuTypeOK' /\ Fits'
    BY <2>1 DEF CashuIInv, CashuTypeOK, Fits
  <2>4. TipsApart' /\ TakenApart'
    BY <2>1 DEF CashuIInv, TipsApart, TakenApart, Outside
  <2>5. FileMatchesBooks'
    BY <2>1, <2>2 DEF CashuIInv, FileMatchesBooks, NothingLost, NoPhantoms
  <2> QED
    BY <2>3, <2>4, <2>5 DEF CashuIInv
<1> QED
  BY <1>1, <1>2, <1>3, <1>4, <1>5 DEF CashuNext

\* The inductive invariant: in every reachable state each coin that a store or an operation
\* has is one of the mint it is kept under, tips and answers are nobody else's, and the file
\* agrees with the books.
THEOREM CashuInvariance == CashuSpec => []CashuIInv
<1>1. CashuInit => CashuIInv
  BY InitKeeps
<1>2. CashuIInv /\ [CashuNext]_cashuVars => CashuIInv'
  BY NextKeeps
<1> QED
  BY <1>1, <1>2, PTL DEF CashuSpec

\* Type correctness, for every set of mints and operations and every bound.
THEOREM CashuTypeCorrect == CashuSpec => []CashuTypeOK
<1>1. CashuIInv => CashuTypeOK
  BY DEF CashuIInv
<1> QED
  BY <1>1, CashuInvariance, PTL

\* The proof store agrees with the mints' books, however the operations of cashu-wallet.js
\* interleave between store.get and store.set, over whichever of the two stores of one file,
\* through restarts and lost replies: but for what is in hand, and for the coins that a lost
\* reply, a restart or a write over someone else's change put at risk.
THEOREM StoreMatchesBooks == CashuSpec => []FileMatchesBooks
<1>1. CashuIInv => FileMatchesBooks
  BY DEF CashuIInv
<1> QED
  BY <1>1, CashuInvariance, PTL

=============================================================================
