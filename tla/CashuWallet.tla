---------------------------- MODULE CashuWallet ----------------------------
(***************************************************************************)
(* The Cashu wallet (hyperwave-wallet-cashu/lib/cashu-wallet.js) over its   *)
(* proof store (proof-store.js), with the mints as its environment.        *)
(*                                                                         *)
(* Money is a set of coins worth one unit each.  A proof store keeps the    *)
(* coins of each mint in memory and rewrites the whole file on each change. *)
(* An operation reads the store, awaits a mint, and writes the store: other *)
(* operations, a switch of the mint (which brings up a second wallet with a *)
(* store of its own over the same file) or a restart may come in between.   *)
(***************************************************************************)
EXTENDS FiniteSets, Naturals

CONSTANTS
  Mint,      \* the mints
  Op,        \* the operations that may be in progress at a time
  MaxCoins,  \* bound on the coins ever issued
  Saved,     \* number of coins kept by an earlier session
  MaxPolls,  \* polls of an invoice before fund gives up
  MaxFaults  \* bound on restarts and lost replies

ASSUME CashuWalletAssumption ==
  /\ MaxCoins \in Nat /\ Saved \in 0 .. MaxCoins
  /\ MaxPolls \in Nat \ {0} /\ MaxFaults \in Nat

VARIABLES
  coin,   \* the mints' books: where each coin is issued and whether it is spent
  home,   \* the mints of the wallet in use and of the one it replaced
  mem,    \* their stores
  file,   \* cashu-proofs.json
  ops,    \* the operations in progress
  faults, \* restarts and lost replies so far
  risk    \* ghost: the coins that a lost reply, a restart or a write over
          \* someone else's change may have cost or left behind

cashuVars == <<coin, home, mem, file, ops, faults, risk>>

Coin == 1 .. MaxCoins
Wal == {"new", "old"}
NoMint == "none"

CoinSt == {"none", "live", "tip", "sent", "spent"}
OpKind == {"mint", "lock", "melt", "move", "redeem"}
OpPc == {"idle", "unpaid", "quoting", "asked", "answered"}

\* held: the proofs of each mint; sent: the locked tokens of the ledger.
Store == [held : [Mint -> SUBSET Coin], sent : SUBSET Coin]
NoOp == [kind |-> "mint", pc |-> "idle", wal |-> "new", at |-> NoMint,
         read |-> {}, gone |-> {}, got |-> {}, sent |-> {}, n |-> 0]

Busy(o) == ops[o].pc # "idle"
Live(S) == {c \in S : coin[c].st = "live"}
Fresh == {c \in Coin : coin[c].st = "none"}
Kept(s) == (UNION {s.held[m] : m \in Mint}) \cup s.sent
Differ(S, T) == (S \ T) \cup (T \ S)

\* The n coins to be issued next.
Next_(n) == {c \in Fresh : Cardinality({d \in Fresh : d <= c}) <= n}

Issue(S, m, st) == [c \in Coin |-> IF c \in S THEN [at |-> m, st |-> st] ELSE coin[c]]

-----------------------------------------------------------------------------
\* The store.

\* #save: the whole of this store replaces the file.
Write(w, s) ==
  /\ mem' = [mem EXCEPT ![w] = s]
  /\ file' = s

\* ProofStore.set: the proofs of one mint are replaced.
SetAt(s, m, S) == [s EXCEPT !.held[m] = S]

\* ProofStore.add: proofs are appended.
AddAt(s, m, S) == [s EXCEPT !.held[m] = @ \cup S]

\* addHistory: a ledger entry, with the token it keeps.
Record(s, S) == [s EXCEPT !.sent = @ \cup S]

\* What a wallet writes over when the file is not its own memory.
Over(w) == Differ(Kept(file), Kept(mem[w]))

-----------------------------------------------------------------------------
\* The operations.

Start(o, kind, pc, m, S) ==
  /\ ~Busy(o)
  /\ ops' = [ops EXCEPT ![o] = [NoOp EXCEPT !.kind = kind, !.pc = pc, !.at = m, !.read = S]]
  /\ UNCHANGED <<coin, home, mem, file, faults, risk>>

End(o) == ops' = [ops EXCEPT ![o] = NoOp]

\* fund: an invoice of the home mint is shown, and polled.
fund(o) == Start(o, "mint", "unpaid", home["new"], {})

\* #awaitQuotePaid: paid in time, the proofs are minted; else fund returns with none.
Poll(o) ==
  /\ ops[o].pc = "unpaid"
  /\ \/ ops' = [ops EXCEPT ![o].pc = "asked", ![o].n = 1]
     \/ /\ ops[o].n < MaxPolls
        /\ ops' = [ops EXCEPT ![o].n = @ + 1]
     \/ /\ ops[o].n = MaxPolls
        /\ End(o)
  /\ UNCHANGED <<coin, home, mem, file, faults, risk>>

\* #lockedSend, of send and burn: a home coin is swapped into one locked to someone else.
lockedSend(o) == Start(o, "lock", "asked", home["new"], mem["new"].held[home["new"]])

\* payInvoice: all home proofs are offered, as they are once the quote is there.
payInvoice(o) == Start(o, "melt", "quoting", home["new"], {})

\* #swapMintToHome: the proofs of another mint are read before the quotes are asked for.
consolidate(o) ==
  \E m \in Mint \ {home["new"]} :
    /\ mem["new"].held[m] # {}
    /\ Start(o, "move", "quoting", m, mem["new"].held[m])

\* receive: a tip locked to this wallet, which may be redeemed twice at once.
receive(o) ==
  \E c \in Coin :
    /\ coin[c].st = "tip"
    /\ Start(o, "redeem", "asked", coin[c].at, {c})

\* The quotes are there, with a fee reserve r: what is left of the offer is moved or paid.
Quoted(o) ==
  LET op == ops[o]
      offer == IF op.kind = "melt" THEN mem[op.wal].held[op.at] ELSE op.read
  IN /\ op.pc = "quoting"
     /\ \E r \in {0, 1} :
          LET n == IF op.kind = "melt" THEN 1 ELSE Cardinality(offer) - r
          IN IF n > 0 /\ n + r <= Cardinality(offer)
             THEN ops' = [ops EXCEPT ![o].pc = "asked", ![o].read = offer, ![o].n = n]
             ELSE End(o)
     /\ UNCHANGED <<coin, home, mem, file, faults, risk>>

-----------------------------------------------------------------------------
\* The mints.

\* The coins an operation may spend: the library picks one for a swap, and the other
\* operations offer them all.
Picks(op) == CASE op.kind = "mint" -> {{}}
               [] op.kind = "lock" -> {{c} : c \in op.read}
               [] OTHER            -> {op.read}

\* How many coins it gets back: a melt returns what the payment left of the offer, and
\* keeps at most one coin of it as its fee.
Change(op) == CASE op.kind = "mint"   -> {op.n}
                [] op.kind = "lock"   -> {1}
                [] op.kind = "redeem" -> {1}
                [] OTHER -> {k \in 0 .. Cardinality(op.read) - op.n :
                               k >= Cardinality(op.read) - op.n - 1}

\* The mint carries out a request of which every coin is good, and answers.
MintAnswers(o) ==
  LET op == ops[o] IN
  /\ op.pc = "asked"
  /\ \E gone \in Picks(op), k \in Change(op) :
       LET new == Next_(k) IN
       /\ \A c \in gone : coin[c].st \in {"live", "tip"}
       /\ k <= Cardinality(Fresh)
       /\ coin' = [c \in Coin |->
                     IF c \in gone THEN [coin[c] EXCEPT !.st = "spent"]
                     ELSE Issue(new, op.at, IF op.kind = "lock" THEN "sent" ELSE "live")[c]]
       /\ ops' = [ops EXCEPT ![o].pc = "answered", ![o].gone = gone,
                             ![o].got = IF op.kind = "lock" THEN op.read \ gone ELSE new,
                             ![o].sent = IF op.kind = "lock" THEN new ELSE {}]
  /\ UNCHANGED <<home, mem, file, faults, risk>>

\* The mint refuses, or cannot be reached: the operation throws and nothing was changed.
MintRefuses(o) ==
  /\ ops[o].pc = "asked"
  /\ End(o)
  /\ UNCHANGED <<coin, home, mem, file, faults, risk>>

\* Coins at risk when the outcome of an operation never reaches the store.
InHand(o) ==
  IF ops[o].pc = "answered" THEN ops[o].gone \cup (ops[o].got \ ops[o].read) \cup ops[o].sent
  ELSE {}

\* The answer of the mint is lost: the operation throws all the same.
ReplyLost(o) ==
  /\ ops[o].pc = "answered"
  /\ faults < MaxFaults
  /\ faults' = faults + 1
  /\ risk' = risk \cup InHand(o)
  /\ End(o)
  /\ UNCHANGED <<coin, home, mem, file>>

-----------------------------------------------------------------------------
\* The answer reaches the wallet, which writes its store.

\* The operations that end with store.set; the others end with store.add.
Replaces(op) == op.kind \in {"lock", "melt", "move"}

\* Bug: what comes in goes under the mint that is home by now.
BugOutcome(op) ==
  LET s == mem[op.wal]
  IN IF Replaces(op) THEN SetAt(s, op.at, op.got) ELSE AddAt(s, home[op.wal], op.got)

\* The proofs it leaves: the change replaces those of the mint, new proofs are added.
Outcome(op) ==
  LET s == mem[op.wal]
  IN IF Replaces(op) THEN SetAt(s, op.at, op.got) ELSE AddAt(s, op.at, op.got)

\* What others did to those proofs since they were read.
Raced(op) == IF Replaces(op) THEN Differ(op.read, mem[op.wal].held[op.at]) ELSE {}

\* Bug: what an idle operation had read is kept out of its record.
BugAfterwards(op) == [kind |-> op.kind, pc |-> "idle", at |-> op.at]

\* #swapMintToHome goes on to mint at home what the other mint paid for.
Afterwards(op) ==
  IF op.kind = "move"
  THEN [NoOp EXCEPT !.pc = "asked", !.wal = op.wal, !.at = home[op.wal], !.n = op.n]
  ELSE NoOp

Finish(o) ==
  LET op == ops[o] IN
  /\ op.pc = "answered"
  /\ Write(op.wal, Record(Outcome(op), op.sent))
  /\ risk' = risk \cup Over(op.wal) \cup Raced(op)
  /\ ops' = [ops EXCEPT ![o] = Afterwards(op)]
  /\ UNCHANGED <<coin, home, faults>>

-----------------------------------------------------------------------------
\* The world around the wallet.

\* Someone tips this wallet, at any mint.
TipArrives ==
  \E c \in Next_(1), m \in Mint :
    /\ \A d \in Coin : coin[d].st # "tip"
    /\ coin' = Issue({c}, m, "tip")
    /\ UNCHANGED <<home, mem, file, ops, faults, risk>>

\* createCashuWallet: a wallet for another mint, whose store reads the file.  Operations
\* of the wallet it replaces go on.
SwitchMint(m) ==
  /\ m # home["new"]
  /\ \A o \in Op : ops[o].wal = "new"
  /\ home' = [new |-> m, old |-> home["new"]]
  /\ mem' = [new |-> file, old |-> mem["new"]]
  /\ ops' = [o \in Op |-> IF Busy(o) THEN [ops[o] EXCEPT !.wal = "old"] ELSE NoOp]
  /\ UNCHANGED <<coin, file, faults, risk>>

\* The process dies and comes up again: #load.  A store that was being changed may have
\* saved its proofs and not yet the ledger entry.
Restart ==
  /\ faults < MaxFaults
  /\ faults' = faults + 1
  /\ \/ file' = file
     \/ \E o \in Op :
          /\ ops[o].pc = "answered"
          /\ file' = Outcome(ops[o])
  /\ risk' = risk \cup (UNION {InHand(o) : o \in Op})
               \cup (IF file' = file THEN {}
                     ELSE UNION {Over(ops[o].wal) \cup Raced(ops[o]) :
                                   o \in {p \in Op : ops[p].pc = "answered"}})
  /\ mem' = [w \in Wal |-> file']
  /\ ops' = [o \in Op |-> NoOp]
  /\ home' = [w \in Wal |-> home["new"]]
  /\ UNCHANGED coin

-----------------------------------------------------------------------------
CashuInit ==
  /\ coin \in [Coin -> [at : Mint \cup {NoMint}, st : {"live", "none"}]]
  /\ \A c \in Coin : IF c <= Saved THEN coin[c].st = "live" /\ coin[c].at \in Mint
                                   ELSE coin[c].st = "none" /\ coin[c].at = NoMint
  /\ \E m \in Mint : home = [w \in Wal |-> m]
  /\ file = [held |-> [m \in Mint |-> {c \in 1 .. Saved : coin[c].at = m}], sent |-> {}]
  /\ mem = [w \in Wal |-> file]
  /\ ops = [o \in Op |-> NoOp]
  /\ faults = 0
  /\ risk = {}

OpStep(o) ==
  \/ fund(o) \/ Poll(o) \/ lockedSend(o) \/ payInvoice(o) \/ consolidate(o) \/ receive(o)
  \/ Quoted(o) \/ MintAnswers(o) \/ MintRefuses(o) \/ ReplyLost(o) \/ Finish(o)

CashuNext ==
  \/ \E o \in Op : OpStep(o)
  \/ TipArrives
  \/ \E m \in Mint : SwitchMint(m)
  \/ Restart

CashuSpec == CashuInit /\ [][CashuNext]_cashuVars

-----------------------------------------------------------------------------
\* Type correctness of every variable.
CashuTypeOK ==
  /\ coin \in [Coin -> [at : Mint \cup {NoMint}, st : CoinSt]]
  /\ home \in [Wal -> Mint]
  /\ mem \in [Wal -> Store] /\ file \in Store
  /\ ops \in [Op -> [kind : OpKind, pc : OpPc, wal : Wal, at : Mint \cup {NoMint},
                     read : SUBSET Coin, gone : SUBSET Coin, got : SUBSET Coin,
                     sent : SUBSET Coin, n : 0 .. MaxCoins + MaxPolls]]
  /\ faults \in 0 .. MaxFaults
  /\ risk \in SUBSET Coin

InFlight == UNION {InHand(o) : o \in Op}

NothingLost ==
  \A c \in Coin \ (InFlight \cup risk) :
    /\ coin[c].st = "live" => c \in file.held[coin[c].at]
    /\ coin[c].st = "sent" => c \in file.sent

NoPhantoms ==
  \A m \in Mint : \A c \in file.held[m] \ (InFlight \cup risk) :
    coin[c].st = "live" /\ coin[c].at = m

\* The file agrees with the mints' books.  Every live coin of the wallet is in it under its own
\* mint and every token it sent is in its ledger; and a coin a mint has spent has left it, so the
\* balance shows no money that is gone.  It holds but for the operation that has still to write
\* the store, and for what a lost reply, a restart or a write over another change put at risk
\* (the awaits of cashu-wallet.js between store.get and store.set, the two stores of one file).
FileMatchesBooks == NothingLost /\ NoPhantoms
=============================================================================
