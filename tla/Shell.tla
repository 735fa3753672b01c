-------------------------------- MODULE Shell --------------------------------
(***************************************************************************)
(* A shell around the engine across the runs of an installation: Custody's  *)
(* seeds, the mint file both shells keep (electron/main.js, custody.js),     *)
(* and the wallet panel of the desktop (renderer/lib/wallet.js) with its     *)
(* top-up invoices, over the two directions of the rpc pipe.                *)
(*                                                                         *)
(* A wallet message is handled by the shell's main and by its UI in one      *)
(* step here.  The wallet is built again, from the seed up, whenever the     *)
(* mint is switched (set-wallet-options).                                  *)
(***************************************************************************)
EXTENDS Custody, Sequences

CONSTANTS
  Mint,        \* mint URLs
  DefaultMint, \* the wallet's default mint
  TestMint,    \* the mints of the testnet, which pay their own invoices
  MaxSwitches, \* bound on the mint switches
  MaxTopups,   \* bound on the top-ups
  MaxPipe      \* bound on the messages on their way to the UI when a poll fires

ASSUME ShellAssumption ==
  /\ DefaultMint \in Mint
  /\ TestMint \subseteq Mint
  /\ MaxSwitches \in Nat
  /\ MaxTopups \in Nat
  /\ MaxPipe \in Nat \ {0}

VARIABLES
  mintFile, \* the mint the shell remembers: cashu.mint
  engine,   \* the mint of the wallet that reports, the one asked for last, balance reads
  quotes,   \* the top-ups in progress, by number
  toEngine, \* commands on their way
  toHost,   \* engine messages on their way
  panel,    \* the UI: the mint it knows, the top-up panel and its QR being drawn
  asked     \* history: mint switches and top-ups so far

shellVars == <<mintFile, engine, quotes, toEngine, toHost, panel, asked>>
vars == <<custodyVars, shellVars>>

NoMint == "none"
Topup == 1 .. MaxTopups

WalletMessage(m) == [type |-> "wallet", mint |-> m]
FundResult(out) == [type |-> "fund", out |-> out]
SetMint(m) == [type |-> "set-mint", mint |-> m]
Fund(q) == [type |-> "fund", quote |-> q]

NoEngine == [mint |-> NoMint, want |-> NoMint, reads |-> {}]
NoQuotes == [q \in Topup |-> "none"]
\* Bug: the panel has no count of the codes being painted.
BugNoPanel == [mint |-> NoMint, show |-> "hidden", busy |-> FALSE]

NoPanel == [mint |-> NoMint, show |-> "hidden", busy |-> FALSE, painting |-> 0]

EngineUp == run.at \in {"create-wallet", "up"}
Paying == run.at = "up" /\ run.use["wallet"] # None   \* payments is not null

-----------------------------------------------------------------------------
\* The runs.

\* main's init carries the mint it remembers.
Starts ==
  /\ Launch
  /\ engine' = [NoEngine EXCEPT !.want = IF mintFile = NoMint THEN DefaultMint ELSE mintFile]
  /\ UNCHANGED <<mintFile, quotes, toEngine, toHost, panel, asked>>

\* A step of the start.  The wallet, once it is built, reports its balance.
Reported(m) == [engine EXCEPT !.mint = m, !.reads = @ \cup {m}]

Progress ==
  /\ StartStep
  /\ engine' = CASE run'.at = "off" -> NoEngine
                 [] run'.at = "up" /\ run'.use["wallet"] # None -> Reported(engine.want)
                 [] OTHER -> engine
  /\ UNCHANGED <<mintFile, quotes, toEngine, toHost, panel, asked>>

\* The app ends, and everything that is not on disk with it.
Ends ==
  /\ Killed
  /\ engine' = NoEngine
  /\ quotes' = NoQuotes
  /\ toEngine' = << >> /\ toHost' = << >>
  /\ panel' = NoPanel
  /\ UNCHANGED <<mintFile, asked>>

-----------------------------------------------------------------------------
\* The engine.

Pushed == IF engine.mint = NoMint THEN engine ELSE Reported(engine.mint)

\* set-wallet-options drops the wallet and builds another one for the mint.
HandleSetMint ==
  /\ EngineUp
  /\ toEngine # << >> /\ Head(toEngine).type = "set-mint"
  /\ toEngine' = Tail(toEngine)
  /\ engine' = [engine EXCEPT !.want = Head(toEngine).mint]
  /\ run' = [run EXCEPT !.at = "create-wallet", !.use["wallet"] = None]
  /\ UNCHANGED <<shell, disk, history, mintFile, quotes, toHost, panel, asked>>

\* fund-wallet is turned down without a wallet, and else asks the mint for a quote.
HandleFund ==
  /\ EngineUp
  /\ toEngine # << >> /\ Head(toEngine).type = "fund"
  /\ toEngine' = Tail(toEngine)
  /\ IF Paying
     THEN /\ quotes' = [quotes EXCEPT ![Head(toEngine).quote] = "quoting"]
          /\ UNCHANGED toHost
     ELSE /\ toHost' = Append(toHost, FundResult("error"))
          /\ UNCHANGED quotes
  /\ UNCHANGED <<custodyVars, mintFile, engine, panel, asked>>

\* Bug: the invoice is not reported while it is pending.
BugInvoice(q) ==
  /\ quotes[q] = "quoting"
  /\ quotes' = [quotes EXCEPT ![q] = "none"]
  /\ UNCHANGED <<custodyVars, mintFile, engine, toEngine, toHost, panel, asked>>

\* fund(): the invoice goes out at once; the quote is paid, or polled in vain, or fails,
\* whatever became of the wallet meanwhile.
Invoice(q) ==
  /\ quotes[q] = "quoting"
  /\ quotes' = [quotes EXCEPT ![q] = "polling"]
  /\ toHost' = Append(toHost, FundResult("pending"))
  /\ UNCHANGED <<custodyVars, mintFile, engine, toEngine, panel, asked>>

FundEnds(q) ==
  /\ \/ quotes[q] = "quoting"
        /\ toHost' = Append(toHost, FundResult("error"))
        /\ UNCHANGED engine
     \/ quotes[q] = "polling"
        /\ \/ /\ \E out \in {"minted", "unpaid"} : toHost' = Append(toHost, FundResult(out))
              /\ engine' = Pushed
           \/ toHost' = Append(toHost, FundResult("error")) /\ UNCHANGED engine
  /\ quotes' = [quotes EXCEPT ![q] = "none"]
  /\ UNCHANGED <<custodyVars, mintFile, toEngine, panel, asked>>

\* The balance poll, which stops while the wallet is switched, and a read's answer.
BalancePoll ==
  /\ Paying
  /\ Len(toHost) < MaxPipe
  /\ engine' = Pushed
  /\ UNCHANGED <<custodyVars, mintFile, quotes, toEngine, toHost, panel, asked>>

BalanceRead(m) ==
  /\ m \in engine.reads
  /\ Len(toHost) < MaxPipe
  /\ engine' = [engine EXCEPT !.reads = @ \ {m}]
  /\ toHost' = Append(toHost, WalletMessage(m))
  /\ UNCHANGED <<custodyVars, mintFile, quotes, toEngine, panel, asked>>

-----------------------------------------------------------------------------
\* The UI.

\* topupAutoPays: a mint known to be on the testnet.
AutoPays == panel.mint \in TestMint

HideTopup(p) == [p EXCEPT !.show = "hidden"]

\* Bug: the mint is remembered once and for all.
BugKeeps(m) == IF mintFile = NoMint THEN m ELSE mintFile

\* walletStatus: the panel learns the mint and the shell remembers it.
Keeps(m) == m

HandleWallet ==
  /\ toHost # << >> /\ Head(toHost).type = "wallet"
  /\ toHost' = Tail(toHost)
  /\ mintFile' = Keeps(Head(toHost).mint)
  /\ panel' = [panel EXCEPT !.mint = Head(toHost).mint, !.busy = FALSE]
  /\ UNCHANGED <<custodyVars, engine, quotes, toEngine, asked>>

\* fundResult: an invoice is drawn as a QR, unless the mint shown pays its own; the final
\* result closes the panel or says what went wrong.
HandleFundResult ==
  /\ toHost # << >> /\ Head(toHost).type = "fund"
  /\ toHost' = Tail(toHost)
  /\ LET out == Head(toHost).out IN
       panel' = CASE out = "pending" /\ AutoPays -> panel
                  [] out = "pending" /\ ~AutoPays ->
                       [panel EXCEPT !.busy = FALSE, !.painting = @ + 1]
                  [] out = "minted" -> HideTopup([panel EXCEPT !.busy = FALSE])
                  [] OTHER -> [panel EXCEPT !.busy = FALSE, !.show = "error"]
  /\ UNCHANGED <<custodyVars, mintFile, engine, quotes, toEngine, asked>>

\* showTopupQr resolves, with the QR or without.
Painted ==
  /\ panel.painting > 0
  /\ \E show \in {"invoice", "hidden"} :
       panel' = [panel EXCEPT !.painting = @ - 1, !.show = show]
  /\ UNCHANGED <<custodyVars, mintFile, engine, quotes, toEngine, toHost, asked>>

\* The user closes the panel or its invoice,
Dismiss ==
  /\ panel.show # "hidden"
  /\ panel' = HideTopup(panel)
  /\ UNCHANGED <<custodyVars, mintFile, engine, quotes, toEngine, toHost, asked>>

\* ... picks a mint,
PickMint(m) ==
  /\ EngineUp
  /\ asked.switches < MaxSwitches
  /\ panel' = HideTopup(panel)
  /\ toEngine' = Append(toEngine, SetMint(m))
  /\ asked' = [asked EXCEPT !.switches = @ + 1]
  /\ UNCHANGED <<custodyVars, mintFile, engine, quotes, toHost>>

\* ... and tops up.
TopUp ==
  /\ EngineUp /\ shell = "desktop"
  /\ ~panel.busy
  /\ asked.topups < MaxTopups
  /\ panel' = [panel EXCEPT !.busy = TRUE, !.show = IF AutoPays THEN @ ELSE "loading"]
  /\ toEngine' = Append(toEngine, Fund(asked.topups + 1))
  /\ asked' = [asked EXCEPT !.topups = @ + 1]
  /\ UNCHANGED <<custodyVars, mintFile, engine, quotes, toHost>>

-----------------------------------------------------------------------------
Init ==
  /\ CustodyInit
  /\ mintFile = NoMint
  /\ engine = NoEngine
  /\ quotes = NoQuotes
  /\ toEngine = << >> /\ toHost = << >>
  /\ panel = NoPanel
  /\ asked = [switches |-> 0, topups |-> 0]

RunStep == Starts \/ Progress \/ Ends

EngineStep ==
  \/ HandleSetMint \/ HandleFund \/ BalancePoll
  \/ \E q \in Topup : Invoice(q) \/ FundEnds(q)
  \/ \E m \in Mint : BalanceRead(m)

UIStep ==
  \/ HandleWallet \/ HandleFundResult \/ Painted \/ Dismiss \/ TopUp
  \/ \E m \in Mint : PickMint(m)

Next == RunStep \/ EngineStep \/ UIStep

Spec == Init /\ [][Next]_vars

\* The start goes on, the pipe delivers, timers fire and every promise settles; nothing
\* makes the user act, the app start or the app end.
Fairness ==
  /\ WF_vars(Progress)
  /\ WF_vars(HandleSetMint \/ HandleFund)
  /\ WF_vars(BalancePoll)
  /\ \A q \in Topup : WF_vars(Invoice(q) \/ FundEnds(q))
  /\ \A m \in Mint : WF_vars(BalanceRead(m))
  /\ WF_vars(HandleWallet \/ HandleFundResult)
  /\ WF_vars(Painted)

FairSpec == Spec /\ Fairness

-----------------------------------------------------------------------------
\* Properties.

\* Type correctness of every variable.
TypeOK ==
  /\ CustodyTypeOK
  /\ mintFile \in Mint \cup {NoMint}
  /\ engine \in [mint : Mint \cup {NoMint}, want : Mint \cup {NoMint}, reads : SUBSET Mint]
  /\ quotes \in [Topup -> {"none", "quoting", "polling"}]
  /\ toEngine \in Seq([type : {"set-mint"}, mint : Mint] \cup [type : {"fund"}, quote : Topup])
  /\ toHost \in Seq([type : {"wallet"}, mint : Mint] \cup
                    [type : {"fund"}, out : {"pending", "minted", "unpaid", "error"}])
  /\ panel \in [mint : Mint \cup {NoMint}, show : {"hidden", "loading", "invoice", "error"},
                busy : BOOLEAN, painting : 0 .. MaxTopups]
  /\ asked \in [switches : 0 .. MaxSwitches, topups : 0 .. MaxTopups]

\* The mint the peer chose survives a restart: balance reads of a mint that was left may
\* report last and be written, and the poll brings the file back to the mint in use.
MintRemembered ==
  <>[]Paying => <>[](mintFile = engine.mint)

\* The spinner of a top-up ends: whatever the mint, a switch of it or the wallet's absence
\* make of the command, an invoice, a result or an error replaces it.
PanelSettles ==
  panel.show = "loading" ~> panel.show # "loading"

=============================================================================
