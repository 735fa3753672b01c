------------------------------ MODULE AppCore ------------------------------
(***************************************************************************)
(* The view model both user interfaces drive                               *)
(* (hyperwave-app-core/lib/app-core.js) and the engine at the other end of  *)
(* its seam.  Commands go down to the engine and messages come up from it,  *)
(* each in order, and the user acts on what the view model shows meanwhile. *)
(* Of the engine only what its messages tell is kept (Wave has the rest).   *)
(***************************************************************************)
EXTENDS FiniteSets, Naturals, Sequences, SequencesExt

CONSTANTS
  Wave,        \* the waves
  Tip,         \* the tips the user pays, each to a moment of its own
  Token,       \* the tips that come in
  NetOf,       \* the settlement network of each wave
  Network,     \* the networks
  MaxMsgs,     \* bound on the messages on their way up
  MaxCmds,     \* bound on the commands on their way down
  Lapsing,     \* bound: the waves whose lobby may time out, once each
  MaxBusy      \* bound on the waves met and the kinds of rare events in one behaviour

ASSUME AppCoreAssumption ==
  /\ NetOf \in [Wave -> Network] /\ "none" \notin Tip
  /\ MaxMsgs \in Nat \ {0} /\ MaxCmds \in Nat \ {0}
  /\ Lapsing \subseteq Wave /\ MaxBusy \in Nat

VARIABLES
  eng,       \* the engine's waves
  rare,      \* the waves whose lobby timed out, and the kinds of rare events that happened
  paying,    \* the tips whose payment is in progress
  fate,      \* what became of each token
  wallet,    \* is there a wallet (payments)?
  making,    \* the network of the wallet being made
  fees,      \* the commands that wait for the wallet's balance
  msgs,      \* messages from the engine to the view model
  cmds,      \* commands to the engine
  dir,       \* waves: the directory
  feeds,     \* waves with a cached feed
  linger,    \* expiryTimers
  fades,     \* waves whose fade is running
  dismissed, \* waves pushed away
  active,    \* activeWaveId
  net,       \* the settlement network of the wallet shown
  lastTip,   \* the tip remembered for its result
  astray,    \* auxiliary: waves on which a gap of the code opened (see CoresFreed)
  hurried    \* auxiliary: tips in flight at the same time as another

payVars == <<wallet, making, fees>>
engVars == <<eng, rare, paying, fate, payVars>>
coreVars == <<dir, feeds, linger, fades, dismissed, active, net, lastTip>>
auxVars == <<astray, hurried>>
vars == <<engVars, msgs, cmds, coreVars, auxVars>>

None == "none"

\* The engine's wave: sub is the entry of `subscriptions`, held is wave.subscribed.
NoWave == [phase |-> "none", mine |-> FALSE, sub |-> FALSE, held |-> FALSE, joined |-> FALSE]
NoEntry == [phase |-> "none", by |-> FALSE, mine |-> FALSE, sub |-> FALSE, joined |-> FALSE,
            fading |-> FALSE]

Known(w) == dir[w].phase # "none"
Live(w) == eng[w].phase \in {"lobby", "racing"}

Msg(ev, w) == [ev |-> ev, wave |-> w, mine |-> eng'[w].mine, sub |-> eng'[w].held,
               joined |-> eng'[w].joined]
Plain(ev, x) == [ev |-> ev, wave |-> x, mine |-> FALSE, sub |-> FALSE, joined |-> FALSE]

Emit(s) == msgs' = msgs \o s
Send(s) == cmds' = cmds \o s

\* Bounds on what the network and the user start.
Room == Len(msgs) < MaxMsgs
Idle == Len(cmds) < MaxCmds

\* A wave of mine that is about to start (its id is made when it does).
Starting(w) == Plain("start-wave", w) \in fees \cup Range(cmds)

\* Tips that are paid are one kind of rare events, tokens that come in and a wallet that is
\* made, at the start or for another mint, the other.
Kind == {"tip", "wallet"}
Busy == Cardinality({w \in Wave : eng[w] # NoWave \/ Starting(w)}) + Cardinality(rare \cap Kind)

Rare(kind) == /\ kind \in rare \/ Busy < MaxBusy
              /\ rare' = rare \cup {kind}

-----------------------------------------------------------------------------
\* The engine.

\* subscribe: nothing happens for a wave that `subscriptions` still has.
Subscribed(e) == IF e.sub THEN e ELSE [e EXCEPT !.sub = TRUE, !.held = TRUE]
Echo(w) == IF eng[w].sub THEN <<>>
           ELSE <<[Plain("subscribed", w) EXCEPT !.joined = eng[w].joined]>>

\* A wave of somebody else that the engine does not have: not met yet, or gone.
Unmet(w) == eng[w] = NoWave /\ ~Starting(w) /\ Busy < MaxBusy
Meets(w) == Unmet(w) \/ eng[w].phase = "gone"

\* Its seat is restored if one was kept, and the wave subscribed again with it.
Enters(w, phase) ==
  LET e == [eng[w] EXCEPT !.phase = phase]
  IN /\ eng' = [eng EXCEPT ![w] = IF e.joined THEN Subscribed(e) ELSE e]
     /\ astray' = IF e.joined /\ ~e.sub THEN astray \cup {w} ELSE astray

\* enterLobby: someone's wave, again after a lobby time-out.
Announced(w) ==
  /\ Room
  /\ Meets(w)
  /\ Enters(w, "lobby")
  /\ Emit((IF eng[w].joined THEN Echo(w) ELSE <<>>) \o <<Msg("wave-announce", w)>>)
  /\ UNCHANGED <<rare, paying, fate, payVars, cmds, coreVars, hurried>>

\* beginSweep, of a lobby or of a wave met by the sync of its race (enterLobby is silent then;
\* a start announces the wave it brings first).
Races(w) ==
  /\ Room
  /\ eng[w].phase = "lobby" \/ Meets(w)
  /\ Enters(w, "racing")
  /\ Emit((IF eng[w].joined THEN Echo(w) ELSE <<>>) \o <<Msg("wave-active", w)>>)
  /\ UNCHANGED <<rare, paying, fate, payVars, cmds, coreVars, hurried>>

\* goIdle: over, or after a lobby time-out gone until it comes back.  The subscription
\* outlives it.
GoIdle(w) ==
  /\ Room
  /\ Live(w)
  /\ \/ /\ eng' = [eng EXCEPT ![w].phase = "over", ![w].held = FALSE, ![w].joined = FALSE]
        /\ UNCHANGED rare
     \/ /\ eng[w].phase = "lobby" /\ ~eng[w].mine
        /\ w \in Lapsing \ rare
        /\ rare' = rare \cup {w}
        /\ eng' = [eng EXCEPT ![w].phase = "gone", ![w].held = FALSE]
  /\ Emit(<<Msg("wave-idle", w)>>)
  /\ UNCHANGED <<paying, fate, payVars, cmds, coreVars, auxVars>>

\* A feed view of a wave it holds the cores of.
FeedShown(w) ==
  /\ Room
  /\ eng[w].sub
  /\ w \notin feeds
  /\ Emit(<<Plain("feed", w)>>)
  /\ UNCHANGED <<engVars, cmds, coreVars, auxVars>>

\* A tip arrives as a directed note of any wave.
DmArrives(k) ==
  /\ Room
  /\ fate[k] = "none"
  /\ \A i \in DOMAIN msgs : msgs[i].wave # k
  /\ \A i \in DOMAIN cmds : cmds[i].wave # k
  /\ Rare("wallet")
  /\ Emit(<<Plain("dm", k)>>)
  /\ UNCHANGED <<eng, paying, fate, payVars, cmds, coreVars, auxVars>>

\* The wallet has paid a tip, or failed to.
TipPaid(t) ==
  /\ Room
  /\ t \in paying
  /\ paying' = paying \ {t}
  /\ \E ev \in {"tip-result", "tip-failed"} : Emit(<<Plain(ev, t)>>)
  /\ UNCHANGED <<eng, rare, fate, payVars, cmds, coreVars, auxVars>>

\* activateWallet: the wallet is made, or cannot be (and there is none).
WalletMade ==
  /\ Room
  /\ making # None
  /\ making' = None
  /\ \/ /\ wallet' = TRUE
        /\ Emit(<<Plain("wallet", making)>>)
     \/ UNCHANGED <<wallet, msgs>>
  /\ UNCHANGED <<eng, rare, paying, fate, fees, cmds, coreVars, auxVars>>

\* handleRedeem: the wallet swaps a token or refuses it, and with no wallet it is dropped.
Redeems(k) == IF wallet THEN {"redeemed", "refused"} ELSE {"dropped"}

\* Nothing the view model hears of: no such wave, a wallet without funds (burn-result) or a
\* join that is blocked (join-blocked).
Refuses == UNCHANGED <<eng, paying, fate, wallet, making, msgs>>

\* The effect of a command, once the wallet was asked if it has to be.
Does(c) ==
  LET w == c.wave IN
  CASE c.ev = "subscribe-wave" /\ Live(w) ->
         /\ eng' = [eng EXCEPT ![w] = Subscribed(@)]
         /\ Emit(Echo(w))
         /\ UNCHANGED <<paying, fate, wallet, making>>
    [] c.ev = "unsubscribe-wave" /\ eng[w].sub ->
         /\ eng' = [eng EXCEPT ![w].sub = FALSE, ![w].held = FALSE,
                               ![w].joined = @ /\ ~Live(w)]
         /\ Emit(<<Msg("unsubscribed", w)>>)
         /\ UNCHANGED <<paying, fate, wallet, making>>
    [] c.ev = "join-wave" /\ eng[w].phase = "lobby" /\ ~eng[w].joined ->
         /\ eng' = [eng EXCEPT ![w] = [Subscribed(@) EXCEPT !.joined = TRUE]]
         /\ Emit(Echo(w) \o <<Msg("joined", w)>>)
         /\ UNCHANGED <<paying, fate, wallet, making>>
    [] c.ev = "start-wave" /\ eng[w] = NoWave ->
         /\ eng' = [eng EXCEPT ![w] = [phase |-> "lobby", mine |-> TRUE, sub |-> TRUE,
                                       held |-> TRUE, joined |-> TRUE]]
         /\ Emit(<<Msg("wave-announce", w)>>)
         /\ UNCHANGED <<paying, fate, wallet, making>>
    [] c.ev = "tip" /\ wallet ->
         /\ paying' = paying \cup {w}
         /\ UNCHANGED <<eng, fate, wallet, making, msgs>>
    [] c.ev = "tip" /\ ~wallet ->
         /\ Emit(<<Plain("tip-failed", w)>>)
         /\ UNCHANGED <<eng, paying, fate, wallet, making>>
    [] c.ev = "redeem" ->
         /\ \E f \in Redeems(w) : fate' = [fate EXCEPT ![w] = f]
         /\ UNCHANGED <<eng, paying, wallet, making, msgs>>
    [] c.ev = "set-wallet-options" ->
         /\ wallet' = FALSE /\ making' = w
         /\ UNCHANGED <<eng, paying, fate, msgs>>
    [] OTHER -> Refuses

\* handleStartWave and handleJoin ask the wallet, if there is one, before anything else.
Fee == {"start-wave", "join-wave"}

\* exec: a command is carried out, or waits for the wallet.
Exec ==
  /\ Room
  /\ cmds # <<>>
  /\ cmds' = Tail(cmds)
  /\ LET c == Head(cmds)
     IN IF c.ev \in Fee /\ wallet
        THEN /\ fees' = fees \cup {c}
             /\ Refuses
             /\ UNCHANGED astray
        ELSE /\ Does(c) \/ (c.ev = "join-wave" /\ Refuses)
             /\ astray' = IF c.ev = "subscribe-wave" /\ eng[c.wave].phase = "gone"
                          THEN astray \cup {c.wave} ELSE astray
             /\ UNCHANGED fees
  /\ UNCHANGED <<rare, coreVars, hurried>>

\* fundedForFee has read the balance (or the wallet is gone): the command is refused, or
\* carried out on the wave as it is now.
FundsRead(c) ==
  /\ Room
  /\ c \in fees
  /\ fees' = fees \ {c}
  /\ Does(c) \/ Refuses
  /\ astray' = IF c.ev = "join-wave" /\ eng[c.wave].sub # eng'[c.wave].sub
               THEN astray \cup {c.wave} ELSE astray
  /\ UNCHANGED <<rare, cmds, coreVars, hurried>>

-----------------------------------------------------------------------------
\* The view model.

\* Bug: only the cores of my own waves are freed.
BugFrees(S, d) == SetToSeq({Plain("unsubscribe-wave", w) : w \in {x \in S : d[x].mine}})

\* removeWave, of the waves S of a directory d: their cores are freed, all else forgotten.
Frees(S, d) == SetToSeq({Plain("unsubscribe-wave", w) : w \in {x \in S : d[x].sub}})

Drop(S, d) ==
  /\ Send(Frees(S, d))
  /\ dir' = [w \in Wave |-> IF w \in S THEN NoEntry ELSE d[w]]
  /\ feeds' = feeds \ S
  /\ linger' = linger \ S

\* Bug: an idle wave is given a phase the directory does not know.
BugPatch(m, e) ==
  CASE m.ev = "wave-announce" -> [e EXCEPT !.phase = "lobby", !.by = TRUE, !.mine = m.mine,
                                           !.sub = m.sub, !.joined = m.joined]
    [] m.ev = "wave-idle"     -> [e EXCEPT !.phase = "over"]
    [] OTHER                  -> e

\* DIRECTORY_PATCH.
Patch(m, e) ==
  CASE m.ev = "wave-announce" -> [e EXCEPT !.phase = "lobby", !.by = TRUE, !.mine = m.mine,
                                           !.sub = m.sub, !.joined = m.joined]
    [] m.ev = "subscribed"    -> [e EXCEPT !.sub = TRUE, !.joined = m.joined]
    [] m.ev = "unsubscribed"  -> [e EXCEPT !.sub = FALSE, !.joined = FALSE]
    [] m.ev = "joined"        -> [e EXCEPT !.joined = TRUE]
    [] m.ev = "wave-active"   -> [e EXCEPT !.phase = "racing", !.joined = m.joined]
    [] m.ev = "wave-idle"     -> [e EXCEPT !.phase = "ended"]

\* updateDirectory: an event changes a wave it knows, and only an announce adds one.
Updated(m) ==
  IF m.ev = "wave-announce" \/ Known(m.wave)
  THEN [dir EXCEPT ![m.wave] = Patch(m, @)] ELSE dir

\* maybeAutoSelect: a wave of mine is engaged and supersedes those I started before.
Prior(m, d) == IF m.ev = "wave-announce" /\ m.mine
               THEN {w \in Wave : d[w].mine /\ w # m.wave} ELSE {}

\* handleEvent: nothing of a dismissed wave.
HandleEvent(m) ==
  IF m.wave \in dismissed THEN UNCHANGED <<cmds, coreVars, auxVars>>
  ELSE LET d == Updated(m)
           prior == Prior(m, d)
       IN /\ Send(Frees(prior, d))
          /\ dir' = [w \in Wave |-> IF w \in prior THEN NoEntry ELSE d[w]]
          /\ feeds' = feeds \ prior
          /\ linger' = (linger \cup (IF m.ev = "wave-idle" /\ Known(m.wave)
                                     THEN {m.wave} ELSE {})) \ prior
          /\ active' = IF m.ev = "wave-announce" /\ m.mine THEN m.wave ELSE active
          /\ astray' = IF dir[m.wave].sub /\ ~d[m.wave].sub
                       THEN astray \cup {m.wave} ELSE astray
          /\ UNCHANGED <<fades, dismissed, net, lastTip, hurried>>

\* Bug: a token is redeemed only while a wave is open.
BugHandleDm(m) ==
  /\ IF active = None THEN UNCHANGED cmds ELSE Send(<<Plain("redeem", m.wave)>>)
  /\ UNCHANGED <<coreVars, auxVars>>

\* handleDirectedNote: a token is redeemed whatever wave it came with.
HandleDm(m) ==
  /\ Send(<<Plain("redeem", m.wave)>>)
  /\ UNCHANGED <<coreVars, auxVars>>

HandleFeed(m) ==
  /\ feeds' = IF m.wave \in dismissed THEN feeds ELSE feeds \cup {m.wave}
  /\ UNCHANGED <<cmds, dir, linger, fades, dismissed, active, net, lastTip, auxVars>>

\* handleWallet: the active wave is left when the wallet moves to another network.
HandleWallet(m) ==
  /\ net' = m.wave
  /\ active' = IF active # None /\ ~dir[active].mine /\ NetOf[active] # net' /\ net' # net
               THEN None ELSE active
  /\ UNCHANGED <<cmds, dir, feeds, linger, fades, dismissed, lastTip, auxVars>>

\* A token goes, privately, to the author of a moment.
Delivery(t, author) == Plain("dm", <<t, author>>)

\* Bug: the token is sent only if the wave of the moment is still shown.
BugHandleTip(m) ==
  /\ lastTip' = None
  /\ hurried' = hurried \ {m.wave}
  /\ Send(IF m.ev = "tip-result" /\ lastTip # None /\ active # None
          THEN <<Delivery(m.wave, lastTip)>> ELSE <<>>)
  /\ UNCHANGED <<dir, feeds, linger, fades, dismissed, active, net, astray>>

\* handleTipResult: the token goes to the author of the moment remembered.
HandleTip(m) ==
  /\ lastTip' = None
  /\ hurried' = hurried \ {m.wave}
  /\ Send(IF m.ev = "tip-result" /\ lastTip # None
          THEN <<Delivery(m.wave, lastTip)>> ELSE <<>>)
  /\ UNCHANGED <<dir, feeds, linger, fades, dismissed, active, net, astray>>

Handle ==
  /\ msgs # <<>>
  /\ msgs' = Tail(msgs)
  /\ LET m == Head(msgs)
     IN CASE m.ev = "dm"     -> HandleDm(m)
          [] m.ev = "feed"   -> HandleFeed(m)
          [] m.ev = "wallet" -> HandleWallet(m)
          [] m.ev \in {"tip-result", "tip-failed"} -> HandleTip(m)
          [] OTHER           -> HandleEvent(m)
  /\ UNCHANGED engVars

\* Bug: a fading wave is marked and its drop never scheduled.
BugLingerEnds(w) ==
  /\ w \in linger
  /\ linger' = linger \ {w}
  /\ dir' = [dir EXCEPT ![w].fading = TRUE]
  /\ UNCHANGED <<engVars, msgs, cmds, feeds, fades, dismissed, active, net, lastTip, auxVars>>

\* scheduleWaveExpiry: the time an ended wave lingers is over, and it fades.
LingerEnds(w) ==
  /\ w \in linger
  /\ linger' = linger \ {w}
  /\ dir' = [dir EXCEPT ![w].fading = TRUE]
  /\ fades' = fades \cup {w}
  /\ UNCHANGED <<engVars, msgs, cmds, feeds, dismissed, active, net, lastTip, auxVars>>

\* fadeOutWave: it has faded, and is dropped.
FadeEnds(w) ==
  /\ w \in fades
  /\ fades' = fades \ {w}
  /\ Drop({w}, dir)
  /\ active' = IF active = w THEN None ELSE active
  /\ UNCHANGED <<engVars, msgs, dismissed, net, lastTip, auxVars>>

-----------------------------------------------------------------------------
\* The user, who sees the waves of the wallet's network.

\* visibleWaves: the waves with a ring to click.
visible == {w \in Wave : Known(w) /\ (dir[w].mine \/ NetOf[w] = net)}

selectWave(w) ==
  /\ Idle
  /\ w \in visible \ {active}
  /\ active' = w
  /\ Send(IF dir[w].sub THEN <<>> ELSE <<Plain("subscribe-wave", w)>>)
  /\ dir' = [dir EXCEPT ![w].sub = TRUE]
  /\ UNCHANGED <<engVars, msgs, feeds, linger, fades, dismissed, net, lastTip, auxVars>>

dismissWave(w) ==
  /\ Idle
  /\ Known(w)
  /\ dismissed' = dismissed \cup {w}
  /\ Drop({w}, dir)
  /\ active' = IF active = w THEN None ELSE active
  /\ UNCHANGED <<engVars, msgs, fades, net, lastTip, auxVars>>

startWave(w) ==
  /\ Idle
  /\ Unmet(w)
  /\ Send(<<Plain("start-wave", w)>>)
  /\ UNCHANGED <<engVars, msgs, coreVars, auxVars>>

joinWave ==
  /\ Idle
  /\ active # None /\ dir[active].phase = "lobby" /\ ~dir[active].joined
  /\ Send(<<Plain("join-wave", active)>>)
  /\ UNCHANGED <<engVars, msgs, coreVars, auxVars>>

\* The tips paid for whose result the view model has not heard.
inFlight ==
  {t \in Tip : \/ t \in paying
              \/ (\E i \in DOMAIN msgs : msgs[i].wave = t)
              \/ (\E i \in DOMAIN cmds : cmds[i].wave = t)}

tip(t) ==
  /\ Idle
  /\ active \in feeds
  /\ t \notin inFlight
  /\ Rare("tip")
  /\ lastTip' = t
  /\ hurried' = IF inFlight = {} THEN hurried ELSE hurried \cup inFlight \cup {t}
  /\ Send(<<Plain("tip", t)>>)
  /\ UNCHANGED <<eng, paying, fate, payVars, msgs, dir, feeds, linger, fades, dismissed, active,
                 net, astray>>

setMint(n) ==
  /\ Idle
  /\ n # net
  /\ Rare("wallet")
  /\ Send(<<Plain("set-wallet-options", n)>>)
  /\ UNCHANGED <<eng, paying, fate, payVars, msgs, coreVars, auxVars>>

-----------------------------------------------------------------------------
Init ==
  /\ eng = [w \in Wave |-> NoWave]
  /\ paying = {} /\ fees = {}
  /\ fate = [k \in Token |-> "none"]
  /\ msgs = <<>> /\ cmds = <<>>
  /\ dir = [w \in Wave |-> NoEntry]
  /\ feeds = {} /\ linger = {} /\ fades = {} /\ dismissed = {}
  /\ active = None /\ lastTip = None
  /\ net \in {NetOf[w] : w \in Wave}
  /\ \/ wallet = TRUE /\ making = None /\ rare = {}
     \/ wallet = FALSE /\ making = net /\ rare = {"wallet"}
  /\ astray = {} /\ hurried = {}

Engine ==
  \/ \E w \in Wave : Announced(w) \/ Races(w) \/ GoIdle(w) \/ FeedShown(w)
  \/ \E k \in Token : DmArrives(k)
  \/ \E t \in Tip : TipPaid(t)
  \/ WalletMade
  \/ Exec
  \/ \E c \in fees : FundsRead(c)

User ==
  \/ \E w \in Wave : selectWave(w) \/ dismissWave(w) \/ startWave(w)
  \/ joinWave
  \/ \E t \in Tip : tip(t)
  \/ \E n \in Network : setMint(n)

Next ==
  \/ Engine
  \/ User
  \/ Handle
  \/ \E w \in Wave : LingerEnds(w) \/ FadeEnds(w)

Spec == Init /\ [][Next]_vars

\* Commands and messages are delivered, and timers fire.  (A command waits only for Room, a
\* bound of this model that the network can exhaust again and again: hence SF.)
FairSpec ==
  /\ Spec
  /\ WF_vars(Handle) /\ SF_vars(Exec)
  /\ \A w \in Wave : WF_vars(LingerEnds(w)) /\ WF_vars(FadeEnds(w))

-----------------------------------------------------------------------------
EngineWave == [phase : {"none", "lobby", "racing", "gone", "over"}, mine : BOOLEAN,
               sub : BOOLEAN, held : BOOLEAN, joined : BOOLEAN]
Entry == [phase : {"none", "lobby", "racing", "ended"}, by : BOOLEAN, mine : BOOLEAN,
          sub : BOOLEAN, joined : BOOLEAN, fading : BOOLEAN]

WaveEvent == {"wave-announce", "subscribed", "unsubscribed", "joined", "wave-active", "wave-idle"}
Fate == {"none", "redeemed", "refused", "dropped"}
WaveCommand == {"subscribe-wave", "unsubscribe-wave", "join-wave", "start-wave"}

\* Messages and commands: what each kind is about.
Frame(evs, about) == [ev : evs, wave : about, mine : BOOLEAN, sub : BOOLEAN, joined : BOOLEAN]

Report == Frame(WaveEvent \cup {"feed"}, Wave) \cup Frame({"dm"}, Token) \cup
          Frame({"tip-result", "tip-failed"}, Tip) \cup Frame({"wallet"}, Network)
Order == Frame(WaveCommand, Wave) \cup Frame({"redeem"}, Token) \cup Frame({"tip"}, Tip) \cup
         Frame({"dm"}, Tip \X Tip) \cup Frame({"set-wallet-options"}, Network)

\* Type correctness of every variable.
TypeOK ==
  /\ eng \in [Wave -> EngineWave]
  /\ rare \in SUBSET (Lapsing \cup Kind)
  /\ paying \in SUBSET Tip /\ fate \in [Token -> Fate]
  /\ wallet \in BOOLEAN /\ making \in Network \cup {None}
  /\ fees \in SUBSET Frame(Fee, Wave)
  /\ msgs \in Seq(Report) /\ cmds \in Seq(Order)
  /\ dir \in [Wave -> Entry]
  /\ feeds \in SUBSET Wave /\ linger \in SUBSET Wave
  /\ fades \in SUBSET Wave /\ dismissed \in SUBSET Wave
  /\ active \in Wave \cup {None} /\ net \in Network
  /\ lastTip \in Tip \cup {None}
  /\ astray \in SUBSET Wave /\ hurried \in SUBSET Tip

\* Invariants 1 and 6 of app-core.js, with what they are for: every wave shown was announced
\* and was not pushed away, nothing of a dismissed wave is kept, the active wave is shown,
\* and at most one of the waves shown is mine.
DirectoryKnown ==
  /\ \A w \in Wave : Known(w) => dir[w].by /\ w \notin dismissed
  /\ feeds \cap dismissed = {}
  /\ active # None => Known(active)
  /\ Cardinality({w \in Wave : dir[w].mine}) <= 1

Settled(w) ==
  /\ \A i \in DOMAIN msgs : msgs[i].wave # w
  /\ \A i \in DOMAIN cmds : cmds[i].wave # w

\* What the directory shows of a live wave is its phase, with my seat if I have one, and a
\* wave shown as ended is not running.
ShownAsItIs ==
  \A w \in Wave : Known(w) /\ Settled(w) =>
    IF dir[w].phase = "ended" THEN ~Live(w)
    ELSE eng[w].phase = dir[w].phase /\ eng[w].joined = dir[w].joined

\* Invariant 5: the engine holds a wave's cores only if it is shown as subscribed, whether it
\* was dropped, dismissed or superseded, and a live wave shown as subscribed is subscribed.
\* Four gaps of the code break it, and a wave is astray from the step that opens one:
\*   - an announce of a wave that is back unsets the subscription shown (HandleEvent);
\*   - a subscribe reaches the engine while the wave is gone, and is lost (Exec);
\*   - a wave given up while it was gone comes back with its seat (Enters);
\*   - a join that waited for the wallet takes up again a wave given up meanwhile (FundsRead).
CoresFreed ==
  \A w \in Wave \ astray : Settled(w) =>
    /\ eng[w].sub => dir[w].sub
    /\ Live(w) /\ dir[w].sub => eng[w].sub

\* The directory is sound: every wave it shows was announced and not pushed away, and once
\* nothing about a wave is on its way, in either direction, the view model and the engine agree
\* on its phase, my seat and the cores held, whatever crossed before.
DirectoryAgrees == DirectoryKnown /\ ShownAsItIs /\ CoresFreed

\* An ended wave leaves the directory, unless it comes back to life (the linger and fade
\* timers of app-core.js).
EndedDropped == \A w \in Wave : dir[w].phase = "ended" ~> dir[w].phase # "ended"

\* A token that came in is handed to the engine's wallet, even of a wave dismissed or left:
\* redeemed or refused by the wallet, and dropped only if there was none (app-core.js's
\* invariant 2 is stronger: see the README).
TokensRedeemed ==
  \A k \in Token : (\E i \in DOMAIN msgs : msgs[i] = Plain("dm", k)) ~> fate[k] # "none"

\* The token of a tip that was paid while no other was in flight is sent, to the author of the
\* moment that was tipped, wherever the user went meanwhile (tip and handleTipResult remember
\* one tip).
TipsReachAuthor ==
  [][\A t \in Tip \ hurried :
       msgs # <<>> /\ Head(msgs) = Plain("tip-result", t) /\ msgs' = Tail(msgs)
         => cmds' = Append(cmds, Delivery(t, t))]_vars

=============================================================================
