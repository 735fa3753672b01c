# HyperWave, specified

A TLA+ model of HyperWave: peers on a ring find each other over a swarm, one of them
starts a wave, others join its lobby, a deterministic sweep gives each participant a
moment, and every participant's entry is a block in a core of its own that everybody
replicates. The modules describe `packages/hyperwave-engine/lib`, where all of the
protocol's logic is; paths below are relative to that directory unless they begin with
`packages/`, `workers/` or another top-level directory.

    tlc -workers 2 -config wave_roster.cfg MCWave.tla      model-check a run
    tlapm WaveProofs.tla                                   check a module of proofs

`PROJECT.json` lists the runs, the lines each definition models, the hazards and the
mutants (definitions named `Bug...`, which no specification uses: each is a slip in the
code that one of the properties must notice).


## 1. The system

| part | state | operations | who it talks to |
|---|---|---|---|
| wave orchestrator, `wave.js` | per wave: phase, joined, subscribed, writers, join attestation, paid status, timers; across waves: `subscriptions`, `rosters`, `abandonedJoins`, `endedWaves` | startWave, subscribe, unsubscribe, join, stageEntry, recordBurn, announcePaid, setWallet, switchTopic, close; handlers of every gossip kind; lobby, slot, end, pay and tick timers | the swarm (channels), CrdtFeed and EntryPipeline (calls), the engine façade (events) |
| gossip scoping, `wave.js`, `flood.js` | `neighborSubs` per connection, ids already flooded | floodDir / floodWave, relayDir / relayWave, subs, sync on mutual subscription, greeting | neighbours |
| roster and sweep, `sweep.js`, `ring.js` | none: pure functions of the frozen roster, t0 and lap | sweepSchedule, mySlot | called by the orchestrator |
| entry pipeline, `entry.js` | staged payload, slot, posted, burn ticket | stage, recordSlot, setBurnProof | calls CrdtFeed.postEntry |
| CRDT feed, `feed-crdt.js`, `feed.js` | per wave: own core, foreign cores, posted, pending | open, addWriter, postEntry, tick, closeWave, view reads and their merge | storage, the host (views) |
| paid gate, `wave.js`, `payments.js`, `attest.js` | `paid` per wave, start proof, verification retries | announcePaid, verifyStartProof, validStartProof, recordBurn | wallets |
| messages, `messages.js` | none | makers, validators | every handler |
| transport, `wave.js`, `peer-table.js`, `rate-limiter.js` | connections by peer, token buckets, notes queued per dial | onConnection, sendDirect, dialForDm, switchTopic, close | swarm |
| engine façade, `engine.js` | the active wallet, activation sequence number, balance ticker | activateWallet, fee flows, tips, mint operations, set-topic, close | wallets, orchestrator, hosts |
| rpc seam, `rpc.js` | pending requests | serveEngine, createRpcClient | a host on one side, a UI on the other |
| Cashu wallet, `packages/hyperwave-wallet-cashu` | proofs per mint in a file-backed store | fund, send, receive, burn, payInvoice, consolidate, verifyBurnTx | mints |
| Tron wallets, `packages/hyperwave-wallet-tron` | none worth a model | pay, confirm, verifyBurnTx | a chain node |
| app core, `packages/hyperwave-app-core` | directory of waves, cached feeds, active wave, tip in flight, linger and fade timers | reducer of engine messages; select, dismiss, start, join, tip | engine (through the seam), user interfaces |
| seed custody, `electron/main.js`, `mobile/src/custody.js`, and the seed files of the packages | keychain blobs, plaintext files | resolve at start, adopt, remove | OS keychain, engine |
| hosts: `workers/hyperwave.js`, `worklet/app.js`, Electron main, CLI | topic policy, the remembered mint | bootstrap, teardown, restart | engine, UI |
| desktop panels, `renderer/` | lobby panel, camera, gallery, top-up invoice | open, capture, stage, close; top up, pick a mint | app core, engine |
| phone screens, drawing, scripts | rendering | | |

What is hard here. Every peer is one event loop, so handlers are atomic, but

* a wave's messages reach a peer in any order over different paths: a sync can overtake
  the announce, a join the lobby it belongs to, a start the joins it summarises;
* a peer's fallback timer may give a lobby up just before the start arrives, so a wave can
  leave and come back (`REVIVABLE_IDLE_REASONS`), while its subscription, its feed and the
  memo of its join live on separate clocks;
* opening a core, reading a view, confirming a burn and switching a topic are awaited, and
  the wave, the feed, the wallet or the topic may be another one afterwards;
* frames are lost with the connection they were on, and nothing is retransmitted: peers
  catch up by a greeting and a sync;
* nobody announces the end of a wave: every peer must get back to idle by itself;
* wallets are replaced live, while balance reads, fee flows and verifications that began
  with the old one are still waiting for an answer;
* a Cashu operation reads its proofs, awaits a mint and overwrites the store, on a file that
  a second wallet may be writing too;
* between the engine and what the user sees there are two queues that cross: commands down,
  messages up.

What makes each part correct:

* orchestrator: whoever is seated gets its moment; peers that race from the start walk one
  schedule; a finished wave stays finished; every wave goes back to idle;
* scoping: control frames of a wave reach subscribers only, and each end's record of what
  the other subscribed to is right once its frames are handled;
* feed: participants hold their own core, subscribers every core they know of (but for those
  learnt in a lobby they came back to, section 2); an entry that was let go lands, with the
  ticket that was paid for it; what is shown converges to what is held, in one order for
  everybody;
* paid gate: no gated wave is announced without its burn, nobody pays to join a wave whose
  own burn is not real, a fee is asked once per seat;
* transport: notes arrive in the order written, once; a queued note always has a dial;
  whoever stays connected learns every live wave;
* wallets: the last activation wins and every other wallet is disposed; the store keeps what
  the mints owe;
* app core: what is shown agrees with the engine once nothing is on its way; a dropped wave's
  cores are freed, but for four crossings in which they are not (section 2); ended waves leave;
  received money is handed to the wallet, if there is one; a tip goes to the author it was
  meant for, if it is paid alone;
* shell: the seeds come back at every start, and the chosen mint with them;
* panels: who has a seat is asked for a moment and it is staged before the sweep needs it, but
  on three paths that lose it (section 2).


## 2. Modules

| module | models | uses |
|---|---|---|
| Lifecycle | what a wave promises (abstract) | |
| Wave | one wave on every peer of a mesh | implements Lifecycle |
| Sweep | seats, lap and slots (operators) | |
| FeedMerge | what of the blocks read is shown, and in which order (operators) | |
| EntryFeed | one peer's entry and feed in one wave | Sweep, FeedMerge |
| WalletSlot | the slot of the wallet in use (abstract) | |
| BurnCheck | what a burn proof and a wallet's verdict say (operators) | |
| PaidGate | the fees of one peer | WalletSlot, BurnCheck |
| Engine | wallet activation, polls, commands, rpc seam, topic policy | implements WalletSlot |
| Transport | connections, flood, limiters, directed notes, topic switch | |
| CashuWallet | the Cashu wallet, its store, the mints | |
| AppCore | the view model and the engine at the other end | |
| Custody | the seeds of an installation | |
| Shell | starts, mint file, wallet panel | Custody |
| Capture | lobby, camera and gallery panels of the desktop | |
| WaveProofs | theorems about Wave: types and feeds; what peers tell each other (section 5) | Wave, Lifecycle |
| EntryFeedProofs, PaidGateProofs, TransportProofs, AppCoreProofs, CaptureProofs | theorems about the module each is named for | |
| WalletProofs | theorems about Engine's wallet switch and about CashuWallet | Engine, WalletSlot, CashuWallet |
| ShellProofs | theorems about Shell and the Custody under it | Shell |
| MC... | instances for TLC | |

Two joints between modules deserve a word. WalletSlot says what everything that uses a
wallet may see of a switch: the slot is emptied at once and filled later, by the newest
activation only. PaidGate runs its fee flows over that slot, and Engine is checked and proved to
implement it (`WalletIsSlot`), so PaidGate stands on what Engine does. Shell extends Custody:
the wallet it reports about exists only once Custody has its seed.

### Lifecycle

The abstract specification of a wave: each peer is unaware, in a lobby, racing or done, and
while it races it has seats that do not change. A lobby can be given up and taken up again;
a finished wave never comes back; a race begins with a roster somebody froze.

### Wave

One wave on every peer of a mesh; waves do not interact (each is an entry of `waves` of its
own), so one stands for all. `peer[p]` holds the WaveState (dropped by `goIdle`) and what
outlives it; `nbr[p][q]` is `neighborSubs`; `chan[p][q]` is the FIFO channel from p to q;
`frozen` remembers the roster the initiator started with, and `kept`, in the record of a peer, the
participants known to the WaveState that its feed outlived.

| action | code |
|---|---|
| StartWave | startWave, doAnnounce |
| Subscribe, Join, Unsubscribe | the API calls of these names, with joinWaveTransport / leaveWaveTransport |
| FeedCoreReady | the continuation of floodMyFeedCore |
| FinalizeAndStart | finalizeAndStart, with the chance that the initiator's key is not readable yet |
| LobbyTimeout, SlotFires, FinishWave | the timers of enterLobby, armSweepTimers, beginSweep |
| RecvSubs ... RecvStart | handleGossip and the handler it routes to, with dedup and relay |
| Connect, Disconnect | onConnection and the close handler |

The handlers are composed of functions on a peer's record that have the names of the code's
own functions (EnterLobby, HoldFeed for subscribe, IngestWriters, BeginSweep, GoIdle), in
the order the code calls them. Abstracted: the wallet-less path (every wave is `verified`);
time (timers fire in any order the program allows: the slot before the end); signatures and
shape checks (all frames come from peers that run this code); MAX_ROSTER, which small
meshes do not reach; both ends of a connection see it open or close in one step. Of wave-note,
which is not modelled, the gate it passes is: `roster` is the entry of `rosters`.

A lobby time-out drops the WaveState and keeps what is on other clocks, and in three places what
comes back is not what was left:

* A revived lobby of a peer whose subscription outlived the time-out is never marked
  subscribed: `subscribe` returns at wave.js:1442 before it would be. `ingestWriter` opens cores
  for a wave so marked only, so participants learnt in the revived lobby get their seats while
  their cores stay closed on this peer, which does not see their entries. The comments say
  otherwise: a late adopter "still learns every participant's feed core" (wave.js:820-821), a
  restored join is a subscription (wave.js:1403-1405). `CoresHeld` says exactly which cores are held.
* `unsubscribe` drops the note gate of the wave while the WaveState keeps its writers, so who
  subscribes again in the same lobby hears no wave-note of the participants it knew.
* The memo of an abandoned join survives `unsubscribe`. A peer whose lobby timed out, and that
  then left the wave, is joined again when the late announce or start revives it: it
  takes part in a wave its user has left.

### EntryFeed, Sweep, FeedMerge

One peer and one wave, from the inside: `eng` is the WaveState with its pipeline, the
WaveCores, the memo, the core and the calls that await it; `reads` are the view reads in
progress. The rest of the mesh is the environment. Where Wave has one bit for "the core is
open", this module has a feed that may be closed and opened again while its readiness, its
posts and its reads are under way: `gen` numbers the feeds, the way the code compares object
identity, and `posts[g]` are the entries, with the proofs captured for them, that wait for the core
of feed g to be ready.

| action | code |
|---|---|
| StartWave, Subscribe, Join, Unsubscribe, Stage | the API calls |
| Adopt, RaceStarts, LearnWriter | handleWaveAnnounce / sync, handleWaveStart, ingestWriter with addWriter |
| CoreReady | own.ready() resolving: everything awaiting that feed goes on at once, since these continuations run before the next event |
| FinalizeAndStart, LobbyTimeout, SlotFires, FinishWave | the timers |
| BurnConfirmed | recordBurn of a join fee, which is dropped for a wave that is gone |
| Tick | tick: retry a held entry, repaint |
| Replicate, ReadOn | block 0 arriving; `#emitView` core by core, and its identity check at the end |

A read that completes is merged by FeedMerge: operations whose join attestation verifies, the
newest per peer, by hop and then time, the address kept only if the payer of the burn backs
it. Hops are ranks of Sweep, so a feed is in the order of the sweep. The instance has two
keys that share an angle (`Arc`).

Two things the code says and does differently are not properties here. The comment at
feed.js:107-112 promises byte-identical feeds; two entries with the same hop and the same
timestamp stay in the order they were read (`Turn`), so the instance gives them different
timestamps. And the address of an entry is read when it is appended, while the burn's payer
was fixed when it was paid: after a wallet switch in between the entry cannot be tipped.

### PaidGate, BurnCheck, WalletSlot

The start-wave and join-wave commands await by await, and the gate of `wave.js` they meet. A
peer has waves of its own, one per command, and one wave of somebody else, whose start burn
is one of `Starts`. BurnCheck says what each kind of wallet may answer about a burn; an
answer may be `transient` wherever the code says so.

| action | code |
|---|---|
| Command, Funded, BurnDone, Confirmed | handleStartWave / handleJoin at fundedForFee, payFee, recordBurn, confirmBurn |
| PayTimeout | PAY_TIMEOUT_MS of startWave |
| Adopt, Sync, Races, LobbyTimeout, RaceEnds, Unsubscribe, SwitchTopic | what becomes of the other wave |
| AskAnswered, BackoffEnds | verifyStartProof and its retries, each by the verifier of the moment |
| Ask, Fill (WalletSlot) | a switch of the wallet |

What follows from the code as it is, and is in the model: fundedForFee reads `payments.fee`
again after its await and throws if the wallet is being switched (`lost`); a confirmed burn is
not announced if the wallet was switched away; a join during a switch takes a seat without a
fee; a wave adopted before the gate was on stays joinable.

### Engine

Each `activateWallet` call is a number; `wal` holds the engine's wallet fields, `chain` the
balance poll each activation armed (there can be two at a time), `reads` balance reads nobody
awaits, `flows` the commands in progress and whether the seam still owes a reply, `host` the
topic policy of the worker with the switches in progress.

### Transport

Peers whose connections come and go, frames in order per direction, an announce flooded with
dedup and relays, the per-author limiter (`budget`), the per-connection limiter as a frame
that may be dropped (`Throttle`), the dedup set that forgets the oldest id at `FloodCap`, a DM queue per
pair with its dial and the timers that were armed for it, switchTopic cut in two at its
await, and close, which may come while a switch waits. A connection that a switch of topic cuts is
gone at both ends in that step, although `conn.destroy` completes later and the other end hears of
it in its own time: frames on the way then are lost, as with any connection. `used` counts what the
bounds allow and remembers who lost a frame to a limiter: the properties excuse nobody else.

### CashuWallet

Money is a set of coins worth one each; a mint knows which are live, spent or locked in a
token. An operation is cut where the code awaits a mint: read the store, ask, answer (or
refuse, or answer and have the reply lost), write. `home` has two wallets, the one in use and
the one it replaced, with a store in memory each and one `file`. `risk` is a ghost: coins that
a lost reply, a restart or a write over somebody else's change may have cost. `FileMatchesBooks`
is exact outside of it, and `risk` grows only in those three windows.

### AppCore

`eng` is what the engine's messages tell of each wave, `wallet`, `making`, `paying` and `fate` what
matters here of its wallet (is there one, which is being made, the tips it is paying, what became
of each token that came in), `msgs` and `cmds` the two queues; the rest is the view model's own state.
A command is executed when it gets there, on the wave as it is by then. A start or a join waits in
`fees` while `fundedForFee` reads the balance, anything may happen meanwhile, and it may be refused
in the end; the engine's other awaits are those of its wallet.

Invariant 5 of app-core.js says that every drop path frees the wave's cores. In four crossings they stay
held, or are shown and not held; a wave is `astray` from the step that opens one:

* the announce of a wave that timed out and came back carries the new WaveState's `subscribed`, which
  is false, and unsets the subscription shown while the engine still has it: a dismissal then
  frees nothing (HandleEvent);
* a subscribe that reaches the engine while the wave is gone is lost (Exec);
* a wave the user left while it was gone comes back with its seat, and is subscribed again (Enters);
* a join that waited for the wallet is carried out on a wave dismissed meanwhile: seat and cores
  are held, and nothing is shown (FundsRead). With the Cashu wallet the wait is a few microtasks, with
  a chain wallet a call to a node.

Three more gaps of this code are in the model, with what is claimed in spite of them:

* Invariant 2 says that an incoming token is always redeemed. `handleRedeem` returns in silence if there
  is no wallet (at the start, and throughout a change of mint), and when the wallet cannot redeem, it
  reports it and drops the token: it is not kept anywhere. `TokensRedeemed` says that the token gets to
  the wallet if there is one.
* The view model remembers one tip. Of two in flight, the token of the first goes to the author of the
  second, and that of the second to nobody (`hurried`).
* The linger timer of an ended wave is not cancelled when the wave is announced again: it fades and
  drops a live wave from the directory. Its cores are freed with it.

### Custody and Shell

Custody is a start of an installation, step by step: the keychain is there or not, a blob
decrypts or not, is written, torn or not written, the plaintext file is adopted and removed or
not; then the engine takes the seed injected, else that of its file, else draws one. Seeds are
numbers; numbers nothing refers to any more are drawn again, so starts are not bounded: at most
13 are referred to at a time, so a fourteenth is always there to draw (`SeedInvariance` proves it). Shell
adds the mint file, the wallet built again on a switch, and the desktop's top-up panel; a
wallet message is handled by main and by the UI in one step.

### Capture

The desktop's lobby moment: `eng`, `msgs` and `cmds` as in AppCore with what matters here
(phase, seat, payment), `panel` the lobby panel, the capture panel with its camera and the
gallery. A start or a join waits in `fees`, as in AppCore. Five ghosts say what became of a moment:
`ask` (the user was asked for it), `sent` (it was staged), `waived` (it, or the seat, was given up, by the
user or by the engine's refusal), `missed` and `stranded`, which name what the code loses.

* `missed`: invariant 3 of app-core.js says that every path that leaves a wave stages the moment
  first. Three do not: a new wave of mine is selected and takes an open panel over, a change of network
  deselects the active wave (both without `onBeforeSwitchWave`), and a lobby that comes back with
  my seat opens no camera, though its status line speaks of the captured moment.
* `stranded`: an unfunded wallet refuses a join with a `burn-result` only, which the desktop prints
  as a line of text (app.js:259-273). The lobby panel, which said "you are in" when the button was
  pressed, still does, with no seat behind it and no button to press again.

The phone's screens are not modelled.

### The proof modules

A module of theorems extends the module it is about and adds no behaviour: its definitions are the
parts of inductive invariants, its lemmas follow the operators of the model, one per function of
the code, then one per handler (section 5).


## 3. Runs

| run | question | instance |
|---|---|---|
| wave_roster | types; scoped gossip; the frozen roster is honoured; implements Lifecycle | 3 peers in a line, so joins and the start are relayed; initiator and relay auto-subscribe, the third subscribes or joins by hand; no link changes (2.5M states) |
| wave_churn | cores follow subscriptions; neighbours know each other's; every wave goes back to idle; every seat gets its moment | 2 peers, two link changes or one and an unsubscribe, fair (0.3M states) |
| wave_sync_schedule | violated: racing peers walk one schedule | 3 peers in a line, all auto-subscribing |
| entry_feed | entry, ticket and views across close and reopen; the order shown | this peer and one writer on one angle, 2 feeds, 2 reads and 2 waiting posts at a time, fair |
| engine_topic | violated: the directory topic follows the wallet's network | 2 activations, 1 command, fair |
| paid_gate | the fees of a peer | 2 commands at a time, 9 start burns, 2 wallets of 2 networks, 1 verification at a time with 1 retry |
| engine | wallet switches, seam, topic policy | 2 activations, 2 commands at a time, fair |
| transport | flood, dedup, notes, dials | 3 peers, 3 topics, 2 announces, 2 directed notes from one peer to another, 3 connections opened, 2 switches, shutdowns or throttled frames, three of these events in all; dedup of 1, queue of 1, fair (1.3M states) |
| cashu | the file and the mints' books | 2 mints, 2 operations, 4 coins, 1 restart or lost reply (7.2M states) |
| app_core | view model and engine | 2 waves, 2 tips, 1 token, 1 lobby time-out; waves met and kinds of rare events at most 2 together, fair (1.1M states) |
| shell | seeds, mint, top-up panel | desktop or phone, keychain and disk may fail for the wallet's seed, 1 mint switch, 1 top-up, any number of starts, fair (1.0M states) |
| capture | camera, lobby panel, gallery | a wave of mine and one of another peer, 1 mint switch, 2 messages and 1 command under way, 2 commands at the wallet, 2 requests for the camera (3.7M states) |

What the passing runs show:

* `RosterHonoured`: a peer that adopts the flooded start walks the initiator's schedule exactly,
  one that catches up from a sync seats at least everybody the initiator seated, and a
  participant whose lobby timed out before the start still has its slot armed, in every order
  of messages over a relay. `SeatedHolds`: and the moment comes.
* `CoresHeld`: a peer holds its own core and the others' exactly while it is subscribed, and which
  of the others', through time-outs, revivals and unsubscribes; whoever is joined is subscribed; and
  the note gate admits whoever may be heard, until an unsubscribe.
* `NeighbourView`: the record of a neighbour's subscriptions, together with the frames on
  the way, always says what the neighbour holds, across crossing subs, lost frames and
  reconnections. It is what scoped floods rest on.
* `ScopedGossip`: a peer that never subscribed is sent no join, start or sync (after an
  unsubscribe, frames sent before it was known may still arrive).
* `EntryCarried`, `EntryLands`: the pipeline's guard and the feed's do not lose an entry
  between them; a fee confirmed in a lobby that timed out is on the entry posted in the
  revived one; and while the wave lasts a held entry is appended.
* `ViewOfHeldCores`, `ViewConverges`: a read that outlives its feed is never shown, and a
  feed that stays open ends up showing all it holds, as any other peer would.
* `AnnouncedIsBurned`, `FeeOnlyForRealBurn`, `SeatPaidOnce`: over every switch of the wallet
  inside a fee flow or a verification.
* `OneLiveWallet`, `WalletIsSlot`, `RequestsAnswered`, `HostSeesActiveWallet`: late answers of a
  wallet that is gone leave no wallet and no caller behind, and the host's last word is on the
  wallet in use (whether its topic follows is the violated run).
* `NotesAndDials`, `SeenIsHandled`, `EveryoneLearns`: dials, time-outs, evictions of the dedup
  set, limiters, switches and shutdowns.
* `FileMatchesBooks`: outside the three windows named above, no coin is lost and no spent one
  is counted.
* `DirectoryAgrees`: whatever crossed on the two queues, phase, seat and cores agree in the end, the
  cores but on waves that are `astray`. `EndedDropped`: so do ended waves leave. `TokensRedeemed`: a
  token reaches the engine's wallet, if there is one then, whatever became of the wave it came with.
  `TipsReachAuthor`: a tip that is paid alone goes to the author of the moment tipped.
* `SeedsKept`: over every place where a start can be cut. `MintRemembered`: and the chosen mint, over
  late messages of the one that was left. `PanelSettles`: the top-up spinner ends (not: that the
  invoice shown is of the mint in use; the code keeps showing the one it has).
* `MomentTaken`: who is seated is asked for a moment, and what was framed is staged, but for what is
  `waived` or `missed`; a lobby offers to join until I have a seat, but to who is `stranded`.
  `OneCentre`: the camera is off whenever it has no panel, but for one closed before the browser
  answered (`late`).

What the violated ones show (the comments are quoted in `PROJECT.json`). `ScheduleAgreement`:
`syncPeer` sends its own `wave.writers`, not the roster that was frozen, so a join that reached the
syncing peer and not the initiator gives the late peer a longer schedule. `TopicFollowsWallet`:
`switchTopic` takes its topic over only after it has left the old one, so a switch back in that
time is taken for no change, and the one under way goes through: a peer whose wallet is back on the
test network stays in the mainnet directory, or the other way round.

**Bounds.** Bounds cap what users, the network, wallets and mints may do, never what the
program does; each is a constant that says so where it is declared. Three peers are the fewest
with a relay, and with a peer the initiator does not hear directly; two are enough where a
property is about a pair. Two feeds are the fewest with a stale one; two reads, two commands,
two activations, two operations the fewest that overlap; a dedup of one forgets the first
announce as soon as the second arrives, while both still go round three connected peers; a queue
of one is full at once; two faults and three topics are the fewest with one switch of topic that
starts during another. `MaxEvents` lets any three announces, notes and faults meet, not every
number of each at once; `MaxChanges` is the same for Wave: a connection that is lost and made again,
or lost around an unsubscribe, but not all three. Nine start burns cover each reason to refuse one and each way to find none.
In app_core `MaxBusy` is two: two waves cross, or one wave and tips, or one wave and a wallet that
is made and tokens that come in; a lobby may time out besides. Tips while a mint is changed are beyond
the run (`TipsGoToAuthor` is proved for them too).
`MaxMsgs` and `MaxCmds` bound the queues: what they cut off is a longer delay, and the crossing of
one message with one command is already there. `CHECK_DEADLOCK FALSE` because
the system really stops: once every wave is idle, nothing is in flight and no call is left.

**Fairness.** Armed timers fire, frames on an open connection are handled in order, a queue
between host and UI is delivered, storage, the browser and the leaving of a topic answer, a wallet's and a mint's
promise settles, tickers run until close. Nothing is assumed of users, of connections being
made or kept, of a burn being confirmed, of an app being started or ended, or, in EntryFeed, of
the mesh or the end of the wave: `EntryLands` must hold in a race that never ends. It is weak
everywhere but for `Exec` of AppCore: a command waits only for `Room`, a bound of the model that
the network can use up again and again while in the code nothing stands in its way.


## 4. Checked by TLC only

* Liveness (`EventuallyIdle`, `SeatedHolds`, `EntryLands`, `ViewConverges`, `RequestsAnswered`,
  `HostSeesActiveWallet`, `EveryoneLearns`, `EndedDropped`, `TokensRedeemed`, `MintRemembered`,
  `PanelSettles`): fairness and ENABLED are out of the prover's reach. Every other property of
  the passing runs, each invariant, action property and refinement, is proved (section 5).
* What a feed shows of the blocks it read (FeedMerge, Sweep): folds over sequences, whose value
  for every input would need an induction over data.


## 5. Proved

TLAPS checks these for every value of the constants, under the assumption each module states about
them (`PeerAssumption`, `FeedAssumption`, ...): that sets of peers, writers and activations are
what they are in the code, and that bounds are natural numbers. ShellProofs assumes besides
that there are more than 13 seeds, which an unbounded supply has, CaptureProofs that no wave is
called "none", and AppCoreProofs that no tip is: it stands for the absence of one. Specifications here are
the ones without fairness (`Spec`), so the theorems hold of the fair ones too.

| module | theorem | states |
|---|---|---|
| WaveProofs | TypeCorrect, CoresFollowSubscriptions | TypeOK, CoresHeld |
| | GossipStaysScoped, FrozenRosterIsHonoured, NeighboursAreKnown, ImplementsLifecycle | ScopedGossip, RosterHonoured, NeighbourView, LifecycleSpec |
| EntryFeedProofs | TypeCorrect, EntryIsCarried, ViewsOfHeldCores | TypeOK, EntryCarried, ViewOfHeldCores |
| PaidGateProofs | TypeCorrect, GatedAnnounceIsBurned, OneFeePerSeat, NoFeeForSham | TypeOK, AnnouncedIsBurned, SeatPaidOnce, FeeOnlyForRealBurn |
| WalletProofs | TypeCorrect, NoWalletLeftBehind, ImplementsSlot | of Engine: TypeOK, OneLiveWallet, WalletIsSlot |
| | CashuTypeCorrect, StoreMatchesBooks | of CashuWallet: CashuTypeOK, FileMatchesBooks |
| TransportProofs | TypeCorrect, NotesKeepOrder, DedupRemembersHandled | TypeOK, NotesAndDials, SeenIsHandled |
| AppCoreProofs | TypeCorrect, DirectoryIsSound, TipsGoToAuthor | TypeOK, DirectoryAgrees, TipsReachAuthor |
| CaptureProofs | TypeCorrect, MomentIsTaken, CentreHasOneOwner | TypeOK, MomentTaken, OneCentre |
| ShellProofs | CustodyTypes, SeedsAreKept, TypeCorrect | the types of Custody, SeedsKept, TypeOK |

Few of these properties are inductive as they stand. Each module states its inductive invariant
first and proves it as a theorem of its own (`Invariance`, `GossipInvariant`, `SeedInvariance`,
`ShellInvariance`, `CashuInvariance`); what follows says what had to be added, and why.

**WaveProofs, the feeds.** `FeedInv` is a conjunction over peers of `Held`: whoever is joined is in
`subscriptions`; the cores held are exactly those of the writers, or of those `kept` if the
WaveState is not marked subscribed (`Cores`); and the note gate admits them all unless it was cleared
(`Gated`, `Ungated`). A revived lobby is joined before `subscribe` is called, and `subscribe` returns early
when the subscription outlived the WaveState: that step keeps the core open only because
`subscriptions` and the feed go together. So the lemmas show that every function of a handler
preserves `Cores`, and that each handler restores the rest before it returns.

**WaveProofs, the gossip.** A peer believes what a frame says, so the invariant speaks of the frames in
flight: the channel from p to q is a sequence over `Sayable(p, q)`, the frames that may be said now.
A start carries the frozen roster; the sync of a racing peer carries at least that; frames of a
wave go only to whoever is or was subscribed. That set only grows, so frames stay sayable however long they
take. `RaceHolds` says the same of the peers: a schedule seats all that was frozen, and exactly
that if it came with the start. `FreezeHolds` makes the freeze happen once, since the initiator
races or has ended from then on. The refinement of Lifecycle follows: its `roster` and the lives
of the peers are functions of this state. `NeighbourView` needs its own invariant, `ViewInv`:
between a record and what the neighbour holds stand the frames on the way, and `Tells` says that
handling them leads from one to the other; it composes over concatenation, which is how frames are
sent, and over Tail, which is how they are handled.

**EntryFeedProofs.** `Carried` follows the pair of flags `posted`, the pipeline's and the
feed's. Once the pipeline has let the entry go it is in the core, held for its attestation, or in
`posts`, waiting for the core of the feed it was given to; that these are still the feed's own holds because,
until the user leaves, there is only one feed (`OneFeed`). A ticket that is due is on the
first block, on each waiting entry, or with whatever will be posted next (`Ticket`): the wave, or
the memo of the lobby that timed out.

**PaidGateProofs.** `AskInv`: a verification names a wallet that the gate has had. `TheirsInv`: a
lobby behind the gate counts as paid only for a start burn that settles it, whichever wallet answered
(`OkSettles`, over the three kinds), and a fee was asked for no seat or for the one that is held or
kept over a time-out. `OwnInv`: a wave of mine is signed only with its burn, and announced behind the
gate only signed.

**WalletProofs, the slot.** Activations are numbered without a gap, so the newest is the number of those
started (`Numbered`); the slot holds the newest or nothing (`Slotted`); whichever was made is in
use or disposed (`WalletKept`). With that each step of Engine maps to a step of WalletSlot: a request
to `Ask`, the newest wallet's arrival to `Fill`, and the arrival of an older one to a stutter.

**TransportProofs.** Notes received, on the wire and queued are three sequences, and every event on a channel is
one of five (`Quiet`, `Sent`, `Waits`, `Greeted`, `Delivered`); `InOrder` says that the numbers rise
through all three, and a lemma for each kind of event keeps it. Dials (`DialWhileQueued`) are part of the same invariant,
since it is a dial's end that empties the queue.

**WalletProofs, the coins.** The argument follows a coin: in any store or reading it is of
the mint it is kept under (`Fits`); what an operation got from a mint is nobody else's until it is
written (`TakenApart`), a tip until it is redeemed (`TipsApart`). When a store is written, a coin
that the file and the store do not both have is put at risk there and then. So what an answer does
to the books touches only the coins in hand, and `FileMatchesBooks` is kept.

**AppCoreProofs.** Two queues run between the engine and the view model, and anything may be on
its way in both. What is shown of a wave need not be so now; it has to become so once the queues
are empty. So `Ends` looks at the last word of a queue: its last message of a kind says what is
so, or there is none and it is so already. It is inductive where the property is not, because an
append makes a last word and taking the head leaves the last word where it was, unless it was
the head (`AppendIs`, `TailIs`). `PhaseShown` and `SeatShown` say it of the messages: the last one
about a wave's phase tells its phase, the last one about my seat tells my seat. The cores need both
directions: `Said` ties what the messages tell of a subscription to what the engine has, and for
a wave that is not astray `Asked` and `Given` say the two halves. A wave shown as subscribed is so, or
a command on its way asks for it; of one that is not, the last command about its cores gives them back,
or there are none, or they are those of a wave of mine whose announce is on its way. A dropped wave
goes from the first to the second by the command it sends, whatever is before it in the queue. Each
gap is a step at which one half would fail, and marks its wave there; all other steps keep both
(`SelectKeeps`, `DropKeeps`, `ExecKeeps`, `HandleKeeps`). For tips `TipInv` says that a tip is at one place at
a time, with its command, at the wallet or with its result, and that one which is not `hurried` is the
only one, and remembered. Only `Handle` takes a message (`Kept`), so the action property follows.

**CaptureProofs.** The panels follow the messages one by one, so the last word of a queue is not
enough: what matters is what the directory will have of a wave after each of them. `Leads` is that
trace, from the entry shown now, through what each message makes of it (`Hear`), to one that agrees
with the engine (`Agrees`). It says of each step what the handler relies on (`Allowed`): a wave is
not announced while it is open, and a seat or a fee is told of a lobby. A message sent lengthens the
trace (`LeadsOn`), a message handled is its first step (`LeadsFrom`), and a dismissed wave's trace
stays where it is (`LeadsAway`), so each action is a lemma on traces and then one on panels.
`MomentTaken` needs two more invariants, because it speaks only of a wave about which nothing is on
its way. `AskInv`: a moment that was asked for, and not given up, is staged, or being framed while
its wave is the active one and in a lobby with a seat; that is what switching away and the start of
the race find. `LobbyInv` says what the lobby panel shows meanwhile: the button, or some message
is coming that changes what is to be asked (`Pending`), or the button was pressed and the join is
on its way, waits for the wallet, or was refused for want of funds (`Joining`). When the engine ignores
a join without an event, the lobby it has is not the one shown as joinable, and then the trace
contains the message that says so (`NotReady`); an unfunded join has no such message, and is what
`stranded` remembers.
`OneCentre` needs `Camera`: but for a late answer there is at most one call of getUserMedia, made
by the panel that is open.

**ShellProofs.** `Stages` says how far the start is tells what is resolved; `Roots` that what is
on disk, injected and in use is the first seed of its side, unless storage failed for that kind. A
blob that was never written or cut short leaves the wallet's old plaintext seed behind, because that
file is removed only once the blob reads back. That a fresh seed is left to draw is a count of those
referred to (`FiveMore`), part of `CustodyTypes`. The types of Shell bound the codes being painted,
and that bound is not local: a code is painted for an invoice, an invoice comes of a quote, a quote of
a command. `AskedFor` counts all of them together, in the panel, on the way up, at the wallet and on the
way down, and no step makes more of them than the user asked for.


## 6. Plan

All the parts of the plan are modelled, and the safety of all modules is proved. Left:
MAX_ROSTER in Wave, and wave-note (the gate it passes is in `CoresHeld`).
