------------------------------- MODULE Wave --------------------------------
(***************************************************************************)
(* One wave as every peer of the mesh lives it (lib/wave.js): directory    *)
(* announce, scoped join/start floods, wave-sync catch-up, subscriptions,  *)
(* the lobby -> racing -> idle life, and the revival of a lobby given up.  *)
(* All maps of wave.js are keyed by waveId and no handler touches another  *)
(* wave's entries, so one waveId stands for any number of concurrent ones. *)
(*                                                                         *)
(* This is the wallet-less path (enforcePaid = FALSE).  Time is abstract:  *)
(* a timer may fire at any moment after it is armed, except that a peer's  *)
(* own slot fires before the end of its lap.  The wave has at most         *)
(* MAX_ROSTER (256) peers, so the roster cap never bites here.             *)
(***************************************************************************)
EXTENDS Naturals, Sequences

CONSTANTS
  Peer,            \* ring ids
  Initiator,       \* the peer that starts the wave
  AutoSubscribe,   \* peers created with autoSubscribe: true
  Mesh,            \* Mesh[p]: the peers p is connected to at first
  MaxUnsubscribes, \* bound on unsubscribe() calls in a behaviour
  MaxLinkChanges,  \* bound on connections opened or closed in a behaviour
  MaxChanges       \* bound on both together

ASSUME PeerAssumption ==
  /\ Initiator \in Peer
  /\ AutoSubscribe \subseteq Peer
  /\ Mesh \in [Peer -> SUBSET Peer]
  /\ \A p, q \in Peer : q \in Mesh[p] => p # q /\ p \in Mesh[q]
  /\ MaxUnsubscribes \in Nat
  /\ MaxLinkChanges \in Nat
  /\ MaxChanges \in Nat

VARIABLES
  peer,    \* peer[p]: what wave.js of p holds about the wave
  link,    \* link[p]: the peers p has an open gossip channel to (PeerTable senders)
  nbr,     \* nbr[p][q]: p believes q is subscribed (neighborSubs)
  chan,    \* chan[p][q]: frames sent by p and not yet handled by q, in order
  frozen,  \* history: the roster the initiator put in its schedule, {} before
  budget   \* history: unsubscribe() calls and link changes so far

vars == <<peer, link, nbr, chan, frozen, budget>>

ChangeLeft == budget.unsubscribes + budget.links < MaxChanges

-----------------------------------------------------------------------------
\* Messages.  Signatures, timestamps and fees are abstracted away; the mid of
\* a flood is the frame itself: announce and start are originated once, and
\* n tells the successive wave-joins of one origin apart.

Announce == [kind |-> "wave-announce"]
Subs(on) == [kind |-> "subs", on |-> on]
JoinFlood(origin, n) == [kind |-> "wave-join", origin |-> origin, n |-> n]
StartFlood(writers) == [kind |-> "wave-start", writers |-> writers]
WaveSync(phase, writers) ==
  [kind |-> "wave-sync", phase |-> phase, writers |-> writers]

FloodMessage ==
  {Announce} \cup [kind : {"wave-join"}, origin : Peer, n : Nat]
             \cup [kind : {"wave-start"}, writers : SUBSET Peer]

Message ==
  FloodMessage \cup [kind : {"subs"}, on : BOOLEAN]
    \cup [kind : {"wave-sync"}, phase : {"lobby", "racing"}, writers : SUBSET Peer]

-----------------------------------------------------------------------------
\* The state of one peer.

PeerState ==
  [ \* the WaveState, dropped by goIdle (phase "none" = waves has no entry)
    phase : {"none", "lobby", "racing"},
    joined : BOOLEAN,
    subscribed : BOOLEAN,       \* wave.subscribed
    signed : BOOLEAN,           \* wave.joinSig is set
    announced : BOOLEAN,        \* wave.announceMsg is set
    writers : SUBSET Peer,
    schedule : SUBSET Peer,     \* who the armed sweep timers walk
    via : {"none", "own", "start", "sync"}, \* history: what the schedule came from
    slot : BOOLEAN,             \* my slot timer is armed
    \* what outlives it
    subs : BOOLEAN,             \* subscriptions has the wave
    open : BOOLEAN,             \* CrdtFeed holds my core
    foreign : SUBSET Peer,      \* CrdtFeed holds these peers' cores
    kept : SUBSET Peer,         \* history: the writers of the WaveState the feed outlived
    roster : SUBSET Peer,       \* rosters, the wave-note gate
    ended : BOOLEAN,            \* endedWaves
    memo : {"none", "unsigned", "signed"}, \* abandonedJoins
    opening : BOOLEAN,          \* floodMyFeedCore awaits session.open
    seen : SUBSET FloodMessage, \* flood dedup
    floods : Nat,               \* wave-joins originated
    held : BOOLEAN ]            \* history: my slot fired

Fresh ==
  [phase |-> "none", joined |-> FALSE, subscribed |-> FALSE, signed |-> FALSE,
   announced |-> FALSE, writers |-> {}, schedule |-> {}, via |-> "none",
   slot |-> FALSE, subs |-> FALSE, open |-> FALSE, foreign |-> {}, kept |-> {},
   roster |-> {}, ended |-> FALSE, memo |-> "none", opening |-> FALSE, seen |-> {},
   floods |-> 0, held |-> FALSE]

\* (Definitions marked Bug are what a slip in the code would make of the one that
\* follows; no specification uses them.)
\* Bug: a peer that finished a wave adopts it again.
BugCanAdopt(s) == TRUE

\* canAdopt: a finished wave never comes back.
CanAdopt(s) == ~s.ended

\* Bug: subscribing opens my core only, not those learned while merely aware.
BugHoldFeed(p, s) ==
  IF s.phase = "none" \/ s.subs
  THEN s
  ELSE [s EXCEPT !.subs = TRUE, !.subscribed = TRUE, !.open = TRUE]

\* subscribe() without its transport half: hold my core and every known one.  It
\* returns early while subscriptions has the wave, so the WaveState of a revived lobby
\* never becomes wave.subscribed.
HoldFeed(p, s) ==
  IF s.phase = "none" \/ s.subs
  THEN s
  ELSE [s EXCEPT !.subs = TRUE, !.subscribed = TRUE, !.open = TRUE,
                 !.foreign = @ \cup (s.writers \ {p})]

\* enterLobby(): a new WaveState, with the join state an abandoned lobby left.
EnterLobby(p, s, mine) ==
  IF s.phase # "none"
  THEN s
  ELSE LET w == [s EXCEPT !.phase = "lobby",
                          !.joined = mine \/ s.memo # "none",
                          !.signed = s.memo = "signed",
                          !.memo = "none"]
       IN  IF p \in AutoSubscribe \/ w.joined THEN HoldFeed(p, w) ELSE w

\* ingestWriter() over a list of credentials: only new ones count, and a core
\* is opened only when wave.subscribed.
IngestWriters(p, s, creds) ==
  LET new == creds \ s.writers
  IN  [s EXCEPT !.writers = @ \cup new,
                !.roster = @ \cup new,
                !.foreign = IF s.subscribed /\ s.open THEN @ \cup (new \ {p}) ELSE @]

\* canonicalRoster(): the initiator and the flooded writers.
CanonicalRoster(writers) == {Initiator} \cup writers

\* Bug: the initiator, who starts its sweep without a message, arms no slot.
BugBeginSweep(p, s, roster, via) ==
  IF s.phase = "racing"
  THEN s
  ELSE [s EXCEPT !.phase = "racing", !.schedule = roster, !.via = via,
                 !.slot = p \in roster /\ s.joined /\ via # "own"]

\* beginSweep() and armSweepTimers(): my slot is armed if I am seated and joined.
BeginSweep(p, s, roster, via) ==
  IF s.phase = "racing"
  THEN s
  ELSE [s EXCEPT !.phase = "racing", !.schedule = roster, !.via = via,
                 !.slot = p \in roster /\ s.joined]

\* Bug: the memo of an abandoned join is a value enterLobby does not know.
BugGoIdle(s, revivable) ==
  [s EXCEPT !.phase = "none", !.joined = FALSE, !.subscribed = FALSE,
            !.signed = FALSE, !.announced = FALSE, !.writers = {},
            !.schedule = {}, !.via = "none", !.slot = FALSE,
            !.kept = IF s.subscribed THEN s.writers ELSE @,
            !.ended = @ \/ ~revivable,
            !.memo = IF s.joined THEN "joined" ELSE @]

\* goIdle(): the WaveState and its timers go, the feed and subscription stay.
GoIdle(s, revivable) ==
  [s EXCEPT !.phase = "none", !.joined = FALSE, !.subscribed = FALSE,
            !.signed = FALSE, !.announced = FALSE, !.writers = {},
            !.schedule = {}, !.via = "none", !.slot = FALSE,
            !.kept = IF s.subscribed THEN s.writers ELSE @,
            !.ended = @ \/ ~revivable,
            !.memo = IF ~revivable THEN "none"
                     ELSE IF s.joined THEN (IF s.signed THEN "signed" ELSE "unsigned")
                     ELSE @]

-----------------------------------------------------------------------------
\* The transport.  out[q] is what a handler of p sends to q, in order; frames
\* go only to open channels.

Silence == [q \in Peer |-> << >>]

\* subscribe()'s transport half: tell every neighbour, and sync those already
\* known to be subscribed.  s and t are p before and after the handler.
SubscribeSends(p, s, t, snapshot) ==
  [q \in Peer |->
     IF t.subs /\ ~s.subs
     THEN <<Subs(TRUE)>> \o (IF nbr[p][q] THEN <<snapshot>> ELSE << >>)
     ELSE << >>]

\* Bug: scoped floods go to every neighbour.
BugScopedTo(p, m, except) ==
  [q \in Peer |-> IF q # except THEN <<m>> ELSE << >>]

\* relayWave / floodWave: only neighbours known to be subscribed.
ScopedTo(p, m, except) ==
  [q \in Peer |-> IF nbr[p][q] /\ q # except THEN <<m>> ELSE << >>]

\* relayDir: every neighbour but the sender.
DirectoryTo(m, except) == [q \in Peer |-> IF q # except THEN <<m>> ELSE << >>]

Then(out1, out2) == [q \in Peer |-> out1[q] \o out2[q]]

Sent(p, out) ==
  [chan EXCEPT ![p] =
     [q \in Peer |-> IF q \in link[p] THEN chan[p][q] \o out[q] ELSE chan[p][q]]]

Send(p, out) == chan' = Sent(p, out)

\* p handles the oldest frame from f, which is m, and sends out.
Incoming(f, p) == f # p /\ chan[f][p] # << >>

Reply(f, p, out) == chan' = [Sent(p, out) EXCEPT ![f][p] = Tail(@)]

Becomes(p, s) == peer' = [peer EXCEPT ![p] = s]

-----------------------------------------------------------------------------
\* The user's calls.

\* startWave() and doAnnounce(): open my own lobby, subscribe, flood the announce,
\* and begin opening my core.  The initiator's fallback timer is replaced here by
\* the one that finalizes.
StartWave ==
  LET p == Initiator
      s == peer[p]
      t == [EnterLobby(p, s, TRUE) EXCEPT
              !.announced = TRUE, !.opening = TRUE,
              !.seen = @ \cup {Announce}]
  IN  /\ Announce \notin s.seen
      /\ Becomes(p, t)
      /\ Send(p, Then(SubscribeSends(p, s, t, WaveSync("lobby", {})),
                      DirectoryTo(Announce, p)))
      /\ UNCHANGED <<link, nbr, frozen, budget>>

\* subscribe(): hold the feed of a wave I know and do not hold yet.
Subscribe(p) ==
  LET s == peer[p]
      t == HoldFeed(p, s)
  IN  /\ s.phase # "none"
      /\ ~s.subs
      /\ Becomes(p, t)
      /\ Send(p, SubscribeSends(p, s, t, WaveSync(s.phase, s.writers)))
      /\ UNCHANGED <<link, nbr, frozen, budget>>

\* join(): opt in to a lobby; implies subscribe, and begins opening my core.
Join(p) ==
  LET s == peer[p]
      t == [HoldFeed(p, s) EXCEPT !.joined = TRUE, !.opening = TRUE]
  IN  /\ s.phase = "lobby"
      /\ ~s.joined
      /\ Becomes(p, t)
      /\ Send(p, SubscribeSends(p, s, t, WaveSync(s.phase, s.writers)))
      /\ UNCHANGED <<link, nbr, frozen, budget>>

\* Bug: the neighbours are not told of an unsubscribe.
BugQuietUnsubscribe(p) ==
  /\ peer[p].subs
  /\ budget.unsubscribes < MaxUnsubscribes /\ ChangeLeft
  /\ budget' = [budget EXCEPT !.unsubscribes = @ + 1]
  /\ Becomes(p, [peer[p] EXCEPT !.subs = FALSE, !.subscribed = FALSE, !.joined = FALSE,
                                !.open = FALSE, !.foreign = {}, !.roster = {}, !.kept = {}])
  /\ UNCHANGED <<link, nbr, chan, frozen>>

\* unsubscribe(): un-join, leave the sub-topic, close the cores, free the roster.
Unsubscribe(p) ==
  LET s == peer[p]
  IN  /\ s.subs
      /\ budget.unsubscribes < MaxUnsubscribes /\ ChangeLeft
      /\ budget' = [budget EXCEPT !.unsubscribes = @ + 1]
      /\ Becomes(p, [s EXCEPT !.subs = FALSE, !.subscribed = FALSE, !.joined = FALSE,
                              !.open = FALSE, !.foreign = {}, !.roster = {}, !.kept = {}])
      /\ Send(p, [q \in Peer |-> <<Subs(FALSE)>>])
      /\ UNCHANGED <<link, nbr, frozen>>

-----------------------------------------------------------------------------
\* Asynchronous completions and timers.

\* The continuation of floodMyFeedCore(): my core is ready, so sign my join, seat
\* myself and flood a wave-join, unless the wave went or I un-joined meanwhile.
FeedCoreReady(p) ==
  LET s == peer[p]
      m == JoinFlood(p, s.floods)
      t == [s EXCEPT !.signed = TRUE, !.writers = @ \cup {p},
                     !.roster = @ \cup {p}, !.floods = @ + 1,
                     !.seen = @ \cup {m}]
      stale == s.phase = "none" \/ ~s.joined
  IN  /\ s.opening
      /\ Becomes(p, [(IF stale THEN s ELSE t) EXCEPT !.opening = FALSE])
      /\ Send(p, IF stale THEN Silence ELSE ScopedTo(p, m, p))
      /\ UNCHANGED <<link, nbr, frozen, budget>>

\* finalizeAndStart(): the initiator's lobby closes.  keyReady says whether its own
\* core key is already readable: surely so once the open resolved, and not at all
\* once the feed was closed.
FinalizeAndStart ==
  LET p == Initiator
      s == peer[p]
  IN  /\ s.phase = "lobby"
      /\ \E keyReady \in BOOLEAN :
           /\ keyReady => s.open
           /\ s.open /\ ~s.opening => keyReady
           /\ LET writers == IF keyReady THEN s.writers \cup {p} ELSE s.writers
                  m == StartFlood(writers)
                  w == [s EXCEPT !.signed = @ \/ keyReady, !.writers = writers,
                                 !.seen = @ \cup {m}]
              IN  /\ frozen' = CanonicalRoster(writers)
                  /\ Becomes(p, BeginSweep(p, w, CanonicalRoster(writers), "own"))
                  /\ Send(p, ScopedTo(p, m, p))
      /\ UNCHANGED <<link, nbr, budget>>

\* Bug: the fallback gives up on spectated lobbies only.
BugLobbyTimeout(p) ==
  /\ p # Initiator
  /\ peer[p].phase = "lobby"
  /\ ~peer[p].joined
  /\ Becomes(p, GoIdle(peer[p], TRUE))
  /\ UNCHANGED <<link, nbr, chan, frozen, budget>>

\* The fallback armed by enterLobby(): the start never came.
LobbyTimeout(p) ==
  /\ p # Initiator
  /\ peer[p].phase = "lobby"
  /\ Becomes(p, GoIdle(peer[p], TRUE))
  /\ UNCHANGED <<link, nbr, chan, frozen, budget>>

\* My slot timer: my moment.
SlotFires(p) ==
  /\ peer[p].slot
  /\ Becomes(p, [peer[p] EXCEPT !.slot = FALSE, !.held = TRUE])
  /\ UNCHANGED <<link, nbr, chan, frozen, budget>>

\* finishWave(): t0 + lap + grace passed here.
FinishWave(p) ==
  /\ peer[p].phase = "racing"
  /\ ~peer[p].slot
  /\ Becomes(p, GoIdle(peer[p], FALSE))
  /\ UNCHANGED <<link, nbr, chan, frozen, budget>>

-----------------------------------------------------------------------------
\* Gossip (handleGossip and the handler it routes to).

\* recordNeighborSubs(): a subscription that became mutual is answered by a sync.
RecvSubs(f, p) ==
  LET m == Head(chan[f][p])
      s == peer[p]
      mutual == m.on /\ ~nbr[p][f] /\ s.subs /\ s.phase # "none"
      sync == WaveSync(s.phase, s.writers)
  IN  /\ Incoming(f, p)
      /\ m.kind = "subs"
      /\ nbr' = [nbr EXCEPT ![p][f] = m.on]
      /\ Reply(f, p, [q \in Peer |-> IF mutual /\ q = f THEN <<sync>> ELSE << >>])
      /\ UNCHANGED <<peer, link, frozen, budget>>

\* Bug: a racing sync races on what was known before it came.
BugRecvSync(f, p) ==
  LET m == Head(chan[f][p])
      s == peer[p]
      w == EnterLobby(p, s, FALSE)
      t == IF ~CanAdopt(s) THEN s
           ELSE IF m.phase = "racing"
                THEN BeginSweep(p, w, CanonicalRoster(w.writers), "sync")
                ELSE IngestWriters(p, w, m.writers)
  IN  /\ Incoming(f, p)
      /\ m.kind = "wave-sync"
      /\ Becomes(p, t)
      /\ Reply(f, p, SubscribeSends(p, s, t, WaveSync("lobby", {})))
      /\ UNCHANGED <<link, nbr, frozen, budget>>

\* handleWaveSync(): adopt a lobby or a race from a neighbour's snapshot.
RecvSync(f, p) ==
  LET m == Head(chan[f][p])
      s == peer[p]
      w == IngestWriters(p, EnterLobby(p, s, FALSE), m.writers)
      t == IF ~CanAdopt(s) THEN s
           ELSE IF m.phase = "racing"
                THEN BeginSweep(p, w, CanonicalRoster(m.writers), "sync")
                ELSE w
  IN  /\ Incoming(f, p)
      /\ m.kind = "wave-sync"
      /\ Becomes(p, t)
      /\ Reply(f, p, SubscribeSends(p, s, t, WaveSync("lobby", {})))
      /\ UNCHANGED <<link, nbr, frozen, budget>>

\* A flooded announce: relay on first sight, then handleWaveAnnounce().
RecvAnnounce(f, p) ==
  LET s == [peer[p] EXCEPT !.seen = @ \cup {Announce}]
      t == IF CanAdopt(s) THEN [EnterLobby(p, s, FALSE) EXCEPT !.announced = TRUE] ELSE s
  IN  /\ Incoming(f, p)
      /\ Head(chan[f][p]) = Announce
      /\ IF Announce \in peer[p].seen
         THEN Reply(f, p, Silence) /\ UNCHANGED peer
         ELSE /\ Becomes(p, t)
              /\ Reply(f, p, Then(DirectoryTo(Announce, f),
                                  SubscribeSends(p, s, t, WaveSync("lobby", {}))))
      /\ UNCHANGED <<link, nbr, frozen, budget>>

\* A flooded join: relay on first sight; it counts only while my lobby is open.
RecvJoin(f, p) ==
  LET m == Head(chan[f][p])
      s == [peer[p] EXCEPT !.seen = @ \cup {m}]
      t == IF s.phase = "lobby" THEN IngestWriters(p, s, {m.origin}) ELSE s
  IN  /\ Incoming(f, p)
      /\ m.kind = "wave-join"
      /\ IF m \in peer[p].seen
         THEN Reply(f, p, Silence) /\ UNCHANGED peer
         ELSE Becomes(p, t) /\ Reply(f, p, ScopedTo(p, m, f))
      /\ UNCHANGED <<link, nbr, frozen, budget>>

\* A flooded start: relay on first sight, adopt if need be, learn every core, race.
RecvStart(f, p) ==
  LET m == Head(chan[f][p])
      s == [peer[p] EXCEPT !.seen = @ \cup {m}]
      w == IngestWriters(p, EnterLobby(p, s, FALSE), m.writers)
      t == IF CanAdopt(s)
           THEN BeginSweep(p, w, CanonicalRoster(m.writers), "start")
           ELSE s
  IN  /\ Incoming(f, p)
      /\ m.kind = "wave-start"
      /\ IF m \in peer[p].seen
         THEN Reply(f, p, Silence) /\ UNCHANGED peer
         ELSE /\ Becomes(p, t)
              /\ Reply(f, p, Then(ScopedTo(p, m, f),
                                  SubscribeSends(p, s, t, WaveSync("lobby", {}))))
      /\ UNCHANGED <<link, nbr, frozen, budget>>

-----------------------------------------------------------------------------
\* Connections.  Both ends' handlers run in one step: what one end would send
\* before the other end opened its channel is in the other's greeting anyway.

\* onConnection(): greet with my subscriptions and every announce I store.
Greeting(p) ==
  <<Subs(peer[p].subs)>> \o (IF peer[p].announced THEN <<Announce>> ELSE << >>)

LinkChange ==
  /\ budget.links < MaxLinkChanges /\ ChangeLeft
  /\ budget' = [budget EXCEPT !.links = @ + 1]

Connect(p, q) ==
  /\ p # q
  /\ q \notin link[p]
  /\ LinkChange
  /\ link' = [link EXCEPT ![p] = @ \cup {q}, ![q] = @ \cup {p}]
  /\ chan' = [chan EXCEPT ![p][q] = Greeting(p), ![q][p] = Greeting(q)]
  /\ UNCHANGED <<peer, nbr, frozen>>

\* The close handlers: frames in flight are lost, and each end forgets what the
\* other was subscribed to.
Disconnect(p, q) ==
  /\ q \in link[p]
  /\ LinkChange
  /\ link' = [link EXCEPT ![p] = @ \ {q}, ![q] = @ \ {p}]
  /\ chan' = [chan EXCEPT ![p][q] = << >>, ![q][p] = << >>]
  /\ nbr' = [nbr EXCEPT ![p][q] = FALSE, ![q][p] = FALSE]
  /\ UNCHANGED <<peer, frozen>>

-----------------------------------------------------------------------------
\* The peers of Mesh are connected, their greetings handled.
Init ==
  /\ peer = [p \in Peer |-> Fresh]
  /\ link = Mesh
  /\ nbr = [p \in Peer |-> [q \in Peer |-> FALSE]]
  /\ chan = [p \in Peer |-> [q \in Peer |-> << >>]]
  /\ frozen = {}
  /\ budget = [unsubscribes |-> 0, links |-> 0]

Local(p) ==
  \/ Subscribe(p) \/ Join(p) \/ Unsubscribe(p)
  \/ FeedCoreReady(p) \/ LobbyTimeout(p) \/ SlotFires(p) \/ FinishWave(p)

Receive(f, p) ==
  \/ RecvSubs(f, p) \/ RecvSync(f, p) \/ RecvAnnounce(f, p)
  \/ RecvJoin(f, p) \/ RecvStart(f, p)

Next ==
  \/ StartWave
  \/ FinalizeAndStart
  \/ \E p \in Peer : Local(p)
  \/ \E f, p \in Peer : Receive(f, p) \/ Connect(f, p) \/ Disconnect(f, p)

Spec == Init /\ [][Next]_vars

\* What the event loop guarantees: a connection's frames are handled in order, a
\* core that opens calls back, and an armed timer fires.
Fairness ==
  /\ WF_vars(FinalizeAndStart)
  /\ \A p \in Peer : /\ WF_vars(FeedCoreReady(p))
                     /\ WF_vars(LobbyTimeout(p))
                     /\ WF_vars(SlotFires(p))
                     /\ WF_vars(FinishWave(p))
  /\ \A f, p \in Peer : WF_vars(Receive(f, p))

FairSpec == Spec /\ Fairness

-----------------------------------------------------------------------------
\* Properties.

\* Type correctness of every variable.
TypeOK ==
  /\ peer \in [Peer -> PeerState]
  /\ link \in [Peer -> SUBSET Peer]
  /\ nbr \in [Peer -> [Peer -> BOOLEAN]]
  /\ chan \in [Peer -> [Peer -> Seq(Message)]]
  /\ frozen \in SUBSET Peer
  /\ budget \in [unsubscribes : Nat, links : Nat]

\* The participants whose cores a subscribed peer holds: all it knows of, or, in a
\* lobby revived after a time-out, those it knew before - the ones it learns there are
\* counted in the roster and their cores stay closed (ingestWriter's test).
CoresOf(p) ==
  (IF peer[p].subscribed THEN peer[p].writers ELSE peer[p].kept) \ {p}

\* Cores follow subscriptions in whatever order announce, joins, subscribe, time-out,
\* start, sync and unsubscribe come.  "You can't post without holding your core"
\* (unsubscribe's comment): whoever is joined, by a call or by a revival, is subscribed.
\* A subscribed peer holds its own core and exactly those CoresOf says, any other peer
\* none.  And the note gate, which outlives the WaveState, admits every participant whose
\* wave-note could reach this peer, until an unsubscribe clears it.
CoresHeld ==
  \A p \in Peer :
    /\ peer[p].joined => peer[p].subs
    /\ peer[p].open = peer[p].subs
    /\ peer[p].foreign = IF peer[p].subs THEN CoresOf(p) ELSE {}
    /\ budget.unsubscribes = 0
         => (peer[p].writers \ {p}) \cup peer[p].foreign \subseteq peer[p].roster

\* neighborSubs follows the neighbour's subscriptions: once the frames that say so
\* are handled, p's record of q is what q holds, across subscribes, unsubscribes and
\* reconnections.  Scoped floods rest on it.
LastSubs(p, q) ==
  LET said == {i \in 1 .. Len(chan[q][p]) : chan[q][p][i].kind = "subs"}
  IN  IF said = {}
      THEN nbr[p][q]
      ELSE chan[q][p][CHOOSE i \in said : \A j \in said : j <= i].on

NeighbourView ==
  \A p \in Peer : \A q \in link[p] : LastSubs(p, q) = peer[q].subs

\* "A peer never receives control gossip for a wave it didn't subscribe to"
\* (floodWave's comment): until somebody unsubscribes, joins, starts and syncs are in
\* flight to subscribers only.
ScopedGossip ==
  \A p, q \in Peer : \A k \in 1 .. Len(chan[p][q]) :
    chan[p][q][k].kind \in {"wave-join", "wave-start", "wave-sync"}
      => peer[q].subs \/ budget.unsubscribes > 0

FrozenSeated ==
  \A p \in Peer :
    peer[p].phase = "racing" => frozen # {} /\ frozen \subseteq peer[p].schedule

StartAgreement ==
  \A p \in Peer : peer[p].via \in {"own", "start"} => peer[p].schedule = frozen

SeatArmed ==
  \A p \in Peer :
    peer[p].phase = "racing" /\ peer[p].joined /\ p \in peer[p].schedule
      => peer[p].slot \/ peer[p].held

\* The roster the initiator froze is honoured everywhere.  Every racing peer gives it its seats,
\* even one that caught up from another peer's wave-sync: nobody the initiator seated is skipped.
\* Peers that adopted the race from the flooded wave-start walk the initiator's very schedule,
\* however many joins they ingested that it missed.  And a participant that is racing and seated
\* has its moment armed or behind it, also when it came back through a revived lobby.
RosterHonoured == FrozenSeated /\ StartAgreement /\ SeatArmed

\* Racing peers walk one schedule.  It is what canonicalRoster's comment and
\* protocol.md promise; a wave-sync breaks it.
ScheduleAgreement ==
  \A p, q \in Peer :
    peer[p].phase = "racing" /\ peer[q].phase = "racing"
      => peer[p].schedule = peer[q].schedule

\* The abstract life of a wave, which Spec implements.
Life(p) ==
  IF peer[p].ended THEN "ended"
  ELSE IF peer[p].phase = "none" THEN "unaware" ELSE peer[p].phase

Abstract ==
  INSTANCE Lifecycle WITH life <- [p \in Peer |-> Life(p)],
                          seats <- [p \in Peer |-> peer[p].schedule]

LifecycleSpec == Abstract!Spec

\* Every wave a peer is engaged in goes back to idle there: no lost message and no
\* lost connection leaves it in a lobby or a race for good.
EventuallyIdle == \A p \in Peer : peer[p].phase # "none" ~> peer[p].phase = "none"

\* Where no connection changes and nobody leaves, whoever has a seat in the frozen
\* roster gets its moment, even if its own lobby had timed out before the start.
SeatedHolds ==
  \A p \in Peer :
    p \in frozen ~> (peer[p].held \/ budget.links > 0 \/ budget.unsubscribes > 0)

=============================================================================
