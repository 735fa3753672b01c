---------------------------- MODULE WaveProofs -----------------------------
(***************************************************************************)
(* Theorems about Wave, for every set of peers, mesh and bound: the types  *)
(* of what peers hold and send, the cores a peer holds, and what peers     *)
(* tell each other: the race every one of them runs is the one the         *)
(* initiator froze, scoped gossip stays with subscribers, neighbours know  *)
(* each other's subscriptions, and Wave implements Lifecycle.              *)
(*                                                                         *)
(* Every action rewrites the record of one peer through the operators of   *)
(* Wave and appends frames to that peer's channels, so the lemmas are      *)
(* about those operators, and the step lemmas combine them.                *)
(*                                                                         *)
(* A peer believes what a frame says, so the invariant of the second part  *)
(* (GossipInv) speaks of the frames in flight as much as of the peers:     *)
(* channels are sequences over the set of frames that may be said now, and *)
(* that set only grows.                                                    *)
(***************************************************************************)
EXTENDS Wave, TLAPS

Outs == [Peer -> Seq(Message)]

-----------------------------------------------------------------------------
\* Types of the operators.

\* subscribe() takes a peer's record to a peer's record.
LEMMA HoldFeedType ==
  ASSUME NEW p \in Peer, NEW s \in PeerState
  PROVE  HoldFeed(p, s) \in PeerState
<1> DEFINE t == [s EXCEPT !.subs = TRUE, !.subscribed = TRUE, !.open = TRUE,
                          !.foreign = @ \cup (s.writers \ {p})]
<1>1. s.foreign \cup (s.writers \ {p}) \in SUBSET Peer
  BY DEF PeerState
<1>2. t \in PeerState
  BY <1>1 DEF PeerState
<1> QED
  BY <1>2 DEF HoldFeed

\* So does enterLobby().
LEMMA EnterLobbyType ==
  ASSUME NEW p \in Peer, NEW s \in PeerState, NEW mine \in BOOLEAN
  PROVE  EnterLobby(p, s, mine) \in PeerState
<1> DEFINE w == [s EXCEPT !.phase = "lobby",
                          !.joined = mine \/ s.memo # "none",
                          !.signed = s.memo = "signed",
                          !.memo = "none"]
<1>1. w \in PeerState
  BY DEF PeerState
<1>2. HoldFeed(p, w) \in PeerState
  BY <1>1, HoldFeedType
<1> QED
  BY <1>1, <1>2 DEF EnterLobby

\* So do ingestWriter(), beginSweep() and goIdle().
LEMMA IngestWritersType ==
  ASSUME NEW p \in Peer, NEW s \in PeerState, NEW creds \in SUBSET Peer
  PROVE  IngestWriters(p, s, creds) \in PeerState
BY DEF IngestWriters, PeerState

LEMMA BeginSweepType ==
  ASSUME NEW p \in Peer, NEW s \in PeerState, NEW roster \in SUBSET Peer,
         NEW via \in {"own", "start", "sync"}
  PROVE  BeginSweep(p, s, roster, via) \in PeerState
<1> DEFINE armed == (p \in roster) /\ s.joined
           t == [s EXCEPT !.phase = "racing", !.schedule = roster, !.via = via,
                          !.slot = armed]
<1>1. armed \in BOOLEAN
  OBVIOUS
<1>2. t \in PeerState
  BY <1>1 DEF PeerState
<1> QED
  BY <1>2 DEF BeginSweep

LEMMA GoIdleType ==
  ASSUME NEW s \in PeerState, NEW revivable \in BOOLEAN
  PROVE  GoIdle(s, revivable) \in PeerState
<1> DEFINE memo == IF ~revivable THEN "none"
                   ELSE IF s.joined THEN (IF s.signed THEN "signed" ELSE "unsigned")
                   ELSE s.memo
           gone == s.ended \/ ~revivable
           kept == IF s.subscribed THEN s.writers ELSE s.kept
<1>1. /\ memo \in {"none", "unsigned", "signed"} /\ gone \in BOOLEAN
      /\ kept \in SUBSET Peer
  BY DEF PeerState
<1> HIDE DEF memo, gone, kept
<1>2. [s EXCEPT !.phase = "none", !.joined = FALSE, !.subscribed = FALSE,
                !.signed = FALSE, !.announced = FALSE, !.writers = {},
                !.schedule = {}, !.via = "none", !.slot = FALSE,
                !.kept = kept, !.ended = gone, !.memo = memo] \in PeerState
  BY <1>1 DEF PeerState
<1> QED
  BY <1>2 DEF GoIdle, gone, memo, kept

LEMMA CanonicalRosterType ==
  ASSUME NEW writers \in SUBSET Peer
  PROVE  CanonicalRoster(writers) \in SUBSET Peer
BY PeerAssumption DEF CanonicalRoster

-----------------------------------------------------------------------------
\* Types of the transport.

ChanType == [Peer -> [Peer -> Seq(Message)]]

\* What p sends is appended to its channels and to no other.
LEMMA SentType ==
  ASSUME NEW p \in Peer, NEW out \in Outs, chan \in ChanType
  PROVE  Sent(p, out) \in ChanType
BY DEF Sent, Outs, ChanType

\* A handled frame leaves its channel, which the answers do not touch.
LEMMA ReplyType ==
  ASSUME NEW f \in Peer, NEW p \in Peer, NEW out \in Outs, chan \in ChanType,
         Incoming(f, p), Reply(f, p, out)
  PROVE  chan' \in ChanType
<1> DEFINE sent == Sent(p, out)
<1>1. sent \in ChanType /\ sent[f][p] = chan[f][p]
  BY SentType DEF Sent, Incoming, ChanType
<1>2. sent[f][p] \in Seq(Message) /\ sent[f][p] # << >>
  BY <1>1 DEF Incoming, ChanType
<1>3. Tail(sent[f][p]) \in Seq(Message)
  BY <1>2
<1> HIDE DEF sent
<1>4. [sent EXCEPT ![f][p] = Tail(@)] \in ChanType
  BY <1>1, <1>3 DEF ChanType
<1> QED
  BY <1>4 DEF Reply, sent

\* The frame a handler takes is a message.
LEMMA IncomingType ==
  ASSUME NEW f \in Peer, NEW p \in Peer, chan \in ChanType, Incoming(f, p)
  PROVE  Head(chan[f][p]) \in Message
<1>1. chan[f][p] \in Seq(Message) /\ chan[f][p] # << >>
  BY DEF Incoming, ChanType
<1> QED
  BY <1>1

\* The frames each helper produces are messages.
LEMMA MessageTypes ==
  /\ Announce \in FloodMessage
  /\ \A p \in Peer : \A n \in Nat : JoinFlood(p, n) \in FloodMessage
  /\ \A writers \in SUBSET Peer : StartFlood(writers) \in FloodMessage
  /\ \A on \in BOOLEAN : Subs(on) \in Message
  /\ \A phase \in {"lobby", "racing"}, writers \in SUBSET Peer :
       WaveSync(phase, writers) \in Message
  /\ FloodMessage \subseteq Message
BY DEF Announce, JoinFlood, StartFlood, Subs, WaveSync, FloodMessage, Message

LEMMA OneFrame == \A m \in Message : <<m>> \in Seq(Message) /\ << >> \in Seq(Message)
OBVIOUS

LEMMA OutTypes ==
  ASSUME NEW p \in Peer
  PROVE  /\ Silence \in Outs
         /\ \A m \in Message : \A x : ScopedTo(p, m, x) \in Outs
         /\ \A m \in Message : \A x : DirectoryTo(m, x) \in Outs
         /\ \A m \in Message : \A s, t : SubscribeSends(p, s, t, m) \in Outs
         /\ \A out1, out2 \in Outs : Then(out1, out2) \in Outs
<1>1. \A m \in Message : <<m>> \in Seq(Message) /\ << >> \in Seq(Message)
  BY OneFrame
<1>2. Subs(TRUE) \in Message
  BY MessageTypes
<1>3. \A m \in Message : \A x : ScopedTo(p, m, x) \in Outs
  BY <1>1 DEF ScopedTo, Outs
<1>4. \A m \in Message : \A x : DirectoryTo(m, x) \in Outs
  BY <1>1 DEF DirectoryTo, Outs
<1>5. \A m \in Message : \A s, t : SubscribeSends(p, s, t, m) \in Outs
  <2> SUFFICES ASSUME NEW m \in Message, NEW s, NEW t
               PROVE  SubscribeSends(p, s, t, m) \in Outs
    OBVIOUS
  <2> DEFINE told(q) == <<Subs(TRUE)>> \o (IF nbr[p][q] THEN <<m>> ELSE << >>)
  <2>1. ASSUME NEW q \in Peer
        PROVE  told(q) \in Seq(Message)
    <3> DEFINE on == <<Subs(TRUE)>>
               rest == IF nbr[p][q] THEN <<m>> ELSE << >>
    <3>1. on \in Seq(Message) /\ rest \in Seq(Message)
      BY <1>1, <1>2
    <3> HIDE DEF on, rest
    <3>2. on \o rest \in Seq(Message)
      BY <3>1
    <3> QED
      BY <3>2 DEF on, rest
  <2> HIDE DEF told
  <2>2. [q \in Peer |-> IF t.subs /\ ~s.subs THEN told(q) ELSE << >>] \in Outs
    BY <1>1, <2>1 DEF Outs
  <2> QED
    BY <2>2 DEF SubscribeSends, told
<1>6. \A out1, out2 \in Outs : Then(out1, out2) \in Outs
  BY DEF Then, Outs
<1> QED
  BY <1>3, <1>4, <1>5, <1>6 DEF Silence, Outs

\* Installing a peer's record keeps the map of records.
LEMMA BecomesType ==
  ASSUME NEW p \in Peer, NEW s \in PeerState, peer \in [Peer -> PeerState], Becomes(p, s)
  PROVE  peer' \in [Peer -> PeerState]
BY DEF Becomes

-----------------------------------------------------------------------------
\* Type correctness.

LEMMA InitType == Init => TypeOK
<1> SUFFICES ASSUME Init
             PROVE  TypeOK
  OBVIOUS
<1>1. Fresh \in PeerState
  BY DEF Fresh, PeerState
<1>2. peer \in [Peer -> PeerState]
  BY <1>1 DEF Init
<1>3. link \in [Peer -> SUBSET Peer]
  BY PeerAssumption DEF Init
<1>4. chan \in [Peer -> [Peer -> Seq(Message)]]
  BY DEF Init
<1> QED
  BY <1>2, <1>3, <1>4 DEF Init, TypeOK

\* The calls of the user and what this peer's own timers and core do.
LEMMA LocalType ==
  ASSUME TypeOK, NEW p \in Peer, Local(p)
  PROVE  TypeOK'
<1> DEFINE s == peer[p]
<1> USE DEF ChanType
<1>1. s \in PeerState /\ chan \in ChanType
  BY DEF TypeOK
<1>2. s.writers \in SUBSET Peer /\ s.floods \in Nat /\ s.joined \in BOOLEAN
      /\ s.seen \in SUBSET FloodMessage /\ s.roster \in SUBSET Peer
      /\ s.phase \in {"none", "lobby", "racing"} /\ s.subs \in BOOLEAN
  BY <1>1 DEF PeerState
<1>3. CASE Subscribe(p)
  <2> DEFINE t == HoldFeed(p, s)
             m == WaveSync(s.phase, s.writers)
  <2>1. s.phase # "none" /\ Becomes(p, t) /\ Send(p, SubscribeSends(p, s, t, m))
    BY <1>3 DEF Subscribe
  <2>2. m \in Message
    BY <1>2, <2>1, MessageTypes
  <2>3. peer' \in [Peer -> PeerState]
    BY <1>1, <2>1, HoldFeedType, BecomesType DEF TypeOK
  <2>4. chan' \in ChanType
    BY <1>1, <2>1, <2>2, OutTypes, SentType DEF Send
  <2> QED
    BY <1>3, <2>3, <2>4 DEF Subscribe, TypeOK
<1>4. CASE Join(p)
  <2> DEFINE h == HoldFeed(p, s)
             t == [h EXCEPT !.joined = TRUE, !.opening = TRUE]
             m == WaveSync(s.phase, s.writers)
  <2>1. s.phase = "lobby" /\ Becomes(p, t) /\ Send(p, SubscribeSends(p, s, t, m))
    BY <1>4 DEF Join
  <2>2. m \in Message
    BY <1>2, <2>1, MessageTypes
  <2>3. h \in PeerState
    BY <1>1, HoldFeedType
  <2> HIDE DEF h
  <2>4. t \in PeerState
    BY <2>3 DEF PeerState
  <2>5. peer' \in [Peer -> PeerState]
    BY <2>1, <2>4, BecomesType DEF TypeOK
  <2>6. chan' \in ChanType
    BY <1>1, <2>1, <2>2, OutTypes, SentType DEF Send
  <2> QED
    BY <1>4, <2>5, <2>6 DEF Join, TypeOK
<1>5. CASE Unsubscribe(p)
  <2> DEFINE t == [s EXCEPT !.subs = FALSE, !.subscribed = FALSE, !.joined = FALSE,
                            !.open = FALSE, !.foreign = {}, !.roster = {}, !.kept = {}]
             out == [q \in Peer |-> <<Subs(FALSE)>>]
  <2>1. Becomes(p, t) /\ Send(p, out)
    BY <1>5 DEF Unsubscribe
  <2>2. t \in PeerState
    BY <1>1 DEF PeerState
  <2>3. peer' \in [Peer -> PeerState]
    BY <2>1, <2>2, BecomesType DEF TypeOK
  <2>4. out \in Outs
    <3>1. Subs(FALSE) \in Message
      BY MessageTypes
    <3>2. <<Subs(FALSE)>> \in Seq(Message)
      BY <3>1, OneFrame
    <3> QED
      BY <3>2 DEF Outs
  <2>5. chan' \in ChanType
    BY <1>1, <2>1, <2>4, SentType DEF Send
  <2>6. budget' \in [unsubscribes : Nat, links : Nat]
    <3>1. budget.unsubscribes + 1 \in Nat /\ budget \in [unsubscribes : Nat, links : Nat]
      BY DEF TypeOK
    <3> QED
      BY <1>5, <3>1 DEF Unsubscribe
  <2> QED
    BY <1>5, <2>3, <2>5, <2>6 DEF Unsubscribe, TypeOK
<1>6. CASE FeedCoreReady(p)
  <2> DEFINE m == JoinFlood(p, s.floods)
             t == [s EXCEPT !.signed = TRUE, !.writers = @ \cup {p},
                            !.roster = @ \cup {p}, !.floods = @ + 1,
                            !.seen = @ \cup {m}]
             stale == s.phase = "none" \/ ~s.joined
             r == [(IF stale THEN s ELSE t) EXCEPT !.opening = FALSE]
             out == IF stale THEN Silence ELSE ScopedTo(p, m, p)
  <2>1. Becomes(p, r) /\ Send(p, out)
    BY <1>6 DEF FeedCoreReady
  <2>2. m \in FloodMessage /\ m \in Message
    BY <1>2, MessageTypes
  <2> HIDE DEF m
  <2>3. t \in PeerState
    <3>1. /\ s.writers \cup {p} \in SUBSET Peer
          /\ s.roster \cup {p} \in SUBSET Peer
          /\ s.seen \cup {m} \in SUBSET FloodMessage
          /\ s.floods + 1 \in Nat
      BY <1>2, <2>2
    <3> QED
      BY <1>1, <3>1 DEF PeerState
  <2>4. (IF stale THEN s ELSE t) \in PeerState
    BY <1>1, <2>3
  <2> HIDE DEF t
  <2>5. r \in PeerState
    BY <2>4 DEF PeerState
  <2>6. peer' \in [Peer -> PeerState]
    BY <2>1, <2>5, BecomesType DEF TypeOK
  <2>7. out \in Outs
    BY <2>2, OutTypes
  <2>8. chan' \in ChanType
    BY <1>1, <2>1, <2>7, SentType DEF Send
  <2> QED
    BY <1>6, <2>6, <2>8 DEF FeedCoreReady, TypeOK
<1>7. CASE LobbyTimeout(p)
  <2>1. peer' \in [Peer -> PeerState]
    BY <1>1, <1>7, GoIdleType, BecomesType DEF LobbyTimeout, TypeOK
  <2> QED
    BY <1>7, <2>1 DEF LobbyTimeout, TypeOK
<1>8. CASE SlotFires(p)
  <2>1. [s EXCEPT !.slot = FALSE, !.held = TRUE] \in PeerState
    BY <1>1 DEF PeerState
  <2>2. peer' \in [Peer -> PeerState]
    BY <1>8, <2>1, BecomesType DEF SlotFires, TypeOK
  <2> QED
    BY <1>8, <2>2 DEF SlotFires, TypeOK
<1>9. CASE FinishWave(p)
  <2>1. peer' \in [Peer -> PeerState]
    BY <1>1, <1>9, GoIdleType, BecomesType DEF FinishWave, TypeOK
  <2> QED
    BY <1>9, <2>1 DEF FinishWave, TypeOK
<1> QED
  BY <1>3, <1>4, <1>5, <1>6, <1>7, <1>8, <1>9 DEF Local

\* What handling a frame does to the peer that handles it.
LEMMA ReceiveType ==
  ASSUME TypeOK, NEW f \in Peer, NEW p \in Peer, Receive(f, p)
  PROVE  TypeOK'
<1> DEFINE m == Head(chan[f][p])
           q == peer[p]
           s == [q EXCEPT !.seen = @ \cup {m}]
           fresh == WaveSync("lobby", {})
<1> USE DEF ChanType
<1>1. /\ Incoming(f, p)
      /\ q \in PeerState
      /\ chan \in ChanType
  BY DEF TypeOK, Receive, RecvSubs, RecvSync, RecvAnnounce, RecvJoin, RecvStart
<1>2. m \in Message
  BY <1>1, IncomingType
<1>3. m \in FloodMessage => s \in PeerState
  <2> SUFFICES ASSUME m \in FloodMessage
               PROVE  s \in PeerState
    OBVIOUS
  <2>1. q.seen \cup {m} \in SUBSET FloodMessage
    BY <1>1 DEF PeerState
  <2> HIDE DEF q, m
  <2> QED
    BY <1>1, <2>1 DEF PeerState
<1>4. fresh \in Message
  BY MessageTypes
<1>5. /\ m.kind \in {"wave-announce", "wave-join", "wave-start"} => m \in FloodMessage
      /\ m.kind = "subs" => m.on \in BOOLEAN
      /\ m.kind = "wave-sync" => m.phase \in {"lobby", "racing"} /\ m.writers \in SUBSET Peer
      /\ m.kind = "wave-join" => m.origin \in Peer
      /\ m.kind = "wave-start" => m.writers \in SUBSET Peer
  <2> HIDE DEF m
  <2> QED
    BY <1>2 DEF Message, FloodMessage, Announce
<1> HIDE DEF m, fresh
<1>6. CASE RecvSubs(f, p)
  <2> DEFINE sync == WaveSync(q.phase, q.writers)
             mutual == m.on /\ ~nbr[p][f] /\ q.subs /\ q.phase # "none"
             out == [r \in Peer |-> IF mutual /\ r = f THEN <<sync>> ELSE << >>]
  <2>1. Reply(f, p, out) /\ m.kind = "subs" /\ nbr' = [nbr EXCEPT ![p][f] = m.on]
    BY <1>6 DEF RecvSubs, m
  <2>2. mutual => sync \in Message
    BY <1>1, MessageTypes DEF PeerState
  <2>3. out \in Outs
    <3>1. CASE mutual
      <4>1. <<sync>> \in Seq(Message) /\ << >> \in Seq(Message)
        BY <2>2, <3>1, OneFrame
      <4> HIDE DEF sync, mutual
      <4> QED
        BY <4>1 DEF Outs
    <3>2. CASE ~mutual
      <4>1. out = [r \in Peer |-> << >>]
        BY <3>2
      <4> QED
        BY <4>1 DEF Outs
    <3> QED
      BY <3>1, <3>2
  <2>4. chan' \in ChanType
    BY <1>1, <2>1, <2>3, ReplyType
  <2>5. nbr' \in [Peer -> [Peer -> BOOLEAN]]
    BY <1>5, <2>1 DEF TypeOK
  <2> QED
    BY <1>6, <2>4, <2>5 DEF RecvSubs, TypeOK
<1>7. CASE RecvSync(f, p)
  <2> DEFINE e == EnterLobby(p, q, FALSE)
             w == IngestWriters(p, e, m.writers)
             t == IF ~CanAdopt(q) THEN q
                  ELSE IF m.phase = "racing"
                       THEN BeginSweep(p, w, CanonicalRoster(m.writers), "sync")
                       ELSE w
  <2>1. /\ m.kind = "wave-sync"
        /\ Becomes(p, t)
        /\ Reply(f, p, SubscribeSends(p, q, t, fresh))
    BY <1>7 DEF RecvSync, m, fresh
  <2>2. e \in PeerState
    BY <1>1, EnterLobbyType
  <2> HIDE DEF e
  <2>3. w \in PeerState
    BY <1>5, <2>1, <2>2, IngestWritersType
  <2> HIDE DEF w
  <2>4. BeginSweep(p, w, CanonicalRoster(m.writers), "sync") \in PeerState
    BY <1>5, <2>1, <2>3, CanonicalRosterType, BeginSweepType
  <2>5. peer' \in [Peer -> PeerState]
    BY <1>1, <2>1, <2>3, <2>4, BecomesType DEF TypeOK
  <2>6. chan' \in ChanType
    BY <1>1, <1>4, <2>1, OutTypes, ReplyType
  <2> QED
    BY <1>7, <2>5, <2>6 DEF RecvSync, TypeOK
<1>8. CASE RecvAnnounce(f, p)
  <2> DEFINE e == EnterLobby(p, s, FALSE)
             t == IF CanAdopt(s) THEN [e EXCEPT !.announced = TRUE] ELSE s
             out == Then(DirectoryTo(Announce, f), SubscribeSends(p, s, t, fresh))
  <2>1. /\ m = Announce
        /\ IF Announce \in q.seen
           THEN Reply(f, p, Silence) /\ UNCHANGED peer
           ELSE Becomes(p, t) /\ Reply(f, p, out)
    BY <1>8 DEF RecvAnnounce, m, fresh
  <2>2. s \in PeerState
    BY <1>3, <2>1, MessageTypes
  <2> HIDE DEF s
  <2>3. e \in PeerState
    BY <2>2, EnterLobbyType
  <2> HIDE DEF e
  <2>4. t \in PeerState
    <3>1. [e EXCEPT !.announced = TRUE] \in PeerState
      BY <2>3 DEF PeerState
    <3> QED
      BY <2>2, <3>1
  <2>5. peer' \in [Peer -> PeerState]
    BY <2>1, <2>4, BecomesType DEF TypeOK
  <2>6. out \in Outs
    <3> HIDE DEF t
    <3>1. DirectoryTo(Announce, f) \in Outs /\ SubscribeSends(p, s, t, fresh) \in Outs
      BY <1>4, MessageTypes, OutTypes
    <3> QED
      BY <3>1, OutTypes
  <2> HIDE DEF out
  <2>7. chan' \in ChanType
    BY <1>1, <2>1, <2>6, OutTypes, ReplyType
  <2> QED
    BY <1>8, <2>5, <2>7 DEF RecvAnnounce, TypeOK
<1>9. CASE RecvJoin(f, p)
  <2> DEFINE t == IF s.phase = "lobby" THEN IngestWriters(p, s, {m.origin}) ELSE s
  <2>1. /\ m.kind = "wave-join"
        /\ IF m \in q.seen
           THEN Reply(f, p, Silence) /\ UNCHANGED peer
           ELSE Becomes(p, t) /\ Reply(f, p, ScopedTo(p, m, f))
    BY <1>9 DEF RecvJoin, m
  <2>2. s \in PeerState
    BY <1>3, <1>5, <2>1
  <2> HIDE DEF s
  <2>3. t \in PeerState
    <3>1. {m.origin} \in SUBSET Peer
      BY <1>5, <2>1
    <3> QED
      BY <2>2, <3>1, IngestWritersType
  <2>4. peer' \in [Peer -> PeerState]
    BY <2>1, <2>3, BecomesType DEF TypeOK
  <2>5. chan' \in ChanType
    BY <1>1, <1>2, <2>1, OutTypes, ReplyType
  <2> QED
    BY <1>9, <2>4, <2>5 DEF RecvJoin, TypeOK
<1>10. CASE RecvStart(f, p)
  <2> DEFINE e == EnterLobby(p, s, FALSE)
             w == IngestWriters(p, e, m.writers)
             t == IF CanAdopt(s)
                  THEN BeginSweep(p, w, CanonicalRoster(m.writers), "start")
                  ELSE s
             out == Then(ScopedTo(p, m, f), SubscribeSends(p, s, t, fresh))
  <2>1. /\ m.kind = "wave-start"
        /\ IF m \in q.seen
           THEN Reply(f, p, Silence) /\ UNCHANGED peer
           ELSE Becomes(p, t) /\ Reply(f, p, out)
    BY <1>10 DEF RecvStart, m, fresh
  <2>2. s \in PeerState
    BY <1>3, <1>5, <2>1
  <2> HIDE DEF s
  <2>3. e \in PeerState
    BY <2>2, EnterLobbyType
  <2> HIDE DEF e
  <2>4. w \in PeerState
    BY <1>5, <2>1, <2>3, IngestWritersType
  <2> HIDE DEF w
  <2>5. t \in PeerState
    BY <1>5, <2>1, <2>2, <2>4, CanonicalRosterType, BeginSweepType
  <2>6. peer' \in [Peer -> PeerState]
    BY <2>1, <2>5, BecomesType DEF TypeOK
  <2>7. out \in Outs
    <3> HIDE DEF t
    <3>1. ScopedTo(p, m, f) \in Outs /\ SubscribeSends(p, s, t, fresh) \in Outs
      BY <1>2, <1>4, OutTypes
    <3> QED
      BY <3>1, OutTypes
  <2> HIDE DEF out
  <2>8. chan' \in ChanType
    BY <1>1, <2>1, <2>7, OutTypes, ReplyType
  <2> QED
    BY <1>10, <2>6, <2>8 DEF RecvStart, TypeOK
<1> QED
  BY <1>6, <1>7, <1>8, <1>9, <1>10 DEF Receive

\* The initiator's two steps: announcing and closing the lobby.
LEMMA StartWaveType ==
  ASSUME TypeOK, StartWave
  PROVE  TypeOK'
<1> DEFINE p == Initiator
           s == peer[p]
           e == EnterLobby(p, s, TRUE)
           t == [e EXCEPT !.announced = TRUE, !.opening = TRUE,
                          !.seen = @ \cup {Announce}]
           out == Then(SubscribeSends(p, s, t, WaveSync("lobby", {})),
                       DirectoryTo(Announce, p))
<1> USE DEF ChanType
<1>1. p \in Peer /\ s \in PeerState /\ chan \in ChanType
  BY PeerAssumption DEF TypeOK
<1>2. Becomes(p, t) /\ Send(p, out)
  BY DEF StartWave
<1>3. e \in PeerState
  BY <1>1, EnterLobbyType
<1> HIDE DEF p, s, e
<1>4. e.seen \cup {Announce} \in SUBSET FloodMessage
  BY <1>3, MessageTypes DEF PeerState
<1>5. t \in PeerState
  BY <1>3, <1>4 DEF PeerState
<1>6. peer' \in [Peer -> PeerState]
  BY <1>1, <1>2, <1>5, BecomesType DEF TypeOK
<1>7. out \in Outs
  <2> HIDE DEF t
  <2>1. WaveSync("lobby", {}) \in Message /\ Announce \in Message
    BY MessageTypes
  <2>2. /\ SubscribeSends(p, s, t, WaveSync("lobby", {})) \in Outs
        /\ DirectoryTo(Announce, p) \in Outs
    BY <1>1, <2>1, OutTypes
  <2> QED
    BY <1>1, <2>2, OutTypes
<1> HIDE DEF t, out
<1>8. chan' \in ChanType
  BY <1>1, <1>2, <1>7, SentType DEF Send
<1> QED
  BY <1>6, <1>8 DEF StartWave, TypeOK

LEMMA FinalizeType ==
  ASSUME TypeOK, FinalizeAndStart
  PROVE  TypeOK'
<1> DEFINE p == Initiator
           s == peer[p]
<1> USE DEF ChanType
<1>1. p \in Peer /\ s \in PeerState /\ chan \in ChanType
  BY PeerAssumption DEF TypeOK
<1>2. PICK keyReady \in BOOLEAN :
        LET writers == IF keyReady THEN s.writers \cup {p} ELSE s.writers
            m == StartFlood(writers)
            w == [s EXCEPT !.signed = @ \/ keyReady, !.writers = writers,
                           !.seen = @ \cup {m}]
        IN  /\ frozen' = CanonicalRoster(writers)
            /\ Becomes(p, BeginSweep(p, w, CanonicalRoster(writers), "own"))
            /\ Send(p, ScopedTo(p, m, p))
  BY DEF FinalizeAndStart
<1> HIDE DEF p, s
<1> DEFINE writers == IF keyReady THEN s.writers \cup {p} ELSE s.writers
           m == StartFlood(writers)
           signed == s.signed \/ keyReady
           w == [s EXCEPT !.signed = signed, !.writers = writers, !.seen = @ \cup {m}]
<1>3. /\ frozen' = CanonicalRoster(writers)
      /\ Becomes(p, BeginSweep(p, w, CanonicalRoster(writers), "own"))
      /\ Send(p, ScopedTo(p, m, p))
  BY <1>2
<1>4. writers \in SUBSET Peer
  BY <1>1 DEF PeerState
<1> HIDE DEF writers
<1>5. m \in FloodMessage /\ m \in Message
  BY <1>4, MessageTypes
<1> HIDE DEF m
<1>6. w \in PeerState
  <2>1. signed \in BOOLEAN /\ s.seen \cup {m} \in SUBSET FloodMessage
    BY <1>1, <1>5 DEF PeerState
  <2> HIDE DEF signed
  <2> QED
    BY <1>1, <1>4, <2>1 DEF PeerState
<1> HIDE DEF w
<1>7. peer' \in [Peer -> PeerState] /\ frozen' \in SUBSET Peer
  BY <1>1, <1>3, <1>4, <1>6, CanonicalRosterType, BeginSweepType, BecomesType DEF TypeOK
<1>8. chan' \in ChanType
  BY <1>1, <1>3, <1>5, OutTypes, SentType DEF Send
<1> QED
  BY <1>7, <1>8 DEF FinalizeAndStart, TypeOK

\* Connections come and go.
LEMMA LinkType ==
  ASSUME TypeOK, NEW p \in Peer, NEW q \in Peer, Connect(p, q) \/ Disconnect(p, q)
  PROVE  TypeOK'
<1> USE DEF ChanType
<1>1. chan \in ChanType /\ link \in [Peer -> SUBSET Peer] /\ nbr \in [Peer -> [Peer -> BOOLEAN]]
  BY DEF TypeOK
<1>2. budget' \in [unsubscribes : Nat, links : Nat]
  <2>1. budget \in [unsubscribes : Nat, links : Nat] /\ budget.links + 1 \in Nat
    BY DEF TypeOK
  <2> QED
    BY <2>1 DEF Connect, Disconnect, LinkChange
<1>3. CASE Connect(p, q)
  <2>1. ASSUME NEW r \in Peer
        PROVE  Greeting(r) \in Seq(Message)
    <3> DEFINE on == <<Subs(peer[r].subs)>>
               rest == IF peer[r].announced THEN <<Announce>> ELSE << >>
    <3>1. Subs(peer[r].subs) \in Message /\ Announce \in Message
      BY MessageTypes DEF TypeOK, PeerState
    <3>2. on \in Seq(Message) /\ rest \in Seq(Message)
      BY <3>1, OneFrame
    <3> HIDE DEF on, rest
    <3>3. on \o rest \in Seq(Message)
      BY <3>2
    <3> QED
      BY <3>3 DEF Greeting, on, rest
  <2>2. chan' \in ChanType
    <3>1. chan' = [chan EXCEPT ![p][q] = Greeting(p), ![q][p] = Greeting(q)]
      BY <1>3 DEF Connect
    <3>2. Greeting(p) \in Seq(Message) /\ Greeting(q) \in Seq(Message)
      BY <2>1
    <3> QED
      BY <1>1, <3>1, <3>2
  <2>3. link' \in [Peer -> SUBSET Peer]
    <3>1. link[p] \cup {q} \in SUBSET Peer /\ link[q] \cup {p} \in SUBSET Peer
      BY <1>1
    <3> QED
      BY <1>1, <1>3, <3>1 DEF Connect
  <2> QED
    BY <1>2, <1>3, <2>2, <2>3 DEF Connect, TypeOK
<1>4. CASE Disconnect(p, q)
  <2>1. chan' \in ChanType
    <3>1. chan' = [chan EXCEPT ![p][q] = << >>, ![q][p] = << >>]
      BY <1>4 DEF Disconnect
    <3>2. << >> \in Seq(Message)
      OBVIOUS
    <3> QED
      BY <1>1, <3>1, <3>2
  <2>2. link' \in [Peer -> SUBSET Peer]
    BY <1>1, <1>4 DEF Disconnect
  <2>3. nbr' \in [Peer -> [Peer -> BOOLEAN]]
    BY <1>1, <1>4 DEF Disconnect
  <2> QED
    BY <1>2, <1>4, <2>1, <2>2, <2>3 DEF Disconnect, TypeOK
<1> QED
  BY <1>3, <1>4

LEMMA NextType == TypeOK /\ [Next]_vars => TypeOK'
<1> SUFFICES ASSUME TypeOK, [Next]_vars
             PROVE  TypeOK'
  OBVIOUS
<1>1. CASE StartWave
  BY <1>1, StartWaveType
<1>2. CASE FinalizeAndStart
  BY <1>2, FinalizeType
<1>3. ASSUME NEW p \in Peer, Local(p)
      PROVE  TypeOK'
  BY <1>3, LocalType
<1>4. ASSUME NEW f \in Peer, NEW p \in Peer, Receive(f, p)
      PROVE  TypeOK'
  BY <1>4, ReceiveType
<1>5. ASSUME NEW f \in Peer, NEW p \in Peer, Connect(f, p) \/ Disconnect(f, p)
      PROVE  TypeOK'
  BY <1>5, LinkType
<1>6. CASE UNCHANGED vars
  BY <1>6 DEF vars, TypeOK
<1> QED
  BY <1>1, <1>2, <1>3, <1>4, <1>5, <1>6 DEF Next

\* Every variable keeps its type, whatever the peers, the mesh and the bounds:
\* every handler of wave.js leaves a well-formed WaveState and well-formed frames.
THEOREM TypeCorrect == Spec => []TypeOK
  BY InitType, NextType, PTL DEF Spec

-----------------------------------------------------------------------------
\* Holding feeds.  CoresHeld speaks of each peer alone and is not inductive by itself:
\* a revived lobby is joined before it is subscribed, and the wave is marked subscribed
\* only where subscriptions has it.  Cores is what every handler preserves, Held what it
\* re-establishes before it returns; g says that the note gate was never cleared.

Cores(p, s) ==
  /\ s.subs = s.open
  /\ s.subscribed => s.subs
  /\ s.foreign = IF s.subs THEN (IF s.subscribed THEN s.writers ELSE s.kept) \ {p} ELSE {}

Gated(p, s) == (s.writers \ {p}) \cup s.foreign \subseteq s.roster

Held(p, s, g) == Cores(p, s) /\ (s.joined => s.subs) /\ (g => Gated(p, s))

Ungated == budget.unsubscribes = 0

FeedInv == \A p \in Peer : Held(p, peer[p], Ungated)

\* subscribe() on a wave that is known holds the feed, joined or not.
LEMMA HoldFeedHolds ==
  ASSUME NEW p \in Peer, NEW s \in PeerState, NEW g \in BOOLEAN,
         Cores(p, s), g => Gated(p, s), s.phase # "none"
  PROVE  Held(p, HoldFeed(p, s), g) /\ HoldFeed(p, s).subs
<1>1. CASE s.subs
  BY <1>1 DEF HoldFeed, Held, Cores
<1>2. CASE ~s.subs
  <2> DEFINE foreign == s.foreign \cup (s.writers \ {p})
             t == [s EXCEPT !.subs = TRUE, !.subscribed = TRUE, !.open = TRUE,
                            !.foreign = foreign]
  <2>1. /\ t.subs = TRUE /\ t.open = TRUE /\ t.subscribed = TRUE
        /\ t.writers = s.writers /\ t.roster = s.roster /\ t.foreign = foreign
    BY DEF PeerState
  <2>2. HoldFeed(p, s) = t
    BY <1>2 DEF HoldFeed
  <2> HIDE DEF t
  <2>3. s.foreign = {}
    BY <1>2 DEF Cores
  <2>4. Cores(p, t)
    BY <2>1, <2>3 DEF Cores
  <2>5. g => Gated(p, t)
    BY <2>1, <2>3 DEF Gated
  <2> QED
    BY <2>1, <2>2, <2>4, <2>5 DEF Held
<1> QED
  BY <1>1, <1>2

\* A lobby entered by a participant - one that started it, or that comes back to
\* the lobby it had joined - is entered with the feed.
LEMMA EnterLobbyHolds ==
  ASSUME NEW p \in Peer, NEW s \in PeerState, NEW g \in BOOLEAN,
         Held(p, s, g), NEW mine \in BOOLEAN
  PROVE  Held(p, EnterLobby(p, s, mine), g)
<1>1. CASE s.phase # "none"
  BY <1>1 DEF EnterLobby
<1>2. CASE s.phase = "none"
  <2> DEFINE joined == mine \/ s.memo # "none"
             w == [s EXCEPT !.phase = "lobby", !.joined = joined,
                            !.signed = s.memo = "signed", !.memo = "none"]
  <2>1. joined \in BOOLEAN /\ (s.memo = "signed") \in BOOLEAN
    OBVIOUS
  <2>2. EnterLobby(p, s, mine) = IF p \in AutoSubscribe \/ w.joined THEN HoldFeed(p, w) ELSE w
    BY <1>2 DEF EnterLobby
  <2> HIDE DEF joined
  <2>3. /\ w \in PeerState /\ w.phase = "lobby"
        /\ w.subs = s.subs /\ w.open = s.open /\ w.subscribed = s.subscribed
        /\ w.writers = s.writers /\ w.foreign = s.foreign
        /\ w.kept = s.kept /\ w.roster = s.roster
    BY <2>1 DEF PeerState
  <2> HIDE DEF w
  <2>4. Cores(p, w) /\ (g => Gated(p, w))
    BY <2>3 DEF Held, Cores, Gated
  <2>5. Held(p, HoldFeed(p, w), g)
    BY <2>3, <2>4, HoldFeedHolds
  <2>6. ~w.joined => Held(p, w, g)
    BY <2>4 DEF Held
  <2> QED
    BY <2>2, <2>5, <2>6
<1> QED
  BY <1>1, <1>2

\* A credential learned comes with its core where the wave is marked subscribed, and
\* with a place in the note gate everywhere.
LEMMA IngestWritersHolds ==
  ASSUME NEW p \in Peer, NEW s \in PeerState, NEW g \in BOOLEAN,
         Held(p, s, g), NEW creds \in SUBSET Peer
  PROVE  Held(p, IngestWriters(p, s, creds), g)
<1> DEFINE new == creds \ s.writers
           foreign == IF s.subscribed /\ s.open THEN s.foreign \cup (new \ {p}) ELSE s.foreign
           t == [s EXCEPT !.writers = @ \cup new, !.roster = @ \cup new, !.foreign = foreign]
<1>1. IngestWriters(p, s, creds) = t
  BY DEF IngestWriters
<1>2. /\ t.subs = s.subs /\ t.open = s.open /\ t.subscribed = s.subscribed
      /\ t.joined = s.joined
      /\ t.writers = s.writers \cup new /\ t.roster = s.roster \cup new
      /\ t.foreign = foreign /\ t.kept = s.kept
  BY DEF PeerState
<1> HIDE DEF t
<1>3. Cores(p, t)
  BY <1>2 DEF Held, Cores
<1>4. g => Gated(p, t)
  BY <1>2 DEF Held, Gated
<1> QED
  BY <1>1, <1>2, <1>3, <1>4 DEF Held

\* Beginning the sweep and going idle leave the feed as it is.
LEMMA BeginSweepHolds ==
  ASSUME NEW p \in Peer, NEW s \in PeerState, NEW g \in BOOLEAN,
         Held(p, s, g), NEW roster, NEW via
  PROVE  Held(p, BeginSweep(p, s, roster, via), g)
<1> DEFINE armed == (p \in roster) /\ s.joined
           t == [s EXCEPT !.phase = "racing", !.schedule = roster, !.via = via,
                          !.slot = armed]
<1>1. BeginSweep(p, s, roster, via) = IF s.phase = "racing" THEN s ELSE t
  BY DEF BeginSweep
<1> HIDE DEF armed
<1>2. /\ t.subs = s.subs /\ t.open = s.open /\ t.subscribed = s.subscribed
      /\ t.joined = s.joined /\ t.writers = s.writers /\ t.foreign = s.foreign
      /\ t.kept = s.kept /\ t.roster = s.roster
  BY DEF PeerState
<1> HIDE DEF t
<1> QED
  BY <1>1, <1>2 DEF Held, Cores, Gated

LEMMA GoIdleHolds ==
  ASSUME NEW p \in Peer, NEW s \in PeerState, NEW g \in BOOLEAN,
         Held(p, s, g), NEW revivable \in BOOLEAN
  PROVE  Held(p, GoIdle(s, revivable), g)
<1> DEFINE t == GoIdle(s, revivable)
<1>1. /\ t.joined = FALSE /\ t.subscribed = FALSE /\ t.subs = s.subs /\ t.open = s.open
      /\ t.writers = {} /\ t.foreign = s.foreign /\ t.roster = s.roster
      /\ t.kept = IF s.subscribed THEN s.writers ELSE s.kept
  BY DEF GoIdle, PeerState
<1> HIDE DEF t
<1>2. Held(p, t, g)
  BY <1>1 DEF Held, Cores, Gated
<1> QED
  BY <1>2 DEF t

\* One peer's record changes at a time.
LEMMA BecomesHolds ==
  ASSUME TypeOK, FeedInv, NEW p \in Peer, NEW t, Held(p, t, Ungated), Becomes(p, t),
         UNCHANGED budget
  PROVE  FeedInv'
<1>1. Ungated' = Ungated
  BY DEF Ungated
<1>2. \A q \in Peer : peer'[q] = IF q = p THEN t ELSE peer[q]
  BY DEF TypeOK, Becomes
<1>3. ASSUME NEW q \in Peer
      PROVE  Held(q, peer'[q], Ungated')
  BY <1>1, <1>2, <1>3 DEF FeedInv
<1> QED
  BY <1>3 DEF FeedInv

\* Whether the gate was ever cleared is a yes or a no.
LEMMA UngatedType == Ungated \in BOOLEAN
BY DEF Ungated

LEMMA LocalHolds ==
  ASSUME TypeOK, FeedInv, NEW p \in Peer, Local(p)
  PROVE  FeedInv'
<1> DEFINE s == peer[p]
<1>1. s \in PeerState /\ Held(p, s, Ungated)
  BY DEF TypeOK, FeedInv
<1>2. Cores(p, s) /\ (Ungated => Gated(p, s))
  BY <1>1 DEF Held
<1>3. CASE Subscribe(p)
  <2>1. s.phase # "none" /\ Becomes(p, HoldFeed(p, s)) /\ UNCHANGED budget
    BY <1>3 DEF Subscribe
  <2>2. Held(p, HoldFeed(p, s), Ungated)
    BY <1>1, <1>2, <2>1, UngatedType, HoldFeedHolds
  <2> QED
    BY <2>1, <2>2, BecomesHolds
<1>4. CASE Join(p)
  <2> DEFINE h == HoldFeed(p, s)
             t == [h EXCEPT !.joined = TRUE, !.opening = TRUE]
  <2>1. s.phase = "lobby" /\ Becomes(p, t) /\ UNCHANGED budget
    BY <1>4 DEF Join
  <2>2. h \in PeerState /\ Held(p, h, Ungated) /\ h.subs
    BY <1>1, <1>2, <2>1, HoldFeedType, UngatedType, HoldFeedHolds
  <2> HIDE DEF h
  <2>3. /\ t.subs = h.subs /\ t.open = h.open /\ t.subscribed = h.subscribed
        /\ t.writers = h.writers /\ t.foreign = h.foreign
        /\ t.kept = h.kept /\ t.roster = h.roster
    BY <2>2 DEF PeerState
  <2> HIDE DEF t
  <2>4. Held(p, t, Ungated)
    BY <2>2, <2>3 DEF Held, Cores, Gated
  <2> QED
    BY <2>1, <2>4, BecomesHolds
<1>5. CASE Unsubscribe(p)
  <2> DEFINE t == [s EXCEPT !.subs = FALSE, !.subscribed = FALSE, !.joined = FALSE,
                            !.open = FALSE, !.foreign = {}, !.roster = {}, !.kept = {}]
  <2>1. Becomes(p, t) /\ budget' = [budget EXCEPT !.unsubscribes = @ + 1]
    BY <1>5 DEF Unsubscribe
  <2>2. /\ t.subs = FALSE /\ t.open = FALSE /\ t.subscribed = FALSE /\ t.joined = FALSE
        /\ t.foreign = {}
    BY <1>1 DEF PeerState
  <2> HIDE DEF t
  <2>3. ~Ungated'
    BY <2>1 DEF TypeOK, Ungated
  <2>4. \A q \in Peer : peer'[q] = IF q = p THEN t ELSE peer[q]
    BY <2>1 DEF TypeOK, Becomes
  <2>5. ASSUME NEW q \in Peer
        PROVE  Held(q, peer'[q], Ungated')
    <3>1. CASE q = p
      BY <2>2, <2>3, <2>4, <3>1 DEF Held, Cores
    <3>2. CASE q # p
      BY <2>3, <2>4, <3>2 DEF FeedInv, Held
    <3> QED
      BY <3>1, <3>2
  <2> QED
    BY <2>5 DEF FeedInv
<1>6. CASE FeedCoreReady(p)
  <2> DEFINE m == JoinFlood(p, s.floods)
             w == [s EXCEPT !.signed = TRUE, !.writers = @ \cup {p},
                            !.roster = @ \cup {p}, !.floods = @ + 1,
                            !.seen = @ \cup {m}]
             stale == s.phase = "none" \/ ~s.joined
             r == IF stale THEN s ELSE w
             t == [r EXCEPT !.opening = FALSE]
  <2>1. Becomes(p, t) /\ UNCHANGED budget
    BY <1>6 DEF FeedCoreReady
  <2>2. DOMAIN w = DOMAIN s
    OBVIOUS
  <2>3. /\ w.subs = s.subs /\ w.open = s.open /\ w.subscribed = s.subscribed
        /\ w.joined = s.joined /\ w.writers = s.writers \cup {p} /\ w.foreign = s.foreign
        /\ w.kept = s.kept /\ w.roster = s.roster \cup {p}
    BY <1>1 DEF PeerState
  <2> HIDE DEF w, stale
  <2>4. /\ t.subs = r.subs /\ t.open = r.open /\ t.subscribed = r.subscribed
        /\ t.joined = r.joined /\ t.writers = r.writers /\ t.foreign = r.foreign
        /\ t.kept = r.kept /\ t.roster = r.roster
    BY <1>1, <2>2 DEF PeerState
  <2>5. Held(p, r, Ungated)
    BY <1>1, <2>3 DEF Held, Cores, Gated
  <2> HIDE DEF r, t
  <2>6. Held(p, t, Ungated)
    BY <2>4, <2>5 DEF Held, Cores, Gated
  <2> QED
    BY <2>1, <2>6, BecomesHolds
<1>7. CASE LobbyTimeout(p)
  <2>1. Becomes(p, GoIdle(s, TRUE)) /\ UNCHANGED budget
    BY <1>7 DEF LobbyTimeout
  <2>2. Held(p, GoIdle(s, TRUE), Ungated)
    BY <1>1, UngatedType, GoIdleHolds
  <2> QED
    BY <2>1, <2>2, BecomesHolds
<1>8. CASE SlotFires(p)
  <2> DEFINE t == [s EXCEPT !.slot = FALSE, !.held = TRUE]
  <2>1. Becomes(p, t) /\ UNCHANGED budget
    BY <1>8 DEF SlotFires
  <2>2. /\ t.subs = s.subs /\ t.open = s.open /\ t.subscribed = s.subscribed
        /\ t.joined = s.joined /\ t.writers = s.writers /\ t.foreign = s.foreign
        /\ t.kept = s.kept /\ t.roster = s.roster
    BY <1>1 DEF PeerState
  <2> HIDE DEF t
  <2>3. Held(p, t, Ungated)
    BY <1>1, <2>2 DEF Held, Cores, Gated
  <2> QED
    BY <2>1, <2>3, BecomesHolds
<1>9. CASE FinishWave(p)
  <2>1. Becomes(p, GoIdle(s, FALSE)) /\ UNCHANGED budget
    BY <1>9 DEF FinishWave
  <2>2. Held(p, GoIdle(s, FALSE), Ungated)
    BY <1>1, UngatedType, GoIdleHolds
  <2> QED
    BY <2>1, <2>2, BecomesHolds
<1> QED
  BY <1>3, <1>4, <1>5, <1>6, <1>7, <1>8, <1>9 DEF Local

LEMMA ReceiveHolds ==
  ASSUME TypeOK, FeedInv, NEW f \in Peer, NEW p \in Peer, Receive(f, p)
  PROVE  FeedInv'
<1> DEFINE m == Head(chan[f][p])
           q == peer[p]
           seen == q.seen \cup {m}
           s == [q EXCEPT !.seen = seen]
<1>1. /\ q \in PeerState
      /\ Held(p, q, Ungated)
      /\ Incoming(f, p)
  BY DEF TypeOK, FeedInv, Receive, RecvSubs, RecvSync, RecvAnnounce, RecvJoin, RecvStart
<1>2. m \in Message
  BY <1>1, IncomingType DEF TypeOK, ChanType
<1>3. /\ m.kind \in {"wave-announce", "wave-join", "wave-start"} => m \in FloodMessage
      /\ m.kind \in {"wave-start", "wave-sync"} => m.writers \in SUBSET Peer
      /\ m.kind = "wave-join" => {m.origin} \in SUBSET Peer
  <2> HIDE DEF m
  <2> QED
    BY <1>2 DEF Message, FloodMessage, Announce
<1> HIDE DEF m
<1>4. m \in FloodMessage => s \in PeerState /\ Held(p, s, Ungated)
  <2> SUFFICES ASSUME m \in FloodMessage
               PROVE  s \in PeerState /\ Held(p, s, Ungated)
    OBVIOUS
  <2>1. seen \in SUBSET FloodMessage
    BY <1>1 DEF PeerState
  <2> HIDE DEF q, seen
  <2>2. /\ s \in PeerState
        /\ s.subs = q.subs /\ s.open = q.open /\ s.subscribed = q.subscribed
        /\ s.joined = q.joined /\ s.writers = q.writers /\ s.foreign = q.foreign
        /\ s.kept = q.kept /\ s.roster = q.roster
    BY <1>1, <2>1 DEF PeerState
  <2> HIDE DEF s
  <2> QED
    BY <1>1, <2>2 DEF Held, Cores, Gated
<1>5. ASSUME UNCHANGED <<peer, budget>>
      PROVE  FeedInv'
  BY <1>5 DEF FeedInv, Ungated
<1>6. CASE RecvSubs(f, p)
  BY <1>5, <1>6 DEF RecvSubs
<1>7. CASE RecvSync(f, p)
  <2> DEFINE e == EnterLobby(p, q, FALSE)
             w == IngestWriters(p, e, m.writers)
             t == IF ~CanAdopt(q) THEN q
                  ELSE IF m.phase = "racing"
                       THEN BeginSweep(p, w, CanonicalRoster(m.writers), "sync")
                       ELSE w
  <2>1. m.kind = "wave-sync" /\ Becomes(p, t) /\ UNCHANGED budget
    BY <1>7 DEF RecvSync, m
  <2>2. e \in PeerState /\ Held(p, e, Ungated)
    BY <1>1, EnterLobbyType, UngatedType, EnterLobbyHolds
  <2> HIDE DEF e
  <2>3. w \in PeerState /\ Held(p, w, Ungated)
    BY <1>3, <2>1, <2>2, IngestWritersType, UngatedType, IngestWritersHolds
  <2> HIDE DEF w
  <2>4. Held(p, t, Ungated)
    BY <1>1, <2>3, UngatedType, BeginSweepHolds
  <2> QED
    BY <2>1, <2>4, BecomesHolds
<1>8. CASE RecvAnnounce(f, p)
  <2> DEFINE e == EnterLobby(p, s, FALSE)
             a == [e EXCEPT !.announced = TRUE]
             t == IF CanAdopt(s) THEN a ELSE s
  <2>1. m = Announce /\ (UNCHANGED peer \/ Becomes(p, t)) /\ UNCHANGED budget
    BY <1>8 DEF RecvAnnounce, m
  <2>2. s \in PeerState /\ Held(p, s, Ungated)
    BY <1>4, <2>1, MessageTypes
  <2> HIDE DEF s
  <2>3. e \in PeerState /\ Held(p, e, Ungated)
    BY <2>2, EnterLobbyType, UngatedType, EnterLobbyHolds
  <2> HIDE DEF e
  <2>4. /\ a.subs = e.subs /\ a.open = e.open /\ a.subscribed = e.subscribed
        /\ a.joined = e.joined /\ a.writers = e.writers /\ a.foreign = e.foreign
        /\ a.kept = e.kept /\ a.roster = e.roster
    BY <2>3 DEF PeerState
  <2> HIDE DEF a
  <2>5. Held(p, a, Ungated)
    BY <2>3, <2>4 DEF Held, Cores, Gated
  <2>6. Held(p, t, Ungated)
    BY <2>2, <2>5
  <2> HIDE DEF t
  <2> QED
    BY <1>5, <2>1, <2>6, BecomesHolds
<1>9. CASE RecvJoin(f, p)
  <2> DEFINE t == IF s.phase = "lobby" THEN IngestWriters(p, s, {m.origin}) ELSE s
  <2>1. m.kind = "wave-join" /\ (UNCHANGED peer \/ Becomes(p, t)) /\ UNCHANGED budget
    BY <1>9 DEF RecvJoin, m
  <2>2. s \in PeerState /\ Held(p, s, Ungated)
    BY <1>3, <1>4, <2>1
  <2> HIDE DEF s
  <2>3. Held(p, t, Ungated)
    BY <1>3, <2>1, <2>2, UngatedType, IngestWritersHolds
  <2> HIDE DEF t
  <2> QED
    BY <1>5, <2>1, <2>3, BecomesHolds
<1>10. CASE RecvStart(f, p)
  <2> DEFINE e == EnterLobby(p, s, FALSE)
             w == IngestWriters(p, e, m.writers)
             t == IF CanAdopt(s)
                  THEN BeginSweep(p, w, CanonicalRoster(m.writers), "start")
                  ELSE s
  <2>1. m.kind = "wave-start" /\ (UNCHANGED peer \/ Becomes(p, t)) /\ UNCHANGED budget
    BY <1>10 DEF RecvStart, m
  <2>2. s \in PeerState /\ Held(p, s, Ungated)
    BY <1>3, <1>4, <2>1
  <2> HIDE DEF s
  <2>3. e \in PeerState /\ Held(p, e, Ungated)
    BY <2>2, EnterLobbyType, UngatedType, EnterLobbyHolds
  <2> HIDE DEF e
  <2>4. w \in PeerState /\ Held(p, w, Ungated)
    BY <1>3, <2>1, <2>3, IngestWritersType, UngatedType, IngestWritersHolds
  <2> HIDE DEF w
  <2>5. Held(p, t, Ungated)
    BY <2>2, <2>4, UngatedType, BeginSweepHolds
  <2> HIDE DEF t
  <2> QED
    BY <1>5, <2>1, <2>5, BecomesHolds
<1> QED
  BY <1>6, <1>7, <1>8, <1>9, <1>10 DEF Receive

LEMMA InitiatorHolds ==
  ASSUME TypeOK, FeedInv, StartWave \/ FinalizeAndStart
  PROVE  FeedInv'
<1> DEFINE p == Initiator
           s == peer[p]
<1>1. p \in Peer /\ s \in PeerState /\ Held(p, s, Ungated)
  BY PeerAssumption DEF TypeOK, FeedInv
<1>2. CASE StartWave
  <2> DEFINE e == EnterLobby(p, s, TRUE)
             t == [e EXCEPT !.announced = TRUE, !.opening = TRUE,
                            !.seen = @ \cup {Announce}]
  <2>1. Becomes(p, t) /\ UNCHANGED budget
    BY <1>2 DEF StartWave
  <2>2. e \in PeerState /\ Held(p, e, Ungated)
    BY <1>1, EnterLobbyType, UngatedType, EnterLobbyHolds
  <2> HIDE DEF p, s, e
  <2>3. /\ t.subs = e.subs /\ t.open = e.open /\ t.subscribed = e.subscribed
        /\ t.joined = e.joined /\ t.writers = e.writers /\ t.foreign = e.foreign
        /\ t.kept = e.kept /\ t.roster = e.roster
    BY <2>2 DEF PeerState
  <2> HIDE DEF t
  <2>4. Held(p, t, Ungated)
    BY <2>2, <2>3 DEF Held, Cores, Gated
  <2> QED
    BY <1>1, <2>1, <2>4, BecomesHolds
<1>3. CASE FinalizeAndStart
  <2>1. PICK keyReady \in BOOLEAN :
          LET writers == IF keyReady THEN s.writers \cup {p} ELSE s.writers
              m == StartFlood(writers)
              w == [s EXCEPT !.signed = @ \/ keyReady, !.writers = writers,
                             !.seen = @ \cup {m}]
          IN  Becomes(p, BeginSweep(p, w, CanonicalRoster(writers), "own"))
    BY <1>3 DEF FinalizeAndStart
  <2>0. UNCHANGED budget
    BY <1>3 DEF FinalizeAndStart
  <2> HIDE DEF p, s
  <2> DEFINE writers == IF keyReady THEN s.writers \cup {p} ELSE s.writers
             m == StartFlood(writers)
             signed == s.signed \/ keyReady
             seen == s.seen \cup {m}
             w == [s EXCEPT !.signed = signed, !.writers = writers, !.seen = seen]
  <2>2. Becomes(p, BeginSweep(p, w, CanonicalRoster(writers), "own"))
    BY <2>1
  <2>3. writers \in SUBSET Peer /\ writers \ {p} = s.writers \ {p}
    BY <1>1 DEF PeerState
  <2> HIDE DEF writers
  <2>4. signed \in BOOLEAN /\ seen \in SUBSET FloodMessage
    BY <1>1, <2>3, MessageTypes DEF PeerState
  <2> HIDE DEF signed, seen
  <2>5. /\ w \in PeerState
        /\ w.subs = s.subs /\ w.open = s.open /\ w.subscribed = s.subscribed
        /\ w.joined = s.joined /\ w.writers = writers /\ w.foreign = s.foreign
        /\ w.kept = s.kept /\ w.roster = s.roster
    BY <1>1, <2>3, <2>4 DEF PeerState
  <2> HIDE DEF w
  <2>6. Held(p, w, Ungated)
    BY <1>1, <2>3, <2>5 DEF Held, Cores, Gated
  <2>7. Held(p, BeginSweep(p, w, CanonicalRoster(writers), "own"), Ungated)
    BY <1>1, <2>5, <2>6, UngatedType, BeginSweepHolds
  <2> QED
    BY <1>1, <2>0, <2>2, <2>7, BecomesHolds
<1> QED
  BY <1>2, <1>3

LEMMA InitHolds == Init => FeedInv
<1>1. \A p \in Peer : Held(p, Fresh, Ungated)
  BY DEF Fresh, Held, Cores, Gated
<1>2. Init => \A p \in Peer : peer[p] = Fresh
  BY DEF Init
<1> QED
  BY <1>1, <1>2 DEF FeedInv

LEMMA NextHolds == TypeOK /\ FeedInv /\ [Next]_vars => FeedInv'
<1> SUFFICES ASSUME TypeOK, FeedInv, [Next]_vars
             PROVE  FeedInv'
  OBVIOUS
<1>1. ASSUME UNCHANGED peer, budget'.unsubscribes = budget.unsubscribes
      PROVE  FeedInv'
  BY <1>1 DEF FeedInv, Ungated
<1>2. CASE StartWave \/ FinalizeAndStart
  BY <1>2, InitiatorHolds
<1>3. ASSUME NEW p \in Peer, Local(p)
      PROVE  FeedInv'
  BY <1>3, LocalHolds
<1>4. ASSUME NEW f \in Peer, NEW p \in Peer, Receive(f, p)
      PROVE  FeedInv'
  BY <1>4, ReceiveHolds
<1>5. ASSUME NEW f \in Peer, NEW p \in Peer, Connect(f, p) \/ Disconnect(f, p)
      PROVE  FeedInv'
  <2>1. UNCHANGED peer /\ budget' = [budget EXCEPT !.links = @ + 1]
    BY <1>5 DEF Connect, Disconnect, LinkChange
  <2> QED
    BY <1>1, <2>1 DEF TypeOK
<1>6. CASE UNCHANGED vars
  BY <1>1, <1>6 DEF vars
<1> QED
  BY <1>2, <1>3, <1>4, <1>5, <1>6 DEF Next

LEMMA FeedInvHolds == Spec => []FeedInv
  BY TypeCorrect, InitHolds, NextHolds, PTL DEF Spec

\* For any peers and any mesh, cores follow subscriptions through unsubscribes, abandoned
\* lobbies and their revival: a participant is subscribed, a subscriber holds its own core
\* and those of all the participants it knows - of those it knew before the time-out, in a
\* lobby it came back to - and nobody else holds any (enterLobby, subscribe, unsubscribe,
\* ingestWriter, goIdle).
THEOREM CoresFollowSubscriptions == Spec => []CoresHeld
<1>1. ASSUME FeedInv, NEW p \in Peer
      PROVE  /\ peer[p].joined => peer[p].subs
             /\ peer[p].open = peer[p].subs
             /\ peer[p].foreign = IF peer[p].subs THEN CoresOf(p) ELSE {}
             /\ Ungated => (peer[p].writers \ {p}) \cup peer[p].foreign \subseteq peer[p].roster
  <2>1. Held(p, peer[p], Ungated)
    BY <1>1 DEF FeedInv
  <2>2. peer[p].foreign = IF peer[p].subs THEN CoresOf(p) ELSE {}
    BY <2>1 DEF Held, Cores, CoresOf
  <2> QED
    BY <2>1, <2>2 DEF Held, Cores, Gated
<1>2. FeedInv => CoresHeld
  BY <1>1 DEF CoresHeld, Ungated
<1> QED
  BY <1>2, FeedInvHolds, PTL

-----------------------------------------------------------------------------
\* What peers tell each other: the inductive invariant.

\* The initiator has not called startWave() yet.
Unstarted == Announce \notin peer[Initiator].seen

\* q was subscribed, as far as anybody may still believe it.
Ever(q) == peer[q].subs \/ budget.unsubscribes > 0

\* What a frame m from p to q may say now.
Frame(p, q, m) ==
  /\ m.kind = "wave-start" => frozen # {} /\ CanonicalRoster(m.writers) = frozen
  /\ m.kind = "wave-sync" /\ m.phase = "racing" =>
       frozen # {} /\ frozen \subseteq CanonicalRoster(m.writers)
  /\ m.kind \in {"wave-join", "wave-start", "wave-sync"} => Ever(q)
  /\ m.kind = "subs" /\ m.on => Ever(p)
  /\ Unstarted => m.kind = "subs"

Sayable(p, q) == {m \in Message : Frame(p, q, m)}

FramesHold == \A p, q \in Peer : chan[p][q] \in Seq(Sayable(p, q))

\* The record s of peer p: a schedule only in a race, which seats the frozen roster and knows
\* all of it, an end only of a race, and its seat in the race armed or behind it.
RaceHolds(p, s) ==
  /\ s.phase # "racing" => s.schedule = {} /\ s.via = "none"
  /\ s.ended => s.phase = "none" /\ frozen # {}
  /\ s.phase = "racing" =>
       /\ frozen # {} /\ frozen \subseteq s.schedule
       /\ frozen \subseteq CanonicalRoster(s.writers)
  /\ s.via \in {"own", "start"} => s.schedule = frozen
  /\ s.phase = "racing" /\ s.joined /\ p \in s.schedule => s.slot \/ s.held
  /\ s.announced => s.phase # "none"

\* The initiator starts the wave before anybody knows of it and freezes once: from then on
\* it races or has ended.
FreezeHolds ==
  /\ Unstarted => frozen = {} /\ \A p \in Peer : peer[p].phase = "none"
  /\ frozen # {} => /\ Initiator \in frozen
                    /\ peer[Initiator].phase = "racing" \/ peer[Initiator].ended

BeliefsHold == \A p, q \in Peer : nbr[p][q] => Ever(q)

GossipInv ==
  /\ FramesHold
  /\ \A p \in Peer : RaceHolds(p, peer[p])
  /\ FreezeHolds
  /\ BeliefsHold

-----------------------------------------------------------------------------
\* What the operators of Wave do to a record that matters here.

\* A record that only grows: nothing seen is unseen, and a race is left by its end only.
Grown(s, t) ==
  /\ s.seen \subseteq t.seen
  /\ s.phase = "racing" \/ s.ended => t.phase = "racing" \/ t.ended

LEMMA HoldFeedRace ==
  ASSUME NEW p \in Peer, NEW s \in PeerState, RaceHolds(p, s)
  PROVE  LET t == HoldFeed(p, s) IN
         /\ RaceHolds(p, t) /\ Grown(s, t) /\ (s.subs => t.subs)
         /\ t.phase = s.phase /\ t.ended = s.ended /\ t.schedule = s.schedule
<1>1. CASE s.phase = "none" \/ s.subs
  BY <1>1 DEF HoldFeed, Grown
<1>2. CASE ~(s.phase = "none" \/ s.subs)
  <2> DEFINE u == s.foreign \cup (s.writers \ {p})
             t == [s EXCEPT !.subs = TRUE, !.subscribed = TRUE, !.open = TRUE, !.foreign = u]
  <2>1. /\ t.phase = s.phase /\ t.ended = s.ended /\ t.schedule = s.schedule
        /\ t.via = s.via /\ t.writers = s.writers /\ t.joined = s.joined /\ t.slot = s.slot
        /\ t.held = s.held /\ t.announced = s.announced /\ t.seen = s.seen /\ t.subs
    BY DEF PeerState
  <2>2. HoldFeed(p, s) = t
    BY <1>2 DEF HoldFeed
  <2> HIDE DEF t
  <2> QED
    BY <2>1, <2>2 DEF RaceHolds, Grown
<1> QED
  BY <1>1, <1>2

LEMMA EnterLobbyRace ==
  ASSUME NEW p \in Peer, NEW s \in PeerState, NEW mine \in BOOLEAN, RaceHolds(p, s), ~s.ended
  PROVE  LET t == EnterLobby(p, s, mine) IN
         /\ RaceHolds(p, t) /\ Grown(s, t) /\ (s.subs => t.subs)
         /\ t.phase = (IF s.phase = "none" THEN "lobby" ELSE s.phase)
         /\ ~t.ended /\ t.schedule = s.schedule
<1>1. CASE s.phase # "none"
  BY <1>1 DEF EnterLobby, Grown
<1>2. CASE s.phase = "none"
  <2> DEFINE w == [s EXCEPT !.phase = "lobby",
                            !.joined = mine \/ s.memo # "none",
                            !.signed = s.memo = "signed",
                            !.memo = "none"]
  <2>1. w \in PeerState
    BY DEF PeerState
  <2>2. /\ w.phase = "lobby" /\ w.ended = s.ended /\ w.schedule = s.schedule
        /\ w.via = s.via /\ w.seen = s.seen /\ w.subs = s.subs
    BY DEF PeerState
  <2>3. EnterLobby(p, s, mine) \in {HoldFeed(p, w), w}
    BY <1>2 DEF EnterLobby
  <2> HIDE DEF w
  <2>4. RaceHolds(p, w) /\ Grown(s, w)
    BY <1>2, <2>2 DEF RaceHolds, Grown
  <2>5. LET t == HoldFeed(p, w) IN
        /\ RaceHolds(p, t) /\ Grown(w, t) /\ (w.subs => t.subs)
        /\ t.phase = w.phase /\ t.ended = w.ended /\ t.schedule = w.schedule
    BY <2>1, <2>4, HoldFeedRace
  <2> QED
    BY <1>2, <2>2, <2>3, <2>4, <2>5 DEF Grown
<1> QED
  BY <1>1, <1>2

LEMMA IngestWritersRace ==
  ASSUME NEW p \in Peer, NEW s \in PeerState, NEW creds \in SUBSET Peer, RaceHolds(p, s)
  PROVE  LET t == IngestWriters(p, s, creds) IN
         /\ RaceHolds(p, t) /\ Grown(s, t) /\ t.subs = s.subs
         /\ t.phase = s.phase /\ t.ended = s.ended /\ t.schedule = s.schedule
         /\ creds \subseteq t.writers
<1> DEFINE t == IngestWriters(p, s, creds)
<1>1. /\ t.phase = s.phase /\ t.ended = s.ended /\ t.schedule = s.schedule
      /\ t.via = s.via /\ t.writers = s.writers \cup creds /\ t.joined = s.joined
      /\ t.slot = s.slot /\ t.held = s.held /\ t.announced = s.announced
      /\ t.seen = s.seen /\ t.subs = s.subs
  BY DEF IngestWriters, PeerState
<1> HIDE DEF t
<1>2. CanonicalRoster(s.writers) \subseteq CanonicalRoster(t.writers)
  BY <1>1 DEF CanonicalRoster
<1>3. RaceHolds(p, t)
  BY <1>1, <1>2 DEF RaceHolds
<1> QED
  BY <1>1, <1>3 DEF Grown, t

\* A race that begins here begins on a roster that seats the frozen one.
LEMMA BeginSweepRace ==
  ASSUME NEW p \in Peer, NEW s \in PeerState, NEW roster \in SUBSET Peer,
         NEW via \in {"own", "start", "sync"}, RaceHolds(p, s), ~s.ended,
         frozen # {}, frozen \subseteq roster, frozen \subseteq CanonicalRoster(s.writers),
         via = "sync" \/ roster = frozen
  PROVE  LET t == BeginSweep(p, s, roster, via) IN
         /\ RaceHolds(p, t) /\ Grown(s, t) /\ t.subs = s.subs
         /\ t.phase = "racing" /\ ~t.ended
         /\ t.schedule = (IF s.phase = "racing" THEN s.schedule ELSE roster)
<1>1. CASE s.phase = "racing"
  BY <1>1 DEF BeginSweep, Grown
<1>2. CASE s.phase # "racing"
  <2> DEFINE armed == p \in roster /\ s.joined
             t == [s EXCEPT !.phase = "racing", !.schedule = roster, !.via = via,
                            !.slot = armed]
  <2>1. BeginSweep(p, s, roster, via) = t
    BY <1>2 DEF BeginSweep
  <2>2. /\ t.phase = "racing" /\ t.ended = s.ended /\ t.schedule = roster
        /\ t.via = via /\ t.writers = s.writers /\ t.joined = s.joined /\ t.slot = armed
        /\ t.seen = s.seen /\ t.subs = s.subs
    BY DEF PeerState
  <2> HIDE DEF t
  <2>3. RaceHolds(p, t)
    BY <2>2 DEF RaceHolds
  <2> QED
    BY <1>2, <2>1, <2>2, <2>3 DEF Grown
<1> QED
  BY <1>1, <1>2

LEMMA GoIdleRace ==
  ASSUME NEW p \in Peer, NEW s \in PeerState, NEW revivable \in BOOLEAN, RaceHolds(p, s),
         s.phase = (IF revivable THEN "lobby" ELSE "racing")
  PROVE  LET t == GoIdle(s, revivable) IN
         /\ RaceHolds(p, t) /\ Grown(s, t) /\ t.subs = s.subs
         /\ t.phase = "none" /\ t.ended = ~revivable /\ t.schedule = {}
<1> DEFINE t == GoIdle(s, revivable)
<1>1. /\ t.phase = "none" /\ t.ended = (s.ended \/ ~revivable) /\ t.schedule = {}
      /\ t.via = "none" /\ ~t.joined /\ ~t.announced /\ t.seen = s.seen /\ t.subs = s.subs
  BY DEF GoIdle, PeerState
<1> HIDE DEF t
<1>2. t.ended = ~revivable
  BY <1>1 DEF RaceHolds
<1>3. RaceHolds(p, t) /\ Grown(s, t)
  BY <1>1, <1>2 DEF RaceHolds, Grown
<1> QED
  BY <1>1, <1>2, <1>3 DEF t

-----------------------------------------------------------------------------
\* Frames.

\* A sequence over a set is one over a larger set.
LEMMA SeqGrows ==
  ASSUME NEW S, NEW T, S \subseteq T
  PROVE  Seq(S) \subseteq Seq(T)
OBVIOUS

\* What could be said before a step that forgets nothing can be said after it.
LEMMA SayableGrows ==
  ASSUME frozen' = frozen, Unstarted' => Unstarted,
         \A q \in Peer : Ever(q) => Ever(q)'
  PROVE  \A p, q \in Peer : Sayable(p, q) \subseteq Sayable(p, q)'
<1> SUFFICES ASSUME NEW p \in Peer, NEW q \in Peer, NEW m \in Message, Frame(p, q, m)
             PROVE  Frame(p, q, m)'
  BY DEF Sayable
<1>1. Ever(p) => Ever(p)'
  OBVIOUS
<1>2. Ever(q) => Ever(q)'
  OBVIOUS
<1> QED
  BY <1>1, <1>2 DEF Frame

\* Where p sends what it may say, the channels hold what may be said.
LEMMA SentHolds ==
  ASSUME NEW p \in Peer, NEW out \in Outs, chan \in ChanType, FramesHold,
         \A a, b \in Peer : Sayable(a, b) \subseteq Sayable(a, b)',
         \A q \in Peer : out[q] \in Seq(Sayable(p, q)')
  PROVE  \A a, b \in Peer : Sent(p, out)[a][b] \in Seq(Sayable(a, b)')
<1> SUFFICES ASSUME NEW a \in Peer, NEW b \in Peer
             PROVE  Sent(p, out)[a][b] \in Seq(Sayable(a, b)')
  OBVIOUS
<1> DEFINE S == Sayable(a, b)'
<1>1. chan[a][b] \in Seq(Sayable(a, b)) /\ Sayable(a, b) \subseteq S
  BY DEF FramesHold
<1>2. a = p => out[b] \in Seq(S)
  OBVIOUS
<1> HIDE DEF S
<1>3. chan[a][b] \in Seq(S)
  BY <1>1, SeqGrows
<1>4. Sent(p, out)[a][b] \in {chan[a][b], chan[a][b] \o out[b]}
      /\ (a # p => Sent(p, out)[a][b] = chan[a][b])
  BY DEF Sent, ChanType
<1>5. a = p => chan[a][b] \o out[b] \in Seq(S)
  BY <1>2, <1>3
<1> QED
  BY <1>3, <1>4, <1>5 DEF S

LEMMA SendHolds ==
  ASSUME NEW p \in Peer, NEW out \in Outs, chan \in ChanType, FramesHold,
         \A a, b \in Peer : Sayable(a, b) \subseteq Sayable(a, b)',
         \A q \in Peer : out[q] \in Seq(Sayable(p, q)'),
         Send(p, out)
  PROVE  FramesHold'
BY SentHolds DEF Send, FramesHold

LEMMA ReplyHolds ==
  ASSUME NEW f \in Peer, NEW p \in Peer, NEW out \in Outs, chan \in ChanType, FramesHold,
         \A a, b \in Peer : Sayable(a, b) \subseteq Sayable(a, b)',
         \A q \in Peer : out[q] \in Seq(Sayable(p, q)'),
         Incoming(f, p), Reply(f, p, out)
  PROVE  FramesHold'
<1> DEFINE sent == Sent(p, out)
<1>1. sent \in ChanType /\ sent[f][p] = chan[f][p]
  BY SentType DEF Sent, Incoming, ChanType
<1>2. \A a, b \in Peer : sent[a][b] \in Seq(Sayable(a, b)')
  BY SentHolds
<1>3. chan' = [sent EXCEPT ![f][p] = Tail(@)]
  BY DEF Reply
<1>4. sent[f][p] # << >>
  BY <1>1 DEF Incoming
<1> HIDE DEF sent
<1> SUFFICES ASSUME NEW a \in Peer, NEW b \in Peer
             PROVE  chan'[a][b] \in Seq(Sayable(a, b)')
  BY DEF FramesHold
<1>5. CASE a = f /\ b = p
  <2> DEFINE S == Sayable(a, b)'
  <2>1. sent[f][p] \in Seq(S)
    BY <1>2, <1>5
  <2> HIDE DEF S
  <2>2. Tail(sent[f][p]) \in Seq(S)
    BY <1>4, <2>1
  <2>3. chan'[a][b] = Tail(sent[f][p])
    BY <1>1, <1>3, <1>5 DEF ChanType
  <2> QED
    BY <2>2, <2>3 DEF S
<1>6. CASE ~(a = f /\ b = p)
  <2>1. chan'[a][b] = sent[a][b]
    BY <1>1, <1>3, <1>6 DEF ChanType
  <2> QED
    BY <1>2, <2>1
<1> QED
  BY <1>5, <1>6

\* The frame a handler takes may be said.
LEMMA IncomingHolds ==
  ASSUME NEW f \in Peer, NEW p \in Peer, chan \in ChanType, FramesHold, Incoming(f, p)
  PROVE  Head(chan[f][p]) \in Message /\ Frame(f, p, Head(chan[f][p]))
<1> DEFINE S == Sayable(f, p)
<1>1. chan[f][p] \in Seq(S) /\ chan[f][p] # << >>
  BY DEF Incoming, FramesHold
<1> HIDE DEF S
<1>2. Head(chan[f][p]) \in S
  BY <1>1
<1> QED
  BY <1>2 DEF S, Sayable

\* The step of a peer that starts and freezes nothing.
LEMMA PeerStep ==
  ASSUME TypeOK, GossipInv, NEW p \in Peer, NEW t, peer' = [peer EXCEPT ![p] = t],
         frozen' = frozen, RaceHolds(p, t), Grown(peer[p], t),
         Unstarted => t.phase = "none",
         \/ (peer[p].subs => t.subs) /\ budget'.unsubscribes = budget.unsubscribes
         \/ budget'.unsubscribes > 0
  PROVE  /\ \A q \in Peer : RaceHolds(q, peer[q])'
         /\ FreezeHolds'
         /\ Unstarted' => Unstarted
         /\ \A q \in Peer : Ever(q) => Ever(q)'
         /\ \A a, b \in Peer : Sayable(a, b) \subseteq Sayable(a, b)'
<1>1. \A q \in Peer : peer'[q] = IF q = p THEN t ELSE peer[q]
  BY DEF TypeOK
<1>2. \A q \in Peer : RaceHolds(q, peer[q])'
  BY <1>1 DEF RaceHolds, GossipInv
<1>3. Unstarted' => Unstarted
  BY <1>1, PeerAssumption DEF Unstarted, Grown
<1>4. \A q \in Peer : Ever(q) => Ever(q)'
  BY <1>1 DEF Ever, TypeOK
<1>5. \A a, b \in Peer : Sayable(a, b) \subseteq Sayable(a, b)'
  BY <1>3, <1>4, SayableGrows
<1>6. FreezeHolds'
  <2>1. Unstarted' => frozen' = {} /\ \A q \in Peer : peer'[q].phase = "none"
    BY <1>1, <1>3 DEF FreezeHolds, GossipInv
  <2>2. frozen' # {} => /\ Initiator \in frozen'
                        /\ peer'[Initiator].phase = "racing" \/ peer'[Initiator].ended
    BY <1>1, PeerAssumption DEF FreezeHolds, GossipInv, Grown
  <2> QED
    BY <2>1, <2>2 DEF FreezeHolds
<1> QED
  BY <1>2, <1>3, <1>4, <1>5, <1>6

\* What each helper puts on a channel.
LEMMA OutsIn ==
  ASSUME NEW p \in Peer, NEW q \in Peer, NEW S, NEW m
  PROVE  /\ Silence[q] \in Seq(S)
         /\ \A x : (nbr[p][q] => m \in S) => ScopedTo(p, m, x)[q] \in Seq(S)
         /\ \A x : m \in S => DirectoryTo(m, x)[q] \in Seq(S)
         /\ \A s, t : (t.subs /\ ~s.subs => Subs(TRUE) \in S) /\ (nbr[p][q] => m \in S)
                        => SubscribeSends(p, s, t, m)[q] \in Seq(S)
         /\ \A o1, o2 \in Outs : o1[q] \in Seq(S) /\ o2[q] \in Seq(S) => Then(o1, o2)[q] \in Seq(S)
<1>1. << >> \in Seq(S) /\ (\A x \in S : <<x>> \in Seq(S))
  OBVIOUS
<1>2. \A c, d \in Seq(S) : c \o d \in Seq(S)
  OBVIOUS
<1>3. Silence[q] \in Seq(S)
  BY <1>1 DEF Silence
<1>4. \A x : (nbr[p][q] => m \in S) => ScopedTo(p, m, x)[q] \in Seq(S)
  BY <1>1 DEF ScopedTo
<1>5. \A x : m \in S => DirectoryTo(m, x)[q] \in Seq(S)
  BY <1>1 DEF DirectoryTo
<1>6. ASSUME NEW s, NEW t, t.subs /\ ~s.subs => Subs(TRUE) \in S, nbr[p][q] => m \in S
      PROVE  SubscribeSends(p, s, t, m)[q] \in Seq(S)
  <2> DEFINE on == <<Subs(TRUE)>>
             rest == IF nbr[p][q] THEN <<m>> ELSE << >>
  <2>1. CASE t.subs /\ ~s.subs
    <3>1. on \in Seq(S) /\ rest \in Seq(S)
      BY <1>1, <1>6, <2>1
    <3> HIDE DEF on, rest
    <3>2. on \o rest \in Seq(S)
      BY <1>2, <3>1
    <3> QED
      BY <2>1, <3>2 DEF SubscribeSends, on, rest
  <2>2. CASE ~(t.subs /\ ~s.subs)
    BY <1>1, <2>2 DEF SubscribeSends
  <2> QED
    BY <2>1, <2>2
<1>7. \A o1, o2 \in Outs : o1[q] \in Seq(S) /\ o2[q] \in Seq(S) => Then(o1, o2)[q] \in Seq(S)
  BY <1>2 DEF Then
<1> QED
  BY <1>3, <1>4, <1>5, <1>6, <1>7

\* What each frame asks of the state after the step that sends it.
LEMMA Says ==
  ASSUME NEW p \in Peer, NEW q \in Peer
  PROVE  /\ Ever(p)' => Subs(TRUE) \in Sayable(p, q)'
         /\ Subs(FALSE) \in Sayable(p, q)'
         /\ ~Unstarted' => Announce \in Sayable(p, q)'
         /\ ~Unstarted' /\ Ever(q)' =>
              /\ \A w \in SUBSET Peer : WaveSync("lobby", w) \in Sayable(p, q)'
              /\ \A w \in SUBSET Peer :
                   frozen' # {} /\ frozen' \subseteq CanonicalRoster(w)
                     => WaveSync("racing", w) \in Sayable(p, q)'
              /\ \A o \in Peer, n \in Nat : JoinFlood(o, n) \in Sayable(p, q)'
              /\ \A w \in SUBSET Peer :
                   frozen' # {} /\ frozen' = CanonicalRoster(w)
                     => StartFlood(w) \in Sayable(p, q)'
<1> USE DEF Sayable, Frame
<1>1. Ever(p)' => Subs(TRUE) \in Sayable(p, q)'
  BY MessageTypes DEF Subs
<1>2. Subs(FALSE) \in Sayable(p, q)'
  BY MessageTypes DEF Subs
<1>3. ~Unstarted' => Announce \in Sayable(p, q)'
  BY MessageTypes DEF Announce
<1>4. ASSUME ~Unstarted', Ever(q)', NEW w \in SUBSET Peer
      PROVE  /\ WaveSync("lobby", w) \in Sayable(p, q)'
             /\ frozen' # {} /\ frozen' \subseteq CanonicalRoster(w)
                  => WaveSync("racing", w) \in Sayable(p, q)'
             /\ frozen' # {} /\ frozen' = CanonicalRoster(w)
                  => StartFlood(w) \in Sayable(p, q)'
  <2>1. WaveSync("lobby", w) \in Sayable(p, q)'
    BY <1>4, MessageTypes DEF WaveSync
  <2>2. frozen' # {} /\ frozen' \subseteq CanonicalRoster(w)
          => WaveSync("racing", w) \in Sayable(p, q)'
    BY <1>4, MessageTypes DEF WaveSync
  <2>3. StartFlood(w) \in Message
    BY MessageTypes
  <2>4. frozen' # {} /\ frozen' = CanonicalRoster(w) => StartFlood(w) \in Sayable(p, q)'
    BY <1>4, <2>3 DEF StartFlood
  <2> QED
    BY <2>1, <2>2, <2>4
<1>5. ASSUME ~Unstarted', Ever(q)', NEW o \in Peer, NEW n \in Nat
      PROVE  JoinFlood(o, n) \in Sayable(p, q)'
  <2>1. JoinFlood(o, n) \in Message
    BY MessageTypes
  <2> QED
    BY <1>5, <2>1 DEF JoinFlood
<1> QED
  BY <1>1, <1>2, <1>3, <1>4, <1>5

-----------------------------------------------------------------------------
\* The steps.

LEMMA InitGossip == Init => GossipInv
<1> SUFFICES ASSUME Init PROVE GossipInv
  OBVIOUS
<1>1. \A p \in Peer : peer[p] = Fresh
  BY DEF Init
<1>2. FramesHold
  BY DEF Init, FramesHold
<1>3. \A p \in Peer : RaceHolds(p, peer[p])
  <2>1. /\ Fresh.phase = "none" /\ Fresh.schedule = {} /\ Fresh.via = "none"
        /\ ~Fresh.ended /\ ~Fresh.announced
    BY DEF Fresh
  <2>2. ASSUME NEW p \in Peer
        PROVE  RaceHolds(p, Fresh)
    BY <2>1 DEF RaceHolds
  <2> QED
    BY <1>1, <2>2
<1>4. FreezeHolds
  BY <1>1 DEF Init, FreezeHolds, Fresh
<1>5. BeliefsHold
  BY DEF Init, BeliefsHold
<1> QED
  BY <1>2, <1>3, <1>4, <1>5 DEF GossipInv

\* Telling the neighbours of a subscription, with a snapshot of the wave.
LEMMA SnapshotHolds ==
  ASSUME TypeOK, GossipInv, NEW p \in Peer, peer[p].phase # "none", frozen' = frozen,
         \A q \in Peer : Ever(q) => Ever(q)', Unstarted' => Unstarted,
         NEW t, t.subs => Ever(p)'
  PROVE  LET m == WaveSync(peer[p].phase, peer[p].writers) IN
         /\ m \in Message
         /\ \A q \in Peer : Ever(q) => m \in Sayable(p, q)'
         /\ \A q \in Peer : SubscribeSends(p, peer[p], t, m)[q] \in Seq(Sayable(p, q)')
<1> DEFINE s == peer[p]
           m == WaveSync(s.phase, s.writers)
<1>1. s \in PeerState /\ s.phase \in {"lobby", "racing"} /\ s.writers \in SUBSET Peer
  BY DEF TypeOK, PeerState
<1>2. m \in Message
  BY <1>1, MessageTypes
<1>3. s.phase = "racing" => frozen # {} /\ frozen \subseteq CanonicalRoster(s.writers)
  BY DEF GossipInv, RaceHolds
<1>4. ~Unstarted'
  BY DEF GossipInv, FreezeHolds
<1>5. \A q \in Peer : Ever(q) => m \in Sayable(p, q)'
  BY <1>1, <1>3, <1>4, Says
<1>6. \A q \in Peer : nbr[p][q] => m \in Sayable(p, q)'
  BY <1>5 DEF GossipInv, BeliefsHold
<1>7. t.subs => \A q \in Peer : Subs(TRUE) \in Sayable(p, q)'
  BY Says
<1> HIDE DEF m, s
<1> DEFINE S(q) == Sayable(p, q)'
<1> SUFFICES ASSUME NEW q \in Peer
             PROVE  SubscribeSends(p, peer[p], t, m)[q] \in Seq(S(q))
  BY <1>2, <1>5 DEF m, s
<1>8. (t.subs => Subs(TRUE) \in S(q)) /\ (nbr[p][q] => m \in S(q))
  BY <1>6, <1>7
<1> HIDE DEF S
<1> QED
  BY <1>8, OutsIn

\* The calls of the user and what this peer's own timers and core do.
LEMMA LocalGossip ==
  ASSUME TypeOK, GossipInv, NEW p \in Peer, Local(p)
  PROVE  GossipInv'
<1> DEFINE s == peer[p]
<1>1. /\ s \in PeerState /\ chan \in ChanType /\ RaceHolds(p, s)
      /\ FramesHold /\ FreezeHolds /\ BeliefsHold
      /\ budget.unsubscribes \in Nat
  BY DEF TypeOK, ChanType, GossipInv
<1>2. Unstarted => s.phase = "none"
  BY <1>1 DEF FreezeHolds
<1>3. frozen' = frozen /\ nbr' = nbr
  BY DEF Local, Subscribe, Join, Unsubscribe, FeedCoreReady, LobbyTimeout, SlotFires, FinishWave
<1>4. ASSUME \A q \in Peer : Ever(q) => Ever(q)'
      PROVE  BeliefsHold'
  BY <1>1, <1>3, <1>4 DEF BeliefsHold
<1>5. ASSUME NEW t, peer' = [peer EXCEPT ![p] = t], RaceHolds(p, t), Grown(s, t),
             Unstarted => t.phase = "none", s.subs => t.subs, UNCHANGED <<chan, budget>>
      PROVE  GossipInv'
  <2>1. /\ \A q \in Peer : RaceHolds(q, peer[q])'
        /\ FreezeHolds'
        /\ \A q \in Peer : Ever(q) => Ever(q)'
        /\ \A a, b \in Peer : Sayable(a, b) \subseteq Sayable(a, b)'
    BY <1>3, <1>5, PeerStep
  <2>2. FramesHold'
    BY <1>1, <1>5, <2>1, SeqGrows DEF FramesHold
  <2> QED
    BY <1>4, <2>1, <2>2 DEF GossipInv
<1>6. CASE Subscribe(p)
  <2> DEFINE t == HoldFeed(p, s)
             out == SubscribeSends(p, s, t, WaveSync(s.phase, s.writers))
  <2>1. s.phase # "none" /\ Becomes(p, t) /\ Send(p, out) /\ UNCHANGED budget
    BY <1>6 DEF Subscribe
  <2>2. /\ RaceHolds(p, t) /\ Grown(s, t) /\ (s.subs => t.subs) /\ t.phase = s.phase
    BY <1>1, HoldFeedRace
  <2> HIDE DEF t
  <2>3. /\ \A q \in Peer : RaceHolds(q, peer[q])'
        /\ FreezeHolds' /\ (Unstarted' => Unstarted)
        /\ \A q \in Peer : Ever(q) => Ever(q)'
        /\ \A a, b \in Peer : Sayable(a, b) \subseteq Sayable(a, b)'
    BY <1>2, <1>3, <2>1, <2>2, PeerStep DEF Becomes
  <2>4. t.subs => Ever(p)'
    BY <2>1 DEF Becomes, Ever, TypeOK
  <2>5. out \in Outs /\ \A q \in Peer : out[q] \in Seq(Sayable(p, q)')
    BY <1>3, <2>1, <2>3, <2>4, SnapshotHolds, OutTypes
  <2> HIDE DEF out
  <2>6. FramesHold'
    BY <1>1, <2>1, <2>3, <2>5, SendHolds
  <2> QED
    BY <1>4, <2>3, <2>6 DEF GossipInv
<1>7. CASE Join(p)
  <2> DEFINE h == HoldFeed(p, s)
             t == [h EXCEPT !.joined = TRUE, !.opening = TRUE]
             out == SubscribeSends(p, s, t, WaveSync(s.phase, s.writers))
  <2>1. s.phase = "lobby" /\ Becomes(p, t) /\ Send(p, out) /\ UNCHANGED budget
    BY <1>7 DEF Join
  <2>2. h \in PeerState /\ RaceHolds(p, h) /\ Grown(s, h) /\ (s.subs => h.subs)
        /\ h.phase = s.phase
    BY <1>1, HoldFeedType, HoldFeedRace
  <2> HIDE DEF h
  <2>3. /\ t.phase = h.phase /\ t.ended = h.ended /\ t.schedule = h.schedule /\ t.via = h.via
        /\ t.writers = h.writers /\ t.announced = h.announced /\ t.seen = h.seen
        /\ t.subs = h.subs
    BY <2>2 DEF PeerState
  <2> HIDE DEF t
  <2>4. RaceHolds(p, t) /\ Grown(s, t) /\ (s.subs => t.subs) /\ t.phase = s.phase
    BY <2>1, <2>2, <2>3 DEF RaceHolds, Grown
  <2>5. /\ \A q \in Peer : RaceHolds(q, peer[q])'
        /\ FreezeHolds' /\ (Unstarted' => Unstarted)
        /\ \A q \in Peer : Ever(q) => Ever(q)'
        /\ \A a, b \in Peer : Sayable(a, b) \subseteq Sayable(a, b)'
    BY <1>2, <1>3, <2>1, <2>4, PeerStep DEF Becomes
  <2>6. t.subs => Ever(p)'
    BY <2>1 DEF Becomes, Ever, TypeOK
  <2>7. out \in Outs /\ \A q \in Peer : out[q] \in Seq(Sayable(p, q)')
    BY <1>3, <2>1, <2>5, <2>6, SnapshotHolds, OutTypes
  <2> HIDE DEF out
  <2>8. FramesHold'
    BY <1>1, <2>1, <2>5, <2>7, SendHolds
  <2> QED
    BY <1>4, <2>5, <2>8 DEF GossipInv
<1>8. CASE Unsubscribe(p)
  <2> DEFINE t == [s EXCEPT !.subs = FALSE, !.subscribed = FALSE, !.joined = FALSE,
                            !.open = FALSE, !.foreign = {}, !.roster = {}, !.kept = {}]
             out == [q \in Peer |-> <<Subs(FALSE)>>]
  <2>1. Becomes(p, t) /\ Send(p, out) /\ budget'.unsubscribes = budget.unsubscribes + 1
    BY <1>8 DEF Unsubscribe, TypeOK
  <2>2. /\ t.phase = s.phase /\ t.ended = s.ended /\ t.schedule = s.schedule /\ t.via = s.via
        /\ t.writers = s.writers /\ t.announced = s.announced /\ t.seen = s.seen /\ ~t.joined
    BY <1>1 DEF PeerState
  <2> HIDE DEF t
  <2>3. RaceHolds(p, t) /\ Grown(s, t)
    BY <1>1, <2>2 DEF RaceHolds, Grown
  <2>a. budget'.unsubscribes > 0
    BY <1>1, <2>1
  <2>b. Unstarted => t.phase = "none"
    BY <1>2, <2>2
  <2>c. peer' = [peer EXCEPT ![p] = t]
    BY <2>1 DEF Becomes
  <2>4. /\ \A q \in Peer : RaceHolds(q, peer[q])'
        /\ FreezeHolds'
        /\ \A q \in Peer : Ever(q) => Ever(q)'
        /\ \A a, b \in Peer : Sayable(a, b) \subseteq Sayable(a, b)'
    BY <1>3, <2>3, <2>a, <2>b, <2>c, PeerStep
  <2>5. out \in Outs
    BY MessageTypes, OneFrame DEF Outs
  <2>6. \A q \in Peer : out[q] \in Seq(Sayable(p, q)')
    <3> SUFFICES ASSUME NEW q \in Peer PROVE out[q] \in Seq(Sayable(p, q)')
      OBVIOUS
    <3> DEFINE S == Sayable(p, q)'
    <3>1. Subs(FALSE) \in S
      BY Says
    <3> HIDE DEF S
    <3>2. \A x \in S : <<x>> \in Seq(S)
      OBVIOUS
    <3> QED
      BY <3>1, <3>2 DEF S
  <2> HIDE DEF out
  <2>7. FramesHold'
    BY <1>1, <2>1, <2>4, <2>5, <2>6, SendHolds
  <2> QED
    BY <1>4, <2>4, <2>7 DEF GossipInv
<1>9. CASE FeedCoreReady(p)
  <2> DEFINE m == JoinFlood(p, s.floods)
             t == [s EXCEPT !.signed = TRUE, !.writers = @ \cup {p},
                            !.roster = @ \cup {p}, !.floods = @ + 1,
                            !.seen = @ \cup {m}]
             stale == s.phase = "none" \/ ~s.joined
             r == [(IF stale THEN s ELSE t) EXCEPT !.opening = FALSE]
             out == IF stale THEN Silence ELSE ScopedTo(p, m, p)
  <2>1. Becomes(p, r) /\ Send(p, out) /\ UNCHANGED budget
    BY <1>9 DEF FeedCoreReady
  <2>2. m \in Message /\ s.floods \in Nat
    BY <1>1, MessageTypes DEF PeerState
  <2> HIDE DEF m
  <2>3. /\ r.phase = s.phase /\ r.ended = s.ended /\ r.schedule = s.schedule /\ r.via = s.via
        /\ s.writers \subseteq r.writers /\ r.announced = s.announced
        /\ s.seen \subseteq r.seen /\ r.joined = s.joined /\ r.slot = s.slot
        /\ r.held = s.held /\ r.subs = s.subs
    BY <1>1 DEF PeerState
  <2> HIDE DEF r
  <2>4. CanonicalRoster(s.writers) \subseteq CanonicalRoster(r.writers)
    BY <2>3 DEF CanonicalRoster
  <2>5. RaceHolds(p, r) /\ Grown(s, r)
    BY <1>1, <2>3, <2>4 DEF RaceHolds, Grown
  <2>6. /\ \A q \in Peer : RaceHolds(q, peer[q])'
        /\ FreezeHolds' /\ (Unstarted' => Unstarted)
        /\ \A q \in Peer : Ever(q) => Ever(q)'
        /\ \A a, b \in Peer : Sayable(a, b) \subseteq Sayable(a, b)'
    BY <1>2, <1>3, <2>1, <2>3, <2>5, PeerStep DEF Becomes
  <2>7. out \in Outs
    BY <2>2, OutTypes
  <2>8. \A q \in Peer : out[q] \in Seq(Sayable(p, q)')
    <3> SUFFICES ASSUME NEW q \in Peer PROVE out[q] \in Seq(Sayable(p, q)')
      OBVIOUS
    <3> DEFINE S == Sayable(p, q)'
    <3>1. CASE stale
      BY <3>1, OutsIn
    <3>2. CASE ~stale
      <4>1. nbr[p][q] => m \in S
        BY <1>1, <1>2, <2>2, <2>6, <3>2, Says DEF BeliefsHold, m
      <4> HIDE DEF S
      <4>2. ScopedTo(p, m, p)[q] \in Seq(S)
        BY <4>1, OutsIn
      <4> QED
        BY <3>2, <4>2 DEF S
    <3> QED
      BY <3>1, <3>2
  <2> HIDE DEF out
  <2>9. FramesHold'
    BY <1>1, <2>1, <2>6, <2>7, <2>8, SendHolds
  <2> QED
    BY <1>4, <2>6, <2>9 DEF GossipInv
<1>10. CASE LobbyTimeout(p)
  <2> DEFINE t == GoIdle(s, TRUE)
  <2>1. s.phase = "lobby" /\ peer' = [peer EXCEPT ![p] = t] /\ UNCHANGED <<chan, budget>>
    BY <1>10 DEF LobbyTimeout, Becomes
  <2>2. RaceHolds(p, t) /\ Grown(s, t) /\ t.subs = s.subs /\ t.phase = "none"
    BY <1>1, <2>1, GoIdleRace
  <2> HIDE DEF t
  <2> QED
    BY <1>5, <2>1, <2>2
<1>11. CASE SlotFires(p)
  <2> DEFINE t == [s EXCEPT !.slot = FALSE, !.held = TRUE]
  <2>1. Becomes(p, t) /\ UNCHANGED <<chan, budget>>
    BY <1>11 DEF SlotFires
  <2>2. /\ t.phase = s.phase /\ t.ended = s.ended /\ t.schedule = s.schedule /\ t.via = s.via
        /\ t.writers = s.writers /\ t.announced = s.announced /\ t.seen = s.seen
        /\ t.subs = s.subs /\ t.held
    BY <1>1 DEF PeerState
  <2> HIDE DEF t
  <2>3. RaceHolds(p, t) /\ Grown(s, t)
    BY <1>1, <2>2 DEF RaceHolds, Grown
  <2> QED
    BY <1>2, <1>5, <2>1, <2>2, <2>3 DEF Becomes
<1>12. CASE FinishWave(p)
  <2> DEFINE t == GoIdle(s, FALSE)
  <2>1. s.phase = "racing" /\ peer' = [peer EXCEPT ![p] = t] /\ UNCHANGED <<chan, budget>>
    BY <1>12 DEF FinishWave, Becomes
  <2>2. RaceHolds(p, t) /\ Grown(s, t) /\ t.subs = s.subs /\ t.phase = "none"
    BY <1>1, <2>1, GoIdleRace
  <2> HIDE DEF t
  <2> QED
    BY <1>5, <2>1, <2>2
<1> QED
  BY <1>6, <1>7, <1>8, <1>9, <1>10, <1>11, <1>12 DEF Local

\* The initiator announces its wave: nobody had heard of it.
LEMMA StartWaveGossip ==
  ASSUME TypeOK, GossipInv, StartWave
  PROVE  GossipInv'
<1> DEFINE p == Initiator
           s == peer[p]
           e == EnterLobby(p, s, TRUE)
           t == [e EXCEPT !.announced = TRUE, !.opening = TRUE,
                          !.seen = @ \cup {Announce}]
           sync == WaveSync("lobby", {})
           told == SubscribeSends(p, s, t, sync)
           flood == DirectoryTo(Announce, p)
           out == Then(told, flood)
<1>1. /\ p \in Peer /\ s \in PeerState /\ chan \in ChanType /\ RaceHolds(p, s)
      /\ FramesHold /\ FreezeHolds /\ BeliefsHold
  BY PeerAssumption DEF TypeOK, ChanType, GossipInv
<1>2. /\ Unstarted /\ peer' = [peer EXCEPT ![p] = t] /\ Send(p, out)
      /\ UNCHANGED <<nbr, frozen, budget>>
  BY DEF StartWave, Unstarted, Becomes
<1>3. frozen = {} /\ s.phase = "none" /\ ~s.ended
  BY <1>1, <1>2 DEF FreezeHolds, RaceHolds
<1>4. e \in PeerState /\ RaceHolds(p, e) /\ e.phase = "lobby" /\ (s.subs => e.subs)
      /\ ~e.ended /\ e.schedule = s.schedule
  BY <1>1, <1>3, EnterLobbyType, EnterLobbyRace
<1> HIDE DEF e
<1>5. /\ t.phase = "lobby" /\ t.ended = e.ended /\ t.schedule = e.schedule /\ t.via = e.via
      /\ t.subs = e.subs /\ Announce \in t.seen
  BY <1>4 DEF PeerState
<1> HIDE DEF t
<1>6. \A q \in Peer : peer'[q] = IF q = p THEN t ELSE peer[q]
  BY <1>2 DEF TypeOK
<1> HIDE DEF p
<1>7. \A q \in Peer : RaceHolds(q, peer[q])'
  BY <1>2, <1>4, <1>5, <1>6 DEF RaceHolds, GossipInv
<1>8. ~Unstarted'
  BY <1>1, <1>5, <1>6 DEF Unstarted, p
<1>9. FreezeHolds'
  BY <1>2, <1>3, <1>8 DEF FreezeHolds
<1>10. \A q \in Peer : Ever(q) => Ever(q)'
  BY <1>2, <1>4, <1>5, <1>6 DEF Ever
<1>11. BeliefsHold'
  BY <1>1, <1>2, <1>10 DEF BeliefsHold
<1>12. \A a, b \in Peer : Sayable(a, b) \subseteq Sayable(a, b)'
  BY <1>2, <1>8, <1>10, SayableGrows
<1>13. /\ sync \in Message /\ Announce \in Message
       /\ told \in Outs /\ flood \in Outs /\ out \in Outs
  BY <1>1, MessageTypes, OutTypes
<1>14. ASSUME NEW q \in Peer
       PROVE  out[q] \in Seq(Sayable(p, q)')
  <2> DEFINE S == Sayable(p, q)'
  <2>1. t.subs => Subs(TRUE) \in S
    BY <1>1, <1>6, Says DEF Ever
  <2>2. nbr[p][q] => sync \in S
    BY <1>1, <1>8, <1>10, Says DEF BeliefsHold
  <2>3. Announce \in S
    BY <1>1, <1>8, Says
  <2> HIDE DEF S, sync, s
  <2>4. told[q] \in Seq(S) /\ flood[q] \in Seq(S)
    BY <1>1, <2>1, <2>2, <2>3, OutsIn
  <2> HIDE DEF told, flood
  <2> QED
    BY <1>1, <1>13, <2>4, OutsIn DEF S
<1> HIDE DEF out
<1>15. FramesHold'
  BY <1>1, <1>2, <1>12, <1>13, <1>14, SendHolds
<1> QED
  BY <1>7, <1>9, <1>11, <1>15 DEF GossipInv

\* The initiator closes its lobby: nobody races yet, and the start says what it froze.
LEMMA FinalizeGossip ==
  ASSUME TypeOK, GossipInv, FinalizeAndStart
  PROVE  GossipInv'
<1> DEFINE p == Initiator
           s == peer[p]
<1>1. /\ p \in Peer /\ s \in PeerState /\ chan \in ChanType /\ RaceHolds(p, s)
      /\ FramesHold /\ FreezeHolds /\ BeliefsHold
  BY PeerAssumption DEF TypeOK, ChanType, GossipInv
<1>2. PICK keyReady \in BOOLEAN :
        LET writers == IF keyReady THEN s.writers \cup {p} ELSE s.writers
            m == StartFlood(writers)
            w == [s EXCEPT !.signed = @ \/ keyReady, !.writers = writers,
                           !.seen = @ \cup {m}]
        IN  /\ frozen' = CanonicalRoster(writers)
            /\ Becomes(p, BeginSweep(p, w, CanonicalRoster(writers), "own"))
            /\ Send(p, ScopedTo(p, m, p))
  BY DEF FinalizeAndStart
<1>3. s.phase = "lobby" /\ UNCHANGED <<nbr, budget>>
  BY DEF FinalizeAndStart
<1>4. ~Unstarted /\ frozen = {}
  BY <1>1, <1>3 DEF FreezeHolds, RaceHolds
<1> DEFINE writers == IF keyReady THEN s.writers \cup {p} ELSE s.writers
           m == StartFlood(writers)
           signed == s.signed \/ keyReady
           w == [s EXCEPT !.signed = signed, !.writers = writers, !.seen = @ \cup {m}]
           roster == CanonicalRoster(writers)
           t == BeginSweep(p, w, roster, "own")
           out == ScopedTo(p, m, p)
<1>5. frozen' = roster /\ peer' = [peer EXCEPT ![p] = t] /\ Send(p, out)
  BY <1>2 DEF Becomes
<1>6. writers \in SUBSET Peer
  BY <1>1 DEF PeerState
<1> HIDE DEF writers
<1>7. m \in Message
  BY <1>6, MessageTypes
<1> HIDE DEF m
<1>8. /\ w.phase = "lobby" /\ w.ended = s.ended /\ w.writers = writers /\ w.joined = s.joined
      /\ w.subs = s.subs /\ s.seen \subseteq w.seen /\ w.announced = s.announced
      /\ w.schedule = s.schedule
  BY <1>1, <1>3 DEF PeerState
<1> DEFINE armed == p \in roster /\ w.joined
<1>9. t = [w EXCEPT !.phase = "racing", !.schedule = roster, !.via = "own", !.slot = armed]
  BY <1>8 DEF BeginSweep
<1>10. /\ t.phase = "racing" /\ t.schedule = roster /\ t.via = "own"
       /\ t.slot = armed /\ t.writers = writers /\ t.joined = s.joined /\ t.ended = s.ended
       /\ t.subs = s.subs /\ s.seen \subseteq t.seen
  BY <1>1, <1>8, <1>9 DEF PeerState
<1> HIDE DEF t, w
<1>11. \A q \in Peer : peer'[q] = IF q = p THEN t ELSE peer[q]
  BY <1>5 DEF TypeOK
<1>12. p \in roster /\ ~s.ended
  BY <1>1, <1>3 DEF CanonicalRoster, RaceHolds
<1>13. \A q \in Peer : RaceHolds(q, peer[q])'
  <2> SUFFICES ASSUME NEW q \in Peer PROVE RaceHolds(q, peer[q])'
    OBVIOUS
  <2>1. CASE q = p
    BY <1>5, <1>8, <1>10, <1>11, <1>12, <2>1 DEF RaceHolds
  <2>2. CASE q # p
    <3>1. RaceHolds(q, peer[q]) /\ peer'[q] = peer[q]
      BY <1>11, <2>2 DEF GossipInv
    <3> QED
      BY <1>4, <3>1 DEF RaceHolds
  <2> QED
    BY <2>1, <2>2
<1>14. ~Unstarted'
  BY <1>1, <1>4, <1>10, <1>11 DEF Unstarted
<1>15. FreezeHolds'
  BY <1>1, <1>5, <1>10, <1>11, <1>12, <1>14 DEF FreezeHolds
<1>16. \A q \in Peer : Ever(q) => Ever(q)'
  BY <1>3, <1>10, <1>11 DEF Ever
<1>17. BeliefsHold'
  BY <1>1, <1>3, <1>16 DEF BeliefsHold
<1>18. \A a, b \in Peer : Sayable(a, b) \subseteq Sayable(a, b)'
  BY <1>4, <1>14, <1>16 DEF Sayable, Frame
<1>19. out \in Outs
  BY <1>1, <1>7, OutTypes
<1>20. ASSUME NEW q \in Peer
       PROVE  out[q] \in Seq(Sayable(p, q)')
  <2> DEFINE S == Sayable(p, q)'
  <2>1. nbr[p][q] => m \in S
    BY <1>1, <1>5, <1>6, <1>12, <1>14, <1>16, Says DEF BeliefsHold, m
  <2> HIDE DEF S
  <2>2. out[q] \in Seq(S)
    BY <1>1, <2>1, OutsIn
  <2> QED
    BY <2>2 DEF S
<1> HIDE DEF out
<1>21. FramesHold'
  BY <1>1, <1>5, <1>18, <1>19, <1>20, SendHolds
<1> QED
  BY <1>13, <1>15, <1>17, <1>21 DEF GossipInv

\* What handling a frame does to the peer that handles it: it believes what may be said.
LEMMA ReceiveGossip ==
  ASSUME TypeOK, GossipInv, NEW f \in Peer, NEW p \in Peer, Receive(f, p)
  PROVE  GossipInv'
<1> DEFINE m == Head(chan[f][p])
           q == peer[p]
           s == [q EXCEPT !.seen = @ \cup {m}]
           fresh == WaveSync("lobby", {})
<1>1. /\ Incoming(f, p)
      /\ q \in PeerState /\ chan \in ChanType /\ RaceHolds(p, q)
      /\ FramesHold /\ FreezeHolds /\ BeliefsHold
  BY DEF TypeOK, ChanType, GossipInv, Receive, RecvSubs, RecvSync, RecvAnnounce, RecvJoin,
         RecvStart
<1>2. m \in Message /\ Frame(f, p, m)
  BY <1>1, IncomingHolds
<1>3. UNCHANGED <<frozen, budget>>
  BY DEF Receive, RecvSubs, RecvSync, RecvAnnounce, RecvJoin, RecvStart
<1>4. fresh \in Message
  BY MessageTypes
<1>5. /\ m.kind \in {"wave-announce", "wave-join", "wave-start"} => m \in FloodMessage
      /\ m.kind = "subs" => m.on \in BOOLEAN
      /\ m.kind = "wave-sync" => m.phase \in {"lobby", "racing"} /\ m.writers \in SUBSET Peer
      /\ m.kind = "wave-join" => m.origin \in Peer /\ m.n \in Nat /\ m = JoinFlood(m.origin, m.n)
      /\ m.kind = "wave-start" => m.writers \in SUBSET Peer /\ m = StartFlood(m.writers)
  <2> HIDE DEF m
  <2> QED
    BY <1>2 DEF Message, FloodMessage, Announce, JoinFlood, StartFlood
<1> HIDE DEF m
\* A frame seen for the first time is marked.
<1>6. /\ s.phase = q.phase /\ s.ended = q.ended /\ s.schedule = q.schedule /\ s.via = q.via
      /\ s.writers = q.writers /\ s.joined = q.joined /\ s.slot = q.slot /\ s.held = q.held
      /\ s.announced = q.announced /\ s.subs = q.subs /\ q.seen \subseteq s.seen
  BY <1>1 DEF PeerState
<1>7. m \in FloodMessage => s \in PeerState
  <2> SUFFICES ASSUME m \in FloodMessage
               PROVE  s \in PeerState
    OBVIOUS
  <2>1. q.seen \cup {m} \in SUBSET FloodMessage
    BY <1>1 DEF PeerState
  <2> HIDE DEF q
  <2> QED
    BY <1>1, <2>1 DEF PeerState
<1> HIDE DEF s
<1>8. RaceHolds(p, s) /\ Grown(q, s)
  BY <1>1, <1>6 DEF RaceHolds, Grown
\* The step of a handler that turns q into t and answers with out, a frame of a wave.
<1>9. ASSUME NEW t, Becomes(p, t), nbr' = nbr, m.kind # "subs",
             RaceHolds(p, t), Grown(q, t), q.subs => t.subs,
             NEW out \in Outs, Reply(f, p, out),
             ASSUME NEW r \in Peer, ~Unstarted', nbr[p][r] => Ever(r)', t.subs => Ever(p)'
             PROVE  out[r] \in Seq(Sayable(p, r)')
      PROVE  GossipInv'
  <2>1. ~Unstarted
    BY <1>2, <1>9 DEF Frame
  <2>2. peer' = [peer EXCEPT ![p] = t]
    BY <1>9 DEF Becomes
  <2>3. /\ \A r \in Peer : RaceHolds(r, peer[r])'
        /\ FreezeHolds' /\ (Unstarted' => Unstarted)
        /\ \A r \in Peer : Ever(r) => Ever(r)'
        /\ \A a, b \in Peer : Sayable(a, b) \subseteq Sayable(a, b)'
    BY <1>3, <1>9, <2>1, <2>2, PeerStep
  <2>4. BeliefsHold'
    BY <1>1, <1>9, <2>3 DEF BeliefsHold
  <2>5. t.subs => Ever(p)'
    BY <2>2 DEF Ever, TypeOK
  <2>6. \A r \in Peer : nbr[p][r] => Ever(r)'
    BY <1>1, <2>3 DEF BeliefsHold
  <2>7. \A r \in Peer : out[r] \in Seq(Sayable(p, r)')
    BY <1>9, <2>1, <2>3, <2>5, <2>6
  <2>8. FramesHold'
    BY <1>1, <1>9, <2>3, <2>7, ReplyHolds
  <2> QED
    BY <2>3, <2>4, <2>8 DEF GossipInv
\* The one that has seen the frame does nothing.
<1>10. ASSUME Reply(f, p, Silence), UNCHANGED peer, nbr' = nbr, m.kind # "subs"
       PROVE  GossipInv'
  <2>1. Becomes(p, q)
    BY <1>10 DEF Becomes, TypeOK
  <2>2. Silence \in Outs /\ \A r \in Peer : Silence[r] \in Seq(Sayable(p, r)')
    BY OutTypes, OutsIn
  <2>3. Grown(q, q)
    BY DEF Grown
  <2> HIDE DEF q
  <2> QED
    BY <1>1, <1>9, <1>10, <2>1, <2>2, <2>3
<1>11. CASE RecvSubs(f, p)
  <2> DEFINE sync == WaveSync(q.phase, q.writers)
             mutual == m.on /\ ~nbr[p][f] /\ q.subs /\ q.phase # "none"
             out == [r \in Peer |-> IF mutual /\ r = f THEN <<sync>> ELSE << >>]
  <2>1. /\ m.kind = "subs" /\ nbr' = [nbr EXCEPT ![p][f] = m.on] /\ Reply(f, p, out)
        /\ UNCHANGED peer
    BY <1>11 DEF RecvSubs, m
  <2>2. m.on => Ever(f)
    BY <1>2, <2>1 DEF Frame
  <2>3. /\ Unstarted' <=> Unstarted
        /\ \A r \in Peer : Ever(r) <=> Ever(r)'
    BY <1>3, <2>1 DEF Unstarted, Ever
  <2>4. \A a, b \in Peer : Sayable(a, b) \subseteq Sayable(a, b)'
    BY <1>3, <2>3, SayableGrows
  <2>5. \A r \in Peer : RaceHolds(r, peer[r])'
    BY <1>3, <2>1 DEF RaceHolds, GossipInv
  <2>6. FreezeHolds'
    BY <1>1, <1>3, <2>1, <2>3 DEF FreezeHolds
  <2>7. BeliefsHold'
    <3> SUFFICES ASSUME NEW a \in Peer, NEW b \in Peer, nbr'[a][b]
                 PROVE  Ever(b)'
      BY DEF BeliefsHold
    <3>1. nbr[a][b] \/ (b = f /\ m.on)
      BY <2>1 DEF TypeOK
    <3> QED
      BY <1>1, <2>2, <2>3, <3>1 DEF BeliefsHold
  <2>8. mutual => /\ sync \in Message
                  /\ sync \in Sayable(p, f)'
    <3> SUFFICES ASSUME mutual PROVE sync \in Message /\ sync \in Sayable(p, f)'
      OBVIOUS
    <3>1. q.phase # "none" /\ Ever(f)
      BY <2>2
    <3>2. LET w == WaveSync(peer[p].phase, peer[p].writers) IN
          w \in Message /\ \A r \in Peer : Ever(r) => w \in Sayable(p, r)'
      <4> DEFINE t == [subs |-> FALSE]
      <4>1. t.subs => Ever(p)'
        OBVIOUS
      <4> HIDE DEF t
      <4> QED
        BY <1>3, <2>3, <3>1, <4>1, SnapshotHolds
    <3> QED
      BY <3>1, <3>2
  <2>9. out \in Outs /\ \A r \in Peer : out[r] \in Seq(Sayable(p, r)')
    <3> HIDE DEF sync, mutual
    <3>1. mutual => <<sync>> \in Seq(Message)
      BY <2>8
    <3>2. out \in Outs
      BY <3>1 DEF Outs
    <3>3. ASSUME NEW r \in Peer
          PROVE  out[r] \in Seq(Sayable(p, r)')
      <4> DEFINE S == Sayable(p, r)'
      <4>1. mutual /\ r = f => sync \in S
        BY <2>8
      <4> HIDE DEF S
      <4>2. << >> \in Seq(S) /\ \A x \in S : <<x>> \in Seq(S)
        OBVIOUS
      <4> QED
        BY <4>1, <4>2 DEF S
    <3> QED
      BY <3>2, <3>3
  <2> HIDE DEF out
  <2>10. FramesHold'
    BY <1>1, <2>1, <2>4, <2>9, ReplyHolds
  <2> QED
    BY <2>5, <2>6, <2>7, <2>10 DEF GossipInv
\* What a handler tells of a subscription of its own.
<1>12. ASSUME NEW t, NEW u, NEW r \in Peer, t.subs => Ever(p)', nbr[p][r] => Ever(r)', ~Unstarted'
       PROVE  SubscribeSends(p, u, t, fresh)[r] \in Seq(Sayable(p, r)')
  <2> DEFINE S == Sayable(p, r)'
  <2>1. /\ t.subs => Subs(TRUE) \in S
        /\ nbr[p][r] => fresh \in S
    BY <1>12, Says
  <2> HIDE DEF S, fresh
  <2> QED
    BY <2>1, OutsIn DEF S
<1> HIDE DEF fresh
<1>13. CASE RecvSync(f, p)
  <2> DEFINE e == EnterLobby(p, q, FALSE)
             w == IngestWriters(p, e, m.writers)
             t == IF ~CanAdopt(q) THEN q
                  ELSE IF m.phase = "racing"
                       THEN BeginSweep(p, w, CanonicalRoster(m.writers), "sync")
                       ELSE w
             out == SubscribeSends(p, q, t, fresh)
  <2>1. m.kind = "wave-sync" /\ Becomes(p, t) /\ Reply(f, p, out) /\ nbr' = nbr
    BY <1>13 DEF RecvSync, m, fresh
  <2>2. RaceHolds(p, t) /\ Grown(q, t) /\ (q.subs => t.subs)
    <3>1. CASE ~CanAdopt(q)
      BY <1>1, <3>1 DEF Grown
    <3>2. CASE CanAdopt(q)
      <4>1. /\ e \in PeerState /\ RaceHolds(p, e) /\ Grown(q, e) /\ (q.subs => e.subs)
            /\ ~e.ended
        BY <1>1, <3>2, EnterLobbyType, EnterLobbyRace DEF CanAdopt
      <4> HIDE DEF e
      <4>2. /\ w \in PeerState /\ RaceHolds(p, w) /\ Grown(e, w) /\ w.subs = e.subs
            /\ w.ended = e.ended /\ m.writers \subseteq w.writers
        BY <1>5, <2>1, <4>1, IngestWritersType, IngestWritersRace
      <4> HIDE DEF w
      <4>3. CASE m.phase = "racing"
        <5> DEFINE roster == CanonicalRoster(m.writers)
        <5>1. roster \in SUBSET Peer /\ frozen # {} /\ frozen \subseteq roster
          BY <1>2, <1>5, <2>1, <4>3, CanonicalRosterType DEF Frame
        <5>2. frozen \subseteq CanonicalRoster(w.writers)
          BY <4>2, <5>1 DEF CanonicalRoster
        <5> HIDE DEF roster
        <5>3. LET b == BeginSweep(p, w, roster, "sync") IN
              RaceHolds(p, b) /\ Grown(w, b) /\ b.subs = w.subs
          BY <4>1, <4>2, <5>1, <5>2, BeginSweepRace
        <5>4. t = BeginSweep(p, w, roster, "sync")
          BY <3>2, <4>3 DEF roster
        <5> QED
          BY <4>1, <4>2, <5>3, <5>4 DEF Grown
      <4>4. CASE m.phase # "racing"
        BY <3>2, <4>1, <4>2, <4>4 DEF Grown
      <4> QED
        BY <4>3, <4>4
    <3> QED
      BY <3>1, <3>2
  <2> HIDE DEF t
  <2>3. out \in Outs
    BY <1>4, OutTypes
  <2> QED
    BY <1>9, <1>12, <2>1, <2>2, <2>3
<1>14. CASE RecvAnnounce(f, p)
  <2> DEFINE e == EnterLobby(p, s, FALSE)
             t == IF CanAdopt(s) THEN [e EXCEPT !.announced = TRUE] ELSE s
             relay == DirectoryTo(Announce, f)
             told == SubscribeSends(p, s, t, fresh)
             out == Then(relay, told)
  <2>1. m = Announce /\ nbr' = nbr
    BY <1>14 DEF RecvAnnounce, m
  <2>6. m.kind # "subs"
    BY <2>1 DEF Announce
  <2>7. s = [peer[p] EXCEPT !.seen = @ \cup {Announce}]
    BY <2>1 DEF s
  <2>8. IF Announce \in q.seen
        THEN Reply(f, p, Silence) /\ UNCHANGED peer
        ELSE Becomes(p, t) /\ Reply(f, p, out)
    BY <1>14, <2>7 DEF RecvAnnounce, fresh
  <2>2. s \in PeerState
    BY <1>7, <2>1, MessageTypes
  <2>3. RaceHolds(p, t) /\ Grown(q, t) /\ (q.subs => t.subs)
    <3>1. CASE ~CanAdopt(s)
      BY <1>6, <1>8, <3>1
    <3>2. CASE CanAdopt(s)
      <4>1. /\ e \in PeerState /\ RaceHolds(p, e) /\ Grown(s, e) /\ (s.subs => e.subs)
            /\ e.phase = (IF s.phase = "none" THEN "lobby" ELSE s.phase) /\ ~e.ended
        BY <1>8, <2>2, <3>2, EnterLobbyType, EnterLobbyRace DEF CanAdopt
      <4> HIDE DEF e
      <4>2. /\ t.phase = e.phase /\ t.ended = e.ended /\ t.schedule = e.schedule
            /\ t.via = e.via /\ t.writers = e.writers /\ t.joined = e.joined
            /\ t.slot = e.slot /\ t.held = e.held /\ t.seen = e.seen /\ t.subs = e.subs
        BY <3>2, <4>1 DEF PeerState
      <4> HIDE DEF t
      <4>3. t.phase # "none"
        BY <4>1, <4>2
      <4>4. RaceHolds(p, t)
        BY <4>1, <4>2, <4>3 DEF RaceHolds
      <4> QED
        BY <1>6, <1>8, <4>1, <4>2, <4>4 DEF Grown
    <3> QED
      BY <3>1, <3>2
  <2> HIDE DEF t
  <2>4. relay \in Outs /\ told \in Outs /\ out \in Outs
    BY <1>4, MessageTypes, OutTypes
  <2>5. ASSUME NEW r \in Peer, ~Unstarted', nbr[p][r] => Ever(r)', t.subs => Ever(p)'
        PROVE  out[r] \in Seq(Sayable(p, r)')
    <3> DEFINE S == Sayable(p, r)'
    <3>1. Announce \in S /\ told[r] \in Seq(S)
      BY <1>12, <2>5, Says
    <3> HIDE DEF S, told
    <3>2. relay[r] \in Seq(S)
      BY <3>1, OutsIn
    <3> HIDE DEF relay
    <3> QED
      BY <2>4, <3>1, <3>2, OutsIn DEF S
  <2> HIDE DEF out
  <2> QED
    BY <1>9, <1>10, <2>1, <2>3, <2>4, <2>5, <2>6, <2>8
\* A scoped flood is relayed as it came.
<1>15. ASSUME NEW r \in Peer, m.kind \in {"wave-join", "wave-start"}, nbr[p][r] => Ever(r)',
              ~Unstarted'
       PROVE  ScopedTo(p, m, f)[r] \in Seq(Sayable(p, r)')
  <2> DEFINE S == Sayable(p, r)'
  <2>1. m.kind = "wave-start" => frozen' # {} /\ frozen' = CanonicalRoster(m.writers)
    BY <1>2, <1>3 DEF Frame
  <2>2. nbr[p][r] => m \in S
    BY <1>5, <1>15, <2>1, Says
  <2> HIDE DEF S
  <2> QED
    BY <2>2, OutsIn DEF S
<1>16. CASE RecvJoin(f, p)
  <2> DEFINE t == IF s.phase = "lobby" THEN IngestWriters(p, s, {m.origin}) ELSE s
             out == ScopedTo(p, m, f)
  <2>1. /\ m.kind = "wave-join" /\ nbr' = nbr
        /\ IF m \in q.seen
           THEN Reply(f, p, Silence) /\ UNCHANGED peer
           ELSE Becomes(p, t) /\ Reply(f, p, out)
    BY <1>16 DEF RecvJoin, m, s
  <2>2. s \in PeerState /\ {m.origin} \in SUBSET Peer
    BY <1>5, <1>7, <2>1
  <2>3. RaceHolds(p, t) /\ Grown(q, t) /\ (q.subs => t.subs)
    BY <1>6, <1>8, <2>2, IngestWritersRace DEF Grown
  <2> HIDE DEF t
  <2>4. out \in Outs
    BY <1>2, OutTypes
  <2> QED
    BY <1>9, <1>10, <1>15, <2>1, <2>3, <2>4
<1>17. CASE RecvStart(f, p)
  <2> DEFINE e == EnterLobby(p, s, FALSE)
             w == IngestWriters(p, e, m.writers)
             roster == CanonicalRoster(m.writers)
             t == IF CanAdopt(s) THEN BeginSweep(p, w, roster, "start") ELSE s
             relay == ScopedTo(p, m, f)
             told == SubscribeSends(p, s, t, fresh)
             out == Then(relay, told)
  <2>1. /\ m.kind = "wave-start" /\ nbr' = nbr
        /\ IF m \in q.seen
           THEN Reply(f, p, Silence) /\ UNCHANGED peer
           ELSE Becomes(p, t) /\ Reply(f, p, out)
    BY <1>17 DEF RecvStart, m, s, fresh
  <2>2. /\ s \in PeerState /\ roster \in SUBSET Peer /\ m.writers \in SUBSET Peer
        /\ frozen # {} /\ roster = frozen
    BY <1>2, <1>5, <1>7, <2>1, CanonicalRosterType DEF Frame
  <2>3. RaceHolds(p, t) /\ Grown(q, t) /\ (q.subs => t.subs)
    <3>1. CASE ~CanAdopt(s)
      BY <1>6, <1>8, <3>1
    <3>2. CASE CanAdopt(s)
      <4>1. /\ e \in PeerState /\ RaceHolds(p, e) /\ Grown(s, e) /\ (s.subs => e.subs)
            /\ ~e.ended
        BY <1>8, <2>2, <3>2, EnterLobbyType, EnterLobbyRace DEF CanAdopt
      <4> HIDE DEF e
      <4>2. /\ w \in PeerState /\ RaceHolds(p, w) /\ Grown(e, w) /\ w.subs = e.subs
            /\ w.ended = e.ended /\ m.writers \subseteq w.writers
        BY <2>2, <4>1, IngestWritersType, IngestWritersRace
      <4> HIDE DEF w
      <4>3. frozen \subseteq CanonicalRoster(w.writers)
        BY <2>2, <4>2 DEF CanonicalRoster
      <4> HIDE DEF roster
      <4>4. LET b == BeginSweep(p, w, roster, "start") IN
            RaceHolds(p, b) /\ Grown(w, b) /\ b.subs = w.subs
        BY <2>2, <4>1, <4>2, <4>3, BeginSweepRace
      <4> QED
        BY <1>6, <1>8, <3>2, <4>1, <4>2, <4>4 DEF Grown
    <3> QED
      BY <3>1, <3>2
  <2> HIDE DEF t
  <2>4. relay \in Outs /\ told \in Outs /\ out \in Outs
    BY <1>2, <1>4, OutTypes
  <2>5. ASSUME NEW r \in Peer, ~Unstarted', nbr[p][r] => Ever(r)', t.subs => Ever(p)'
        PROVE  out[r] \in Seq(Sayable(p, r)')
    <3> DEFINE S == Sayable(p, r)'
    <3>1. told[r] \in Seq(S) /\ relay[r] \in Seq(S)
      BY <1>12, <1>15, <2>1, <2>5
    <3> HIDE DEF S, told, relay
    <3> QED
      BY <2>4, <3>1, OutsIn DEF S
  <2> HIDE DEF out
  <2> QED
    BY <1>9, <1>10, <2>1, <2>3, <2>4, <2>5
<1> QED
  BY <1>11, <1>13, <1>14, <1>16, <1>17 DEF Receive

\* Connections: a greeting says what its sender is, a closed channel says nothing.
LEMMA LinkGossip ==
  ASSUME TypeOK, GossipInv, NEW p \in Peer, NEW q \in Peer, Connect(p, q) \/ Disconnect(p, q)
  PROVE  GossipInv'
<1>1. /\ chan \in ChanType /\ nbr \in [Peer -> [Peer -> BOOLEAN]]
      /\ FramesHold /\ FreezeHolds /\ BeliefsHold
  BY DEF TypeOK, ChanType, GossipInv
<1>2. UNCHANGED <<peer, frozen>> /\ budget'.unsubscribes = budget.unsubscribes
  BY DEF Connect, Disconnect, LinkChange, TypeOK
<1>3. /\ Unstarted' <=> Unstarted
      /\ \A r \in Peer : Ever(r)' <=> Ever(r)
  BY <1>2 DEF Unstarted, Ever
<1>4. \A a, b \in Peer : Sayable(a, b) \subseteq Sayable(a, b)'
  BY <1>2, <1>3, SayableGrows
<1>5. \A r \in Peer : RaceHolds(r, peer[r])'
  BY <1>2 DEF RaceHolds, GossipInv
<1>6. FreezeHolds'
  BY <1>1, <1>2, <1>3 DEF FreezeHolds
<1>7. BeliefsHold'
  <2> SUFFICES ASSUME NEW a \in Peer, NEW b \in Peer, nbr'[a][b]
               PROVE  Ever(b)'
    BY DEF BeliefsHold
  <2>1. nbr[a][b]
    BY <1>1 DEF Connect, Disconnect
  <2> QED
    BY <1>1, <1>3, <2>1 DEF BeliefsHold
<1>8. ASSUME NEW a \in Peer, NEW b \in Peer
      PROVE  chan[a][b] \in Seq(Sayable(a, b)') /\ << >> \in Seq(Sayable(a, b)')
  <2> DEFINE S == Sayable(a, b)
             T == Sayable(a, b)'
  <2>1. chan[a][b] \in Seq(S) /\ S \subseteq T
    BY <1>1, <1>4 DEF FramesHold
  <2> HIDE DEF S, T
  <2>2. chan[a][b] \in Seq(T) /\ << >> \in Seq(T)
    BY <2>1, SeqGrows
  <2> QED
    BY <2>2 DEF T
<1>9. ASSUME NEW a \in Peer, NEW b \in Peer
      PROVE  Greeting(a) \in Seq(Sayable(a, b)')
  <2> DEFINE S == Sayable(a, b)'
             on == <<Subs(peer[a].subs)>>
             rest == IF peer[a].announced THEN <<Announce>> ELSE << >>
  <2>1. Subs(peer[a].subs) \in S
    <3>1. peer[a].subs \in BOOLEAN
      BY DEF TypeOK, PeerState
    <3>2. peer[a].subs => Ever(a)'
      BY <1>3 DEF Ever
    <3>3. CASE peer[a].subs = TRUE
      BY <3>2, <3>3, Says
    <3>4. CASE peer[a].subs = FALSE
      BY <3>4, Says
    <3> QED
      BY <3>1, <3>3, <3>4
  <2>2. peer[a].announced => Announce \in S
    <3>1. peer[a].announced => ~Unstarted
      BY <1>1 DEF RaceHolds, GossipInv, FreezeHolds
    <3> QED
      BY <1>3, <3>1, Says
  <2> HIDE DEF S
  <2>3. on \in Seq(S) /\ rest \in Seq(S)
    <3>1. << >> \in Seq(S) /\ \A x \in S : <<x>> \in Seq(S)
      OBVIOUS
    <3> QED
      BY <2>1, <2>2, <3>1
  <2> HIDE DEF on, rest
  <2>4. on \o rest \in Seq(S)
    BY <2>3
  <2> QED
    BY <2>4 DEF Greeting, S, on, rest
<1>10. CASE Connect(p, q)
  <2>1. chan' = [chan EXCEPT ![p][q] = Greeting(p), ![q][p] = Greeting(q)]
    BY <1>10 DEF Connect
  <2>2. \A a, b \in Peer : chan'[a][b] \in {chan[a][b], Greeting(a)}
    BY <1>1, <2>1 DEF ChanType
  <2> QED
    BY <1>5, <1>6, <1>7, <1>8, <1>9, <2>2 DEF GossipInv, FramesHold
<1>11. CASE Disconnect(p, q)
  <2>1. chan' = [chan EXCEPT ![p][q] = << >>, ![q][p] = << >>]
    BY <1>11 DEF Disconnect
  <2>2. \A a, b \in Peer : chan'[a][b] \in {chan[a][b], << >>}
    BY <1>1, <2>1 DEF ChanType
  <2> QED
    BY <1>5, <1>6, <1>7, <1>8, <2>2 DEF GossipInv, FramesHold
<1> QED
  BY <1>10, <1>11

LEMMA NextGossip == TypeOK /\ GossipInv /\ [Next]_vars => GossipInv'
<1> SUFFICES ASSUME TypeOK, GossipInv, [Next]_vars
             PROVE  GossipInv'
  OBVIOUS
<1>1. CASE StartWave
  BY <1>1, StartWaveGossip
<1>2. CASE FinalizeAndStart
  BY <1>2, FinalizeGossip
<1>3. ASSUME NEW p \in Peer, Local(p)
      PROVE  GossipInv'
  BY <1>3, LocalGossip
<1>4. ASSUME NEW f \in Peer, NEW p \in Peer, Receive(f, p)
      PROVE  GossipInv'
  BY <1>4, ReceiveGossip
<1>5. ASSUME NEW f \in Peer, NEW p \in Peer, Connect(f, p) \/ Disconnect(f, p)
      PROVE  GossipInv'
  BY <1>5, LinkGossip
<1>6. CASE UNCHANGED vars
  BY <1>6 DEF vars, GossipInv, FramesHold, RaceHolds, FreezeHolds, BeliefsHold, Sayable,
              Frame, Ever, Unstarted
<1> QED
  BY <1>1, <1>2, <1>3, <1>4, <1>5, <1>6 DEF Next

\* Frames in flight say only what is so, and every peer's race is the frozen one: the
\* inductive invariant the theorems below rest on.
THEOREM GossipInvariant == Spec => [](TypeOK /\ GossipInv)
<1>1. Spec => []TypeOK
  BY TypeCorrect
<1>2. Init => GossipInv
  BY InitGossip
<1>3. TypeOK /\ GossipInv /\ [Next]_vars => GossipInv'
  BY NextGossip
<1> QED
  BY <1>1, <1>2, <1>3, PTL DEF Spec

\* Until somebody unsubscribes, joins, starts and syncs are in flight to subscribers only,
\* whoever relays them and however connections come and go (floodWave, relayWave).
THEOREM GossipStaysScoped == Spec => []ScopedGossip
<1>1. TypeOK /\ GossipInv => ScopedGossip
  <2> SUFFICES ASSUME TypeOK, GossipInv, NEW p \in Peer, NEW q \in Peer,
                      NEW k \in 1 .. Len(chan[p][q]),
                      chan[p][q][k].kind \in {"wave-join", "wave-start", "wave-sync"}
               PROVE  peer[q].subs \/ budget.unsubscribes > 0
    BY DEF ScopedGossip
  <2> DEFINE S == Sayable(p, q)
  <2>1. chan[p][q] \in Seq(S)
    BY DEF GossipInv, FramesHold
  <2> HIDE DEF S
  <2>2. chan[p][q][k] \in S
    BY <2>1
  <2> QED
    BY <2>2 DEF S, Sayable, Frame, Ever
<1> QED
  BY <1>1, GossipInvariant, PTL

\* Whoever races seats everybody the initiator froze, whoever heard the start itself walks the
\* very roster of the initiator, and a racing peer that is seated and joined has its moment
\* armed or behind it (finalizeAndStart, handleWaveStart, handleWaveSync, beginSweep).
THEOREM FrozenRosterIsHonoured == Spec => []RosterHonoured
<1>1. TypeOK /\ GossipInv => RosterHonoured
  BY DEF GossipInv, RaceHolds, RosterHonoured, FrozenSeated, StartAgreement, SeatArmed
<1> QED
  BY <1>1, GossipInvariant, PTL

-----------------------------------------------------------------------------
\* Wave implements Lifecycle.

LifeOf(s) ==
  IF s.ended THEN "ended" ELSE IF s.phase = "none" THEN "unaware" ELSE s.phase

\* The record s of p became t in a step that Lifecycle takes for p, or in none of its steps.
Lived(p, s, t) ==
  \/ LifeOf(t) = LifeOf(s) /\ t.schedule = s.schedule
  \/ LifeOf(s) = "unaware" /\ LifeOf(t) = "lobby" /\ t.schedule = s.schedule
  \/ /\ p # Initiator
     /\ LifeOf(s) = "lobby" /\ LifeOf(t) = "unaware" /\ t.schedule = s.schedule
  \/ /\ p # Initiator
     /\ LifeOf(s) \in {"unaware", "lobby"} /\ LifeOf(t) = "racing"
     /\ frozen # {} /\ frozen \subseteq t.schedule
  \/ LifeOf(s) = "racing" /\ LifeOf(t) = "ended" /\ t.schedule = {}

LEMMA LivedStep ==
  ASSUME TypeOK, TypeOK', NEW p \in Peer, NEW t, peer' = [peer EXCEPT ![p] = t],
         frozen' = frozen, Lived(p, peer[p], t)
  PROVE  [Abstract!Next]_(Abstract!vars)
<1> DEFINE life == [r \in Peer |-> Life(r)]
           seats == [r \in Peer |-> peer[r].schedule]
<1>1. \A r \in Peer : peer'[r] = IF r = p THEN t ELSE peer[r]
  BY DEF TypeOK
<1>2. life' = [life EXCEPT ![p] = LifeOf(t)] /\ life[p] = LifeOf(peer[p])
  <2>1. life' = [r \in Peer |-> Life(r)']
    OBVIOUS
  <2>2. \A r \in Peer : Life(r)' = IF r = p THEN LifeOf(t) ELSE Life(r)
    BY <1>1 DEF Life, LifeOf
  <2> QED
    BY <2>1, <2>2 DEF Life, LifeOf
<1>3. seats' = [seats EXCEPT ![p] = t.schedule] /\ seats[p] = peer[p].schedule
  <2>1. seats' = [r \in Peer |-> peer'[r].schedule]
    OBVIOUS
  <2>2. \A r \in Peer : peer'[r].schedule = IF r = p THEN t.schedule ELSE peer[r].schedule
    BY <1>1
  <2> QED
    BY <2>1, <2>2
<1>4. t.schedule \in SUBSET Peer
  BY <1>1 DEF TypeOK, PeerState
<1>5. life \in [Peer -> {life[r] : r \in Peer}] /\ seats \in [Peer -> {seats[r] : r \in Peer}]
  OBVIOUS
<1>6. CASE LifeOf(t) = LifeOf(peer[p]) /\ t.schedule = peer[p].schedule
  <2>1. life' = life /\ seats' = seats
    BY <1>2, <1>3, <1>5, <1>6
  <2> QED
    BY <2>1 DEF Abstract!vars
<1>7. CASE /\ LifeOf(peer[p]) = "unaware" /\ LifeOf(t) = "lobby"
           /\ t.schedule = peer[p].schedule
  <2>1. seats' = seats
    BY <1>3, <1>5, <1>7
  <2>2. Abstract!Engage(p)
    BY <1>2, <1>7, <2>1 DEF Abstract!Engage
  <2> QED
    BY <2>2 DEF Abstract!Next
<1>8. CASE /\ p # Initiator
           /\ LifeOf(peer[p]) = "lobby" /\ LifeOf(t) = "unaware"
           /\ t.schedule = peer[p].schedule
  <2>1. seats' = seats
    BY <1>3, <1>5, <1>8
  <2>2. Abstract!GiveUp(p)
    BY <1>2, <1>8, <2>1 DEF Abstract!GiveUp
  <2> QED
    BY <2>2 DEF Abstract!Next
<1>9. CASE /\ p # Initiator
           /\ LifeOf(peer[p]) \in {"unaware", "lobby"} /\ LifeOf(t) = "racing"
           /\ frozen # {} /\ frozen \subseteq t.schedule
  <2>1. Abstract!Adopt(p)
    BY <1>2, <1>3, <1>4, <1>9 DEF Abstract!Adopt
  <2> QED
    BY <2>1 DEF Abstract!Next
<1>10. CASE LifeOf(peer[p]) = "racing" /\ LifeOf(t) = "ended" /\ t.schedule = {}
  <2>1. Abstract!End(p)
    BY <1>2, <1>3, <1>10 DEF Abstract!End
  <2> QED
    BY <2>1 DEF Abstract!Next
<1> QED
  BY <1>6, <1>7, <1>8, <1>9, <1>10 DEF Lived

LEMMA LocalLives ==
  ASSUME TypeOK, GossipInv, NEW p \in Peer, Local(p)
  PROVE  \E t : peer' = [peer EXCEPT ![p] = t] /\ frozen' = frozen /\ Lived(p, peer[p], t)
<1> DEFINE s == peer[p]
<1>1. s \in PeerState /\ RaceHolds(p, s)
  BY DEF TypeOK, GossipInv
<1>2. frozen' = frozen
  BY DEF Local, Subscribe, Join, Unsubscribe, FeedCoreReady, LobbyTimeout, SlotFires, FinishWave
<1> SUFFICES \E t : peer' = [peer EXCEPT ![p] = t] /\ Lived(p, s, t)
  BY <1>2
\* A handler that leaves the wave where it is.
<1>3. ASSUME NEW t, peer' = [peer EXCEPT ![p] = t],
             t.phase = s.phase, t.ended = s.ended, t.schedule = s.schedule
      PROVE  \E r : peer' = [peer EXCEPT ![p] = r] /\ Lived(p, s, r)
  <2>1. Lived(p, s, t)
    BY <1>3 DEF Lived, LifeOf
  <2> QED
    BY <1>3, <2>1
<1>4. CASE Subscribe(p)
  <2> DEFINE t == HoldFeed(p, s)
  <2>1. peer' = [peer EXCEPT ![p] = t]
    BY <1>4 DEF Subscribe, Becomes
  <2>2. t.phase = s.phase /\ t.ended = s.ended /\ t.schedule = s.schedule
    BY <1>1, HoldFeedRace
  <2> HIDE DEF t, s
  <2> QED
    BY <1>3, <2>1, <2>2
<1>5. CASE Join(p)
  <2> DEFINE h == HoldFeed(p, s)
             t == [h EXCEPT !.joined = TRUE, !.opening = TRUE]
  <2>1. peer' = [peer EXCEPT ![p] = t]
    BY <1>5 DEF Join, Becomes
  <2>2. h \in PeerState /\ h.phase = s.phase /\ h.ended = s.ended /\ h.schedule = s.schedule
    BY <1>1, HoldFeedType, HoldFeedRace
  <2> HIDE DEF h
  <2>3. t.phase = s.phase /\ t.ended = s.ended /\ t.schedule = s.schedule
    BY <2>2 DEF PeerState
  <2> HIDE DEF t, s
  <2> QED
    BY <1>3, <2>1, <2>3
<1>6. CASE Unsubscribe(p)
  <2> DEFINE t == [s EXCEPT !.subs = FALSE, !.subscribed = FALSE, !.joined = FALSE,
                            !.open = FALSE, !.foreign = {}, !.roster = {}, !.kept = {}]
  <2>1. peer' = [peer EXCEPT ![p] = t]
    BY <1>6 DEF Unsubscribe, Becomes
  <2>2. t.phase = s.phase /\ t.ended = s.ended /\ t.schedule = s.schedule
    BY <1>1 DEF PeerState
  <2> HIDE DEF t, s
  <2> QED
    BY <1>3, <2>1, <2>2
<1>7. CASE FeedCoreReady(p)
  <2> DEFINE m == JoinFlood(p, s.floods)
             t == [s EXCEPT !.signed = TRUE, !.writers = @ \cup {p},
                            !.roster = @ \cup {p}, !.floods = @ + 1,
                            !.seen = @ \cup {m}]
             stale == s.phase = "none" \/ ~s.joined
             r == [(IF stale THEN s ELSE t) EXCEPT !.opening = FALSE]
  <2>1. peer' = [peer EXCEPT ![p] = r]
    BY <1>7 DEF FeedCoreReady, Becomes
  <2>2. r.phase = s.phase /\ r.ended = s.ended /\ r.schedule = s.schedule
    BY <1>1 DEF PeerState
  <2> HIDE DEF r, s
  <2> QED
    BY <1>3, <2>1, <2>2
<1>8. CASE LobbyTimeout(p)
  <2> DEFINE t == GoIdle(s, TRUE)
  <2>1. p # Initiator /\ s.phase = "lobby" /\ peer' = [peer EXCEPT ![p] = t]
    BY <1>8 DEF LobbyTimeout, Becomes
  <2>2. t.phase = "none" /\ ~t.ended /\ t.schedule = {}
    BY <1>1, <2>1, GoIdleRace
  <2>3. ~s.ended /\ s.schedule = {}
    BY <1>1, <2>1 DEF RaceHolds
  <2> HIDE DEF t
  <2>4. Lived(p, s, t)
    BY <2>1, <2>2, <2>3 DEF Lived, LifeOf
  <2> QED
    BY <2>1, <2>4
<1>9. CASE SlotFires(p)
  <2> DEFINE t == [s EXCEPT !.slot = FALSE, !.held = TRUE]
  <2>1. peer' = [peer EXCEPT ![p] = t]
    BY <1>9 DEF SlotFires, Becomes
  <2>2. t.phase = s.phase /\ t.ended = s.ended /\ t.schedule = s.schedule
    BY <1>1 DEF PeerState
  <2> HIDE DEF t, s
  <2> QED
    BY <1>3, <2>1, <2>2
<1>10. CASE FinishWave(p)
  <2> DEFINE t == GoIdle(s, FALSE)
  <2>1. s.phase = "racing" /\ peer' = [peer EXCEPT ![p] = t]
    BY <1>10 DEF FinishWave, Becomes
  <2>2. t.phase = "none" /\ t.ended /\ t.schedule = {}
    BY <1>1, <2>1, GoIdleRace
  <2>3. ~s.ended
    BY <1>1, <2>1 DEF RaceHolds
  <2> HIDE DEF t
  <2>4. Lived(p, s, t)
    BY <2>1, <2>2, <2>3 DEF Lived, LifeOf
  <2> QED
    BY <2>1, <2>4
<1> QED
  BY <1>4, <1>5, <1>6, <1>7, <1>8, <1>9, <1>10 DEF Local

\* The record a frame leaves: q took up the wave, or its race, or neither.
LEMMA AdoptLives ==
  ASSUME GossipInv, NEW p \in Peer, NEW q \in PeerState, RaceHolds(p, q), q = peer[p],
         NEW t, ~q.ended, ~t.ended,
         \/ /\ t.schedule = q.schedule
            /\ t.phase = q.phase \/ (q.phase = "none" /\ t.phase = "lobby")
         \/ /\ q.phase # "racing" /\ t.phase = "racing"
            /\ frozen # {} /\ frozen \subseteq t.schedule
  PROVE  Lived(p, q, t)
<1>1. q.phase # "racing" /\ frozen # {} => p # Initiator
  BY DEF GossipInv, FreezeHolds
<1>2. q.phase \in {"none", "lobby", "racing"}
  BY DEF PeerState
<1> QED
  BY <1>1, <1>2 DEF Lived, LifeOf

LEMMA ReceiveLives ==
  ASSUME TypeOK, GossipInv, NEW f \in Peer, NEW p \in Peer, Receive(f, p)
  PROVE  \/ UNCHANGED <<peer, frozen>>
         \/ \E t : peer' = [peer EXCEPT ![p] = t] /\ frozen' = frozen /\ Lived(p, peer[p], t)
<1> DEFINE m == Head(chan[f][p])
           q == peer[p]
           s == [q EXCEPT !.seen = @ \cup {m}]
<1>1. /\ Incoming(f, p) /\ q \in PeerState /\ chan \in ChanType /\ RaceHolds(p, q)
      /\ frozen' = frozen /\ FramesHold
  BY DEF TypeOK, ChanType, GossipInv, Receive, RecvSubs, RecvSync, RecvAnnounce, RecvJoin,
         RecvStart
<1>2. m \in Message /\ Frame(f, p, m)
  BY <1>1, IncomingHolds
<1>3. /\ m.kind \in {"wave-announce", "wave-join", "wave-start"} => m \in FloodMessage
      /\ m.kind \in {"wave-sync", "wave-start"} => m.writers \in SUBSET Peer
      /\ m.kind = "wave-join" => m.origin \in Peer
  <2> HIDE DEF m
  <2> QED
    BY <1>2 DEF Message, FloodMessage, Announce
<1> HIDE DEF m
<1>4. /\ s.phase = q.phase /\ s.ended = q.ended /\ s.schedule = q.schedule /\ s.via = q.via
      /\ s.writers = q.writers /\ s.joined = q.joined /\ s.slot = q.slot /\ s.held = q.held
      /\ s.announced = q.announced
  BY <1>1 DEF PeerState
<1>5. m \in FloodMessage => s \in PeerState
  <2> SUFFICES ASSUME m \in FloodMessage
               PROVE  s \in PeerState
    OBVIOUS
  <2>1. q.seen \cup {m} \in SUBSET FloodMessage
    BY <1>1 DEF PeerState
  <2> HIDE DEF q
  <2> QED
    BY <1>1, <2>1 DEF PeerState
<1> HIDE DEF s
<1>6. RaceHolds(p, s)
  BY <1>1, <1>4 DEF RaceHolds
<1>7. ASSUME NEW t, peer' = [peer EXCEPT ![p] = t], Lived(p, q, t)
      PROVE  \E u : peer' = [peer EXCEPT ![p] = u] /\ frozen' = frozen /\ Lived(p, peer[p], u)
  BY <1>1, <1>7
\* The record that is left alone, or only marks the frame.
<1>8. Lived(p, q, q) /\ Lived(p, q, s)
  BY <1>4 DEF Lived, LifeOf
\* Taking up a race told by m.
<1>9. ASSUME NEW u \in PeerState, u.phase = q.phase, u.ended = q.ended, ~u.ended,
             u.schedule = q.schedule, RaceHolds(p, u), m.writers \in SUBSET Peer,
             NEW via \in {"start", "sync"},
             frozen # {}, frozen \subseteq CanonicalRoster(m.writers),
             via = "sync" \/ CanonicalRoster(m.writers) = frozen
      PROVE  LET e == EnterLobby(p, u, FALSE)
                 w == IngestWriters(p, e, m.writers)
             IN  Lived(p, q, BeginSweep(p, w, CanonicalRoster(m.writers), via))
  <2> DEFINE e == EnterLobby(p, u, FALSE)
             w == IngestWriters(p, e, m.writers)
             roster == CanonicalRoster(m.writers)
             t == BeginSweep(p, w, roster, via)
  <2>1. /\ e \in PeerState /\ RaceHolds(p, e) /\ ~e.ended /\ e.schedule = u.schedule
        /\ e.phase = (IF u.phase = "none" THEN "lobby" ELSE u.phase)
    BY <1>9, EnterLobbyType, EnterLobbyRace
  <2> HIDE DEF e
  <2>2. /\ w \in PeerState /\ RaceHolds(p, w) /\ w.phase = e.phase /\ w.ended = e.ended
        /\ w.schedule = e.schedule /\ m.writers \subseteq w.writers
    BY <1>9, <2>1, IngestWritersType, IngestWritersRace
  <2> HIDE DEF w
  <2>3. roster \in SUBSET Peer /\ frozen \subseteq CanonicalRoster(w.writers)
    BY <1>9, <2>2, CanonicalRosterType DEF CanonicalRoster
  <2>4. frozen \subseteq roster /\ (via = "sync" \/ roster = frozen)
    BY <1>9
  <2> HIDE DEF roster
  <2>5. /\ t.phase = "racing" /\ ~t.ended
        /\ t.schedule = (IF w.phase = "racing" THEN w.schedule ELSE roster)
    BY <1>9, <2>1, <2>2, <2>3, <2>4, BeginSweepRace
  <2> HIDE DEF t
  <2>6. ~q.ended /\ ~t.ended
    BY <1>9, <2>5
  <2>7. \/ /\ t.schedule = q.schedule
           /\ t.phase = q.phase \/ (q.phase = "none" /\ t.phase = "lobby")
        \/ /\ q.phase # "racing" /\ t.phase = "racing"
           /\ frozen # {} /\ frozen \subseteq t.schedule
    BY <1>9, <2>1, <2>2, <2>4, <2>5
  <2>8. Lived(p, q, t)
    BY <1>1, <2>6, <2>7, AdoptLives
  <2> QED
    BY <2>8 DEF t, w, e, roster
<1>10. CASE RecvSubs(f, p)
  BY <1>10 DEF RecvSubs
<1>11. CASE RecvSync(f, p)
  <2> DEFINE e == EnterLobby(p, q, FALSE)
             w == IngestWriters(p, e, m.writers)
             t == IF ~CanAdopt(q) THEN q
                  ELSE IF m.phase = "racing"
                       THEN BeginSweep(p, w, CanonicalRoster(m.writers), "sync")
                       ELSE w
  <2>1. m.kind = "wave-sync" /\ peer' = [peer EXCEPT ![p] = t]
    BY <1>11 DEF RecvSync, m, Becomes
  <2>2. Lived(p, q, t)
    <3>1. CASE ~CanAdopt(q)
      BY <1>8, <3>1
    <3>2. CASE CanAdopt(q) /\ m.phase = "racing"
      <4>1. frozen # {} /\ frozen \subseteq CanonicalRoster(m.writers)
        BY <1>2, <2>1, <3>2 DEF Frame
      <4> QED
        BY <1>1, <1>3, <1>9, <2>1, <3>2, <4>1 DEF CanAdopt
    <3>3. CASE CanAdopt(q) /\ m.phase # "racing"
      <4>1. /\ e \in PeerState /\ RaceHolds(p, e) /\ ~e.ended /\ e.schedule = q.schedule
            /\ e.phase = (IF q.phase = "none" THEN "lobby" ELSE q.phase)
        BY <1>1, <3>3, EnterLobbyType, EnterLobbyRace DEF CanAdopt
      <4> HIDE DEF e
      <4>2. w.phase = e.phase /\ w.ended = e.ended /\ w.schedule = e.schedule
        BY <1>3, <2>1, <4>1, IngestWritersRace
      <4> HIDE DEF w
      <4>3. Lived(p, q, w)
        BY <1>1, <3>3, <4>1, <4>2, AdoptLives DEF CanAdopt
      <4> QED
        BY <3>3, <4>3
    <3> QED
      BY <3>1, <3>2, <3>3
  <2> HIDE DEF t
  <2> QED
    BY <1>7, <2>1, <2>2
<1>12. CASE RecvAnnounce(f, p)
  <2> DEFINE e == EnterLobby(p, s, FALSE)
             t == IF CanAdopt(s) THEN [e EXCEPT !.announced = TRUE] ELSE s
  <2>1. m = Announce
    BY <1>12 DEF RecvAnnounce, m
  <2>2. s = [peer[p] EXCEPT !.seen = @ \cup {Announce}]
    BY <2>1 DEF s
  <2>3. UNCHANGED peer \/ peer' = [peer EXCEPT ![p] = t]
    BY <1>12, <2>2 DEF RecvAnnounce, Becomes
  <2>4. s \in PeerState
    BY <1>5, <2>1, MessageTypes
  <2>5. Lived(p, q, t)
    <3>1. CASE ~CanAdopt(s)
      BY <1>8, <3>1
    <3>2. CASE CanAdopt(s)
      <4>1. /\ e \in PeerState /\ ~e.ended /\ e.schedule = s.schedule
            /\ e.phase = (IF s.phase = "none" THEN "lobby" ELSE s.phase)
        BY <1>6, <2>4, <3>2, EnterLobbyType, EnterLobbyRace DEF CanAdopt
      <4> HIDE DEF e
      <4>2. t.phase = e.phase /\ t.ended = e.ended /\ t.schedule = e.schedule
        BY <3>2, <4>1 DEF PeerState
      <4> HIDE DEF t
      <4>3. ~q.ended
        BY <1>4, <3>2 DEF CanAdopt
      <4> QED
        BY <1>1, <1>4, <4>1, <4>2, <4>3, AdoptLives
    <3> QED
      BY <3>1, <3>2
  <2> HIDE DEF t
  <2> QED
    BY <1>1, <1>7, <2>3, <2>5
<1>13. CASE RecvJoin(f, p)
  <2> DEFINE t == IF s.phase = "lobby" THEN IngestWriters(p, s, {m.origin}) ELSE s
  <2>1. m.kind = "wave-join" /\ (UNCHANGED peer \/ peer' = [peer EXCEPT ![p] = t])
    BY <1>13 DEF RecvJoin, m, s, Becomes
  <2>2. s \in PeerState /\ {m.origin} \in SUBSET Peer
    BY <1>3, <1>5, <2>1
  <2>3. t.phase = s.phase /\ t.ended = s.ended /\ t.schedule = s.schedule
    BY <1>6, <2>2, IngestWritersRace
  <2> HIDE DEF t
  <2>4. Lived(p, q, t)
    BY <1>4, <2>3 DEF Lived, LifeOf
  <2> QED
    BY <1>1, <1>7, <2>1, <2>4
<1>14. CASE RecvStart(f, p)
  <2> DEFINE e == EnterLobby(p, s, FALSE)
             w == IngestWriters(p, e, m.writers)
             t == IF CanAdopt(s)
                  THEN BeginSweep(p, w, CanonicalRoster(m.writers), "start") ELSE s
  <2>1. m.kind = "wave-start" /\ (UNCHANGED peer \/ peer' = [peer EXCEPT ![p] = t])
    BY <1>14 DEF RecvStart, m, s, Becomes
  <2>2. /\ s \in PeerState /\ m.writers \in SUBSET Peer
        /\ frozen # {} /\ CanonicalRoster(m.writers) = frozen
    BY <1>2, <1>3, <1>5, <2>1 DEF Frame
  <2>3. Lived(p, q, t)
    <3>1. CASE ~CanAdopt(s)
      BY <1>8, <3>1
    <3>2. CASE CanAdopt(s)
      BY <1>4, <1>6, <1>9, <2>2, <3>2 DEF CanAdopt
    <3> QED
      BY <3>1, <3>2
  <2> HIDE DEF t
  <2> QED
    BY <1>1, <1>7, <2>1, <2>3
<1> QED
  BY <1>10, <1>11, <1>12, <1>13, <1>14 DEF Receive

LEMMA StartWaveLives ==
  ASSUME TypeOK, TypeOK', GossipInv, StartWave
  PROVE  [Abstract!Next]_(Abstract!vars)
<1> DEFINE p == Initiator
           s == peer[p]
           e == EnterLobby(p, s, TRUE)
           t == [e EXCEPT !.announced = TRUE, !.opening = TRUE,
                          !.seen = @ \cup {Announce}]
<1>1. p \in Peer /\ s \in PeerState /\ RaceHolds(p, s)
  BY PeerAssumption DEF TypeOK, GossipInv
<1>2. Unstarted /\ peer' = [peer EXCEPT ![p] = t] /\ frozen' = frozen
  BY DEF StartWave, Unstarted, Becomes
<1>3. frozen = {} /\ s.phase = "none" /\ ~s.ended
  BY <1>1, <1>2 DEF FreezeHolds, GossipInv, RaceHolds
<1>4. e \in PeerState /\ e.phase = "lobby" /\ ~e.ended /\ e.schedule = s.schedule
  BY <1>1, <1>3, EnterLobbyType, EnterLobbyRace
<1> HIDE DEF e
<1>5. t.phase = "lobby" /\ ~t.ended /\ t.schedule = s.schedule
  BY <1>4 DEF PeerState
<1> HIDE DEF t
<1>6. Lived(p, s, t)
  BY <1>3, <1>5 DEF Lived, LifeOf
<1> HIDE DEF p
<1> QED
  BY <1>1, <1>2, <1>6, LivedStep

\* finalizeAndStart() is the step that freezes.
LEMMA FinalizeFreezes ==
  ASSUME TypeOK, TypeOK', GossipInv, FinalizeAndStart
  PROVE  [Abstract!Next]_(Abstract!vars)
<1> DEFINE p == Initiator
           s == peer[p]
           life == [r \in Peer |-> Life(r)]
           seats == [r \in Peer |-> peer[r].schedule]
<1>1. p \in Peer /\ s \in PeerState /\ RaceHolds(p, s) /\ FreezeHolds /\ s.phase = "lobby"
  BY PeerAssumption DEF TypeOK, GossipInv, FinalizeAndStart
<1>2. frozen = {} /\ ~s.ended
  BY <1>1 DEF FreezeHolds, RaceHolds
<1>3. PICK keyReady \in BOOLEAN :
        LET writers == IF keyReady THEN s.writers \cup {p} ELSE s.writers
            m == StartFlood(writers)
            w == [s EXCEPT !.signed = @ \/ keyReady, !.writers = writers,
                           !.seen = @ \cup {m}]
        IN  /\ frozen' = CanonicalRoster(writers)
            /\ Becomes(p, BeginSweep(p, w, CanonicalRoster(writers), "own"))
  BY DEF FinalizeAndStart
<1> DEFINE writers == IF keyReady THEN s.writers \cup {p} ELSE s.writers
           m == StartFlood(writers)
           signed == s.signed \/ keyReady
           w == [s EXCEPT !.signed = signed, !.writers = writers, !.seen = @ \cup {m}]
           roster == CanonicalRoster(writers)
           t == BeginSweep(p, w, roster, "own")
<1>4. frozen' = roster /\ peer' = [peer EXCEPT ![p] = t]
  BY <1>3 DEF Becomes
<1> HIDE DEF writers, m
<1>5. w.phase = "lobby" /\ w.ended = s.ended /\ w.joined = s.joined
  BY <1>1 DEF PeerState
<1> DEFINE armed == p \in roster /\ w.joined
<1>6. t = [w EXCEPT !.phase = "racing", !.schedule = roster, !.via = "own", !.slot = armed]
  BY <1>5 DEF BeginSweep
<1>7. t.phase = "racing" /\ t.schedule = roster /\ ~t.ended
  BY <1>1, <1>2, <1>5, <1>6 DEF PeerState
<1> HIDE DEF t, w
<1>8. \A r \in Peer : peer'[r] = IF r = p THEN t ELSE peer[r]
  BY <1>4 DEF TypeOK
<1>9. life' = [life EXCEPT ![p] = "racing"] /\ life[p] = "lobby"
  <2>1. life' = [r \in Peer |-> Life(r)']
    OBVIOUS
  <2>2. \A r \in Peer : Life(r)' = IF r = p THEN "racing" ELSE Life(r)
    BY <1>7, <1>8 DEF Life
  <2>3. Life(p) = "lobby"
    BY <1>1, <1>2 DEF Life
  <2> QED
    BY <1>1, <2>1, <2>2, <2>3
<1>10. seats' = [seats EXCEPT ![p] = roster]
  <2>1. seats' = [r \in Peer |-> peer'[r].schedule]
    OBVIOUS
  <2>2. \A r \in Peer : peer'[r].schedule = IF r = p THEN roster ELSE peer[r].schedule
    BY <1>7, <1>8
  <2> QED
    BY <2>1, <2>2
<1>11. p \in roster /\ roster \in SUBSET Peer
  BY <1>4 DEF CanonicalRoster, TypeOK
<1>12. Abstract!Freeze
  BY <1>2, <1>4, <1>9, <1>10, <1>11 DEF Abstract!Freeze
<1> QED
  BY <1>12 DEF Abstract!Next

LEMMA StepOfLife ==
  TypeOK /\ TypeOK' /\ GossipInv /\ [Next]_vars => [Abstract!Next]_(Abstract!vars)
<1> SUFFICES ASSUME TypeOK, TypeOK', GossipInv, [Next]_vars
             PROVE  [Abstract!Next]_(Abstract!vars)
  OBVIOUS
<1>1. ASSUME UNCHANGED <<peer, frozen>>
      PROVE  UNCHANGED Abstract!vars
  <2>1. \A r \in Peer : Life(r)' = Life(r)
    BY <1>1 DEF Life
  <2> QED
    BY <1>1, <2>1 DEF Abstract!vars
<1>2. CASE StartWave
  BY <1>2, StartWaveLives
<1>3. CASE FinalizeAndStart
  BY <1>3, FinalizeFreezes
<1>4. ASSUME NEW p \in Peer, Local(p)
      PROVE  [Abstract!Next]_(Abstract!vars)
  BY <1>4, LocalLives, LivedStep
<1>5. ASSUME NEW f \in Peer, NEW p \in Peer, Receive(f, p)
      PROVE  [Abstract!Next]_(Abstract!vars)
  BY <1>1, <1>5, ReceiveLives, LivedStep
<1>6. ASSUME NEW f \in Peer, NEW p \in Peer, Connect(f, p) \/ Disconnect(f, p)
      PROVE  UNCHANGED <<peer, frozen>>
  BY <1>6 DEF Connect, Disconnect
<1>7. CASE UNCHANGED vars
  BY <1>1, <1>7 DEF vars
<1> QED
  BY <1>1, <1>2, <1>3, <1>4, <1>5, <1>6, <1>7 DEF Next

\* Wave implements Lifecycle: whatever is said and lost between the peers, nobody races before
\* the initiator froze the roster, it is frozen once, a lobby may be given up and taken up
\* again by anybody but the initiator, and a wave that ended at a peer never comes back to it.
THEOREM ImplementsLifecycle == Spec => LifecycleSpec
<1>1. Init => Abstract!Init
  <2> SUFFICES ASSUME Init PROVE Abstract!Init
    OBVIOUS
  <2>1. \A p \in Peer : Life(p) = "unaware" /\ peer[p].schedule = {}
    BY DEF Init, Fresh, Life
  <2> QED
    BY <2>1 DEF Init, Abstract!Init
<1>2. TypeOK /\ TypeOK' /\ GossipInv /\ [Next]_vars => [Abstract!Next]_(Abstract!vars)
  BY StepOfLife
<1> QED
  BY <1>1, <1>2, GossipInvariant, PTL DEF Spec, LifecycleSpec, Abstract!Spec

-----------------------------------------------------------------------------
\* Neighbours know each other's subscriptions.

Quiet(c) == \A k \in 1 .. Len(c) : c[k].kind # "subs"

\* Frame i of c says on, and no later frame of c speaks of it.
Settles(c, i, on) ==
  c[i].kind = "subs" /\ c[i].on = on /\ \A j \in i + 1 .. Len(c) : c[j].kind # "subs"

\* Who believes b and then handles the frames of c believes on.
Tells(c, b, on) ==
  \/ Quiet(c) /\ b = on
  \/ \E i \in 1 .. Len(c) : Settles(c, i, on)

\* Connections have two ends, and what a peer believes of a neighbour will be what the
\* neighbour holds once the frames on their way are handled.
ViewInv ==
  /\ \A p, q \in Peer : q \in link[p] => p \in link[q]
  /\ \A p \in Peer : \A q \in link[p] : Tells(chan[q][p], nbr[p][q], peer[q].subs)

LEMMA TellsThen ==
  ASSUME NEW c \in Seq(Message), NEW d \in Seq(Message), NEW b, NEW mid, NEW on,
         Tells(c, b, mid), Tells(d, mid, on)
  PROVE  Tells(c \o d, b, on)
<1> DEFINE e == c \o d
<1>1. /\ Len(e) = Len(c) + Len(d) /\ Len(c) \in Nat /\ Len(d) \in Nat
      /\ \A k \in 1 .. Len(c) : e[k] = c[k]
      /\ \A k \in Len(c) + 1 .. Len(e) : e[k] = d[k - Len(c)] /\ k - Len(c) \in 1 .. Len(d)
      /\ \A k \in 1 .. Len(d) : e[k + Len(c)] = d[k]
  OBVIOUS
<1> HIDE DEF e
<1>2. ASSUME NEW i \in 1 .. Len(d), Settles(d, i, on)
      PROVE  Tells(e, b, on)
  <2>1. i + Len(c) \in 1 .. Len(e) /\ e[i + Len(c)] = d[i]
    BY <1>1
  <2>2. \A j \in i + Len(c) + 1 .. Len(e) : e[j].kind # "subs"
    <3> SUFFICES ASSUME NEW j \in i + Len(c) + 1 .. Len(e)
                 PROVE  e[j].kind # "subs"
      OBVIOUS
    <3>1. e[j] = d[j - Len(c)] /\ j - Len(c) \in i + 1 .. Len(d)
      BY <1>1
    <3> QED
      BY <1>2, <3>1 DEF Settles
  <2> QED
    BY <1>2, <2>1, <2>2 DEF Tells, Settles
<1>3. ASSUME Quiet(d), mid = on
      PROVE  Tells(e, b, on)
  <2>1. \A k \in Len(c) + 1 .. Len(e) : e[k].kind # "subs"
    BY <1>1, <1>3 DEF Quiet
  <2>2. CASE Quiet(c) /\ b = mid
    <3>1. Quiet(e)
      BY <1>1, <2>1, <2>2 DEF Quiet
    <3> QED
      BY <1>3, <2>2, <3>1 DEF Tells
  <2>3. ASSUME NEW i \in 1 .. Len(c), Settles(c, i, mid)
        PROVE  Tells(e, b, on)
    <3>1. i \in 1 .. Len(e) /\ e[i] = c[i]
      BY <1>1
    <3>2. \A j \in i + 1 .. Len(e) : e[j].kind # "subs"
      BY <1>1, <2>1, <2>3 DEF Settles
    <3> QED
      BY <1>3, <2>3, <3>1, <3>2 DEF Tells, Settles
  <2> QED
    BY <2>2, <2>3 DEF Tells
<1> QED
  BY <1>2, <1>3 DEF Tells, e

LEMMA TellsTail ==
  ASSUME NEW c \in Seq(Message), c # << >>, NEW b, NEW on, Tells(c, b, on)
  PROVE  Tells(Tail(c), IF Head(c).kind = "subs" THEN Head(c).on ELSE b, on)
<1> DEFINE d == Tail(c)
           now == IF Head(c).kind = "subs" THEN Head(c).on ELSE b
<1>1. /\ Len(c) \in Nat /\ Len(c) >= 1 /\ Len(d) = Len(c) - 1 /\ Head(c) = c[1]
      /\ \A k \in 1 .. Len(d) : d[k] = c[k + 1]
  OBVIOUS
<1> HIDE DEF d
<1>2. CASE Quiet(c) /\ b = on
  <2>1. Quiet(d) /\ c[1].kind # "subs"
    BY <1>1, <1>2 DEF Quiet
  <2> QED
    BY <1>1, <1>2, <2>1 DEF Tells, d
<1>3. ASSUME NEW i \in 1 .. Len(c), Settles(c, i, on)
      PROVE  Tells(d, now, on)
  <2>1. CASE i = 1
    <3>1. Quiet(d)
      BY <1>1, <1>3, <2>1 DEF Quiet, Settles
    <3>2. now = on
      BY <1>1, <1>3, <2>1 DEF Settles
    <3> QED
      BY <3>1, <3>2 DEF Tells
  <2>2. CASE i # 1
    <3>1. i - 1 \in 1 .. Len(d) /\ d[i - 1] = c[i]
      BY <1>1, <2>2
    <3>2. \A j \in i .. Len(d) : d[j].kind # "subs"
      BY <1>1, <1>3, <2>2 DEF Settles
    <3>3. Settles(d, i - 1, on)
      BY <1>3, <3>1, <3>2 DEF Settles
    <3> QED
      BY <3>1, <3>3 DEF Tells
  <2> QED
    BY <2>1, <2>2
<1> QED
  BY <1>2, <1>3 DEF Tells, d

\* The last of the frames that speak of it is the one LastSubs chooses.
LEMMA TellsIsLast ==
  ASSUME NEW p \in Peer, NEW q \in Peer, chan \in ChanType, NEW on,
         Tells(chan[q][p], nbr[p][q], on)
  PROVE  LastSubs(p, q) = on
<1> DEFINE c == chan[q][p]
           said == {i \in 1 .. Len(c) : c[i].kind = "subs"}
           Latest(i) == \A j \in said : j <= i
<1>1. Len(c) \in Nat
  BY DEF ChanType
<1>2. LastSubs(p, q) = IF said = {} THEN nbr[p][q] ELSE c[CHOOSE i \in said : Latest(i)].on
  BY DEF LastSubs
<1> HIDE DEF c
<1>3. CASE Quiet(c) /\ nbr[p][q] = on
  BY <1>2, <1>3 DEF Quiet
<1>4. ASSUME NEW i \in 1 .. Len(c), Settles(c, i, on)
      PROVE  LastSubs(p, q) = on
  <2>1. i \in said /\ Latest(i)
    BY <1>1, <1>4 DEF Settles
  <2>2. \A k \in said : Latest(k) => k = i
    BY <1>1, <2>1
  <2> DEFINE last == CHOOSE k \in said : Latest(k)
  <2>3. last \in said /\ Latest(last)
    BY <2>1
  <2> HIDE DEF last
  <2>4. last = i
    BY <2>2, <2>3
  <2> QED
    BY <1>2, <1>4, <2>1, <2>4 DEF Settles, last
<1> QED
  BY <1>3, <1>4 DEF Tells, c

\* A peer's frames follow its subscription: what it puts on each channel tells of the change
\* its record makes.
LEMMA OutTells ==
  ASSUME NEW p \in Peer, NEW q \in Peer, NEW m \in Message, m.kind # "subs"
  PROVE  /\ \A on : Tells(Silence[q], on, on)
         /\ \A x, on : Tells(ScopedTo(p, m, x)[q], on, on)
         /\ \A x, on : Tells(DirectoryTo(m, x)[q], on, on)
         /\ \A s, t : s.subs \in BOOLEAN /\ t.subs \in BOOLEAN /\ (s.subs => t.subs)
                        => Tells(SubscribeSends(p, s, t, m)[q], s.subs, t.subs)
<1>1. \A on : Tells(<< >>, on, on) /\ Tells(<<m>>, on, on)
  BY DEF Tells, Quiet
<1>2. \A on : Tells(Silence[q], on, on)
  BY <1>1 DEF Silence
<1>3. \A x, on : Tells(ScopedTo(p, m, x)[q], on, on)
  BY <1>1 DEF ScopedTo
<1>4. \A x, on : Tells(DirectoryTo(m, x)[q], on, on)
  BY <1>1 DEF DirectoryTo
<1>5. ASSUME NEW s, NEW t, s.subs \in BOOLEAN, t.subs \in BOOLEAN, s.subs => t.subs
      PROVE  Tells(SubscribeSends(p, s, t, m)[q], s.subs, t.subs)
  <2>1. CASE t.subs /\ ~s.subs
    <3> DEFINE on == <<Subs(TRUE)>>
               rest == IF nbr[p][q] THEN <<m>> ELSE << >>
    <3>1. on \in Seq(Message) /\ rest \in Seq(Message)
      BY OneFrame, MessageTypes
    <3>2. Tells(on, s.subs, TRUE)
      BY DEF Tells, Settles, Subs
    <3>3. Tells(rest, TRUE, TRUE)
      BY <1>1
    <3> HIDE DEF on, rest
    <3>4. Tells(on \o rest, s.subs, TRUE)
      BY <3>1, <3>2, <3>3, TellsThen
    <3>5. SubscribeSends(p, s, t, m)[q] = on \o rest /\ t.subs = TRUE
      BY <1>5, <2>1 DEF SubscribeSends, on, rest
    <3> QED
      BY <3>4, <3>5
  <2>2. CASE ~(t.subs /\ ~s.subs)
    <3>1. SubscribeSends(p, s, t, m)[q] = << >> /\ s.subs = t.subs
      BY <1>5, <2>2 DEF SubscribeSends
    <3> QED
      BY <1>1, <3>1
  <2> QED
    BY <2>1, <2>2
<1> QED
  BY <1>2, <1>3, <1>4, <1>5

\* What p's frames do to the channels.
LEMMA SentTells ==
  ASSUME TypeOK, ViewInv, NEW p \in Peer, NEW t, NEW out \in Outs,
         \A q \in Peer : Tells(out[q], peer[p].subs, t.subs)
  PROVE  \A a \in Peer : \A b \in link[a] :
           Tells(Sent(p, out)[b][a], nbr[a][b], IF b = p THEN t.subs ELSE peer[b].subs)
<1> SUFFICES ASSUME NEW a \in Peer, NEW b \in link[a]
             PROVE  Tells(Sent(p, out)[b][a], nbr[a][b],
                          IF b = p THEN t.subs ELSE peer[b].subs)
  OBVIOUS
<1>1. b \in Peer /\ a \in link[b] /\ Tells(chan[b][a], nbr[a][b], peer[b].subs)
  BY DEF ViewInv, TypeOK
<1>2. chan[b][a] \in Seq(Message) /\ out[a] \in Seq(Message)
  BY <1>1 DEF TypeOK, Outs
<1>3. CASE b = p
  <2>1. Sent(p, out)[b][a] = chan[b][a] \o out[a]
    BY <1>1, <1>3 DEF Sent, TypeOK
  <2> QED
    BY <1>1, <1>2, <1>3, <2>1, TellsThen
<1>4. CASE b # p
  <2>1. Sent(p, out)[b][a] = chan[b][a]
    BY <1>1, <1>4 DEF Sent, TypeOK
  <2> QED
    BY <1>1, <1>4, <2>1
<1> QED
  BY <1>3, <1>4

LEMMA SendView ==
  ASSUME TypeOK, ViewInv, NEW p \in Peer, NEW t, peer' = [peer EXCEPT ![p] = t],
         UNCHANGED <<link, nbr>>, NEW out \in Outs, Send(p, out),
         \A q \in Peer : Tells(out[q], peer[p].subs, t.subs)
  PROVE  ViewInv'
<1>1. \A a \in Peer : \A b \in link[a] :
        Tells(Sent(p, out)[b][a], nbr[a][b], IF b = p THEN t.subs ELSE peer[b].subs)
  BY SentTells
<1>2. \A b \in Peer : peer'[b].subs = IF b = p THEN t.subs ELSE peer[b].subs
  BY DEF TypeOK
<1>3. \A a \in Peer : link[a] \subseteq Peer
  BY DEF TypeOK
<1> QED
  BY <1>1, <1>2, <1>3 DEF ViewInv, Send

LEMMA ReplyView ==
  ASSUME TypeOK, ViewInv, NEW f \in Peer, NEW p \in Peer, NEW t,
         peer' = [peer EXCEPT ![p] = t], link' = link, NEW out \in Outs,
         Incoming(f, p), Reply(f, p, out),
         \A q \in Peer : Tells(out[q], peer[p].subs, t.subs),
         \A a, b \in Peer :
           nbr'[a][b] = IF a = p /\ b = f /\ Head(chan[f][p]).kind = "subs"
                        THEN Head(chan[f][p]).on ELSE nbr[a][b]
  PROVE  ViewInv'
<1> DEFINE sent == Sent(p, out)
           m == Head(chan[f][p])
<1>1. \A a \in Peer : \A b \in link[a] :
        Tells(sent[b][a], nbr[a][b], IF b = p THEN t.subs ELSE peer[b].subs)
  BY SentTells
<1>2. sent \in ChanType /\ sent[f][p] = chan[f][p] /\ f # p /\ chan[f][p] # << >>
  BY SentType DEF Sent, Incoming, ChanType, TypeOK
<1>3. chan' = [sent EXCEPT ![f][p] = Tail(@)]
  BY DEF Reply
<1>4. m = Head(sent[f][p])
  BY <1>2
<1> HIDE DEF sent, m
<1>5. \A b \in Peer : peer'[b].subs = IF b = p THEN t.subs ELSE peer[b].subs
  BY DEF TypeOK
<1>6. \A a \in Peer : link[a] \subseteq Peer
  BY DEF TypeOK
<1> SUFFICES ASSUME NEW a \in Peer, NEW b \in link[a]
             PROVE  Tells(chan'[b][a], nbr'[a][b], peer'[b].subs)
  BY DEF ViewInv
<1>7. b \in Peer
  BY <1>6
<1>8. CASE a = p /\ b = f
  <2> DEFINE c == sent[f][p]
  <2>1. chan'[b][a] = Tail(c)
    BY <1>2, <1>3, <1>8 DEF ChanType
  <2>2. c \in Seq(Message) /\ c # << >>
    BY <1>2 DEF ChanType
  <2>3. Tells(c, nbr[p][f], peer[f].subs)
    BY <1>1, <1>2, <1>8
  <2> HIDE DEF c
  <2>4. Tells(Tail(c), IF Head(c).kind = "subs" THEN Head(c).on ELSE nbr[p][f], peer[f].subs)
    BY <2>2, <2>3, TellsTail
  <2>5. nbr'[a][b] = IF Head(c).kind = "subs" THEN Head(c).on ELSE nbr[p][f]
    BY <1>4, <1>7, <1>8 DEF m, c
  <2>6. peer'[b].subs = peer[f].subs
    BY <1>2, <1>5, <1>7, <1>8
  <2> QED
    BY <2>1, <2>4, <2>5, <2>6
<1>9. CASE ~(a = p /\ b = f)
  <2>1. chan'[b][a] = sent[b][a]
    BY <1>2, <1>3, <1>7, <1>9 DEF ChanType
  <2>2. nbr'[a][b] = nbr[a][b]
    BY <1>7, <1>9
  <2> QED
    BY <1>1, <1>5, <1>7, <2>1, <2>2
<1> QED
  BY <1>8, <1>9

\* A new connection opens with a greeting that says what its sender holds.
LEMMA LinkView ==
  ASSUME TypeOK, ViewInv, NEW p \in Peer, NEW q \in Peer, Connect(p, q) \/ Disconnect(p, q)
  PROVE  ViewInv'
<1>1. /\ chan \in ChanType /\ nbr \in [Peer -> [Peer -> BOOLEAN]]
      /\ link \in [Peer -> SUBSET Peer] /\ peer' = peer
  BY DEF TypeOK, ChanType, Connect, Disconnect
<1>2. ASSUME NEW r \in Peer, NEW b
      PROVE  Tells(Greeting(r), b, peer[r].subs)
  <2> DEFINE on == <<Subs(peer[r].subs)>>
             rest == IF peer[r].announced THEN <<Announce>> ELSE << >>
  <2>1. on \in Seq(Message) /\ rest \in Seq(Message)
    BY OneFrame, MessageTypes DEF TypeOK, PeerState
  <2>2. Tells(on, b, peer[r].subs)
    BY DEF Tells, Settles, Subs
  <2>3. Tells(rest, peer[r].subs, peer[r].subs)
    BY DEF Tells, Quiet, Announce
  <2> HIDE DEF on, rest
  <2>4. Tells(on \o rest, b, peer[r].subs)
    BY <2>1, <2>2, <2>3, TellsThen
  <2> QED
    BY <2>4 DEF Greeting, on, rest
<1>3. CASE Connect(p, q)
  <2>1. /\ chan' = [chan EXCEPT ![p][q] = Greeting(p), ![q][p] = Greeting(q)]
        /\ link' = [link EXCEPT ![p] = @ \cup {q}, ![q] = @ \cup {p}]
        /\ p # q /\ nbr' = nbr
    BY <1>3 DEF Connect
  <2>2. \A a, b \in Peer :
          b \in link'[a] <=> b \in link[a] \/ (a = p /\ b = q) \/ (a = q /\ b = p)
    BY <1>1, <2>1
  <2>3. \A a, b \in Peer :
          chan'[b][a] = IF (a = p /\ b = q) \/ (a = q /\ b = p)
                        THEN Greeting(b) ELSE chan[b][a]
    BY <1>1, <2>1 DEF ChanType
  <2>4. \A a \in Peer : link'[a] \subseteq Peer
    BY <1>1, <2>1
  <2>5. \A a \in Peer : \A b \in link'[a] : a \in link'[b]
    BY <2>2, <2>4 DEF ViewInv
  <2>6. ASSUME NEW a \in Peer, NEW b \in link'[a]
        PROVE  Tells(chan'[b][a], nbr'[a][b], peer'[b].subs)
    <3>1. b \in Peer /\ nbr'[a][b] = nbr[a][b] /\ peer'[b].subs = peer[b].subs
      BY <1>1, <2>1, <2>4, <2>6
    <3>2. CASE (a = p /\ b = q) \/ (a = q /\ b = p)
      <4>1. chan'[b][a] = Greeting(b)
        BY <2>3, <2>6, <3>1, <3>2
      <4> QED
        BY <1>2, <3>1, <4>1
    <3>3. CASE ~((a = p /\ b = q) \/ (a = q /\ b = p))
      <4>1. chan'[b][a] = chan[b][a] /\ b \in link[a]
        BY <2>2, <2>3, <2>6, <3>1, <3>3
      <4> QED
        BY <2>6, <3>1, <4>1 DEF ViewInv
    <3> QED
      BY <3>2, <3>3
  <2> QED
    BY <2>5, <2>6 DEF ViewInv
<1>4. CASE Disconnect(p, q)
  <2>1. /\ chan' = [chan EXCEPT ![p][q] = << >>, ![q][p] = << >>]
        /\ nbr' = [nbr EXCEPT ![p][q] = FALSE, ![q][p] = FALSE]
        /\ link' = [link EXCEPT ![p] = @ \ {q}, ![q] = @ \ {p}]
    BY <1>4 DEF Disconnect
  <2>2. \A a, b \in Peer :
          b \in link'[a] <=> b \in link[a] /\ ~(a = p /\ b = q) /\ ~(a = q /\ b = p)
    BY <1>1, <2>1
  <2>3. \A a, b \in Peer : ~(a = p /\ b = q) /\ ~(a = q /\ b = p) =>
          chan'[b][a] = chan[b][a] /\ nbr'[a][b] = nbr[a][b]
    BY <1>1, <2>1 DEF ChanType
  <2>4. \A a \in Peer : link'[a] \subseteq Peer
    BY <1>1, <2>1
  <2>5. \A a \in Peer : \A b \in link'[a] : a \in link'[b]
    BY <2>2, <2>4 DEF ViewInv
  <2>6. ASSUME NEW a \in Peer, NEW b \in link'[a]
        PROVE  Tells(chan'[b][a], nbr'[a][b], peer'[b].subs)
    <3>1. b \in Peer /\ b \in link[a] /\ ~(a = p /\ b = q) /\ ~(a = q /\ b = p)
      BY <2>2, <2>4, <2>6
    <3>2. chan'[b][a] = chan[b][a] /\ nbr'[a][b] = nbr[a][b]
      BY <2>3, <2>6, <3>1
    <3> QED
      BY <1>1, <2>6, <3>1, <3>2 DEF ViewInv
  <2> QED
    BY <2>5, <2>6 DEF ViewInv
<1> QED
  BY <1>3, <1>4

LEMMA LocalView ==
  ASSUME TypeOK, GossipInv, ViewInv, NEW p \in Peer, Local(p)
  PROVE  ViewInv'
<1> DEFINE s == peer[p]
           snapshot == WaveSync(s.phase, s.writers)
<1>1. s \in PeerState /\ RaceHolds(p, s) /\ s.subs \in BOOLEAN
  BY DEF TypeOK, GossipInv, PeerState
<1>2. UNCHANGED <<link, nbr>>
  BY DEF Local, Subscribe, Join, Unsubscribe, FeedCoreReady, LobbyTimeout, SlotFires, FinishWave
<1>3. s.phase # "none" => snapshot \in Message /\ snapshot.kind # "subs"
  <2>1. s.phase # "none" => s.phase \in {"lobby", "racing"}
    BY <1>1 DEF PeerState
  <2>2. s.writers \in SUBSET Peer
    BY <1>1 DEF PeerState
  <2> HIDE DEF s
  <2> QED
    BY <2>1, <2>2, MessageTypes DEF WaveSync
<1> HIDE DEF snapshot
\* A call that subscribes, or not, and tells.
<1>4. ASSUME NEW t \in PeerState, s.phase # "none", s.subs => t.subs,
             peer' = [peer EXCEPT ![p] = t], Send(p, SubscribeSends(p, s, t, snapshot))
      PROVE  ViewInv'
  <2> DEFINE out == SubscribeSends(p, s, t, snapshot)
  <2>1. out \in Outs
    BY <1>3, <1>4, OutTypes
  <2>2. t.subs \in BOOLEAN
    BY <1>4 DEF PeerState
  <2>3. \A q \in Peer : Tells(out[q], s.subs, t.subs)
    BY <1>1, <1>3, <1>4, <2>2, OutTells
  <2>4. Send(p, out)
    BY <1>4
  <2> HIDE DEF out
  <2> QED
    BY <1>2, <1>4, <2>1, <2>3, <2>4, SendView
\* A timer of p alone.
<1>5. ASSUME NEW t, peer' = [peer EXCEPT ![p] = t], t.subs = s.subs, UNCHANGED chan
      PROVE  ViewInv'
  <2>1. \A b \in Peer : peer'[b].subs = peer[b].subs
    BY <1>5 DEF TypeOK
  <2>2. \A a \in Peer : link[a] \subseteq Peer
    BY DEF TypeOK
  <2> QED
    BY <1>2, <1>5, <2>1, <2>2 DEF ViewInv
<1>6. CASE Subscribe(p)
  <2> DEFINE t == HoldFeed(p, s)
  <2>1. /\ s.phase # "none" /\ peer' = [peer EXCEPT ![p] = t]
        /\ Send(p, SubscribeSends(p, s, t, snapshot))
    BY <1>6 DEF Subscribe, Becomes, snapshot
  <2>2. t \in PeerState /\ (s.subs => t.subs)
    BY <1>1, HoldFeedType, HoldFeedRace
  <2> HIDE DEF t, s
  <2> QED
    BY <1>4, <2>1, <2>2
<1>7. CASE Join(p)
  <2> DEFINE h == HoldFeed(p, s)
             t == [h EXCEPT !.joined = TRUE, !.opening = TRUE]
  <2>1. /\ s.phase # "none" /\ peer' = [peer EXCEPT ![p] = t]
        /\ Send(p, SubscribeSends(p, s, t, snapshot))
    BY <1>7 DEF Join, Becomes, snapshot
  <2>2. h \in PeerState /\ (s.subs => h.subs)
    BY <1>1, HoldFeedType, HoldFeedRace
  <2> HIDE DEF h
  <2>3. t \in PeerState /\ t.subs = h.subs
    BY <2>2 DEF PeerState
  <2> HIDE DEF t, s
  <2> QED
    BY <1>4, <2>1, <2>2, <2>3
<1>8. CASE Unsubscribe(p)
  <2> DEFINE t == [s EXCEPT !.subs = FALSE, !.subscribed = FALSE, !.joined = FALSE,
                            !.open = FALSE, !.foreign = {}, !.roster = {}, !.kept = {}]
             out == [q \in Peer |-> <<Subs(FALSE)>>]
  <2>1. peer' = [peer EXCEPT ![p] = t] /\ Send(p, out)
    BY <1>8 DEF Unsubscribe, Becomes
  <2>2. t.subs = FALSE
    BY <1>1 DEF PeerState
  <2> HIDE DEF t
  <2>3. out \in Outs
    BY OneFrame, MessageTypes DEF Outs
  <2>4. \A q \in Peer : Tells(out[q], s.subs, t.subs)
    <3>1. Tells(<<Subs(FALSE)>>, s.subs, FALSE)
      <4> HIDE DEF s
      <4> QED
        BY DEF Tells, Settles, Subs
    <3> QED
      BY <2>2, <3>1
  <2> HIDE DEF out
  <2> QED
    BY <1>2, <2>1, <2>3, <2>4, SendView
<1>9. CASE FeedCoreReady(p)
  <2> DEFINE m == JoinFlood(p, s.floods)
             t == [s EXCEPT !.signed = TRUE, !.writers = @ \cup {p},
                            !.roster = @ \cup {p}, !.floods = @ + 1,
                            !.seen = @ \cup {m}]
             stale == s.phase = "none" \/ ~s.joined
             r == [(IF stale THEN s ELSE t) EXCEPT !.opening = FALSE]
             out == IF stale THEN Silence ELSE ScopedTo(p, m, p)
  <2>1. peer' = [peer EXCEPT ![p] = r] /\ Send(p, out)
    BY <1>9 DEF FeedCoreReady, Becomes
  <2>2. m \in Message /\ m.kind # "subs"
    <3>1. s.floods \in Nat
      BY <1>1 DEF PeerState
    <3> QED
      BY <3>1, MessageTypes DEF JoinFlood
  <2> HIDE DEF m
  <2>3. r.subs = s.subs
    BY <1>1 DEF PeerState
  <2> HIDE DEF r
  <2>4. out \in Outs /\ \A q \in Peer : Tells(out[q], s.subs, r.subs)
    BY <2>2, <2>3, OutTypes, OutTells
  <2> HIDE DEF out
  <2> QED
    BY <1>2, <2>1, <2>4, SendView
<1>10. CASE LobbyTimeout(p)
  <2> DEFINE t == GoIdle(s, TRUE)
  <2>1. s.phase = "lobby" /\ peer' = [peer EXCEPT ![p] = t] /\ UNCHANGED chan
    BY <1>10 DEF LobbyTimeout, Becomes
  <2>2. t.subs = s.subs
    BY <1>1, <2>1, GoIdleRace
  <2> HIDE DEF t, s
  <2> QED
    BY <1>5, <2>1, <2>2
<1>11. CASE SlotFires(p)
  <2> DEFINE t == [s EXCEPT !.slot = FALSE, !.held = TRUE]
  <2>1. peer' = [peer EXCEPT ![p] = t] /\ UNCHANGED chan
    BY <1>11 DEF SlotFires, Becomes
  <2>2. t.subs = s.subs
    BY <1>1 DEF PeerState
  <2> HIDE DEF t, s
  <2> QED
    BY <1>5, <2>1, <2>2
<1>12. CASE FinishWave(p)
  <2> DEFINE t == GoIdle(s, FALSE)
  <2>1. s.phase = "racing" /\ peer' = [peer EXCEPT ![p] = t] /\ UNCHANGED chan
    BY <1>12 DEF FinishWave, Becomes
  <2>2. t.subs = s.subs
    BY <1>1, <2>1, GoIdleRace
  <2> HIDE DEF t, s
  <2> QED
    BY <1>5, <2>1, <2>2
<1> QED
  BY <1>6, <1>7, <1>8, <1>9, <1>10, <1>11, <1>12 DEF Local

LEMMA InitiatorView ==
  ASSUME TypeOK, GossipInv, ViewInv, StartWave \/ FinalizeAndStart
  PROVE  ViewInv'
<1> DEFINE p == Initiator
           s == peer[p]
<1>1. p \in Peer /\ s \in PeerState /\ RaceHolds(p, s) /\ s.subs \in BOOLEAN
  BY PeerAssumption DEF TypeOK, GossipInv, PeerState
<1>2. UNCHANGED <<link, nbr>>
  BY DEF StartWave, FinalizeAndStart
<1>3. CASE StartWave
  <2> DEFINE e == EnterLobby(p, s, TRUE)
             t == [e EXCEPT !.announced = TRUE, !.opening = TRUE,
                            !.seen = @ \cup {Announce}]
             sync == WaveSync("lobby", {})
             told == SubscribeSends(p, s, t, sync)
             flood == DirectoryTo(Announce, p)
             out == Then(told, flood)
  <2>1. /\ Unstarted /\ peer' = [peer EXCEPT ![p] = t] /\ Send(p, out)
    BY <1>3 DEF StartWave, Unstarted, Becomes
  <2>2. ~s.ended
    BY <1>1, <2>1 DEF FreezeHolds, GossipInv, RaceHolds
  <2>3. e \in PeerState /\ (s.subs => e.subs)
    BY <1>1, <2>2, EnterLobbyType, EnterLobbyRace
  <2> HIDE DEF e
  <2>4. t.subs = e.subs /\ e.subs \in BOOLEAN
    BY <2>3 DEF PeerState
  <2> HIDE DEF t
  <2>5. /\ sync \in Message /\ sync.kind # "subs"
        /\ Announce \in Message /\ Announce.kind # "subs"
    BY MessageTypes DEF WaveSync, Announce
  <2>6. told \in Outs /\ flood \in Outs /\ out \in Outs
    BY <1>1, <2>5, OutTypes
  <2> HIDE DEF sync, p
  <2>7. ASSUME NEW q \in Peer
        PROVE  Tells(out[q], s.subs, t.subs)
    <3>1. Tells(told[q], s.subs, t.subs)
      BY <1>1, <2>3, <2>4, <2>5, OutTells
    <3>2. Tells(flood[q], t.subs, t.subs)
      BY <1>1, <2>5, OutTells
    <3> HIDE DEF told, flood
    <3>3. told[q] \in Seq(Message) /\ flood[q] \in Seq(Message)
      BY <2>6 DEF Outs
    <3>4. out[q] = told[q] \o flood[q]
      BY DEF Then
    <3> QED
      BY <3>1, <3>2, <3>3, <3>4, TellsThen
  <2> HIDE DEF out
  <2> QED
    BY <1>1, <1>2, <2>1, <2>6, <2>7, SendView
<1>4. CASE FinalizeAndStart
  <2>1. PICK keyReady \in BOOLEAN :
          LET writers == IF keyReady THEN s.writers \cup {p} ELSE s.writers
              m == StartFlood(writers)
              w == [s EXCEPT !.signed = @ \/ keyReady, !.writers = writers,
                             !.seen = @ \cup {m}]
          IN  /\ Becomes(p, BeginSweep(p, w, CanonicalRoster(writers), "own"))
              /\ Send(p, ScopedTo(p, m, p))
    BY <1>4 DEF FinalizeAndStart
  <2> DEFINE writers == IF keyReady THEN s.writers \cup {p} ELSE s.writers
             m == StartFlood(writers)
             signed == s.signed \/ keyReady
             w == [s EXCEPT !.signed = signed, !.writers = writers, !.seen = @ \cup {m}]
             roster == CanonicalRoster(writers)
             t == BeginSweep(p, w, roster, "own")
             out == ScopedTo(p, m, p)
  <2>2. s.phase = "lobby" /\ peer' = [peer EXCEPT ![p] = t] /\ Send(p, out)
    BY <1>4, <2>1 DEF FinalizeAndStart, Becomes
  <2>3. m \in Message /\ m.kind # "subs"
    <3>1. writers \in SUBSET Peer
      BY <1>1 DEF PeerState
    <3> QED
      BY <3>1, MessageTypes DEF StartFlood
  <2> HIDE DEF writers, m
  <2>4. w.phase = "lobby" /\ w.subs = s.subs /\ w.joined = s.joined
    BY <1>1, <2>2 DEF PeerState
  <2> DEFINE armed == p \in roster /\ w.joined
  <2>5. t = [w EXCEPT !.phase = "racing", !.schedule = roster, !.via = "own", !.slot = armed]
    BY <2>4 DEF BeginSweep
  <2>6. t.subs = s.subs
    BY <1>1, <2>4, <2>5 DEF PeerState
  <2> HIDE DEF t, w
  <2>7. out \in Outs /\ \A q \in Peer : Tells(out[q], s.subs, t.subs)
    BY <1>1, <2>3, <2>6, OutTypes, OutTells
  <2> HIDE DEF out, p
  <2> QED
    BY <1>1, <1>2, <2>2, <2>7, SendView
<1> QED
  BY <1>3, <1>4

LEMMA ReceiveView ==
  ASSUME TypeOK, GossipInv, ViewInv, NEW f \in Peer, NEW p \in Peer, Receive(f, p)
  PROVE  ViewInv'
<1> DEFINE m == Head(chan[f][p])
           q == peer[p]
           s == [q EXCEPT !.seen = @ \cup {m}]
           fresh == WaveSync("lobby", {})
<1>1. /\ Incoming(f, p) /\ q \in PeerState /\ chan \in ChanType /\ RaceHolds(p, q)
      /\ FramesHold /\ link' = link /\ nbr \in [Peer -> [Peer -> BOOLEAN]]
      /\ peer = [peer EXCEPT ![p] = q] /\ q.subs \in BOOLEAN
  BY DEF TypeOK, ChanType, GossipInv, PeerState, Receive, RecvSubs, RecvSync, RecvAnnounce,
         RecvJoin, RecvStart
<1>2. m \in Message /\ Frame(f, p, m)
  BY <1>1, IncomingHolds
<1>3. /\ m.kind \in {"wave-announce", "wave-join", "wave-start"} => m \in FloodMessage
      /\ m.kind \in {"wave-sync", "wave-start"} => m.writers \in SUBSET Peer
      /\ m.kind = "wave-join" => m.origin \in Peer
  <2> HIDE DEF m
  <2> QED
    BY <1>2 DEF Message, FloodMessage, Announce
<1>4. fresh \in Message /\ fresh.kind # "subs"
  BY MessageTypes DEF WaveSync
\* What a handler of a wave frame believes, and a handler of subs.
<1>5. m.kind # "subs" /\ nbr' = nbr =>
        \A a, b \in Peer :
          nbr'[a][b] = IF a = p /\ b = f /\ m.kind = "subs" THEN m.on ELSE nbr[a][b]
  OBVIOUS
<1> HIDE DEF m
<1>6. s.subs = q.subs /\ s.ended = q.ended /\ s.phase = q.phase /\ s.schedule = q.schedule
      /\ s.via = q.via /\ s.writers = q.writers /\ s.joined = q.joined /\ s.slot = q.slot
      /\ s.held = q.held /\ s.announced = q.announced
  BY <1>1 DEF PeerState
<1>7. m \in FloodMessage => s \in PeerState
  <2> SUFFICES ASSUME m \in FloodMessage
               PROVE  s \in PeerState
    OBVIOUS
  <2>1. q.seen \cup {m} \in SUBSET FloodMessage
    BY <1>1 DEF PeerState
  <2> HIDE DEF q
  <2> QED
    BY <1>1, <2>1 DEF PeerState
<1> HIDE DEF s, fresh
<1>8. RaceHolds(p, s)
  BY <1>1, <1>6 DEF RaceHolds
<1>9. ASSUME NEW t, peer' = [peer EXCEPT ![p] = t], m.kind # "subs", nbr' = nbr,
             NEW out \in Outs, Reply(f, p, out),
             \A r \in Peer : Tells(out[r], q.subs, t.subs)
      PROVE  ViewInv'
  BY <1>1, <1>5, <1>9, ReplyView DEF m
\* The frame that has been seen.
<1>10. ASSUME UNCHANGED peer, m.kind # "subs", nbr' = nbr, Reply(f, p, Silence)
       PROVE  ViewInv'
  <2>1. peer' = [peer EXCEPT ![p] = q]
    BY <1>1, <1>10
  <2>2. Silence \in Outs /\ \A r \in Peer : Tells(Silence[r], q.subs, q.subs)
    BY <1>4, OutTypes, OutTells
  <2> HIDE DEF q
  <2> QED
    BY <1>9, <1>10, <2>1, <2>2
\* A relayed frame says nothing of p, and is followed by what p tells of its own subscription.
<1>11. ASSUME NEW t, t.subs \in BOOLEAN, q.subs => t.subs, NEW relay \in Outs,
              \A r \in Peer : Tells(relay[r], q.subs, q.subs)
       PROVE  LET told == SubscribeSends(p, s, t, fresh) IN
              /\ Then(relay, told) \in Outs
              /\ \A r \in Peer : Tells(Then(relay, told)[r], q.subs, t.subs)
  <2> DEFINE told == SubscribeSends(p, s, t, fresh)
  <2>1. told \in Outs /\ Then(relay, told) \in Outs
    BY <1>4, <1>11, OutTypes
  <2>2. ASSUME NEW r \in Peer
        PROVE  Tells(Then(relay, told)[r], q.subs, t.subs)
    <3>1. Tells(told[r], q.subs, t.subs)
      BY <1>1, <1>4, <1>6, <1>11, OutTells
    <3> HIDE DEF told
    <3>2. relay[r] \in Seq(Message) /\ told[r] \in Seq(Message)
      BY <1>11, <2>1 DEF Outs
    <3>3. Then(relay, told)[r] = relay[r] \o told[r]
      BY DEF Then
    <3> QED
      BY <1>11, <3>1, <3>2, <3>3, TellsThen
  <2> QED
    BY <2>1, <2>2
<1>12. CASE RecvSubs(f, p)
  <2> DEFINE sync == WaveSync(q.phase, q.writers)
             mutual == m.on /\ ~nbr[p][f] /\ q.subs /\ q.phase # "none"
             out == [r \in Peer |-> IF mutual /\ r = f THEN <<sync>> ELSE << >>]
  <2>1. /\ m.kind = "subs" /\ nbr' = [nbr EXCEPT ![p][f] = m.on] /\ Reply(f, p, out)
        /\ peer' = peer
    BY <1>12 DEF RecvSubs, m
  <2>2. mutual => sync \in Message /\ sync.kind # "subs"
    <3>1. q.phase # "none" => q.phase \in {"lobby", "racing"}
      BY <1>1 DEF PeerState
    <3>2. q.writers \in SUBSET Peer
      BY <1>1 DEF PeerState
    <3> QED
      BY <3>1, <3>2, MessageTypes DEF WaveSync
  <2> HIDE DEF sync, mutual
  <2>3. mutual => <<sync>> \in Seq(Message)
    BY <2>2
  <2>4. out \in Outs
    BY <2>3 DEF Outs
  <2>5. \A r \in Peer : Tells(out[r], q.subs, q.subs)
    <3> DEFINE on == q.subs
    <3> HIDE DEF on
    <3>1. Tells(<< >>, on, on) /\ (mutual => Tells(<<sync>>, on, on))
      BY <2>2 DEF Tells, Quiet
    <3> QED
      BY <3>1 DEF on
  <2> HIDE DEF out
  <2>6. \A a, b \in Peer :
          nbr'[a][b] = IF a = p /\ b = f /\ m.kind = "subs" THEN m.on ELSE nbr[a][b]
    BY <1>1, <2>1
  <2> QED
    BY <1>1, <2>1, <2>4, <2>5, <2>6, ReplyView DEF m
<1>13. CASE RecvSync(f, p)
  <2> DEFINE e == EnterLobby(p, q, FALSE)
             w == IngestWriters(p, e, m.writers)
             b == BeginSweep(p, w, CanonicalRoster(m.writers), "sync")
             t == IF ~CanAdopt(q) THEN q ELSE IF m.phase = "racing" THEN b ELSE w
             out == SubscribeSends(p, q, t, fresh)
  <2>1. /\ m.kind = "wave-sync" /\ peer' = [peer EXCEPT ![p] = t] /\ Reply(f, p, out)
        /\ nbr' = nbr
    BY <1>13 DEF RecvSync, m, fresh, Becomes
  <2>2. t.subs \in BOOLEAN /\ (q.subs => t.subs)
    <3>1. CASE ~CanAdopt(q)
      BY <1>1, <3>1
    <3>2. CASE CanAdopt(q)
      <4>1. /\ e \in PeerState /\ RaceHolds(p, e) /\ (q.subs => e.subs) /\ ~e.ended
        BY <1>1, <3>2, EnterLobbyType, EnterLobbyRace DEF CanAdopt
      <4> HIDE DEF e
      <4>2. /\ w \in PeerState /\ w.subs = e.subs /\ w.subs \in BOOLEAN
        BY <1>3, <2>1, <4>1, IngestWritersType, IngestWritersRace DEF PeerState
      <4> HIDE DEF w
      <4>3. b.subs = w.subs
        BY <4>2 DEF BeginSweep, PeerState
      <4> HIDE DEF b
      <4> QED
        BY <3>2, <4>1, <4>2, <4>3
    <3> QED
      BY <3>1, <3>2
  <2> HIDE DEF t
  <2>3. out \in Outs /\ \A r \in Peer : Tells(out[r], q.subs, t.subs)
    BY <1>1, <1>4, <2>2, OutTypes, OutTells
  <2> HIDE DEF out
  <2> QED
    BY <1>9, <2>1, <2>3
<1>14. CASE RecvAnnounce(f, p)
  <2> DEFINE e == EnterLobby(p, s, FALSE)
             t == IF CanAdopt(s) THEN [e EXCEPT !.announced = TRUE] ELSE s
             relay == DirectoryTo(Announce, f)
             out == Then(relay, SubscribeSends(p, s, t, fresh))
  <2>1. m = Announce /\ nbr' = nbr
    BY <1>14 DEF RecvAnnounce, m
  <2>2. m.kind # "subs"
    BY <2>1 DEF Announce
  <2>3. s = [peer[p] EXCEPT !.seen = @ \cup {Announce}]
    BY <2>1 DEF s
  <2>4. IF Announce \in q.seen
        THEN Reply(f, p, Silence) /\ UNCHANGED peer
        ELSE peer' = [peer EXCEPT ![p] = t] /\ Reply(f, p, out)
    BY <1>14, <2>3 DEF RecvAnnounce, fresh, Becomes
  <2>5. s \in PeerState
    BY <1>7, <2>1, MessageTypes
  <2>6. t.subs \in BOOLEAN /\ (q.subs => t.subs)
    <3>1. CASE ~CanAdopt(s)
      BY <1>1, <1>6, <3>1
    <3>2. CASE CanAdopt(s)
      <4>1. e \in PeerState /\ (s.subs => e.subs)
        BY <1>8, <2>5, <3>2, EnterLobbyType, EnterLobbyRace DEF CanAdopt
      <4> HIDE DEF e
      <4>2. t.subs = e.subs /\ e.subs \in BOOLEAN
        BY <3>2, <4>1 DEF PeerState
      <4> QED
        BY <1>6, <4>1, <4>2
    <3> QED
      BY <3>1, <3>2
  <2> HIDE DEF t
  <2>7. relay \in Outs /\ \A r \in Peer : Tells(relay[r], q.subs, q.subs)
    BY <1>2, <2>1, <2>2, OutTypes, OutTells
  <2> HIDE DEF relay
  <2>8. out \in Outs /\ \A r \in Peer : Tells(out[r], q.subs, t.subs)
    BY <1>11, <2>6, <2>7
  <2> HIDE DEF out
  <2> QED
    BY <1>9, <1>10, <2>1, <2>2, <2>4, <2>8
<1>15. ASSUME m.kind \in {"wave-join", "wave-start"}
       PROVE  LET relay == ScopedTo(p, m, f) IN
              relay \in Outs /\ \A r \in Peer : Tells(relay[r], q.subs, q.subs)
  BY <1>2, <1>15, OutTypes, OutTells
<1>16. CASE RecvJoin(f, p)
  <2> DEFINE t == IF s.phase = "lobby" THEN IngestWriters(p, s, {m.origin}) ELSE s
             out == ScopedTo(p, m, f)
  <2>1. /\ m.kind = "wave-join" /\ nbr' = nbr
        /\ IF m \in q.seen
           THEN Reply(f, p, Silence) /\ UNCHANGED peer
           ELSE peer' = [peer EXCEPT ![p] = t] /\ Reply(f, p, out)
    BY <1>16 DEF RecvJoin, m, s, Becomes
  <2>2. s \in PeerState /\ {m.origin} \in SUBSET Peer
    BY <1>3, <1>7, <2>1
  <2>3. t.subs = q.subs
    BY <1>6, <1>8, <2>2, IngestWritersRace
  <2> HIDE DEF t
  <2>4. out \in Outs /\ \A r \in Peer : Tells(out[r], q.subs, t.subs)
    BY <1>15, <2>1, <2>3
  <2> HIDE DEF out
  <2> QED
    BY <1>9, <1>10, <2>1, <2>4
<1>17. CASE RecvStart(f, p)
  <2> DEFINE e == EnterLobby(p, s, FALSE)
             w == IngestWriters(p, e, m.writers)
             b == BeginSweep(p, w, CanonicalRoster(m.writers), "start")
             t == IF CanAdopt(s) THEN b ELSE s
             relay == ScopedTo(p, m, f)
             out == Then(relay, SubscribeSends(p, s, t, fresh))
  <2>1. /\ m.kind = "wave-start" /\ nbr' = nbr
        /\ IF m \in q.seen
           THEN Reply(f, p, Silence) /\ UNCHANGED peer
           ELSE peer' = [peer EXCEPT ![p] = t] /\ Reply(f, p, out)
    BY <1>17 DEF RecvStart, m, s, fresh, Becomes
  <2>2. s \in PeerState /\ m.writers \in SUBSET Peer
    BY <1>3, <1>7, <2>1
  <2>3. t.subs \in BOOLEAN /\ (q.subs => t.subs)
    <3>1. CASE ~CanAdopt(s)
      BY <1>1, <1>6, <3>1
    <3>2. CASE CanAdopt(s)
      <4>1. e \in PeerState /\ RaceHolds(p, e) /\ (s.subs => e.subs)
        BY <1>8, <2>2, <3>2, EnterLobbyType, EnterLobbyRace DEF CanAdopt
      <4> HIDE DEF e
      <4>2. /\ w \in PeerState /\ w.subs = e.subs /\ w.subs \in BOOLEAN
        BY <2>2, <4>1, IngestWritersType, IngestWritersRace DEF PeerState
      <4> HIDE DEF w
      <4>3. b.subs = w.subs
        BY <4>2 DEF BeginSweep, PeerState
      <4> HIDE DEF b
      <4> QED
        BY <1>6, <3>2, <4>1, <4>2, <4>3
    <3> QED
      BY <3>1, <3>2
  <2> HIDE DEF t
  <2>4. relay \in Outs /\ \A r \in Peer : Tells(relay[r], q.subs, q.subs)
    BY <1>15, <2>1
  <2> HIDE DEF relay
  <2>5. out \in Outs /\ \A r \in Peer : Tells(out[r], q.subs, t.subs)
    BY <1>11, <2>3, <2>4
  <2> HIDE DEF out
  <2> QED
    BY <1>9, <1>10, <2>1, <2>5
<1> QED
  BY <1>12, <1>13, <1>14, <1>16, <1>17 DEF Receive

LEMMA InitView == Init => ViewInv
<1> SUFFICES ASSUME Init PROVE ViewInv
  OBVIOUS
<1>1. \A p \in Peer : Mesh[p] \subseteq Peer
  BY PeerAssumption
<1>2. ASSUME NEW p \in Peer, NEW q \in Mesh[p]
      PROVE  Tells(chan[q][p], nbr[p][q], peer[q].subs)
  <2>1. chan[q][p] = << >> /\ nbr[p][q] = FALSE /\ peer[q].subs = FALSE
    BY <1>1 DEF Init, Fresh
  <2>2. Tells(<< >>, FALSE, FALSE)
    BY DEF Tells, Quiet
  <2> QED
    BY <2>1, <2>2
<1> QED
  BY <1>1, <1>2, PeerAssumption DEF Init, ViewInv

LEMMA NextView == TypeOK /\ GossipInv /\ ViewInv /\ [Next]_vars => ViewInv'
<1> SUFFICES ASSUME TypeOK, GossipInv, ViewInv, [Next]_vars
             PROVE  ViewInv'
  OBVIOUS
<1>1. CASE StartWave \/ FinalizeAndStart
  BY <1>1, InitiatorView
<1>2. ASSUME NEW p \in Peer, Local(p)
      PROVE  ViewInv'
  BY <1>2, LocalView
<1>3. ASSUME NEW f \in Peer, NEW p \in Peer, Receive(f, p)
      PROVE  ViewInv'
  BY <1>3, ReceiveView
<1>4. ASSUME NEW f \in Peer, NEW p \in Peer, Connect(f, p) \/ Disconnect(f, p)
      PROVE  ViewInv'
  BY <1>4, LinkView
<1>5. CASE UNCHANGED vars
  BY <1>5 DEF vars, ViewInv
<1> QED
  BY <1>1, <1>2, <1>3, <1>4, <1>5 DEF Next

\* Over any subscribes, unsubscribes, losses of connection and reconnections, what a peer
\* records of an open connection's subscription is what the other end holds, once the frames
\* that say so are handled (recordNeighborSubs, the greeting of onConnection).
THEOREM NeighboursAreKnown == Spec => []NeighbourView
<1>1. TypeOK /\ ViewInv => NeighbourView
  <2> SUFFICES ASSUME TypeOK, ViewInv, NEW p \in Peer, NEW q \in link[p]
               PROVE  LastSubs(p, q) = peer[q].subs
    BY DEF NeighbourView
  <2>1. q \in Peer /\ chan \in ChanType
    BY DEF TypeOK, ChanType
  <2>2. Tells(chan[q][p], nbr[p][q], peer[q].subs)
    BY DEF ViewInv
  <2> QED
    BY <2>1, <2>2, TellsIsLast
<1>2. Init => ViewInv
  BY InitView
<1>3. TypeOK /\ GossipInv /\ ViewInv /\ [Next]_vars => ViewInv'
  BY NextView
<1> QED
  BY <1>1, <1>2, <1>3, GossipInvariant, PTL DEF Spec

=============================================================================
