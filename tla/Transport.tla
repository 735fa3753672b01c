------------------------------ MODULE Transport ------------------------------
(***************************************************************************)
(* The transport half of lib/wave.js: connections (onConnection), the       *)
(* receive edge with its two limiters and the flood dedup (handleGossip,    *)
(* lib/flood.js, lib/rate-limiter.js), the directory flood of announces and *)
(* their catch-up, directed notes with their dials (sendDirect to           *)
(* clearDmDial), the peer table and the switch of the directory topic.      *)
(*                                                                         *)
(* A connection opens and closes for both ends in one step, keeps its       *)
(* frames in order and loses what it carries when it closes.  In the code   *)
(* conn.destroy reads no more at once and its close handlers run later; a    *)
(* frame sent at either end meanwhile is lost, as one sent just before the   *)
(* step is here.  The swarm is the engine's own.  Heartbeats, subscriptions  *)
(* and the control gossip of a wave are in Wave.                            *)
(***************************************************************************)
EXTENDS Naturals, Sequences, FiniteSets

CONSTANTS
  Peer,
  Topic,        \* the directory topics
  Home,         \* the topic every peer starts on
  Initiators,   \* who announces waves
  NotePairs,    \* <<from, to>>: who writes directed notes to whom
  FloodCap,     \* ids the dedup remembers
  OriginBurst,  \* floods one author may have processed before its budget refills
  QueueCap,     \* DM_MAX_QUEUED
  MaxAnnounces, \* bound on the announces
  MaxNotes,     \* bound on the directed notes
  MaxLinks,     \* bound on the connections opened
  MaxFaults,    \* bound on topic switches, shutdowns and frames a connection's limiter drops
  MaxEvents     \* bound on announces, notes and faults together

ASSUME TransportAssumption ==
  /\ Home \in Topic
  /\ Initiators \subseteq Peer
  /\ NotePairs \subseteq Peer \X Peer
  /\ FloodCap \in Nat \ {0} /\ OriginBurst \in Nat \ {0} /\ QueueCap \in Nat \ {0}
  /\ {MaxAnnounces, MaxNotes, MaxLinks, MaxFaults, MaxEvents} \subseteq Nat

VARIABLES
  link,   \* the open connections, sets of two peers
  wire,   \* the frames on their way, in order, by direction
  dir,    \* per peer: its topic, the topics it is joined to, and the switches <<from, to>>
          \* that wait to leave the old one
  known,  \* per peer: the announces it holds (wave.announceMsg), in the order of waves
  seen,   \* per peer: the ids its dedup remembers, oldest first
  budget, \* per peer and author: what is left of originFlood
  origin, \* the author of each announce
  dm,     \* per pair: the queue, the dial and its timers, notes written and received
  used    \* how much of the bounds is used up, and who was dropped from by a limiter

vars == <<link, wire, dir, known, seen, budget, origin, dm, used>>

Mid == 1 .. MaxAnnounces
Note == 1 .. MaxNotes
Way == {w \in Peer \X Peer : w[1] # w[2]}

\* Bug: an announce has no id.
BugAnnounce(m) == [kind |-> "wave-announce"]

Announce(m) == [kind |-> "wave-announce", id |-> m]
Directed(n) == [kind |-> "wave-dm", id |-> n]

Closed == "closed" \* the topic of a peer that is gone
Up(p) == dir[p].topic # Closed

Linked(p, q) == {p, q} \in link
WithinBounds == Len(origin) + used.notes + used.faults < MaxEvents
FaultLeft == WithinBounds /\ used.faults < MaxFaults
Neighbours(p) == {q \in Peer : Linked(p, q)} \* table.senderIds

-----------------------------------------------------------------------------
\* The flood dedup (Flood.firstSight): at its cap it forgets the oldest id.
Remember(ids, m) ==
  LET kept == IF Len(ids) >= FloodCap THEN Tail(ids) ELSE ids
  IN  Append(kept, m)

Seen(p, m) == \E i \in DOMAIN seen[p] : seen[p][i] = m

\* waves has an entry with the announce; a new one goes to the end.
Holds(p, m) == \E i \in DOMAIN known[p] : known[p][i] = m

\* broadcast and relayDir: to every connection but the one it came on.
Spread(p, m, but) ==
  [w \in Way |-> IF w[1] = p /\ w[2] \in Neighbours(p) \ {but}
                 THEN Append(wire[w], Announce(m)) ELSE wire[w]]

\* doAnnounce's floodDir.  The id is remembered first, so it cannot loop back.
OpenWave(p) ==
  LET m == Len(origin) + 1 IN
  /\ p \in Initiators /\ Up(p)
  /\ m \in Mid /\ WithinBounds
  /\ origin' = Append(origin, p)
  /\ seen' = [seen EXCEPT ![p] = Remember(@, m)]
  /\ known' = [known EXCEPT ![p] = Append(@, m)]
  /\ wire' = Spread(p, m, p)
  /\ UNCHANGED <<link, dir, budget, dm, used>>

-----------------------------------------------------------------------------
\* Directed notes.
NoDm == [queue |-> <<>>, dialed |-> FALSE, timers |-> 0, got |-> <<>>]

\* Bug: a dial is forgotten with its mark left set.
BugCleared(d) == [d EXCEPT !.queue = <<>>]

\* clearDmDial: on a timeout, a delivery, a move or the end.
Cleared(d) == [d EXCEPT !.queue = <<>>, !.dialed = FALSE]

\* dialForDm: the note waits for the dial; a stuck dial keeps the newest notes.
Queued(d, n) ==
  [d EXCEPT !.queue = Append(IF Len(@) >= QueueCap THEN Tail(@) ELSE @, n),
            !.dialed = TRUE, !.timers = IF d.dialed THEN @ ELSE @ + 1]

\* dm / sendDirect: over the connection there is, or by dialing.
SendNote(w) ==
  LET n == used.notes + 1 IN
  /\ w \in NotePairs /\ w \in Way /\ Up(w[1])
  /\ n \in Note /\ WithinBounds
  /\ used' = [used EXCEPT !.notes = n]
  /\ IF Linked(w[1], w[2])
     THEN /\ wire' = [wire EXCEPT ![w] = Append(@, Directed(n))]
          /\ UNCHANGED dm
     ELSE /\ dm' = [dm EXCEPT ![w] = Queued(@, n)]
          /\ UNCHANGED wire
  /\ UNCHANGED <<link, dir, known, seen, budget, origin>>

\* DM_DIAL_TIMEOUT_MS after a dial, delivered or not: no timer is ever cancelled.
DialTimeout(w) ==
  /\ dm[w].timers > 0
  /\ dm' = [dm EXCEPT ![w] = [Cleared(dm[w]) EXCEPT !.timers = @ - 1]]
  /\ UNCHANGED <<link, wire, dir, known, seen, budget, origin, used>>

-----------------------------------------------------------------------------
\* Connections.

\* Bug: no catch-up of announces on a new connection.
BugGreeting(w) == [i \in DOMAIN dm[w].queue |-> Directed(dm[w].queue[i])]

\* The frames p sends first on a new connection to q: the notes queued for it
\* (flushPendingDm), then every announce it holds (after heartbeat and subscriptions).
Greeting(w) ==
  [i \in DOMAIN dm[w].queue |-> Directed(dm[w].queue[i])] \o
  [i \in DOMAIN known[w[1]] |-> Announce(known[w[1]][i])]

\* Two peers of one topic discover each other, or a dial gets through (onConnection).
Flushed(d) == IF d.queue = <<>> THEN d ELSE Cleared(d)

Connect(p, q) ==
  /\ p # q /\ ~Linked(p, q) /\ Up(p) /\ Up(q)
  /\ used.links < MaxLinks
  /\ \/ dir[p].joined \cap dir[q].joined # {}
     \/ dm[<<p, q>>].dialed \/ dm[<<q, p>>].dialed
  /\ link' = link \cup {{p, q}}
  /\ wire' = [wire EXCEPT ![<<p, q>>] = Greeting(<<p, q>>), ![<<q, p>>] = Greeting(<<q, p>>)]
  /\ dm' = [dm EXCEPT ![<<p, q>>] = Flushed(@), ![<<q, p>>] = Flushed(@)]
  /\ used' = [used EXCEPT !.links = @ + 1]
  /\ UNCHANGED <<dir, known, seen, budget, origin>>

\* A connection closes: what it carried is lost, the seat and the channel go at once.
Cut(pairs) ==
  /\ link' = link \ pairs
  /\ wire' = [w \in Way |-> IF {w[1], w[2]} \in pairs THEN <<>> ELSE wire[w]]

Disconnect(p, q) ==
  /\ Linked(p, q)
  /\ used.links < MaxLinks \* the last connections stay
  /\ Cut({{p, q}})
  /\ UNCHANGED <<dir, known, seen, budget, origin, dm, used>>

-----------------------------------------------------------------------------
\* The receive edge of q for the first frame from p.

\* handleWaveAnnounce, after relayDir: the wave is held from now on.
Adopted(q, m) == known' = [known EXCEPT ![q] = IF Holds(q, m) THEN @ ELSE Append(@, m)]

\* A flooded frame: once, within its author's budget, relayed before it is handled.
Flooded(p, q, m) ==
  LET read == [wire EXCEPT ![<<p, q>>] = Tail(@)]
      o == origin[m] IN
  /\ UNCHANGED dm
  /\ IF Seen(q, m) \* already seen: dropped
     THEN wire' = read /\ UNCHANGED <<known, seen, budget, used>>
     ELSE /\ seen' = [seen EXCEPT ![q] = Remember(@, m)]
          /\ IF budget[q][o] = 0 \* over its author's budget: neither relayed nor handled
             THEN /\ wire' = read
                  /\ used' = [used EXCEPT !.over = @ \cup {q}]
                  /\ UNCHANGED <<known, budget>>
             ELSE /\ budget' = [budget EXCEPT ![q][o] = @ - 1]
                  /\ wire' = [Spread(q, m, p) EXCEPT ![<<p, q>>] = Tail(@)]
                  /\ Adopted(q, m)
                  /\ UNCHANGED used

\* A direct frame is handled for its author only, the peer of the connection.
Unicast(p, q, n) ==
  /\ dm' = [dm EXCEPT ![<<p, q>>].got = Append(@, n)]
  /\ wire' = [wire EXCEPT ![<<p, q>>] = Tail(@)]
  /\ UNCHANGED <<known, seen, budget, used>>

Receive(p, q) ==
  /\ <<p, q>> \in Way /\ wire[<<p, q>>] # <<>>
  /\ LET f == Head(wire[<<p, q>>]) IN
     IF f.kind = "wave-announce" THEN Flooded(p, q, f.id) ELSE Unicast(p, q, f.id)
  /\ UNCHANGED <<link, dir, origin>>

\* Bug: the limiter runs after the dedup.
BugThrottle(p, q) ==
  /\ <<p, q>> \in Way /\ wire[<<p, q>>] # <<>>
  /\ FaultLeft
  /\ LET f == Head(wire[<<p, q>>]) IN
     seen' = IF f.kind = "wave-announce" /\ ~Seen(q, f.id)
             THEN [seen EXCEPT ![q] = Remember(@, f.id)] ELSE seen
  /\ wire' = [wire EXCEPT ![<<p, q>>] = Tail(@)]
  /\ used' = [used EXCEPT !.faults = @ + 1, !.throttled = @ \cup {q}]
  /\ UNCHANGED <<link, dir, known, budget, origin, dm>>

\* The connection is over its rate: the frame is dropped before anything looks at it.
Throttle(p, q) ==
  /\ <<p, q>> \in Way /\ wire[<<p, q>>] # <<>>
  /\ FaultLeft
  /\ wire' = [wire EXCEPT ![<<p, q>>] = Tail(@)]
  /\ used' = [used EXCEPT !.faults = @ + 1, !.throttled = @ \cup {q}]
  /\ UNCHANGED <<link, dir, known, seen, budget, origin, dm>>

\* Time refills an author's bucket.
Refill(q, o) ==
  /\ budget[q][o] < OriginBurst
  /\ budget' = [budget EXCEPT ![q][o] = OriginBurst]
  /\ UNCHANGED <<link, wire, dir, known, seen, origin, dm, used>>

-----------------------------------------------------------------------------
\* switchTopic up to its await: every wave is dropped, the connections still talk.  The
\* topic is still the old one, so a second switch leaves it once more.
LeaveTopic(p, t) ==
  /\ t # dir[p].topic /\ Up(p)
  /\ FaultLeft
  /\ used' = [used EXCEPT !.faults = @ + 1, !.moved = @ \cup {p}]
  /\ known' = [known EXCEPT ![p] = <<>>]
  /\ dir' = [dir EXCEPT ![p].leaving = @ \cup {<<dir[p].topic, t>>}]
  /\ UNCHANGED <<link, wire, seen, budget, origin, dm>>

\* ... and after it: the dials are released, the connections destroyed, the new topic is
\* joined, next to that of another switch which went through meanwhile.
JoinTopic(p, from, to) ==
  /\ <<from, to>> \in dir[p].leaving
  /\ dir' = [dir EXCEPT ![p] = [topic |-> to, joined |-> (@.joined \ {from}) \cup {to},
                                leaving |-> @.leaving \ {<<from, to>>}]]
  /\ dm' = [w \in Way |-> IF w[1] = p THEN Cleared(dm[w]) ELSE dm[w]]
  /\ Cut({l \in link : p \in l})
  /\ UNCHANGED <<known, seen, budget, origin, used>>

\* close: the connections end, the dials are released with their notes.  The others see the
\* connection go, and may dial for a note in vain.  A switch that still waits finds the
\* swarm destroyed and can do nothing more with it.
Close(p) ==
  /\ Up(p)
  /\ FaultLeft
  /\ used' = [used EXCEPT !.faults = @ + 1]
  /\ dir' = [dir EXCEPT ![p] = [topic |-> Closed, joined |-> {}, leaving |-> {}]]
  /\ dm' = [w \in Way |-> IF w[1] = p THEN Cleared(dm[w]) ELSE dm[w]]
  /\ Cut({l \in link : p \in l})
  /\ UNCHANGED <<known, seen, budget, origin>>

-----------------------------------------------------------------------------
Init ==
  /\ link = {}
  /\ wire = [w \in Way |-> <<>>]
  /\ dir = [p \in Peer |-> [topic |-> Home, joined |-> {Home}, leaving |-> {}]]
  /\ known = [p \in Peer |-> <<>>]
  /\ seen = [p \in Peer |-> <<>>]
  /\ budget = [p \in Peer |-> [o \in Initiators |-> OriginBurst]]
  /\ origin = <<>>
  /\ dm = [w \in Way |-> NoDm]
  /\ used = [notes |-> 0, links |-> 0, faults |-> 0,
             throttled |-> {}, over |-> {}, moved |-> {}]

Next ==
  \/ \E p \in Peer : OpenWave(p) \/ Close(p)
  \/ \E p, q \in Peer : \/ Connect(p, q) \/ Disconnect(p, q)
                        \/ Receive(p, q) \/ Throttle(p, q)
  \/ \E w \in Way : SendNote(w) \/ DialTimeout(w)
  \/ \E q \in Peer, o \in Initiators : Refill(q, o)
  \/ \E p \in Peer, t \in Topic : \/ LeaveTopic(p, t)
                                  \/ \E from \in Topic : JoinTopic(p, from, t)

Spec == Init /\ [][Next]_vars

\* What an open connection carries is delivered.
Fairness == \A p, q \in Peer : WF_vars(Receive(p, q))

FairSpec == Spec /\ Fairness

-----------------------------------------------------------------------------
\* Properties.
Bounded(s, S) == \A i \in DOMAIN s : s[i] \in S

\* Type correctness of every variable.
TypeOK ==
  /\ \A l \in link : l \subseteq Peer /\ Cardinality(l) = 2
  /\ \A w \in Way :
       /\ Bounded(wire[w], [kind : {"wave-announce"}, id : Mid]
                             \cup [kind : {"wave-dm"}, id : Note])
       /\ dm[w].timers \in Nat /\ dm[w].dialed \in BOOLEAN
       /\ Bounded(dm[w].queue, Note) /\ Len(dm[w].queue) <= QueueCap
       /\ Bounded(dm[w].got, Note)
  /\ dir \in [Peer -> [topic : Topic \cup {Closed}, joined : SUBSET Topic,
                      leaving : SUBSET (Topic \X Topic)]]
  /\ \A p \in Peer : /\ Bounded(known[p], Mid)
                    /\ Bounded(seen[p], Mid) /\ Len(seen[p]) <= FloodCap
  /\ budget \in [Peer -> [Initiators -> 0 .. OriginBurst]]
  /\ Bounded(origin, Initiators)
  /\ used \in [notes : 0 .. MaxNotes, links : 0 .. MaxLinks, faults : 0 .. MaxFaults,
               throttled : SUBSET Peer,
               over : SUBSET Peer, moved : SUBSET Peer]

Ascending(ids) == \A i, j \in DOMAIN ids : i < j => ids[i] < ids[j]

\* Where the notes on their way from w[1] to w[2] stand among its frames.
NotesOn(w) == {i \in DOMAIN wire[w] : wire[w][i].kind = "wave-dm"}

\* Received, then on their way, then queued: one rising sequence.
NotesInOrder ==
  \A w \in Way :
    LET got == dm[w].got
        queue == dm[w].queue
    IN  /\ Ascending(got) /\ Ascending(queue)
        /\ \A i, j \in NotesOn(w) : i < j => wire[w][i].id < wire[w][j].id
        /\ \A i \in DOMAIN got :
             /\ \A j \in NotesOn(w) : got[i] < wire[w][j].id
             /\ \A k \in DOMAIN queue : got[i] < queue[k]
        /\ \A j \in NotesOn(w), k \in DOMAIN queue : wire[w][j].id < queue[k]

DialWhileQueued ==
  \A w \in Way : /\ dm[w].queue # <<>> <=> dm[w].dialed
                 /\ Linked(w[1], w[2]) => ~dm[w].dialed

\* Directed notes of one peer to another arrive in the order they were written, once: the
\* queue of a dial, its flush and the direct sends never overtake each other; and a note waits
\* only for a dial that runs, a dial is held open only for a note, and with a connection there
\* is neither, whatever dials, time-outs, moves and shutdowns came in between.
NotesAndDials == NotesInOrder /\ DialWhileQueued

\* What the dedup remembers was handled: a frame dropped by a connection's limiter, or
\* lost with a connection, counts again when another neighbour sends it.  Two ways out:
\* an author over its budget, and a peer that moved.
SeenIsHandled ==
  \A p \in Peer, m \in Mid : Seen(p, m) => Holds(p, m) \/ p \in used.over \cup used.moved

\* The flood with its relays and the catch-up of whoever connects later leave nobody out:
\* once the connections hold the directory together for good, and no limiter dropped a
\* frame and nobody moved, every peer learns of every wave.
Together ==
  \A S \in SUBSET Peer \ {{}, Peer} : \E p \in S, q \in Peer \ S : Linked(p, q)

EveryoneLearns ==
  <>[](Together /\ used.throttled \cup used.over \cup used.moved = {})
    => <>[](\A p \in Peer : \A m \in DOMAIN origin : Holds(p, m))

=============================================================================
