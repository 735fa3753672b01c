-------------------------- MODULE TransportProofs --------------------------
(***************************************************************************)
(* Theorems about Transport, for every set of peers and topics, every cap  *)
(* and every bound: its types, the order of directed notes and the life of *)
(* their dials, and that what the flood dedup remembers was handled.       *)
(*                                                                         *)
(* The order of notes rests on facts about three sequences - received, on  *)
(* the wire, queued - which the operators of Transport cut and extend; the *)
(* lemmas on InOrder state them once, for any such sequences.              *)
(***************************************************************************)
EXTENDS Transport, FiniteSetTheorems, TLAPS

-----------------------------------------------------------------------------
\* The inductive invariant.

Frames == [kind : {"wave-announce"}, id : Mid] \cup [kind : {"wave-dm"}, id : Note]

Dms == {d \in [queue : Seq(Note), dialed : BOOLEAN, timers : Nat, got : Seq(Note)] :
          Len(d.queue) <= QueueCap}

\* TypeOK, with the maps and sequences it leaves open.
Types ==
  /\ \A l \in link : \E p, q \in Peer : p # q /\ l = {p, q}
  /\ wire \in [Way -> Seq(Frames)]
  /\ dm \in [Way -> Dms]
  /\ dir \in [Peer -> [topic : Topic \cup {Closed}, joined : SUBSET Topic,
                      leaving : SUBSET (Topic \X Topic)]]
  /\ known \in [Peer -> Seq(Mid)]
  /\ seen \in [Peer -> Seq(Mid)]
  /\ \A p \in Peer : Len(seen[p]) <= FloodCap
  /\ budget \in [Peer -> [Initiators -> 0 .. OriginBurst]]
  /\ origin \in Seq(Initiators)
  /\ used \in [notes : 0 .. MaxNotes, links : 0 .. MaxLinks, faults : 0 .. MaxFaults,
               throttled : SUBSET Peer,
               over : SUBSET Peer, moved : SUBSET Peer]

\* An announce on the wire or held has an author.
Authored ==
  /\ \A w \in Way : \A i \in DOMAIN wire[w] :
       wire[w][i].kind = "wave-announce" => wire[w][i].id \in DOMAIN origin
  /\ \A p \in Peer : \A i \in DOMAIN known[p] : known[p][i] \in DOMAIN origin

NotesIn(c) == {i \in DOMAIN c : c[i].kind = "wave-dm"}

\* Notes received (g), on the wire (c) and queued (k) rise, and none is above n.
InOrder(g, c, k, n) ==
  /\ Ascending(g) /\ Ascending(k)
  /\ \A i, j \in NotesIn(c) : i < j => c[i].id < c[j].id
  /\ \A i \in DOMAIN g : g[i] <= n
  /\ \A i \in NotesIn(c) : c[i].id <= n
  /\ \A i \in DOMAIN k : k[i] <= n
  /\ \A i \in DOMAIN g, j \in NotesIn(c) : g[i] < c[j].id
  /\ \A i \in DOMAIN g, j \in DOMAIN k : g[i] < k[j]
  /\ \A i \in NotesIn(c), j \in DOMAIN k : c[i].id < k[j]

Ordered == \A w \in Way : InOrder(dm[w].got, wire[w], dm[w].queue, used.notes)

IInv == Types /\ Authored /\ Ordered /\ DialWhileQueued /\ SeenIsHandled

-----------------------------------------------------------------------------
\* What the operators of Transport do to sequences.

LEMMA IdsAreNumbers ==
  ASSUME NEW g \in Seq(Note), NEW c \in Seq(Frames)
  PROVE  /\ Note \subseteq Nat /\ Mid \subseteq Nat
         /\ \A i \in DOMAIN g : i \in Nat /\ g[i] \in Nat
         /\ \A i \in NotesIn(c) : i \in Nat /\ c[i].id \in Nat
<1>1. Note \subseteq Nat /\ Mid \subseteq Nat
  BY TransportAssumption DEF Note, Mid
<1>2. \A i \in DOMAIN g : i \in Nat /\ g[i] \in Note
  OBVIOUS
<1>3. \A i \in NotesIn(c) : i \in Nat /\ c[i] \in Frames
  BY DEF NotesIn
<1>4. \A f \in Frames : f.id \in Nat
  BY <1>1 DEF Frames
<1> QED
  BY <1>1, <1>2, <1>3, <1>4

\* A note written now goes after all there are: to the wire, if nothing is queued, ...
LEMMA OrderSend ==
  ASSUME NEW g \in Seq(Note), NEW c \in Seq(Frames), NEW n \in Nat,
         InOrder(g, c, << >>, n)
  PROVE  InOrder(g, Append(c, Directed(n + 1)), << >>, n + 1)
<1> DEFINE e == Append(c, Directed(n + 1))
<1>1. /\ Len(c) \in Nat /\ DOMAIN e = 1 .. Len(c) + 1 /\ DOMAIN c = 1 .. Len(c)
      /\ \A i \in 1 .. Len(c) : e[i] = c[i]
      /\ e[Len(c) + 1] = Directed(n + 1)
  OBVIOUS
<1>2. Directed(n + 1).kind = "wave-dm" /\ Directed(n + 1).id = n + 1
  BY DEF Directed
<1> HIDE DEF e
<1>3. \A i \in NotesIn(e) : (i \in NotesIn(c) /\ e[i] = c[i]) \/ (i = Len(c) + 1 /\ e[i].id = n + 1)
  BY <1>1, <1>2 DEF NotesIn
<1>4. \A i \in NotesIn(c) : c[i].id \in Nat /\ i \in Nat /\ i < Len(c) + 1 /\ c[i].id <= n
  BY <1>1, IdsAreNumbers DEF NotesIn, InOrder
<1>5. \A i \in DOMAIN g : g[i] \in Nat /\ g[i] <= n
  BY IdsAreNumbers DEF InOrder
<1>6. \A i, j \in NotesIn(e) : i < j => e[i].id < e[j].id
  BY <1>1, <1>3, <1>4 DEF InOrder
<1>7. \A i \in NotesIn(e) : e[i].id <= n + 1
  BY <1>3, <1>4
<1>8. \A i \in DOMAIN g, j \in NotesIn(e) : g[i] < e[j].id
  BY <1>3, <1>5 DEF InOrder
<1>9. \A i \in DOMAIN g : g[i] <= n + 1
  BY <1>5
<1>10. Ascending(g) /\ Ascending(<< >>)
  BY DEF InOrder
<1> DEFINE k == << >>
<1>11. Ascending(k) /\ DOMAIN k = {}
  BY <1>10
<1> HIDE DEF k
<1>12. InOrder(g, e, k, n + 1)
  BY <1>6, <1>7, <1>8, <1>9, <1>10, <1>11 DEF InOrder
<1> QED
  BY <1>12 DEF e, k

\* ... or to the queue, where a full one gives up its oldest.
LEMMA OrderForget ==
  ASSUME NEW g \in Seq(Note), NEW c \in Seq(Frames), NEW k \in Seq(Note), NEW n \in Nat,
         k # << >>, InOrder(g, c, k, n)
  PROVE  InOrder(g, c, Tail(k), n)
<1> DEFINE t == Tail(k)
<1>1. /\ Len(k) \in Nat /\ DOMAIN k = 1 .. Len(k) /\ DOMAIN t = 1 .. Len(k) - 1
      /\ \A i \in DOMAIN t : t[i] = k[i + 1] /\ i + 1 \in DOMAIN k /\ i \in Nat
  OBVIOUS
<1> HIDE DEF t
<1>2. Ascending(t)
  BY <1>1 DEF Ascending, InOrder
<1> QED
  BY <1>1, <1>2 DEF InOrder, t

LEMMA OrderQueue ==
  ASSUME NEW g \in Seq(Note), NEW c \in Seq(Frames), NEW k \in Seq(Note), NEW n \in Nat,
         InOrder(g, c, k, n)
  PROVE  InOrder(g, c, Append(k, n + 1), n + 1)
<1> DEFINE e == Append(k, n + 1)
<1>1. /\ Len(k) \in Nat /\ DOMAIN e = 1 .. Len(k) + 1 /\ DOMAIN k = 1 .. Len(k)
      /\ \A i \in 1 .. Len(k) : e[i] = k[i]
      /\ e[Len(k) + 1] = n + 1
  OBVIOUS
<1> HIDE DEF e
<1>2. /\ \A i \in DOMAIN g : g[i] \in Nat /\ g[i] <= n
      /\ \A i \in DOMAIN k : i \in Nat /\ k[i] \in Nat /\ k[i] <= n
      /\ \A i \in NotesIn(c) : c[i].id \in Nat /\ c[i].id <= n
  BY IdsAreNumbers DEF InOrder
<1>3. Ascending(e)
  BY <1>1, <1>2 DEF Ascending, InOrder
<1>4. \A i \in DOMAIN e : e[i] <= n + 1
  BY <1>1, <1>2
<1>5. \A i \in DOMAIN g, j \in DOMAIN e : g[i] < e[j]
  BY <1>1, <1>2 DEF InOrder
<1>6. \A i \in NotesIn(c), j \in DOMAIN e : c[i].id < e[j]
  BY <1>1, <1>2 DEF InOrder
<1>7. /\ \A i \in DOMAIN g : g[i] <= n + 1
      /\ \A i \in NotesIn(c) : c[i].id <= n + 1
  BY <1>2
<1> QED
  BY <1>3, <1>4, <1>5, <1>6, <1>7 DEF InOrder, e

\* Nothing is out of order for what is forgotten: a queue, or the frames of a connection.
LEMMA OrderDrop ==
  ASSUME NEW g \in Seq(Note), NEW c \in Seq(Frames), NEW k \in Seq(Note), NEW n \in Nat,
         InOrder(g, c, k, n)
  PROVE  InOrder(g, c, << >>, n) /\ InOrder(g, << >>, k, n) /\ InOrder(g, c, k, n + 1)
<1> DEFINE e == << >>
<1>1. DOMAIN e = {} /\ NotesIn(e) = {} /\ Ascending(e)
  BY DEF NotesIn, Ascending
<1> HIDE DEF e
<1>2. /\ \A i \in DOMAIN g : g[i] <= n + 1
      /\ \A i \in DOMAIN k : k[i] <= n + 1
      /\ \A i \in NotesIn(c) : c[i].id <= n + 1
  BY IdsAreNumbers DEF InOrder
<1>3. InOrder(g, c, k, n + 1)
  BY <1>2 DEF InOrder
<1> QED
  BY <1>1, <1>3 DEF InOrder, e

\* The frames of a greeting, from the notes queued and the announces held.
Hello(k, h) == [i \in DOMAIN k |-> Directed(k[i])] \o [i \in DOMAIN h |-> Announce(h[i])]

\* The queue becomes the first frames of a new connection, announces follow.
LEMMA OrderFlush ==
  ASSUME NEW g \in Seq(Note), NEW c \in Seq(Frames), NEW k \in Seq(Note), NEW n \in Nat,
         InOrder(g, c, k, n), NEW h \in Seq(Mid)
  PROVE  LET hello == Hello(k, h)
         IN  /\ hello \in Seq(Frames) /\ InOrder(g, hello, << >>, n)
             /\ \A i \in DOMAIN hello :
                  hello[i].kind = "wave-announce" => \E j \in DOMAIN h : hello[i].id = h[j]
<1> DEFINE notes == [i \in DOMAIN k |-> Directed(k[i])]
           anns == [i \in DOMAIN h |-> Announce(h[i])]
           hello == notes \o anns
<1>1. notes \in Seq(Frames) /\ Len(notes) = Len(k)
  <2>1. \A i \in 1 .. Len(k) : Directed(k[i]) \in Frames
    BY DEF Directed, Frames
  <2>2. notes = [i \in 1 .. Len(k) |-> Directed(k[i])] /\ Len(k) \in Nat
    OBVIOUS
  <2> QED
    BY <2>1, <2>2
<1>2. anns \in Seq(Frames) /\ Len(anns) = Len(h)
  <2>1. \A i \in 1 .. Len(h) : Announce(h[i]) \in Frames
    BY DEF Announce, Frames
  <2>2. anns = [i \in 1 .. Len(h) |-> Announce(h[i])] /\ Len(h) \in Nat
    OBVIOUS
  <2> QED
    BY <2>1, <2>2
<1>3. /\ \A i \in 1 .. Len(k) : notes[i].kind = "wave-dm" /\ notes[i].id = k[i]
      /\ \A i \in 1 .. Len(h) : anns[i].kind = "wave-announce" /\ anns[i].id = h[i]
  BY DEF Directed, Announce
<1> HIDE DEF notes, anns
<1>a. Len(k) \in Nat /\ Len(h) \in Nat /\ DOMAIN k = 1 .. Len(k)
  OBVIOUS
<1>b. /\ hello \in Seq(Frames) /\ Len(hello) = Len(k) + Len(h)
      /\ \A i \in 1 .. Len(k) : hello[i] = notes[i]
  <2>1. hello \in Seq(Frames)
    BY <1>1, <1>2
  <2>3. Len(hello) = Len(notes) + Len(anns)
    <3>1. \A a, b \in Seq(Frames) : Len(a \o b) = Len(a) + Len(b)
      OBVIOUS
    <3> QED
      BY <1>1, <1>2, <3>1
  <2>2. \A i \in 1 .. Len(notes) : hello[i] = notes[i]
    BY <1>1, <1>2
  <2> QED
    BY <1>1, <1>2, <2>1, <2>2, <2>3
<1>c. \A i \in Len(k) + 1 .. Len(k) + Len(h) :
        hello[i] = anns[i - Len(k)] /\ i - Len(k) \in 1 .. Len(h)
  BY <1>1, <1>2, <1>a
<1>4. /\ hello \in Seq(Frames) /\ DOMAIN hello = 1 .. Len(k) + Len(h)
      /\ Len(k) \in Nat /\ Len(h) \in Nat /\ DOMAIN k = 1 .. Len(k)
      /\ \A i \in 1 .. Len(k) : hello[i] = notes[i]
      /\ \A i \in Len(k) + 1 .. Len(k) + Len(h) :
           hello[i] = anns[i - Len(k)] /\ i - Len(k) \in 1 .. Len(h)
  BY <1>a, <1>b, <1>c
<1> HIDE DEF hello
<1>5. \A i \in NotesIn(hello) : i \in DOMAIN k /\ hello[i].id = k[i]
  <2> SUFFICES ASSUME NEW i \in NotesIn(hello)
               PROVE  i \in DOMAIN k /\ hello[i].id = k[i]
    OBVIOUS
  <2>1. i \in 1 .. Len(k) + Len(h) /\ hello[i].kind = "wave-dm"
    BY <1>4 DEF NotesIn
  <2>2. CASE i \in 1 .. Len(k)
    BY <1>3, <1>4, <2>2
  <2>3. CASE i \in Len(k) + 1 .. Len(k) + Len(h)
    BY <1>3, <1>4, <2>1, <2>3
  <2> QED
    BY <1>4, <2>1, <2>2, <2>3
<1>8. ASSUME NEW i \in DOMAIN hello, hello[i].kind = "wave-announce"
      PROVE  \E j \in DOMAIN h : hello[i].id = h[j]
  <2>1. CASE i \in 1 .. Len(k)
    BY <1>3, <1>4, <1>8, <2>1
  <2>2. CASE i \in Len(k) + 1 .. Len(k) + Len(h)
    <3>1. i - Len(k) \in DOMAIN h
      BY <1>4, <2>2
    <3> QED
      BY <1>3, <1>4, <2>2, <3>1
  <2> QED
    BY <1>4, <2>1, <2>2
<1> DEFINE e == << >>
<1>6. DOMAIN e = {} /\ Ascending(e)
  BY DEF Ascending
<1> HIDE DEF e
<1>7. InOrder(g, hello, e, n)
  BY <1>5, <1>6 DEF InOrder, Ascending
<1> QED
  BY <1>4, <1>7, <1>8 DEF e, hello, notes, anns, Hello

\* An announce is no note.
LEMMA OrderAnnounce ==
  ASSUME NEW g \in Seq(Note), NEW c \in Seq(Frames), NEW k \in Seq(Note), NEW n \in Nat,
         InOrder(g, c, k, n), NEW m
  PROVE  InOrder(g, Append(c, Announce(m)), k, n)
<1> DEFINE e == Append(c, Announce(m))
<1>1. /\ Len(c) \in Nat /\ DOMAIN e = 1 .. Len(c) + 1 /\ DOMAIN c = 1 .. Len(c)
      /\ \A i \in 1 .. Len(c) : e[i] = c[i]
      /\ e[Len(c) + 1] = Announce(m)
  OBVIOUS
<1>2. Announce(m).kind # "wave-dm"
  BY DEF Announce
<1> HIDE DEF e
<1>3. NotesIn(e) = NotesIn(c) /\ \A i \in NotesIn(c) : e[i] = c[i]
  BY <1>1, <1>2 DEF NotesIn
<1>4. InOrder(g, e, k, n)
  BY <1>3 DEF InOrder
<1> QED
  BY <1>4 DEF e

\* The oldest frame is taken off the wire: a note becomes the last one received.
LEMMA OrderRead ==
  ASSUME NEW g \in Seq(Note), NEW c \in Seq(Frames), NEW k \in Seq(Note), NEW n \in Nat,
         InOrder(g, c, k, n), c # << >>
  PROVE  /\ InOrder(g, Tail(c), k, n)
         /\ Head(c).kind = "wave-dm" => InOrder(Append(g, Head(c).id), Tail(c), k, n)
<1> DEFINE t == Tail(c)
           m == Head(c)
           e == Append(g, m.id)
<1>1. /\ Len(c) \in Nat /\ Len(c) >= 1 /\ DOMAIN c = 1 .. Len(c) /\ DOMAIN t = 1 .. Len(c) - 1
      /\ \A i \in DOMAIN t : t[i] = c[i + 1] /\ i + 1 \in DOMAIN c /\ i \in Nat
      /\ m = c[1] /\ 1 \in DOMAIN c
  OBVIOUS
<1>2. /\ Len(g) \in Nat /\ DOMAIN e = 1 .. Len(g) + 1 /\ DOMAIN g = 1 .. Len(g)
      /\ \A i \in 1 .. Len(g) : e[i] = g[i]
      /\ e[Len(g) + 1] = m.id
  OBVIOUS
<1> HIDE DEF t, m, e
<1>3. \A i \in NotesIn(t) : i + 1 \in NotesIn(c) /\ t[i] = c[i + 1] /\ i \in Nat /\ i >= 1
  BY <1>1 DEF NotesIn
<1>4. \A i, j \in NotesIn(t) : i < j => t[i].id < t[j].id
  BY <1>3 DEF InOrder
<1>5. InOrder(g, t, k, n)
  BY <1>3, <1>4 DEF InOrder
<1>6. ASSUME m.kind = "wave-dm"
      PROVE  InOrder(e, t, k, n)
  <2>1. 1 \in NotesIn(c)
    BY <1>1, <1>6 DEF NotesIn
  <2>2. /\ \A i \in DOMAIN g : g[i] < m.id
        /\ \A i \in DOMAIN k : m.id < k[i]
        /\ m.id <= n
    BY <1>1, <2>1 DEF InOrder
  <2>3. \A i \in NotesIn(t) : m.id < t[i].id
    <3> SUFFICES ASSUME NEW i \in NotesIn(t) PROVE m.id < t[i].id
      OBVIOUS
    <3>1. i + 1 \in NotesIn(c) /\ t[i] = c[i + 1] /\ 1 < i + 1
      BY <1>3
    <3> QED
      BY <1>1, <2>1, <3>1 DEF InOrder
  <2>4. Ascending(e)
    BY <1>2, <2>2 DEF Ascending, InOrder
  <2>5. \A i \in DOMAIN e : (i \in DOMAIN g /\ e[i] = g[i]) \/ e[i] = m.id
    BY <1>2
  <2> QED
    BY <1>5, <2>2, <2>3, <2>4, <2>5 DEF InOrder
<1> QED
  BY <1>5, <1>6 DEF t, m, e

-----------------------------------------------------------------------------
\* Types.

LEMMA Ways ==
  /\ \A w \in Way : w[1] \in Peer /\ w[2] \in Peer /\ w[1] # w[2] /\ w = <<w[1], w[2]>>
  /\ \A p, q \in Peer : p # q => <<p, q>> \in Way
BY DEF Way

\* Fails nobody: the dedup keeps within its cap and remembers nothing it was not told.
LEMMA Remembered ==
  ASSUME NEW ids \in Seq(Mid), Len(ids) <= FloodCap, NEW m \in Mid
  PROVE  LET new == Remember(ids, m) IN
         /\ new \in Seq(Mid) /\ Len(new) <= FloodCap
         /\ \A i \in DOMAIN new : new[i] = m \/ \E j \in DOMAIN ids : ids[j] = new[i]
<1> DEFINE kept == IF Len(ids) >= FloodCap THEN Tail(ids) ELSE ids
           new == Append(kept, m)
<1>1. FloodCap \in Nat /\ FloodCap >= 1 /\ Len(ids) \in Nat
  BY TransportAssumption
<1>2. CASE Len(ids) >= FloodCap
  <2>1. ids # << >>
    BY <1>1, <1>2
  <2>2. /\ kept \in Seq(Mid) /\ Len(kept) = Len(ids) - 1
        /\ \A i \in 1 .. Len(kept) : kept[i] = ids[i + 1] /\ i + 1 \in DOMAIN ids
    BY <1>1, <1>2, <2>1
  <2> HIDE DEF kept
  <2>3. /\ new \in Seq(Mid) /\ Len(new) = Len(kept) + 1
        /\ \A i \in 1 .. Len(kept) : new[i] = kept[i]
        /\ new[Len(kept) + 1] = m
    BY <2>2
  <2> HIDE DEF new
  <2>4. \A i \in DOMAIN new : i \in 1 .. Len(kept) \/ i = Len(kept) + 1
    BY <2>2, <2>3
  <2>5. \A i \in DOMAIN new : new[i] = m \/ \E j \in DOMAIN ids : ids[j] = new[i]
    BY <2>2, <2>3, <2>4
  <2> QED
    BY <1>1, <2>2, <2>3, <2>5 DEF Remember, new, kept
<1>3. CASE ~(Len(ids) >= FloodCap)
  <2>1. kept = ids
    BY <1>3
  <2>2. /\ new \in Seq(Mid) /\ Len(new) = Len(ids) + 1 /\ DOMAIN new = 1 .. Len(ids) + 1
        /\ \A i \in 1 .. Len(ids) : new[i] = ids[i] /\ i \in DOMAIN ids
        /\ new[Len(ids) + 1] = m
    BY <1>1, <2>1
  <2>3. Remember(ids, m) = new
    BY DEF Remember
  <2> HIDE DEF new
  <2>4. \A i \in DOMAIN new : new[i] = m \/ \E j \in DOMAIN ids : ids[j] = new[i]
    BY <1>1, <2>2
  <2> QED
    BY <1>1, <1>3, <2>2, <2>3, <2>4
<1> QED
  BY <1>2, <1>3

\* A flooded announce is appended to the sender's channels, or to none.
LEMMA Spreading ==
  ASSUME Types, NEW p \in Peer, NEW m \in Mid, NEW but
  PROVE  /\ Spread(p, m, but) \in [Way -> Seq(Frames)]
         /\ \A w \in Way :
              \/ Spread(p, m, but)[w] = wire[w]
              \/ w[1] = p /\ Spread(p, m, but)[w] = Append(wire[w], Announce(m))
<1>1. \A w \in Way : wire[w] \in Seq(Frames) /\ Append(wire[w], Announce(m)) \in Seq(Frames)
  <2>1. Announce(m) \in Frames
    BY DEF Announce, Frames
  <2> QED
    BY <2>1 DEF Types
<1> QED
  BY <1>1 DEF Spread

\* A note is queued for a dial.
LEMMA QueuedType ==
  ASSUME NEW d \in Dms, NEW n \in Note
  PROVE  /\ Queued(d, n) \in Dms /\ Queued(d, n).dialed = TRUE /\ Queued(d, n).queue # << >>
         /\ Queued(d, n).got = d.got
         /\ Queued(d, n).queue =
              Append(IF Len(d.queue) >= QueueCap THEN Tail(d.queue) ELSE d.queue, n)
<1> DEFINE D == [queue : Seq(Note), dialed : BOOLEAN, timers : Nat, got : Seq(Note)]
           kept == IF Len(d.queue) >= QueueCap THEN Tail(d.queue) ELSE d.queue
           q == Append(kept, n)
           dials == IF d.dialed THEN d.timers ELSE d.timers + 1
           u == [d EXCEPT !.queue = q, !.dialed = TRUE, !.timers = dials]
<1>1. d \in D /\ Len(d.queue) <= QueueCap /\ QueueCap \in Nat /\ QueueCap >= 1
      /\ Len(d.queue) \in Nat /\ d.queue \in Seq(Note) /\ d.timers \in Nat
  BY TransportAssumption DEF Dms
<1>2. kept \in Seq(Note) /\ Len(kept) < QueueCap
  <2>1. CASE Len(d.queue) >= QueueCap
    <3>1. d.queue # << >>
      BY <1>1, <2>1
    <3> QED
      BY <1>1, <2>1, <3>1
  <2>2. CASE ~(Len(d.queue) >= QueueCap)
    BY <1>1, <2>2
  <2> QED
    BY <2>1, <2>2
<1>3. Queued(d, n) = u
  BY DEF Queued
<1> HIDE DEF kept
<1>4. q \in Seq(Note) /\ Len(q) <= QueueCap /\ q # << >>
  <2>1. q \in Seq(Note) /\ Len(q) = Len(kept) + 1 /\ q # << >> /\ Len(kept) \in Nat
    BY <1>2
  <2> QED
    BY <1>1, <1>2, <2>1
<1> HIDE DEF q
<1>5. dials \in Nat
  BY <1>1
<1> HIDE DEF dials
<1>6. u \in D /\ u.queue = q /\ u.dialed = TRUE /\ u.got = d.got
  BY <1>1, <1>4, <1>5
<1> HIDE DEF u
<1> QED
  BY <1>3, <1>4, <1>6 DEF Dms, q, kept

\* What a new connection carries first.
LEMMA Greets ==
  ASSUME Types, Authored, Ordered, NEW w \in Way
  PROVE  /\ Greeting(w) \in Seq(Frames)
         /\ InOrder(dm[w].got, Greeting(w), << >>, used.notes)
         /\ \A i \in DOMAIN Greeting(w) :
              Greeting(w)[i].kind = "wave-announce" => Greeting(w)[i].id \in DOMAIN origin
<1> DEFINE g == dm[w].got
           k == dm[w].queue
           h == known[w[1]]
           hello == Hello(k, h)
<1>1. /\ g \in Seq(Note) /\ k \in Seq(Note) /\ wire[w] \in Seq(Frames) /\ h \in Seq(Mid)
      /\ used.notes \in Nat
  BY Ways, TransportAssumption DEF Types, Dms
<1>2. InOrder(g, wire[w], k, used.notes)
  BY DEF Ordered
<1>3. \A j \in DOMAIN h : h[j] \in DOMAIN origin
  BY Ways DEF Authored
<1>4. Greeting(w) = hello
  BY DEF Greeting, Hello
<1> HIDE DEF g, k, h
<1>5. /\ hello \in Seq(Frames) /\ InOrder(g, hello, << >>, used.notes)
      /\ \A i \in DOMAIN hello :
           hello[i].kind = "wave-announce" => \E j \in DOMAIN h : hello[i].id = h[j]
  BY <1>1, <1>2, OrderFlush
<1> HIDE DEF hello
<1> QED
  BY <1>3, <1>4, <1>5 DEF g

LEMMA FrameTypes ==
  ASSUME Types, Authored, NEW p \in Peer, NEW q \in Peer, <<p, q>> \in Way,
         wire[<<p, q>>] # << >>
  PROVE  LET f == Head(wire[<<p, q>>]) IN
         /\ f \in Frames
         /\ f.kind = "wave-announce" => f.id \in Mid /\ f.id \in DOMAIN origin
         /\ f.kind # "wave-announce" => f.kind = "wave-dm" /\ f.id \in Note
         /\ Tail(wire[<<p, q>>]) \in Seq(Frames)
         /\ \A i \in DOMAIN Tail(wire[<<p, q>>]) :
              \E j \in DOMAIN wire[<<p, q>>] : Tail(wire[<<p, q>>])[i] = wire[<<p, q>>][j]
<1> DEFINE w == <<p, q>>
           c == wire[w]
<1>1. c \in Seq(Frames) /\ c # << >>
  BY DEF Types
<1>2. \A i \in DOMAIN c : c[i].kind = "wave-announce" => c[i].id \in DOMAIN origin
  BY DEF Authored
<1> HIDE DEF c
<1>3. /\ Head(c) \in Frames /\ Head(c) = c[1] /\ 1 \in DOMAIN c
      /\ Tail(c) \in Seq(Frames)
      /\ \A i \in DOMAIN Tail(c) : i + 1 \in DOMAIN c /\ Tail(c)[i] = c[i + 1]
  BY <1>1
<1>4. /\ Head(c).kind = "wave-announce" => Head(c).id \in Mid
      /\ Head(c).kind # "wave-announce" => Head(c).kind = "wave-dm" /\ Head(c).id \in Note
  BY <1>3 DEF Frames
<1> QED
  BY <1>2, <1>3, <1>4 DEF c

LEMMA InitHolds == Init => IInv
<1> SUFFICES ASSUME Init PROVE IInv
  OBVIOUS
<1> DEFINE e == << >>
<1>1. /\ e \in Seq(Frames) /\ e \in Seq(Note) /\ e \in Seq(Mid) /\ e \in Seq(Initiators)
      /\ Len(e) = 0 /\ DOMAIN e = {}
  OBVIOUS
<1>2. /\ link = {} /\ wire = [w \in Way |-> e]
      /\ dir = [p \in Peer |-> [topic |-> Home, joined |-> {Home}, leaving |-> {}]]
      /\ known = [p \in Peer |-> e] /\ seen = [p \in Peer |-> e]
      /\ budget = [p \in Peer |-> [o \in Initiators |-> OriginBurst]]
      /\ origin = e /\ dm = [w \in Way |-> [queue |-> e, dialed |-> FALSE, timers |-> 0,
                                            got |-> e]]
      /\ used = [notes |-> 0, links |-> 0, faults |-> 0,
                 throttled |-> {}, over |-> {}, moved |-> {}]
  BY DEF Init, NoDm
<1> HIDE DEF e
<1>3. {FloodCap, OriginBurst, QueueCap, MaxNotes, MaxLinks, MaxFaults} \subseteq Nat
  BY TransportAssumption
<1>4. Types
  <2>1. dm \in [Way -> Dms]
    BY <1>1, <1>2, <1>3 DEF Dms
  <2>2. dir \in [Peer -> [topic : Topic \cup {Closed}, joined : SUBSET Topic,
                      leaving : SUBSET (Topic \X Topic)]]
    BY <1>2, TransportAssumption
  <2>3. used \in [notes : 0 .. MaxNotes, links : 0 .. MaxLinks, faults : 0 .. MaxFaults,
               throttled : SUBSET Peer, over : SUBSET Peer, moved : SUBSET Peer]
    BY <1>2, <1>3
  <2>4. budget \in [Peer -> [Initiators -> 0 .. OriginBurst]]
    BY <1>2, <1>3
  <2> QED
    BY <1>1, <1>2, <1>3, <2>1, <2>2, <2>3, <2>4 DEF Types
<1>5. Authored
  BY <1>1, <1>2 DEF Authored
<1>6. Ordered
  <2>1. InOrder(e, e, e, 0)
    BY <1>1 DEF InOrder, NotesIn, Ascending
  <2> QED
    BY <1>2, <2>1 DEF Ordered
<1>7. DialWhileQueued
  BY <1>2, Ways DEF DialWhileQueued, Linked, e
<1>8. SeenIsHandled
  BY <1>1, <1>2 DEF SeenIsHandled, Seen
<1> QED
  BY <1>4, <1>5, <1>6, <1>7, <1>8 DEF IInv

LEMMA ClearedType ==
  ASSUME NEW d \in Dms
  PROVE  LET t == [Cleared(d) EXCEPT !.timers = @ - 1] IN
         /\ Cleared(d) \in Dms /\ Cleared(d).queue = << >> /\ Cleared(d).dialed = FALSE
         /\ Cleared(d).got = d.got
         /\ d.timers > 0 => t \in Dms /\ t.queue = << >> /\ t.dialed = FALSE /\ t.got = d.got
<1> DEFINE D == [queue : Seq(Note), dialed : BOOLEAN, timers : Nat, got : Seq(Note)]
           none == << >>
           c == [d EXCEPT !.queue = none, !.dialed = FALSE]
<1>1. d \in D /\ QueueCap \in Nat
  BY TransportAssumption DEF Dms
<1>2. none \in Seq(Note) /\ Len(none) <= QueueCap
  BY <1>1
<1> HIDE DEF none
<1>3. c \in D /\ c.queue = none /\ c.dialed = FALSE /\ c.got = d.got /\ c.timers = d.timers
  BY <1>1, <1>2
<1>4. Cleared(d) = c
  BY DEF Cleared, none
<1> HIDE DEF c
<1>5. d.timers > 0 => LET t == [c EXCEPT !.timers = @ - 1] IN
                      /\ t \in D /\ t.queue = none /\ t.dialed = FALSE /\ t.got = d.got
  <2>1. d.timers > 0 => c.timers - 1 \in Nat
    BY <1>1, <1>3
  <2> QED
    BY <1>3, <2>1
<1> QED
  BY <1>2, <1>3, <1>4, <1>5 DEF Dms, none

\* The two ways a peer's connections and dials all end.
JoinOrClose(p) == Close(p) \/ \E from, to \in Topic : JoinTopic(p, from, to)

LEMMA JoinOrCloseType ==
  ASSUME Types, NEW p \in Peer, JoinOrClose(p)
  PROVE  \E d \in [topic : Topic \cup {Closed}, joined : SUBSET Topic,
                   leaving : SUBSET (Topic \X Topic)] : dir' = [dir EXCEPT ![p] = d]
<1> DEFINE Dir == [topic : Topic \cup {Closed}, joined : SUBSET Topic,
                   leaving : SUBSET (Topic \X Topic)]
<1>1. dir \in [Peer -> Dir] /\ dir[p] \in Dir
  BY DEF Types
<1>2. CASE Close(p)
  <2> DEFINE d == [topic |-> Closed, joined |-> {}, leaving |-> {}]
  <2>1. dir' = [dir EXCEPT ![p] = d]
    BY <1>2 DEF Close
  <2>2. d \in Dir
    OBVIOUS
  <2> QED
    BY <2>1, <2>2
<1>3. ASSUME NEW from \in Topic, NEW to \in Topic, JoinTopic(p, from, to)
      PROVE  \E d \in Dir : dir' = [dir EXCEPT ![p] = d]
  <2> DEFINE d == [topic |-> to, joined |-> (dir[p].joined \ {from}) \cup {to},
                   leaving |-> dir[p].leaving \ {<<from, to>>}]
  <2>1. dir' = [dir EXCEPT ![p] = d]
    BY <1>3 DEF JoinTopic
  <2>2. d \in Dir
    BY <1>1
  <2> QED
    BY <2>1, <2>2
<1> QED
  BY <1>2, <1>3 DEF JoinOrClose

\* A flooded frame, whatever becomes of it.
LEMMA FloodedTypes ==
  ASSUME Types, NEW p \in Peer, NEW q \in Peer, <<p, q>> \in Way,
         NEW m \in Mid, origin[m] \in Initiators, Tail(wire[<<p, q>>]) \in Seq(Frames),
         Flooded(p, q, m), UNCHANGED <<link, dir, origin>>
  PROVE  Types'
<1> DEFINE w == <<p, q>>
           o == origin[m]
           sp == Spread(q, m, p)
           tail == Tail(wire[w])
           new == Remember(seen[q], m)
           held == Append(known[q], m)
<1>1. /\ wire \in [Way -> Seq(Frames)] /\ dm \in [Way -> Dms]
      /\ known \in [Peer -> Seq(Mid)] /\ seen \in [Peer -> Seq(Mid)]
      /\ budget \in [Peer -> [Initiators -> 0 .. OriginBurst]]
      /\ \A r \in Peer : Len(seen[r]) <= FloodCap
  BY DEF Types
<1>2. /\ wire' = [wire EXCEPT ![w] = tail] \/ wire' = [sp EXCEPT ![w] = Tail(sp[w])]
      /\ seen' = seen \/ seen' = [seen EXCEPT ![q] = new]
      /\ known' = known \/ known' = [known EXCEPT ![q] = held]
      /\ dm' = dm
  <2>1. wire' = [wire EXCEPT ![w] = tail] \/ wire' = [sp EXCEPT ![w] = Tail(sp[w])]
    BY Zenon DEF Flooded
  <2>2. seen' = seen \/ seen' = [seen EXCEPT ![q] = new]
    BY DEF Flooded
  <2>3. known' = known \/ known' = [known EXCEPT ![q] = held]
    BY <1>1 DEF Flooded, Adopted
  <2> QED
    BY <2>1, <2>2, <2>3 DEF Flooded
<1>3. /\ budget' = budget \/ (budget[q][o] # 0 /\ budget' = [budget EXCEPT ![q][o] = @ - 1])
      /\ used' = used \/ used' = [used EXCEPT !.over = @ \cup {q}]
  BY DEF Flooded
<1>4. new \in Seq(Mid) /\ Len(new) <= FloodCap /\ held \in Seq(Mid)
  BY <1>1, Remembered
<1>5. sp \in [Way -> Seq(Frames)] /\ sp[w] = wire[w]
  <2>1. /\ sp \in [Way -> Seq(Frames)]
        /\ \A v \in Way : sp[v] = wire[v] \/ v[1] = q
    BY Spreading
  <2>2. w[1] = p /\ p # q
    BY Ways
  <2> QED
    BY <2>1, <2>2
<1>6. o \in Initiators /\ tail \in Seq(Frames) /\ w \in Way
  OBVIOUS
<1> HIDE DEF w, o, sp, tail, new, held
<1>7. wire' \in [Way -> Seq(Frames)]
  <2>1. Tail(sp[w]) = tail
    BY <1>5 DEF tail
  <2> QED
    BY <1>1, <1>2, <1>5, <1>6, <2>1
<1>8. seen' \in [Peer -> Seq(Mid)] /\ known' \in [Peer -> Seq(Mid)]
  BY <1>1, <1>2, <1>4
<1>9. \A r \in Peer : Len(seen'[r]) <= FloodCap
  BY <1>1, <1>2, <1>4
<1>10. budget' \in [Peer -> [Initiators -> 0 .. OriginBurst]]
  <2>1. budget[q] \in [Initiators -> 0 .. OriginBurst] /\ OriginBurst \in Nat
    BY <1>1, TransportAssumption
  <2>2. budget[q][o] \in 0 .. OriginBurst
    BY <1>6, <2>1
  <2>3. budget[q][o] # 0 => budget[q][o] - 1 \in 0 .. OriginBurst
    BY <2>1, <2>2
  <2> DEFINE b == [budget[q] EXCEPT ![o] = @ - 1]
  <2>4. budget[q][o] # 0 => b \in [Initiators -> 0 .. OriginBurst]
    BY <1>6, <2>1, <2>3
  <2>5. budget' = budget \/ (budget[q][o] # 0 /\ budget' = [budget EXCEPT ![q] = b])
    BY <1>3
  <2> HIDE DEF b
  <2> QED
    BY <1>1, <2>4, <2>5
<1>11. used' \in [notes : 0 .. MaxNotes, links : 0 .. MaxLinks, faults : 0 .. MaxFaults,
                  throttled : SUBSET Peer, over : SUBSET Peer, moved : SUBSET Peer]
  <2>1. used \in [notes : 0 .. MaxNotes, links : 0 .. MaxLinks, faults : 0 .. MaxFaults,
                  throttled : SUBSET Peer, over : SUBSET Peer, moved : SUBSET Peer]
    BY DEF Types
  <2> QED
    BY <1>3, <2>1
<1> QED
  BY <1>2, <1>7, <1>8, <1>9, <1>10, <1>11 DEF Types

\* A note delivered.
LEMMA ReceivedType ==
  ASSUME NEW d \in Dms, NEW n \in Note
  PROVE  LET t == [d EXCEPT !.got = Append(@, n)] IN
         t \in Dms /\ t.got = Append(d.got, n) /\ t.queue = d.queue /\ t.dialed = d.dialed
<1> DEFINE D == [queue : Seq(Note), dialed : BOOLEAN, timers : Nat, got : Seq(Note)]
           g == Append(d.got, n)
           t == [d EXCEPT !.got = g]
<1>1. d \in D /\ Len(d.queue) <= QueueCap
  BY DEF Dms
<1>2. g \in Seq(Note)
  BY <1>1
<1> HIDE DEF g
<1>3. t \in D /\ t.got = g /\ t.queue = d.queue /\ t.dialed = d.dialed
  BY <1>1, <1>2
<1> HIDE DEF t
<1>4. t \in Dms
  BY <1>1, <1>3 DEF Dms
<1> QED
  BY <1>3, <1>4 DEF t, g

LEMMA UnicastTypes ==
  ASSUME Types, NEW p \in Peer, NEW q \in Peer, <<p, q>> \in Way,
         NEW n \in Note, Tail(wire[<<p, q>>]) \in Seq(Frames),
         Unicast(p, q, n), UNCHANGED <<link, dir, origin>>
  PROVE  Types'
<1> DEFINE w == <<p, q>>
           t == [dm[w] EXCEPT !.got = Append(@, n)]
           tail == Tail(wire[w])
<1>1. wire \in [Way -> Seq(Frames)] /\ dm \in [Way -> Dms] /\ w \in Way
  BY DEF Types
<1>2. /\ dm' = [dm EXCEPT ![w] = t] /\ wire' = [wire EXCEPT ![w] = tail]
      /\ UNCHANGED <<known, seen, budget, used>>
  BY DEF Unicast
<1>3. t \in Dms
  BY <1>1, ReceivedType
<1>4. tail \in Seq(Frames)
  OBVIOUS
<1> HIDE DEF w, t, tail
<1>5. dm' \in [Way -> Dms] /\ wire' \in [Way -> Seq(Frames)]
  BY <1>1, <1>2, <1>3, <1>4
<1> QED
  BY <1>2, <1>5 DEF Types

LEMMA NextTypes == Types /\ Authored /\ Ordered /\ [Next]_vars => Types'
<1> SUFFICES ASSUME Types, Authored, Ordered, [Next]_vars
             PROVE  Types'
  OBVIOUS
<1> DEFINE Dir == [topic : Topic \cup {Closed}, joined : SUBSET Topic,
                   leaving : SUBSET (Topic \X Topic)]
           Used == [notes : 0 .. MaxNotes, links : 0 .. MaxLinks, faults : 0 .. MaxFaults,
                    throttled : SUBSET Peer, over : SUBSET Peer, moved : SUBSET Peer]
<1>1. /\ wire \in [Way -> Seq(Frames)] /\ dm \in [Way -> Dms] /\ dir \in [Peer -> Dir]
      /\ known \in [Peer -> Seq(Mid)] /\ seen \in [Peer -> Seq(Mid)]
      /\ budget \in [Peer -> [Initiators -> 0 .. OriginBurst]] /\ origin \in Seq(Initiators)
      /\ used \in Used
      /\ \A p \in Peer : Len(seen[p]) <= FloodCap
      /\ \A l \in link : \E p, q \in Peer : p # q /\ l = {p, q}
  BY DEF Types
<1>2. {MaxNotes, MaxLinks, MaxFaults, OriginBurst} \subseteq Nat
  BY TransportAssumption
\* The fault a step uses up.
<1>3. FaultLeft => used.faults + 1 \in 0 .. MaxFaults
  <2>1. used.faults \in 0 .. MaxFaults
    BY <1>1
  <2> QED
    BY <1>2, <2>1 DEF FaultLeft
\* A connection that closes.
<1>4. \A pairs : Cut(pairs) => /\ wire' \in [Way -> Seq(Frames)]
                               /\ \A l \in link' : \E p, q \in Peer : p # q /\ l = {p, q}
  <2>1. << >> \in Seq(Frames)
    OBVIOUS
  <2> QED
    BY <1>1, <2>1 DEF Cut
<1>5. ASSUME NEW p \in Peer, OpenWave(p)
      PROVE  Types'
  <2> DEFINE m == Len(origin) + 1
  <2>1. /\ m \in Mid /\ p \in Initiators /\ origin' = Append(origin, p)
        /\ seen' = [seen EXCEPT ![p] = Remember(@, m)]
        /\ known' = [known EXCEPT ![p] = Append(@, m)]
        /\ wire' = Spread(p, m, p) /\ UNCHANGED <<link, dir, budget, dm, used>>
    BY <1>5 DEF OpenWave
  <2> HIDE DEF m
  <2>2. wire' \in [Way -> Seq(Frames)]
    BY <2>1, Spreading
  <2>3. Remember(seen[p], m) \in Seq(Mid) /\ Len(Remember(seen[p], m)) <= FloodCap
    BY <1>1, <2>1, Remembered
  <2>4. Append(known[p], m) \in Seq(Mid) /\ origin' \in Seq(Initiators)
    BY <1>1, <2>1
  <2>5. known' \in [Peer -> Seq(Mid)] /\ seen' \in [Peer -> Seq(Mid)]
    BY <1>1, <2>1, <2>3, <2>4
  <2>6. \A q \in Peer : Len(seen'[q]) <= FloodCap
    BY <1>1, <2>1, <2>3
  <2> QED
    BY <1>1, <2>1, <2>2, <2>4, <2>5, <2>6 DEF Types
<1>6. ASSUME NEW w \in Way, SendNote(w)
      PROVE  Types'
  <2> DEFINE n == used.notes + 1
  <2>1. /\ n \in Note /\ used' = [used EXCEPT !.notes = n]
        /\ UNCHANGED <<link, dir, known, seen, budget, origin>>
        /\ \/ wire' = [wire EXCEPT ![w] = Append(@, Directed(n))] /\ dm' = dm
           \/ dm' = [dm EXCEPT ![w] = Queued(@, n)] /\ wire' = wire
    BY <1>6 DEF SendNote
  <2> HIDE DEF n
  <2>2. used' \in Used
    <3>1. n \in 0 .. MaxNotes
      BY <1>2, <2>1 DEF Note
    <3> QED
      BY <1>1, <2>1, <3>1
  <2>3. Directed(n) \in Frames
    BY <2>1 DEF Directed, Frames
  <2>4. Append(wire[w], Directed(n)) \in Seq(Frames)
    BY <1>1, <2>3
  <2>5. Queued(dm[w], n) \in Dms
    BY <1>1, <2>1, QueuedType
  <2>6. wire' \in [Way -> Seq(Frames)] /\ dm' \in [Way -> Dms]
    BY <1>1, <2>1, <2>4, <2>5
  <2> HIDE DEF Used
  <2> QED
    BY <1>1, <2>1, <2>2, <2>6 DEF Types, Used
<1>7. ASSUME NEW w \in Way, DialTimeout(w)
      PROVE  Types'
  <2> DEFINE t == [Cleared(dm[w]) EXCEPT !.timers = @ - 1]
  <2>1. /\ dm[w].timers > 0
        /\ UNCHANGED <<link, wire, dir, known, seen, budget, origin, used>>
    BY <1>7 DEF DialTimeout
  <2>2. dm' = [dm EXCEPT ![w] = t]
    BY <1>7, Zenon DEF DialTimeout
  <2>3. t \in Dms
    BY <1>1, <2>1, ClearedType
  <2>4. dm' \in [Way -> Dms]
    BY <1>1, <2>2, <2>3
  <2> QED
    BY <1>1, <2>1, <2>4 DEF Types
<1>8. ASSUME NEW p \in Peer, NEW q \in Peer, Connect(p, q)
      PROVE  Types'
  <2>1. /\ p # q /\ used.links < MaxLinks /\ link' = link \cup {{p, q}}
        /\ wire' = [wire EXCEPT ![<<p, q>>] = Greeting(<<p, q>>),
                                ![<<q, p>>] = Greeting(<<q, p>>)]
        /\ dm' = [dm EXCEPT ![<<p, q>>] = Flushed(@), ![<<q, p>>] = Flushed(@)]
        /\ used' = [used EXCEPT !.links = @ + 1]
        /\ UNCHANGED <<dir, known, seen, budget, origin>>
    BY <1>8 DEF Connect
  <2>2. <<p, q>> \in Way /\ <<q, p>> \in Way
    BY <2>1, Ways
  <2>3. wire' \in [Way -> Seq(Frames)]
    BY <1>1, <2>1, <2>2, Greets
  <2>4. \A d \in Dms : Flushed(d) \in Dms
    <3>1. \A d \in Dms : Cleared(d) \in Dms
      BY ClearedType
    <3> QED
      BY <3>1 DEF Flushed
  <2>5. dm' \in [Way -> Dms]
    BY <1>1, <2>1, <2>2, <2>4
  <2>6. used' \in Used
    <3>1. used.links \in 0 .. MaxLinks /\ used.links + 1 \in 0 .. MaxLinks
      BY <1>1, <1>2, <2>1
    <3> QED
      BY <1>1, <2>1, <3>1
  <2>7. \A l \in link' : \E a, b \in Peer : a # b /\ l = {a, b}
    BY <1>1, <2>1
  <2> HIDE DEF Used
  <2> QED
    BY <1>1, <2>1, <2>3, <2>5, <2>6, <2>7 DEF Types, Used
<1>9. ASSUME NEW p \in Peer, NEW q \in Peer, Disconnect(p, q)
      PROVE  Types'
  BY <1>1, <1>4, <1>9 DEF Disconnect, Types
<1>10. ASSUME NEW p \in Peer, NEW q \in Peer, Receive(p, q)
       PROVE  Types'
  <2> DEFINE w == <<p, q>>
             f == Head(wire[w])
             m == f.id
             o == origin[m]
  <2>1. w \in Way /\ wire[w] # << >> /\ UNCHANGED <<link, dir, origin>>
    BY <1>10 DEF Receive
  <2>2. /\ f.kind = "wave-announce" => m \in Mid /\ m \in DOMAIN origin
        /\ f.kind # "wave-announce" => m \in Note
        /\ Tail(wire[w]) \in Seq(Frames)
    BY <2>1, FrameTypes
  <2>4. CASE f.kind = "wave-announce"
    <3>1. Flooded(p, q, m)
      BY <1>10, <2>4 DEF Receive
    <3>2. m \in Mid /\ o \in Initiators
      BY <1>1, <2>2, <2>4
    <3> HIDE DEF f, m
    <3> QED
      BY <2>1, <2>2, <3>1, <3>2, FloodedTypes
  <2>5. CASE f.kind # "wave-announce"
    <3>1. Unicast(p, q, m) /\ m \in Note
      BY <1>10, <2>2, <2>5 DEF Receive
    <3> HIDE DEF f, m
    <3> QED
      BY <2>1, <2>2, <3>1, UnicastTypes
  <2> QED
    BY <2>4, <2>5
<1>11. ASSUME NEW p \in Peer, NEW q \in Peer, Throttle(p, q)
       PROVE  Types'
  <2>1. /\ <<p, q>> \in Way /\ wire[<<p, q>>] # << >> /\ FaultLeft
        /\ wire' = [wire EXCEPT ![<<p, q>>] = Tail(@)]
        /\ used' = [used EXCEPT !.faults = @ + 1, !.throttled = @ \cup {q}]
        /\ UNCHANGED <<link, dir, known, seen, budget, origin, dm>>
    BY <1>11 DEF Throttle
  <2>2. wire' \in [Way -> Seq(Frames)]
    BY <1>1, <2>1, FrameTypes
  <2>3. used' \in Used
    BY <1>1, <1>3, <2>1
  <2> HIDE DEF Used
  <2> QED
    BY <1>1, <2>1, <2>2, <2>3 DEF Types, Used
<1>12. ASSUME NEW q \in Peer, NEW o \in Initiators, Refill(q, o)
       PROVE  Types'
  <2>1. /\ budget' = [budget EXCEPT ![q][o] = OriginBurst]
        /\ UNCHANGED <<link, wire, dir, known, seen, origin, dm, used>>
    BY <1>12 DEF Refill
  <2>2. budget' \in [Peer -> [Initiators -> 0 .. OriginBurst]]
    BY <1>1, <1>2, <2>1
  <2> QED
    BY <1>1, <2>1, <2>2 DEF Types
<1>13. ASSUME NEW p \in Peer, NEW t \in Topic, LeaveTopic(p, t)
       PROVE  Types'
  <2>1. /\ Up(p) /\ FaultLeft
        /\ used' = [used EXCEPT !.faults = @ + 1, !.moved = @ \cup {p}]
        /\ known' = [known EXCEPT ![p] = << >>]
        /\ dir' = [dir EXCEPT ![p].leaving = @ \cup {<<dir[p].topic, t>>}]
        /\ UNCHANGED <<link, wire, seen, budget, origin, dm>>
    BY <1>13 DEF LeaveTopic
  <2>2. known' \in [Peer -> Seq(Mid)]
    <3>1. << >> \in Seq(Mid)
      OBVIOUS
    <3> QED
      BY <1>1, <2>1, <3>1
  <2>3. used' \in Used
    BY <1>1, <1>3, <2>1
  <2>4. dir' \in [Peer -> Dir]
    <3> DEFINE leaving == dir[p].leaving \cup {<<dir[p].topic, t>>}
    <3>1. dir[p] \in Dir /\ dir[p].topic \in Topic
      BY <1>1, <2>1 DEF Up
    <3>2. leaving \in SUBSET (Topic \X Topic)
      BY <3>1
    <3>3. dir' = [dir EXCEPT ![p].leaving = leaving]
      BY <2>1
    <3> HIDE DEF leaving
    <3>4. [dir[p] EXCEPT !.leaving = leaving] \in Dir
      BY <3>1, <3>2
    <3> HIDE DEF Dir
    <3> QED
      BY <1>1, <3>3, <3>4
  <2> HIDE DEF Used, Dir
  <2> QED
    BY <1>1, <2>1, <2>2, <2>3, <2>4 DEF Types, Used, Dir
<1>14. ASSUME NEW p \in Peer, JoinOrClose(p)
       PROVE  Types'
  <2>1. PICK d \in Dir : dir' = [dir EXCEPT ![p] = d]
    BY <1>1, <1>14, JoinOrCloseType
  <2>2. /\ dm' = [w \in Way |-> IF w[1] = p THEN Cleared(dm[w]) ELSE dm[w]]
        /\ Cut({l \in link : p \in l}) /\ UNCHANGED <<known, seen, budget, origin>>
        /\ used' = used \/ (FaultLeft /\ used' = [used EXCEPT !.faults = @ + 1])
    BY <1>14 DEF JoinOrClose, JoinTopic, Close
  <2>3. dm' \in [Way -> Dms]
    BY <1>1, <2>2, ClearedType
  <2>4. used' \in Used
    BY <1>1, <1>3, <2>2
  <2> HIDE DEF Used, Dir
  <2>5. dir' \in [Peer -> Dir]
    BY <1>1, <2>1
  <2> QED
    BY <1>1, <1>4, <2>2, <2>3, <2>4, <2>5 DEF Types, Used, Dir
<1>15. CASE UNCHANGED vars
  BY <1>1, <1>15 DEF vars, Types
<1> QED
  BY <1>5, <1>6, <1>7, <1>8, <1>9, <1>10, <1>11, <1>12, <1>13, <1>14, <1>15
  DEF Next, JoinOrClose

-----------------------------------------------------------------------------
\* What a step does to one channel: the notes received, on the wire and queued.

\* No note is written, delivered or put on a new connection here.
Quiet(w) ==
  /\ {w[1], w[2]} \in link' => {w[1], w[2]} \in link
  /\ dm'[w].got = dm[w].got
  /\ \/ dm'[w].queue = dm[w].queue /\ dm'[w].dialed = dm[w].dialed
     \/ dm'[w].queue = << >> /\ dm'[w].dialed = FALSE
  /\ used'.notes \in {used.notes, used.notes + 1}
  /\ \/ wire'[w] = wire[w]
     \/ wire'[w] = << >>
     \/ wire[w] # << >> /\ wire'[w] = Tail(wire[w])
     \/ \E m \in DOMAIN origin' : wire'[w] = Append(wire[w], Announce(m))

Sent(w) ==
  /\ {w[1], w[2]} \in link /\ dm'[w] = dm[w]
  /\ used'.notes = used.notes + 1 /\ wire'[w] = Append(wire[w], Directed(used.notes + 1))

Waits(w) ==
  /\ {w[1], w[2]} \notin link' /\ dm'[w] = Queued(dm[w], used.notes + 1)
  /\ used'.notes = used.notes + 1 /\ used.notes + 1 \in Note /\ wire'[w] = wire[w]

Greeted(w) ==
  /\ wire'[w] = Greeting(w) /\ dm'[w] = Flushed(dm[w]) /\ used'.notes = used.notes

Delivered(w) ==
  /\ wire[w] # << >> /\ Head(wire[w]).kind = "wave-dm" /\ wire'[w] = Tail(wire[w])
  /\ dm'[w].got = Append(dm[w].got, Head(wire[w]).id)
  /\ dm'[w].queue = dm[w].queue /\ dm'[w].dialed = dm[w].dialed
  /\ link' = link /\ used'.notes = used.notes

LEMMA OriginGrows == Types /\ [Next]_vars => DOMAIN origin \subseteq DOMAIN origin'
<1> SUFFICES ASSUME Types, [Next]_vars
             PROVE  DOMAIN origin \subseteq DOMAIN origin'
  OBVIOUS
<1>1. origin \in Seq(Initiators)
  BY DEF Types
<1>2. CASE UNCHANGED origin
  BY <1>2
<1>3. ASSUME NEW p \in Initiators, origin' = Append(origin, p)
      PROVE  DOMAIN origin \subseteq DOMAIN origin'
  BY <1>1, <1>3
<1>4. UNCHANGED origin \/ \E p \in Initiators : origin' = Append(origin, p)
  BY DEF Next, OpenWave, Close, Cut, Connect, Disconnect, Receive, Throttle, SendNote,
         DialTimeout, Refill, LeaveTopic, JoinTopic, vars
<1> QED
  BY <1>2, <1>3, <1>4

\* A channel out of the hands of a step.
LEMMA Untouched ==
  ASSUME NEW w \in Way, {w[1], w[2]} \in link' => {w[1], w[2]} \in link, dm'[w] = dm[w],
         used'.notes \in {used.notes, used.notes + 1}, wire'[w] = wire[w]
  PROVE  Quiet(w)
BY DEF Quiet

LEMMA CutQuiet ==
  ASSUME Types, NEW pairs, Cut(pairs), NEW w \in Way, dm'[w] = dm[w] \/ dm'[w] = Cleared(dm[w]),
         used'.notes = used.notes
  PROVE  Quiet(w)
<1>1. link' = link \ pairs /\ (wire'[w] = wire[w] \/ wire'[w] = << >>)
  BY DEF Cut
<1>2. dm[w] \in Dms
  BY DEF Types
<1>3. CASE dm'[w] = dm[w]
  BY <1>1, <1>3 DEF Quiet
<1>4. CASE dm'[w] = Cleared(dm[w])
  <2>1. dm'[w].queue = << >> /\ dm'[w].dialed = FALSE /\ dm'[w].got = dm[w].got
    BY <1>2, <1>4, ClearedType
  <2> QED
    BY <1>1, <2>1 DEF Quiet
<1> QED
  BY <1>3, <1>4

\* A frame read off one channel, and the announce relayed to others.
LEMMA FloodedQuiet ==
  ASSUME Types, NEW p \in Peer, NEW q \in Peer, <<p, q>> \in Way, wire[<<p, q>>] # << >>,
         NEW m \in Mid, m \in DOMAIN origin,
         Flooded(p, q, m), UNCHANGED <<link, dir, origin>>, NEW v \in Way
  PROVE  Quiet(v)
<1> DEFINE w == <<p, q>>
           sp == Spread(q, m, p)
           tail == Tail(wire[w])
<1>1. wire' = [wire EXCEPT ![w] = tail] \/ wire' = [sp EXCEPT ![w] = Tail(sp[w])]
  BY Zenon DEF Flooded
<1>2. dm' = dm /\ used'.notes = used.notes
  <2>1. used \in [notes : 0 .. MaxNotes, links : 0 .. MaxLinks, faults : 0 .. MaxFaults,
                  throttled : SUBSET Peer, over : SUBSET Peer, moved : SUBSET Peer]
    BY DEF Types
  <2>2. used' = used \/ used' = [used EXCEPT !.over = @ \cup {q}]
    BY DEF Flooded
  <2> QED
    BY <2>1, <2>2 DEF Flooded
<1>3. /\ sp \in [Way -> Seq(Frames)] /\ wire \in [Way -> Seq(Frames)]
      /\ \A u \in Way : sp[u] = wire[u] \/ (u[1] = q /\ sp[u] = Append(wire[u], Announce(m)))
  <2>1. /\ sp \in [Way -> Seq(Frames)]
        /\ \A u \in Way : sp[u] = wire[u] \/ (u[1] = q /\ sp[u] = Append(wire[u], Announce(m)))
    BY Spreading
  <2> QED
    BY <2>1 DEF Types
<1>4. w[1] = p /\ p # q /\ w \in Way /\ wire[w] # << >>
  BY Ways
<1> HIDE DEF sp, w
<1>5. sp[w] = wire[w]
  BY <1>3, <1>4
<1> HIDE DEF tail
<1>6. Tail(sp[w]) = tail
  BY <1>5 DEF tail
<1>7. \/ v = w /\ wire'[v] = tail
      \/ v # w /\ (wire'[v] = wire[v] \/ wire'[v] = Append(wire[v], Announce(m)))
  BY <1>1, <1>3, <1>4, <1>6
<1> QED
  BY <1>2, <1>4, <1>7 DEF Quiet, tail

LEMMA Channels ==
  ASSUME Types, Authored, Ordered, [Next]_vars, NEW w \in Way
  PROVE  Quiet(w) \/ Sent(w) \/ Waits(w) \/ Greeted(w) \/ Delivered(w)
<1> DEFINE Goal == Quiet(w) \/ Sent(w) \/ Waits(w) \/ Greeted(w) \/ Delivered(w)
           Used == [notes : 0 .. MaxNotes, links : 0 .. MaxLinks, faults : 0 .. MaxFaults,
                    throttled : SUBSET Peer, over : SUBSET Peer, moved : SUBSET Peer]
<1>1. /\ wire \in [Way -> Seq(Frames)] /\ dm \in [Way -> Dms] /\ dm[w] \in Dms
      /\ used \in Used /\ origin \in Seq(Initiators)
  BY DEF Types
<1>2. w[1] \in Peer /\ w[2] \in Peer /\ w[1] # w[2] /\ w = <<w[1], w[2]>>
  BY Ways
<1>3. ASSUME NEW p \in Peer, OpenWave(p)
      PROVE  Goal
  <2> DEFINE m == Len(origin) + 1
  <2>1. /\ m \in Mid /\ origin' = Append(origin, p)
        /\ wire' = Spread(p, m, p) /\ UNCHANGED <<link, dir, budget, dm, used>>
    BY <1>3 DEF OpenWave
  <2>2. m \in DOMAIN origin'
    BY <1>1, <2>1
  <2> HIDE DEF m
  <2>3. wire'[w] = wire[w] \/ wire'[w] = Append(wire[w], Announce(m))
    BY <2>1, Spreading
  <2>4. Quiet(w)
    BY <2>1, <2>2, <2>3 DEF Quiet
  <2> QED
    BY <2>4
<1>4. ASSUME NEW v \in Way, SendNote(v)
      PROVE  Goal
  <2> DEFINE n == used.notes + 1
  <2>1. /\ n \in Note /\ used' = [used EXCEPT !.notes = n] /\ UNCHANGED link
        /\ \/ Linked(v[1], v[2]) /\ wire' = [wire EXCEPT ![v] = Append(@, Directed(n))] /\ dm' = dm
           \/ ~Linked(v[1], v[2]) /\ dm' = [dm EXCEPT ![v] = Queued(@, n)] /\ wire' = wire
    BY <1>4 DEF SendNote
  <2>2. used'.notes = n
    BY <1>1, <2>1
  <2>3. CASE v # w
    <3>1. wire'[w] = wire[w] /\ dm'[w] = dm[w]
      BY <1>1, <2>1, <2>3
    <3> QED
      BY <2>1, <2>2, <3>1, Untouched
  <2>4. CASE v = w /\ Linked(v[1], v[2])
    <3>1. wire'[w] = Append(wire[w], Directed(n)) /\ dm'[w] = dm[w]
      BY <1>1, <2>1, <2>4
    <3> QED
      BY <2>2, <2>4, <3>1 DEF Sent, Linked
  <2>5. CASE v = w /\ ~Linked(v[1], v[2])
    <3>1. dm'[w] = Queued(dm[w], n) /\ wire'[w] = wire[w]
      BY <1>1, <2>1, <2>5
    <3> QED
      BY <2>1, <2>2, <2>5, <3>1 DEF Waits, Linked
  <2> QED
    BY <2>3, <2>4, <2>5
<1>5. ASSUME NEW v \in Way, DialTimeout(v)
      PROVE  Goal
  <2> DEFINE t == [Cleared(dm[v]) EXCEPT !.timers = @ - 1]
  <2>1. /\ dm[v].timers > 0 /\ UNCHANGED <<link, wire, used>> /\ dm' = [dm EXCEPT ![v] = t]
    BY <1>5 DEF DialTimeout
  <2>2. t.queue = << >> /\ t.dialed = FALSE /\ t.got = dm[v].got
    BY <1>1, <2>1, ClearedType
  <2> HIDE DEF t
  <2>3. Quiet(w)
    BY <1>1, <2>1, <2>2 DEF Quiet
  <2> QED
    BY <2>3
<1>6. ASSUME NEW p \in Peer, NEW q \in Peer, Connect(p, q)
      PROVE  Goal
  <2> DEFINE a == <<p, q>>
             b == <<q, p>>
  <2>1. /\ p # q /\ link' = link \cup {{p, q}}
        /\ wire' = [wire EXCEPT ![a] = Greeting(a), ![b] = Greeting(b)]
        /\ dm' = [dm EXCEPT ![a] = Flushed(@), ![b] = Flushed(@)]
        /\ used'.notes = used.notes
    BY <1>1, <1>6 DEF Connect
  <2>2. a \in Way /\ b \in Way /\ a # b
    BY <2>1, Ways
  <2>3. CASE w = a \/ w = b
    <3>1. wire'[w] = Greeting(w) /\ dm'[w] = Flushed(dm[w])
      BY <1>1, <2>1, <2>2, <2>3
    <3> QED
      BY <2>1, <3>1 DEF Greeted
  <2>4. CASE w # a /\ w # b
    <3>1. wire'[w] = wire[w] /\ dm'[w] = dm[w]
      BY <1>1, <2>1, <2>2, <2>4
    <3>2. {w[1], w[2]} # {p, q}
      BY <1>2, <2>1, <2>4
    <3> QED
      BY <2>1, <3>1, <3>2, Untouched
  <2> QED
    BY <2>3, <2>4
<1>7. ASSUME NEW p \in Peer, NEW q \in Peer, Disconnect(p, q)
      PROVE  Goal
  <2>1. Cut({{p, q}}) /\ UNCHANGED <<dm, used>>
    BY <1>7 DEF Disconnect
  <2> QED
    BY <2>1, CutQuiet
<1>8. ASSUME NEW p \in Peer, NEW q \in Peer, Receive(p, q)
      PROVE  Goal
  <2> DEFINE a == <<p, q>>
             f == Head(wire[a])
  <2>1. a \in Way /\ wire[a] # << >> /\ UNCHANGED <<link, dir, origin>>
    BY <1>8 DEF Receive
  <2>2. /\ f.kind = "wave-announce" => f.id \in Mid /\ f.id \in DOMAIN origin
        /\ f.kind # "wave-announce" => f.kind = "wave-dm" /\ f.id \in Note
    BY <2>1, FrameTypes
  <2>3. CASE f.kind = "wave-announce"
    <3>1. Flooded(p, q, f.id)
      BY <1>8, <2>3 DEF Receive
    <3> DEFINE m == f.id
    <3>2. m \in Mid /\ m \in DOMAIN origin /\ Flooded(p, q, m)
      BY <2>2, <2>3, <3>1
    <3> HIDE DEF f, m
    <3> QED
      BY <2>1, <3>2, FloodedQuiet
  <2>4. CASE f.kind # "wave-announce"
    <3>1. Unicast(p, q, f.id) /\ f.kind = "wave-dm" /\ f.id \in Note
      BY <1>8, <2>2, <2>4 DEF Receive
    <3> DEFINE n == f.id
               t == [dm[a] EXCEPT !.got = Append(@, n)]
    <3>2. dm' = [dm EXCEPT ![a] = t] /\ wire' = [wire EXCEPT ![a] = Tail(@)] /\ UNCHANGED used
      BY <3>1 DEF Unicast
    <3>3. t.got = Append(dm[a].got, n) /\ t.queue = dm[a].queue /\ t.dialed = dm[a].dialed
      BY <1>1, <2>1, <3>1, ReceivedType
    <3>4. CASE w = a
      <4>1. dm'[w] = t /\ wire'[w] = Tail(wire[w])
        BY <1>1, <3>2, <3>4
      <4> HIDE DEF t
      <4> QED
        BY <2>1, <3>1, <3>2, <3>3, <3>4, <4>1 DEF Delivered
    <3>5. CASE w # a
      <4>1. dm'[w] = dm[w] /\ wire'[w] = wire[w]
        BY <1>1, <2>1, <3>2, <3>5
      <4> QED
        BY <2>1, <3>2, <4>1, Untouched
    <3> QED
      BY <3>4, <3>5
  <2> QED
    BY <2>3, <2>4
<1>9. ASSUME NEW p \in Peer, NEW q \in Peer, Throttle(p, q)
      PROVE  Goal
  <2>1. /\ <<p, q>> \in Way /\ wire[<<p, q>>] # << >>
        /\ wire' = [wire EXCEPT ![<<p, q>>] = Tail(@)]
        /\ used'.notes = used.notes /\ UNCHANGED <<link, dm>>
    BY <1>1, <1>9 DEF Throttle
  <2>2. \/ wire'[w] = wire[w]
        \/ wire[w] # << >> /\ wire'[w] = Tail(wire[w])
    BY <1>1, <2>1
  <2> QED
    BY <2>1, <2>2 DEF Quiet
<1>10. ASSUME NEW q \in Peer, NEW o \in Initiators, Refill(q, o)
       PROVE  Goal
  BY <1>10, Untouched DEF Refill
<1>11. ASSUME NEW p \in Peer, NEW t \in Topic, LeaveTopic(p, t)
       PROVE  Goal
  <2>1. used'.notes = used.notes /\ UNCHANGED <<link, wire, dm>>
    BY <1>1, <1>11 DEF LeaveTopic
  <2> QED
    BY <2>1, Untouched
<1>12. ASSUME NEW p \in Peer, JoinOrClose(p)
       PROVE  Goal
  <2>1. /\ dm' = [v \in Way |-> IF v[1] = p THEN Cleared(dm[v]) ELSE dm[v]]
        /\ Cut({l \in link : p \in l})
        /\ used' = used \/ used' = [used EXCEPT !.faults = @ + 1]
    BY <1>12 DEF JoinOrClose, JoinTopic, Close
  <2>2. (dm'[w] = dm[w] \/ dm'[w] = Cleared(dm[w])) /\ used'.notes = used.notes
    BY <1>1, <2>1
  <2> QED
    BY <2>1, <2>2, CutQuiet
<1>13. CASE UNCHANGED vars
  BY <1>13, Untouched DEF vars
<1> QED
  BY <1>3, <1>4, <1>5, <1>6, <1>7, <1>8, <1>9, <1>10, <1>11, <1>12, <1>13
  DEF Next, JoinOrClose

-----------------------------------------------------------------------------
\* The invariants are kept.

LEMMA NextAuthored == Types /\ Authored /\ Ordered /\ [Next]_vars => Authored'
<1> SUFFICES ASSUME Types, Authored, Ordered, [Next]_vars
             PROVE  Authored'
  OBVIOUS
<1> DEFINE Sound(c) == \A i \in DOMAIN c :
             c[i].kind = "wave-announce" => c[i].id \in DOMAIN origin'
<1>1. DOMAIN origin \subseteq DOMAIN origin'
  BY OriginGrows
<1>2. \A w \in Way : wire[w] \in Seq(Frames) /\ Sound(wire[w])
  BY <1>1 DEF Types, Authored
<1>3. ASSUME NEW w \in Way
      PROVE  Sound(wire'[w])
  <2> DEFINE c == wire[w]
  <2>1. c \in Seq(Frames) /\ Sound(c)
    BY <1>2
  <2>2. Quiet(w) \/ Sent(w) \/ Waits(w) \/ Greeted(w) \/ Delivered(w)
    BY Channels
  <2>3. \/ wire'[w] = c
        \/ wire'[w] = << >>
        \/ c # << >> /\ wire'[w] = Tail(c)
        \/ \E m \in DOMAIN origin' : wire'[w] = Append(c, Announce(m))
        \/ wire'[w] = Append(c, Directed(used.notes + 1))
        \/ wire'[w] = Greeting(w)
    BY <2>2 DEF Quiet, Sent, Waits, Greeted, Delivered
  <2> HIDE DEF c
  <2>4. CASE wire'[w] = c
    BY <2>1, <2>4
  <2>5. CASE wire'[w] = << >>
    BY <2>5
  <2>6. CASE c # << >> /\ wire'[w] = Tail(c)
    <3>1. \A i \in DOMAIN Tail(c) : i + 1 \in DOMAIN c /\ Tail(c)[i] = c[i + 1]
      BY <2>1, <2>6
    <3> QED
      BY <2>1, <2>6, <3>1
  <2>7. ASSUME NEW x, wire'[w] = Append(c, x),
               x.kind = "wave-announce" => x.id \in DOMAIN origin'
        PROVE  Sound(wire'[w])
    <3>1. \A i \in DOMAIN Append(c, x) : \/ i \in DOMAIN c /\ Append(c, x)[i] = c[i]
                                        \/ Append(c, x)[i] = x
      BY <2>1
    <3> QED
      BY <2>1, <2>7, <3>1
  <2>8. ASSUME NEW m \in DOMAIN origin', wire'[w] = Append(c, Announce(m))
        PROVE  Sound(wire'[w])
    <3>1. Announce(m).id = m
      BY DEF Announce
    <3> QED
      BY <2>7, <2>8, <3>1
  <2>9. CASE wire'[w] = Append(c, Directed(used.notes + 1))
    <3>1. Directed(used.notes + 1).kind # "wave-announce"
      BY DEF Directed
    <3> QED
      BY <2>7, <2>9, <3>1
  <2>10. CASE wire'[w] = Greeting(w)
    BY <1>1, <2>10, Greets
  <2> HIDE DEF Sound
  <2> QED
    BY <2>3, <2>4, <2>5, <2>6, <2>8, <2>9, <2>10
<1>4. ASSUME NEW p \in Peer
      PROVE  \A i \in DOMAIN known'[p] : known'[p][i] \in DOMAIN origin'
  <2>1. /\ known \in [Peer -> Seq(Mid)] /\ origin \in Seq(Initiators)
        /\ \A q \in Peer : \A i \in DOMAIN known[q] : known[q][i] \in DOMAIN origin'
    BY <1>1 DEF Types, Authored
  <2>2. ASSUME NEW q \in Peer, NEW m \in DOMAIN origin', known' = [known EXCEPT ![q] = Append(@, m)]
        PROVE  \A i \in DOMAIN known'[p] : known'[p][i] \in DOMAIN origin'
    <3>1. \A i \in DOMAIN Append(known[q], m) :
            \/ i \in DOMAIN known[q] /\ Append(known[q], m)[i] = known[q][i]
            \/ Append(known[q], m)[i] = m
      BY <2>1
    <3>2. CASE q = p
      <4>1. known'[p] = Append(known[q], m)
        BY <2>1, <2>2, <3>2
      <4> QED
        BY <2>1, <3>1, <4>1
    <3>3. CASE q # p
      BY <2>1, <2>2, <3>3
    <3> QED
      BY <3>2, <3>3
  <2>3. ASSUME NEW q \in Peer, known' = [known EXCEPT ![q] = << >>]
        PROVE  \A i \in DOMAIN known'[p] : known'[p][i] \in DOMAIN origin'
    <3>1. known'[p] = << >> \/ known'[p] = known[p]
      BY <2>1, <2>3
    <3> QED
      BY <2>1, <3>1
  <2>4. ASSUME NEW q \in Peer, OpenWave(q)
        PROVE  \E m \in DOMAIN origin' : known' = [known EXCEPT ![q] = Append(@, m)]
    <3>1. Len(origin) + 1 \in DOMAIN origin'
      BY <2>1, <2>4 DEF OpenWave
    <3> QED
      BY <2>4, <3>1 DEF OpenWave
  <2>5. ASSUME NEW a \in Peer, NEW b \in Peer, Receive(a, b)
        PROVE  \/ known' = known
               \/ \E m \in DOMAIN origin' : known' = [known EXCEPT ![b] = Append(@, m)]
    <3> DEFINE f == Head(wire[<<a, b>>])
    <3>1. f.kind = "wave-announce" => f.id \in DOMAIN origin
      BY <2>5, FrameTypes DEF Receive
    <3>2. CASE f.kind = "wave-announce" /\ Flooded(a, b, f.id)
      <4>1. \/ known' = known
            \/ known' = [known EXCEPT ![b] = IF Holds(b, f.id) THEN @ ELSE Append(@, f.id)]
        BY <3>2 DEF Flooded, Adopted
      <4>2. f.id \in DOMAIN origin'
        BY <1>1, <3>1, <3>2
      <4> HIDE DEF f
      <4> QED
        BY <2>1, <4>1, <4>2
    <3>3. CASE f.kind # "wave-announce" /\ Unicast(a, b, f.id)
      BY <3>3 DEF Unicast
    <3> QED
      BY <2>5, <3>2, <3>3 DEF Receive
  <2>6. \/ known' = known
        \/ \E q \in Peer, m \in DOMAIN origin' : known' = [known EXCEPT ![q] = Append(@, m)]
        \/ \E q \in Peer : known' = [known EXCEPT ![q] = << >>]
    BY <2>4, <2>5 DEF Next, Close, Cut, Connect, Disconnect, Throttle, SendNote,
         DialTimeout, Refill, LeaveTopic, JoinTopic, vars
  <2> QED
    BY <2>1, <2>2, <2>3, <2>6
<1> QED
  BY <1>3, <1>4 DEF Authored

\* Received, on the wire, queued: the order survives whatever a step does to a channel.
LEMMA NextOrdered == Types /\ Authored /\ Ordered /\ [Next]_vars /\ DialWhileQueued => Ordered'
<1> SUFFICES ASSUME Types, Authored, Ordered, [Next]_vars, DialWhileQueued, NEW w \in Way
             PROVE  InOrder(dm'[w].got, wire'[w], dm'[w].queue, used'.notes)
  BY DEF Ordered
<1> DEFINE g == dm[w].got
           c == wire[w]
           k == dm[w].queue
           n == used.notes
<1>1. /\ g \in Seq(Note) /\ c \in Seq(Frames) /\ k \in Seq(Note) /\ n \in Nat
      /\ dm[w] \in Dms /\ InOrder(g, c, k, n)
  BY TransportAssumption DEF Types, Dms, Ordered
<1>2. k # << >> <=> dm[w].dialed
  BY DEF DialWhileQueued
<1>3. CASE Quiet(w)
  <2>1. /\ dm'[w].got = g
        /\ dm'[w].queue = k \/ dm'[w].queue = << >>
        /\ used'.notes = n \/ used'.notes = n + 1
        /\ \/ wire'[w] = c
           \/ wire'[w] = << >>
           \/ c # << >> /\ wire'[w] = Tail(c)
           \/ \E m \in DOMAIN origin' : wire'[w] = Append(c, Announce(m))
    BY <1>3 DEF Quiet
  <2> HIDE DEF g, c, k, n
  <2> DEFINE d == wire'[w]
             e == << >>
  <2>2. d \in Seq(Frames) /\ InOrder(g, d, k, n)
    <3>1. CASE wire'[w] = c
      BY <1>1, <3>1
    <3>2. CASE wire'[w] = << >>
      <4>1. e \in Seq(Frames) /\ InOrder(g, e, k, n)
        BY <1>1, OrderDrop
      <4> QED
        BY <3>2, <4>1
    <3>3. CASE c # << >> /\ wire'[w] = Tail(c)
      BY <1>1, <3>3, OrderRead
    <3>4. ASSUME NEW m \in DOMAIN origin', wire'[w] = Append(c, Announce(m))
          PROVE  d \in Seq(Frames) /\ InOrder(g, d, k, n)
      <4>1. InOrder(g, Append(c, Announce(m)), k, n)
        BY <1>1, OrderAnnounce
      <4>2. Types'
        BY NextTypes
      <4>3. d \in Seq(Frames)
        BY <4>2 DEF Types
      <4> QED
        BY <3>4, <4>1, <4>3
    <3> QED
      BY <2>1, <3>1, <3>2, <3>3, <3>4
  <2> HIDE DEF d
  <2>3. dm'[w].queue \in Seq(Note) /\ InOrder(g, d, dm'[w].queue, n)
    <3>1. e \in Seq(Note) /\ InOrder(g, d, e, n)
      BY <1>1, <2>2, OrderDrop
    <3> QED
      BY <1>1, <2>1, <2>2, <3>1
  <2>4. InOrder(g, d, dm'[w].queue, n + 1)
    BY <1>1, <2>2, <2>3, OrderDrop
  <2> QED
    BY <2>1, <2>3, <2>4 DEF d
<1>4. CASE Sent(w)
  <2>1. ~dm[w].dialed
    BY <1>4 DEF Sent, DialWhileQueued, Linked
  <2>2. k = << >>
    BY <1>2, <2>1
  <2>3. InOrder(g, c, << >>, n)
    BY <1>1, <2>2
  <2>4. /\ dm'[w].got = g /\ dm'[w].queue = << >> /\ wire'[w] = Append(c, Directed(n + 1))
        /\ used'.notes = n + 1
    BY <1>4, <2>2 DEF Sent
  <2> HIDE DEF g, c, k, n
  <2>5. InOrder(g, Append(c, Directed(n + 1)), << >>, n + 1)
    BY <1>1, <2>3, OrderSend
  <2> QED
    BY <2>4, <2>5
<1>5. CASE Waits(w)
  <2> DEFINE kept == IF Len(k) >= QueueCap THEN Tail(k) ELSE k
  <2>1. /\ dm'[w].got = g /\ dm'[w].queue = Append(kept, n + 1) /\ wire'[w] = c
        /\ used'.notes = n + 1
    <3>1. /\ used'.notes = n + 1 /\ n + 1 \in Note /\ wire'[w] = c
          /\ dm'[w] = Queued(dm[w], n + 1)
      BY <1>5 DEF Waits
    <3> DEFINE d == dm[w]
               new == n + 1
    <3>2. d \in Dms /\ new \in Note
      BY <1>1, <3>1
    <3>3. Queued(d, new).got = d.got /\ Queued(d, new).queue =
             Append(IF Len(d.queue) >= QueueCap THEN Tail(d.queue) ELSE d.queue, new)
      <4> HIDE DEF d, new
      <4> QED
        BY <3>2, QueuedType
    <3> QED
      BY <3>1, <3>3
  <2>2. kept \in Seq(Note) /\ InOrder(g, c, kept, n)
    <3>1. CASE Len(k) >= QueueCap
      <4>1. k # << >>
        BY <1>1, <3>1, TransportAssumption
      <4> HIDE DEF g, c, k, n
      <4>2. Tail(k) \in Seq(Note) /\ InOrder(g, c, Tail(k), n)
        BY <1>1, <4>1, OrderForget
      <4> QED
        BY <3>1, <4>2
    <3>2. CASE ~(Len(k) >= QueueCap)
      BY <1>1, <3>2
    <3> QED
      BY <3>1, <3>2
  <2> HIDE DEF g, c, k, n, kept
  <2>3. InOrder(g, c, Append(kept, n + 1), n + 1)
    BY <1>1, <2>2, OrderQueue
  <2> QED
    BY <2>1, <2>3
<1>6. CASE Greeted(w)
  <2>1. dm'[w].got = g /\ dm'[w].queue = << >>
    <3>1. CASE k = << >>
      BY <1>6, <3>1 DEF Greeted, Flushed
    <3>2. CASE k # << >>
      BY <1>1, <1>6, <3>2, ClearedType DEF Greeted, Flushed
    <3> QED
      BY <3>1, <3>2
  <2>2. InOrder(g, Greeting(w), << >>, n)
    BY Greets
  <2> QED
    BY <1>6, <2>1, <2>2 DEF Greeted
<1>7. CASE Delivered(w)
  <2>1. /\ c # << >> /\ Head(c).kind = "wave-dm" /\ wire'[w] = Tail(c)
        /\ dm'[w].got = Append(g, Head(c).id) /\ dm'[w].queue = k /\ used'.notes = n
    BY <1>7 DEF Delivered
  <2> HIDE DEF g, c, k, n
  <2>2. InOrder(Append(g, Head(c).id), Tail(c), k, n)
    BY <1>1, <2>1, OrderRead
  <2> QED
    BY <2>1, <2>2
<1> QED
  BY <1>3, <1>4, <1>5, <1>6, <1>7, Channels

LEMMA NextDialWhileQueued ==
  Types /\ Authored /\ Ordered /\ [Next]_vars /\ DialWhileQueued => DialWhileQueued'
<1> SUFFICES ASSUME Types, Authored, Ordered, [Next]_vars, DialWhileQueued, NEW w \in Way
             PROVE  /\ dm'[w].queue # << >> <=> dm'[w].dialed
                    /\ {w[1], w[2]} \in link' => ~dm'[w].dialed
  BY DEF DialWhileQueued, Linked
<1>1. /\ dm[w].queue # << >> <=> dm[w].dialed
      /\ {w[1], w[2]} \in link => ~dm[w].dialed
  BY DEF DialWhileQueued, Linked
<1>2. dm[w] \in Dms
  BY DEF Types
<1>3. CASE Quiet(w)
  BY <1>1, <1>3 DEF Quiet
<1>4. CASE Sent(w)
  BY <1>1, <1>4 DEF Sent
<1>5. CASE Waits(w)
  BY <1>2, <1>5, QueuedType DEF Waits
<1>6. CASE Greeted(w)
  <2>1. CASE dm[w].queue = << >>
    BY <1>1, <1>6, <2>1 DEF Greeted, Flushed
  <2>2. CASE dm[w].queue # << >>
    BY <1>2, <1>6, <2>2, ClearedType DEF Greeted, Flushed
  <2> QED
    BY <2>1, <2>2
<1>7. CASE Delivered(w)
  BY <1>1, <1>7 DEF Delivered
<1> QED
  BY <1>3, <1>4, <1>5, <1>6, <1>7, Channels

LEMMA NextSeen ==
  Types /\ Authored /\ Ordered /\ [Next]_vars /\ SeenIsHandled => SeenIsHandled'
<1> SUFFICES ASSUME Types, Authored, Ordered, [Next]_vars, SeenIsHandled
             PROVE  SeenIsHandled'
  OBVIOUS
<1> DEFINE HoldsThen(r, x) == \E i \in DOMAIN known'[r] : known'[r][i] = x
           Excused(r) == r \in used.over \cup used.moved
           Used == [notes : 0 .. MaxNotes, links : 0 .. MaxLinks, faults : 0 .. MaxFaults,
                    throttled : SUBSET Peer, over : SUBSET Peer, moved : SUBSET Peer]
<1>1. /\ known \in [Peer -> Seq(Mid)] /\ seen \in [Peer -> Seq(Mid)] /\ used \in Used
      /\ \A r \in Peer : Len(seen[r]) <= FloodCap
  BY DEF Types
<1>2. \A r \in Peer, x \in Mid : Seen(r, x) => Holds(r, x) \/ Excused(r)
  BY DEF SeenIsHandled
\* Most steps touch neither what is seen nor what is held.
<1>3. ASSUME UNCHANGED <<seen, known>>, used.over \subseteq used'.over,
             used.moved \subseteq used'.moved
      PROVE  SeenIsHandled'
  BY <1>2, <1>3 DEF SeenIsHandled, Seen, Holds
\* An id remembered by one peer, which holds its announce or is over its budget.
<1>4. ASSUME NEW q \in Peer, NEW m \in Mid, seen' = [seen EXCEPT ![q] = Remember(@, m)],
             \/ known' = known
             \/ known' = [known EXCEPT ![q] = Append(@, m)],
             HoldsThen(q, m) \/ q \in used'.over,
             used.over \subseteq used'.over, used.moved \subseteq used'.moved
      PROVE  SeenIsHandled'
  <2> SUFFICES ASSUME NEW r \in Peer, NEW x \in Mid, Seen(r, x)'
               PROVE  Holds(r, x)' \/ Excused(r)'
    BY DEF SeenIsHandled
  <2>1. Holds(r, x) => Holds(r, x)'
    <3>1. CASE known' = known
      BY <3>1 DEF Holds
    <3>2. CASE known' = [known EXCEPT ![q] = Append(@, m)] /\ r = q
      <4>1. known[r] \in Seq(Mid) /\ known'[r] = Append(known[r], m)
        BY <1>1, <3>2
      <4>2. \A i \in DOMAIN known[r] : i \in DOMAIN known'[r] /\ known'[r][i] = known[r][i]
        <5>1. \A s \in Seq(Mid) : \A i \in DOMAIN s :
                i \in DOMAIN Append(s, m) /\ Append(s, m)[i] = s[i]
          OBVIOUS
        <5> QED
          BY <4>1, <5>1
      <4> QED
        BY <4>2 DEF Holds
    <3>3. CASE known' = [known EXCEPT ![q] = Append(@, m)] /\ r # q
      BY <1>1, <3>3 DEF Holds
    <3> QED
      BY <1>4, <3>1, <3>2, <3>3
  <2>2. CASE r = q
    <3> DEFINE new == Remember(seen[q], m)
    <3>1. seen'[q] = new
      BY <1>1, <1>4
    <3>2. \A i \in DOMAIN new : new[i] = m \/ \E j \in DOMAIN seen[q] : seen[q][j] = new[i]
      BY <1>1, Remembered
    <3> HIDE DEF new
    <3>3. x = m \/ Seen(q, x)
      BY <2>2, <3>1, <3>2 DEF Seen
    <3> QED
      BY <1>2, <1>4, <2>1, <2>2, <3>3 DEF Holds
  <2>3. CASE r # q
    <3>1. seen'[r] = seen[r]
      BY <1>1, <1>4, <2>3
    <3>2. Seen(r, x)
      BY <3>1 DEF Seen
    <3> QED
      BY <1>2, <1>4, <2>1, <3>2
  <2> QED
    BY <2>2, <2>3
\* An announce appended to what a peer holds is held.
<1>5. ASSUME NEW q \in Peer, NEW m \in Mid, known' = [known EXCEPT ![q] = Append(@, m)]
      PROVE  HoldsThen(q, m)
  <2>1. known[q] \in Seq(Mid) /\ known'[q] = Append(known[q], m)
    BY <1>1, <1>5
  <2>2. \A s \in Seq(Mid) : Len(s) + 1 \in DOMAIN Append(s, m) /\ Append(s, m)[Len(s) + 1] = m
    OBVIOUS
  <2> QED
    BY <2>1, <2>2 DEF Holds
<1>6. ASSUME NEW p \in Peer, OpenWave(p)
      PROVE  SeenIsHandled'
  <2> DEFINE m == Len(origin) + 1
  <2>1. /\ m \in Mid /\ seen' = [seen EXCEPT ![p] = Remember(@, m)]
        /\ known' = [known EXCEPT ![p] = Append(@, m)] /\ used' = used
    BY <1>6 DEF OpenWave
  <2> HIDE DEF m
  <2>2. HoldsThen(p, m)
    <3> HIDE DEF HoldsThen
    <3> QED
      BY <1>5, <2>1
  <2> QED
    BY <1>4, <2>1, <2>2
<1>7. ASSUME NEW p \in Peer, NEW q \in Peer, Receive(p, q)
      PROVE  SeenIsHandled'
  <2> DEFINE f == Head(wire[<<p, q>>])
             m == f.id
  <2>1. f.kind = "wave-announce" => m \in Mid
    BY <1>7, FrameTypes DEF Receive
  <2>2. CASE f.kind = "wave-announce" /\ Flooded(p, q, m)
    <3>1. m \in Mid
      BY <2>1, <2>2
    <3> HIDE DEF f, m
    <3>2. CASE Seen(q, m)
      <4>1. UNCHANGED <<known, seen, used>>
        BY <2>2, <3>2 DEF Flooded
      <4> QED
        BY <1>3, <4>1
    <3>3. CASE ~Seen(q, m) /\ budget[q][origin[m]] = 0
      <4>1. /\ seen' = [seen EXCEPT ![q] = Remember(@, m)] /\ known' = known
            /\ used' = [used EXCEPT !.over = @ \cup {q}]
        BY <2>2, <3>3 DEF Flooded
      <4>2. used'.over = used.over \cup {q} /\ used'.moved = used.moved
        BY <1>1, <4>1
      <4> QED
        BY <1>4, <3>1, <4>1, <4>2
    <3>4. CASE ~Seen(q, m) /\ budget[q][origin[m]] # 0
      <4>1. /\ seen' = [seen EXCEPT ![q] = Remember(@, m)] /\ used' = used
            /\ known' = [known EXCEPT ![q] = IF Holds(q, m) THEN @ ELSE Append(@, m)]
        BY <2>2, <3>4 DEF Flooded, Adopted
      <4>2. CASE Holds(q, m)
        <5>1. known' = known
          BY <1>1, <4>1, <4>2
        <5>2. HoldsThen(q, m)
          BY <4>2, <5>1 DEF Holds
        <5> QED
          BY <1>4, <3>1, <4>1, <5>1, <5>2
      <4>3. CASE ~Holds(q, m)
        <5>1. known' = [known EXCEPT ![q] = Append(@, m)]
          BY <4>1, <4>3
        <5> QED
          BY <1>4, <1>5, <3>1, <4>1, <5>1
      <4> QED
        BY <4>2, <4>3
    <3> QED
      BY <3>2, <3>3, <3>4
  <2>3. CASE f.kind # "wave-announce" /\ Unicast(p, q, m)
    BY <1>3, <2>3 DEF Unicast
  <2> QED
    BY <1>7, <2>2, <2>3 DEF Receive
\* A peer that moves forgets its waves, and is marked.
<1>8. ASSUME NEW p \in Peer, NEW t \in Topic, LeaveTopic(p, t)
      PROVE  SeenIsHandled'
  <2>1. /\ used'.moved = used.moved \cup {p} /\ used'.over = used.over /\ seen' = seen
        /\ known' = [known EXCEPT ![p] = << >>]
    BY <1>1, <1>8 DEF LeaveTopic
  <2>2. \A r \in Peer, x \in Mid : r # p /\ Holds(r, x) => Holds(r, x)'
    BY <1>1, <2>1 DEF Holds
  <2> QED
    BY <1>2, <2>1, <2>2 DEF SeenIsHandled, Seen
<1>9. /\ \A v \in Way : SendNote(v) => UNCHANGED <<seen, known>> /\ used'.over = used.over
                                       /\ used'.moved = used.moved
      /\ \A p, q \in Peer : Connect(p, q) \/ Throttle(p, q) =>
                                       UNCHANGED <<seen, known>> /\ used'.over = used.over
                                       /\ used'.moved = used.moved
      /\ \A p \in Peer : JoinOrClose(p) => UNCHANGED <<seen, known>> /\ used'.over = used.over
                                       /\ used'.moved = used.moved
  BY <1>1 DEF SendNote, Connect, Throttle, JoinOrClose, JoinTopic, Close
<1>10. /\ \A v \in Way : DialTimeout(v) => UNCHANGED <<seen, known, used>>
       /\ \A p, q \in Peer : Disconnect(p, q) => UNCHANGED <<seen, known, used>>
       /\ \A q \in Peer, o \in Initiators : Refill(q, o) => UNCHANGED <<seen, known, used>>
       /\ UNCHANGED vars => UNCHANGED <<seen, known, used>>
  BY DEF DialTimeout, Disconnect, Refill, vars
<1> QED
  BY <1>3, <1>6, <1>7, <1>8, <1>9, <1>10 DEF Next, JoinOrClose

\* Everything Transport promises holds from the start and through every step: types,
\* authored announces, notes in order on every channel, dials that run exactly while
\* notes wait for them, and a dedup which remembers only what was handled.
THEOREM Invariance == Spec => []IInv
<1>1. Init => IInv
  BY InitHolds
<1>2. IInv /\ [Next]_vars => IInv'
  BY NextTypes, NextAuthored, NextOrdered, NextDialWhileQueued, NextSeen DEF IInv
<1> QED
  BY <1>1, <1>2, PTL DEF Spec

\* Every variable keeps its type: connections join two peers, queues and the dedup stay
\* within their caps (DM_MAX_QUEUED, FLOOD_SEEN_CAP), budgets within their burst.
THEOREM TypeCorrect == Spec => []TypeOK
<1>1. Types => TypeOK
  <2> SUFFICES ASSUME Types PROVE TypeOK
    OBVIOUS
  <2>1. \A l \in link : l \subseteq Peer /\ Cardinality(l) = 2
    <3> SUFFICES ASSUME NEW l \in link PROVE l \subseteq Peer /\ Cardinality(l) = 2
      OBVIOUS
    <3>1. PICK p, q \in Peer : p # q /\ l = {p, q}
      BY DEF Types
    <3>2. IsFiniteSet({p}) /\ Cardinality({p}) = 1
      BY FS_Singleton
    <3>3. Cardinality({p} \cup {q}) = 2
      <4> DEFINE S == {p}
      <4>1. q \notin S
        BY <3>1
      <4>2. IsFiniteSet(S) /\ Cardinality(S) = 1
        BY <3>2
      <4> HIDE DEF S
      <4>3. Cardinality(S \cup {q}) = IF q \in S THEN Cardinality(S) ELSE Cardinality(S) + 1
        BY <4>2, FS_AddElement
      <4>4. Cardinality(S \cup {q}) = 2
        BY <4>1, <4>2, <4>3
      <4> QED
        BY <4>4 DEF S
    <3>4. l = {p} \cup {q}
      BY <3>1
    <3> QED
      BY <3>1, <3>3, <3>4
  <2>2. \A S : \A s \in Seq(S) : Bounded(s, S)
    BY DEF Bounded
  <2>3. \A w \in Way :
       /\ wire[w] \in Seq(Frames)
       /\ dm[w].timers \in Nat /\ dm[w].dialed \in BOOLEAN
       /\ dm[w].queue \in Seq(Note) /\ Len(dm[w].queue) <= QueueCap
       /\ dm[w].got \in Seq(Note)
    BY DEF Types, Dms
  <2>4. \A w \in Way : /\ Bounded(wire[w], Frames) /\ Bounded(dm[w].queue, Note)
                       /\ Bounded(dm[w].got, Note)
    BY <2>2, <2>3
  <2>5. \A p \in Peer : Bounded(known[p], Mid) /\ Bounded(seen[p], Mid)
    BY <2>2 DEF Types
  <2>6. Bounded(origin, Initiators)
    BY <2>2 DEF Types
  <2> QED
    BY <2>1, <2>3, <2>4, <2>5, <2>6 DEF Types, TypeOK, Frames
<1> QED
  BY <1>1, Invariance, PTL DEF IInv

\* Directed notes from one peer to another arrive in the order they were written and once,
\* whether they went over a connection, waited for a dial or were flushed by it; and a note
\* waits only for a running dial (sendDirect, dialForDm, flushPendingDm, clearDmDial).
THEOREM NotesKeepOrder == Spec => []NotesAndDials
<1>1. Types /\ Ordered /\ DialWhileQueued => NotesAndDials
  <2> SUFFICES ASSUME Types, Ordered, DialWhileQueued PROVE NotesInOrder
    BY DEF NotesAndDials
  <2>1. \A w \in Way : InOrder(dm[w].got, wire[w], dm[w].queue, used.notes)
    BY DEF Ordered
  <2>2. \A w \in Way : NotesOn(w) = NotesIn(wire[w])
    BY DEF NotesOn, NotesIn
  <2> QED
    BY <2>1, <2>2 DEF InOrder, NotesInOrder
<1> QED
  BY <1>1, Invariance, PTL DEF IInv

\* What the flood dedup of a peer remembers it has handled, unless the author was over its
\* budget or the peer moved: the connection's limiter runs before the dedup, so a dropped
\* frame counts again when another neighbour sends it (handleGossip, Flood.firstSight).
THEOREM DedupRemembersHandled == Spec => []SeenIsHandled
BY Invariance, PTL DEF IInv

=============================================================================
