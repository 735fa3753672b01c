---------------------------- MODULE CaptureProofs ----------------------------
(***************************************************************************)
(* Theorems about Capture, for every set of waves and every bound: its     *)
(* types, that the moment the user was asked for is staged in time and     *)
(* what a lobby needs is asked for, and that the centre of the ring has    *)
(* one owner.                                                              *)
(*                                                                         *)
(* The panels follow the messages one by one, so what the directory has of *)
(* a wave is traced through the messages still on their way: from what is  *)
(* shown now, by what each message makes of it, to what the engine has     *)
(* (Leads).  A message sent goes to the end of that trace, a message       *)
(* handled is its first step, and what a handler may rely on is what holds *)
(* of every step of it (Allowed).                                          *)
(***************************************************************************)
EXTENDS Capture, SequenceTheorems, TLAPS

-----------------------------------------------------------------------------
\* The inductive invariant: from the directory to the engine.

EngineWave == [phase : {"none", "lobby", "racing", "over"}, joined : BOOLEAN, paid : Paid]
Entry == [phase : {"none", "lobby", "racing", "ended", "dismissed"}, joined : BOOLEAN,
          paid : Paid]
FeeOrder == [cmd : Fee, wave : Wave]
Gone == [NoWave EXCEPT !.phase = "dismissed"]

\* A message about the wave w.
About(m, w) == m.ev # "wallet" /\ m.wave = w

\* What the message m makes of the entry e of the wave w.
Hear(w, m, e) ==
  IF ~About(m, w) \/ e.phase = "dismissed" \/ (e.phase = "none" /\ m.ev # "wave-announce")
  THEN e ELSE Patch(m, e)

\* A wave is announced to whom it is not open to; a seat or a fee is told of an open lobby.
Allowed(w, m, e) ==
  About(m, w) =>
    /\ m.ev = "wave-announce" => /\ e.phase \notin {"lobby", "racing"}
                                 /\ w = Mine => m.joined /\ e.phase = "none"
    /\ m.ev \in {"joined", "wave-verified"} => e.phase \in {"lobby", "none", "dismissed"}

\* The starter of a wave has a seat in it.
OwnSeat(w, e) == w = Mine /\ e.phase = "lobby" => e.joined

\* A lobby that may be joined, and the messages that change that.
Ready(e) == e.phase = "lobby" /\ ~e.joined /\ e.paid = "verified"
Moves(w, m) == m.ev \in {"wave-announce", "joined", "wave-active", "wave-idle"} /\ m.wave = w

\* f is what the directory has of w, now and after each of the messages s.
Trace(w, s, f) ==
  /\ f \in [0 .. Len(s) -> Entry]
  /\ \A i \in 1 .. Len(s) : Allowed(w, s[i], f[i - 1]) /\ f[i] = Hear(w, s[i], f[i - 1])
  /\ \A i \in 0 .. Len(s) : OwnSeat(w, f[i])
  /\ \A i, j \in 0 .. Len(s) : i <= j =>
       /\ f[j].phase = "none" => f[i].phase = "none"
       /\ Ready(f[i]) /\ ~Ready(f[j]) =>
            \E k \in 1 .. Len(s) : i < k /\ k <= j /\ Moves(w, s[k])

\* The messages s lead from the entry e of w to the entry d.
Leads(w, s, e, d) == \E f : Trace(w, s, f) /\ f[0] = e /\ f[Len(s)] = d

\* The entry d shows what the engine's wave x is.
PhaseAgrees(w, d, x) ==
  CASE d.phase = "dismissed" -> w = Mine => x.phase # "none"
    [] d.phase = "none"      -> x.phase # "lobby"
    [] d.phase = "ended"     -> x.phase \in {"none", "over"} /\ (w = Mine => x.phase = "over")
    [] OTHER                 -> x.phase = d.phase

Agrees(w, d, x) ==
  /\ PhaseAgrees(w, d, x)
  /\ d.phase = "lobby" /\ x.joined => d.joined
  /\ d.phase = "lobby" /\ x.paid = "pending" => d.paid # "verified"

\* A wave told to be unpaid is told to be over next.
Unpays(m, w) == m.ev = "wave-unpaid" /\ m.wave = w
Idles(m, w) == m.ev = "wave-idle" /\ m.wave = w
UnpaidEnds(w, s) ==
  \A i \in DOMAIN s : Unpays(s[i], w) => \E j \in DOMAIN s : j > i /\ Idles(s[j], w)

\* The messages s tell, from the entry e of w, what the engine's wave x is.
Reaches(w, s, e, x) == \E d \in Entry : Leads(w, s, e, d) /\ Agrees(w, d, x)

Told(w) == Reaches(w, msgs, dir[w], eng[w]) /\ UnpaidEnds(w, msgs)

ToldInv == \A w \in Wave : Told(w)

-----------------------------------------------------------------------------
\* The inductive invariant: the panels.

\* The camera is asked for at most once unless it is late, and held while a moment is framed.
Camera(p) ==
  ~p.late => /\ p.asking \in {0, 1} /\ ~p.lost
             /\ p.asking = 1 => p.open /\ ~p.stream
             /\ p.stream => p.open

Shows(w) == dir[w].phase \in {"lobby", "racing", "ended"}

CentreInv ==
  /\ Camera(panel)
  /\ panel.open => panel.shut /\ active # None
  /\ panel.shows \in {None, active}
  /\ active # None => Shows(active) /\ (dir[active].phase # "lobby" => ~panel.shut)

\* Waves whose moment is no longer expected.
lapsed == waived \cup missed

\* The moment the user was asked for is framed or staged, in a lobby with a seat.
AskInv ==
  \A w \in ask :
    /\ dir[w].phase \in {"lobby", "racing", "dismissed"}
    /\ w \notin lapsed =>
         /\ dir[w].phase = "lobby" => dir[w].joined /\ (w \in sent \/ (w = active /\ panel.open))
         /\ dir[w].phase = "racing" => w \in sent

\* Something is on its way that changes what a lobby asks for, or gives up asking.
Answers(w, m) == Moves(w, m) \/ (m.ev \in {"join-refused", "wave-unpaid"} /\ m.wave = w)
PendingIn(w, s) == \E i \in DOMAIN s : Answers(w, s[i])
Pending(w) == PendingIn(w, msgs)
JoiningIn(w, s) == \E i \in DOMAIN s : s[i] = Cmd("join", w)
Joining(w) == JoiningIn(w, cmds) \/ Cmd("join", w) \in fees \/ w \in stranded

\* The lobby panel p of the wave w, where I have no seat, whose entry is e.
Offers(p, e) == p.lobby = "offer" /\ (e.paid = "verified" => p.ok)
Enabled(p) == p.lobby = "in" \/ (p.lobby = "offer" /\ p.ok)

SeatAsks(w) ==
  dir[w].joined /\ w \notin lapsed /\ (w = Mine => dir[w].paid = "verified") =>
    panel.open \/ w \in sent

JoinAsks(w) ==
  ~dir[w].joined =>
    /\ Enabled(panel) => dir[w].paid = "verified"
    /\ w \notin lapsed => Offers(panel, dir[w]) \/ Pending(w) \/ (panel.lobby = "in" /\ Joining(w))

LobbyInv == active # None /\ dir[active].phase = "lobby" => SeatAsks(active) /\ JoinAsks(active)

IInv == TypeOK /\ ToldInv /\ CentreInv /\ AskInv /\ LobbyInv

-----------------------------------------------------------------------------
\* What a message makes of an entry.

PhaseOf(m, e) == IF m.ev = "wave-announce" THEN "lobby"
                 ELSE IF m.ev = "wave-active" THEN "racing"
                 ELSE IF m.ev = "wave-idle" THEN "ended" ELSE e.phase

SeatOf(m, e) == IF m.ev \in {"wave-announce", "wave-active"} THEN m.joined
                ELSE IF m.ev = "joined" THEN TRUE ELSE e.joined

PaidOf(m, e) == IF m.ev = "wave-announce" THEN m.paid
                ELSE IF m.ev = "wave-verified" THEN "verified" ELSE e.paid

Becomes(m, e, h) ==
  /\ h \in Entry /\ h.phase = PhaseOf(m, e) /\ h.joined = SeatOf(m, e) /\ h.paid = PaidOf(m, e)

LEMMA PatchIs ==
  ASSUME NEW m \in Report, m.ev # "wallet", NEW e \in Entry
  PROVE  Becomes(m, e, Patch(m, e))
<1>1. m.ev \in WaveEvent /\ m.joined \in BOOLEAN /\ m.paid \in Paid
  BY DEF Report
<1>2. CASE m.ev = "wave-announce"
  BY <1>1, <1>2 DEF Patch, Entry, Becomes, PhaseOf, SeatOf, PaidOf
<1>3. CASE m.ev = "joined"
  BY <1>1, <1>3 DEF Patch, Entry, Becomes, PhaseOf, SeatOf, PaidOf
<1>4. CASE m.ev = "wave-verified"
  BY <1>1, <1>4 DEF Patch, Entry, Paid, Becomes, PhaseOf, SeatOf, PaidOf
<1>5. CASE m.ev = "wave-active"
  BY <1>1, <1>5 DEF Patch, Entry, Becomes, PhaseOf, SeatOf, PaidOf
<1>6. CASE m.ev = "wave-idle"
  BY <1>1, <1>6 DEF Patch, Entry, Becomes, PhaseOf, SeatOf, PaidOf
<1>7. CASE m.ev \in {"wave-unpaid", "join-pending", "join-refused"}
  BY <1>1, <1>7 DEF Patch, Entry, Becomes, PhaseOf, SeatOf, PaidOf
<1> QED
  BY <1>1, <1>2, <1>3, <1>4, <1>5, <1>6, <1>7 DEF WaveEvent

\* Which entries hear a message.
Hears(w, m, e) == About(m, w) /\ e.phase # "dismissed" /\ (e.phase = "none" => m.ev = "wave-announce")

LEMMA HearIs ==
  ASSUME NEW w \in Wave, NEW m \in Report, NEW e \in Entry
  PROVE  /\ Hear(w, m, e) \in Entry
         /\ ~Hears(w, m, e) => Hear(w, m, e) = e
         /\ Hears(w, m, e) => Becomes(m, e, Hear(w, m, e))
<1>1. CASE ~Hears(w, m, e)
  BY <1>1 DEF Hears, Hear
<1>2. CASE Hears(w, m, e)
  <2>1. m.ev # "wallet" /\ Hear(w, m, e) = Patch(m, e)
    BY <1>2 DEF Hears, Hear, About
  <2> QED
    BY <1>2, <2>1, PatchIs DEF Becomes
<1> QED
  BY <1>1, <1>2

LEMMA HearKeeps ==
  ASSUME NEW w \in Wave, NEW m \in Report, NEW e \in Entry, Allowed(w, m, e), OwnSeat(w, e)
  PROVE  LET h == Hear(w, m, e)
         IN  /\ OwnSeat(w, h)
             /\ h.phase = "none" => e.phase = "none"
             /\ Ready(e) /\ ~Ready(h) => Moves(w, m)
<1> DEFINE h == Hear(w, m, e)
<1>1. CASE ~Hears(w, m, e)
  BY <1>1, HearIs
<1>2. CASE Hears(w, m, e)
  <2>1. About(m, w) /\ m.ev \in WaveEvent /\ m.wave = w /\ e.phase # "dismissed"
    BY <1>2 DEF Hears, About, Report
  <2> HIDE DEF h
  <2>2. h.phase = PhaseOf(m, e) /\ h.joined = SeatOf(m, e) /\ h.paid = PaidOf(m, e)
    BY <1>2, HearIs DEF h, Becomes
  <2>3. h.phase = "none" => e.phase = "none"
    BY <2>2 DEF PhaseOf
  <2>4. OwnSeat(w, h)
    <3>1. SUFFICES ASSUME w = Mine, h.phase = "lobby" PROVE h.joined
      BY DEF OwnSeat
    <3>2. CASE m.ev = "wave-announce"
      BY <2>1, <2>2, <3>1, <3>2 DEF Allowed, SeatOf
    <3>3. CASE m.ev # "wave-announce"
      BY <2>1, <2>2, <3>1, <3>3 DEF OwnSeat, PhaseOf, SeatOf
    <3> QED
      BY <3>2, <3>3
  <2>5. Ready(e) /\ ~Ready(h) => Moves(w, m)
    BY <2>1, <2>2 DEF Ready, Moves, PhaseOf, SeatOf, PaidOf
  <2> QED
    BY <2>3, <2>4, <2>5 DEF h
<1> QED
  BY <1>1, <1>2

-----------------------------------------------------------------------------
\* Where the messages lead.

\* Nothing on its way.
LEMMA LeadsNowhere ==
  ASSUME NEW w \in Wave, NEW e \in Entry, OwnSeat(w, e)
  PROVE  Leads(w, <<>>, e, e)
<1> DEFINE f == [i \in 0 .. 0 |-> e]
<1>1. f \in [0 .. 0 -> Entry] /\ f[0] = e
  OBVIOUS
<1> HIDE DEF f
<1>2. Len(<<>>) = 0 /\ 1 .. 0 = {} /\ \A i \in 0 .. 0 : i = 0
  OBVIOUS
<1>3. Trace(w, <<>>, f)
  BY <1>1, <1>2 DEF Trace
<1> QED
  BY <1>1, <1>2, <1>3 DEF Leads

\* A message sent.
LEMMA LeadsOn ==
  ASSUME NEW w \in Wave, NEW s \in Seq(Report), NEW x \in Report, NEW e, NEW d,
         Leads(w, s, e, d), Allowed(w, x, d)
  PROVE  Leads(w, s \o <<x>>, e, Hear(w, x, d))
<1> DEFINE t == s \o <<x>>
           n == Len(s)
           h == Hear(w, x, d)
<1>1. PICK f : Trace(w, s, f) /\ f[0] = e /\ f[n] = d
  BY DEF Leads
<1> DEFINE g == [i \in 0 .. n + 1 |-> IF i = n + 1 THEN h ELSE f[i]]
<1>2. /\ n \in Nat /\ Len(t) = n + 1 /\ t[n + 1] = x
      /\ \A i \in 1 .. n : s[i] \in Report /\ t[i] = s[i]
  OBVIOUS
<1>3. f \in [0 .. n -> Entry] /\ d \in Entry
  BY <1>1, <1>2 DEF Trace
<1>4. h \in Entry
  BY <1>3, HearIs
<1>5. OwnSeat(w, d)
  BY <1>1, <1>2 DEF Trace
<1>6. OwnSeat(w, h) /\ (h.phase = "none" => d.phase = "none") /\ (Ready(d) /\ ~Ready(h) => Moves(w, x))
  BY <1>3, <1>5, HearKeeps
<1> HIDE DEF t, n, h
<1>7. g \in [0 .. n + 1 -> Entry] /\ g[n + 1] = h /\ \A i \in 0 .. n : g[i] = f[i]
  BY <1>2, <1>3, <1>4
<1> HIDE DEF g
<1>8. ASSUME NEW i \in 1 .. n + 1 PROVE Allowed(w, t[i], g[i - 1]) /\ g[i] = Hear(w, t[i], g[i - 1])
  <2>1. CASE i = n + 1
    BY <1>1, <1>2, <1>7, <2>1 DEF h
  <2>2. CASE i # n + 1
    <3>1. i \in 1 .. n /\ i \in 0 .. n /\ i - 1 \in 0 .. n
      BY <1>2, <2>2
    <3>2. Allowed(w, s[i], f[i - 1]) /\ f[i] = Hear(w, s[i], f[i - 1])
      BY <1>1, <3>1 DEF Trace, n
    <3> QED
      BY <1>2, <1>7, <3>1, <3>2
  <2> QED
    BY <2>1, <2>2
<1>9. ASSUME NEW i \in 0 .. n + 1 PROVE OwnSeat(w, g[i])
  <2>1. CASE i = n + 1
    BY <1>6, <1>7, <2>1
  <2>2. CASE i # n + 1
    <3>1. i \in 0 .. n
      BY <1>2, <2>2
    <3> QED
      BY <1>1, <1>7, <3>1 DEF Trace, n
  <2> QED
    BY <2>1, <2>2
<1>10. ASSUME NEW i \in 0 .. n + 1, NEW j \in 0 .. n + 1, i <= j
       PROVE  /\ g[j].phase = "none" => g[i].phase = "none"
              /\ Ready(g[i]) /\ ~Ready(g[j]) =>
                   \E k \in 1 .. n + 1 : i < k /\ k <= j /\ Moves(w, t[k])
  <2>1. \A a, b \in 0 .. n : a <= b =>
          /\ f[b].phase = "none" => f[a].phase = "none"
          /\ Ready(f[a]) /\ ~Ready(f[b]) => \E k \in 1 .. n : a < k /\ k <= b /\ Moves(w, s[k])
    BY <1>1 DEF Trace, n
  <2>2. \A k \in 1 .. n : k \in 1 .. n + 1 /\ t[k] = s[k]
    BY <1>2
  <2>3. CASE j # n + 1
    <3>1. i \in 0 .. n /\ j \in 0 .. n
      BY <1>2, <1>10, <2>3
    <3> QED
      BY <1>7, <1>10, <2>1, <2>2, <3>1
  <2>4. CASE i = n + 1
    BY <1>2, <1>10, <2>4
  <2>5. CASE i # n + 1 /\ j = n + 1
    <3>1. i \in 0 .. n /\ n \in 0 .. n /\ i <= n /\ g[i] = f[i] /\ g[j] = h
      BY <1>2, <1>7, <2>5
    <3>2. h.phase = "none" => f[i].phase = "none"
      BY <1>1, <1>6, <2>1, <3>1
    <3>3. ASSUME Ready(f[i]), ~Ready(h)
          PROVE  \E k \in 1 .. n + 1 : i < k /\ k <= j /\ Moves(w, t[k])
      <4>1. CASE Ready(d)
        <5>1. n + 1 \in 1 .. n + 1 /\ i < n + 1 /\ n + 1 <= j /\ Moves(w, t[n + 1])
          BY <1>2, <1>6, <2>5, <3>1, <3>3, <4>1
        <5> QED
          BY <5>1
      <4>2. CASE ~Ready(d)
        <5>1. PICK k \in 1 .. n : i < k /\ k <= n /\ Moves(w, s[k])
          BY <1>1, <2>1, <3>1, <3>3, <4>2
        <5>2. k \in 1 .. n + 1 /\ k <= j /\ Moves(w, t[k])
          BY <1>2, <2>2, <2>5, <5>1
        <5> QED
          BY <5>1, <5>2
      <4> QED
        BY <4>1, <4>2
    <3> QED
      BY <3>1, <3>2, <3>3
  <2> QED
    BY <2>3, <2>4, <2>5
<1>11. Trace(w, t, g)
  BY <1>2, <1>7, <1>8, <1>9, <1>10 DEF Trace
<1>12. g[0] = e
  BY <1>1, <1>2, <1>7
<1> QED
  BY <1>2, <1>7, <1>11, <1>12 DEF Leads, t, h

\* A message handled.
LEMMA LeadsFrom ==
  ASSUME NEW w \in Wave, NEW s \in Seq(Report), s # <<>>, NEW e, NEW d, Leads(w, s, e, d)
  PROVE  Allowed(w, Head(s), e) /\ Leads(w, Tail(s), Hear(w, Head(s), e), d)
<1> DEFINE t == Tail(s)
           n == Len(t)
<1>1. PICK f : Trace(w, s, f) /\ f[0] = e /\ f[Len(s)] = d
  BY DEF Leads
<1> DEFINE g == [i \in 0 .. n |-> f[i + 1]]
<1>2. /\ n \in Nat /\ Len(s) = n + 1 /\ s[1] = Head(s)
      /\ \A i \in 1 .. n : i + 1 \in 1 .. n + 1 /\ t[i] = s[i + 1]
  OBVIOUS
<1> HIDE DEF t, n
<1>3. f \in [0 .. n + 1 -> Entry] /\ \A i \in 0 .. n : i + 1 \in 0 .. n + 1
  BY <1>1, <1>2 DEF Trace
<1>4. g \in [0 .. n -> Entry] /\ \A i \in 0 .. n : g[i] = f[i + 1]
  BY <1>3
<1> HIDE DEF g
<1>5. \A i \in 1 .. n + 1 : Allowed(w, s[i], f[i - 1]) /\ f[i] = Hear(w, s[i], f[i - 1])
  BY <1>1, <1>2 DEF Trace
<1>6. Allowed(w, Head(s), e) /\ f[1] = Hear(w, Head(s), e)
  <2>1. 1 \in 1 .. n + 1 /\ 1 - 1 = 0
    BY <1>2
  <2> QED
    BY <1>1, <1>2, <1>5, <2>1
<1>7. ASSUME NEW i \in 1 .. n PROVE Allowed(w, t[i], g[i - 1]) /\ g[i] = Hear(w, t[i], g[i - 1])
  <2>1. i + 1 \in 1 .. n + 1 /\ (i + 1) - 1 = i /\ i - 1 \in 0 .. n /\ i \in 0 .. n /\ (i - 1) + 1 = i
    BY <1>2
  <2>2. g[i - 1] = f[i] /\ g[i] = f[i + 1] /\ t[i] = s[i + 1]
    BY <1>2, <1>4, <2>1
  <2> QED
    BY <1>5, <2>1, <2>2
<1>8. ASSUME NEW i \in 0 .. n PROVE OwnSeat(w, g[i])
  BY <1>1, <1>2, <1>3, <1>4 DEF Trace
<1>9. ASSUME NEW i \in 0 .. n, NEW j \in 0 .. n, i <= j
      PROVE  /\ g[j].phase = "none" => g[i].phase = "none"
             /\ Ready(g[i]) /\ ~Ready(g[j]) =>
                  \E k \in 1 .. n : i < k /\ k <= j /\ Moves(w, t[k])
  <2>1. i + 1 \in 0 .. n + 1 /\ j + 1 \in 0 .. n + 1 /\ i + 1 <= j + 1
    BY <1>2, <1>9
  <2>2. /\ f[j + 1].phase = "none" => f[i + 1].phase = "none"
        /\ Ready(f[i + 1]) /\ ~Ready(f[j + 1]) =>
             \E k \in 1 .. n + 1 : i + 1 < k /\ k <= j + 1 /\ Moves(w, s[k])
    BY <1>1, <1>2, <2>1 DEF Trace
  <2>3. ASSUME NEW k \in 1 .. n + 1, i + 1 < k, k <= j + 1
        PROVE  k - 1 \in 1 .. n /\ i < k - 1 /\ k - 1 <= j /\ s[k] = t[k - 1]
    <3>1. k - 1 \in 1 .. n /\ i < k - 1 /\ k - 1 <= j /\ (k - 1) + 1 = k
      BY <1>2, <2>3
    <3> QED
      BY <1>2, <3>1
  <2> QED
    BY <1>4, <2>2, <2>3
<1>10. Trace(w, t, g)
  BY <1>4, <1>7, <1>8, <1>9 DEF Trace, n
<1>11. g[0] = Hear(w, Head(s), e) /\ g[n] = d
  <2>1. 0 \in 0 .. n /\ n \in 0 .. n /\ 0 + 1 = 1
    BY <1>2
  <2> QED
    BY <1>1, <1>2, <1>4, <1>6, <2>1
<1> QED
  BY <1>6, <1>10, <1>11 DEF Leads, t, n

\* What is known of both ends.
LEMMA LeadsTells ==
  ASSUME NEW w \in Wave, NEW s \in Seq(Report), NEW e, NEW d, Leads(w, s, e, d)
  PROVE  /\ e \in Entry /\ d \in Entry /\ OwnSeat(w, e)
         /\ d.phase = "none" => e.phase = "none"
         /\ Ready(e) /\ ~Ready(d) => \E k \in DOMAIN s : Moves(w, s[k])
<1>1. PICK f : Trace(w, s, f) /\ f[0] = e /\ f[Len(s)] = d
  BY DEF Leads
<1>2. Len(s) \in Nat /\ 0 \in 0 .. Len(s) /\ Len(s) \in 0 .. Len(s) /\ 0 <= Len(s)
      /\ DOMAIN s = 1 .. Len(s)
  OBVIOUS
<1>3. e \in Entry /\ d \in Entry /\ OwnSeat(w, e)
  BY <1>1, <1>2 DEF Trace
<1>4. /\ d.phase = "none" => e.phase = "none"
      /\ Ready(e) /\ ~Ready(d) =>
           \E k \in 1 .. Len(s) : 0 < k /\ k <= Len(s) /\ Moves(w, s[k])
  BY <1>1, <1>2 DEF Trace
<1> QED
  BY <1>2, <1>3, <1>4

LEMMA GoneIs ==
  Gone \in Entry /\ Gone.phase = "dismissed"
<1>1. NoWave \in Entry
  BY DEF NoWave, Entry, Paid
<1>2. \A e \in Entry : [e EXCEPT !.phase = "dismissed"] \in Entry
                         /\ [e EXCEPT !.phase = "dismissed"].phase = "dismissed"
  BY DEF Entry
<1> QED
  BY <1>1, <1>2 DEF Gone

\* A wave pushed away hears nothing more.
LEMMA LeadsAway ==
  ASSUME NEW w \in Wave, NEW s \in Seq(Report), NEW e, NEW d, Leads(w, s, e, d), e.phase # "none"
  PROVE  Leads(w, s, Gone, Gone)
<1> DEFINE n == Len(s)
           g == [i \in 0 .. n |-> Gone]
<1>1. PICK f : Trace(w, s, f) /\ f[0] = e /\ f[n] = d
  BY DEF Leads
<1>2. n \in Nat /\ Gone \in Entry /\ Gone.phase = "dismissed" /\ ~Ready(Gone) /\ OwnSeat(w, Gone)
  BY GoneIs DEF Ready, OwnSeat
<1> HIDE DEF n
<1>3. g \in [0 .. n -> Entry] /\ \A i \in 0 .. n : g[i] = Gone
  BY <1>2
<1> HIDE DEF g
<1>4. ASSUME NEW i \in 1 .. n PROVE Allowed(w, s[i], g[i - 1]) /\ g[i] = Hear(w, s[i], g[i - 1])
  <2>1. i - 1 \in 0 .. n /\ i \in 0 .. n /\ 0 \in 0 .. n /\ 0 <= i - 1
    BY <1>2
  <2>2. f[i - 1].phase # "none" /\ Allowed(w, s[i], f[i - 1])
    BY <1>1, <2>1 DEF Trace, n
  <2>3. Allowed(w, s[i], Gone)
    BY <1>2, <2>2 DEF Allowed
  <2>4. Hear(w, s[i], Gone) = Gone
    BY <1>2 DEF Hear
  <2> QED
    BY <1>3, <2>1, <2>3, <2>4
<1>5. Trace(w, s, g)
  BY <1>2, <1>3, <1>4 DEF Trace, n
<1>6. g[0] = Gone /\ g[n] = Gone
  BY <1>2, <1>3
<1> QED
  BY <1>5, <1>6 DEF Leads, n

\* A message about other waves, or the wallet.
LEMMA HearOther ==
  ASSUME NEW w, NEW x, ~About(x, w)
  PROVE  /\ \A e : Hear(w, x, e) = e /\ Allowed(w, x, e)
         /\ x \in Report => ~Unpays(x, w) /\ ~Idles(x, w)
BY DEF About, Hear, Allowed, Unpays, Idles

-----------------------------------------------------------------------------
\* A wave told to be unpaid.

LEMMA UnpaidOn ==
  ASSUME NEW w, NEW s \in Seq(Report), NEW x \in Report, UnpaidEnds(w, s), ~Unpays(x, w)
  PROVE  UnpaidEnds(w, s \o <<x>>)
<1> DEFINE t == s \o <<x>>
           n == Len(s) + 1
<1>1. /\ DOMAIN t = DOMAIN s \cup {n} /\ t[n] = x /\ \A i \in DOMAIN s : t[i] = s[i]
  OBVIOUS
<1> HIDE DEF t, n
<1>2. UnpaidEnds(w, t)
  BY <1>1 DEF UnpaidEnds
<1> QED
  BY <1>2 DEF t

LEMMA UnpaidIdles ==
  ASSUME NEW w, NEW s \in Seq(Report), NEW x \in Report, Idles(x, w)
  PROVE  UnpaidEnds(w, s \o <<x>>)
<1> DEFINE t == s \o <<x>>
           n == Len(s) + 1
<1>1. /\ DOMAIN t = DOMAIN s \cup {n} /\ t[n] = x /\ \A i \in DOMAIN s : i < n
  OBVIOUS
<1>2. ~Unpays(x, w)
  BY DEF Unpays, Idles
<1> HIDE DEF t, n
<1>3. UnpaidEnds(w, t)
  BY <1>1, <1>2 DEF UnpaidEnds
<1> QED
  BY <1>3 DEF t

LEMMA UnpaidFrom ==
  ASSUME NEW w, NEW s \in Seq(Report), s # <<>>, UnpaidEnds(w, s)
  PROVE  /\ UnpaidEnds(w, Tail(s))
         /\ Unpays(Head(s), w) => \E j \in DOMAIN Tail(s) : Idles(Tail(s)[j], w)
<1> DEFINE t == Tail(s)
<1>1. /\ 1 \in DOMAIN s /\ s[1] = Head(s)
      /\ \A i \in DOMAIN t : i \in Nat /\ i >= 1 /\ i + 1 \in DOMAIN s /\ t[i] = s[i + 1]
      /\ \A j \in DOMAIN s : j > 1 => j \in Nat /\ j - 1 \in DOMAIN t /\ s[j] = t[j - 1]
  OBVIOUS
<1> HIDE DEF t
<1>2. UnpaidEnds(w, t)
  <2> SUFFICES ASSUME NEW i \in DOMAIN t, Unpays(t[i], w)
               PROVE  \E j \in DOMAIN t : j > i /\ Idles(t[j], w)
    BY DEF UnpaidEnds
  <2>1. PICK j \in DOMAIN s : j > i + 1 /\ Idles(s[j], w)
    BY <1>1 DEF UnpaidEnds
  <2>2. i \in Nat /\ i >= 1
    BY <1>1
  <2>3. j - 1 \in DOMAIN t /\ s[j] = t[j - 1] /\ j \in Nat
    BY <1>1, <2>1, <2>2
  <2>4. j - 1 > i
    BY <2>1, <2>2, <2>3
  <2> QED
    BY <2>1, <2>3, <2>4
<1>3. ASSUME Unpays(Head(s), w) PROVE \E j \in DOMAIN t : Idles(t[j], w)
  <2>1. PICK j \in DOMAIN s : j > 1 /\ Idles(s[j], w)
    BY <1>1, <1>3 DEF UnpaidEnds
  <2> QED
    BY <1>1, <2>1
<1> QED
  BY <1>2, <1>3 DEF t

-----------------------------------------------------------------------------
\* What the engine says of a wave agrees with what it does to it.

\* The message m about w may be sent while the engine's wave goes from x to y.
Says(w, x, m, y) ==
  \A d \in Entry : Agrees(w, d, x) => Allowed(w, m, d) /\ Agrees(w, Hear(w, m, d), y)

LEMMA SaidReaches ==
  ASSUME NEW w \in Wave, NEW s \in Seq(Report), NEW m \in Report, NEW e, NEW x, NEW y,
         Reaches(w, s, e, x), Says(w, x, m, y)
  PROVE  Reaches(w, s \o <<m>>, e, y)
<1>1. PICK d \in Entry : Leads(w, s, e, d) /\ Agrees(w, d, x)
  BY DEF Reaches
<1>2. Allowed(w, m, d) /\ Agrees(w, Hear(w, m, d), y)
  BY <1>1 DEF Says
<1>3. Leads(w, s \o <<m>>, e, Hear(w, m, d)) /\ Hear(w, m, d) \in Entry
  BY <1>1, <1>2, LeadsOn, HearIs
<1> QED
  BY <1>2, <1>3 DEF Reaches

LEMMA OtherReaches ==
  ASSUME NEW w \in Wave, NEW s \in Seq(Report), NEW m \in Report, NEW e, NEW x,
         Reaches(w, s, e, x), ~About(m, w)
  PROVE  Reaches(w, s \o <<m>>, e, x)
<1>1. Says(w, x, m, x)
  BY HearOther DEF Says
<1> QED
  BY <1>1, SaidReaches

\* An announce of a wave that was not open, and the waves for which that is one.
LEMMA SaysAnnounce ==
  ASSUME NEW w \in Wave, NEW x \in EngineWave, NEW y \in EngineWave, NEW m \in Report,
         m.ev = "wave-announce", m.wave = w, x.phase = "none", y.phase = "lobby",
         y.joined => m.joined, w = Mine => m.joined, y.paid = "pending" => m.paid # "verified"
  PROVE  Says(w, x, m, y)
<1> SUFFICES ASSUME NEW d \in Entry, Agrees(w, d, x)
             PROVE  Allowed(w, m, d) /\ Agrees(w, Hear(w, m, d), y)
  BY DEF Says
<1>1. d.phase \notin {"lobby", "racing"} /\ (w = Mine => d.phase = "none")
  BY DEF Agrees, PhaseAgrees, Entry
<1>2. Allowed(w, m, d)
  BY <1>1 DEF Allowed
<1>3. CASE d.phase = "dismissed"
  <2>1. Hear(w, m, d) = d
    BY <1>3 DEF Hear
  <2> QED
    BY <1>1, <1>2, <1>3, <2>1 DEF Agrees, PhaseAgrees
<1>4. CASE d.phase # "dismissed"
  <2> DEFINE h == Hear(w, m, d)
  <2>1. Hears(w, m, d)
    BY <1>4 DEF Hears, About
  <2> HIDE DEF h
  <2>2. h.phase = "lobby" /\ h.joined = m.joined /\ h.paid = m.paid
    BY <2>1, HearIs DEF h, Becomes, PhaseOf, SeatOf, PaidOf
  <2>3. Agrees(w, h, y)
    BY <2>2 DEF Agrees, PhaseAgrees
  <2> QED
    BY <1>2, <2>3 DEF h
<1> QED
  BY <1>3, <1>4

\* A message of an open lobby: the fee is paid, a seat is had or not, or nothing changes.
LEMMA SaysOfLobby ==
  ASSUME NEW w \in Wave, NEW x \in EngineWave, NEW y \in EngineWave, NEW m \in Report,
         m.ev \in {"wave-verified", "joined", "join-pending", "join-refused", "wave-unpaid"},
         m.wave = w, x.phase = "lobby", y.phase = "lobby",
         y.joined => x.joined \/ m.ev = "joined",
         y.paid = "pending" => x.paid = "pending" /\ m.ev # "wave-verified"
  PROVE  Says(w, x, m, y)
<1> SUFFICES ASSUME NEW d \in Entry, Agrees(w, d, x)
             PROVE  Allowed(w, m, d) /\ Agrees(w, Hear(w, m, d), y)
  BY DEF Says
<1>1. d.phase \in {"lobby", "dismissed"}
  BY DEF Agrees, PhaseAgrees, Entry
<1>2. Allowed(w, m, d)
  BY <1>1 DEF Allowed
<1>3. CASE d.phase = "dismissed"
  <2>1. Hear(w, m, d) = d
    BY <1>3 DEF Hear
  <2> QED
    BY <1>2, <1>3, <2>1 DEF Agrees, PhaseAgrees
<1>4. CASE d.phase = "lobby"
  <2> DEFINE h == Hear(w, m, d)
  <2>1. Hears(w, m, d)
    BY <1>4 DEF Hears, About
  <2> HIDE DEF h
  <2>2. h.phase = "lobby" /\ h.joined = SeatOf(m, d) /\ h.paid = PaidOf(m, d)
    BY <1>4, <2>1, HearIs DEF h, Becomes, PhaseOf
  <2>3. Agrees(w, h, y)
    BY <1>4, <2>2 DEF Agrees, PhaseAgrees, SeatOf, PaidOf
  <2> QED
    BY <1>2, <2>3 DEF h
<1> QED
  BY <1>1, <1>3, <1>4

\* The sweep begins.
LEMMA SaysActive ==
  ASSUME NEW w \in Wave, NEW x \in EngineWave, NEW y \in EngineWave, NEW m \in Report,
         m.ev = "wave-active", m.wave = w, y.phase = "racing",
         x.phase = "lobby" \/ (x.phase = "none" /\ w # Mine)
  PROVE  Says(w, x, m, y)
<1> SUFFICES ASSUME NEW d \in Entry, Agrees(w, d, x)
             PROVE  Allowed(w, m, d) /\ Agrees(w, Hear(w, m, d), y)
  BY DEF Says
<1>1. Allowed(w, m, d)
  BY DEF Allowed
<1>2. CASE ~Hears(w, m, d)
  <2>1. Hear(w, m, d) = d /\ d.phase \in {"none", "dismissed"}
    BY <1>2, HearIs DEF Hears, About
  <2> QED
    BY <1>1, <2>1 DEF Agrees, PhaseAgrees
<1>3. CASE Hears(w, m, d)
  <2> DEFINE h == Hear(w, m, d)
  <2> HIDE DEF h
  <2>1. h.phase = "racing"
    BY <1>3, HearIs DEF h, Becomes, PhaseOf
  <2>2. Agrees(w, h, y)
    BY <2>1 DEF Agrees, PhaseAgrees
  <2> QED
    BY <1>1, <2>2 DEF h
<1> QED
  BY <1>2, <1>3

\* The wave is over, or its lobby gone until it comes back.
LEMMA SaysIdle ==
  ASSUME NEW w \in Wave, NEW x \in EngineWave, NEW y \in EngineWave, NEW m \in Report,
         m.ev = "wave-idle", m.wave = w, x.phase \in {"lobby", "racing"},
         y.phase = "over" \/ (y.phase = "none" /\ w # Mine)
  PROVE  Says(w, x, m, y)
<1> SUFFICES ASSUME NEW d \in Entry, Agrees(w, d, x)
             PROVE  Allowed(w, m, d) /\ Agrees(w, Hear(w, m, d), y)
  BY DEF Says
<1>1. Allowed(w, m, d)
  BY DEF Allowed
<1>2. CASE ~Hears(w, m, d)
  <2>1. Hear(w, m, d) = d /\ d.phase \in {"none", "dismissed"}
    BY <1>2, HearIs DEF Hears, About
  <2> QED
    BY <1>1, <2>1 DEF Agrees, PhaseAgrees
<1>3. CASE Hears(w, m, d)
  <2> DEFINE h == Hear(w, m, d)
  <2> HIDE DEF h
  <2>1. h.phase = "ended"
    BY <1>3, HearIs DEF h, Becomes, PhaseOf
  <2>2. Agrees(w, h, y)
    BY <2>1 DEF Agrees, PhaseAgrees
  <2> QED
    BY <1>1, <2>2 DEF h
<1> QED
  BY <1>2, <1>3

-----------------------------------------------------------------------------
\* The steps of the engine.

\* Nothing is said or heard.
LEMMA StillTold ==
  ASSUME ToldInv, UNCHANGED <<eng, msgs, dir>>
  PROVE  ToldInv'
BY DEF ToldInv, Told

LEMMA TypeIs ==
  ASSUME TypeOK
  PROVE  /\ eng \in [Wave -> EngineWave] /\ dir \in [Wave -> Entry]
         /\ msgs \in Seq(Report) /\ cmds \in Seq(Order)
BY DEF TypeOK, EngineWave, Entry

\* What is on its way stays on its way when more is sent.
LEMMA PendingOn ==
  ASSUME NEW w, NEW S, NEW s \in Seq(S), NEW x \in S
  PROVE  /\ PendingIn(w, s) => PendingIn(w, s \o <<x>>)
         /\ Answers(w, x) => PendingIn(w, s \o <<x>>)
         /\ JoiningIn(w, s) => JoiningIn(w, s \o <<x>>)
         /\ x = Cmd("join", w) => JoiningIn(w, s \o <<x>>)
<1> DEFINE t == s \o <<x>>
           n == Len(s) + 1
<1>1. n \in DOMAIN t /\ t[n] = x /\ \A i \in DOMAIN s : i \in DOMAIN t /\ t[i] = s[i]
  OBVIOUS
<1> HIDE DEF t, n
<1>2. /\ PendingIn(w, s) => PendingIn(w, t)
      /\ Answers(w, x) => PendingIn(w, t)
  BY <1>1 DEF PendingIn
<1>3. /\ JoiningIn(w, s) => JoiningIn(w, t)
      /\ x = Cmd("join", w) => JoiningIn(w, t)
  BY <1>1 DEF JoiningIn
<1> QED
  BY <1>2, <1>3 DEF t

\* The desktop has heard nothing.
Hushed == Unheard /\ UNCHANGED <<ask, sent, waived, missed>>

LEMMA QuietIs ==
  ASSUME Quiet
  PROVE  Hushed /\ UNCHANGED <<fees, stranded, dir, active>>
BY DEF Quiet, Hushed, Unheard, ghosts

\* Of the panels, only what a lobby waits for depends on the queues.
LEMMA QuietKeeps ==
  ASSUME IInv, TypeOK', ToldInv', Hushed,
         Pending(active) => Pending(active)',
         active # None /\ Ready(dir[active]) /\ Joining(active) =>
           Joining(active)' \/ Pending(active)'
  PROVE  IInv'
<1>1. UNCHANGED <<dir, active, panel, ask, sent, lapsed>>
  BY DEF Hushed, Unheard, lapsed
<1>2. CentreInv'
  BY <1>1 DEF IInv, CentreInv, Shows
<1>3. AskInv'
  BY <1>1 DEF IInv, AskInv
<1>4. LobbyInv'
  <2> SUFFICES ASSUME active # None, dir[active].phase = "lobby"
               PROVE  SeatAsks(active)' /\ JoinAsks(active)'
    BY <1>1 DEF LobbyInv
  <2>1. SeatAsks(active) /\ JoinAsks(active)
    BY DEF IInv, LobbyInv
  <2>2. SeatAsks(active)'
    BY <1>1, <2>1 DEF SeatAsks
  <2>3. JoinAsks(active)'
    <3> SUFFICES ASSUME ~dir[active].joined
                 PROVE  /\ Enabled(panel) => dir[active].paid = "verified"
                        /\ active \notin lapsed =>
                             \/ Offers(panel, dir[active]) \/ Pending(active)'
                             \/ (panel.lobby = "in" /\ Joining(active)')
      BY <1>1 DEF JoinAsks
    <3>1. /\ Enabled(panel) => dir[active].paid = "verified"
          /\ active \notin lapsed =>
               \/ Offers(panel, dir[active]) \/ Pending(active)
               \/ (panel.lobby = "in" /\ Joining(active))
      BY <2>1 DEF JoinAsks
    <3>2. panel.lobby = "in" => Ready(dir[active])
      BY <3>1 DEF Enabled, Ready
    <3> QED
      BY <3>1, <3>2
  <2> QED
    BY <2>2, <2>3
<1> QED
  BY <1>2, <1>3, <1>4 DEF IInv

\* The engine says m of the wave w.
LEMMA SpeaksTold ==
  ASSUME ToldInv, TypeOK, NEW w \in Wave, NEW m \in Report, About(m, w), UNCHANGED dir,
         msgs' = msgs \o <<m>>, \A v \in Wave : v # w => eng'[v] = eng[v],
         Says(w, eng[w], m, eng'[w]), ~Unpays(m, w)
  PROVE  ToldInv'
<1> SUFFICES ASSUME NEW v \in Wave PROVE Told(v)'
  BY DEF ToldInv
<1>1. msgs \in Seq(Report)
  BY TypeIs
<1>2. Reaches(v, msgs, dir[v], eng[v]) /\ UnpaidEnds(v, msgs)
  BY DEF ToldInv, Told
<1>3. CASE v = w
  <2>1. Reaches(v, msgs \o <<m>>, dir[v], eng'[v])
    BY <1>1, <1>2, <1>3, SaidReaches
  <2>2. UnpaidEnds(v, msgs \o <<m>>)
    BY <1>1, <1>2, <1>3, UnpaidOn
  <2> QED
    BY <2>1, <2>2 DEF Told
<1>4. CASE v # w
  <2>1. ~About(m, v) /\ eng'[v] = eng[v]
    BY <1>4 DEF About
  <2>2. Reaches(v, msgs \o <<m>>, dir[v], eng'[v])
    BY <1>1, <1>2, <2>1, OtherReaches
  <2>3. ~Unpays(m, v)
    BY <1>4 DEF About, Unpays
  <2>4. UnpaidEnds(v, msgs \o <<m>>)
    BY <1>1, <1>2, <2>3, UnpaidOn
  <2> QED
    BY <2>2, <2>4 DEF Told
<1> QED
  BY <1>3, <1>4

LEMMA SpeaksKeeps ==
  ASSUME IInv, TypeOK', NEW w \in Wave, NEW m \in Report, About(m, w), Quiet, UNCHANGED cmds,
         msgs' = msgs \o <<m>>, \A v \in Wave : v # w => eng'[v] = eng[v],
         Says(w, eng[w], m, eng'[w]), ~Unpays(m, w)
  PROVE  IInv'
<1>1. ToldInv'
  BY SpeaksTold, QuietIs DEF IInv
<1>2. Pending(active) => Pending(active)'
  <2>1. PICK a : a = active
    OBVIOUS
  <2>2. PendingIn(a, msgs) => PendingIn(a, msgs \o <<m>>)
    BY TypeIs, PendingOn DEF IInv
  <2> QED
    BY <2>1, <2>2 DEF Quiet, Unheard, Pending
<1>3. Joining(active) => Joining(active)'
  BY QuietIs DEF Joining
<1> QED
  BY <1>1, <1>2, <1>3, QuietIs, QuietKeeps

LEMMA EventIs ==
  ASSUME NEW w \in Wave, eng' \in [Wave -> EngineWave], NEW ev \in WaveEvent
  PROVE  /\ Event(ev, w) \in Report /\ Event(ev, w).ev = ev /\ Event(ev, w).wave = w
         /\ Event(ev, w).joined = eng'[w].joined /\ Event(ev, w).paid = eng'[w].paid
         /\ About(Event(ev, w), w)
<1>1. eng'[w].joined \in BOOLEAN /\ eng'[w].paid \in Paid
  BY DEF EngineWave
<1>2. ev # "wallet"
  BY DEF WaveEvent
<1> QED
  BY <1>1, <1>2 DEF Event, Report, About

\* Types, of a step of the engine.
LEMMA EngineType ==
  ASSUME TypeOK, Hushed, eng' \in [Wave -> EngineWave], msgs' \in Seq(Report),
         cmds' \in Seq(Order), revived' \in SUBSET Wave, fees' \in SUBSET FeeOrder,
         stranded' \in SUBSET Wave
  PROVE  TypeOK'
BY DEF TypeOK, Hushed, Unheard, EngineWave, FeeOrder

\* Types, of what the engine does by itself.
LEMMA QuietType ==
  ASSUME TypeOK, Quiet, eng' \in [Wave -> EngineWave], msgs' \in Seq(Report),
         cmds' \in Seq(Order), revived' \in SUBSET Wave
  PROVE  TypeOK'
<1>1. Hushed /\ fees' = fees /\ stranded' = stranded
  BY QuietIs
<1>2. fees' \in SUBSET FeeOrder /\ stranded' \in SUBSET Wave
  BY <1>1 DEF TypeOK, FeeOrder
<1> QED
  BY <1>1, <1>2, EngineType

LEMMA AnnouncedKeeps == \A w \in Wave : IInv /\ Announced(w) => IInv'
<1> SUFFICES ASSUME NEW w \in Wave, IInv, Announced(w) PROVE IInv'
  OBVIOUS
<1>1. TypeOK /\ eng \in [Wave -> EngineWave] /\ msgs \in Seq(Report) /\ cmds \in Seq(Order)
  BY TypeIs DEF IInv
<1>2. PICK paid \in {"pending", "verified"} : Lobby(w, paid)
  BY DEF Announced
<1>3. /\ eng' \in [Wave -> EngineWave] /\ \A v \in Wave : v # w => eng'[v] = eng[v]
      /\ eng'[w].phase = "lobby" /\ eng'[w].joined = eng[w].joined /\ eng'[w].paid = paid
  BY <1>1, <1>2 DEF Lobby, EngineWave, Paid
<1>4. PICK m : m = Event("wave-announce", w)
  OBVIOUS
<1>5. /\ m \in Report /\ m.ev = "wave-announce" /\ m.wave = w /\ m.joined = eng'[w].joined
      /\ m.paid = eng'[w].paid /\ About(m, w)
  BY <1>3, <1>4, EventIs DEF WaveEvent
<1>6. msgs' = msgs \o <<m>> /\ Quiet /\ UNCHANGED <<revived, cmds>>
  BY <1>4 DEF Announced, Emit
<1>7. TypeOK'
  BY <1>1, <1>3, <1>5, <1>6, QuietType DEF TypeOK
<1>8. eng[w] \in EngineWave /\ eng'[w] \in EngineWave /\ eng[w].phase = "none" /\ w # Mine
  BY <1>1, <1>3 DEF Announced
<1>9. Says(w, eng[w], m, eng'[w])
  BY <1>5, <1>8, <1>3, SaysAnnounce
<1>10. ~Unpays(m, w)
  BY <1>5 DEF Unpays
<1> QED
  BY <1>3, <1>5, <1>6, <1>7, <1>9, <1>10, SpeaksKeeps

LEMMA VerifiedKeeps == \A w \in Wave : IInv /\ Verified(w) => IInv'
<1> SUFFICES ASSUME NEW w \in Wave, IInv, Verified(w) PROVE IInv'
  OBVIOUS
<1>1. TypeOK /\ eng \in [Wave -> EngineWave] /\ msgs \in Seq(Report) /\ cmds \in Seq(Order)
  BY TypeIs DEF IInv
<1>2. /\ eng' \in [Wave -> EngineWave] /\ \A v \in Wave : v # w => eng'[v] = eng[v]
      /\ eng'[w].phase = "lobby" /\ eng'[w].joined = eng[w].joined /\ eng'[w].paid = "verified"
  BY <1>1 DEF Verified, EngineWave, Paid
<1>3. PICK m : m = Event("wave-verified", w)
  OBVIOUS
<1>4. m \in Report /\ m.ev = "wave-verified" /\ m.wave = w /\ About(m, w)
  BY <1>2, <1>3, EventIs DEF WaveEvent
<1>5. msgs' = msgs \o <<m>> /\ Quiet /\ UNCHANGED <<revived, cmds>>
  BY <1>3 DEF Verified, Emit
<1>6. TypeOK'
  BY <1>1, <1>2, <1>4, <1>5, QuietType DEF TypeOK
<1>7. eng[w] \in EngineWave /\ eng'[w] \in EngineWave /\ eng[w].phase = "lobby"
  BY <1>1, <1>2 DEF Verified
<1>8. Says(w, eng[w], m, eng'[w])
  BY <1>2, <1>4, <1>7, SaysOfLobby
<1>9. ~Unpays(m, w)
  BY <1>4 DEF Unpays
<1> QED
  BY <1>2, <1>4, <1>5, <1>6, <1>8, <1>9, SpeaksKeeps

LEMMA GoIdleKeeps == \A w \in Wave : IInv /\ GoIdle(w) => IInv'
<1> SUFFICES ASSUME NEW w \in Wave, IInv, GoIdle(w) PROVE IInv'
  OBVIOUS
<1>1. TypeOK /\ eng \in [Wave -> EngineWave] /\ msgs \in Seq(Report) /\ cmds \in Seq(Order)
  BY TypeIs DEF IInv
<1>2. /\ eng' \in [Wave -> EngineWave] /\ \A v \in Wave : v # w => eng'[v] = eng[v]
      /\ eng[w].phase \in {"lobby", "racing"} /\ revived' \in SUBSET Wave
      /\ eng'[w].phase = "over" \/ (eng'[w].phase = "none" /\ w # Mine)
  <2>1. CASE /\ eng[w].phase = "racing"
             /\ eng' = [eng EXCEPT ![w].phase = "over", ![w].joined = FALSE]
             /\ UNCHANGED revived
    BY <1>1, <2>1 DEF EngineWave, TypeOK
  <2>2. CASE /\ eng[w].phase = "lobby" /\ w # Mine
             /\ eng' = [eng EXCEPT ![w].phase = "none"]
             /\ revived' = revived \cup {w}
    BY <1>1, <2>2 DEF EngineWave, TypeOK
  <2> QED
    BY <2>1, <2>2 DEF GoIdle
<1>3. PICK m : m = Event("wave-idle", w)
  OBVIOUS
<1>4. m \in Report /\ m.ev = "wave-idle" /\ m.wave = w /\ About(m, w)
  BY <1>2, <1>3, EventIs DEF WaveEvent
<1>5. msgs' = msgs \o <<m>> /\ Quiet /\ UNCHANGED cmds
  BY <1>3 DEF GoIdle, Emit
<1>6. TypeOK'
  BY <1>1, <1>2, <1>4, <1>5, QuietType
<1>7. eng[w] \in EngineWave /\ eng'[w] \in EngineWave
  BY <1>1, <1>2
<1>8. Says(w, eng[w], m, eng'[w])
  BY <1>2, <1>4, <1>7, SaysIdle
<1>9. ~Unpays(m, w)
  BY <1>4 DEF Unpays
<1> QED
  BY <1>2, <1>4, <1>5, <1>6, <1>8, <1>9, SpeaksKeeps

LEMMA MintKeeps == \A n \in Network : IInv /\ MintSwitched(n) => IInv'
<1> SUFFICES ASSUME NEW n \in Network, IInv, MintSwitched(n) PROVE IInv'
  OBVIOUS
<1>1. TypeOK /\ eng \in [Wave -> EngineWave] /\ msgs \in Seq(Report) /\ cmds \in Seq(Order)
  BY TypeIs DEF IInv
<1>2. PICK m : m = [ev |-> "wallet", wave |-> n, joined |-> FALSE, paid |-> "none"]
  OBVIOUS
<1>3. m \in Report /\ m.ev = "wallet"
  BY <1>2 DEF Report
<1>4. msgs' = msgs \o <<m>> /\ Quiet /\ UNCHANGED <<eng, revived, cmds>>
  BY <1>2 DEF MintSwitched, Emit, engVars
<1>5. TypeOK'
  BY <1>1, <1>3, <1>4, QuietType DEF TypeOK
<1>6. ToldInv'
  <2> SUFFICES ASSUME NEW v \in Wave PROVE Told(v)'
    BY DEF ToldInv
  <2>1. Reaches(v, msgs, dir[v], eng[v]) /\ UnpaidEnds(v, msgs)
    BY DEF IInv, ToldInv, Told
  <2>2. ~About(m, v) /\ ~Unpays(m, v)
    BY <1>3 DEF About, Unpays
  <2>3. Reaches(v, msgs \o <<m>>, dir[v], eng[v]) /\ UnpaidEnds(v, msgs \o <<m>>)
    BY <1>1, <1>3, <2>1, <2>2, OtherReaches, UnpaidOn
  <2> QED
    BY <1>4, <2>3 DEF Told, Quiet, Unheard
<1>7. Pending(active) => Pending(active)'
  <2>1. PICK a : a = active
    OBVIOUS
  <2>2. PendingIn(a, msgs) => PendingIn(a, msgs \o <<m>>)
    BY <1>1, <1>3, PendingOn
  <2> QED
    BY <1>4, <2>1, <2>2 DEF Quiet, Unheard, Pending
<1>8. Joining(active) => Joining(active)'
  BY <1>4, QuietIs DEF Joining
<1> QED
  BY <1>4, <1>5, <1>6, <1>7, <1>8, QuietIs, QuietKeeps

\* The engine says a of the wave w and then b, with x between.
LEMMA SpeaksTwiceKeeps ==
  ASSUME IInv, TypeOK', NEW w \in Wave, NEW a \in Report, About(a, w), NEW b \in Report,
         About(b, w), Quiet, UNCHANGED cmds, msgs' = (msgs \o <<a>>) \o <<b>>,
         \A v \in Wave : v # w => eng'[v] = eng[v],
         NEW x, Says(w, eng[w], a, x), Says(w, x, b, eng'[w]),
         (~Unpays(a, w) /\ ~Unpays(b, w)) \/ Idles(b, w)
  PROVE  IInv'
<1> DEFINE s == msgs \o <<a>>
<1>1. msgs \in Seq(Report) /\ s \in Seq(Report)
  BY TypeIs DEF IInv
<1>2. ToldInv'
  <2> SUFFICES ASSUME NEW v \in Wave PROVE Told(v)'
    BY DEF ToldInv
  <2>1. Reaches(v, msgs, dir[v], eng[v]) /\ UnpaidEnds(v, msgs)
    BY DEF IInv, ToldInv, Told
  <2>2. CASE v = w
    <3>1. Reaches(v, s, dir[v], x)
      BY <1>1, <2>1, <2>2, SaidReaches
    <3> HIDE DEF s
    <3>2. Reaches(v, s \o <<b>>, dir[v], eng'[v])
      BY <1>1, <2>2, <3>1, SaidReaches
    <3>3. ASSUME ~Unpays(a, w), ~Unpays(b, w) PROVE UnpaidEnds(v, s \o <<b>>)
      <4>1. UnpaidEnds(v, s)
        BY <1>1, <2>1, <2>2, <3>3, UnpaidOn DEF s
      <4> QED
        BY <1>1, <2>2, <3>3, <4>1, UnpaidOn
    <3>4. ASSUME Idles(b, w) PROVE UnpaidEnds(v, s \o <<b>>)
      BY <1>1, <2>2, <3>4, UnpaidIdles
    <3> QED
      BY <3>2, <3>3, <3>4 DEF Told, Quiet, Unheard, s
  <2>3. CASE v # w
    <3>1. ~About(a, v) /\ ~About(b, v) /\ ~Unpays(a, v) /\ ~Unpays(b, v) /\ eng'[v] = eng[v]
      BY <2>3 DEF About, Unpays
    <3>2. Reaches(v, s, dir[v], eng[v]) /\ UnpaidEnds(v, s)
      BY <1>1, <2>1, <3>1, OtherReaches, UnpaidOn
    <3> HIDE DEF s
    <3>3. Reaches(v, s \o <<b>>, dir[v], eng[v]) /\ UnpaidEnds(v, s \o <<b>>)
      BY <1>1, <3>1, <3>2, OtherReaches, UnpaidOn
    <3> QED
      BY <3>1, <3>3 DEF Told, Quiet, Unheard, s
  <2> QED
    BY <2>2, <2>3
<1>3. Pending(active) => Pending(active)'
  <2>1. PICK c : c = active
    OBVIOUS
  <2>2. PendingIn(c, msgs) => PendingIn(c, s)
    BY <1>1, PendingOn
  <2> HIDE DEF s
  <2>3. PendingIn(c, s) => PendingIn(c, s \o <<b>>)
    BY <1>1, PendingOn
  <2> QED
    BY <2>1, <2>2, <2>3 DEF Quiet, Unheard, Pending, s
<1>4. Joining(active) => Joining(active)'
  BY QuietIs DEF Joining
<1> QED
  BY <1>2, <1>3, <1>4, QuietIs, QuietKeeps

LEMMA TwoMessages ==
  ASSUME NEW s \in Seq(Report), NEW a \in Report, NEW b \in Report
  PROVE  /\ s \o <<a, b>> = (s \o <<a>>) \o <<b>>
         /\ s \o (<<a>> \o <<b>>) = (s \o <<a>>) \o <<b>>
         /\ (s \o <<a>>) \o <<b>> \in Seq(Report)
<1> DEFINE t == <<a>> \o <<b>>
           u == <<a, b>>
<1>1. <<a>> \in Seq(Report) /\ <<b>> \in Seq(Report)
  OBVIOUS
<1>2. t \in Seq(Report) /\ Len(t) = 2 /\ t[1] = a /\ t[2] = b
  OBVIOUS
<1>3. u \in Seq(Report) /\ Len(u) = 2 /\ u[1] = a /\ u[2] = b
  OBVIOUS
<1> HIDE DEF t, u
<1>4. \A i \in 1 .. 2 : t[i] = u[i]
  BY <1>2, <1>3
<1>5. t = u
  BY <1>2, <1>3, <1>4, SeqEqual
<1>6. s \o u = s \o t
  BY <1>5
<1> USE DEF t, u
<1>7. s \o (<<a>> \o <<b>>) = (s \o <<a>>) \o <<b>>
  BY <1>1, ConcatAssociative
<1>8. s \o <<a>> \in Seq(Report)
  OBVIOUS
<1>9. (s \o <<a>>) \o <<b>> \in Seq(Report)
  BY <1>1, <1>8, ConcatProperties
<1> QED
  BY <1>7, <1>6, <1>9, Zenon

LEMMA UnpaidKeeps == \A w \in Wave : IInv /\ Unpaid(w) => IInv'
<1> SUFFICES ASSUME NEW w \in Wave, IInv, Unpaid(w) PROVE IInv'
  OBVIOUS
<1>1. TypeOK /\ eng \in [Wave -> EngineWave] /\ msgs \in Seq(Report) /\ cmds \in Seq(Order)
  BY TypeIs DEF IInv
<1>2. /\ eng' \in [Wave -> EngineWave] /\ \A v \in Wave : v # w => eng'[v] = eng[v]
      /\ eng[w].phase = "lobby" /\ eng[w].paid = "pending" /\ eng'[w].phase = "over"
  BY <1>1 DEF Unpaid, EngineWave
<1>3. PICK a, b : a = Event("wave-unpaid", w) /\ b = Event("wave-idle", w)
  OBVIOUS
<1>4. /\ a \in Report /\ a.ev = "wave-unpaid" /\ a.wave = w /\ About(a, w)
      /\ b \in Report /\ b.ev = "wave-idle" /\ b.wave = w /\ About(b, w)
  BY <1>2, <1>3, EventIs DEF WaveEvent
<1>5. Quiet /\ UNCHANGED <<revived, cmds>>
  BY DEF Unpaid
<1>6. eng[w] \in EngineWave /\ eng'[w] \in EngineWave
  BY <1>1, <1>2
<1>7. Says(w, eng[w], a, eng[w])
  BY <1>2, <1>4, <1>6, SaysOfLobby
<1>8. Says(w, eng[w], b, eng'[w])
  BY <1>2, <1>4, <1>6, SaysIdle
<1>9. CASE w = Mine
  <2>1. msgs' = msgs \o <<b>>
    <3>1. msgs' = msgs \o (<<>> \o <<b>>) /\ <<>> \o <<b>> = <<b>>
      BY <1>3, <1>9 DEF Unpaid, Emit
    <3> QED
      BY <3>1
  <2>2. TypeOK'
    BY <1>1, <1>2, <1>4, <1>5, <2>1, QuietType DEF TypeOK
  <2>3. ~Unpays(b, w)
    BY <1>4 DEF Unpays
  <2> QED
    BY <1>2, <1>4, <1>5, <1>8, <2>1, <2>2, <2>3, SpeaksKeeps
<1>10. CASE w # Mine
  <2>1. msgs' = msgs \o (<<a>> \o <<b>>)
    BY <1>3, <1>10 DEF Unpaid, Emit
  <2>2. msgs' = (msgs \o <<a>>) \o <<b>> /\ msgs' \in Seq(Report)
    BY <1>1, <1>4, <2>1, TwoMessages
  <2>3. TypeOK'
    BY <1>1, <1>2, <1>5, <2>2, QuietType DEF TypeOK
  <2>4. Idles(b, w)
    BY <1>4 DEF Idles
  <2> QED
    BY <1>2, <1>4, <1>5, <1>7, <1>8, <2>2, <2>3, <2>4, SpeaksTwiceKeeps
<1> QED
  BY <1>9, <1>10

LEMMA RacesKeeps == \A w \in Wave : IInv /\ Races(w) => IInv'
<1> SUFFICES ASSUME NEW w \in Wave, IInv, Races(w) PROVE IInv'
  OBVIOUS
<1>1. TypeOK /\ eng \in [Wave -> EngineWave] /\ msgs \in Seq(Report) /\ cmds \in Seq(Order)
  BY TypeIs DEF IInv
<1>2. /\ eng' \in [Wave -> EngineWave] /\ \A v \in Wave : v # w => eng'[v] = eng[v]
      /\ eng'[w].phase = "racing" /\ eng'[w].joined = eng[w].joined
      /\ eng[w].phase = "lobby" \/ (eng[w].phase = "none" /\ w # Mine)
  BY <1>1 DEF Races, EngineWave
<1>3. PICK p, b : p = Event("wave-announce", w) /\ b = Event("wave-active", w)
  OBVIOUS
<1>4. /\ p \in Report /\ p.ev = "wave-announce" /\ p.wave = w /\ p.joined = eng'[w].joined
      /\ b \in Report /\ b.ev = "wave-active" /\ b.wave = w /\ About(b, w)
  BY <1>2, <1>3, EventIs DEF WaveEvent
<1>5. Quiet /\ UNCHANGED <<revived, cmds>>
  BY DEF Races
<1>6. eng[w] \in EngineWave /\ eng'[w] \in EngineWave
  BY <1>1, <1>2
<1>7. ~Unpays(b, w)
  BY <1>4 DEF Unpays
<1>8. CASE msgs' = msgs \o <<b>>
  <2>1. TypeOK'
    BY <1>1, <1>2, <1>4, <1>5, <1>8, QuietType DEF TypeOK
  <2>2. Says(w, eng[w], b, eng'[w])
    BY <1>2, <1>4, <1>6, SaysActive
  <2> QED
    BY <1>2, <1>4, <1>5, <1>7, <1>8, <2>1, <2>2, SpeaksKeeps
<1>9. CASE eng[w].phase = "none" /\ msgs' = msgs \o <<[p EXCEPT !.paid = "pending"], b>>
  <2>1. PICK a : a = [p EXCEPT !.paid = "pending"]
    OBVIOUS
  <2>2. a \in Report /\ a.ev = "wave-announce" /\ a.wave = w /\ a.joined = p.joined
        /\ a.paid = "pending" /\ About(a, w)
    BY <1>4, <2>1 DEF Report, WaveEvent, Paid, About
  <2>3. msgs' = (msgs \o <<a>>) \o <<b>> /\ msgs' \in Seq(Report)
    BY <1>1, <1>4, <1>9, <2>1, <2>2, TwoMessages
  <2>4. TypeOK'
    BY <1>1, <1>2, <1>5, <2>3, QuietType DEF TypeOK
  <2>5. PICK x : x = [phase |-> "lobby", joined |-> eng[w].joined, paid |-> "pending"]
    OBVIOUS
  <2>6. x \in EngineWave /\ x.phase = "lobby" /\ x.joined = eng[w].joined
    BY <1>6, <2>5 DEF EngineWave, Paid
  <2>7. Says(w, eng[w], a, x)
    BY <1>2, <1>4, <1>6, <1>9, <2>2, <2>6, SaysAnnounce
  <2>8. Says(w, x, b, eng'[w])
    BY <1>2, <1>4, <1>6, <2>6, SaysActive
  <2>9. ~Unpays(a, w)
    BY <2>2 DEF Unpays
  <2> QED
    BY <1>2, <1>4, <1>5, <1>7, <2>2, <2>3, <2>4, <2>7, <2>8, <2>9, SpeaksTwiceKeeps
<1> QED
  BY <1>3, <1>8, <1>9 DEF Races, Emit

\* A lobby that cannot be joined, though it is shown so, is about to change.
LEMMA NotReady ==
  ASSUME TypeOK, ToldInv, NEW w \in Wave, Ready(dir[w]),
         eng[w].phase # "lobby" \/ eng[w].joined \/ eng[w].paid = "pending"
  PROVE  Pending(w)
<1>1. msgs \in Seq(Report)
  BY TypeIs
<1>2. PICK d \in Entry : Leads(w, msgs, dir[w], d) /\ Agrees(w, d, eng[w])
  BY DEF ToldInv, Told, Reaches
<1>3. ~Ready(d)
  BY <1>2 DEF Ready, Agrees, PhaseAgrees
<1>4. \E k \in DOMAIN msgs : Moves(w, msgs[k])
  BY <1>1, <1>2, <1>3, LeadsTells
<1> QED
  BY <1>4 DEF Pending, PendingIn, Answers

\* The command at the head is taken.
LEMMA JoiningFrom ==
  ASSUME NEW w, NEW s \in Seq(Order), s # <<>>, JoiningIn(w, s)
  PROVE  Head(s) = Cmd("join", w) \/ JoiningIn(w, Tail(s))
<1> DEFINE t == Tail(s)
<1>1. /\ s[1] = Head(s)
      /\ \A i \in DOMAIN s : i = 1 \/ (i - 1 \in DOMAIN t /\ s[i] = t[i - 1])
  OBVIOUS
<1> HIDE DEF t
<1>2. Head(s) = Cmd("join", w) \/ JoiningIn(w, t)
  BY <1>1 DEF JoiningIn
<1> QED
  BY <1>2 DEF t

LEMMA HeadIs ==
  ASSUME TypeOK, cmds # <<>>, cmds' = Tail(cmds)
  PROVE  /\ Head(cmds) \in Order /\ cmds' \in Seq(Order)
         /\ Head(cmds).wave \in Wave /\ Head(cmds).cmd \in {"join", "start", "leave", "stage"}
<1>1. cmds \in Seq(Order)
  BY DEF TypeOK
<1>2. Head(cmds) \in Order /\ Tail(cmds) \in Seq(Order)
  BY <1>1
<1> QED
  BY <1>2 DEF Order

\* Exec takes the head of the queue: a seat may be lost, and a join waits for the wallet.
LEMMA ExecKeeps == IInv /\ Exec => IInv'
<1> SUFFICES ASSUME IInv, Exec PROVE IInv'
  OBVIOUS
<1>1. TypeOK /\ eng \in [Wave -> EngineWave] /\ msgs \in Seq(Report) /\ cmds \in Seq(Order)
      /\ ToldInv /\ revived \in SUBSET Wave /\ fees \in SUBSET FeeOrder /\ stranded \in SUBSET Wave
  BY TypeIs DEF IInv, TypeOK, FeeOrder
<1>2. cmds # <<>> /\ cmds' = Tail(cmds) /\ Hushed /\ UNCHANGED <<msgs, revived, stranded>>
  BY DEF Exec, Hushed, ghosts
<1>3. PICK c, w : c = Head(cmds) /\ w = c.wave
  OBVIOUS
<1>4. /\ c \in Order /\ w \in Wave /\ cmds' \in Seq(Order)
      /\ c.cmd \in {"join", "start", "leave", "stage"}
  BY <1>1, <1>2, <1>3, HeadIs
<1>5. /\ fees' = IF c.cmd \in Fee THEN fees \cup {c} ELSE fees
      /\ eng' = IF c.cmd = "leave" /\ eng[w].phase \in {"lobby", "racing"}
                THEN [eng EXCEPT ![w].joined = FALSE] ELSE eng
  BY <1>3 DEF Exec
<1>6. /\ eng' \in [Wave -> EngineWave]
      /\ \A v \in Wave : eng'[v].phase = eng[v].phase /\ eng'[v].paid = eng[v].paid
                         /\ (eng'[v].joined => eng[v].joined)
  BY <1>1, <1>4, <1>5 DEF EngineWave
<1>7. c.cmd \in Fee => c \in FeeOrder
  BY <1>4 DEF Order, FeeOrder
<1>8. fees' \in SUBSET FeeOrder
  BY <1>1, <1>5, <1>7
<1>9. TypeOK'
  BY <1>1, <1>2, <1>4, <1>6, <1>8, EngineType
<1>10. \A v \in Wave : \A d \in Entry : Agrees(v, d, eng[v]) => Agrees(v, d, eng'[v])
  BY <1>6 DEF Agrees, PhaseAgrees
<1>11. ToldInv'
  <2> SUFFICES ASSUME NEW v \in Wave PROVE Told(v)'
    BY DEF ToldInv
  <2>1. PICK d \in Entry : Leads(v, msgs, dir[v], d) /\ Agrees(v, d, eng[v])
    BY <1>1 DEF ToldInv, Told, Reaches
  <2>2. UnpaidEnds(v, msgs)
    BY <1>1 DEF ToldInv, Told
  <2>3. Reaches(v, msgs, dir[v], eng'[v])
    BY <1>10, <2>1 DEF Reaches
  <2> QED
    BY <1>2, <2>2, <2>3 DEF Told, Hushed, Unheard
<1>12. Pending(active) => Pending(active)'
  BY <1>2 DEF Pending, Hushed, Unheard
<1>13. ASSUME Joining(active) PROVE Joining(active)'
  <2>1. PICK a : a = active
    OBVIOUS
  <2>2. CASE JoiningIn(a, cmds)
    <3>1. Head(cmds) = Cmd("join", a) \/ JoiningIn(a, Tail(cmds))
      BY <1>1, <1>2, <2>2, JoiningFrom
    <3>2. Head(cmds) = Cmd("join", a) => Cmd("join", a) \in fees'
      BY <1>3, <1>5 DEF Cmd, Fee
    <3> QED
      BY <1>2, <2>1, <3>1, <3>2 DEF Joining, Hushed, Unheard
  <2>3. CASE Cmd("join", a) \in fees \/ a \in stranded
    BY <1>2, <1>5, <2>1, <2>3 DEF Joining, Hushed, Unheard
  <2> QED
    BY <1>13, <2>1, <2>2, <2>3 DEF Joining
<1> QED
  BY <1>2, <1>9, <1>11, <1>12, <1>13, QuietKeeps

\* A command c whose balance was read.
Read(c) ==
  /\ c \in fees /\ c \in FeeOrder /\ c.wave \in Wave /\ fees' = fees \ {c} /\ Hushed
  /\ UNCHANGED <<cmds, revived>>

\* A join that waits goes on waiting, unless it is this command.
LEMMA ReadWaits ==
  ASSUME NEW c, Read(c), stranded \in SUBSET stranded', NEW w, w = c.wave, Joining(active)
  PROVE  Joining(active)' \/ (w = active /\ c.cmd = "join")
<1>1. CASE Cmd("join", active) \in fees
  <2>1. CASE Cmd("join", active) = c
    BY <2>1 DEF Cmd
  <2>2. CASE Cmd("join", active) # c
    <3>1. Cmd("join", active) \in fees'
      BY <1>1, <2>2 DEF Read
    <3> QED
      BY <3>1 DEF Joining, Read, Hushed, Unheard
  <2> QED
    BY <2>1, <2>2
<1>2. CASE JoiningIn(active, cmds) \/ active \in stranded
  BY <1>2 DEF Joining, Read, Hushed, Unheard
<1> QED
  BY <1>1, <1>2 DEF Joining

\* The command is carried out: the engine says m of w.
LEMMA ReadSays ==
  ASSUME IInv, TypeOK', NEW c, Read(c), NEW w \in Wave, c.wave = w, UNCHANGED stranded,
         NEW m \in Report, About(m, w), msgs' = msgs \o <<m>>,
         \A v \in Wave : v # w => eng'[v] = eng[v],
         Says(w, eng[w], m, eng'[w]), ~Unpays(m, w),
         c.cmd = "join" => Answers(w, m) \/ eng[w].paid = "pending"
  PROVE  IInv'
<1>1. ToldInv' /\ TypeOK /\ ToldInv /\ msgs \in Seq(Report) /\ UNCHANGED active
  BY SpeaksTold, TypeIs DEF IInv, Read, Hushed, Unheard
<1>2. PICK a : a = active
  OBVIOUS
<1>3. PendingIn(a, msgs) => PendingIn(a, msgs \o <<m>>)
  BY <1>1, PendingOn
<1>4. Pending(active) => Pending(active)'
  BY <1>1, <1>2, <1>3 DEF Pending
<1>5. ASSUME active # None, Ready(dir[active]), Joining(active)
      PROVE  Joining(active)' \/ Pending(active)'
  <2>1. Joining(active)' \/ (w = active /\ c.cmd = "join")
    BY <1>5, ReadWaits
  <2>2. CASE w = active /\ c.cmd = "join"
    <3>1. CASE Answers(w, m)
      <4>1. PendingIn(w, msgs \o <<m>>)
        BY <1>1, <3>1, PendingOn
      <4> QED
        BY <1>1, <2>2, <4>1 DEF Pending
    <3>2. CASE eng[w].paid = "pending"
      <4>1. Pending(w)
        BY <1>1, <1>5, <2>2, <3>2, NotReady
      <4> QED
        BY <1>4, <2>2, <4>1
    <3> QED
      BY <2>2, <3>1, <3>2
  <2> QED
    BY <2>1, <2>2
<1> QED
  BY <1>1, <1>4, <1>5, QuietKeeps DEF Read

\* Nothing is said: the lobby is gone or the seat taken, or the funds do not suffice.
LEMMA ReadSilent ==
  ASSUME IInv, TypeOK', NEW c, Read(c), UNCHANGED <<eng, msgs>>, stranded \in SUBSET stranded',
         c.cmd = "join" => \/ c.wave \in stranded'
                           \/ eng[c.wave].phase # "lobby" \/ eng[c.wave].joined
  PROVE  IInv'
<1>1. TypeOK /\ ToldInv /\ UNCHANGED <<active, dir>> /\ c.wave \in Wave
  BY DEF IInv, Read, Hushed, Unheard
<1>2. ToldInv'
  BY <1>1, StillTold
<1>3. Pending(active) => Pending(active)'
  BY <1>1 DEF Pending
<1>4. ASSUME active # None, Ready(dir[active]), Joining(active)
      PROVE  Joining(active)' \/ Pending(active)'
  <2>1. PICK w \in Wave : w = c.wave
    BY <1>1
  <2>2. Joining(active)' \/ (w = active /\ c.cmd = "join")
    BY <1>4, <2>1, ReadWaits
  <2>3. CASE w = active /\ c.cmd = "join"
    <3>1. CASE w \in stranded'
      BY <1>1, <2>3, <3>1 DEF Joining
    <3>2. CASE eng[w].phase # "lobby" \/ eng[w].joined
      <4>1. Pending(w)
        BY <1>1, <1>4, <2>3, <3>2, NotReady
      <4> QED
        BY <1>3, <2>3, <4>1
    <3> QED
      BY <2>1, <2>3, <3>1, <3>2
  <2> QED
    BY <2>2, <2>3
<1> QED
  BY <1>2, <1>3, <1>4, QuietKeeps DEF Read

\* join gives a seat, or says why there is none.
JoinSays(w, m) ==
  /\ eng[w].phase = "lobby" /\ ~eng[w].joined /\ msgs' = msgs \o <<m>>
  /\ \/ /\ eng[w].paid = "verified" /\ m = Event("joined", w)
        /\ eng' = [eng EXCEPT ![w].joined = TRUE]
     \/ eng[w].paid = "pending" /\ eng' = eng /\ m = Event("join-pending", w)
     \/ eng' = eng /\ m = Event("join-refused", w)

LEMMA JoinsIs ==
  ASSUME NEW w, Joins(w)
  PROVE  \/ \E m : JoinSays(w, m)
         \/ (eng[w].phase # "lobby" \/ eng[w].joined) /\ UNCHANGED <<eng, msgs>>
BY DEF Joins, JoinSays, Emit

LEMMA FundsReadIs ==
  ASSUME IInv, NEW c \in fees, FundsRead(c)
  PROVE  /\ Read(c) /\ c.cmd \in Fee
         /\ \/ c.cmd = "join" /\ Joins(c.wave) /\ UNCHANGED stranded
            \/ c.cmd = "start" /\ Starts(c.wave) /\ UNCHANGED stranded
            \/ /\ UNCHANGED <<eng, msgs>>
               /\ stranded' = IF c.cmd = "join" THEN stranded \cup {c.wave} ELSE stranded
<1>1. c \in FeeOrder /\ c.wave \in Wave /\ c.cmd \in Fee
  BY DEF IInv, TypeOK, FeeOrder
<1>2. Read(c)
  BY <1>1 DEF FundsRead, Read, Hushed
<1>3. c.cmd = "join" \/ c.cmd = "start"
  BY <1>1 DEF Fee
<1> QED
  BY <1>1, <1>2, <1>3 DEF FundsRead

LEMMA FundsReadKeeps == \A c \in fees : IInv /\ FundsRead(c) => IInv'
<1> SUFFICES ASSUME NEW c \in fees, IInv, FundsRead(c) PROVE IInv'
  OBVIOUS
<1>1. TypeOK /\ eng \in [Wave -> EngineWave] /\ msgs \in Seq(Report) /\ cmds \in Seq(Order)
      /\ revived \in SUBSET Wave /\ fees \in SUBSET FeeOrder /\ stranded \in SUBSET Wave
  BY TypeIs DEF IInv, TypeOK, FeeOrder
<1>2. Read(c)
  BY FundsReadIs
<1>3. PICK w \in Wave : w = c.wave
  BY <1>2 DEF Read
<1>4. eng[w] \in EngineWave
  BY <1>1
<1>5. ASSUME eng' \in [Wave -> EngineWave], msgs' \in Seq(Report), stranded' \in SUBSET Wave
      PROVE  TypeOK'
  BY <1>1, <1>2, <1>5, EngineType DEF Read
<1>6. CASE c.cmd = "join" /\ UNCHANGED stranded /\ \E m : JoinSays(w, m)
  <2>1. PICK m : JoinSays(w, m)
    BY <1>6
  <2>2. /\ eng' \in [Wave -> EngineWave] /\ \A v \in Wave : v # w => eng'[v] = eng[v]
        /\ eng'[w].phase = "lobby" /\ eng'[w].paid = eng[w].paid /\ eng[w].phase = "lobby"
    BY <1>1, <2>1 DEF JoinSays, EngineWave
  <2>3. /\ m \in Report /\ m.wave = w /\ About(m, w)
        /\ m.ev \in {"joined", "join-pending", "join-refused"}
        /\ eng'[w].joined => m.ev = "joined"
        /\ m.ev = "join-pending" => eng[w].paid = "pending"
    BY <1>4, <2>1, <2>2, EventIs DEF JoinSays, WaveEvent, EngineWave
  <2>4. msgs' = msgs \o <<m>>
    BY <2>1 DEF JoinSays
  <2>5. TypeOK'
    BY <1>1, <1>5, <1>6, <2>2, <2>3, <2>4
  <2>6. Says(w, eng[w], m, eng'[w])
    BY <1>4, <2>2, <2>3, SaysOfLobby
  <2>7. ~Unpays(m, w)
    BY <2>3 DEF Unpays
  <2>8. Answers(w, m) \/ eng[w].paid = "pending"
    BY <2>3 DEF Answers, Moves
  <2> QED
    BY <1>2, <1>3, <1>6, <2>2, <2>3, <2>4, <2>5, <2>6, <2>7, <2>8, ReadSays
<1>7. CASE c.cmd = "start" /\ UNCHANGED stranded /\ Starts(w)
  <2>1. PICK m : m = Event("wave-announce", w)
    OBVIOUS
  <2>2. /\ eng' \in [Wave -> EngineWave] /\ \A v \in Wave : v # w => eng'[v] = eng[v]
        /\ eng'[w].phase = "lobby" /\ eng'[w].joined /\ eng[w].phase = "none"
    BY <1>1, <1>7 DEF Starts, EngineWave, Paid
  <2>3. /\ m \in Report /\ m.ev = "wave-announce" /\ m.wave = w /\ About(m, w) /\ m.joined
        /\ m.paid = eng'[w].paid
    BY <2>1, <2>2, EventIs DEF WaveEvent
  <2>4. msgs' = msgs \o <<m>>
    BY <1>7, <2>1 DEF Starts, Emit
  <2>5. TypeOK'
    BY <1>1, <1>5, <1>7, <2>2, <2>3, <2>4
  <2>6. Says(w, eng[w], m, eng'[w])
    BY <1>4, <2>2, <2>3, SaysAnnounce
  <2>7. ~Unpays(m, w)
    BY <2>3 DEF Unpays
  <2> QED
    BY <1>2, <1>3, <1>7, <2>2, <2>3, <2>4, <2>5, <2>6, <2>7, ReadSays
<1>8. CASE c.cmd = "join" /\ UNCHANGED <<eng, msgs, stranded>>
           /\ (eng[w].phase # "lobby" \/ eng[w].joined)
  <2>1. TypeOK'
    BY <1>1, <1>5, <1>8
  <2> QED
    BY <1>2, <1>3, <1>8, <2>1, ReadSilent
<1>9. CASE /\ UNCHANGED <<eng, msgs>>
           /\ stranded' = IF c.cmd = "join" THEN stranded \cup {w} ELSE stranded
  <2>1. stranded' \in SUBSET Wave /\ stranded \in SUBSET stranded'
        /\ (c.cmd = "join" => w \in stranded')
    BY <1>1, <1>9
  <2>2. TypeOK'
    BY <1>1, <1>5, <1>9, <2>1
  <2> QED
    BY <1>2, <1>3, <1>9, <2>1, <2>2, ReadSilent
<1>10. \/ c.cmd = "join" /\ Joins(w) /\ UNCHANGED stranded
       \/ c.cmd = "start" /\ Starts(w) /\ UNCHANGED stranded
       \/ /\ UNCHANGED <<eng, msgs>>
          /\ stranded' = IF c.cmd = "join" THEN stranded \cup {w} ELSE stranded
  BY <1>3, FundsReadIs
<1>11. Joins(w) => \/ \E m : JoinSays(w, m)
                   \/ (eng[w].phase # "lobby" \/ eng[w].joined) /\ UNCHANGED <<eng, msgs>>
  BY JoinsIs
<1> QED
  BY <1>6, <1>7, <1>8, <1>9, <1>10, <1>11

-----------------------------------------------------------------------------
\* What is made of the panels.

Panel == [lobby : {"closed", "offer", "in"}, ok : BOOLEAN, open : BOOLEAN, asking : Nat,
          stream : BOOLEAN, lost : BOOLEAN, late : BOOLEAN, shut : BOOLEAN,
          shows : Wave \cup {None}]

\* The camera is treated well, and asked for once at most.
Paints(p, q) == q \in Panel /\ (Camera(p) => Camera(q)) /\ q.asking <= p.asking + 1

\* The lobby panel, and the ring's centre, are as they were.
SameLobby(p, q) == q.lobby = p.lobby /\ q.ok = p.ok
SameCentre(p, q) == q.shut = p.shut /\ q.shows = p.shows

LEMMA ShutIs ==
  ASSUME NEW p \in Panel
  PROVE  /\ Shut(p) \in Panel /\ (Camera(p) => Camera(Shut(p))) /\ Shut(p).asking = p.asking
         /\ SameLobby(p, Shut(p)) /\ SameCentre(p, Shut(p)) /\ ~Shut(p).open
<1>1. PICK l \in BOOLEAN : l = Late(p)
  BY DEF Panel, Late
<1>2. PICK q : q = [p EXCEPT !.open = FALSE, !.stream = FALSE, !.late = l]
  OBVIOUS
<1>3. /\ q \in Panel /\ q.asking = p.asking /\ SameLobby(p, q) /\ SameCentre(p, q) /\ ~q.open
      /\ ~q.stream /\ q.late = l /\ q.lost = p.lost
  BY <1>2 DEF Panel, SameLobby, SameCentre
<1>4. l <=> p.late \/ p.asking > 0
  BY <1>1 DEF Late
<1>5. Camera(p) => Camera(q)
  BY <1>3, <1>4 DEF Panel, Camera
<1>6. q = Shut(p)
  BY <1>1, <1>2 DEF Shut
<1> QED
  BY <1>3, <1>5, <1>6

LEMMA HideIs ==
  ASSUME NEW p \in Panel
  PROVE  /\ Hide(p) \in Panel /\ (Camera(p) => Camera(Hide(p))) /\ Hide(p).asking = p.asking
         /\ Hide(p).lobby = "closed" /\ SameCentre(p, Hide(p)) /\ Hide(p).open = p.open
BY DEF Panel, Hide, Camera, SameCentre

LEMMA CentreIs ==
  ASSUME NEW p \in Panel
  PROVE  /\ Centre(p) \in Panel /\ (Camera(p) => Camera(Centre(p)))
         /\ Centre(p).asking = p.asking /\ SameLobby(p, Centre(p)) /\ Centre(p).open = p.open
         /\ Centre(p).shut /\ Centre(p).shows = None
BY DEF Panel, Centre, Camera, SameLobby

LEMMA GalleryIs ==
  ASSUME NEW p \in Panel
  PROVE  /\ Gallery(p) \in Panel /\ (Camera(p) => Camera(Gallery(p)))
         /\ Gallery(p).asking = p.asking /\ SameLobby(p, Gallery(p)) /\ Gallery(p).open = p.open
         /\ ~Gallery(p).shut /\ Gallery(p).shows = p.shows
BY DEF Panel, Gallery, Camera, SameLobby

LEMMA MomentsAre ==
  ASSUME NEW p \in Panel, NEW w \in Wave
  PROVE  /\ Moments(p, w) \in Panel /\ (Camera(p) => Camera(Moments(p, w)))
         /\ Moments(p, w).asking = p.asking /\ SameLobby(p, Moments(p, w))
         /\ Moments(p, w).open = p.open /\ Moments(p, w).shut = p.shut
         /\ Moments(p, w).shows \in {p.shows, w}
BY DEF Panel, Moments, Camera, SameLobby

LEMMA OfferIs ==
  ASSUME NEW p \in Panel, NEW joined \in BOOLEAN, NEW paid \in Paid
  PROVE  /\ Offer(p, joined, paid) \in Panel /\ (Camera(p) => Camera(Offer(p, joined, paid)))
         /\ Offer(p, joined, paid).asking = p.asking /\ SameCentre(p, Offer(p, joined, paid))
         /\ Offer(p, joined, paid).open = p.open
         /\ ~joined => /\ Offer(p, joined, paid).lobby = "offer"
                       /\ Offer(p, joined, paid).ok = (paid = "verified")
BY DEF Panel, Offer, Camera, SameCentre

LEMMA JoinableIs ==
  ASSUME NEW p \in Panel
  PROVE  /\ Joinable(p) \in Panel /\ (Camera(p) => Camera(Joinable(p)))
         /\ Joinable(p).asking = p.asking /\ SameCentre(p, Joinable(p))
         /\ Joinable(p).open = p.open /\ Joinable(p).lobby = p.lobby
         /\ p.lobby = "offer" => Joinable(p).ok
BY DEF Panel, Joinable, Camera, SameCentre

LEMMA FrameIs ==
  ASSUME NEW p \in Panel
  PROVE  Paints(p, Frame(p)) /\ SameLobby(p, Frame(p)) /\ SameCentre(p, Frame(p)) /\ Frame(p).open
<1>1. CASE p.open
  BY <1>1 DEF Panel, Frame, Paints, SameLobby, SameCentre
<1>2. CASE ~p.open
  <2>1. PICK l \in BOOLEAN : l = Late(p)
    BY DEF Panel, Late
  <2>2. PICK n \in Nat : n = p.asking + 1
    BY DEF Panel
  <2>3. PICK q : q = [p EXCEPT !.open = TRUE, !.asking = n, !.late = l]
    OBVIOUS
  <2>4. /\ q \in Panel /\ q.asking = n /\ SameLobby(p, q) /\ SameCentre(p, q)
        /\ q.open /\ q.stream = p.stream /\ q.late = l /\ q.lost = p.lost
    BY <2>3 DEF Panel, SameLobby, SameCentre
  <2>5. l <=> p.late \/ p.asking > 0
    BY <2>1 DEF Late
  <2>6. Camera(p) => Camera(q)
    BY <1>2, <2>4, <2>5, <2>2 DEF Panel, Camera
  <2>7. q = Frame(p)
    BY <1>2, <2>1, <2>3, <2>2 DEF Frame
  <2> QED
    BY <2>4, <2>6, <2>7, <2>2 DEF Paints, Panel
<1> QED
  BY <1>1, <1>2

LEMMA BeginIs ==
  ASSUME NEW p \in Panel
  PROVE  /\ Paints(p, Begin(p)) /\ Begin(p).open /\ Begin(p).shut /\ Begin(p).shows = None
         /\ Begin(p).lobby = "closed"
<1> DEFINE q == Centre(p)
           r == Hide(q)
<1>1. /\ q \in Panel /\ (Camera(p) => Camera(q)) /\ q.asking = p.asking
      /\ q.shut /\ q.shows = None
  BY CentreIs
<1> HIDE DEF q
<1>2. /\ r \in Panel /\ (Camera(q) => Camera(r)) /\ r.asking = q.asking
      /\ r.lobby = "closed" /\ SameCentre(q, r)
  BY <1>1, HideIs
<1> HIDE DEF r
<1>3. Paints(r, Frame(r)) /\ SameLobby(r, Frame(r)) /\ SameCentre(r, Frame(r)) /\ Frame(r).open
  BY <1>2, FrameIs
<1>4. Begin(p) = Frame(r)
  BY DEF Begin, q, r
<1> QED
  BY <1>1, <1>2, <1>3, <1>4 DEF Paints, SameLobby, SameCentre

\* renderActiveWave paints the wave a as its entry in d calls for.
Painted(a, d, q) ==
  /\ a = None => ~q.open /\ ~q.shut /\ q.shows = None
  /\ a # None /\ d[a].phase # "lobby" => ~q.open /\ ~q.shut /\ q.shows \in {None, a}
  /\ a # None /\ d[a].phase = "lobby" =>
       /\ q.shut /\ q.shows = None
       /\ d[a].joined => q.open
       /\ ~d[a].joined => ~q.open /\ q.lobby = "offer" /\ q.ok = (d[a].paid = "verified")

LEMMA ShownIs ==
  ASSUME NEW a \in Wave \cup {None}, NEW d \in [Wave -> Entry], panel \in Panel
  PROVE  Paints(panel, Shown(a, d)) /\ Painted(a, d, Shown(a, d))
<1>1. PICK p, q, r : p = Centre(panel) /\ q = Hide(p) /\ r = Shut(q)
  OBVIOUS
<1>2. /\ p \in Panel /\ (Camera(panel) => Camera(p)) /\ p.asking = panel.asking
      /\ p.shut /\ p.shows = None
  BY <1>1, CentreIs
<1>3. /\ q \in Panel /\ (Camera(p) => Camera(q)) /\ q.asking = p.asking
      /\ SameCentre(p, q)
  BY <1>1, <1>2, HideIs
<1>4. /\ r \in Panel /\ (Camera(q) => Camera(r)) /\ r.asking = q.asking
      /\ SameCentre(q, r) /\ ~r.open
  BY <1>1, <1>3, ShutIs
<1>5. /\ r \in Panel /\ (Camera(panel) => Camera(r)) /\ r.asking = panel.asking
      /\ r.shut /\ r.shows = None /\ ~r.open
  BY <1>2, <1>3, <1>4 DEF SameCentre
<1>6. Shown(a, d) = IF a = None THEN Gallery(r)
                    ELSE IF d[a].phase # "lobby" THEN Moments(Gallery(r), a)
                    ELSE IF d[a].joined THEN Begin(r) ELSE Offer(r, FALSE, d[a].paid)
  BY <1>1 DEF Shown
<1>7. panel.asking \in Nat
  BY DEF Panel
<1>8. PICK g : g = Gallery(r)
  OBVIOUS
<1>9. /\ g \in Panel /\ (Camera(r) => Camera(g)) /\ g.asking = r.asking
      /\ g.open = r.open /\ ~g.shut /\ g.shows = r.shows
  BY <1>5, <1>8, GalleryIs
<1>10. CASE a = None
  <2>1. Shown(a, d) = g
    BY <1>6, <1>8, <1>10
  <2> QED
    BY <1>5, <1>7, <1>9, <1>10, <2>1 DEF Paints, Painted
<1>11. CASE a # None /\ d[a].phase # "lobby"
  <2>1. Shown(a, d) = Moments(g, a) /\ a \in Wave
    BY <1>6, <1>8, <1>11
  <2>2. PICK h : h = Moments(g, a)
    OBVIOUS
  <2>3. /\ h \in Panel /\ (Camera(g) => Camera(h)) /\ h.asking = g.asking
        /\ h.open = g.open /\ h.shut = g.shut /\ h.shows \in {g.shows, a}
    BY <1>9, <2>1, <2>2, MomentsAre
  <2> QED
    BY <1>5, <1>7, <1>9, <1>11, <2>1, <2>2, <2>3 DEF Paints, Painted
<1>12. CASE a # None /\ d[a].phase = "lobby" /\ d[a].joined
  <2>1. Shown(a, d) = Begin(r)
    BY <1>6, <1>12
  <2>2. Paints(r, Begin(r)) /\ Begin(r).open /\ Begin(r).shut /\ Begin(r).shows = None
    BY <1>5, BeginIs
  <2> QED
    BY <1>5, <1>7, <1>12, <2>1, <2>2 DEF Paints, Painted
<1>13. CASE a # None /\ d[a].phase = "lobby" /\ ~d[a].joined
  <2>1. Shown(a, d) = Offer(r, FALSE, d[a].paid) /\ d[a].paid \in Paid
    BY <1>6, <1>13 DEF Entry
  <2>2. PICK h : h = Offer(r, FALSE, d[a].paid)
    OBVIOUS
  <2>3. /\ h \in Panel /\ (Camera(r) => Camera(h)) /\ h.asking = r.asking
        /\ SameCentre(r, h) /\ h.open = r.open
        /\ h.lobby = "offer" /\ h.ok = (d[a].paid = "verified")
    BY <1>5, <2>1, <2>2, OfferIs
  <2>4. h.asking <= panel.asking + 1
    BY <1>5, <1>7, <2>3
  <2>5. Paints(panel, h)
    BY <1>5, <2>3, <2>4 DEF Paints
  <2>6. Painted(a, d, h)
    BY <1>5, <1>13, <2>3 DEF Painted, SameCentre
  <2> QED
    BY <2>1, <2>2, <2>5, <2>6
<1> QED
  BY <1>10, <1>11, <1>12, <1>13

-----------------------------------------------------------------------------
\* The steps of the user and of the camera.

\* Types, of a step of the desktop.
LEMMA DesktopType ==
  ASSUME TypeOK, UNCHANGED engVars, msgs' \in Seq(Report), cmds' \in Seq(Order),
         dir' \in [Wave -> Entry], active' \in Wave \cup {None}, net' \in Network,
         panel' \in Panel, panel'.asking <= MaxAsks,
         ask' \in SUBSET Wave, sent' \in SUBSET Wave, waived' \in SUBSET Wave,
         missed' \in SUBSET Wave, stranded' \in SUBSET Wave
  PROVE  TypeOK'
<1>1. panel'.asking \in 0 .. MaxAsks
  BY CaptureAssumption DEF Panel
<1>2. panel' \in [lobby : {"closed", "offer", "in"}, ok : BOOLEAN, open : BOOLEAN,
                  asking : 0..MaxAsks, stream : BOOLEAN, lost : BOOLEAN, late : BOOLEAN,
                  shut : BOOLEAN, shows : Wave \cup {None}]
  BY <1>1 DEF Panel
<1> QED
  BY <1>2 DEF TypeOK, engVars, Entry

LEMMA PanelIs ==
  ASSUME TypeOK
  PROVE  /\ panel \in Panel /\ panel.asking <= MaxAsks /\ (Idle => panel.asking + 1 <= MaxAsks)
         /\ active \in Wave \cup {None} /\ net \in Network /\ None \notin Wave
         /\ ask \in SUBSET Wave /\ sent \in SUBSET Wave /\ waived \in SUBSET Wave
         /\ missed \in SUBSET Wave /\ stranded \in SUBSET Wave
<1>1. panel.asking \in 0 .. MaxAsks /\ 0 .. MaxAsks \in SUBSET Nat
  BY CaptureAssumption DEF TypeOK
<1>2. panel \in Panel
  BY <1>1, CaptureAssumption DEF TypeOK, Panel
<1>3. panel.asking <= MaxAsks /\ (Idle => panel.asking + 1 <= MaxAsks)
  BY <1>1, CaptureAssumption DEF Idle
<1> QED
  BY <1>2, <1>3, CaptureAssumption DEF TypeOK, None

LEMMA PaintedType ==
  ASSUME TypeOK, Idle, NEW q, Paints(panel, q)
  PROVE  q \in Panel /\ q.asking <= MaxAsks
<1>1. panel.asking \in Nat /\ q.asking \in Nat /\ q \in Panel /\ q.asking <= panel.asking + 1
      /\ panel.asking + 1 <= MaxAsks /\ MaxAsks \in Nat
  BY PanelIs, CaptureAssumption DEF Paints, Panel
<1> QED
  BY <1>1

\* A command sent.
LEMMA SendOn ==
  ASSUME TypeOK, NEW c \in {"join", "start", "leave", "stage"}, NEW w \in Wave
  PROVE  /\ Append(cmds, Cmd(c, w)) \in Seq(Order)
         /\ \A v : JoiningIn(v, cmds) => JoiningIn(v, Append(cmds, Cmd(c, w)))
         /\ c = "join" => JoiningIn(w, Append(cmds, Cmd(c, w)))
<1>1. PICK x : x = Cmd(c, w)
  OBVIOUS
<1>2. cmds \in Seq(Order) /\ x \in Order
  BY <1>1, TypeIs DEF Cmd, Order
<1>3. Append(cmds, x) \in Seq(Order) /\ Append(cmds, x) = cmds \o <<x>>
  BY <1>2
<1>4. ASSUME NEW v PROVE JoiningIn(v, cmds) => JoiningIn(v, Append(cmds, x))
  BY <1>2, <1>3, PendingOn
<1>5. c = "join" => JoiningIn(w, Append(cmds, x))
  BY <1>1, <1>2, <1>3, PendingOn
<1> QED
  BY <1>1, <1>3, <1>4, <1>5

LEMMA StageIs ==
  ASSUME TypeOK, CentreInv, Stage
  PROVE  /\ cmds' \in Seq(Order) /\ sent' \in SUBSET Wave /\ sent \in SUBSET sent'
         /\ panel.open => active \in sent'
         /\ \A v : JoiningIn(v, cmds) => JoiningIn(v, cmds')
<1>1. cmds \in Seq(Order) /\ sent \in SUBSET Wave
  BY DEF TypeOK
<1>2. CASE panel.open
  <2>1. active \in Wave
    BY <1>2, PanelIs DEF CentreInv
  <2>2. cmds' = Append(cmds, Cmd("stage", active)) /\ sent' = sent \cup {active}
    BY <1>2 DEF Stage
  <2>3. PICK a : a = active
    OBVIOUS
  <2>4. /\ Append(cmds, Cmd("stage", a)) \in Seq(Order)
        /\ \A v : JoiningIn(v, cmds) => JoiningIn(v, Append(cmds, Cmd("stage", a)))
    BY <2>1, <2>3, SendOn
  <2>5. /\ cmds' \in Seq(Order)
        /\ \A v : JoiningIn(v, cmds) => JoiningIn(v, cmds')
    BY <2>2, <2>3, <2>4
  <2> QED
    BY <1>1, <2>1, <2>2, <2>5
<1>3. CASE ~panel.open
  BY <1>1, <1>3 DEF Stage
<1> QED
  BY <1>2, <1>3

\* A step that leaves the lobby panel alone, and what is framed framed, staged or given up.
LEMMA LobbyStays ==
  ASSUME LobbyInv, UNCHANGED <<active, msgs, fees>>, active # None => dir'[active] = dir[active],
         SameLobby(panel, panel'),
         panel.open => panel'.open \/ active \in sent' \/ active \in lapsed',
         active \in sent => active \in sent', active \in lapsed => active \in lapsed',
         active \in stranded => active \in stranded',
         \A v : JoiningIn(v, cmds) => JoiningIn(v, cmds')
  PROVE  LobbyInv'
<1> SUFFICES ASSUME active # None, dir[active].phase = "lobby"
             PROVE  SeatAsks(active)' /\ JoinAsks(active)'
  BY DEF LobbyInv
<1>1. SeatAsks(active) /\ JoinAsks(active)
  BY DEF LobbyInv
<1>2. SeatAsks(active)'
  BY <1>1 DEF SeatAsks
<1>3. PICK a : a = active
  OBVIOUS
<1>4. JoiningIn(a, cmds) => JoiningIn(a, cmds')
  OBVIOUS
<1>5. Joining(active) => Joining(active)'
  BY <1>3, <1>4 DEF Joining
<1>6. Pending(active) => Pending(active)'
  BY DEF Pending
<1>7. JoinAsks(active)'
  BY <1>1, <1>5, <1>6 DEF JoinAsks, Enabled, Offers, SameLobby
<1> QED
  BY <1>2, <1>7

LEMMA AskStays ==
  ASSUME AskInv, UNCHANGED <<dir, ask>>, sent \in SUBSET sent', lapsed \in SUBSET lapsed',
         panel.open => \/ active' = active /\ panel'.open
                       \/ active \in sent' \/ active \in lapsed'
  PROVE  AskInv'
<1> SUFFICES ASSUME NEW w \in ask
             PROVE  /\ dir[w].phase \in {"lobby", "racing", "dismissed"}
                    /\ w \notin lapsed' =>
                         /\ dir[w].phase = "lobby" =>
                              dir[w].joined /\ (w \in sent' \/ (w = active' /\ panel'.open))
                         /\ dir[w].phase = "racing" => w \in sent'
  BY DEF AskInv
<1>1. /\ dir[w].phase \in {"lobby", "racing", "dismissed"}
      /\ w \notin lapsed =>
           /\ dir[w].phase = "lobby" => dir[w].joined /\ (w \in sent \/ (w = active /\ panel.open))
           /\ dir[w].phase = "racing" => w \in sent
  BY DEF AskInv
<1> QED
  BY <1>1

LEMMA CaptureKeeps == IInv /\ Capture => IInv'
<1> SUFFICES ASSUME IInv, Capture PROVE IInv'
  OBVIOUS
<1>1. /\ TypeOK /\ ToldInv /\ CentreInv /\ AskInv /\ LobbyInv
      /\ panel.open /\ Stage /\ panel' = Shut(panel) /\ Still
      /\ UNCHANGED <<active, ask, waived, missed, stranded>> /\ lapsed' = lapsed
  BY DEF IInv, Capture, lapsed
<1>2. /\ cmds' \in Seq(Order) /\ sent' \in SUBSET Wave /\ sent \in SUBSET sent'
      /\ active \in sent' /\ \A v : JoiningIn(v, cmds) => JoiningIn(v, cmds')
  BY <1>1, StageIs
<1>3. /\ panel' \in Panel /\ (Camera(panel) => Camera(panel)') /\ panel'.asking = panel.asking
      /\ SameLobby(panel, panel') /\ SameCentre(panel, panel') /\ ~panel'.open
  <2>1. PICK p \in Panel : p = panel
    BY <1>1, PanelIs
  <2>2. /\ Shut(p) \in Panel /\ (Camera(p) => Camera(Shut(p))) /\ Shut(p).asking = p.asking
        /\ SameLobby(p, Shut(p)) /\ SameCentre(p, Shut(p)) /\ ~Shut(p).open
    BY ShutIs
  <2>3. panel' = Shut(p) /\ panel = p
    BY <1>1, <2>1
  <2> QED
    BY <2>2, <2>3
<1>4. TypeOK'
  BY <1>1, <1>2, <1>3, DesktopType, PanelIs, TypeIs DEF Still
<1>5. ToldInv'
  BY <1>1, StillTold DEF Still, engVars
<1>6. CentreInv'
  BY <1>1, <1>3 DEF CentreInv, Still, Shows, SameCentre
<1>7. AskInv'
  BY <1>1, <1>2, AskStays DEF Still
<1>8. LobbyInv'
  BY <1>1, <1>2, <1>3, LobbyStays DEF Still, engVars
<1> QED
  BY <1>4, <1>5, <1>6, <1>7, <1>8 DEF IInv

LEMMA SkipKeeps == IInv /\ Skip => IInv'
<1> SUFFICES ASSUME IInv, Skip PROVE IInv'
  OBVIOUS
<1>1. /\ TypeOK /\ ToldInv /\ CentreInv /\ AskInv /\ LobbyInv /\ panel.open /\ panel' = Shut(panel)
      /\ Still /\ waived' = waived \cup {active} /\ lapsed' = lapsed \cup {active}
      /\ UNCHANGED <<active, ask, cmds, sent, missed, stranded>>
  BY DEF IInv, Skip, Waive, lapsed
<1>2. active \in Wave
  BY <1>1, PanelIs DEF CentreInv
<1>3. /\ panel' \in Panel /\ (Camera(panel) => Camera(panel)') /\ panel'.asking = panel.asking
      /\ SameLobby(panel, panel') /\ SameCentre(panel, panel') /\ ~panel'.open
  <2>1. PICK p \in Panel : p = panel
    BY <1>1, PanelIs
  <2>2. /\ Shut(p) \in Panel /\ (Camera(p) => Camera(Shut(p))) /\ Shut(p).asking = p.asking
        /\ SameLobby(p, Shut(p)) /\ SameCentre(p, Shut(p)) /\ ~Shut(p).open
    BY ShutIs
  <2>3. panel' = Shut(p) /\ panel = p
    BY <1>1, <2>1
  <2> QED
    BY <2>2, <2>3
<1>4. TypeOK'
  BY <1>1, <1>2, <1>3, DesktopType, PanelIs, TypeIs DEF Still
<1>5. ToldInv'
  BY <1>1, StillTold DEF Still, engVars
<1>6. CentreInv'
  BY <1>1, <1>3 DEF CentreInv, Still, Shows, SameCentre
<1>7. AskInv'
  BY <1>1, AskStays DEF Still
<1>8. LobbyInv'
  BY <1>1, <1>3, LobbyStays DEF Still, engVars
<1> QED
  BY <1>4, <1>5, <1>6, <1>7, <1>8 DEF IInv

LEMMA NotNowKeeps == IInv /\ NotNow => IInv'
<1> SUFFICES ASSUME IInv, NotNow PROVE IInv'
  OBVIOUS
<1>1. /\ TypeOK /\ ToldInv /\ CentreInv /\ AskInv /\ LobbyInv /\ active # None
      /\ panel' = Hide(panel) /\ Still /\ waived' = waived \cup {active}
      /\ lapsed' = lapsed \cup {active} /\ UNCHANGED <<active, ask, cmds, sent, missed, stranded>>
  BY DEF IInv, NotNow, Waive, lapsed
<1>2. active \in Wave
  BY <1>1, PanelIs
<1>3. /\ panel' \in Panel /\ (Camera(panel) => Camera(panel)') /\ panel'.asking = panel.asking
      /\ panel'.lobby = "closed" /\ SameCentre(panel, panel') /\ panel'.open = panel.open
  <2>1. PICK p \in Panel : p = panel
    BY <1>1, PanelIs
  <2>2. /\ Hide(p) \in Panel /\ (Camera(p) => Camera(Hide(p))) /\ Hide(p).asking = p.asking
        /\ Hide(p).lobby = "closed" /\ SameCentre(p, Hide(p)) /\ Hide(p).open = p.open
    BY HideIs
  <2>3. panel' = Hide(p) /\ panel = p
    BY <1>1, <2>1
  <2> QED
    BY <2>2, <2>3
<1>4. TypeOK'
  BY <1>1, <1>2, <1>3, DesktopType, PanelIs, TypeIs DEF Still
<1>5. ToldInv'
  BY <1>1, StillTold DEF Still, engVars
<1>6. CentreInv'
  BY <1>1, <1>3 DEF CentreInv, Still, Shows, SameCentre
<1>7. AskInv'
  BY <1>1, AskStays DEF Still
<1>8. LobbyInv'
  BY <1>1, <1>3 DEF LobbyInv, SeatAsks, JoinAsks, Enabled, Still
<1> QED
  BY <1>4, <1>5, <1>6, <1>7, <1>8 DEF IInv

LEMMA JoinKeeps == IInv /\ Join => IInv'
<1> SUFFICES ASSUME IInv, Join PROVE IInv'
  OBVIOUS
<1>1. /\ TypeOK /\ ToldInv /\ CentreInv /\ AskInv /\ LobbyInv /\ active # None
      /\ panel.lobby = "offer" /\ panel.ok /\ panel' = [panel EXCEPT !.lobby = "in"]
      /\ cmds' = Append(cmds, Cmd("join", active)) /\ Still
      /\ UNCHANGED <<active, ask, sent, waived, missed>> /\ lapsed' = lapsed
      /\ stranded' = stranded \ {active}
  BY DEF IInv, Join, lapsed
<1>2. active \in Wave
  BY <1>1, PanelIs
<1>3. /\ panel' \in Panel /\ (Camera(panel) => Camera(panel)') /\ panel'.asking = panel.asking
      /\ panel'.lobby = "in" /\ SameCentre(panel, panel') /\ panel'.open = panel.open
  BY <1>1, PanelIs DEF Panel, Camera, SameCentre
<1>4. PICK a \in Wave : a = active
  BY <1>2
<1>5. Append(cmds, Cmd("join", a)) \in Seq(Order) /\ JoiningIn(a, Append(cmds, Cmd("join", a)))
  BY <1>1, SendOn
<1>6. cmds' \in Seq(Order) /\ Joining(active)'
  BY <1>1, <1>4, <1>5 DEF Joining
<1>7. TypeOK'
  BY <1>1, <1>2, <1>3, <1>6, DesktopType, PanelIs, TypeIs DEF Still
<1>8. ToldInv'
  BY <1>1, StillTold DEF Still, engVars
<1>9. CentreInv'
  BY <1>1, <1>3 DEF CentreInv, Still, Shows, SameCentre
<1>10. AskInv'
  BY <1>1, <1>3, AskStays DEF Still
<1>11. LobbyInv'
  <2> SUFFICES ASSUME dir[active].phase = "lobby" PROVE SeatAsks(active)' /\ JoinAsks(active)'
    BY <1>1 DEF LobbyInv, Still
  <2>1. SeatAsks(active) /\ JoinAsks(active)
    BY <1>1 DEF LobbyInv
  <2>2. SeatAsks(active)'
    BY <1>1, <1>3, <2>1 DEF SeatAsks, Still
  <2>3. ~dir[active].joined => dir[active].paid = "verified"
    BY <1>1, <2>1 DEF JoinAsks, Enabled
  <2>4. JoinAsks(active)'
    BY <1>1, <1>3, <1>6, <2>3 DEF JoinAsks, Still
  <2> QED
    BY <2>2, <2>4
<1> QED
  BY <1>7, <1>8, <1>9, <1>10, <1>11 DEF IInv

LEMMA StartKeeps == IInv /\ Start => IInv'
<1> SUFFICES ASSUME IInv, Start PROVE IInv'
  OBVIOUS
<1>1. /\ TypeOK /\ ToldInv /\ CentreInv /\ AskInv /\ LobbyInv
      /\ cmds' = Append(cmds, Cmd("start", Mine)) /\ Still
      /\ UNCHANGED <<active, panel, ask, sent, waived, missed, stranded>> /\ lapsed' = lapsed
  BY DEF IInv, Start, ghosts, lapsed
<1>2. cmds' \in Seq(Order) /\ \A v : JoiningIn(v, cmds) => JoiningIn(v, cmds')
  BY <1>1, SendOn, CaptureAssumption
<1>3. TypeOK'
  BY <1>1, <1>2, DesktopType, PanelIs, TypeIs DEF Still
<1>4. ToldInv'
  BY <1>1, StillTold DEF Still, engVars
<1>5. CentreInv'
  BY <1>1 DEF CentreInv, Still, Shows
<1>6. AskInv'
  BY <1>1, AskStays DEF Still
<1>7. LobbyInv'
  BY <1>1, <1>2, LobbyStays DEF Still, engVars, SameLobby
<1> QED
  BY <1>3, <1>4, <1>5, <1>6, <1>7 DEF IInv

\* Moments come in, or the camera answers: only its panel or the gallery changes.
LEMMA PaintKeeps ==
  ASSUME IInv, UNCHANGED <<engVars, msgs, cmds, dir, active, net, ghosts>>,
         panel' \in Panel, panel'.asking <= MaxAsks, Camera(panel) => Camera(panel)',
         SameLobby(panel, panel'), panel'.open = panel.open, panel'.shut = panel.shut,
         panel'.shows \in {panel.shows, active}
  PROVE  IInv'
<1>1. /\ TypeOK /\ ToldInv /\ CentreInv /\ AskInv /\ LobbyInv
      /\ UNCHANGED <<engVars, msgs, cmds, dir, active, net, ask, sent, waived, missed, stranded>>
      /\ lapsed' = lapsed
  BY DEF IInv, ghosts, lapsed
<1>2. TypeOK'
  BY <1>1, DesktopType, PanelIs, TypeIs
<1>3. ToldInv'
  BY <1>1, StillTold DEF engVars
<1>4. CentreInv'
  BY <1>1 DEF CentreInv, Shows
<1>5. AskInv'
  BY <1>1, AskStays
<1>6. LobbyInv'
  BY <1>1, LobbyStays DEF engVars
<1> QED
  BY <1>2, <1>3, <1>4, <1>5, <1>6 DEF IInv

LEMMA FeedComesInKeeps == IInv /\ FeedComesIn => IInv'
<1> SUFFICES ASSUME IInv, FeedComesIn PROVE IInv'
  OBVIOUS
<1>1. TypeOK /\ active \in Wave /\ panel \in Panel /\ panel.asking <= MaxAsks
  BY PanelIs DEF IInv, FeedComesIn
<1>2. PICK p, a : p = panel /\ a = active
  OBVIOUS
<1>3. /\ Moments(p, a) \in Panel /\ (Camera(p) => Camera(Moments(p, a)))
      /\ Moments(p, a).asking = p.asking /\ SameLobby(p, Moments(p, a))
      /\ Moments(p, a).open = p.open /\ Moments(p, a).shut = p.shut
      /\ Moments(p, a).shows \in {p.shows, a}
  BY <1>1, <1>2, MomentsAre
<1>4. panel' = Moments(p, a) /\ UNCHANGED <<engVars, msgs, cmds, dir, active, net, ghosts>>
  BY <1>2 DEF FeedComesIn
<1>5. /\ panel' \in Panel /\ panel'.asking <= MaxAsks /\ (Camera(panel) => Camera(panel)')
      /\ SameLobby(panel, panel') /\ panel'.open = panel.open /\ panel'.shut = panel.shut
      /\ panel'.shows \in {panel.shows, active}
  BY <1>1, <1>2, <1>3, <1>4
<1> QED
  BY <1>4, <1>5, PaintKeeps

LEMMA AnsweredIs ==
  ASSUME NEW p \in Panel, p.asking > 0, NEW granted \in BOOLEAN, NEW q, q = Answered(p, granted)
  PROVE  /\ q \in Panel /\ q.asking = p.asking - 1 /\ (Camera(p) => Camera(q))
         /\ SameLobby(p, q) /\ SameCentre(p, q) /\ q.open = p.open
<1>1. PICK n \in Nat : n = p.asking - 1
  BY DEF Panel
<1>2. PICK s, l : s = (p.stream \/ granted) /\ l = (p.lost \/ (granted /\ p.stream))
  OBVIOUS
<1>3. /\ s \in BOOLEAN /\ l \in BOOLEAN /\ (s <=> p.stream \/ granted)
      /\ (l <=> p.lost \/ (granted /\ p.stream))
  BY <1>2 DEF Panel
<1>4. q = [p EXCEPT !.asking = n, !.stream = s, !.lost = l]
  BY <1>1, <1>2 DEF Answered
<1>5. /\ q \in Panel /\ q.asking = n /\ SameLobby(p, q) /\ SameCentre(p, q) /\ q.open = p.open
      /\ q.stream = s /\ q.lost = l /\ q.late = p.late
  BY <1>3, <1>4 DEF Panel, SameLobby, SameCentre
<1>6. Camera(p) => Camera(q)
  BY <1>1, <1>3, <1>5 DEF Panel, Camera
<1> QED
  BY <1>1, <1>5, <1>6

LEMMA CameraAnswersKeeps == IInv /\ CameraAnswers => IInv'
<1> SUFFICES ASSUME IInv, CameraAnswers PROVE IInv'
  OBVIOUS
<1>1. TypeOK /\ panel \in Panel /\ panel.asking <= MaxAsks /\ panel.asking > 0
  BY PanelIs DEF IInv, CameraAnswers
<1>2. PICK granted \in BOOLEAN : panel' = Answered(panel, granted)
  BY DEF CameraAnswers
<1>3. PICK p, q : p = panel /\ q = panel'
  OBVIOUS
<1>4. /\ q \in Panel /\ q.asking = p.asking - 1 /\ (Camera(p) => Camera(q))
      /\ SameLobby(p, q) /\ SameCentre(p, q) /\ q.open = p.open
  BY <1>1, <1>2, <1>3, AnsweredIs
<1>5. q.asking <= MaxAsks
  BY <1>1, <1>3, <1>4, CaptureAssumption DEF Panel
<1>6. UNCHANGED <<engVars, msgs, cmds, dir, active, net, ghosts>>
  BY DEF CameraAnswers
<1>7. /\ panel' \in Panel /\ panel'.asking <= MaxAsks /\ (Camera(panel) => Camera(panel)')
      /\ SameLobby(panel, panel') /\ panel'.open = panel.open /\ panel'.shut = panel.shut
      /\ panel'.shows \in {panel.shows, active}
  BY <1>3, <1>4, <1>5 DEF SameCentre
<1> QED
  BY <1>6, <1>7, PaintKeeps

\* A wave is painted: the ring's centre and the lobby panel are as its entry calls for.
LEMMA PaintedCentre ==
  ASSUME CentreInv, UNCHANGED dir, active' # None => Shows(active'), Paints(panel, panel'),
         Painted(active', dir, panel')
  PROVE  CentreInv'
BY DEF CentreInv, Paints, Painted, Shows

LEMMA PaintedLobby ==
  ASSUME UNCHANGED dir, Painted(active', dir, panel')
  PROVE  LobbyInv'
BY DEF LobbyInv, Painted, SeatAsks, JoinAsks, Enabled, Offers

LEMMA SelectKeeps == \A w \in Wave : IInv /\ Select(w) => IInv'
<1> SUFFICES ASSUME NEW w \in Wave, IInv, Select(w) PROVE IInv'
  OBVIOUS
<1>1. /\ TypeOK /\ ToldInv /\ CentreInv /\ AskInv /\ Idle /\ Stage /\ Still
      /\ dir[w].phase \in {"lobby", "racing", "ended"} /\ active' = w /\ panel' = Shown(w, dir)
  BY DEF IInv, Select, Visible
<1>2. \/ /\ dir[w].phase = "lobby" /\ dir[w].joined
         /\ ask' = ask \cup {w} /\ waived' = waived \ {w} /\ missed' = missed \ {w}
         /\ lapsed' = lapsed \ {w} /\ stranded' = stranded
      \/ /\ ~(dir[w].phase = "lobby" /\ dir[w].joined)
         /\ UNCHANGED <<ask, waived, missed, stranded>> /\ lapsed' = lapsed
  BY DEF Select, Asked, lapsed
<1>3. /\ cmds' \in Seq(Order) /\ sent' \in SUBSET Wave /\ sent \in SUBSET sent'
      /\ panel.open => active \in sent'
  BY <1>1, StageIs
<1>4. w \in Wave \cup {None} /\ dir \in [Wave -> Entry] /\ panel \in Panel /\ w # None
  BY <1>1, PanelIs, TypeIs
<1>5. PICK d \in [Wave -> Entry] : d = dir
  BY <1>4
<1>6. Paints(panel, Shown(w, d)) /\ Painted(w, d, Shown(w, d))
  BY <1>4, ShownIs
<1>7. Paints(panel, panel') /\ Painted(active', dir, panel')
  BY <1>1, <1>5, <1>6
<1>8. panel' \in Panel /\ panel'.asking <= MaxAsks
  BY <1>1, <1>7, PaintedType
<1>9. TypeOK'
  BY <1>1, <1>2, <1>3, <1>4, <1>8, DesktopType, PanelIs, TypeIs DEF Still
<1>10. ToldInv'
  BY <1>1, StillTold DEF Still, engVars
<1>11. CentreInv'
  BY <1>1, <1>7, PaintedCentre DEF Still, Shows
<1>12. AskInv'
  <2> SUFFICES ASSUME NEW v \in ask'
               PROVE  /\ dir[v].phase \in {"lobby", "racing", "dismissed"}
                      /\ v \notin lapsed' =>
                           /\ dir[v].phase = "lobby" =>
                                dir[v].joined /\ (v \in sent' \/ (v = active' /\ panel'.open))
                           /\ dir[v].phase = "racing" => v \in sent'
    BY <1>1 DEF AskInv, Still
  <2>1. CASE v \in ask /\ v # w
    <3>1. v \in lapsed' <=> v \in lapsed
      BY <1>2, <2>1
    <3> QED
      BY <1>1, <1>3, <2>1, <3>1 DEF AskInv
  <2>2. CASE v = w /\ dir[w].phase = "lobby" /\ dir[w].joined
    BY <1>1, <1>4, <1>7, <2>2 DEF Painted
  <2>3. CASE v = w /\ ~(dir[w].phase = "lobby" /\ dir[w].joined)
    BY <1>1, <1>2, <1>3, <2>3 DEF AskInv
  <2> QED
    BY <1>2, <2>1, <2>2, <2>3
<1>13. LobbyInv'
  BY <1>1, <1>7, PaintedLobby DEF Still
<1> QED
  BY <1>9, <1>10, <1>11, <1>12, <1>13 DEF IInv

LEMMA DismissKeeps == \A w \in Wave : IInv /\ Dismiss(w) => IInv'
<1> SUFFICES ASSUME NEW w \in Wave, IInv, Dismiss(w) PROVE IInv'
  OBVIOUS
<1>1. /\ TypeOK /\ ToldInv /\ CentreInv /\ AskInv /\ LobbyInv /\ Idle
      /\ dir[w].phase \in {"lobby", "racing", "ended"} /\ dir' = [dir EXCEPT ![w] = Gone]
      /\ cmds' = Append(cmds, Cmd("leave", w))
      /\ UNCHANGED <<engVars, msgs, net>>
      /\ ask' = ask \ {w} /\ sent' = sent \ {w} /\ lapsed' = lapsed \ {w} /\ Forget(w)
      /\ IF w = active THEN active' = None /\ panel' = Shown(None, dir) ELSE UNCHANGED <<active, panel>>
  BY DEF IInv, Dismiss, Forget, lapsed, Gone
<1>2. /\ cmds' \in Seq(Order) /\ dir \in [Wave -> Entry] /\ msgs \in Seq(Report)
      /\ panel \in Panel /\ \A v : JoiningIn(v, cmds) => JoiningIn(v, cmds')
  BY <1>1, SendOn, TypeIs, PanelIs
<1>3. /\ dir' \in [Wave -> Entry] /\ dir'[w] = Gone /\ \A v \in Wave : v # w => dir'[v] = dir[v]
      /\ Gone.phase = "dismissed"
  BY <1>1, <1>2, GoneIs
<1>4. w = active => Paints(panel, panel') /\ Painted(None, dir, panel')
  <2>1. PICK d \in [Wave -> Entry] : d = dir
    BY <1>2
  <2>2. Paints(panel, Shown(None, d)) /\ Painted(None, d, Shown(None, d))
    BY <1>2, ShownIs
  <2> QED
    BY <1>1, <2>1, <2>2
<1>5. panel' \in Panel /\ panel'.asking <= MaxAsks
  BY <1>1, <1>4, PaintedType, PanelIs
<1>6. TypeOK'
  BY <1>1, <1>2, <1>3, <1>5, DesktopType, PanelIs DEF Forget
<1>7. ToldInv'
  <2> SUFFICES ASSUME NEW v \in Wave PROVE Told(v)'
    BY DEF ToldInv
  <2>1. UnpaidEnds(v, msgs)
    BY <1>1 DEF ToldInv, Told
  <2>2. PICK d \in Entry : Leads(v, msgs, dir[v], d) /\ Agrees(v, d, eng[v])
    BY <1>1 DEF ToldInv, Told, Reaches
  <2>3. CASE v # w
    BY <1>1, <1>3, <2>1, <2>2, <2>3 DEF Told, Reaches, engVars
  <2>4. CASE v = w
    <3>1. dir[v].phase # "none" /\ d.phase # "none"
      BY <1>1, <1>2, <2>2, <2>4, LeadsTells
    <3>2. PICK e : e = dir[v]
      OBVIOUS
    <3>3. Leads(v, msgs, e, d) /\ e.phase # "none"
      BY <2>2, <3>1, <3>2
    <3>4. Leads(v, msgs, Gone, Gone)
      BY <1>2, <3>3, LeadsAway
    <3>5. v = Mine => eng[v].phase # "none"
      BY <2>2, <3>1 DEF Agrees, PhaseAgrees, Entry
    <3>6. Agrees(v, Gone, eng[v])
      BY <1>3, <3>5 DEF Agrees, PhaseAgrees
    <3> QED
      BY <1>1, <1>3, <2>1, <2>4, <3>4, <3>6, GoneIs DEF Told, Reaches, engVars
  <2> QED
    BY <2>3, <2>4
<1>8. CentreInv'
  <2>1. CASE w = active
    BY <1>1, <1>4, <2>1 DEF CentreInv, Paints, Painted
  <2>2. CASE w # active
    <3>1. active \in Wave \cup {None} /\ (active # None => dir'[active] = dir[active])
      BY <1>1, <1>3, <2>2, PanelIs
    <3> QED
      BY <1>1, <2>2, <3>1 DEF CentreInv, Shows
  <2> QED
    BY <2>1, <2>2
<1>9. AskInv'
  <2> SUFFICES ASSUME NEW v \in ask \ {w}
               PROVE  /\ dir'[v].phase \in {"lobby", "racing", "dismissed"}
                      /\ v \notin lapsed' =>
                           /\ dir'[v].phase = "lobby" =>
                                dir'[v].joined /\ (v \in sent' \/ (v = active' /\ panel'.open))
                           /\ dir'[v].phase = "racing" => v \in sent'
    BY <1>1 DEF AskInv
  <2>1. dir'[v] = dir[v] /\ (v \in lapsed' <=> v \in lapsed) /\ (v \in sent' <=> v \in sent)
        /\ (v = active /\ panel.open => v = active' /\ panel'.open)
    BY <1>1, <1>3, PanelIs
  <2> QED
    BY <1>1, <2>1 DEF AskInv
<1>10. LobbyInv'
  <2>1. CASE w = active
    BY <1>1, <2>1 DEF LobbyInv
  <2>2. CASE w # active
    <3>1. active # None => dir'[active] = dir[active]
      BY <1>1, <1>3, <2>2, PanelIs
    <3>2. UNCHANGED <<active, panel, msgs, fees>>
      BY <1>1, <2>2 DEF engVars
    <3>3. /\ active \in sent => active \in sent'
          /\ active \in lapsed => active \in lapsed'
          /\ active \in stranded => active \in stranded'
      BY <1>1, <2>2 DEF Forget
    <3> QED
      BY <1>1, <1>2, <3>1, <3>2, <3>3, LobbyStays DEF SameLobby
  <2> QED
    BY <2>1, <2>2
<1> QED
  BY <1>6, <1>7, <1>8, <1>9, <1>10 DEF IInv

-----------------------------------------------------------------------------
\* A message handled.

LEMMA PendingFrom ==
  ASSUME NEW w, NEW s \in Seq(Report), s # <<>>, PendingIn(w, s)
  PROVE  Answers(w, Head(s)) \/ PendingIn(w, Tail(s))
<1> DEFINE t == Tail(s)
<1>1. /\ s[1] = Head(s)
      /\ \A i \in DOMAIN s : i = 1 \/ (i - 1 \in DOMAIN t /\ s[i] = t[i - 1])
  OBVIOUS
<1> HIDE DEF t
<1>2. Answers(w, Head(s)) \/ PendingIn(w, t)
  BY <1>1 DEF PendingIn
<1> QED
  BY <1>2 DEF t

\* What each wave's entry becomes follows its trace.
LEMMA HandleTold ==
  ASSUME TypeOK, ToldInv, NEW m \in Report, m = Head(msgs), msgs # <<>>, msgs' = Tail(msgs),
         UNCHANGED eng, \A v \in Wave : dir'[v] = Hear(v, m, dir[v])
  PROVE  ToldInv' /\ \A v \in Wave : Allowed(v, m, dir[v])
<1>1. msgs \in Seq(Report)
  BY TypeIs
<1>2. ASSUME NEW v \in Wave PROVE Told(v)' /\ Allowed(v, m, dir[v])
  <2>1. PICK d \in Entry : Leads(v, msgs, dir[v], d) /\ Agrees(v, d, eng[v])
    BY DEF ToldInv, Told, Reaches
  <2>2. UnpaidEnds(v, msgs)
    BY DEF ToldInv, Told
  <2>3. PICK e : e = dir[v]
    OBVIOUS
  <2>4. Allowed(v, Head(msgs), e) /\ Leads(v, Tail(msgs), Hear(v, Head(msgs), e), d)
    BY <1>1, <2>1, <2>3, LeadsFrom
  <2>5. Allowed(v, m, dir[v]) /\ Leads(v, msgs', dir'[v], d)
    BY <2>3, <2>4
  <2>6. UnpaidEnds(v, msgs')
    BY <1>1, <2>2, UnpaidFrom
  <2> QED
    BY <2>1, <2>5, <2>6 DEF Told, Reaches
<1> QED
  BY <1>2 DEF ToldInv

LEMMA UpdatedIs ==
  ASSUME TypeOK, NEW m \in Report, m.ev # "wallet", dir' = Updated(m)
  PROVE  /\ m.wave \in Wave /\ m.ev \in WaveEvent /\ dir' \in [Wave -> Entry]
         /\ \A v \in Wave : dir'[v] = Hear(v, m, dir[v])
<1>1. m.wave \in Wave /\ m.ev \in WaveEvent /\ dir \in [Wave -> Entry]
  BY TypeIs DEF Report
<1>2. dir[m.wave] \in Entry
  BY <1>1
<1>3. Patch(m, dir[m.wave]) \in Entry
  BY <1>2, PatchIs DEF Becomes
<1>4. CASE dir[m.wave].phase = "dismissed"
           \/ (dir[m.wave].phase = "none" /\ m.ev # "wave-announce")
  BY <1>1, <1>4 DEF Updated, Hear, About
<1>5. CASE ~(dir[m.wave].phase = "dismissed"
             \/ (dir[m.wave].phase = "none" /\ m.ev # "wave-announce"))
  <2>1. dir' = [dir EXCEPT ![m.wave] = Patch(m, dir[m.wave])]
    BY <1>5 DEF Updated
  <2> QED
    BY <1>1, <1>3, <1>5, <2>1 DEF Hear, About
<1> QED
  BY <1>4, <1>5

\* The message m is handled, and the directory has followed it.
Heard(m) ==
  /\ IInv /\ Idle /\ m \in Report /\ m.ev \in WaveEvent /\ m.wave \in Wave
  /\ msgs # <<>> /\ m = Head(msgs) /\ msgs' = Tail(msgs) /\ UNCHANGED <<engVars, net>>
  /\ dir' \in [Wave -> Entry] /\ \A v \in Wave : v # m.wave => dir'[v] = dir[v]
  /\ Allowed(m.wave, m, dir[m.wave]) /\ ToldInv'
  /\ Hears(m.wave, m, dir[m.wave]) => Becomes(m, dir[m.wave], dir'[m.wave])
  /\ ~Hears(m.wave, m, dir[m.wave]) => dir'[m.wave] = dir[m.wave]

LEMMA HeardIs ==
  ASSUME IInv, Handle, NEW m, m = Head(msgs), m.ev # "wallet"
  PROVE  Heard(m) /\ HandleEvent(m)
<1>1. TypeOK /\ ToldInv /\ msgs \in Seq(Report) /\ dir \in [Wave -> Entry]
  BY TypeIs DEF IInv
<1>2. msgs # <<>> /\ Idle /\ msgs' = Tail(msgs) /\ UNCHANGED engVars /\ HandleEvent(m)
  BY DEF Handle
<1>3. m \in Report
  BY <1>1, <1>2
<1>4. dir' = Updated(m) /\ UNCHANGED net
  BY <1>2 DEF HandleEvent
<1>5. /\ m.wave \in Wave /\ m.ev \in WaveEvent /\ dir' \in [Wave -> Entry]
      /\ \A v \in Wave : dir'[v] = Hear(v, m, dir[v])
  BY <1>1, <1>3, <1>4, UpdatedIs
<1>6. ToldInv' /\ \A v \in Wave : Allowed(v, m, dir[v])
  BY <1>1, <1>2, <1>3, <1>5, HandleTold DEF engVars
<1>7. \A v \in Wave : v # m.wave => dir'[v] = dir[v]
  BY <1>5 DEF Hear, About
<1>8. PICK w, e : w = m.wave /\ e = dir[w]
  OBVIOUS
<1>9. /\ ~Hears(w, m, e) => Hear(w, m, e) = e
      /\ Hears(w, m, e) => Becomes(m, e, Hear(w, m, e))
  BY <1>1, <1>3, <1>5, <1>8, HearIs
<1> QED
  BY <1>2, <1>3, <1>4, <1>5, <1>6, <1>7, <1>8, <1>9 DEF Heard

\* A message that changes no type, and what is asked of the waves it is not about.
LEMMA HeardType ==
  ASSUME NEW m, Heard(m), active' \in Wave \cup {None}, cmds' \in Seq(Order), panel' \in Panel,
         panel'.asking <= MaxAsks, ask' \in SUBSET Wave, sent' \in SUBSET Wave,
         waived' \in SUBSET Wave, missed' \in SUBSET Wave, stranded' \in SUBSET Wave
  PROVE  TypeOK'
<1>1. TypeOK /\ UNCHANGED <<engVars, net>> /\ dir' \in [Wave -> Entry]
  BY DEF Heard, IInv
<1>2. msgs' \in Seq(Report)
  BY <1>1, TypeIs DEF Heard
<1> QED
  BY <1>1, <1>2, DesktopType, PanelIs

LEMMA HeardOfOthers ==
  ASSUME NEW m, Heard(m),
         \A v \in ask' : v # m.wave =>
           v \in ask /\ (v \in sent => v \in sent') /\ (v \in lapsed => v \in lapsed'),
         panel.open => \/ active = m.wave \/ active \in lapsed'
                       \/ active' = active /\ panel'.open,
         m.wave \in ask' =>
           /\ dir'[m.wave].phase \in {"lobby", "racing", "dismissed"}
           /\ m.wave \notin lapsed' =>
                /\ dir'[m.wave].phase = "lobby" =>
                     /\ dir'[m.wave].joined
                     /\ m.wave \in sent' \/ (m.wave = active' /\ panel'.open)
                /\ dir'[m.wave].phase = "racing" => m.wave \in sent'
  PROVE  AskInv'
<1> SUFFICES ASSUME NEW v \in ask'
             PROVE  /\ dir'[v].phase \in {"lobby", "racing", "dismissed"}
                    /\ v \notin lapsed' =>
                         /\ dir'[v].phase = "lobby" =>
                              dir'[v].joined /\ (v \in sent' \/ (v = active' /\ panel'.open))
                         /\ dir'[v].phase = "racing" => v \in sent'
  BY DEF AskInv
<1>1. CASE v = m.wave
  BY <1>1
<1>2. CASE v # m.wave
  <2>1. v \in ask /\ AskInv /\ ask \in SUBSET Wave /\ \A u \in Wave : u # m.wave => dir'[u] = dir[u]
    BY <1>2, PanelIs DEF Heard, IInv
  <2>2. dir'[v] = dir[v]
    BY <1>2, <2>1
  <2> QED
    BY <1>2, <2>1, <2>2 DEF AskInv
<1> QED
  BY <1>1, <1>2

\* A wave that is not shown.
LEMMA UnseenKeeps ==
  ASSUME NEW m, Heard(m), m.wave # active, UNCHANGED active, Unseen(m)
  PROVE  IInv'
<1>1. /\ TypeOK /\ CentreInv /\ AskInv /\ LobbyInv /\ m.ev \in WaveEvent /\ m.wave \in Wave
      /\ dir \in [Wave -> Entry] /\ UNCHANGED <<panel, cmds, active, fees>>
      /\ msgs \in Seq(Report) /\ msgs # <<>> /\ m = Head(msgs) /\ msgs' = Tail(msgs)
  BY TypeIs DEF Heard, IInv, Unseen, engVars
<1>2. /\ \/ /\ m.ev = "wave-idle" /\ ask' = ask \ {m.wave} /\ sent' = sent \ {m.wave}
            /\ lapsed' = lapsed \ {m.wave} /\ stranded' = stranded \ {m.wave}
         \/ m.ev # "wave-idle" /\ UNCHANGED <<ask, sent, lapsed, stranded>>
      /\ waived' \in SUBSET waived /\ missed' \in SUBSET missed
  BY DEF Unseen, Forget, ghosts, lapsed
<1>3. active \in Wave \cup {None} /\ (active # None => dir'[active] = dir[active])
  BY <1>1, PanelIs DEF Heard
<1>4. TypeOK'
  BY <1>1, <1>2, HeardType, PanelIs, TypeIs
<1>5. CentreInv'
  BY <1>1, <1>3 DEF CentreInv, Shows
<1>6. AskInv'
  <2>1. ASSUME m.wave \in ask'
        PROVE  /\ dir'[m.wave].phase \in {"lobby", "racing", "dismissed"}
               /\ m.wave \notin lapsed' =>
                    /\ dir'[m.wave].phase = "lobby" =>
                         /\ dir'[m.wave].joined
                         /\ m.wave \in sent' \/ (m.wave = active' /\ panel'.open)
                    /\ dir'[m.wave].phase = "racing" => m.wave \in sent'
    <3>1. PICK e, h : e = dir[m.wave] /\ h = dir'[m.wave]
      OBVIOUS
    <3>2. /\ m.ev # "wave-idle" /\ m.wave \in ask /\ sent' = sent /\ lapsed' = lapsed
          /\ e.phase \in {"lobby", "racing", "dismissed"}
          /\ m.wave \notin lapsed => /\ e.phase = "lobby" => e.joined /\ m.wave \in sent
                                     /\ e.phase = "racing" => m.wave \in sent
      BY <1>1, <1>2, <2>1, <3>1 DEF AskInv
    <3>3. CASE ~Hears(m.wave, m, e)
      BY <1>1, <3>1, <3>2, <3>3 DEF Heard
    <3>4. CASE Hears(m.wave, m, e)
      <4>1. Becomes(m, e, h) /\ Allowed(m.wave, m, e) /\ e.phase # "dismissed" /\ About(m, m.wave)
        BY <3>1, <3>4 DEF Heard, Hears
      <4>2. m.ev # "wave-announce"
        BY <3>2, <4>1 DEF Allowed
      <4>3. h.phase \in {e.phase, "racing"} /\ (h.phase = "lobby" /\ e.joined => h.joined)
        BY <3>2, <4>1, <4>2 DEF Becomes, PhaseOf, SeatOf
      <4> QED
        BY <1>1, <3>1, <3>2, <4>1, <4>3
    <3> QED
      BY <3>3, <3>4
  <2>2. \A v \in ask' : v # m.wave =>
          v \in ask /\ (v \in sent => v \in sent') /\ (v \in lapsed => v \in lapsed')
    BY <1>1, <1>2
  <2> QED
    BY <1>1, <2>1, <2>2, HeardOfOthers
<1>7. LobbyInv'
  <2> SUFFICES ASSUME active # None, dir[active].phase = "lobby"
               PROVE  SeatAsks(active)' /\ JoinAsks(active)'
    BY <1>1, <1>3 DEF LobbyInv
  <2>1. SeatAsks(active) /\ JoinAsks(active)
    BY <1>1 DEF LobbyInv
  <2>2. /\ active \in sent => active \in sent'
        /\ active \in lapsed <=> active \in lapsed'
        /\ active \in stranded => active \in stranded'
    BY <1>2
  <2>3. SeatAsks(active)'
    BY <1>1, <1>3, <2>1, <2>2 DEF SeatAsks
  <2>4. Pending(active) => Pending(active)'
    <3>1. PICK a : a = active
      OBVIOUS
    <3>2. PendingIn(a, msgs) => Answers(a, m) \/ PendingIn(a, msgs')
      BY <1>1, PendingFrom
    <3> QED
      BY <1>1, <3>1, <3>2 DEF Pending, Answers, Moves
  <2>5. JoinAsks(active)'
    BY <1>1, <1>3, <2>1, <2>2, <2>4 DEF JoinAsks, Joining
  <2> QED
    BY <2>3, <2>5
<1> QED
  BY <1>4, <1>5, <1>6, <1>7 DEF IInv, Heard

\* A message about the wave that is shown.
Here(m) == Heard(m) /\ active = m.wave /\ UNCHANGED active

LEMMA HereIs ==
  ASSUME NEW m, Here(m)
  PROVE  /\ TypeOK /\ CentreInv /\ AskInv /\ LobbyInv /\ ToldInv' /\ Idle
         /\ active \in Wave /\ active # None /\ panel \in Panel /\ m \in Report /\ m.ev \in WaveEvent
         /\ cmds \in Seq(Order) /\ Shows(active) /\ m.joined \in BOOLEAN /\ m.paid \in Paid
         /\ Becomes(m, dir[active], dir'[active])
         /\ m.ev = "wave-announce" => dir[active].phase = "ended"
         /\ m.ev \in {"joined", "wave-verified"} => dir[active].phase = "lobby"
         /\ OwnSeat(active, dir[active])
<1>1. /\ TypeOK /\ CentreInv /\ AskInv /\ LobbyInv /\ ToldInv /\ ToldInv' /\ Idle
      /\ active \in Wave /\ panel \in Panel /\ m \in Report /\ m.ev \in WaveEvent
      /\ active = m.wave /\ msgs \in Seq(Report) /\ cmds \in Seq(Order) /\ active # None
  BY PanelIs, TypeIs DEF Here, Heard, IInv
<1>2. Shows(active)
  BY <1>1 DEF CentreInv
<1>3. m.ev # "wallet" /\ About(m, active)
  BY <1>1 DEF WaveEvent, About
<1>4. Hears(active, m, dir[active])
  BY <1>2, <1>3 DEF Hears, Shows
<1>5. Becomes(m, dir[active], dir'[active]) /\ Allowed(active, m, dir[active])
  BY <1>1, <1>4 DEF Here, Heard
<1>6. OwnSeat(active, dir[active])
  <2>1. PICK a \in Wave : a = active
    BY <1>1
  <2>2. PICK d \in Entry : Leads(a, msgs, dir[a], d)
    BY <1>1 DEF ToldInv, Told, Reaches
  <2>3. PICK e : e = dir[a]
    OBVIOUS
  <2>4. OwnSeat(a, e)
    BY <1>1, <2>2, <2>3, LeadsTells
  <2> QED
    BY <2>1, <2>3, <2>4
<1>7. m.joined \in BOOLEAN /\ m.paid \in Paid
  BY <1>1 DEF Report, Paid
<1>8. m.ev = "wave-announce" => dir[active].phase = "ended"
  BY <1>2, <1>3, <1>5 DEF Allowed, Shows
<1>9. m.ev \in {"joined", "wave-verified"} => dir[active].phase = "lobby"
  BY <1>2, <1>3, <1>5 DEF Allowed, Shows
<1> QED
  BY <1>1, <1>2, <1>5, <1>6, <1>7, <1>8, <1>9

\* What a lobby waits for is still on its way, or it was this message.
LEMMA HereWaits ==
  ASSUME NEW m, Here(m), UNCHANGED <<cmds, stranded>>
  PROVE  /\ Pending(active) => Answers(active, m) \/ Pending(active)'
         /\ Joining(active) => Joining(active)'
         /\ Unpays(m, active) => Pending(active)'
<1>1. /\ TypeOK /\ ToldInv /\ msgs \in Seq(Report) /\ msgs # <<>> /\ m = Head(msgs)
      /\ msgs' = Tail(msgs) /\ active \in Wave /\ UNCHANGED <<active, fees>>
  BY HereIs, TypeIs DEF Here, Heard, IInv, engVars
<1>2. PICK a \in Wave : a = active
  BY <1>1
<1>3. PendingIn(a, msgs) => Answers(a, m) \/ PendingIn(a, msgs')
  BY <1>1, PendingFrom
<1>4. UnpaidEnds(a, msgs)
  BY <1>1 DEF ToldInv, Told
<1>5. Unpays(m, a) => \E j \in DOMAIN msgs' : Idles(msgs'[j], a)
  BY <1>1, <1>4, UnpaidFrom
<1>6. Unpays(m, a) => PendingIn(a, msgs')
  BY <1>5 DEF PendingIn, Answers, Moves, Idles
<1> QED
  BY <1>1, <1>2, <1>3, <1>6 DEF Pending, Joining

\* A seat is had, or the fee of my wave is paid: a moment is asked for.
LEMMA BeginKeeps ==
  ASSUME NEW m, Here(m), BeginCapture(m),
         m.ev = "joined" \/ (m.ev = "wave-verified" /\ m.wave = Mine)
  PROVE  IInv'
<1>1. /\ TypeOK /\ CentreInv /\ AskInv /\ panel \in Panel /\ active \in Wave /\ ToldInv'
      /\ active # None /\ active = m.wave /\ UNCHANGED active /\ cmds \in Seq(Order) /\ Idle
      /\ Becomes(m, dir[active], dir'[active]) /\ dir[active].phase = "lobby"
      /\ OwnSeat(active, dir[active])
  BY HereIs DEF Here
<1>2. /\ panel' = Begin(panel) /\ ask' = ask \cup {active} /\ lapsed' = lapsed \ {active}
      /\ UNCHANGED <<cmds, sent, stranded>> /\ waived' \in SUBSET waived /\ missed' \in SUBSET missed
  BY <1>1 DEF BeginCapture, Asked, Unstaged, lapsed
<1>3. dir'[active].phase = "lobby" /\ dir'[active].joined
  BY <1>1 DEF Becomes, PhaseOf, SeatOf, OwnSeat
<1>4. Paints(panel, panel') /\ panel'.open /\ panel'.shut /\ panel'.shows = None
  <2>1. PICK p \in Panel : p = panel
    BY <1>1
  <2>2. /\ Paints(p, Begin(p)) /\ Begin(p).open /\ Begin(p).shut /\ Begin(p).shows = None
    BY BeginIs
  <2> QED
    BY <1>2, <2>1, <2>2
<1>5. panel' \in Panel /\ panel'.asking <= MaxAsks
  BY <1>1, <1>4, PaintedType
<1>6. TypeOK'
  BY <1>1, <1>2, <1>5, HeardType, PanelIs DEF Here
<1>7. CentreInv'
  BY <1>1, <1>3, <1>4 DEF CentreInv, Paints, Shows
<1>8. AskInv'
  BY <1>1, <1>2, <1>3, <1>4, HeardOfOthers DEF Here
<1>9. LobbyInv'
  BY <1>1, <1>3, <1>4 DEF LobbyInv, SeatAsks, JoinAsks
<1> QED
  BY <1>1, <1>6, <1>7, <1>8, <1>9 DEF IInv

\* The lobby panel changes; seats and moments may be given up.
LEMMA PanelsKeep ==
  ASSUME NEW m, Here(m), NEW S \in SUBSET {m.wave}, Waive(S) \/ Miss(S), Unstaged,
         panel' \in Panel, panel'.asking = panel.asking, Camera(panel) => Camera(panel)',
         SameCentre(panel, panel'), panel'.open = panel.open,
         \/ dir'[active].phase = dir[active].phase
         \/ dir[active].phase = "ended" /\ dir'[active].phase = "lobby",
         dir[active].phase = "lobby" => dir'[active].joined = dir[active].joined,
         dir'[active].phase = "lobby" => SeatAsks(active)' /\ JoinAsks(active)'
  PROVE  IInv'
<1>1. /\ TypeOK /\ CentreInv /\ AskInv /\ active \in Wave /\ ToldInv'
      /\ active # None /\ active = m.wave /\ UNCHANGED active /\ cmds \in Seq(Order) /\ Idle
      /\ Shows(active) /\ dir[active].phase \in {"lobby", "racing", "ended"}
  BY HereIs DEF Here, Shows
<1>2. /\ lapsed' = lapsed \cup S /\ UNCHANGED <<cmds, sent, ask, stranded>>
      /\ waived' \in SUBSET waived \cup S /\ missed' \in SUBSET missed \cup S
  BY DEF Waive, Miss, Unstaged, lapsed
<1>3. TypeOK'
  BY <1>1, <1>2, HeardType, PanelIs DEF Here
<1>4. CentreInv'
  BY <1>1 DEF CentreInv, Shows, SameCentre
<1>5. AskInv'
  <2>1. m.wave \in ask => dir[active].phase \in {"lobby", "racing"}
    BY <1>1 DEF AskInv
  <2>2. m.wave \in ask' =>
          /\ dir'[m.wave].phase \in {"lobby", "racing", "dismissed"}
          /\ m.wave \notin lapsed' =>
               /\ dir'[m.wave].phase = "lobby" =>
                    /\ dir'[m.wave].joined
                    /\ m.wave \in sent' \/ (m.wave = active' /\ panel'.open)
               /\ dir'[m.wave].phase = "racing" => m.wave \in sent'
    BY <1>1, <1>2, <2>1 DEF AskInv
  <2> QED
    BY <1>1, <1>2, <2>2, HeardOfOthers DEF Here
<1>6. LobbyInv'
  BY <1>1 DEF LobbyInv
<1> QED
  BY <1>1, <1>3, <1>4, <1>5, <1>6 DEF IInv

\* The wave of someone else is announced: it is offered, or says I am in.
LEMMA TheirsKeeps ==
  ASSUME NEW m, Here(m), m.ev = "wave-announce", m.wave # Mine, AnnounceTheirs(m)
  PROVE  IInv'
<1>1. /\ panel \in Panel /\ active \in Wave /\ active = m.wave /\ UNCHANGED active
      /\ m.joined \in BOOLEAN /\ m.paid \in Paid
      /\ Becomes(m, dir[active], dir'[active]) /\ dir[active].phase = "ended"
  BY HereIs DEF Here
<1>2. /\ panel' = Offer(panel, m.joined, m.paid) /\ Unstaged
      /\ Miss(IF m.joined THEN {m.wave} ELSE {})
  BY DEF AnnounceTheirs
<1>3. /\ dir'[active].phase = "lobby" /\ dir'[active].joined = m.joined
      /\ dir'[active].paid = m.paid
  BY <1>1 DEF Becomes, PhaseOf, SeatOf, PaidOf
<1>4. /\ panel' \in Panel /\ (Camera(panel) => Camera(panel)') /\ panel'.asking = panel.asking
      /\ SameCentre(panel, panel') /\ panel'.open = panel.open
      /\ ~m.joined => panel'.lobby = "offer" /\ panel'.ok = (m.paid = "verified")
  <2>1. PICK p \in Panel : p = panel
    BY <1>1
  <2>2. PICK q : q = Offer(p, m.joined, m.paid)
    OBVIOUS
  <2>3. /\ q \in Panel /\ (Camera(p) => Camera(q)) /\ q.asking = p.asking /\ SameCentre(p, q)
        /\ q.open = p.open /\ (~m.joined => q.lobby = "offer" /\ q.ok = (m.paid = "verified"))
    BY <1>1, <2>2, OfferIs
  <2>4. panel' = q
    BY <1>2, <2>1, <2>2
  <2> QED
    BY <2>1, <2>3, <2>4
<1>5. SeatAsks(active)' /\ JoinAsks(active)'
  <2>1. m.joined => active \in lapsed'
    BY <1>1, <1>2 DEF Miss, lapsed
  <2>2. SeatAsks(active)'
    BY <1>1, <1>3, <2>1 DEF SeatAsks
  <2>3. JoinAsks(active)'
    BY <1>1, <1>3, <1>4 DEF JoinAsks, Enabled, Offers
  <2> QED
    BY <2>2, <2>3
<1>6. (IF m.joined THEN {m.wave} ELSE {}) \in SUBSET {m.wave}
  OBVIOUS
<1> QED
  BY <1>1, <1>2, <1>3, <1>4, <1>5, <1>6, PanelsKeep

\* Its start fee is paid: the join button works.
LEMMA JoinableKeeps ==
  ASSUME NEW m, Here(m), m.ev = "wave-verified", m.wave # Mine, Panels(Joinable(panel), {})
  PROVE  IInv'
<1>1. /\ panel \in Panel /\ active \in Wave /\ active # None /\ active = m.wave
      /\ UNCHANGED active /\ LobbyInv
      /\ Becomes(m, dir[active], dir'[active]) /\ dir[active].phase = "lobby"
  BY HereIs DEF Here
<1>2. panel' = Joinable(panel) /\ Unstaged /\ Waive({}) /\ lapsed' = lapsed
      /\ UNCHANGED <<cmds, sent, ask, stranded>>
  BY DEF Panels, Waive, Unstaged, lapsed
<1>3. /\ dir'[active].phase = "lobby" /\ dir'[active].joined = dir[active].joined
      /\ dir'[active].paid = "verified"
  BY <1>1 DEF Becomes, PhaseOf, SeatOf, PaidOf
<1>4. /\ panel' \in Panel /\ (Camera(panel) => Camera(panel)') /\ panel'.asking = panel.asking
      /\ SameCentre(panel, panel') /\ panel'.open = panel.open /\ panel'.lobby = panel.lobby
      /\ panel.lobby = "offer" => panel'.ok
  <2>1. PICK p \in Panel : p = panel
    BY <1>1
  <2>2. /\ Joinable(p) \in Panel /\ (Camera(p) => Camera(Joinable(p)))
        /\ Joinable(p).asking = p.asking /\ SameCentre(p, Joinable(p))
        /\ Joinable(p).open = p.open /\ Joinable(p).lobby = p.lobby
        /\ p.lobby = "offer" => Joinable(p).ok
    BY JoinableIs
  <2> QED
    BY <1>2, <2>1, <2>2
<1>5. SeatAsks(active)' /\ JoinAsks(active)'
  <2>1. SeatAsks(active) /\ JoinAsks(active)
    BY <1>1 DEF LobbyInv
  <2>2. SeatAsks(active)'
    BY <1>1, <1>2, <1>3, <1>4, <2>1 DEF SeatAsks
  <2>3. /\ Pending(active) => Pending(active)'
        /\ Joining(active) => Joining(active)'
    BY <1>2, HereWaits DEF Answers, Moves
  <2>4. JoinAsks(active)'
    BY <1>1, <1>2, <1>3, <1>4, <2>1, <2>3 DEF JoinAsks, Offers
  <2> QED
    BY <2>2, <2>4
<1> QED
  BY <1>1, <1>2, <1>3, <1>4, <1>5, PanelsKeep

\* A seat is not had, or the wave is unpaid: the lobby panel closes.
LEMMA HideKeeps ==
  ASSUME NEW m, Here(m), NEW S \in SUBSET {m.wave}, Panels(Hide(panel), S),
         \/ m.ev = "join-refused" /\ S = {m.wave}
         \/ m.ev = "wave-unpaid" /\ S = {}
  PROVE  IInv'
<1>1. /\ panel \in Panel /\ active \in Wave /\ active # None /\ active = m.wave
      /\ UNCHANGED active /\ LobbyInv /\ Becomes(m, dir[active], dir'[active])
  BY HereIs DEF Here
<1>2. panel' = Hide(panel) /\ Unstaged /\ Waive(S) /\ lapsed' = lapsed \cup S
      /\ UNCHANGED <<cmds, sent, ask, stranded>>
  BY DEF Panels, Waive, Unstaged, lapsed
<1>3. /\ dir'[active].phase = dir[active].phase /\ dir'[active].joined = dir[active].joined
      /\ dir'[active].paid = dir[active].paid
  BY <1>1 DEF Becomes, PhaseOf, SeatOf, PaidOf
<1>4. /\ panel' \in Panel /\ (Camera(panel) => Camera(panel)') /\ panel'.asking = panel.asking
      /\ SameCentre(panel, panel') /\ panel'.open = panel.open /\ panel'.lobby = "closed"
  <2>1. PICK p \in Panel : p = panel
    BY <1>1
  <2>2. /\ Hide(p) \in Panel /\ (Camera(p) => Camera(Hide(p))) /\ Hide(p).asking = p.asking
        /\ Hide(p).lobby = "closed" /\ SameCentre(p, Hide(p)) /\ Hide(p).open = p.open
    BY HideIs
  <2> QED
    BY <1>2, <2>1, <2>2
<1>5. ASSUME dir'[active].phase = "lobby" PROVE SeatAsks(active)' /\ JoinAsks(active)'
  <2>1. SeatAsks(active)
    BY <1>1, <1>3, <1>5 DEF LobbyInv
  <2>2. SeatAsks(active)'
    BY <1>1, <1>2, <1>3, <1>4, <2>1 DEF SeatAsks
  <2>3. active \in lapsed' \/ Pending(active)'
    BY <1>1, <1>2, HereWaits DEF Unpays
  <2>4. JoinAsks(active)'
    BY <1>1, <1>4, <2>3 DEF JoinAsks, Enabled
  <2> QED
    BY <2>2, <2>4
<1> QED
  BY <1>1, <1>2, <1>3, <1>4, <1>5, PanelsKeep

\* A join waits for the start fee: only told.
LEMMA PendingKeeps ==
  ASSUME NEW m, Here(m), m.ev = "join-pending", UNCHANGED <<panel, ghosts, cmds>>
  PROVE  IInv'
<1>1. /\ panel \in Panel /\ panel' = panel /\ active \in Wave /\ active # None
      /\ UNCHANGED active /\ LobbyInv /\ Becomes(m, dir[active], dir'[active])
      /\ UNCHANGED <<cmds, ask, sent, waived, missed, stranded>> /\ lapsed' = lapsed
  BY HereIs DEF Here, ghosts, lapsed
<1>2. /\ dir'[active].phase = dir[active].phase /\ dir'[active].joined = dir[active].joined
      /\ dir'[active].paid = dir[active].paid
  BY <1>1 DEF Becomes, PhaseOf, SeatOf, PaidOf
<1>3. Waive({}) /\ Unstaged /\ SameCentre(panel, panel') /\ (Camera(panel) => Camera(panel)')
  BY <1>1 DEF Waive, Unstaged, SameCentre
<1>4. ASSUME dir'[active].phase = "lobby" PROVE SeatAsks(active)' /\ JoinAsks(active)'
  <2>1. SeatAsks(active) /\ JoinAsks(active)
    BY <1>1, <1>2, <1>4 DEF LobbyInv
  <2>2. SeatAsks(active)'
    BY <1>1, <1>2, <2>1 DEF SeatAsks
  <2>3. /\ Pending(active) => Pending(active)'
        /\ Joining(active) => Joining(active)'
    BY <1>1, HereWaits DEF Answers, Moves
  <2>4. JoinAsks(active)'
    BY <1>1, <1>2, <2>1, <2>3 DEF JoinAsks, Offers
  <2> QED
    BY <2>2, <2>4
<1> QED
  BY <1>1, <1>2, <1>3, <1>4, PanelsKeep

\* The sweep begins: what is framed is staged, and the centre is the gallery's.
LEMMA ActiveKeeps ==
  ASSUME NEW m, Here(m), m.ev = "wave-active", WaveActive
  PROVE  IInv'
<1>1. /\ TypeOK /\ CentreInv /\ AskInv /\ panel \in Panel /\ active \in Wave /\ active # None
      /\ active = m.wave /\ UNCHANGED active /\ ToldInv' /\ Idle /\ Shows(active)
      /\ Becomes(m, dir[active], dir'[active])
  BY HereIs DEF Here
<1>2. /\ Stage /\ UNCHANGED <<ask, waived, missed, stranded>> /\ lapsed' = lapsed
      /\ panel' = Gallery(IF panel.open THEN Shut(Hide(panel)) ELSE Hide(panel))
  BY DEF WaveActive, lapsed
<1>3. dir'[active].phase = "racing"
  BY <1>1 DEF Becomes, PhaseOf
<1>4. /\ cmds' \in Seq(Order) /\ sent' \in SUBSET Wave /\ sent \in SUBSET sent'
      /\ panel.open => active \in sent'
  BY <1>1, <1>2, StageIs
<1>5. /\ panel' \in Panel /\ panel'.asking = panel.asking /\ (Camera(panel) => Camera(panel)')
      /\ ~panel'.open /\ ~panel'.shut /\ panel'.shows = panel.shows
  <2>1. PICK p, q, r : /\ p = panel /\ q = Hide(p)
                       /\ r = IF p.open THEN Shut(q) ELSE q
    OBVIOUS
  <2>2. /\ q \in Panel /\ (Camera(p) => Camera(q)) /\ q.asking = p.asking
        /\ SameCentre(p, q) /\ q.open = p.open
    BY <1>1, <2>1, HideIs
  <2>3. /\ r \in Panel /\ (Camera(q) => Camera(r)) /\ r.asking = q.asking
        /\ SameCentre(q, r) /\ ~r.open
    <3>1. CASE p.open
      BY <2>1, <2>2, <3>1, ShutIs
    <3>2. CASE ~p.open
      BY <2>1, <2>2, <3>2 DEF SameCentre
    <3> QED
      BY <3>1, <3>2
  <2>4. /\ Gallery(r) \in Panel /\ (Camera(r) => Camera(Gallery(r)))
        /\ Gallery(r).asking = r.asking /\ Gallery(r).open = r.open
        /\ ~Gallery(r).shut /\ Gallery(r).shows = r.shows
    BY <2>3, GalleryIs
  <2>5. panel' = Gallery(r) /\ panel = p
    BY <1>2, <2>1
  <2> QED
    BY <2>2, <2>3, <2>4, <2>5 DEF SameCentre
<1>6. TypeOK'
  BY <1>1, <1>2, <1>4, <1>5, HeardType, PanelIs DEF Here
<1>7. CentreInv'
  BY <1>1, <1>3, <1>5 DEF CentreInv, Shows
<1>8. AskInv'
  <2>1. m.wave \in ask /\ m.wave \notin lapsed => m.wave \in sent'
    BY <1>1, <1>4 DEF AskInv, Shows
  <2> QED
    BY <1>1, <1>2, <1>3, <1>4, <2>1, HeardOfOthers DEF Here
<1>9. LobbyInv'
  BY <1>1, <1>3 DEF LobbyInv
<1> QED
  BY <1>1, <1>6, <1>7, <1>8, <1>9 DEF IInv

\* The wave is over: nothing is asked for, and the centre is the gallery's.
LEMMA IdleKeeps ==
  ASSUME NEW m, Here(m), m.ev = "wave-idle", WaveIdle(m)
  PROVE  IInv'
<1>1. /\ TypeOK /\ CentreInv /\ AskInv /\ panel \in Panel /\ active \in Wave /\ active # None
      /\ active = m.wave /\ UNCHANGED active /\ ToldInv' /\ Idle
      /\ Becomes(m, dir[active], dir'[active]) /\ cmds \in Seq(Order)
  BY HereIs DEF Here
<1>2. /\ ask' = ask \ {m.wave} /\ sent' = sent \ {m.wave} /\ UNCHANGED cmds
      /\ lapsed' = lapsed \ {m.wave} /\ Forget(m.wave)
      /\ panel' = Gallery(Shut(Hide(panel)))
  BY DEF WaveIdle, Forget, lapsed
<1>3. dir'[active].phase = "ended"
  BY <1>1 DEF Becomes, PhaseOf
<1>4. /\ panel' \in Panel /\ panel'.asking = panel.asking /\ (Camera(panel) => Camera(panel)')
      /\ ~panel'.open /\ ~panel'.shut /\ panel'.shows = panel.shows
  <2>1. PICK p, q, r : p = panel /\ q = Hide(p) /\ r = Shut(q)
    OBVIOUS
  <2>2. /\ q \in Panel /\ (Camera(p) => Camera(q)) /\ q.asking = p.asking
        /\ SameCentre(p, q) /\ q.open = p.open
    BY <1>1, <2>1, HideIs
  <2>3. /\ r \in Panel /\ (Camera(q) => Camera(r)) /\ r.asking = q.asking
        /\ SameCentre(q, r) /\ ~r.open
    BY <2>1, <2>2, ShutIs
  <2>4. /\ Gallery(r) \in Panel /\ (Camera(r) => Camera(Gallery(r)))
        /\ Gallery(r).asking = r.asking /\ Gallery(r).open = r.open
        /\ ~Gallery(r).shut /\ Gallery(r).shows = r.shows
    BY <2>3, GalleryIs
  <2>5. panel' = Gallery(r) /\ panel = p
    BY <1>2, <2>1
  <2> QED
    BY <2>2, <2>3, <2>4, <2>5 DEF SameCentre
<1>5. TypeOK'
  BY <1>1, <1>2, <1>4, HeardType, PanelIs DEF Here, Forget
<1>6. CentreInv'
  BY <1>1, <1>3, <1>4 DEF CentreInv, Shows
<1>7. AskInv'
  BY <1>1, <1>2, HeardOfOthers DEF Here
<1>8. LobbyInv'
  BY <1>1, <1>3 DEF LobbyInv
<1> QED
  BY <1>1, <1>5, <1>6, <1>7, <1>8 DEF IInv

\* A wave of mine is announced, and shown.
LEMMA MineKeeps ==
  ASSUME NEW m, Heard(m), m.ev = "wave-announce", m.wave = Mine, active' = Mine, AnnounceMine(m)
  PROVE  IInv'
<1>1. /\ TypeOK /\ CentreInv /\ AskInv /\ panel \in Panel /\ Mine \in Wave /\ ToldInv' /\ Idle
      /\ Allowed(Mine, m, dir[Mine]) /\ cmds \in Seq(Order) /\ m.wave # None
  BY PanelIs, TypeIs DEF Heard, IInv
<1>2. About(m, Mine)
  BY DEF About
<1>3. dir[Mine].phase = "none" /\ m.joined
  BY <1>1, <1>2 DEF Allowed
<1>4. Hears(Mine, m, dir[Mine])
  BY <1>2, <1>3 DEF Hears
<1>5. Becomes(m, dir[Mine], dir'[Mine])
  BY <1>4 DEF Heard
<1>6. dir'[Mine].phase = "lobby" /\ dir'[Mine].joined /\ dir'[Mine].paid = m.paid
  BY <1>3, <1>5 DEF Becomes, PhaseOf, SeatOf, PaidOf
<1>7. /\ Mine \notin ask /\ active # Mine
  BY <1>1, <1>3 DEF AskInv, CentreInv, Shows, None
<1>8. /\ panel' = IF m.paid = "verified" THEN Begin(panel) ELSE Centre(panel)
      /\ missed' = (missed \cup (IF panel.open THEN {active} \ {None} ELSE {})) \ {Mine}
      /\ waived' = waived \ {Mine}
      /\ ask' = IF m.paid = "verified" THEN ask \cup {Mine} ELSE ask
      /\ UNCHANGED <<cmds, sent, stranded>>
  BY DEF AnnounceMine, Unstaged
<1>9. /\ Paints(panel, panel') /\ panel'.shut /\ panel'.shows = None
      /\ m.paid = "verified" => panel'.open
  <2>1. PICK p \in Panel : p = panel
    BY <1>1
  <2>2. Paints(p, Begin(p)) /\ Begin(p).open /\ Begin(p).shut /\ Begin(p).shows = None
    BY BeginIs
  <2>3. PICK q : q = Centre(p)
    OBVIOUS
  <2>4. /\ q \in Panel /\ (Camera(p) => Camera(q)) /\ q.asking = p.asking
        /\ q.shut /\ q.shows = None
    BY <2>3, CentreIs
  <2>5. Paints(p, q)
    BY <2>4 DEF Paints, Panel
  <2>6. panel' = IF m.paid = "verified" THEN Begin(p) ELSE q
    BY <1>8, <2>1, <2>3
  <2> QED
    BY <2>1, <2>2, <2>4, <2>5, <2>6
<1>10. panel' \in Panel /\ panel'.asking <= MaxAsks
  BY <1>1, <1>9, PaintedType
<1>11. active \in Wave \cup {None} /\ ask \in SUBSET Wave /\ sent \in SUBSET Wave
       /\ waived \in SUBSET Wave /\ missed \in SUBSET Wave /\ stranded \in SUBSET Wave
  BY <1>1, PanelIs
<1>12. TypeOK'
  <2>1. ask' \in SUBSET Wave /\ waived' \in SUBSET Wave /\ missed' \in SUBSET Wave
    BY <1>1, <1>8, <1>11
  <2> QED
    BY <1>1, <1>8, <1>10, <1>11, <2>1, HeardType
<1>13. CentreInv'
  BY <1>1, <1>6, <1>9 DEF CentreInv, Paints, Shows
<1>14. AskInv'
  <2>1. panel.open => active \in lapsed'
    BY <1>1, <1>7, <1>8 DEF CentreInv, lapsed
  <2>2. \A v \in ask' : v # m.wave =>
          v \in ask /\ (v \in sent => v \in sent') /\ (v \in lapsed => v \in lapsed')
    BY <1>8 DEF lapsed
  <2>3. m.wave \in ask' => panel'.open
    BY <1>7, <1>8, <1>9
  <2> QED
    BY <1>6, <2>1, <2>2, <2>3, HeardOfOthers
<1>15. LobbyInv'
  BY <1>6, <1>9 DEF LobbyInv, SeatAsks, JoinAsks
<1> QED
  BY <1>1, <1>12, <1>13, <1>14, <1>15 DEF IInv

\* The wallet has moved: a wave of another network is left, and what stays is painted.
LEMMA WalletKeeps ==
  ASSUME IInv, Handle, Head(msgs).ev = "wallet"
  PROVE  IInv'
<1>1. PICK m : m = Head(msgs)
  OBVIOUS
<1>2. /\ TypeOK /\ ToldInv /\ CentreInv /\ AskInv /\ Idle /\ msgs # <<>> /\ msgs' = Tail(msgs)
      /\ msgs \in Seq(Report) /\ cmds \in Seq(Order) /\ dir \in [Wave -> Entry]
      /\ HandleWallet(m) /\ UNCHANGED engVars
  BY <1>1, TypeIs DEF IInv, Handle
<1>3. m \in Report /\ m.ev = "wallet"
  BY <1>1, <1>2
<1>4. m.wave \in Network
  BY <1>3 DEF Report, WaveEvent
<1>5. /\ net' = m.wave /\ UNCHANGED <<dir, cmds, ask, sent>> /\ panel' = Shown(active', dir)
      /\ missed' = missed \cup (IF active' # active /\ panel.open THEN {active} ELSE {})
      /\ UNCHANGED <<waived, stranded>>
      /\ \/ active' = active
         \/ active' = None /\ active # None
  BY <1>2 DEF HandleWallet, Miss
<1>6. /\ active \in Wave \cup {None} /\ active' \in Wave \cup {None} /\ panel \in Panel
      /\ ask \in SUBSET Wave /\ sent \in SUBSET Wave /\ waived \in SUBSET Wave
      /\ missed \in SUBSET Wave /\ stranded \in SUBSET Wave
  BY <1>2, <1>5, PanelIs
<1>7. Paints(panel, panel') /\ Painted(active', dir, panel')
  <2>1. PICK a \in Wave \cup {None}, d \in [Wave -> Entry] : a = active' /\ d = dir
    BY <1>2, <1>6
  <2>2. Paints(panel, Shown(a, d)) /\ Painted(a, d, Shown(a, d))
    BY <1>6, ShownIs
  <2> QED
    BY <1>5, <2>1, <2>2
<1>8. panel' \in Panel /\ panel'.asking <= MaxAsks
  BY <1>2, <1>7, PaintedType
<1>9. TypeOK'
  <2>1. missed' \in SUBSET Wave /\ msgs' \in Seq(Report)
    BY <1>2, <1>5, <1>6
  <2> QED
    BY <1>2, <1>4, <1>5, <1>6, <1>8, <2>1, DesktopType
<1>10. ToldInv'
  <2>1. \A v \in Wave : ~About(m, v)
    BY <1>3 DEF About
  <2>2. \A v \in Wave : dir'[v] = Hear(v, m, dir[v])
    BY <1>5, <2>1, HearOther
  <2> QED
    BY <1>1, <1>2, <1>3, <2>2, HandleTold DEF engVars
<1>11. CentreInv'
  BY <1>2, <1>5, <1>7, PaintedCentre DEF CentreInv, Shows
<1>12. AskInv'
  <2>1. panel.open =>
          \/ /\ active' = active
             /\ dir[active].phase = "lobby" /\ dir[active].joined => panel'.open
          \/ active \in lapsed'
    BY <1>2, <1>5, <1>7 DEF CentreInv, Painted, lapsed
  <2> SUFFICES ASSUME NEW v \in ask
               PROVE  /\ dir[v].phase \in {"lobby", "racing", "dismissed"}
                      /\ v \notin lapsed' =>
                           /\ dir[v].phase = "lobby" =>
                                dir[v].joined /\ (v \in sent \/ (v = active' /\ panel'.open))
                           /\ dir[v].phase = "racing" => v \in sent
    BY <1>5 DEF AskInv
  <2>2. lapsed \in SUBSET lapsed'
    BY <1>5 DEF lapsed
  <2> QED
    BY <1>2, <2>1, <2>2 DEF AskInv
<1>13. LobbyInv'
  BY <1>5, <1>7, PaintedLobby
<1> QED
  BY <1>9, <1>10, <1>11, <1>12, <1>13 DEF IInv

LEMMA HandleKeeps == IInv /\ Handle => IInv'
<1> SUFFICES ASSUME IInv, Handle PROVE IInv'
  OBVIOUS
<1>1. CASE Head(msgs).ev = "wallet"
  BY <1>1, WalletKeeps
<1>2. CASE Head(msgs).ev # "wallet"
  <2>1. PICK m : m = Head(msgs)
    OBVIOUS
  <2>2. Heard(m) /\ HandleEvent(m)
    BY <1>2, <2>1, HeardIs
  <2>3. /\ active' = IF m.ev = "wave-announce" /\ m.wave = Mine THEN Mine ELSE active
        /\ m.wave = active' => Narrate(m)
        /\ m.wave # active' => Unseen(m)
        /\ m.ev \in WaveEvent
    BY <2>2 DEF HandleEvent, Heard
  <2>4. CASE m.wave # active'
    BY <2>2, <2>3, <2>4, UnseenKeeps
  <2>5. CASE m.wave = active' /\ m.ev = "wave-announce" /\ m.wave = Mine
    <3>1. AnnounceMine(m) /\ active' = Mine
      BY <2>3, <2>5 DEF Narrate
    <3> QED
      BY <2>2, <2>5, <3>1, MineKeeps
  <2>6. CASE m.wave = active' /\ ~(m.ev = "wave-announce" /\ m.wave = Mine)
    <3>1. Here(m) /\ Narrate(m)
      BY <2>2, <2>3, <2>6 DEF Here
    <3>2. CASE m.ev = "wave-announce"
      <4>1. m.wave # Mine /\ AnnounceTheirs(m)
        BY <2>6, <3>1, <3>2 DEF Narrate
      <4> QED
        BY <3>1, <3>2, <4>1, TheirsKeeps
    <3>3. CASE m.ev = "wave-verified" /\ m.wave = Mine
      BY <3>1, <3>3, BeginKeeps DEF Narrate
    <3>4. CASE m.ev = "wave-verified" /\ m.wave # Mine
      BY <3>1, <3>4, JoinableKeeps DEF Narrate
    <3>5. CASE m.ev = "joined"
      BY <3>1, <3>5, BeginKeeps DEF Narrate
    <3>6. CASE m.ev = "join-pending"
      BY <3>1, <3>6, PendingKeeps DEF Narrate
    <3>7. CASE m.ev = "join-refused"
      <4>1. Panels(Hide(panel), {m.wave})
        BY <3>1, <3>7 DEF Narrate
      <4> QED
        BY <3>1, <3>7, <4>1, HideKeeps
    <3>8. CASE m.ev = "wave-unpaid"
      <4>1. Panels(Hide(panel), {})
        BY <3>1, <3>8 DEF Narrate
      <4> QED
        BY <3>1, <3>8, <4>1, HideKeeps
    <3>9. CASE m.ev = "wave-active"
      BY <3>1, <3>9, ActiveKeeps DEF Narrate
    <3>10. CASE m.ev = "wave-idle"
      BY <3>1, <3>10, IdleKeeps DEF Narrate
    <3> QED
      BY <2>3, <3>2, <3>3, <3>4, <3>5, <3>6, <3>7, <3>8, <3>9, <3>10 DEF WaveEvent
  <2> QED
    BY <2>4, <2>5, <2>6
<1> QED
  BY <1>1, <1>2

-----------------------------------------------------------------------------
\* The theorems.

LEMMA NoWaveIs == NoWave \in Entry /\ NoWave \in EngineWave /\ NoWave.phase = "none"
BY DEF NoWave, Entry, EngineWave, Paid

LEMMA InitKeeps == Init => IInv
<1> SUFFICES ASSUME Init PROVE IInv
  OBVIOUS
<1>1. /\ eng = [w \in Wave |-> NoWave] /\ dir = [w \in Wave |-> NoWave] /\ revived = {}
      /\ msgs = <<>> /\ cmds = <<>> /\ active = None /\ net = NetOf[Mine] /\ panel = NoPanel
      /\ ask = {} /\ sent = {} /\ waived = {} /\ missed = {} /\ stranded = {} /\ fees = {}
  BY DEF Init
<1>2. NoPanel \in Panel /\ NoPanel.asking = 0 /\ Camera(NoPanel) /\ ~NoPanel.open
      /\ NoPanel.shows = None
  BY DEF NoPanel, Panel, Camera
<1>3. TypeOK
  <2>1. msgs \in Seq(Report) /\ cmds \in Seq(Order)
    BY <1>1
  <2>2. panel \in [lobby : {"closed", "offer", "in"}, ok : BOOLEAN, open : BOOLEAN,
                   asking : 0..MaxAsks, stream : BOOLEAN, lost : BOOLEAN, late : BOOLEAN,
                   shut : BOOLEAN, shows : Wave \cup {None}]
    <3>1. 0 \in 0 .. MaxAsks
      BY CaptureAssumption
    <3> QED
      BY <1>1, <3>1 DEF NoPanel
  <2>3. net \in Network
    BY <1>1, CaptureAssumption DEF Network
  <2>4. eng \in [Wave -> EngineWave] /\ dir \in [Wave -> Entry]
    BY <1>1, NoWaveIs
  <2> QED
    BY <1>1, <2>1, <2>2, <2>3, <2>4 DEF TypeOK, EngineWave, Entry
<1>4. ToldInv
  <2> SUFFICES ASSUME NEW w \in Wave PROVE Told(w)
    BY Zenon DEF ToldInv
  <2>1. dir[w] = NoWave /\ eng[w] = NoWave
    BY <1>1
  <2>2. OwnSeat(w, NoWave)
    BY NoWaveIs DEF OwnSeat
  <2>3. Leads(w, <<>>, NoWave, NoWave)
    BY <2>2, NoWaveIs, LeadsNowhere
  <2>4. Agrees(w, NoWave, NoWave)
    BY NoWaveIs DEF Agrees, PhaseAgrees
  <2>5. UnpaidEnds(w, msgs)
    BY <1>1 DEF UnpaidEnds
  <2> QED
    BY <1>1, <2>1, <2>3, <2>4, <2>5, NoWaveIs DEF Told, Reaches
<1>5. CentreInv
  BY <1>1, <1>2 DEF CentreInv
<1>6. AskInv /\ LobbyInv
  BY <1>1 DEF AskInv, LobbyInv
<1> QED
  BY <1>3, <1>4, <1>5, <1>6 DEF IInv

LEMMA StutterKeeps == IInv /\ UNCHANGED vars => IInv'
<1> SUFFICES ASSUME IInv, UNCHANGED vars PROVE IInv'
  OBVIOUS
<1>1. /\ UNCHANGED <<engVars, msgs, cmds, dir, active, net, ghosts>> /\ panel' = panel
      /\ panel \in Panel /\ panel.asking <= MaxAsks
  BY PanelIs DEF IInv, vars
<1>2. (Camera(panel) => Camera(panel)') /\ SameLobby(panel, panel')
  BY <1>1 DEF SameLobby
<1> QED
  BY <1>1, <1>2, PaintKeeps

LEMMA NextKeeps == IInv /\ [Next]_vars => IInv'
<1> SUFFICES ASSUME IInv, [Next]_vars PROVE IInv'
  OBVIOUS
<1>1. CASE UNCHANGED vars
  BY <1>1, StutterKeeps
<1>2. CASE \E w \in Wave : Announced(w) \/ Verified(w) \/ Unpaid(w) \/ Races(w) \/ GoIdle(w)
  BY <1>2, AnnouncedKeeps, VerifiedKeeps, UnpaidKeeps, RacesKeeps, GoIdleKeeps
<1>3. CASE Exec
  BY <1>3, ExecKeeps
<1>4. CASE \E n \in Network : MintSwitched(n)
  BY <1>4, MintKeeps
<1>5. CASE Handle \/ CameraAnswers \/ FeedComesIn
  BY <1>5, HandleKeeps, CameraAnswersKeeps, FeedComesInKeeps
<1>6. CASE \E w \in Wave : Select(w) \/ Dismiss(w)
  BY <1>6, SelectKeeps, DismissKeeps
<1>7. CASE Join \/ NotNow \/ Capture \/ Skip \/ Start
  BY <1>7, JoinKeeps, NotNowKeeps, CaptureKeeps, SkipKeeps, StartKeeps
<1>8. CASE \E c \in fees : FundsRead(c)
  BY <1>8, FundsReadKeeps
<1> QED
  BY <1>1, <1>2, <1>3, <1>4, <1>5, <1>6, <1>7, <1>8 DEF Next

\* The directory, through the messages on their way, tells what the engine has, and the panels
\* show what the directory calls for, in every state reached by the handlers of app.js, proof.js
\* and lobby.js, however they are interleaved with the engine and the camera.
THEOREM Invariance == Spec => []IInv
<1>1. Init => IInv
  BY InitKeeps
<1>2. IInv /\ [Next]_vars => IInv'
  BY NextKeeps
<1> QED
  BY <1>1, <1>2, PTL DEF Spec

\* Every variable keeps its type, the messages and the commands on their way included.
THEOREM TypeCorrect == Spec => []TypeOK
<1>1. IInv => TypeOK
  BY DEF IInv
<1> QED
  BY <1>1, Invariance, PTL

\* What the user of the desktop is asked for is what the wave's phase and seat call for once
\* nothing about it is on its way, and the moment asked for is staged before its wave races,
\* also when the user has gone to look at another wave (beginCapture, onBeforeSwitchWave).
\* Two gaps of the code are named and no others are left: a moment is lost only where
\* onBeforeSwitchWave is not called or a kept seat reopens no camera (missed), and the lobby
\* says "you are in" without a seat only to whom was refused for want of funds (stranded).
THEOREM MomentIsTaken == Spec => []MomentTaken
<1>1. IInv => WatchedIsStaged
  BY DEF IInv, AskInv, WatchedIsStaged, lapsed
<1>2. ASSUME IInv PROVE LobbyAsks
  <2> SUFFICES ASSUME active # None, dir[active].phase = "lobby", Settled(active),
                      active \notin lapsed, dir[active].paid = "verified"
               PROVE  IF dir[active].joined THEN panel.open \/ active \in sent
                      ELSE \/ panel.lobby = "offer" /\ panel.ok
                           \/ panel.lobby = "in" /\ active \in stranded
    BY DEF LobbyAsks, lapsed
  <2>1. SeatAsks(active) /\ JoinAsks(active)
    BY <1>2 DEF IInv, LobbyInv
  <2>2. ~Pending(active)
    BY DEF Settled, Pending, PendingIn, Answers, Moves
  <2>3. Joining(active) => active \in stranded
    BY DEF Settled, Joining, JoiningIn, Cmd
  <2> QED
    BY <2>1, <2>2, <2>3 DEF SeatAsks, JoinAsks, Offers
<1>3. IInv => MomentTaken
  BY <1>1, <1>2 DEF MomentTaken
<1> QED
  BY <1>3, Invariance, PTL

\* The centre of the ring has one owner: the camera is on only while a moment is framed, unless
\* it answered late; the gallery paints nothing behind it and nothing of another wave, and is
\* open whenever the wave that is shown races or has ended (proof.js, gallery.js).
THEOREM CentreHasOneOwner == Spec => []OneCentre
<1>1. ASSUME IInv PROVE OneCentre
  <2>1. TypeOK /\ CentreInv
    BY <1>1 DEF IInv
  <2>2. CameraOff
    BY <2>1 DEF CentreInv, Camera, CameraOff
  <2> QED
    BY <2>1, <2>2 DEF CentreInv, OneCentre
<1> QED
  BY <1>1, Invariance, PTL
=============================================================================
