--------------------------- MODULE EntryFeedProofs ---------------------------
(***************************************************************************)
(* Theorems about EntryFeed, for every set of writers and every bound: its *)
(* types, that neither an entry nor its burn ticket is lost between the    *)
(* pipeline, the feed and a lobby given up and revived, and that a view is *)
(* pushed only from a feed that is still held.                             *)
(*                                                                         *)
(* The code's helpers are functions of the engine's state here as in       *)
(* EntryFeed: a lemma per helper says what it keeps, and the lemma about a *)
(* handler chains them the way the handler does.                           *)
(***************************************************************************)
EXTENDS EntryFeed, FiniteSetTheorems, SequenceTheorems, WellFoundedInduction, TLAPS

Feeds == 1 .. MaxOpens

-----------------------------------------------------------------------------
\* The inductive invariant, as predicates on the state s of the engine.

\* A feed held has a number within the bound, and there is one left when none is held.
Numbered(s) ==
  /\ s.f.gen <= MaxOpens
  /\ IF s.f.open THEN s.f.gen >= 1 ELSE s.f.gen < MaxOpens

\* Without a wave nothing of one is left, and an entry is posted only after its slot.
Tidy(s) ==
  /\ s.w.phase = "none" =>
       ~(s.w.joined \/ s.w.signed \/ s.w.timer \/ s.w.slot \/ s.w.posted)
  /\ s.w.posted => s.w.slot

\* My entry is in my core, held for its attestation, or waiting for the core.
Landed(s) == s.core # << >> \/ s.f.pending \/ ~NoPosts(s)

\* Until the user leaves there is one feed, and the calls that wait are its own.
OneFeed(s, left) ==
  /\ s.f.posted => s.core # << >>
  /\ ~left =>
       /\ s.f.open \/ s.f.gen = 0
       /\ \A g \in Feeds : s.posts[g] # << >> => s.f.open /\ g = s.f.gen

\* Until the user leaves it is open for whoever may post.
Opened(s, left) == ~left /\ (s.w.joined \/ s.w.timer \/ s.w.slot) => s.f.open

Posted(s, left) == s.w.posted /\ ~left => Landed(s)

\* A burn recorded in time is on its way with whatever is appended first.
Ticket(s) ==
  \/ s.core # << >> /\ s.core[1].burn
  \/ /\ s.core = << >>
     /\ \A g \in Feeds : \A i \in DOMAIN s.posts[g] : s.posts[g][i].burn
     /\ IF s.w.phase = "none"
        THEN s.ended \/ (s.memo.on /\ s.memo.burn)
        ELSE s.w.joined /\ s.w.burn

Fits(s, left, due) ==
  /\ s \in Engine
  /\ Numbered(s) /\ Tidy(s) /\ OneFeed(s, left)
  /\ due => Ticket(s)

Carried(s, left, due) == Fits(s, left, due) /\ Opened(s, left)

\* The readings of the feed that is held are of cores it holds.
Held(s, seq) == seq \in Seq(s.f.foreign \cup {Me})

ReadOf(s, read) ==
  read # NoRead =>
    /\ read.todo # << >> /\ read.gen <= s.f.gen
    /\ s.f.open /\ read.gen = s.f.gen => Held(s, read.todo) /\ Held(s, read.raw)

ReadsHeld == \A r \in 1 .. MaxReads : ReadOf(eng, reads[r])

Rest ==
  /\ reads \in [1 .. MaxReads -> Read]
  /\ view \in Seq(Participant)
  /\ got \in SUBSET Writer
  /\ hist \in [flooded : BOOLEAN, burning : BOOLEAN, due : BOOLEAN, left : BOOLEAN]

IInv == Carried(eng, hist.left, hist.due) /\ Posted(eng, hist.left) /\ Rest /\ ReadsHeld

\* From s to t the feed grows, or is another.
Grows(s, t) ==
  /\ s.f.gen <= t.f.gen
  /\ t.f.open /\ t.f.gen = s.f.gen => s.f.open /\ s.f.foreign \subseteq t.f.foreign

-----------------------------------------------------------------------------
\* The records of the engine.

LEMMA Participants ==
  /\ Writer \subseteq Participant /\ Me \in Participant /\ Me \notin Writer
  /\ Host \in Writer /\ \A S \in SUBSET Participant : S \ {Me} \in SUBSET Writer
  /\ MaxOpens \in Nat /\ MaxOpens >= 1
BY FeedAssumption DEF Participant

LEMMA Parts ==
  ASSUME NEW s \in Engine
  PROVE  /\ s.w \in WaveState /\ s.f \in WaveCores
         /\ s.w.joined \in BOOLEAN /\ s.w.signed \in BOOLEAN /\ s.w.burn \in BOOLEAN
         /\ s.w.timer \in BOOLEAN /\ s.w.slot \in BOOLEAN /\ s.w.staged \in BOOLEAN
         /\ s.w.posted \in BOOLEAN /\ s.w.mine \in BOOLEAN /\ s.w.subscribed \in BOOLEAN
         /\ s.w.writers \in SUBSET Participant /\ s.w.hop \in Nat
         /\ s.w.phase \in {"none", "lobby", "racing"}
         /\ s.f.gen \in Nat /\ s.f.open \in BOOLEAN /\ s.f.ready \in BOOLEAN
         /\ s.f.posted \in BOOLEAN /\ s.f.pending \in BOOLEAN /\ s.f.foreign \in SUBSET Writer
         /\ s.memo \in [on : BOOLEAN, signed : BOOLEAN, burn : BOOLEAN]
         /\ s.memo.on \in BOOLEAN /\ s.memo.signed \in BOOLEAN /\ s.memo.burn \in BOOLEAN
         /\ s.ended \in BOOLEAN /\ s.opening \in SUBSET Nat
         /\ s.posts \in [Feeds -> Seq(Block)] /\ s.core \in Seq(Block) /\ s.auto \in AutoSubscribe
BY DEF Engine, WaveState, WaveCores, Feeds

LEMMA SetWave ==
  ASSUME NEW s \in Engine, NEW v \in WaveState
  PROVE  LET t == [s EXCEPT !.w = v] IN
         /\ t \in Engine /\ t.w = v /\ t.f = s.f /\ t.memo = s.memo /\ t.ended = s.ended
         /\ t.opening = s.opening /\ t.posts = s.posts /\ t.core = s.core /\ t.auto = s.auto
BY DEF Engine

LEMMA SetFeed ==
  ASSUME NEW s \in Engine, NEW v \in WaveCores
  PROVE  LET t == [s EXCEPT !.f = v] IN
         /\ t \in Engine /\ t.f = v /\ t.w = s.w /\ t.memo = s.memo /\ t.ended = s.ended
         /\ t.opening = s.opening /\ t.posts = s.posts /\ t.core = s.core /\ t.auto = s.auto
BY DEF Engine

LEMMA NoWaveIs ==
  /\ NoWave \in WaveState /\ NoWave.phase = "none" /\ NoWave.joined = FALSE
  /\ NoWave.timer = FALSE /\ NoWave.slot = FALSE /\ NoWave.posted = FALSE
  /\ NoWave.signed = FALSE
  /\ NoMemo \in [on : BOOLEAN, signed : BOOLEAN, burn : BOOLEAN] /\ NoMemo.on = FALSE
BY DEF NoWave, WaveState, NoMemo

-----------------------------------------------------------------------------
\* CrdtFeed.

\* Subscribing opens the one feed there is, if it is not open.
LEMMA HoldFeedKeeps ==
  ASSUME NEW s, NEW left \in BOOLEAN, NEW due \in BOOLEAN, Fits(s, left, due),
         s.w.posted /\ ~left => s.f.open
  PROVE  LET t == HoldFeed(s) IN
         /\ Fits(t, left, due) /\ (Posted(s, left) => Posted(t, left)) /\ Grows(s, t)
         /\ s.w.phase # "none" => Carried(t, left, due) /\ t.f.open
         /\ t.w.phase = s.w.phase /\ t.w.joined = s.w.joined /\ t.w.slot = s.w.slot
         /\ t.w.posted = s.w.posted /\ t.w.burn = s.w.burn
<1> DEFINE v == [s.w EXCEPT !.subscribed = TRUE]
           f0 == [gen |-> s.f.gen + 1, open |-> TRUE, ready |-> FALSE,
                  posted |-> FALSE, pending |-> FALSE, foreign |-> {}]
           f == [f0 EXCEPT !.foreign = s.w.writers \ {Me}]
           u == [s EXCEPT !.f = f0]
           t == HoldFeed(s)
<1>1. s \in Engine /\ Numbered(s) /\ Tidy(s) /\ OneFeed(s, left) /\ (due => Ticket(s))
  BY DEF Fits
<1>2. CASE s.w.phase = "none" \/ s.f.open
  <2>1. HoldFeed(s) = s
    BY <1>2 DEF HoldFeed
  <2> QED
    BY <1>1, <1>2, <2>1, Parts DEF Grows, Carried, Opened, t
<1>3. CASE ~(s.w.phase = "none" \/ s.f.open)
  <2>1. /\ v \in WaveState /\ v.phase = s.w.phase /\ v.joined = s.w.joined
        /\ v.timer = s.w.timer /\ v.slot = s.w.slot /\ v.posted = s.w.posted /\ v.burn = s.w.burn
    BY <1>1, Parts DEF WaveState
  <2>2. f0 \in WaveCores
    BY <1>1, Parts DEF WaveCores
  <2>3. /\ f \in WaveCores /\ f.gen = s.f.gen + 1 /\ f.open = TRUE /\ f.pending = FALSE
        /\ f.posted = FALSE
    <3>1. s.w.writers \ {Me} \in SUBSET Writer
      BY <1>1, Parts, Participants
    <3>2. s.f.gen + 1 \in Nat
      BY <1>1, Parts
    <3> QED
      BY <3>1, <3>2 DEF WaveCores
  <2>a. u \in Engine /\ u.f = f0 /\ u.w = s.w /\ u.memo = s.memo /\ u.ended = s.ended
        /\ u.posts = s.posts /\ u.core = s.core
    BY <1>1, <2>2, SetFeed
  <2>b. HoldFeed(s) = [u EXCEPT !.w.subscribed = TRUE, !.f.foreign = s.w.writers \ {Me}]
    BY <1>3 DEF HoldFeed, Open
  <2> HIDE DEF u, t
  <2>c. [u EXCEPT !.w.subscribed = TRUE, !.f.foreign = s.w.writers \ {Me}]
        = [[u EXCEPT !.w = v] EXCEPT !.f = f]
    <3> HIDE DEF f0
    <3> QED
      BY <2>a DEF Engine
  <2> HIDE DEF v, f0, f
  <2>d. LET x == [u EXCEPT !.w = v] IN
        x \in Engine /\ x.w = v /\ x.memo = s.memo /\ x.ended = s.ended
        /\ x.posts = s.posts /\ x.core = s.core
    BY <2>1, <2>a, SetWave
  <2>4. /\ t \in Engine /\ t.w = v /\ t.f = f /\ t.memo = s.memo /\ t.ended = s.ended
        /\ t.posts = s.posts /\ t.core = s.core
    <3> DEFINE x == [u EXCEPT !.w = v]
    <3>1. t = [x EXCEPT !.f = f]
      BY <2>b, <2>c DEF t
    <3> HIDE DEF x
    <3> QED
      BY <2>3, <2>d, <3>1, SetFeed DEF x
  <2>5. s.f.gen \in Nat /\ s.f.gen < MaxOpens /\ ~s.f.open
    BY <1>1, <1>3, Parts DEF Numbered
  <2>6. Numbered(t)
    BY <2>3, <2>4, <2>5, Participants DEF Numbered
  <2>7. Tidy(t)
    BY <1>1, <1>3, <2>1, <2>4 DEF Tidy
  <2>8. OneFeed(t, left)
    BY <1>1, <2>1, <2>3, <2>4, <2>5 DEF OneFeed
  <2>9. due => Ticket(t)
    BY <1>1, <2>1, <2>4 DEF Ticket
  <2>10. ASSUME Posted(s, left) PROVE Posted(t, left)
    <3>1. s.w.posted /\ ~left => FALSE
      BY <1>3
    <3> QED
      BY <2>1, <2>4, <3>1 DEF Posted
  <2>11. Grows(s, t)
    BY <2>3, <2>4, <2>5 DEF Grows
  <2> QED
    BY <2>1, <2>3, <2>4, <2>6, <2>7, <2>8, <2>9, <2>10, <2>11 DEF Carried, Opened, Fits, t
<1> QED
  BY <1>2, <1>3
-----------------------------------------------------------------------------
\* What is done to the WaveState alone.

\* The wave stays engaged; whoever may post has a feed; a join and a burn stay.
LEMMA WaveKeeps ==
  ASSUME NEW s, NEW left \in BOOLEAN, NEW due \in BOOLEAN, Fits(s, left, due),
         NEW v \in WaveState, v.phase # "none", s.w.phase # "none",
         v.posted => v.slot,
         s.w.joined => v.joined, s.w.burn => v.burn,
         ~left /\ (v.joined \/ v.timer \/ v.slot) => s.f.open
  PROVE  LET t == [s EXCEPT !.w = v] IN
         /\ Carried(t, left, due) /\ Grows(s, t)
         /\ (v.posted => s.w.posted) /\ Posted(s, left) => Posted(t, left)
         /\ t.w = v /\ t.f = s.f /\ t.core = s.core /\ t.posts = s.posts /\ t.memo = s.memo
         /\ t.ended = s.ended /\ t.opening = s.opening
<1> DEFINE t == [s EXCEPT !.w = v]
<1>1. s \in Engine /\ Numbered(s) /\ Tidy(s) /\ OneFeed(s, left) /\ (due => Ticket(s))
  BY DEF Fits
<1>2. /\ t \in Engine /\ t.w = v /\ t.f = s.f /\ t.core = s.core /\ t.posts = s.posts
      /\ t.memo = s.memo /\ t.ended = s.ended /\ t.opening = s.opening
  BY <1>1, SetWave
<1> HIDE DEF t
<1>3. Numbered(t) /\ Tidy(t) /\ OneFeed(t, left)
  BY <1>1, <1>2 DEF Numbered, Tidy, OneFeed
<1>4. due => Ticket(t)
  BY <1>1, <1>2 DEF Ticket
<1>5. Opened(t, left)
  BY <1>2 DEF Opened
<1>6. s.f.gen \in Nat
  BY <1>1, Parts
<1>7. Grows(s, t)
  BY <1>2, <1>6 DEF Grows
<1>8. (v.posted => s.w.posted) /\ Posted(s, left) => Posted(t, left)
  BY <1>2 DEF Posted, Landed, NoPosts
<1> QED
  BY <1>2, <1>3, <1>4, <1>5, <1>7, <1>8 DEF Carried, Fits, t

\* armSweepTimers(): only who joined has a slot timer.
LEMMA BeginSweepKeeps ==
  ASSUME NEW s, NEW left \in BOOLEAN, NEW due \in BOOLEAN, Carried(s, left, due),
         Posted(s, left), s.w.phase # "none", NEW roster \in SUBSET Participant
  PROVE  LET t == BeginSweep(s, roster) IN
         /\ Carried(t, left, due) /\ Posted(t, left) /\ Grows(s, t)
         /\ t.f = s.f /\ t.core = s.core
<1> DEFINE b == Me \in roster /\ s.w.joined
           h == Rank(roster, Me)
           v == [s.w EXCEPT !.phase = "racing", !.timer = b, !.hop = h]
<1>1. Fits(s, left, due) /\ Opened(s, left) /\ s \in Engine /\ Tidy(s)
  BY DEF Carried, Fits
<1>2. h \in Nat
  <2>1. IsFiniteSet(roster)
    <3>1. IsFiniteSet(Writer \cup {Me})
      BY FeedAssumption, FS_AddElement
    <3> QED
      BY <3>1, FS_Subset DEF Participant
  <2>2. IsFiniteSet({q \in roster : Before(q, Me)})
    BY <2>1, FS_Subset
  <2> QED
    BY <2>2, FS_CardinalityType DEF Rank
<1>3. b \in BOOLEAN /\ (b => s.w.joined)
  BY <1>1, Parts
<1>4. BeginSweep(s, roster) = [s EXCEPT !.w.phase = "racing", !.w.timer = b, !.w.hop = h]
  BY DEF BeginSweep
<1> HIDE DEF b, h
<1>5. [s EXCEPT !.w.phase = "racing", !.w.timer = b, !.w.hop = h] = [s EXCEPT !.w = v]
  BY <1>1 DEF Engine
<1>6. /\ v \in WaveState /\ v.phase = "racing" /\ v.joined = s.w.joined /\ v.burn = s.w.burn
      /\ v.slot = s.w.slot /\ v.posted = s.w.posted /\ v.timer = b
  BY <1>1, <1>2, <1>3, Parts DEF WaveState
<1> HIDE DEF v
<1>7. v.posted => v.slot
  BY <1>1, <1>6 DEF Tidy
<1>8. ~left /\ (v.joined \/ v.timer \/ v.slot) => s.f.open
  BY <1>1, <1>3, <1>6 DEF Opened
<1> QED
  BY <1>1, <1>4, <1>5, <1>6, <1>7, <1>8, WaveKeeps

\* My join is signed and I am among the writers.
LEMMA SignedKeeps ==
  ASSUME NEW s, NEW left \in BOOLEAN, NEW due \in BOOLEAN, Carried(s, left, due),
         s.w.phase # "none"
  PROVE  LET t == [s EXCEPT !.w.signed = TRUE, !.w.writers = @ \cup {Me}] IN
         /\ Carried(t, left, due) /\ (Posted(s, left) => Posted(t, left)) /\ Grows(s, t)
         /\ t.w.phase # "none" /\ t.w.phase = s.w.phase /\ t.w.writers \in SUBSET Participant
         /\ t.f = s.f /\ t.core = s.core /\ t.posts = s.posts /\ t.opening = s.opening
<1> DEFINE n == s.w.writers \cup {Me}
           v == [s.w EXCEPT !.signed = TRUE, !.writers = n]
           t == [s EXCEPT !.w.signed = TRUE, !.w.writers = @ \cup {Me}]
<1>1. Fits(s, left, due) /\ Opened(s, left) /\ s \in Engine /\ Tidy(s)
  BY DEF Carried, Fits
<1>2. t = [s EXCEPT !.w = v]
  BY <1>1 DEF Engine
<1>3. /\ v \in WaveState /\ v.phase = s.w.phase /\ v.joined = s.w.joined /\ v.burn = s.w.burn
      /\ v.slot = s.w.slot /\ v.posted = s.w.posted /\ v.timer = s.w.timer
  <2>1. n \in SUBSET Participant
    BY <1>1, Parts, Participants
  <2> HIDE DEF n
  <2> QED
    BY <1>1, <2>1, Parts DEF WaveState
<1> HIDE DEF v, t
<1>4. v.posted => v.slot
  BY <1>1, <1>3 DEF Tidy
<1>5. ~left /\ (v.joined \/ v.timer \/ v.slot) => s.f.open
  BY <1>1, <1>3 DEF Opened
<1>6. v.writers \in SUBSET Participant
  BY <1>3 DEF WaveState
<1>7. /\ Carried(t, left, due) /\ (Posted(s, left) => Posted(t, left)) /\ Grows(s, t)
      /\ t.w = v /\ t.f = s.f /\ t.core = s.core /\ t.posts = s.posts /\ t.opening = s.opening
  BY <1>1, <1>2, <1>3, <1>4, <1>5, WaveKeeps
<1> QED
  BY <1>3, <1>6, <1>7 DEF t

\* What PublishCore and FloodMyFeedCore leave alone.
Same(s, t) == t.f = s.f /\ t.core = s.core /\ t.posts = s.posts

LEMMA PublishCoreKeeps ==
  ASSUME NEW s, NEW left \in BOOLEAN, NEW due \in BOOLEAN, Carried(s, left, due)
  PROVE  LET t == PublishCore(s) IN
         /\ Carried(t, left, due) /\ (Posted(s, left) => Posted(t, left)) /\ Grows(s, t)
         /\ Same(s, t)
<1>1. CASE s.w.phase = "none" \/ ~s.w.joined
  <2>1. s.f.gen \in Nat
    BY Parts DEF Carried, Fits
  <2> QED
    BY <1>1, <2>1 DEF PublishCore, Grows, Same
<1>2. CASE ~(s.w.phase = "none" \/ ~s.w.joined)
  <2>1. PublishCore(s) = [s EXCEPT !.w.signed = TRUE, !.w.writers = @ \cup {Me}]
    BY <1>2 DEF PublishCore
  <2> QED
    BY <1>2, <2>1, SignedKeeps DEF Same
<1> QED
  BY <1>1, <1>2

\* A change of the set of feeds that are awaited, or of a feed's readiness.
LEMMA OpeningKeeps ==
  ASSUME NEW s, NEW left \in BOOLEAN, NEW due \in BOOLEAN, Carried(s, left, due),
         NEW o \in SUBSET Nat
  PROVE  LET t == [s EXCEPT !.opening = o] IN
         /\ Carried(t, left, due) /\ (Posted(s, left) => Posted(t, left)) /\ Grows(s, t)
         /\ Same(s, t) /\ t.opening = o /\ t.w = s.w
<1> DEFINE t == [s EXCEPT !.opening = o]
<1>1. /\ s \in Engine /\ Numbered(s) /\ Tidy(s) /\ OneFeed(s, left) /\ (due => Ticket(s))
      /\ Opened(s, left)
  BY DEF Carried, Fits
<1>2. /\ t \in Engine /\ t.w = s.w /\ t.f = s.f /\ t.core = s.core /\ t.posts = s.posts
      /\ t.memo = s.memo /\ t.ended = s.ended /\ t.opening = o
  BY <1>1 DEF Engine
<1> HIDE DEF t
<1>3. Numbered(t) /\ Tidy(t) /\ OneFeed(t, left) /\ Opened(t, left)
  BY <1>1, <1>2 DEF Numbered, Tidy, OneFeed, Opened
<1>4. due => Ticket(t)
  BY <1>1, <1>2 DEF Ticket
<1>5. s.f.gen \in Nat
  BY <1>1, Parts
<1>6. Grows(s, t) /\ Same(s, t)
  BY <1>2, <1>5 DEF Grows, Same
<1>7. Posted(s, left) => Posted(t, left)
  BY <1>2 DEF Posted, Landed, NoPosts
<1> QED
  BY <1>2, <1>3, <1>4, <1>6, <1>7 DEF Carried, Fits, t

LEMMA FloodMyFeedCoreKeeps ==
  ASSUME NEW s, NEW left \in BOOLEAN, NEW due \in BOOLEAN, Carried(s, left, due)
  PROVE  LET t == FloodMyFeedCore(s) IN
         /\ Carried(t, left, due) /\ (Posted(s, left) => Posted(t, left)) /\ Grows(s, t)
         /\ Same(s, t)
<1>1. s \in Engine
  BY DEF Carried, Fits
<1>2. CASE s.f.ready
  BY <1>2, PublishCoreKeeps DEF FloodMyFeedCore
<1>3. CASE ~s.f.ready
  <2>1. s.opening \cup {s.f.gen} \in SUBSET Nat
    BY <1>1, Parts
  <2>2. FloodMyFeedCore(s) = [s EXCEPT !.opening = s.opening \cup {s.f.gen}]
    BY <1>3 DEF FloodMyFeedCore
  <2> QED
    BY <2>1, <2>2, OpeningKeeps
<1> QED
  BY <1>2, <1>3
\* What is done to the WaveCores that is held, short of an append.
LEMMA FeedKeeps ==
  ASSUME NEW s, NEW left \in BOOLEAN, NEW due \in BOOLEAN, Carried(s, left, due),
         NEW f \in WaveCores, f.gen = s.f.gen, f.open = s.f.open, f.posted = s.f.posted,
         s.f.pending => f.pending, s.f.foreign \subseteq f.foreign
  PROVE  LET t == [s EXCEPT !.f = f] IN
         /\ Carried(t, left, due) /\ (Posted(s, left) => Posted(t, left)) /\ Grows(s, t)
         /\ t.f = f /\ t.w = s.w /\ t.core = s.core /\ t.posts = s.posts
         /\ t.opening = s.opening
<1> DEFINE t == [s EXCEPT !.f = f]
<1>1. /\ s \in Engine /\ Numbered(s) /\ Tidy(s) /\ OneFeed(s, left) /\ (due => Ticket(s))
      /\ Opened(s, left)
  BY DEF Carried, Fits
<1>2. /\ t \in Engine /\ t.w = s.w /\ t.f = f /\ t.core = s.core /\ t.posts = s.posts
      /\ t.memo = s.memo /\ t.ended = s.ended /\ t.opening = s.opening
  BY <1>1, SetFeed
<1> HIDE DEF t
<1>3. Numbered(t) /\ Tidy(t) /\ OneFeed(t, left) /\ Opened(t, left)
  BY <1>1, <1>2 DEF Numbered, Tidy, OneFeed, Opened
<1>4. due => Ticket(t)
  BY <1>1, <1>2 DEF Ticket
<1>5. s.f.gen \in Nat
  BY <1>1, Parts
<1>6. Grows(s, t)
  BY <1>2, <1>5 DEF Grows
<1>7. Posted(s, left) => Posted(t, left)
  BY <1>2 DEF Posted, Landed, NoPosts
<1> QED
  BY <1>2, <1>3, <1>4, <1>6, <1>7 DEF Carried, Fits, t

\* New writers are opened where the feed is held.
LEMMA IngestKeeps ==
  ASSUME NEW s, NEW left \in BOOLEAN, NEW due \in BOOLEAN, Carried(s, left, due),
         s.w.phase # "none", NEW creds \in SUBSET Participant
  PROVE  LET t == Ingest(s, creds) IN
         /\ Carried(t, left, due) /\ (Posted(s, left) => Posted(t, left)) /\ Grows(s, t)
         /\ t.w.phase = s.w.phase /\ t.core = s.core
<1> DEFINE n == s.w.writers \cup (creds \ s.w.writers)
           q == IF s.w.subscribed THEN s.f.foreign \cup ((creds \ s.w.writers) \ {Me})
                ELSE s.f.foreign
           v == [s.w EXCEPT !.writers = n]
           f == [s.f EXCEPT !.foreign = q]
           u == [s EXCEPT !.w = v]
<1>1. Fits(s, left, due) /\ Opened(s, left) /\ s \in Engine /\ Tidy(s)
  BY DEF Carried, Fits
<1>2. n \in SUBSET Participant
  BY <1>1, Parts
<1>3. q \in SUBSET Writer /\ s.f.foreign \subseteq q
  <2>1. (creds \ s.w.writers) \ {Me} \in SUBSET Writer
    BY Participants
  <2> QED
    BY <1>1, <2>1, Parts
<1>4. Ingest(s, creds) = [s EXCEPT !.w.writers = n, !.f.foreign = q]
  BY <1>1 DEF Ingest, Engine
<1> HIDE DEF n, q
<1>5. [s EXCEPT !.w.writers = n, !.f.foreign = q] = [u EXCEPT !.f = f]
  BY <1>1 DEF Engine
<1>6. /\ v \in WaveState /\ v.phase = s.w.phase /\ v.joined = s.w.joined /\ v.burn = s.w.burn
      /\ v.slot = s.w.slot /\ v.posted = s.w.posted /\ v.timer = s.w.timer
  BY <1>1, <1>2, Parts DEF WaveState
<1>7. /\ f \in WaveCores /\ f.gen = s.f.gen /\ f.open = s.f.open /\ f.posted = s.f.posted
      /\ f.pending = s.f.pending /\ f.foreign = q
  BY <1>1, <1>3, Parts DEF WaveCores
<1> HIDE DEF v, f
<1>8. v.posted => v.slot
  BY <1>1, <1>6 DEF Tidy
<1>9. ~left /\ (v.joined \/ v.timer \/ v.slot) => s.f.open
  BY <1>1, <1>6 DEF Opened
<1>10. /\ Carried(u, left, due) /\ (Posted(s, left) => Posted(u, left)) /\ Grows(s, u)
       /\ u.w = v /\ u.f = s.f /\ u.core = s.core
  BY <1>1, <1>6, <1>8, <1>9, WaveKeeps
<1> HIDE DEF u
<1> DEFINE t == [u EXCEPT !.f = f]
<1>11. /\ Carried(t, left, due) /\ (Posted(u, left) => Posted(t, left)) /\ Grows(u, t)
       /\ t.w = v /\ t.core = u.core
  BY <1>3, <1>7, <1>10, FeedKeeps
<1> HIDE DEF t
<1>12. Grows(s, t)
  BY <1>10, <1>11 DEF Grows
<1>13. Ingest(s, creds) = t
  BY <1>4, <1>5 DEF t
<1> QED
  BY <1>6, <1>10, <1>11, <1>12, <1>13

\* A wave is engaged: its lobby restores what an abandoned one left, and whoever is joined
\* holds the feed.
LEMMA EnterLobbyKeeps ==
  ASSUME NEW s, NEW left \in BOOLEAN, NEW due \in BOOLEAN, Carried(s, left, due),
         s.w.phase = "none", ~s.ended, NEW mine \in BOOLEAN
  PROVE  LET t == EnterLobby(s, mine) IN
         /\ Carried(t, left, due) /\ Posted(t, left) /\ Grows(s, t)
         /\ t.w.phase = "lobby"
<1> DEFINE j == mine \/ s.memo.on
           a == s.memo.signed
           b == s.memo.burn
           v == [NoWave EXCEPT !.phase = "lobby", !.mine = mine, !.joined = j,
                               !.signed = a, !.burn = b]
           u == [s EXCEPT !.w = v, !.memo = NoMemo]
<1>1. s \in Engine /\ Numbered(s) /\ Tidy(s) /\ OneFeed(s, left) /\ (due => Ticket(s))
  BY DEF Carried, Fits
<1>2. j \in BOOLEAN /\ a \in BOOLEAN /\ b \in BOOLEAN /\ (s.memo.on => j) /\ b = s.memo.burn
  BY <1>1, Parts
<1>3. EnterLobby(s, mine) = IF s.auto \/ u.w.joined THEN HoldFeed(u) ELSE u
  BY DEF EnterLobby
<1> HIDE DEF j, a, b
<1>4. /\ v \in WaveState /\ v.phase = "lobby" /\ v.joined = j /\ v.burn = b
      /\ v.slot = FALSE /\ v.posted = FALSE /\ v.timer = FALSE
  BY <1>2 DEF WaveState, NoWave
<1> HIDE DEF v
<1>5. /\ u \in Engine /\ u.w = v /\ u.f = s.f /\ u.core = s.core /\ u.posts = s.posts
  BY <1>1, <1>4, NoWaveIs DEF Engine
<1> HIDE DEF u
<1>6. Numbered(u) /\ Tidy(u) /\ OneFeed(u, left)
  BY <1>1, <1>4, <1>5 DEF Numbered, Tidy, OneFeed
<1>7. due => Ticket(u)
  BY <1>1, <1>2, <1>4, <1>5 DEF Ticket
<1>8. Fits(u, left, due)
  BY <1>5, <1>6, <1>7 DEF Fits
<1>9. Posted(u, left)
  BY <1>4, <1>5 DEF Posted
<1>10. s.f.gen \in Nat
  BY <1>1, Parts
<1>11. CASE s.auto \/ u.w.joined
  <2> DEFINE t == HoldFeed(u)
  <2>1. Carried(t, left, due) /\ Posted(t, left) /\ Grows(u, t) /\ t.w.phase = "lobby"
    BY <1>4, <1>5, <1>8, <1>9, HoldFeedKeeps
  <2> HIDE DEF t
  <2>2. Grows(s, t)
    BY <1>5, <2>1 DEF Grows
  <2> QED
    BY <1>3, <1>11, <2>1, <2>2 DEF t
<1>12. CASE ~(s.auto \/ u.w.joined)
  <2>1. Opened(u, left)
    BY <1>4, <1>5, <1>12 DEF Opened
  <2>2. Grows(s, u)
    BY <1>5, <1>10 DEF Grows
  <2> QED
    BY <1>3, <1>4, <1>5, <1>8, <1>9, <1>12, <2>1, <2>2 DEF Carried
<1> QED
  BY <1>11, <1>12

\* The WaveState goes: a revivable end remembers a join and its ticket.
LEMMA GoIdleKeeps ==
  ASSUME NEW s, NEW left \in BOOLEAN, NEW due \in BOOLEAN, Carried(s, left, due),
         s.w.phase # "none", NEW revivable \in BOOLEAN
  PROVE  LET t == GoIdle(s, revivable) IN
         /\ Carried(t, left, due) /\ Posted(t, left) /\ Grows(s, t)
         /\ t.f = s.f /\ t.core = s.core
<1> DEFINE e == s.ended \/ ~revivable
           m == IF ~revivable THEN NoMemo
                ELSE IF s.w.joined
                THEN [on |-> TRUE, signed |-> s.w.signed, burn |-> s.w.burn]
                ELSE s.memo
           t == [s EXCEPT !.w = NoWave, !.ended = e, !.memo = m]
<1>1. s \in Engine /\ Numbered(s) /\ Tidy(s) /\ OneFeed(s, left) /\ (due => Ticket(s))
  BY DEF Carried, Fits
<1>2. e \in BOOLEAN /\ m \in [on : BOOLEAN, signed : BOOLEAN, burn : BOOLEAN]
  BY <1>1, Parts, NoWaveIs
<1>3. revivable /\ s.w.joined => m.on /\ m.burn = s.w.burn
  OBVIOUS
<1>4. GoIdle(s, revivable) = t
  BY <1>1 DEF GoIdle, Engine
<1>5. ~revivable => e
  OBVIOUS
<1> HIDE DEF e, m
<1>6. /\ t \in Engine /\ t.w = NoWave /\ t.f = s.f /\ t.core = s.core /\ t.posts = s.posts
      /\ t.ended = e /\ t.memo = m
  BY <1>1, <1>2, NoWaveIs DEF Engine
<1> HIDE DEF t
<1>7. Numbered(t) /\ Tidy(t) /\ OneFeed(t, left)
  BY <1>1, <1>6, NoWaveIs DEF Numbered, Tidy, OneFeed
<1>8. due => Ticket(t)
  BY <1>1, <1>3, <1>5, <1>6, NoWaveIs DEF Ticket
<1>9. Opened(t, left) /\ Posted(t, left)
  BY <1>6, NoWaveIs DEF Opened, Posted
<1>10. s.f.gen \in Nat
  BY <1>1, Parts
<1>11. Grows(s, t)
  BY <1>6, <1>10 DEF Grows
<1> QED
  BY <1>4, <1>6, <1>7, <1>8, <1>9, <1>11 DEF Carried, Fits
-----------------------------------------------------------------------------
\* postEntry() and what follows when the core is ready.

LEMMA Sequences ==
  /\ \A q \in Seq(Block), b \in Block :
       /\ Append(q, b) \in Seq(Block) /\ Append(q, b) # << >>
       /\ DOMAIN Append(q, b) = DOMAIN q \cup {Len(q) + 1}
       /\ \A i \in DOMAIN q : Append(q, b)[i] = q[i]
       /\ Append(q, b)[Len(q) + 1] = b
  /\ \A q, r \in Seq(Block) :
       /\ q \o r \in Seq(Block)
       /\ q # << >> => q \o r # << >> /\ (q \o r)[1] = q[1]
       /\ q = << >> => q \o r = r
       /\ q = << >> /\ r = << >> <=> q \o r = << >>
  /\ \A q \in Seq(Block) : q # << >> => 1 \in DOMAIN q
  /\ << >> \in Seq(Block) /\ DOMAIN << >> = {}
<1>1. ASSUME NEW q \in Seq(Block), NEW r \in Seq(Block)
      PROVE  /\ q \o r \in Seq(Block)
             /\ q # << >> => q \o r # << >> /\ (q \o r)[1] = q[1]
             /\ q = << >> => q \o r = r
             /\ q = << >> /\ r = << >> <=> q \o r = << >>
  OBVIOUS
<1>2. ASSUME NEW q \in Seq(Block), NEW b \in Block
      PROVE  /\ Append(q, b) \in Seq(Block) /\ Append(q, b) # << >>
             /\ DOMAIN Append(q, b) = DOMAIN q \cup {Len(q) + 1}
             /\ \A i \in DOMAIN q : Append(q, b)[i] = q[i]
             /\ Append(q, b)[Len(q) + 1] = b
  OBVIOUS
<1>3. ASSUME NEW q \in Seq(Block), q # << >> PROVE 1 \in DOMAIN q
  BY <1>3
<1>4. << >> \in Seq(Block) /\ DOMAIN << >> = {}
  OBVIOUS
<1> QED
  BY <1>1, <1>2, <1>3, <1>4

\* An entry with its attestation waits for the core, and a burn recorded is in it.
LEMMA AwaitsKeeps ==
  ASSUME NEW s, NEW left \in BOOLEAN, NEW due \in BOOLEAN, Carried(s, left, due),
         s.w.phase # "none", s.f.open
  PROVE  LET t == Awaits(s) IN
         /\ Carried(t, left, due) /\ Posted(t, left) /\ Grows(s, t)
         /\ s.f.gen \in Feeds /\ t.posts[s.f.gen] # << >> /\ t.f = s.f
<1> DEFINE g == s.f.gen
           b == [burn |-> s.w.burn, hop |-> s.w.hop]
           q == Append(s.posts[g], b)
           p == [s.posts EXCEPT ![g] = q]
           t == [s EXCEPT !.posts = p]
<1>1. /\ s \in Engine /\ Numbered(s) /\ Tidy(s) /\ OneFeed(s, left) /\ (due => Ticket(s))
      /\ Opened(s, left)
  BY DEF Carried, Fits
<1>2. g \in Feeds /\ g \in Nat
  BY <1>1, Parts, Participants DEF Numbered, Feeds
<1>3. b \in Block /\ b.burn = s.w.burn
  BY <1>1, Parts DEF Block
<1>4. s.posts \in [Feeds -> Seq(Block)] /\ s.posts[g] \in Seq(Block)
  BY <1>1, <1>2, Parts
<1>5. Awaits(s) = t
  BY <1>1 DEF Awaits, Engine
<1> HIDE DEF b
<1>6. /\ q \in Seq(Block) /\ q # << >>
      /\ (\A i \in DOMAIN s.posts[g] : s.posts[g][i].burn) /\ s.w.burn
           => \A i \in DOMAIN q : q[i].burn
  BY <1>3, <1>4, Sequences
<1> HIDE DEF q
<1>7. p \in [Feeds -> Seq(Block)] /\ p[g] = q /\ \A k \in Feeds : k # g => p[k] = s.posts[k]
  BY <1>2, <1>4, <1>6
<1> HIDE DEF p, g
<1>8. /\ t \in Engine /\ t.w = s.w /\ t.f = s.f /\ t.core = s.core /\ t.posts = p
      /\ t.memo = s.memo /\ t.ended = s.ended
  BY <1>1, <1>7 DEF Engine, Feeds
<1> HIDE DEF t
<1>9. Numbered(t) /\ Tidy(t) /\ Opened(t, left)
  BY <1>1, <1>8 DEF Numbered, Tidy, Opened
<1>10. OneFeed(t, left)
  BY <1>1, <1>7, <1>8 DEF OneFeed, g
<1>11. due => Ticket(t)
  <2>1. SUFFICES ASSUME due, t.core = << >> PROVE Ticket(t)
    BY <1>1, <1>8 DEF Ticket
  <2>2. /\ s.w.joined /\ s.w.burn
        /\ \A k \in Feeds : \A i \in DOMAIN s.posts[k] : s.posts[k][i].burn
    BY <1>1, <1>8, <2>1 DEF Ticket
  <2>3. \A i \in DOMAIN q : q[i].burn
    BY <1>2, <1>6, <2>2
  <2>4. \A k \in Feeds : \A i \in DOMAIN p[k] : p[k][i].burn
    BY <1>7, <2>2, <2>3
  <2> QED
    BY <1>8, <2>1, <2>2, <2>4 DEF Ticket
<1>12. Posted(t, left)
  BY <1>2, <1>6, <1>7, <1>8 DEF Posted, Landed, NoPosts, Feeds
<1>13. Grows(s, t)
  BY <1>2, <1>8 DEF Grows, g
<1> QED
  BY <1>2, <1>5, <1>6, <1>7, <1>8, <1>9, <1>10, <1>11, <1>12, <1>13 DEF Carried, Fits, g

\* The append: of the feed that is held, or dropped with the feed the user left.
LEMMA AppendedKeeps ==
  ASSUME NEW s, NEW left \in BOOLEAN, NEW due \in BOOLEAN, Carried(s, left, due),
         NEW g \in Feeds
  PROVE  LET t == Appended(s, g) IN
         /\ Carried(t, left, due) /\ (Posted(s, left) => Posted(t, left)) /\ Grows(s, t)
<1> DEFINE p == [s.posts EXCEPT ![g] = << >>]
           u == [s EXCEPT !.posts = p]
<1>1. /\ s \in Engine /\ Numbered(s) /\ Tidy(s) /\ OneFeed(s, left) /\ (due => Ticket(s))
      /\ Opened(s, left)
  BY DEF Carried, Fits
<1>2. s.posts \in [Feeds -> Seq(Block)] /\ s.posts[g] \in Seq(Block) /\ s.core \in Seq(Block)
  BY <1>1, Parts
<1>3. p \in [Feeds -> Seq(Block)] /\ p[g] = << >> /\ \A k \in Feeds : k # g => p[k] = s.posts[k]
  BY <1>2, Sequences
<1>4. [s EXCEPT !.posts[g] = << >>] = u
  BY <1>1 DEF Engine
<1> HIDE DEF p
<1>5. /\ u \in Engine /\ u.w = s.w /\ u.f = s.f /\ u.core = s.core /\ u.posts = p
      /\ u.memo = s.memo /\ u.ended = s.ended
  BY <1>1, <1>3 DEF Engine, Feeds
<1> HIDE DEF u
<1>6. Numbered(u) /\ Tidy(u) /\ Opened(u, left) /\ OneFeed(u, left)
  BY <1>1, <1>3, <1>5 DEF Numbered, Tidy, Opened, OneFeed
<1>7. due => Ticket(u)
  BY <1>1, <1>3, <1>5, Sequences DEF Ticket
<1>8. s.f.gen \in Nat
  BY <1>1, Parts
<1>9. CASE s.posts[g] = << >> \/ ~(s.f.open /\ s.f.gen = g)
  <2>1. Appended(s, g) = u
    BY <1>4, <1>9 DEF Appended
  <2>2. Posted(s, left) => Posted(u, left)
    <3>1. ~left => s.posts[g] = << >>
      BY <1>1, <1>9 DEF OneFeed
    <3> QED
      BY <1>3, <1>5, <3>1 DEF Posted, Landed, NoPosts, Feeds
  <2>3. Grows(s, u)
    BY <1>5, <1>8 DEF Grows
  <2> QED
    BY <1>5, <1>6, <1>7, <2>1, <2>2, <2>3 DEF Carried, Fits
<1>10. CASE ~(s.posts[g] = << >> \/ ~(s.f.open /\ s.f.gen = g))
  <2> DEFINE c == s.core \o s.posts[g]
             f == [s.f EXCEPT !.posted = TRUE, !.pending = FALSE]
             x == [u EXCEPT !.f = f]
             t == [x EXCEPT !.core = c]
  <2>1. Appended(s, g) = [u EXCEPT !.f.posted = TRUE, !.f.pending = FALSE,
                                   !.core = u.core \o s.posts[g]]
    BY <1>4, <1>5, <1>10 DEF Appended, Engine
  <2>2. /\ c \in Seq(Block) /\ c # << >>
        /\ s.core # << >> => c[1] = s.core[1]
        /\ s.core = << >> => c = s.posts[g] /\ 1 \in DOMAIN s.posts[g]
    BY <1>2, <1>10, Sequences
  <2> HIDE DEF c
  <2>3. [u EXCEPT !.f.posted = TRUE, !.f.pending = FALSE, !.core = c] = t
    BY <1>5 DEF Engine
  <2>4. /\ f \in WaveCores /\ f.gen = s.f.gen /\ f.open = s.f.open /\ f.foreign = s.f.foreign
    BY <1>1, Parts DEF WaveCores
  <2> HIDE DEF f
  <2>5. /\ t \in Engine /\ t.w = s.w /\ t.f = f /\ t.core = c /\ t.posts = p
        /\ t.memo = s.memo /\ t.ended = s.ended
    BY <1>5, <2>2, <2>4 DEF Engine
  <2>6. Appended(s, g) = t
    BY <1>5, <2>1, <2>3 DEF c
  <2> HIDE DEF t
  <2>7. Numbered(t) /\ Tidy(t) /\ Opened(t, left)
    BY <1>1, <2>4, <2>5 DEF Numbered, Tidy, Opened
  <2>8. OneFeed(t, left)
    BY <1>1, <1>3, <2>2, <2>4, <2>5 DEF OneFeed
  <2>9. due => Ticket(t)
    <3>1. due => c[1].burn
      BY <1>1, <2>2 DEF Ticket
    <3> QED
      BY <2>2, <2>5, <3>1 DEF Ticket
  <2>10. Posted(t, left)
    BY <2>2, <2>5 DEF Posted, Landed
  <2>11. Grows(s, t)
    BY <1>8, <2>4, <2>5 DEF Grows
  <2> QED
    BY <2>5, <2>6, <2>7, <2>8, <2>9, <2>10, <2>11 DEF Carried, Fits
<1> QED
  BY <1>9, <1>10

\* postEntry(): where the feed is held the entry is in my core afterwards, or held, or waits.
LEMMA PostEntryKeeps ==
  ASSUME NEW s, NEW left \in BOOLEAN, NEW due \in BOOLEAN, Carried(s, left, due)
  PROVE  LET t == PostEntry(s) IN
         /\ Carried(t, left, due) /\ Grows(s, t)
         /\ (s.w.slot \/ Posted(s, left)) => Posted(t, left)
<1>1. /\ s \in Engine /\ Numbered(s) /\ Tidy(s) /\ OneFeed(s, left) /\ (due => Ticket(s))
      /\ Opened(s, left)
  BY DEF Carried, Fits
<1>2. s.f.gen \in Nat
  BY <1>1, Parts
<1>3. CASE ~s.f.open \/ s.f.posted
  <2>1. PostEntry(s) = s
    BY <1>3 DEF PostEntry
  <2>2. Grows(s, s)
    BY <1>2 DEF Grows
  <2>3. s.w.slot => Posted(s, left)
    BY <1>1, <1>3 DEF Posted, Opened, OneFeed, Landed
  <2> QED
    BY <2>1, <2>2, <2>3
<1>4. CASE s.f.open /\ ~s.f.posted /\ ~s.w.signed
  <2> DEFINE f == [s.f EXCEPT !.pending = TRUE]
             t == [s EXCEPT !.f = f]
  <2>1. PostEntry(s) = t
    BY <1>1, <1>4 DEF PostEntry, Engine
  <2>2. /\ f \in WaveCores /\ f.gen = s.f.gen /\ f.open = s.f.open /\ f.posted = s.f.posted
        /\ f.pending = TRUE /\ f.foreign = s.f.foreign
    BY <1>1, Parts DEF WaveCores
  <2> HIDE DEF f
  <2>3. Carried(t, left, due) /\ Grows(s, t) /\ t.f = f
    BY <1>1, <2>2, FeedKeeps
  <2> HIDE DEF t
  <2>4. Posted(t, left)
    BY <2>2, <2>3 DEF Posted, Landed
  <2> QED
    BY <2>1, <2>3, <2>4
<1>5. CASE s.f.open /\ ~s.f.posted /\ s.w.signed
  <2> DEFINE u == Awaits(s)
             t == Appended(u, s.f.gen)
  <2>1. PostEntry(s) = IF s.f.ready THEN t ELSE u
    BY <1>5 DEF PostEntry
  <2>2. s.w.phase # "none"
    BY <1>1, <1>5, NoWaveIs DEF Tidy
  <2>3. /\ Carried(u, left, due) /\ Posted(u, left) /\ Grows(s, u)
        /\ s.f.gen \in Feeds /\ u.f = s.f
    BY <1>5, <2>2, AwaitsKeeps
  <2> HIDE DEF u
  <2>4. Carried(t, left, due) /\ Posted(t, left) /\ Grows(u, t)
    BY <2>3, AppendedKeeps
  <2> HIDE DEF t
  <2>5. Grows(s, t)
    BY <2>3, <2>4 DEF Grows
  <2> QED
    BY <2>1, <2>3, <2>4, <2>5
<1> QED
  BY <1>1, <1>3, <1>4, <1>5, Parts

\* EntryPipeline.#tryPost(): the pipeline lets the entry go only into the feed.
LEMMA TryPostKeeps ==
  ASSUME NEW s, NEW left \in BOOLEAN, NEW due \in BOOLEAN, Carried(s, left, due),
         Posted(s, left)
  PROVE  LET t == TryPost(s) IN
         /\ Carried(t, left, due) /\ Posted(t, left) /\ Grows(s, t)
<1>1. /\ s \in Engine /\ Fits(s, left, due) /\ Tidy(s) /\ Opened(s, left)
  BY DEF Carried, Fits
<1>2. s.f.gen \in Nat
  BY <1>1, Parts
<1>3. CASE s.w.posted \/ ~s.w.slot \/ ~s.w.staged
  BY <1>2, <1>3 DEF TryPost, Grows
<1>4. CASE ~(s.w.posted \/ ~s.w.slot \/ ~s.w.staged)
  <2> DEFINE v == [s.w EXCEPT !.posted = TRUE]
             u == [s EXCEPT !.w = v]
             t == PostEntry(u)
  <2>1. TryPost(s) = t
    BY <1>1, <1>4 DEF TryPost, Engine
  <2>2. s.w.phase # "none"
    BY <1>1, <1>4, NoWaveIs DEF Tidy
  <2>3. /\ v \in WaveState /\ v.phase = s.w.phase /\ v.joined = s.w.joined /\ v.burn = s.w.burn
        /\ v.slot = s.w.slot /\ v.timer = s.w.timer
    BY <1>1, Parts DEF WaveState
  <2> HIDE DEF v
  <2>4. ~left /\ (v.joined \/ v.timer \/ v.slot) => s.f.open
    BY <1>1, <2>3 DEF Opened
  <2>5. Carried(u, left, due) /\ u.f = s.f /\ u.w = v
    BY <1>1, <1>4, <2>2, <2>3, <2>4, WaveKeeps
  <2> HIDE DEF u
  <2>6. Carried(t, left, due) /\ Posted(t, left) /\ Grows(u, t)
    BY <1>4, <2>3, <2>5, PostEntryKeeps
  <2> HIDE DEF t
  <2>7. Grows(s, t)
    BY <2>5, <2>6 DEF Grows
  <2> QED
    BY <2>1, <2>6, <2>7
<1> QED
  BY <1>3, <1>4
-----------------------------------------------------------------------------
\* The readings of the feed.

\* What is left to read of some cores is some of them.
LEMMA FromIsHeld ==
  ASSUME NEW S, NEW core, NEW here, NEW cores \in Seq(S)
  PROVE  From(core, here, cores) \in Seq(S)
<1> DEFINE held == {k \in 1 .. Len(cores) :
                      IF cores[k] = Me THEN core # << >> ELSE cores[k] \in here}
           first == CHOOSE k \in held : \A j \in held : k <= j
<1>1. From(core, here, cores) = IF held = {} THEN << >> ELSE SubSeq(cores, first, Len(cores))
  BY DEF From
<1>2. held \subseteq 1 .. Len(cores) /\ held \in SUBSET Nat /\ Len(cores) \in Nat
  OBVIOUS
<1> HIDE DEF held
<1>3. CASE held = {}
  BY <1>1, <1>3
<1>4. CASE held # {}
  <2>1. \E k \in held : \A j \in held : k <= j
    <3>1. PICK k \in held : \A j \in held : ~(<< j, k >> \in OpToRel(<, Nat))
      BY <1>2, <1>4, NatLessThanWellFounded, WFMin
    <3>2. \A j \in held : ~(j < k)
      BY <1>2, <3>1 DEF OpToRel
    <3> QED
      BY <1>2, <3>2
  <2>2. first \in held
    BY <2>1
  <2> HIDE DEF first
  <2>3. first \in Int /\ Len(cores) \in Int /\ \A i \in first .. Len(cores) : cores[i] \in S
    BY <1>2, <2>2
  <2>4. SubSeq(cores, first, Len(cores)) \in Seq(S)
    BY <2>3, SubSeqProperties
  <2> QED
    BY <1>1, <1>4, <2>4
<1> QED
  BY <1>3, <1>4

LEMMA SeqGrows ==
  ASSUME NEW S, NEW T, S \subseteq T, NEW q \in Seq(S)
  PROVE  q \in Seq(T)
OBVIOUS

\* An order to read a feed's cores in, my own first.
LEMMA OrderIsHeld ==
  ASSUME NEW S \in SUBSET Writer, NEW o \in Orders(S)
  PROVE  << Me >> \o o \in Seq(S \cup {Me})
<1>1. Cardinality(S) \in Nat
  BY FeedAssumption, FS_Subset, FS_CardinalityType
<1> DEFINE n == Cardinality(S)
<1>2. o \in [1 .. n -> S]
  BY DEF Orders
<1> HIDE DEF n
<1>3. o \in Seq(S \cup {Me})
  BY <1>1, <1>2 DEF n
<1>4. << Me >> \in Seq(S \cup {Me})
  OBVIOUS
<1> QED
  BY <1>3, <1>4

LEMMA NoReadIs == NoRead \in Read /\ NoRead.gen = 0
BY DEF NoRead, Read

\* A step that changes no reading keeps each a reading of cores held.
LEMMA ReadGrows ==
  ASSUME NEW s \in Engine, NEW t \in Engine, Grows(s, t), NEW read \in Read, ReadOf(s, read)
  PROVE  ReadOf(t, read)
<1>1. s.f.gen \in Nat /\ t.f.gen \in Nat /\ read.gen \in Nat
  BY Parts DEF Read
<1>2. SUFFICES ASSUME read # NoRead
               PROVE  /\ read.todo # << >> /\ read.gen <= t.f.gen
                      /\ t.f.open /\ read.gen = t.f.gen => Held(t, read.todo) /\ Held(t, read.raw)
  BY DEF ReadOf
<1>3. /\ read.todo # << >> /\ read.gen <= s.f.gen /\ s.f.gen <= t.f.gen
      /\ s.f.open /\ read.gen = s.f.gen => Held(s, read.todo) /\ Held(s, read.raw)
  BY <1>2 DEF ReadOf, Grows
<1>4. read.gen <= t.f.gen
  BY <1>1, <1>3
<1>5. ASSUME t.f.open, read.gen = t.f.gen PROVE Held(t, read.todo) /\ Held(t, read.raw)
  <2>1. t.f.gen = s.f.gen
    BY <1>1, <1>3, <1>5
  <2>2. s.f.open /\ s.f.foreign \cup {Me} \subseteq t.f.foreign \cup {Me}
    BY <1>5, <2>1 DEF Grows
  <2>3. read.todo \in Seq(s.f.foreign \cup {Me}) /\ read.raw \in Seq(s.f.foreign \cup {Me})
    BY <1>3, <1>5, <2>1, <2>2 DEF Held
  <2> QED
    BY <2>2, <2>3, SeqGrows DEF Held
<1> QED
  BY <1>3, <1>4, <1>5

ReadTypes == reads \in [1 .. MaxReads -> Read] /\ view \in Seq(Participant)

\* What is pushed comes from cores the feed of that moment holds.
PushedIsHeld ==
  view' # view =>
    /\ eng'.f.open
    /\ \A k \in 1 .. Len(view') : view'[k] \in eng'.f.foreign \cup {Me}

\* A reading that begins, or none: the readings are of cores held, and what is pushed is too.
LEMMA EmitViewKeeps ==
  ASSUME eng \in Engine, eng' \in Engine, ReadTypes, ReadsHeld, NEW here,
         NEW t, eng' = t, Grows(eng, t), EmitView(t, here)
  PROVE  ReadTypes' /\ ReadsHeld' /\ PushedIsHeld
<1>1. t \in Engine /\ t.f.foreign \in SUBSET Writer /\ t.f.gen \in Nat
  BY Parts
<1>2. \A r \in 1 .. MaxReads : ReadOf(t, reads[r])
  BY <1>1, ReadGrows DEF ReadTypes, ReadsHeld
<1>3. CASE UNCHANGED <<reads, view>>
  BY <1>2, <1>3 DEF ReadTypes, ReadsHeld, PushedIsHeld
<1>4. CASE ~UNCHANGED <<reads, view>>
  <2> DEFINE free == {r \in 1 .. MaxReads : reads[r] = NoRead}
  <2>1. t.f.open
    BY <1>4 DEF EmitView
  <2>2. PICK o \in Orders(t.f.foreign), r \in free :
          LET todo == From(t.core, here, << Me >> \o o)
          IN  IF todo = << >>
              THEN view' = << >> /\ UNCHANGED reads
              ELSE /\ reads' = [reads EXCEPT ![r] = [gen |-> t.f.gen, todo |-> todo,
                                                    raw |-> << >>]]
                   /\ UNCHANGED view
    BY <1>4 DEF EmitView
  <2> DEFINE todo == From(t.core, here, << Me >> \o o)
             begun == [gen |-> t.f.gen, todo |-> todo, raw |-> << >>]
  <2>3. todo \in Seq(t.f.foreign \cup {Me})
    BY <1>1, OrderIsHeld, FromIsHeld
  <2>4. IF todo = << >> THEN view' = << >> /\ UNCHANGED reads
        ELSE reads' = [reads EXCEPT ![r] = begun] /\ UNCHANGED view
    BY <2>2
  <2> HIDE DEF todo
  <2>5. CASE todo = << >>
    BY <1>2, <2>1, <2>4, <2>5 DEF ReadTypes, ReadsHeld, PushedIsHeld
  <2>6. CASE todo # << >>
    <3>1. todo \in Seq(Participant)
      BY <1>1, <2>3, SeqGrows, Participants
    <3>2. << >> \in Seq(Participant) /\ << >> \in Seq(t.f.foreign \cup {Me})
      OBVIOUS
    <3>3. /\ begun \in Read /\ begun.gen = t.f.gen /\ begun.todo = todo /\ begun.raw = << >>
      BY <1>1, <3>1, <3>2 DEF Read
    <3> HIDE DEF begun
    <3>4. ReadOf(t, begun)
      BY <1>1, <2>3, <2>6, <3>2, <3>3 DEF ReadOf, Held
    <3>5. reads' = [reads EXCEPT ![r] = begun] /\ view' = view
      BY <2>4, <2>6
    <3>6. reads' \in [1 .. MaxReads -> Read] /\ \A q \in 1 .. MaxReads : ReadOf(t, reads'[q])
      BY <1>2, <3>3, <3>4, <3>5 DEF ReadTypes
    <3> QED
      BY <3>5, <3>6 DEF ReadTypes, ReadsHeld, PushedIsHeld
  <2> QED
    BY <2>5, <2>6
<1> QED
  BY <1>3, <1>4
-----------------------------------------------------------------------------
\* The handlers.

LEMMA GrowsTrans ==
  ASSUME NEW s \in Engine, NEW t \in Engine, NEW u \in Engine, Grows(s, t), Grows(t, u)
  PROVE  Grows(s, u)
<1>1. s.f.gen \in Nat /\ t.f.gen \in Nat /\ u.f.gen \in Nat
  BY Parts
<1>2. /\ s.f.gen <= t.f.gen /\ t.f.gen <= u.f.gen
      /\ t.f.open /\ t.f.gen = s.f.gen => s.f.open /\ s.f.foreign \subseteq t.f.foreign
      /\ u.f.open /\ u.f.gen = t.f.gen => t.f.open /\ t.f.foreign \subseteq u.f.foreign
  BY DEF Grows
<1>3. u.f.gen = s.f.gen => t.f.gen = s.f.gen /\ u.f.gen = t.f.gen
  BY <1>1, <1>2
<1>4. s.f.gen <= u.f.gen
  BY <1>1, <1>2
<1> QED
  BY <1>2, <1>3, <1>4 DEF Grows

Hist == [flooded : BOOLEAN, burning : BOOLEAN, due : BOOLEAN, left : BOOLEAN]

\* A step to an engine that keeps the invariant keeps all of it, if it repaints or not.
LEMMA StepKeeps ==
  ASSUME IInv, NEW t, eng' = t, NEW here,
         EmitView(t, here) \/ UNCHANGED <<reads, view>>, Carried(t, hist'.left, hist'.due), Posted(t, hist'.left),
         Grows(eng, t), got' \in SUBSET Writer, hist' \in Hist
  PROVE  IInv' /\ PushedIsHeld
<1>1. eng \in Engine /\ eng' \in Engine /\ eng' = t /\ ReadTypes /\ ReadsHeld
  BY DEF IInv, Carried, Fits, Rest, ReadTypes
<1>2. ReadTypes' /\ ReadsHeld' /\ PushedIsHeld
  <2>1. CASE UNCHANGED <<reads, view>>
    <3>1. \A r \in 1 .. MaxReads : ReadOf(t, reads[r])
      BY <1>1, ReadGrows DEF ReadTypes, ReadsHeld
    <3> QED
      BY <1>1, <2>1, <3>1 DEF ReadTypes, ReadsHeld, PushedIsHeld
  <2>2. CASE EmitView(t, here)
    BY <1>1, <2>2, EmitViewKeeps
  <2> QED
    BY <2>1, <2>2
<1>3. (Carried(eng, hist.left, hist.due) /\ Posted(eng, hist.left) /\ Rest)'
  BY <1>1, <1>2 DEF ReadTypes, Rest, Hist
<1> QED
  BY <1>2, <1>3 DEF IInv

LEMMA BecomesKeeps ==
  ASSUME IInv, NEW t, Becomes(t), Carried(t, hist'.left, hist'.due), Posted(t, hist'.left),
         Grows(eng, t), got' \in SUBSET Writer, hist' \in Hist
  PROVE  IInv' /\ PushedIsHeld
<1>1. eng' = t /\ (EmitView(t, got) \/ UNCHANGED <<reads, view>>)
  BY DEF Becomes
<1> QED
  BY <1>1, StepKeeps

\* What a handler starts from.
LEMMA Start ==
  ASSUME IInv
  PROVE  /\ eng \in Engine /\ hist \in Hist /\ hist.left \in BOOLEAN /\ hist.due \in BOOLEAN
         /\ Carried(eng, hist.left, hist.due) /\ Fits(eng, hist.left, hist.due)
         /\ Posted(eng, hist.left) /\ Opened(eng, hist.left) /\ Tidy(eng)
         /\ eng.w.posted /\ ~hist.left => eng.f.open
         /\ got \in SUBSET Writer /\ ReadTypes /\ ReadsHeld
BY DEF IInv, Carried, Fits, Rest, Hist, Opened, Tidy, ReadTypes

LEMMA SeenIs ==
  ASSUME NEW t, hist \in Hist, Seen(t)
  PROVE  hist' \in Hist /\ hist'.left = hist.left /\ hist'.due = hist.due
BY DEF Hist, Seen

LEMMA StartWaveKeeps ==
  ASSUME IInv, StartWave
  PROVE  IInv' /\ PushedIsHeld
<1> DEFINE s == EnterLobby(eng, TRUE)
           t == FloodMyFeedCore(s)
<1>1. eng.w.phase = "none" /\ ~eng.ended /\ Becomes(t) /\ Seen(t) /\ got' = got
  BY DEF StartWave
<1>2. Carried(s, hist.left, hist.due) /\ Posted(s, hist.left) /\ Grows(eng, s)
  BY <1>1, Start, EnterLobbyKeeps
<1> HIDE DEF s
<1>3. Carried(t, hist.left, hist.due) /\ Posted(t, hist.left) /\ Grows(s, t)
  BY <1>2, Start, FloodMyFeedCoreKeeps
<1> HIDE DEF t
<1>4. Grows(eng, t)
  BY <1>2, <1>3, Start, GrowsTrans DEF Carried, Fits
<1>5. hist' \in Hist /\ hist'.left = hist.left /\ hist'.due = hist.due /\ got' \in SUBSET Writer
  BY <1>1, Start, SeenIs
<1>6. Carried(t, hist'.left, hist'.due) /\ Posted(t, hist'.left)
  BY <1>3, <1>5
<1> QED
  BY <1>1, <1>4, <1>5, <1>6, BecomesKeeps

LEMMA SubscribeKeeps ==
  ASSUME IInv, Subscribe
  PROVE  IInv' /\ PushedIsHeld
<1> DEFINE t == HoldFeed(eng)
<1>1. eng.w.phase # "none" /\ Becomes(t) /\ got' = got /\ hist' = hist
  BY DEF Subscribe
<1>2. Carried(t, hist.left, hist.due) /\ Posted(t, hist.left) /\ Grows(eng, t)
  BY <1>1, Start, HoldFeedKeeps
<1> HIDE DEF t
<1>3. hist' \in Hist /\ hist'.left = hist.left /\ hist'.due = hist.due /\ got' \in SUBSET Writer
  BY <1>1, Start
<1>4. Carried(t, hist'.left, hist'.due) /\ Posted(t, hist'.left)
  BY <1>2, <1>3
<1> QED
  BY <1>1, <1>2, <1>3, <1>4, BecomesKeeps

LEMMA JoinKeeps ==
  ASSUME IInv, Join
  PROVE  IInv' /\ PushedIsHeld
<1> DEFINE s == HoldFeed(eng)
           v == [s.w EXCEPT !.joined = TRUE]
           u == [s EXCEPT !.w = v]
           t == FloodMyFeedCore(u)
<1>1. Carried(s, hist.left, hist.due) /\ Posted(s, hist.left) /\ Grows(eng, s)
      /\ s.w.phase = eng.w.phase /\ s.w.phase # "none" /\ s.f.open /\ eng.w.phase = "lobby"
  BY Start, HoldFeedKeeps DEF Join
<1>2. [s EXCEPT !.w.joined = TRUE] = u
  BY <1>1 DEF Carried, Fits, Engine
<1>3. /\ Becomes(t) /\ got' = got
      /\ hist' = [hist EXCEPT !.flooded = @ \/ Me \in t.w.writers, !.burning = TRUE]
  BY <1>2 DEF Join
<1> HIDE DEF s
<1>4. /\ v \in WaveState /\ v.phase = s.w.phase /\ v.joined /\ v.burn = s.w.burn
      /\ v.slot = s.w.slot /\ v.posted = s.w.posted
  BY <1>1, Parts DEF WaveState, Carried, Fits
<1>5. v.posted => v.slot
  BY <1>1, <1>4 DEF Carried, Fits, Tidy
<1> HIDE DEF v
<1>6. Carried(u, hist.left, hist.due) /\ Posted(u, hist.left) /\ Grows(s, u)
  BY <1>1, <1>4, <1>5, Start, WaveKeeps DEF Carried
<1> HIDE DEF u
<1>7. Carried(t, hist.left, hist.due) /\ Posted(t, hist.left) /\ Grows(u, t)
  BY <1>6, Start, FloodMyFeedCoreKeeps
<1> HIDE DEF t
<1>8. Grows(eng, t)
  <2>1. Grows(eng, u)
    BY <1>1, <1>6, Start, GrowsTrans DEF Carried, Fits
  <2> QED
    BY <1>6, <1>7, <2>1, Start, GrowsTrans DEF Carried, Fits
<1>9. hist' \in Hist /\ hist'.left = hist.left /\ hist'.due = hist.due /\ got' \in SUBSET Writer
  BY <1>3, Start DEF Hist
<1>10. Carried(t, hist'.left, hist'.due) /\ Posted(t, hist'.left)
  BY <1>7, <1>9
<1> QED
  BY <1>3, <1>8, <1>9, <1>10, BecomesKeeps

\* stageEntry() and the slot timer: one half of the pair, then the post.
LEMMA HalfKeeps ==
  ASSUME IInv, NEW v \in WaveState, eng.w.phase # "none", v.phase = eng.w.phase,
         v.joined = eng.w.joined, v.burn = eng.w.burn, v.posted = eng.w.posted,
         v.posted => v.slot, v.timer => eng.w.timer,
         v.slot => eng.w.slot \/ eng.w.timer,
         Becomes(TryPost([eng EXCEPT !.w = v])), UNCHANGED <<got, hist>>
  PROVE  IInv' /\ PushedIsHeld
<1> DEFINE u == [eng EXCEPT !.w = v]
           t == TryPost(u)
<1>1. ~hist.left /\ (v.joined \/ v.timer \/ v.slot) => eng.f.open
  BY Start DEF Opened
<1>2. Carried(u, hist.left, hist.due) /\ Posted(u, hist.left) /\ Grows(eng, u)
  BY <1>1, Start, WaveKeeps
<1> HIDE DEF u
<1>3. Carried(t, hist.left, hist.due) /\ Posted(t, hist.left) /\ Grows(u, t)
  BY <1>2, Start, TryPostKeeps
<1>4. Becomes(t)
  BY DEF u
<1> HIDE DEF t
<1>5. Grows(eng, t)
  BY <1>2, <1>3, Start, GrowsTrans DEF Carried, Fits
<1>6. hist' \in Hist /\ hist'.left = hist.left /\ hist'.due = hist.due /\ got' \in SUBSET Writer
  BY Start
<1>7. Carried(t, hist'.left, hist'.due) /\ Posted(t, hist'.left)
  BY <1>3, <1>6
<1> QED
  BY <1>4, <1>5, <1>6, <1>7, BecomesKeeps

LEMMA StageKeeps ==
  ASSUME IInv, Stage
  PROVE  IInv' /\ PushedIsHeld
<1> DEFINE v == [eng.w EXCEPT !.staged = TRUE]
<1>1. eng \in Engine /\ Tidy(eng)
  BY Start
<1>2. [eng EXCEPT !.w.staged = TRUE] = [eng EXCEPT !.w = v]
  BY <1>1 DEF Engine
<1>3. /\ eng.w.phase # "none" /\ Becomes(TryPost([eng EXCEPT !.w = v]))
      /\ UNCHANGED <<got, hist>>
  BY <1>2 DEF Stage
<1>4. /\ v \in WaveState /\ v.phase = eng.w.phase /\ v.joined = eng.w.joined
      /\ v.burn = eng.w.burn /\ v.posted = eng.w.posted /\ v.slot = eng.w.slot
      /\ v.timer = eng.w.timer
  BY <1>1, Parts DEF WaveState
<1>5. v.posted => v.slot
  BY <1>1, <1>4 DEF Tidy
<1> HIDE DEF v
<1> QED
  BY <1>3, <1>4, <1>5, HalfKeeps

LEMMA SlotFiresKeeps ==
  ASSUME IInv, SlotFires
  PROVE  IInv' /\ PushedIsHeld
<1> DEFINE v == [eng.w EXCEPT !.timer = FALSE, !.slot = TRUE]
<1>1. eng \in Engine /\ Tidy(eng) /\ eng.w.timer
  BY Start DEF SlotFires
<1>2. [eng EXCEPT !.w.timer = FALSE, !.w.slot = TRUE] = [eng EXCEPT !.w = v]
  BY <1>1 DEF Engine
<1>3. Becomes(TryPost([eng EXCEPT !.w = v])) /\ UNCHANGED <<got, hist>>
  BY <1>2 DEF SlotFires
<1>4. /\ v \in WaveState /\ v.phase = eng.w.phase /\ v.joined = eng.w.joined
      /\ v.burn = eng.w.burn /\ v.posted = eng.w.posted /\ v.slot = TRUE /\ v.timer = FALSE
  BY <1>1, Parts DEF WaveState
<1>5. eng.w.phase # "none"
  BY <1>1, NoWaveIs DEF Tidy
<1> HIDE DEF v
<1> QED
  BY <1>1, <1>3, <1>4, <1>5, HalfKeeps
LEMMA UnsubscribeKeeps ==
  ASSUME IInv, Unsubscribe
  PROVE  IInv' /\ PushedIsHeld
<1> DEFINE v == [eng.w EXCEPT !.subscribed = FALSE, !.joined = FALSE]
           f == [gen |-> eng.f.gen, open |-> FALSE, ready |-> FALSE,
                 posted |-> FALSE, pending |-> FALSE, foreign |-> {}]
           x == [eng EXCEPT !.w = v]
           t == [x EXCEPT !.f = f]
<1>1. /\ eng \in Engine /\ Tidy(eng) /\ eng.f.gen \in Nat /\ eng.f.gen < MaxOpens
      /\ Numbered(eng) /\ got \in SUBSET Writer /\ hist \in Hist
      /\ OneFeed(eng, hist.left)
  BY Start, Parts DEF Unsubscribe, Fits
<1>2. /\ eng' = [eng EXCEPT !.w.subscribed = FALSE, !.w.joined = FALSE, !.f = f]
      /\ hist' = [hist EXCEPT !.left = TRUE, !.due = FALSE] /\ UNCHANGED <<reads, view, got>>
  BY DEF Unsubscribe
<1>3. /\ v \in WaveState /\ v.phase = eng.w.phase /\ v.posted = eng.w.posted
      /\ v.slot = eng.w.slot
  BY <1>1, Parts DEF WaveState
<1>4. f \in WaveCores /\ f.gen = eng.f.gen /\ f.open = FALSE /\ f.posted = FALSE
  BY <1>1 DEF WaveCores
<1>5. v.phase = "none" => ~(v.joined \/ v.signed \/ v.timer \/ v.slot \/ v.posted)
  BY <1>1, <1>3, Parts DEF Tidy, WaveState
<1> HIDE DEF f
<1>6. [eng EXCEPT !.w.subscribed = FALSE, !.w.joined = FALSE, !.f = f] = t
  BY <1>1 DEF Engine
<1> HIDE DEF v
<1>7. x \in Engine /\ x.w = v
  BY <1>1, <1>3, SetWave
<1> HIDE DEF x
<1>8. t \in Engine /\ t.w = v /\ t.f = f
  BY <1>4, <1>7, SetFeed
<1> HIDE DEF t
<1>9. hist' \in Hist /\ hist'.left = TRUE /\ hist'.due = FALSE
  BY <1>1, <1>2 DEF Hist
<1>10. Numbered(t) /\ Tidy(t)
  BY <1>1, <1>3, <1>4, <1>5, <1>8 DEF Numbered, Tidy
<1>11. OneFeed(t, TRUE) /\ Opened(t, TRUE) /\ Posted(t, TRUE)
  BY <1>4, <1>8 DEF OneFeed, Opened, Posted
<1>12. Carried(t, hist'.left, hist'.due) /\ Posted(t, hist'.left)
  BY <1>8, <1>9, <1>10, <1>11 DEF Carried, Fits
<1>13. Grows(eng, t)
  BY <1>1, <1>4, <1>8 DEF Grows
<1> QED
  BY <1>1, <1>2, <1>6, <1>9, <1>12, <1>13, StepKeeps

LEMMA AdoptKeeps ==
  ASSUME IInv, Adopt
  PROVE  IInv' /\ PushedIsHeld
<1> DEFINE t == EnterLobby(eng, FALSE)
<1>1. eng.w.phase = "none" /\ ~eng.ended /\ Becomes(t) /\ got' = got /\ hist' = hist
  BY DEF Adopt
<1>2. Carried(t, hist.left, hist.due) /\ Posted(t, hist.left) /\ Grows(eng, t)
  BY <1>1, Start, EnterLobbyKeeps
<1> HIDE DEF t
<1>3. hist' \in Hist /\ hist'.left = hist.left /\ hist'.due = hist.due /\ got' \in SUBSET Writer
  BY <1>1, Start
<1>4. Carried(t, hist'.left, hist'.due) /\ Posted(t, hist'.left)
  BY <1>2, <1>3
<1> QED
  BY <1>1, <1>2, <1>3, <1>4, BecomesKeeps

LEMMA LearnWriterKeeps ==
  ASSUME IInv, NEW c \in Participant, LearnWriter(c)
  PROVE  IInv' /\ PushedIsHeld
<1> DEFINE t == Ingest(eng, {c})
<1>1. eng.w.phase # "none" /\ Becomes(t) /\ got' = got /\ hist' = hist
  BY DEF LearnWriter
<1>2. Carried(t, hist.left, hist.due) /\ Posted(t, hist.left) /\ Grows(eng, t)
  BY <1>1, Start, IngestKeeps
<1> HIDE DEF t
<1>3. hist' \in Hist /\ hist'.left = hist.left /\ hist'.due = hist.due /\ got' \in SUBSET Writer
  BY <1>1, Start
<1>4. Carried(t, hist'.left, hist'.due) /\ Posted(t, hist'.left)
  BY <1>2, <1>3
<1> QED
  BY <1>1, <1>2, <1>3, <1>4, BecomesKeeps

LEMMA RaceStartsKeeps ==
  ASSUME IInv, RaceStarts
  PROVE  IInv' /\ PushedIsHeld
<1>1. PICK creds \in SUBSET Participant :
        LET s == IF eng.w.phase = "none" THEN EnterLobby(eng, FALSE) ELSE eng
            t == BeginSweep(Ingest(s, creds), {Host} \cup creds)
        IN  ~eng.ended /\ Becomes(t) /\ got' = got /\ hist' = hist
  BY DEF RaceStarts
<1> DEFINE s == IF eng.w.phase = "none" THEN EnterLobby(eng, FALSE) ELSE eng
           u == Ingest(s, creds)
           t == BeginSweep(u, {Host} \cup creds)
<1>2. ~eng.ended /\ Becomes(t) /\ got' = got /\ hist' = hist
  BY <1>1
<1>3. /\ Carried(s, hist.left, hist.due) /\ Posted(s, hist.left) /\ Grows(eng, s)
      /\ s.w.phase # "none"
  <2>1. CASE eng.w.phase = "none"
    BY <1>2, <2>1, Start, EnterLobbyKeeps
  <2>2. CASE eng.w.phase # "none"
    <3>1. eng.f.gen \in Nat
      BY Start, Parts
    <3> QED
      BY <2>2, <3>1, Start DEF Grows
  <2> QED
    BY <2>1, <2>2
<1> HIDE DEF s
<1>4. /\ Carried(u, hist.left, hist.due) /\ Posted(u, hist.left) /\ Grows(s, u)
      /\ u.w.phase # "none"
  BY <1>3, Start, IngestKeeps
<1> HIDE DEF u
<1>5. {Host} \cup creds \in SUBSET Participant
  BY Participants
<1>6. Carried(t, hist.left, hist.due) /\ Posted(t, hist.left) /\ Grows(u, t)
  BY <1>4, <1>5, Start, BeginSweepKeeps
<1> HIDE DEF t
<1>7. Grows(eng, t)
  <2>1. Grows(eng, u)
    BY <1>3, <1>4, Start, GrowsTrans DEF Carried, Fits
  <2> QED
    BY <1>4, <1>6, <2>1, Start, GrowsTrans DEF Carried, Fits
<1>8. hist' \in Hist /\ hist'.left = hist.left /\ hist'.due = hist.due /\ got' \in SUBSET Writer
  BY <1>2, Start
<1>9. Carried(t, hist'.left, hist'.due) /\ Posted(t, hist'.left)
  BY <1>6, <1>8
<1> QED
  BY <1>2, <1>7, <1>8, <1>9, BecomesKeeps

LEMMA ReplicateKeeps ==
  ASSUME IInv, NEW c \in Writer, Replicate(c)
  PROVE  IInv' /\ PushedIsHeld
<1>1. /\ got' = got \cup {c} /\ EmitView(eng, got') /\ eng' = eng /\ hist' = hist
  BY DEF Replicate
<1>2. hist' \in Hist /\ hist'.left = hist.left /\ hist'.due = hist.due /\ got' \in SUBSET Writer
  BY <1>1, Start
<1>3. eng.f.gen \in Nat
  BY Start, Parts
<1>4. Grows(eng, eng)
  BY <1>3 DEF Grows
<1>5. Carried(eng, hist'.left, hist'.due) /\ Posted(eng, hist'.left)
  BY <1>2, Start
<1> QED
  BY <1>1, <1>2, <1>4, <1>5, StepKeeps

LEMMA CoreReadyKeeps ==
  ASSUME IInv, NEW g \in Feeds, CoreReady(g)
  PROVE  IInv' /\ PushedIsHeld
<1> DEFINE b == eng.f.ready \/ (eng.f.open /\ eng.f.gen = g)
           f == [eng.f EXCEPT !.ready = b]
           o == eng.opening \ {g}
           x == [eng EXCEPT !.f = f]
           s == [x EXCEPT !.opening = o]
           u == IF g \in eng.opening THEN PublishCore(s) ELSE s
           t == Appended(u, g)
<1>1. eng \in Engine /\ Carried(eng, hist.left, hist.due) /\ Posted(eng, hist.left)
  BY Start
<1>2. [eng EXCEPT !.f.ready = @ \/ (eng.f.open /\ eng.f.gen = g), !.opening = @ \ {g}] = s
  BY <1>1 DEF Engine
<1>3. Becomes(t) /\ Seen(t) /\ got' = got
  BY <1>2 DEF CoreReady
<1>4. b \in BOOLEAN /\ o \in SUBSET Nat
  BY <1>1, Parts
<1> HIDE DEF b, o
<1>5. /\ f \in WaveCores /\ f.gen = eng.f.gen /\ f.open = eng.f.open /\ f.posted = eng.f.posted
      /\ f.pending = eng.f.pending /\ f.foreign = eng.f.foreign
  BY <1>1, <1>4, Parts DEF WaveCores
<1> HIDE DEF f
<1>6. Carried(x, hist.left, hist.due) /\ Posted(x, hist.left) /\ Grows(eng, x)
  BY <1>1, <1>5, Start, FeedKeeps
<1> HIDE DEF x
<1>7. Carried(s, hist.left, hist.due) /\ Posted(s, hist.left) /\ Grows(x, s) /\ Same(x, s)
  BY <1>4, <1>6, Start, OpeningKeeps
<1> HIDE DEF s
<1>8. Carried(u, hist.left, hist.due) /\ Posted(u, hist.left) /\ u.f = s.f
  BY <1>7, Start, PublishCoreKeeps DEF Same
<1> HIDE DEF u
<1>9. Carried(t, hist.left, hist.due) /\ Posted(t, hist.left) /\ Grows(u, t)
  BY <1>8, Start, AppendedKeeps
<1> HIDE DEF t
<1>10. Grows(eng, t)
  <2>1. u.f = x.f
    BY <1>7, <1>8 DEF Same
  <2> QED
    <3>1. Grows(x, t)
      BY <1>9, <2>1 DEF Grows
    <3> QED
      BY <1>1, <1>6, <1>9, <3>1, GrowsTrans DEF Carried, Fits
<1>11. hist' \in Hist /\ hist'.left = hist.left /\ hist'.due = hist.due /\ got' \in SUBSET Writer
  BY <1>3, Start, SeenIs
<1>12. Carried(t, hist'.left, hist'.due) /\ Posted(t, hist'.left)
  BY <1>9, <1>11
<1> QED
  BY <1>3, <1>10, <1>11, <1>12, BecomesKeeps
LEMMA FinalizeAndStartKeeps ==
  ASSUME IInv, FinalizeAndStart
  PROVE  IInv' /\ PushedIsHeld
<1>1. PICK keyReady \in BOOLEAN :
        LET s == IF keyReady
                 THEN [eng EXCEPT !.w.signed = TRUE, !.w.writers = @ \cup {Me}]
                 ELSE eng
        IN  /\ eng.w.phase = "lobby" /\ Becomes(BeginSweep(s, {Me} \cup s.w.writers))
            /\ got' = got /\ hist' = hist
  BY DEF FinalizeAndStart
<1> DEFINE s == IF keyReady
                THEN [eng EXCEPT !.w.signed = TRUE, !.w.writers = @ \cup {Me}]
                ELSE eng
           roster == {Me} \cup s.w.writers
           t == BeginSweep(s, roster)
<1>2. eng.w.phase = "lobby" /\ Becomes(t) /\ got' = got /\ hist' = hist
  BY <1>1
<1>3. /\ Carried(s, hist.left, hist.due) /\ Posted(s, hist.left) /\ Grows(eng, s)
      /\ s.w.phase # "none"
  <2>1. CASE keyReady
    BY <1>2, <2>1, Start, SignedKeeps
  <2>2. CASE ~keyReady
    <3>1. eng.f.gen \in Nat
      BY Start, Parts
    <3> QED
      BY <1>2, <2>2, <3>1, Start DEF Grows
  <2> QED
    BY <2>1, <2>2
<1> HIDE DEF s
<1>4. roster \in SUBSET Participant
  BY <1>3, Parts, Participants DEF Carried, Fits
<1> HIDE DEF roster
<1>5. Carried(t, hist.left, hist.due) /\ Posted(t, hist.left) /\ Grows(s, t)
  BY <1>3, <1>4, Start, BeginSweepKeeps
<1> HIDE DEF t
<1>6. Grows(eng, t)
  BY <1>3, <1>5, Start, GrowsTrans DEF Carried, Fits
<1>7. hist' \in Hist /\ hist'.left = hist.left /\ hist'.due = hist.due /\ got' \in SUBSET Writer
  BY <1>2, Start
<1>8. Carried(t, hist'.left, hist'.due) /\ Posted(t, hist'.left)
  BY <1>5, <1>7
<1> QED
  BY <1>2, <1>6, <1>7, <1>8, BecomesKeeps

LEMMA IdleKeeps ==
  ASSUME IInv, LobbyTimeout \/ FinishWave
  PROVE  IInv' /\ PushedIsHeld
<1>1. PICK revivable \in BOOLEAN :
        /\ eng.w.phase # "none" /\ Becomes(GoIdle(eng, revivable))
        /\ got' = got /\ hist' = hist
  BY DEF LobbyTimeout, FinishWave
<1> DEFINE t == GoIdle(eng, revivable)
<1>2. Carried(t, hist.left, hist.due) /\ Posted(t, hist.left) /\ Grows(eng, t)
  BY <1>1, Start, GoIdleKeeps
<1>3. Becomes(t)
  BY <1>1
<1> HIDE DEF t
<1>4. hist' \in Hist /\ hist'.left = hist.left /\ hist'.due = hist.due /\ got' \in SUBSET Writer
  BY <1>1, Start
<1>5. Carried(t, hist'.left, hist'.due) /\ Posted(t, hist'.left)
  BY <1>2, <1>4
<1> QED
  BY <1>2, <1>3, <1>4, <1>5, BecomesKeeps

\* The burn is recorded while I am joined and nothing was appended or waits: it is in what
\* will be.
LEMMA BurnConfirmedKeeps ==
  ASSUME IInv, BurnConfirmed
  PROVE  IInv' /\ PushedIsHeld
<1> DEFINE v == [eng.w EXCEPT !.burn = TRUE]
           s == [eng EXCEPT !.w = v]
           t == IF eng.w.phase = "none" THEN eng
                ELSE IF s.w.joined /\ s.w.phase = "lobby" THEN FloodMyFeedCore(s)
                ELSE s
           inTime == eng.w.joined /\ eng.core = << >> /\ NoPosts(eng)
<1>1. eng \in Engine /\ Tidy(eng) /\ eng.f.gen \in Nat
  BY Start, Parts
<1>2. [eng EXCEPT !.w.burn = TRUE] = s
  BY <1>1 DEF Engine
<1>3. /\ Becomes(t) /\ got' = got
      /\ hist' = [hist EXCEPT !.burning = FALSE, !.flooded = @ \/ Me \in t.w.writers,
                              !.due = @ \/ inTime]
  BY <1>2 DEF BurnConfirmed
<1>4. /\ hist' \in Hist /\ hist'.left = hist.left /\ (hist'.due <=> hist.due \/ inTime)
      /\ hist'.due \in BOOLEAN /\ got' \in SUBSET Writer
  <2> HIDE DEF t, inTime
  <2>1. hist' \in Hist /\ hist'.left = hist.left /\ (hist'.due <=> hist.due \/ inTime)
    BY <1>3, Start DEF Hist
  <2> QED
    BY <1>3, <2>1, Start DEF Hist
<1>5. CASE eng.w.phase = "none"
  <2>1. t = eng /\ ~inTime
    BY <1>1, <1>5 DEF Tidy
  <2> HIDE DEF t, inTime
  <2>3. hist'.due = hist.due
    BY <1>4, <2>1, Start
  <2>2. Carried(t, hist'.left, hist'.due) /\ Posted(t, hist'.left) /\ Grows(eng, t)
    BY <1>1, <1>4, <2>1, <2>3, Start DEF Grows
  <2> QED
    BY <1>3, <1>4, <2>2, BecomesKeeps
<1>6. CASE eng.w.phase # "none"
  <2>1. /\ v \in WaveState /\ v.phase = eng.w.phase /\ v.joined = eng.w.joined /\ v.burn = TRUE
        /\ v.slot = eng.w.slot /\ v.posted = eng.w.posted /\ v.timer = eng.w.timer
    BY <1>1, Parts DEF WaveState
  <2>2. t = IF v.joined /\ v.phase = "lobby" THEN FloodMyFeedCore(s) ELSE s
    BY <1>1, <1>6, <2>1, SetWave
  <2> HIDE DEF v, t
  <2>3. v.posted => v.slot
    BY <1>1, <2>1 DEF Tidy
  <2>4. ~hist.left /\ (v.joined \/ v.timer \/ v.slot) => eng.f.open
    BY <2>1, Start DEF Opened
  <2>5. /\ Carried(s, hist.left, hist.due) /\ Posted(s, hist.left) /\ Grows(eng, s)
        /\ s.w = v /\ s.core = eng.core /\ s.posts = eng.posts
    BY <1>6, <2>1, <2>3, <2>4, Start, WaveKeeps
  <2> HIDE DEF s
  <2>6. inTime => Ticket(s)
    <3>1. SUFFICES ASSUME inTime PROVE Ticket(s)
      OBVIOUS
    <3>2. v.joined /\ v.burn /\ s.core = << >>
      BY <2>1, <2>5, <3>1
    <3>3. \A k \in Feeds : s.posts[k] = << >>
      BY <2>5, <3>1 DEF NoPosts, Feeds
    <3>4. \A k \in Feeds : \A i \in DOMAIN s.posts[k] : s.posts[k][i].burn
      BY <3>3, Sequences
    <3> QED
      BY <1>6, <2>1, <2>5, <3>2, <3>4 DEF Ticket
  <2>7. Carried(s, hist.left, hist'.due)
    BY <1>4, <2>5, <2>6 DEF Carried, Fits
  <2>8. Carried(t, hist.left, hist'.due) /\ Posted(t, hist.left) /\ Grows(s, t)
    <3>1. s.f.gen \in Nat
      BY <2>5, Parts DEF Carried, Fits
    <3>2. Grows(s, s)
      BY <3>1 DEF Grows
    <3> QED
      BY <1>4, <2>2, <2>5, <2>7, <3>2, Start, FloodMyFeedCoreKeeps
  <2>9. Grows(eng, t)
    BY <1>1, <2>5, <2>8, GrowsTrans DEF Carried, Fits
  <2>10. Carried(t, hist'.left, hist'.due) /\ Posted(t, hist'.left)
    BY <1>4, <2>8
  <2> QED
    BY <1>3, <1>4, <2>9, <2>10, BecomesKeeps
<1> QED
  BY <1>5, <1>6

LEMMA TickKeeps ==
  ASSUME IInv, Tick
  PROVE  IInv' /\ PushedIsHeld
<1>1. (eng' = PostEntry(eng) \/ eng' = eng) /\ EmitView(eng', got) /\ got' = got /\ hist' = hist
  BY DEF Tick
<1>2. hist' \in Hist /\ hist'.left = hist.left /\ hist'.due = hist.due /\ got' \in SUBSET Writer
  BY <1>1, Start
<1>3. CASE eng' = PostEntry(eng)
  <2> DEFINE t == PostEntry(eng)
  <2>1. Carried(t, hist.left, hist.due) /\ Posted(t, hist.left) /\ Grows(eng, t)
    BY Start, PostEntryKeeps
  <2>2. eng' = t
    BY <1>3
  <2> HIDE DEF t
  <2>3. EmitView(t, got) /\ Carried(t, hist'.left, hist'.due) /\ Posted(t, hist'.left)
    BY <1>1, <1>2, <2>1, <2>2
  <2> QED
    BY <1>2, <2>1, <2>2, <2>3, StepKeeps
<1>4. CASE eng' = eng
  <2>1. eng.f.gen \in Nat
    BY Start, Parts
  <2>2. Grows(eng, eng)
    BY <2>1 DEF Grows
  <2>3. EmitView(eng, got) /\ Carried(eng, hist'.left, hist'.due) /\ Posted(eng, hist'.left)
    BY <1>1, <1>2, <1>4, Start
  <2> QED
    BY <1>2, <1>4, <2>2, <2>3, StepKeeps
<1> QED
  BY <1>1, <1>3, <1>4

\* A reading goes on, or pushes what it read from the feed that is held.
LEMMA ReadOnKeeps ==
  ASSUME IInv, NEW r \in 1 .. MaxReads, ReadOn(r)
  PROVE  IInv' /\ PushedIsHeld
<1> DEFINE read == reads[r]
           raw == Append(read.raw, Head(read.todo))
           rest == From(eng.core, got, Tail(read.todo))
           next == [read EXCEPT !.todo = rest, !.raw = raw]
           ours == eng.f.open /\ eng.f.gen = read.gen
           S == eng.f.foreign \cup {Me}
<1>1. /\ eng \in Engine /\ reads \in [1 .. MaxReads -> Read] /\ view \in Seq(Participant)
      /\ ReadsHeld /\ Rest
  BY Start DEF ReadTypes, IInv
<1>2. /\ read # NoRead /\ read \in Read /\ ReadOf(eng, read) /\ UNCHANGED <<eng, got, hist>>
  BY <1>1 DEF ReadOn, ReadsHeld
<1>3. /\ rest = << >> => /\ reads' = [reads EXCEPT ![r] = NoRead]
                         /\ view' = IF ours THEN raw ELSE view
      /\ rest # << >> => /\ reads' = [reads EXCEPT ![r].todo = rest, ![r].raw = raw]
                         /\ view' = view
  BY DEF ReadOn
<1>4. [reads EXCEPT ![r].todo = rest, ![r].raw = raw] = [reads EXCEPT ![r] = next]
  <2> HIDE DEF rest, raw
  <2> QED
    BY <1>1 DEF Read
<1>5. /\ read.gen \in Nat /\ read.todo \in Seq(Participant) /\ read.raw \in Seq(Participant)
      /\ read.todo # << >> /\ read.gen <= eng.f.gen
      /\ ours => read.todo \in Seq(S) /\ read.raw \in Seq(S)
  BY <1>2 DEF Read, ReadOf, Held
<1> HIDE DEF read
<1>6. raw \in Seq(Participant) /\ rest \in Seq(Participant)
  <2>1. Head(read.todo) \in Participant /\ Tail(read.todo) \in Seq(Participant)
    BY <1>5, HeadTailProperties
  <2>2. rest \in Seq(Participant)
    BY <2>1, FromIsHeld
  <2>3. raw \in Seq(Participant)
    BY <1>5, <2>1
  <2> QED
    BY <2>2, <2>3
<1>7. ours => raw \in Seq(S) /\ rest \in Seq(S)
  <2>1. SUFFICES ASSUME ours PROVE raw \in Seq(S) /\ rest \in Seq(S)
    OBVIOUS
  <2> HIDE DEF S
  <2>2. Head(read.todo) \in S /\ Tail(read.todo) \in Seq(S)
    BY <1>5, <2>1, HeadTailProperties
  <2>3. rest \in Seq(S)
    BY <2>2, FromIsHeld
  <2>4. raw \in Seq(S)
    BY <1>5, <2>1, <2>2
  <2> QED
    BY <2>3, <2>4
<1> HIDE DEF rest, raw
<1>8. next \in Read /\ next.todo = rest /\ next.raw = raw /\ next.gen = read.gen
  BY <1>2, <1>6 DEF Read
<1> HIDE DEF next
<1>9. rest # << >> => ReadOf(eng, next)
  BY <1>5, <1>7, <1>8 DEF ReadOf, Held
<1>10. ReadOf(eng, NoRead) /\ NoRead \in Read
  BY NoReadIs DEF ReadOf
<1>11. reads' \in [1 .. MaxReads -> Read] /\ \A q \in 1 .. MaxReads : ReadOf(eng, reads'[q])
  <2>1. PICK n \in Read : ReadOf(eng, n) /\ reads' = [reads EXCEPT ![r] = n]
    BY <1>3, <1>4, <1>8, <1>9, <1>10
  <2>2. \A q \in 1 .. MaxReads : ReadOf(eng, reads[q])
    BY <1>1 DEF ReadsHeld
  <2> QED
    BY <1>1, <2>1, <2>2
<1>12. view' \in Seq(Participant)
  BY <1>1, <1>3, <1>6
<1>13. PushedIsHeld
  <2>1. SUFFICES ASSUME view' # view
                 PROVE  eng.f.open /\ \A k \in 1 .. Len(view') : view'[k] \in S
    BY <1>2 DEF PushedIsHeld
  <2>2. ours /\ view' = raw
    BY <1>3, <2>1
  <2>3. view' \in Seq(S)
    BY <1>7, <2>2
  <2> HIDE DEF S
  <2> QED
    BY <2>2, <2>3
<1>14. IInv'
  <2>1. Carried(eng, hist.left, hist.due)' /\ Posted(eng, hist.left)'
    BY <1>2, Start
  <2>2. Rest'
    BY <1>1, <1>2, <1>11, <1>12 DEF Rest
  <2>3. ReadsHeld'
    BY <1>2, <1>11 DEF ReadsHeld
  <2> QED
    BY <2>1, <2>2, <2>3 DEF IInv
<1> QED
  BY <1>13, <1>14
-----------------------------------------------------------------------------
\* The theorems.

LEMMA InitKeeps == Init => IInv
<1> SUFFICES ASSUME Init PROVE IInv
  OBVIOUS
<1> DEFINE f == [gen |-> 0, open |-> FALSE, ready |-> FALSE, posted |-> FALSE,
                 pending |-> FALSE, foreign |-> {}]
           p == [g \in 1 .. MaxOpens |-> << >>]
<1>1. PICK auto \in AutoSubscribe :
        eng = [auto |-> auto, w |-> NoWave, f |-> f, memo |-> NoMemo, ended |-> FALSE,
               opening |-> {}, posts |-> p, core |-> << >>]
  BY DEF Init
<1>2. f \in WaveCores /\ f.gen = 0 /\ f.open = FALSE /\ f.posted = FALSE
  BY DEF WaveCores
<1> HIDE DEF f
<1>3. p \in [1 .. MaxOpens -> Seq(Block)] /\ \A g \in Feeds : p[g] = << >>
  BY DEF Feeds
<1> HIDE DEF p
<1>4. << >> \in Seq(Block)
  OBVIOUS
<1>5. /\ eng \in Engine /\ eng.w = NoWave /\ eng.f = f /\ eng.posts = p /\ eng.core = << >>
  BY <1>1, <1>2, <1>3, <1>4, NoWaveIs DEF Engine
<1>6. Numbered(eng) /\ Tidy(eng) /\ OneFeed(eng, FALSE) /\ Opened(eng, FALSE)
  BY <1>2, <1>3, <1>5, NoWaveIs, Participants DEF Numbered, Tidy, OneFeed, Opened
<1>7. hist \in Hist /\ hist.left = FALSE /\ hist.due = FALSE
  BY DEF Init, Hist
<1>8. Carried(eng, hist.left, hist.due)
  BY <1>5, <1>6, <1>7 DEF Carried, Fits
<1>9. Posted(eng, hist.left)
  BY <1>5, NoWaveIs DEF Posted
<1>10. Rest
  <2>1. << >> \in Seq(Participant)
    OBVIOUS
  <2> QED
    BY <1>7, <2>1, NoReadIs DEF Init, Rest, Hist
<1>11. ReadsHeld
  BY DEF Init, ReadsHeld, ReadOf
<1> QED
  BY <1>8, <1>9, <1>10, <1>11 DEF IInv

LEMMA NextKeeps == IInv /\ [Next]_vars => IInv' /\ (PushedIsHeld \/ UNCHANGED vars)
<1> SUFFICES ASSUME IInv, [Next]_vars PROVE IInv' /\ (PushedIsHeld \/ UNCHANGED vars)
  OBVIOUS
<1>1. CASE User
  BY <1>1, StartWaveKeeps, SubscribeKeeps, JoinKeeps, StageKeeps, UnsubscribeKeeps DEF User
<1>2. CASE Mesh
  BY <1>2, AdoptKeeps, RaceStartsKeeps, LearnWriterKeeps, ReplicateKeeps DEF Mesh
<1>3. CASE Timer
  BY <1>3, FinalizeAndStartKeeps, IdleKeeps, SlotFiresKeeps, BurnConfirmedKeeps, TickKeeps
  DEF Timer
<1>4. ASSUME NEW g \in 1 .. MaxOpens, CoreReady(g) PROVE IInv' /\ PushedIsHeld
  BY <1>4, CoreReadyKeeps DEF Feeds
<1>5. ASSUME NEW r \in 1 .. MaxReads, ReadOn(r) PROVE IInv' /\ PushedIsHeld
  BY <1>5, ReadOnKeeps
<1>6. CASE UNCHANGED vars
  BY <1>6 DEF vars, IInv, Rest, ReadsHeld
<1> QED
  BY <1>1, <1>2, <1>3, <1>4, <1>5, <1>6 DEF Next

\* The inductive invariant: in every reachable state the engine is well formed, an entry
\* that was let go is accounted for, a ticket that is due is on its way, and what is read
\* of the feed that is held comes from cores it holds.
THEOREM Invariance == Spec => []IInv
<1>1. Init => IInv
  BY InitKeeps
<1>2. IInv /\ [Next]_vars => IInv'
  BY NextKeeps
<1> QED
  BY <1>1, <1>2, PTL DEF Spec

\* Type correctness, for every set of writers and every bound.
THEOREM TypeCorrect == Spec => []TypeOK
<1>1. IInv => TypeOK
  BY DEF IInv, Carried, Fits, Rest, TypeOK
<1> QED
  BY <1>1, Invariance, PTL

\* Neither an entry that the pipeline let go (#tryPost, postEntry) nor a burn recorded
\* before it (recordBurn, abandonedJoins) is lost, whatever order the core's readiness, the
\* attestation, the slot, the burn and a lobby's timeout and revival come in.
THEOREM EntryIsCarried == Spec => []EntryCarried
<1>1. IInv => EntryCarried
  BY DEF IInv, Carried, Fits, Posted, Landed, Ticket, EntryCarried, EntryAccounted, TicketRides
<1> QED
  BY <1>1, Invariance, PTL

\* What #emitView pushes was read from cores that the feed held at that moment holds: a
\* reading that outlived its feed pushes nothing.
THEOREM ViewsOfHeldCores == Spec => ViewOfHeldCores
<1>1. IInv /\ [Next]_vars
        => [view' # view =>
              /\ eng'.f.open
              /\ \A k \in 1 .. Len(view') : view'[k] \in eng'.f.foreign \cup {Me}]_vars
  BY NextKeeps DEF PushedIsHeld
<1> QED
  BY <1>1, Invariance, PTL DEF Spec, ViewOfHeldCores

=============================================================================
