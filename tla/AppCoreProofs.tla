---------------------------- MODULE AppCoreProofs ----------------------------
(***************************************************************************)
(* Theorems about AppCore, for every set of waves, tips and tokens and     *)
(* every bound: its types, that the directory agrees with the engine once  *)
(* nothing about a wave is on its way, and that a tip goes to its author.  *)
(*                                                                         *)
(* What a queue will have said when it is drained is what its last word    *)
(* says, or, if it says nothing, what is said already (Ends).  So the      *)
(* invariant compares the engine with the last word of the messages, and   *)
(* the subscription shown with the last word of the commands.  For the     *)
(* tips it says at which one place each of them is (TipInv).               *)
(***************************************************************************)
EXTENDS AppCore, FiniteSetTheorems, TLAPS

-----------------------------------------------------------------------------
\* The queues.

\* Those of one of the kinds evs, about the wave w.
Of(evs, w) == {r \in Report : r.ev \in evs /\ r.wave = w}
To(evs, w) == {c \in Order : c.ev \in evs /\ c.wave = w}

Silent(s, A) == \A i \in DOMAIN s : s[i] \notin A

\* The last of A in s is one of M.
LastIn(s, A, M) == \E i \in DOMAIN s : s[i] \in M /\ \A j \in DOMAIN s : j > i => s[j] \notin A

\* ... or there is none, and it is so already.
Ends(s, A, M, already) == (Silent(s, A) /\ already) \/ LastIn(s, A, M)

-----------------------------------------------------------------------------
\* The inductive invariant.

\* What the directory has of a wave is of one that was announced and not pushed away.
Listed(w) == IF Known(w) THEN dir[w].by /\ w \notin dismissed ELSE ~dir[w].sub /\ ~dir[w].mine

DirectoryInv ==
  /\ \A w \in Wave : Listed(w)
  /\ feeds \cap dismissed = {}
  /\ active # None => Known(active)
  /\ \A v, w \in Wave : dir[v].mine /\ dir[w].mine => v = w

\* What a message r says of the engine's wave w is so: the messages of its phase, and those
\* of my seat in it.
OfPhase(w) == Of({"wave-announce", "wave-active", "wave-idle"}, w)
OfSeat(w) == Of(WaveEvent \ {"wave-idle"}, w)

PhaseSo(w) ==
  {r \in OfPhase(w) : CASE r.ev = "wave-announce" -> eng[w].phase = "lobby"
                        [] r.ev = "wave-active"   -> eng[w].phase = "racing"
                        [] OTHER                  -> ~Live(w)}

SeatSo(w) ==
  {r \in OfSeat(w) : CASE r.ev = "joined"       -> eng[w].joined
                       [] r.ev = "unsubscribed" -> ~eng[w].joined
                       [] OTHER                 -> r.joined = eng[w].joined}

\* What is shown of a wave will be what it is.
PhaseShown(w) ==
  Ends(msgs, OfPhase(w), PhaseSo(w),
       Known(w) => IF dir[w].phase = "ended" THEN ~Live(w) ELSE dir[w].phase = eng[w].phase)

SeatShown(w) ==
  Live(w) => Ends(msgs, OfSeat(w), SeatSo(w), Known(w) => dir[w].joined = eng[w].joined)

ViewInv == \A w \in Wave : PhaseShown(w) /\ SeatShown(w)

\* The messages of my subscription, the announces that tell of one and those that do not, and
\* the commands about a wave's cores.
OfSub(w) == Of({"wave-announce", "subscribed", "unsubscribed"}, w)
Told(w) == {r \in Of({"wave-announce"}, w) : r.sub}
Untold(w) == {r \in Of({"wave-announce"}, w) : ~r.sub}
Odd(w) == {r \in Of({"wave-announce"}, w) : r.mine /\ ~r.sub}
Asks(w) == To({"subscribe-wave"}, w)
Gives(w) == To({"unsubscribe-wave"}, w)
Cores(w) == To({"subscribe-wave", "join-wave", "unsubscribe-wave"}, w)

SubSo(w) ==
  {r \in OfSub(w) : CASE r.ev = "subscribed"   -> eng[w].sub
                      [] r.ev = "unsubscribed" -> ~eng[w].sub
                      [] OTHER                 -> r.sub => eng[w].sub}

\* A wave nobody met yet, and what the engine has said of its subscription to any wave.
Fresh(w) ==
  eng[w].phase = "none" =>
    /\ eng[w] = NoWave /\ ~Known(w) /\ w \notin dismissed
    /\ Silent(msgs, Of(WaveEvent, w)) /\ Silent(cmds, Cores(w))

Said(w) ==
  /\ eng[w].mine => eng[w].phase \notin {"none", "gone"}
  /\ eng[w].held => eng[w].sub
  /\ Ends(msgs, OfSub(w), SubSo(w), TRUE)
  /\ Silent(msgs, Odd(w))

\* Unless a gap opened on it: a wave shown as subscribed is, or will be, or was; and the cores
\* of one that is not shown so are given back, or they are those of a wave of mine about to be
\* shown.
Asked(w) ==
  Known(w) /\ dir[w].sub /\ Silent(msgs, OfSub(w)) =>
    eng[w].sub \/ eng[w].phase = "over" \/ ~Silent(cmds, Asks(w))

Given(w) ==
  ~dir[w].sub =>
    /\ Ends(cmds, Cores(w), Gives(w), TRUE)
    /\ Silent(cmds, Cores(w)) /\ eng[w].sub =>
         /\ eng[w].mine /\ ~Known(w) /\ w \notin dismissed
         /\ ~Silent(msgs, Told(w)) /\ Silent(msgs, Untold(w))

WaveCores(w) == Fresh(w) /\ Said(w) /\ (w \notin astray => Asked(w) /\ Given(w))

CoresInv ==
  /\ \A w \in Wave : WaveCores(w)
  /\ active # None /\ active \notin astray => dir[active].sub

IInv == TypeOK /\ DirectoryInv /\ ViewInv /\ CoresInv

-----------------------------------------------------------------------------
\* What an element appended to a queue, or taken from its head, does to what the queue says.

LEMMA AppendIs ==
  ASSUME NEW S, NEW s \in Seq(S), NEW x \in S
  PROVE  LET t == s \o <<x>>
         IN  /\ t \in Seq(S)
             /\ \A A : Silent(t, A) <=> Silent(s, A) /\ x \notin A
             /\ \A A, M : LastIn(t, A, M) <=> x \in M \/ (x \notin A /\ LastIn(s, A, M))
<1> DEFINE t == s \o <<x>>
           n == Len(s) + 1
<1>1. /\ t \in Seq(S) /\ n \in Nat /\ DOMAIN t = DOMAIN s \cup {n} /\ t[n] = x
      /\ \A i \in DOMAIN s : i \in Nat /\ i < n /\ t[i] = s[i]
  OBVIOUS
<1> HIDE DEF t, n
<1>2. \A A : Silent(t, A) <=> Silent(s, A) /\ x \notin A
  BY <1>1 DEF Silent
<1>3. \A A, M : LastIn(t, A, M) <=> x \in M \/ (x \notin A /\ LastIn(s, A, M))
  <2> TAKE A, M
  <2>1. ASSUME x \in M PROVE LastIn(t, A, M)
    BY <1>1, <2>1 DEF LastIn
  <2>2. ASSUME x \notin A, LastIn(s, A, M) PROVE LastIn(t, A, M)
    BY <1>1, <2>2 DEF LastIn
  <2>3. ASSUME LastIn(t, A, M), x \notin M PROVE x \notin A /\ LastIn(s, A, M)
    BY <1>1, <2>3 DEF LastIn
  <2> QED
    BY <2>1, <2>2, <2>3
<1> QED
  BY <1>1, <1>2, <1>3 DEF t

LEMMA Appended ==
  ASSUME NEW S, NEW s \in Seq(S), NEW x \in S, NEW t, t = s \o <<x>>
  PROVE  /\ \A A : Silent(t, A) <=> Silent(s, A) /\ x \notin A
         /\ \A A, M : LastIn(t, A, M) <=> x \in M \/ (x \notin A /\ LastIn(s, A, M))
BY AppendIs

LEMMA TailIs ==
  ASSUME NEW S, NEW s \in Seq(S), s # <<>>
  PROVE  LET t == Tail(s)
             x == Head(s)
         IN  /\ t \in Seq(S) /\ x \in S
             /\ \A A : Silent(s, A) <=> Silent(t, A) /\ x \notin A
             /\ \A A, M : LastIn(s, A, M) <=> LastIn(t, A, M) \/ (x \in M /\ Silent(t, A))
<1> DEFINE t == Tail(s)
           x == Head(s)
<1>1. /\ t \in Seq(S) /\ x \in S /\ 1 \in DOMAIN s /\ s[1] = x
      /\ \A i \in DOMAIN t : i \in Nat /\ i >= 1 /\ i + 1 \in DOMAIN s /\ t[i] = s[i + 1]
      /\ \A j \in DOMAIN s : j = 1 \/ (j \in Nat /\ j > 1 /\ j - 1 \in DOMAIN t /\ s[j] = t[j - 1])
  OBVIOUS
<1> HIDE DEF t, x
<1>2. \A A : Silent(s, A) <=> Silent(t, A) /\ x \notin A
  <2> TAKE A
  <2>1. ASSUME Silent(s, A) PROVE Silent(t, A) /\ x \notin A
    BY <1>1, <2>1 DEF Silent
  <2>2. ASSUME Silent(t, A), x \notin A PROVE Silent(s, A)
    BY <1>1, <2>2 DEF Silent
  <2> QED
    BY <2>1, <2>2
<1>3. \A A, M : LastIn(s, A, M) <=> LastIn(t, A, M) \/ (x \in M /\ Silent(t, A))
  <2> TAKE A, M
  <2>1. ASSUME LastIn(s, A, M) PROVE LastIn(t, A, M) \/ (x \in M /\ Silent(t, A))
    <3>1. PICK i \in DOMAIN s : s[i] \in M /\ \A j \in DOMAIN s : j > i => s[j] \notin A
      BY <2>1 DEF LastIn
    <3>2. \A k \in DOMAIN t : k + 1 > i => t[k] \notin A
      BY <1>1, <3>1
    <3>3. CASE i = 1
      <4>1. \A k \in DOMAIN t : k + 1 > 1
        BY <1>1
      <4> QED
        BY <1>1, <3>1, <3>2, <3>3, <4>1 DEF Silent
    <3>4. CASE i # 1
      <4>1. i - 1 \in DOMAIN t /\ t[i - 1] \in M
        BY <1>1, <3>1, <3>4
      <4>2. \A k \in DOMAIN t : k > i - 1 => k + 1 > i
        BY <1>1, <3>4
      <4> QED
        BY <3>2, <4>1, <4>2 DEF LastIn
    <3> QED
      BY <3>3, <3>4
  <2>2. ASSUME LastIn(t, A, M) PROVE LastIn(s, A, M)
    <3>1. PICK i \in DOMAIN t : t[i] \in M /\ \A j \in DOMAIN t : j > i => t[j] \notin A
      BY <2>2 DEF LastIn
    <3>2. i + 1 \in DOMAIN s /\ s[i + 1] \in M
      BY <1>1, <3>1
    <3>3. ASSUME NEW j \in DOMAIN s, j > i + 1 PROVE s[j] \notin A
      <4>1. i \in Nat /\ i >= 1
        BY <1>1, <3>1
      <4>2. j - 1 \in DOMAIN t /\ s[j] = t[j - 1] /\ j \in Nat /\ j # 1
        BY <1>1, <3>3, <4>1
      <4> QED
        BY <3>1, <3>3, <4>1, <4>2
    <3> QED
      BY <3>2, <3>3 DEF LastIn
  <2>3. ASSUME x \in M, Silent(t, A) PROVE LastIn(s, A, M)
    BY <1>1, <2>3 DEF LastIn, Silent
  <2> QED
    BY <2>1, <2>2, <2>3
<1> QED
  BY <1>1, <1>2, <1>3 DEF t, x

LEMMA NothingSaid ==
  \A A : Silent(<<>>, A)
BY DEF Silent

\* A queue says the same of U as before.
Alike(t, s, U) ==
  \A A, M \in SUBSET U :
    /\ Silent(t, A) <=> Silent(s, A)
    /\ LastIn(t, A, M) <=> LastIn(s, A, M)

LEMMA AlikeAppend ==
  ASSUME NEW S, NEW s \in Seq(S), NEW x \in S, NEW U, x \notin U
  PROVE  Alike(s \o <<x>>, s, U)
<1> SUFFICES ASSUME NEW A \in SUBSET U, NEW M \in SUBSET U
             PROVE  LET t == s \o <<x>>
                    IN  /\ Silent(t, A) <=> Silent(s, A)
                        /\ LastIn(t, A, M) <=> LastIn(s, A, M)
  BY DEF Alike
<1>1. x \notin A /\ x \notin M
  OBVIOUS
<1> QED
  BY <1>1, AppendIs

LEMMA AlikeTail ==
  ASSUME NEW S, NEW s \in Seq(S), s # <<>>, NEW U, Head(s) \notin U
  PROVE  Alike(Tail(s), s, U)
<1> SUFFICES ASSUME NEW A \in SUBSET U, NEW M \in SUBSET U
             PROVE  LET t == Tail(s)
                    IN  /\ Silent(t, A) <=> Silent(s, A)
                        /\ LastIn(t, A, M) <=> LastIn(s, A, M)
  BY DEF Alike
<1>1. Head(s) \notin A /\ Head(s) \notin M
  OBVIOUS
<1> QED
  BY <1>1, TailIs

LEMMA AlikeSame ==
  ASSUME NEW s, NEW U
  PROVE  Alike(s, s, U)
BY DEF Alike

LEMMA AlikeTrans ==
  ASSUME NEW s, NEW t, NEW u, NEW U, Alike(t, s, U), Alike(u, t, U)
  PROVE  Alike(u, s, U)
BY DEF Alike

-----------------------------------------------------------------------------
\* A wave about which nothing is said or done.

EntrySame(v) ==
  /\ dir'[v].phase = dir[v].phase /\ dir'[v].sub = dir[v].sub
  /\ dir'[v].joined = dir[v].joined

LEMMA SameView ==
  ASSUME NEW v, PhaseShown(v), SeatShown(v), eng'[v] = eng[v], EntrySame(v),
         Alike(msgs', msgs, Of(WaveEvent, v))
  PROVE  PhaseShown(v)' /\ SeatShown(v)'
<1>1. PhaseSo(v)' = PhaseSo(v) /\ SeatSo(v)' = SeatSo(v)
  BY DEF PhaseSo, SeatSo, Live
<1>2. /\ PhaseSo(v) \subseteq OfPhase(v) /\ OfPhase(v) \subseteq Of(WaveEvent, v)
      /\ SeatSo(v) \subseteq OfSeat(v) /\ OfSeat(v) \subseteq Of(WaveEvent, v)
  BY DEF PhaseSo, SeatSo, OfPhase, OfSeat, Of, WaveEvent
<1>3. /\ Silent(msgs', OfPhase(v)) <=> Silent(msgs, OfPhase(v))
      /\ LastIn(msgs', OfPhase(v), PhaseSo(v)) <=> LastIn(msgs, OfPhase(v), PhaseSo(v))
  BY <1>2 DEF Alike
<1>4. /\ Silent(msgs', OfSeat(v)) <=> Silent(msgs, OfSeat(v))
      /\ LastIn(msgs', OfSeat(v), SeatSo(v)) <=> LastIn(msgs, OfSeat(v), SeatSo(v))
  BY <1>2 DEF Alike
<1>5. Known(v)' = Known(v) /\ Live(v)' = Live(v)
  BY DEF Known, Live, EntrySame
<1>6. OfPhase(v)' = OfPhase(v) /\ OfSeat(v)' = OfSeat(v)
  OBVIOUS
<1>7. PhaseShown(v)'
  BY <1>1, <1>3, <1>5, <1>6 DEF PhaseShown, Ends, EntrySame
<1>8. SeatShown(v)'
  BY <1>1, <1>4, <1>5, <1>6 DEF SeatShown, Ends, EntrySame
<1> QED
  BY <1>7, <1>8

LEMMA SameCores ==
  ASSUME NEW v, WaveCores(v), eng'[v] = eng[v], Known(v)' <=> Known(v),
         dir'[v].sub <=> dir[v].sub, v \in dismissed' <=> v \in dismissed,
         astray \subseteq astray',
         Alike(msgs', msgs, Of(WaveEvent, v)), Alike(cmds', cmds, Cores(v))
  PROVE  WaveCores(v)'
<1>1. SubSo(v)' = SubSo(v)
  BY DEF SubSo
<1>2. /\ OfSub(v) \subseteq Of(WaveEvent, v) /\ SubSo(v) \subseteq Of(WaveEvent, v)
      /\ Told(v) \subseteq Of(WaveEvent, v) /\ Untold(v) \subseteq Of(WaveEvent, v)
      /\ Odd(v) \subseteq Of(WaveEvent, v)
  BY DEF OfSub, SubSo, Told, Untold, Odd, Of, WaveEvent
<1>3. /\ Silent(msgs', Of(WaveEvent, v)) <=> Silent(msgs, Of(WaveEvent, v))
      /\ Silent(msgs', OfSub(v)) <=> Silent(msgs, OfSub(v))
      /\ Silent(msgs', Told(v)) <=> Silent(msgs, Told(v))
      /\ Silent(msgs', Untold(v)) <=> Silent(msgs, Untold(v))
      /\ Silent(msgs', Odd(v)) <=> Silent(msgs, Odd(v))
      /\ LastIn(msgs', OfSub(v), SubSo(v)) <=> LastIn(msgs, OfSub(v), SubSo(v))
  BY <1>2 DEF Alike
<1>4. Asks(v) \subseteq Cores(v) /\ Gives(v) \subseteq Cores(v)
  BY DEF Asks, Gives, Cores, To
<1>5. /\ Silent(cmds', Cores(v)) <=> Silent(cmds, Cores(v))
      /\ Silent(cmds', Asks(v)) <=> Silent(cmds, Asks(v))
      /\ LastIn(cmds', Cores(v), Gives(v)) <=> LastIn(cmds, Cores(v), Gives(v))
  BY <1>4 DEF Alike
<1>6. Fresh(v)'
  BY <1>3, <1>5 DEF WaveCores, Fresh
<1>7. Said(v)'
  BY <1>1, <1>3 DEF WaveCores, Said, Ends
<1>8. ASSUME v \notin astray' PROVE Asked(v)' /\ Given(v)'
  <2>1. Asked(v) /\ Given(v)
    BY <1>8 DEF WaveCores
  <2>2. Asked(v)'
    BY <1>3, <1>5, <2>1 DEF Asked
  <2>3. Given(v)'
    BY <1>3, <1>5, <2>1 DEF Given, Ends
  <2> QED
    BY <2>2, <2>3
<1> QED
  BY <1>6, <1>7, <1>8 DEF WaveCores

-----------------------------------------------------------------------------
\* The cores of a dropped wave are freed.

LEMMA FreesIs ==
  ASSUME NEW P, NEW d, \A v, w \in P : v = w
  PROVE  \/ Frees(P, d) = <<>> /\ \A v \in P : ~d[v].sub
         \/ \E v \in P : d[v].sub /\ Frees(P, d) = <<Plain("unsubscribe-wave", v)>>
<1> DEFINE C == {Plain("unsubscribe-wave", w) : w \in {x \in P : d[x].sub}}
<1>1. Frees(P, d) = SetToSeq(C)
  BY DEF Frees
<1>2. CASE \A v \in P : ~d[v].sub
  <2>1. C = {}
    BY <1>2
  <2> HIDE DEF C
  <2>2. Cardinality(C) = 0
    BY <2>1, FS_EmptySet
  <2>3. 1 .. Cardinality(C) = {}
    BY <2>2
  <2>4. ASSUME NEW f \in [1 .. Cardinality(C) -> C] PROVE f = <<>>
    <3>1. f = [i \in {} |-> f[i]]
      BY <2>3
    <3>2. [i \in {} |-> f[i]] = [i \in {} |-> 0]
      OBVIOUS
    <3>3. <<>> = [i \in {} |-> 0]
      OBVIOUS
    <3> QED
      BY <3>1, <3>2, <3>3
  <2>5. <<>> \in [1 .. Cardinality(C) -> C] /\ IsInjective(<<>>)
    BY <2>3 DEF IsInjective
  <2>6. SetToSeq(C) = <<>>
    BY <2>4, <2>5 DEF SetToSeq
  <2> QED
    BY <1>1, <1>2, <2>6
<1>3. CASE \E v \in P : d[v].sub
  <2>1. PICK v \in P : d[v].sub
    BY <1>3
  <2> DEFINE c == Plain("unsubscribe-wave", v)
  <2>2. C = {c}
    BY <2>1
  <2> HIDE DEF C, c
  <2>3. Cardinality(C) = 1
    BY <2>2, FS_Singleton
  <2>4. 1 .. Cardinality(C) = {1}
    BY <2>3
  <2>5. \A f \in [1 .. Cardinality(C) -> C] : f = <<c>>
    <3> SUFFICES ASSUME NEW f \in [{1} -> {c}] PROVE f = <<c>>
      BY <2>2, <2>4
    <3>1. f[1] = c
      OBVIOUS
    <3>2. f = [i \in {1} |-> f[i]]
      OBVIOUS
    <3>3. <<c>> = [i \in {1} |-> c]
      OBVIOUS
    <3> QED
      BY <3>1, <3>2, <3>3
  <2>6. <<c>> \in [1 .. Cardinality(C) -> C] /\ IsInjective(<<c>>)
    <3>1. <<c>> = [i \in {1} |-> c]
      OBVIOUS
    <3> QED
      BY <2>2, <2>4, <3>1 DEF IsInjective
  <2>7. SetToSeq(C) = <<c>>
    BY <2>5, <2>6 DEF SetToSeq
  <2> QED
    BY <1>1, <2>1, <2>7 DEF c
<1> QED
  BY <1>2, <1>3

LEMMA FreedIs ==
  ASSUME cmds \in Seq(Order), NEW P \in SUBSET Wave, NEW d, \A v, w \in P : v = w,
         cmds' = cmds \o Frees(P, d)
  PROVE  /\ cmds' \in Seq(Order)
         /\ \A v \in Wave : v \notin P \/ ~d[v].sub => Alike(cmds', cmds, Cores(v))
         /\ \A v \in P : d[v].sub => LastIn(cmds', Cores(v), Gives(v))
<1>1. CASE Frees(P, d) = <<>> /\ \A v \in P : ~d[v].sub
  <2>1. cmds' = cmds
    BY <1>1
  <2> QED
    BY <1>1, <2>1 DEF Alike
<1>2. CASE \E v \in P : d[v].sub /\ Frees(P, d) = <<Plain("unsubscribe-wave", v)>>
  <2>1. PICK v \in P : d[v].sub /\ Frees(P, d) = <<Plain("unsubscribe-wave", v)>>
    BY <1>2
  <2> DEFINE c == Plain("unsubscribe-wave", v)
  <2>2. c \in Order /\ c \in Gives(v) /\ c.wave = v
    BY DEF Plain, Order, Frame, WaveCommand, Gives, To
  <2>3. cmds' = cmds \o <<c>>
    BY <2>1
  <2> HIDE DEF c
  <2>4. cmds' \in Seq(Order) /\ LastIn(cmds', Cores(v), Gives(v))
    BY <2>2, <2>3, AppendIs
  <2>5. ASSUME NEW w \in Wave, w # v PROVE Alike(cmds', cmds, Cores(w))
    <3>1. c \notin Cores(w)
      BY <2>2, <2>5 DEF Cores, To
    <3> QED
      BY <2>2, <2>3, <3>1, AlikeAppend
  <2> QED
    BY <2>1, <2>4, <2>5
<1> QED
  BY <1>1, <1>2, FreesIs

LEMMA DroppedView ==
  ASSUME NEW v, PhaseShown(v), SeatShown(v), eng'[v] = eng[v], ~Known(v)',
         Alike(msgs', msgs, Of(WaveEvent, v))
  PROVE  PhaseShown(v)' /\ SeatShown(v)'
<1>1. PhaseSo(v)' = PhaseSo(v) /\ SeatSo(v)' = SeatSo(v) /\ Live(v)' = Live(v)
  BY DEF PhaseSo, SeatSo, Live
<1>2. /\ PhaseSo(v) \subseteq OfPhase(v) /\ OfPhase(v) \subseteq Of(WaveEvent, v)
      /\ SeatSo(v) \subseteq OfSeat(v) /\ OfSeat(v) \subseteq Of(WaveEvent, v)
  BY DEF PhaseSo, SeatSo, OfPhase, OfSeat, Of, WaveEvent
<1>3. /\ Silent(msgs', OfPhase(v)) <=> Silent(msgs, OfPhase(v))
      /\ LastIn(msgs', OfPhase(v), PhaseSo(v)) <=> LastIn(msgs, OfPhase(v), PhaseSo(v))
  BY <1>2 DEF Alike
<1>4. /\ Silent(msgs', OfSeat(v)) <=> Silent(msgs, OfSeat(v))
      /\ LastIn(msgs', OfSeat(v), SeatSo(v)) <=> LastIn(msgs, OfSeat(v), SeatSo(v))
  BY <1>2 DEF Alike
<1>5. PhaseShown(v)'
  BY <1>1, <1>3 DEF PhaseShown, Ends
<1>6. SeatShown(v)'
  BY <1>1, <1>4 DEF SeatShown, Ends
<1> QED
  BY <1>5, <1>6

LEMMA DroppedCores ==
  ASSUME NEW v, WaveCores(v), Listed(v), ~Known(v)', ~dir'[v].sub, eng'[v] = eng[v],
         v \in dismissed' => v \in dismissed \/ Known(v), astray \subseteq astray',
         Alike(msgs', msgs, Of(WaveEvent, v)),
         dir[v].sub => LastIn(cmds', Cores(v), Gives(v)),
         ~dir[v].sub => Alike(cmds', cmds, Cores(v))
  PROVE  WaveCores(v)'
<1>1. SubSo(v)' = SubSo(v)
  BY DEF SubSo
<1>2. /\ OfSub(v) \subseteq Of(WaveEvent, v) /\ SubSo(v) \subseteq Of(WaveEvent, v)
      /\ Told(v) \subseteq Of(WaveEvent, v) /\ Untold(v) \subseteq Of(WaveEvent, v)
      /\ Odd(v) \subseteq Of(WaveEvent, v) /\ Gives(v) \subseteq Cores(v)
  BY DEF OfSub, SubSo, Told, Untold, Odd, Of, WaveEvent, Gives, Cores, To
<1>3. /\ Silent(msgs', Of(WaveEvent, v)) <=> Silent(msgs, Of(WaveEvent, v))
      /\ Silent(msgs', OfSub(v)) <=> Silent(msgs, OfSub(v))
      /\ Silent(msgs', Told(v)) <=> Silent(msgs, Told(v))
      /\ Silent(msgs', Untold(v)) <=> Silent(msgs, Untold(v))
      /\ Silent(msgs', Odd(v)) <=> Silent(msgs, Odd(v))
      /\ LastIn(msgs', OfSub(v), SubSo(v)) <=> LastIn(msgs, OfSub(v), SubSo(v))
  BY <1>2 DEF Alike
<1>4. Fresh(v)'
  <2> SUFFICES ASSUME eng[v].phase = "none"
               PROVE  Fresh(v)'
    BY DEF Fresh
  <2>1. /\ eng[v] = NoWave /\ ~Known(v) /\ v \notin dismissed
        /\ Silent(msgs, Of(WaveEvent, v)) /\ Silent(cmds, Cores(v)) /\ ~dir[v].sub
    BY DEF WaveCores, Fresh, Listed
  <2>2. Silent(cmds', Cores(v))
    BY <2>1 DEF Alike
  <2> QED
    BY <1>3, <2>1, <2>2 DEF Fresh
<1>5. Said(v)'
  BY <1>1, <1>3 DEF WaveCores, Said, Ends
<1>6. ASSUME v \notin astray' PROVE Asked(v)' /\ Given(v)'
  <2>1. CASE dir[v].sub
    <3>1. ~Silent(cmds', Cores(v))
      BY <1>2, <2>1 DEF Silent, LastIn
    <3> QED
      BY <2>1, <3>1 DEF Asked, Given, Ends
  <2>2. CASE ~dir[v].sub
    <3>1. Given(v)
      BY <1>6 DEF WaveCores
    <3>2. /\ Silent(cmds', Cores(v)) <=> Silent(cmds, Cores(v))
          /\ LastIn(cmds', Cores(v), Gives(v)) <=> LastIn(cmds, Cores(v), Gives(v))
      BY <1>2, <2>2 DEF Alike
    <3> QED
      BY <1>3, <2>2, <3>1, <3>2 DEF Asked, Given, Ends
  <2> QED
    BY <2>1, <2>2
<1> QED
  BY <1>4, <1>5, <1>6 DEF WaveCores

-----------------------------------------------------------------------------
\* Types.

LEMMA NoWaveType == NoWave \in EngineWave /\ NoEntry \in Entry
BY DEF NoWave, NoEntry, EngineWave, Entry

LEMMA SubscribedIs ==
  ASSUME NEW e \in EngineWave
  PROVE  /\ Subscribed(e) \in EngineWave /\ Subscribed(e).sub
         /\ Subscribed(e).phase = e.phase /\ Subscribed(e).joined = e.joined
         /\ Subscribed(e).mine = e.mine /\ (e.sub => Subscribed(e) = e)
BY DEF Subscribed, EngineWave

LEMMA PlainIs ==
  ASSUME NEW ev, NEW x
  PROVE  /\ Plain(ev, x).ev = ev /\ Plain(ev, x).wave = x
         /\ x \in Wave /\ ev \in WaveEvent \cup {"feed"} => Plain(ev, x) \in Report
         /\ x \in Token /\ ev = "dm" => Plain(ev, x) \in Report
         /\ x \in Tip /\ ev \in {"tip-result", "tip-failed"} => Plain(ev, x) \in Report
         /\ x \in Network /\ ev = "wallet" => Plain(ev, x) \in Report
         /\ x \in Wave /\ ev \in WaveCommand => Plain(ev, x) \in Order
         /\ x \in Token /\ ev = "redeem" => Plain(ev, x) \in Order
         /\ x \in Tip /\ ev = "tip" => Plain(ev, x) \in Order
         /\ x \in Tip \X Tip /\ ev = "dm" => Plain(ev, x) \in Order
         /\ x \in Network /\ ev = "set-wallet-options" => Plain(ev, x) \in Order
BY DEF Plain, Report, Order, Frame

LEMMA MsgIs ==
  ASSUME NEW w \in Wave, eng' \in [Wave -> EngineWave], NEW ev \in WaveEvent
  PROVE  /\ Msg(ev, w) \in Of({ev}, w) /\ Msg(ev, w) \in Report
         /\ Msg(ev, w).ev = ev /\ Msg(ev, w).wave = w /\ Msg(ev, w).mine = eng'[w].mine
         /\ Msg(ev, w).sub = eng'[w].held /\ Msg(ev, w).joined = eng'[w].joined
<1>1. eng'[w].mine \in BOOLEAN /\ eng'[w].held \in BOOLEAN /\ eng'[w].joined \in BOOLEAN
  BY DEF EngineWave
<1> QED
  BY <1>1 DEF Msg, Of, Report, Frame

LEMMA EchoIs ==
  ASSUME NEW w \in Wave, eng \in [Wave -> EngineWave]
  PROVE  \/ eng[w].sub /\ Echo(w) = <<>>
         \/ /\ ~eng[w].sub
            /\ \E r \in Of({"subscribed"}, w) :
                 Echo(w) = <<r>> /\ r.ev = "subscribed" /\ r.joined = eng[w].joined
<1> DEFINE r == [Plain("subscribed", w) EXCEPT !.joined = eng[w].joined]
<1>1. eng[w].joined \in BOOLEAN /\ eng[w].sub \in BOOLEAN
  BY DEF EngineWave
<1>2. r \in [ev : {"subscribed"}, wave : {w}, mine : BOOLEAN, sub : BOOLEAN, joined : BOOLEAN]
      /\ r.joined = eng[w].joined
  <2> DEFINE j == eng[w].joined
             p == Plain("subscribed", w)
             T == [ev : {"subscribed"}, wave : {w}, mine : BOOLEAN, sub : BOOLEAN,
                   joined : BOOLEAN]
  <2>1. p \in T /\ j \in BOOLEAN
    BY <1>1 DEF Plain
  <2> HIDE DEF p, j
  <2>2. [p EXCEPT !.joined = j] \in T /\ [p EXCEPT !.joined = j].joined = j
    BY <2>1
  <2> QED
    BY <2>2 DEF p, j
<1>3. r \in Of({"subscribed"}, w) /\ r.ev = "subscribed" /\ r.joined = eng[w].joined
  <2> HIDE DEF r
  <2> QED
    BY <1>1, <1>2 DEF Of, Report, Frame, WaveEvent
<1>4. Echo(w) = IF eng[w].sub THEN <<>> ELSE <<r>>
  BY DEF Echo
<1> HIDE DEF r
<1> QED
  BY <1>1, <1>3, <1>4

\* What the engine says of the wave w: perhaps an echo, and then m.
LEMMA SpeaksIs ==
  ASSUME msgs \in Seq(Report), NEW w, NEW e, NEW m \in Of(WaveEvent, w),
         e = <<>> \/ \E r \in Of({"subscribed"}, w) : e = <<r>>,
         msgs' = msgs \o (e \o <<m>>)
  PROVE  /\ msgs' \in Seq(Report)
         /\ \A v : v # w => Alike(msgs', msgs, Of(WaveEvent, v))
         /\ \A A, M : m \in M => LastIn(msgs', A, M)
         /\ Alike(msgs', msgs, Report \ (Of({"subscribed"}, w) \cup {m}))
         /\ e = <<>> => \A A : Silent(msgs', A) <=> Silent(msgs, A) /\ m \notin A
<1>1. m \in Report /\ \A v : v # w => m \notin Of(WaveEvent, v)
  BY DEF Of
<1>2. CASE e = <<>>
  <2>1. msgs' = msgs \o <<m>>
    BY <1>2
  <2>2. m \notin Report \ (Of({"subscribed"}, w) \cup {m})
    OBVIOUS
  <2>3. /\ msgs' \in Seq(Report)
        /\ \A A : Silent(msgs', A) <=> Silent(msgs, A) /\ m \notin A
        /\ \A A, M : m \in M => LastIn(msgs', A, M)
    <3>1. /\ msgs \o <<m>> \in Seq(Report)
          /\ \A A : Silent(msgs \o <<m>>, A) <=> Silent(msgs, A) /\ m \notin A
          /\ \A A, M : m \in M => LastIn(msgs \o <<m>>, A, M)
      BY <1>1, AppendIs
    <3> QED
      BY <2>1, <3>1
  <2>4. \A U : m \notin U => Alike(msgs', msgs, U)
    BY <1>1, <2>1, AlikeAppend
  <2> QED
    BY <1>1, <2>2, <2>3, <2>4
<1>3. CASE \E r \in Of({"subscribed"}, w) : e = <<r>>
  <2>1. PICK r \in Of({"subscribed"}, w) : e = <<r>>
    BY <1>3
  <2> DEFINE s == msgs \o <<r>>
  <2>2. r \in Report /\ e # <<>> /\ \A v : v # w => r \notin Of(WaveEvent, v)
    BY <2>1 DEF Of
  <2>3. s \in Seq(Report) /\ msgs' = s \o <<m>>
    BY <1>1, <2>1, <2>2
  <2>4. \A v : v # w => Alike(s, msgs, Of(WaveEvent, v))
    BY <2>2, AlikeAppend
  <2>5. /\ r \notin Report \ (Of({"subscribed"}, w) \cup {m})
        /\ m \notin Report \ (Of({"subscribed"}, w) \cup {m})
    OBVIOUS
  <2>6. Alike(s, msgs, Report \ (Of({"subscribed"}, w) \cup {m}))
    BY <2>2, <2>5, AlikeAppend
  <2> HIDE DEF s
  <2>7. msgs' \in Seq(Report) /\ \A A, M : m \in M => LastIn(msgs', A, M)
    <3>1. \A A, M : m \in M => LastIn(s \o <<m>>, A, M)
      BY <1>1, <2>3, AppendIs
    <3>2. s \o <<m>> \in Seq(Report)
      BY <1>1, <2>3
    <3> QED
      BY <2>3, <3>1, <3>2
  <2>8. \A v : v # w => Alike(msgs', msgs, Of(WaveEvent, v))
    <3> TAKE v
    <3>1. ASSUME v # w PROVE Alike(msgs', s, Of(WaveEvent, v))
      BY <1>1, <2>3, <3>1, AlikeAppend
    <3> QED
      BY <2>4, <3>1, AlikeTrans
  <2>9. Alike(msgs', msgs, Report \ (Of({"subscribed"}, w) \cup {m}))
    <3>1. Alike(s \o <<m>>, s, Report \ (Of({"subscribed"}, w) \cup {m}))
      <4> DEFINE U == Report \ (Of({"subscribed"}, w) \cup {m})
      <4>1. m \notin U
        OBVIOUS
      <4> HIDE DEF U
      <4>2. Alike(s \o <<m>>, s, U)
        BY <1>1, <2>3, <4>1, AlikeAppend
      <4> QED
        BY <4>2 DEF U
    <3> QED
      BY <2>3, <2>6, <3>1, AlikeTrans
  <2> QED
    BY <2>2, <2>7, <2>8, <2>9
<1> QED
  BY <1>2, <1>3

-----------------------------------------------------------------------------
\* A step that leaves the directory alone.

Elsewhere(w) ==
  \A v \in Wave : v # w =>
    /\ eng'[v] = eng[v]
    /\ Alike(msgs', msgs, Of(WaveEvent, v)) /\ Alike(cmds', cmds, Cores(v))

LEMMA DirectorySame ==
  ASSUME DirectoryInv, UNCHANGED <<dir, feeds, dismissed, active>>
  PROVE  DirectoryInv'
BY DEF DirectoryInv, Listed, Known

LEMMA StepOf ==
  ASSUME IInv, TypeOK', NEW w \in Wave, UNCHANGED <<dir, feeds, dismissed, active>>,
         astray \subseteq astray', Elsewhere(w),
         PhaseShown(w)' /\ SeatShown(w)', WaveCores(w)'
  PROVE  IInv'
<1>1. DirectoryInv'
  BY DirectorySame DEF IInv
<1>2. \A v : EntrySame(v) /\ Known(v)' = Known(v) /\ dir'[v].sub = dir[v].sub
  BY DEF EntrySame, Known
<1>3. ViewInv'
  <2>1. ASSUME NEW v \in Wave, v # w PROVE PhaseShown(v)' /\ SeatShown(v)'
    <3>1. PhaseShown(v) /\ SeatShown(v)
      BY DEF IInv, ViewInv
    <3>2. eng'[v] = eng[v] /\ Alike(msgs', msgs, Of(WaveEvent, v))
      BY <2>1 DEF Elsewhere
    <3> QED
      BY <1>2, <3>1, <3>2, SameView
  <2> QED
    BY <2>1 DEF ViewInv
<1>4. CoresInv'
  <2>1. ASSUME NEW v \in Wave, v # w PROVE WaveCores(v)'
    <3>1. /\ eng'[v] = eng[v] /\ Alike(msgs', msgs, Of(WaveEvent, v))
          /\ Alike(cmds', cmds, Cores(v))
      BY <2>1 DEF Elsewhere
    <3>2. WaveCores(v)
      BY DEF IInv, CoresInv
    <3> QED
      BY <1>2, <3>1, <3>2, SameCores
  <2> QED
    BY <2>1 DEF IInv, CoresInv
<1> QED
  BY <1>1, <1>3, <1>4 DEF IInv

LEMMA StepOfNone ==
  ASSUME IInv, TypeOK', UNCHANGED <<eng, dir, feeds, dismissed, active>>,
         astray \subseteq astray',
         \A v \in Wave : /\ Alike(msgs', msgs, Of(WaveEvent, v))
                         /\ Alike(cmds', cmds, Cores(v))
  PROVE  IInv'
<1>1. DirectoryInv'
  BY DirectorySame DEF IInv
<1>2. \A v : /\ EntrySame(v) /\ eng'[v] = eng[v] /\ (v \in dismissed' <=> v \in dismissed)
            /\ Known(v)' = Known(v) /\ dir'[v].sub = dir[v].sub
  BY DEF EntrySame, Known
<1>3. ViewInv'
  BY <1>2, SameView DEF IInv, ViewInv
<1>4. CoresInv'
  <2>1. \A v \in Wave : WaveCores(v)'
    BY <1>2, SameCores DEF IInv, CoresInv
  <2> QED
    BY <2>1 DEF IInv, CoresInv
<1> QED
  BY <1>1, <1>3, <1>4 DEF IInv

\* A message, or a command, that is about no wave's life or cores.
LEMMA OtherMessage ==
  ASSUME TypeOK, NEW r \in Report, r.ev \notin WaveEvent, msgs' = msgs \o <<r>>
  PROVE  msgs' \in Seq(Report) /\ \A v \in Wave : Alike(msgs', msgs, Of(WaveEvent, v))
<1>1. \A v \in Wave : r \notin Of(WaveEvent, v)
  BY DEF Of
<1>2. msgs \in Seq(Report)
  BY DEF TypeOK
<1>3. msgs' \in Seq(Report)
  BY <1>2
<1> QED
  BY <1>1, <1>2, <1>3, AlikeAppend

LEMMA OtherCommand ==
  ASSUME TypeOK, NEW c \in Order, c.ev \notin {"subscribe-wave", "join-wave", "unsubscribe-wave"},
         cmds' = cmds \o <<c>>
  PROVE  cmds' \in Seq(Order) /\ \A v \in Wave : Alike(cmds', cmds, Cores(v))
<1>1. \A v \in Wave : c \notin Cores(v)
  BY DEF Cores, To
<1>2. cmds \in Seq(Order)
  BY DEF TypeOK
<1>3. cmds' \in Seq(Order)
  BY <1>2
<1> QED
  BY <1>1, <1>2, <1>3, AlikeAppend

LEMMA FeedKeeps == \A w \in Wave : IInv /\ FeedShown(w) => IInv'
<1> SUFFICES ASSUME NEW w \in Wave, IInv, FeedShown(w) PROVE IInv'
  OBVIOUS
<1> DEFINE r == Plain("feed", w)
<1>1. r \in Report /\ r.ev = "feed"
  BY PlainIs
<1>2. msgs' = msgs \o <<r>> /\ UNCHANGED <<engVars, cmds, coreVars, auxVars>>
  BY DEF FeedShown, Emit
<1> HIDE DEF r
<1>3. msgs' \in Seq(Report) /\ \A v \in Wave : Alike(msgs', msgs, Of(WaveEvent, v))
  <2>1. r.ev \notin WaveEvent
    BY <1>1 DEF WaveEvent
  <2> QED
    BY <1>1, <1>2, <2>1, OtherMessage DEF IInv
<1>4. TypeOK'
  BY <1>2, <1>3 DEF IInv, TypeOK, engVars, payVars, coreVars, auxVars
<1>5. \A v \in Wave : Alike(cmds', cmds, Cores(v))
  BY <1>2, AlikeSame
<1> QED
  BY <1>2, <1>3, <1>4, <1>5, StepOfNone DEF engVars, coreVars, auxVars

LEMMA DmKeeps == \A k \in Token : IInv /\ DmArrives(k) => IInv'
<1> SUFFICES ASSUME NEW k \in Token, IInv, DmArrives(k) PROVE IInv'
  OBVIOUS
<1> DEFINE r == Plain("dm", k)
<1>1. r \in Report /\ r.ev = "dm"
  BY PlainIs
<1>2. /\ msgs' = msgs \o <<r>> /\ rare' = rare \cup {"wallet"}
      /\ UNCHANGED <<eng, paying, fate, payVars, cmds, coreVars, auxVars>>
  BY DEF DmArrives, Emit, Rare
<1> HIDE DEF r
<1>3. msgs' \in Seq(Report) /\ \A v \in Wave : Alike(msgs', msgs, Of(WaveEvent, v))
  <2>1. r.ev \notin WaveEvent
    BY <1>1 DEF WaveEvent
  <2> QED
    BY <1>1, <1>2, <2>1, OtherMessage DEF IInv
<1>4. TypeOK'
  BY <1>2, <1>3 DEF IInv, TypeOK, Kind, payVars, coreVars, auxVars
<1>5. \A v \in Wave : Alike(cmds', cmds, Cores(v))
  BY <1>2, AlikeSame
<1> QED
  BY <1>2, <1>3, <1>4, <1>5, StepOfNone DEF coreVars, auxVars

LEMMA TipPaidKeeps == \A t \in Tip : IInv /\ TipPaid(t) => IInv'
<1> SUFFICES ASSUME NEW t \in Tip, IInv, TipPaid(t) PROVE IInv'
  OBVIOUS
<1>1. PICK ev \in {"tip-result", "tip-failed"} : msgs' = msgs \o <<Plain(ev, t)>>
  BY DEF TipPaid, Emit
<1> DEFINE r == Plain(ev, t)
<1>2. r \in Report /\ r.ev = ev
  BY PlainIs
<1>3. msgs' = msgs \o <<r>> /\ paying' = paying \ {t}
      /\ UNCHANGED <<eng, rare, fate, payVars, cmds, coreVars, auxVars>>
  BY <1>1 DEF TipPaid
<1> HIDE DEF r
<1>4. msgs' \in Seq(Report) /\ \A v \in Wave : Alike(msgs', msgs, Of(WaveEvent, v))
  <2>1. r.ev \notin WaveEvent
    BY <1>2 DEF WaveEvent
  <2> QED
    BY <1>2, <1>3, <2>1, OtherMessage DEF IInv
<1>5. TypeOK'
  BY <1>3, <1>4 DEF IInv, TypeOK, payVars, coreVars, auxVars
<1>6. \A v \in Wave : Alike(cmds', cmds, Cores(v))
  BY <1>3, AlikeSame
<1> QED
  BY <1>3, <1>4, <1>5, <1>6, StepOfNone DEF coreVars, auxVars

LEMMA WalletKeeps == IInv /\ WalletMade => IInv'
<1> SUFFICES ASSUME IInv, WalletMade PROVE IInv'
  OBVIOUS
<1> DEFINE r == Plain("wallet", making)
<1>t. TypeOK
  BY DEF IInv
<1>1. making \in Network /\ msgs \in Seq(Report)
  BY <1>t DEF WalletMade, TypeOK
<1>2. r \in Report /\ r.ev \notin WaveEvent
  BY <1>1, PlainIs DEF WaveEvent
<1>3. /\ \/ wallet' = TRUE /\ msgs' = msgs \o <<r>>
         \/ UNCHANGED <<wallet, msgs>>
      /\ making' = None
      /\ UNCHANGED <<eng, rare, paying, fate, fees, cmds, coreVars, auxVars>>
  BY DEF WalletMade, Emit
<1> HIDE DEF r
<1>4. msgs' \in Seq(Report) /\ \A v \in Wave : Alike(msgs', msgs, Of(WaveEvent, v))
  <2>1. CASE msgs' = msgs \o <<r>>
    BY <1>t, <1>2, <2>1, OtherMessage
  <2>2. CASE msgs' = msgs
    BY <1>1, <2>2, AlikeSame
  <2> QED
    BY <1>3, <2>1, <2>2
<1>5. TypeOK'
  BY <1>t, <1>3, <1>4 DEF TypeOK, coreVars, auxVars
<1>6. \A v \in Wave : Alike(cmds', cmds, Cores(v))
  BY <1>3, AlikeSame
<1> QED
  BY <1>3, <1>4, <1>5, <1>6, StepOfNone DEF coreVars, auxVars

-----------------------------------------------------------------------------
\* The engine announces a wave, and moves its phase.

LEMMA AnnounceShown ==
  ASSUME NEW w, NEW m \in Of({"wave-announce"}, w), eng'[w].phase = "lobby",
         m.joined = eng'[w].joined, \A A, M : m \in M => LastIn(msgs', A, M)
  PROVE  PhaseShown(w)' /\ SeatShown(w)'
<1>1. m \in OfPhase(w) /\ m \in OfSeat(w) /\ m.ev = "wave-announce"
  BY DEF OfPhase, OfSeat, Of, WaveEvent
<1>2. m \in PhaseSo(w)' /\ m \in SeatSo(w)'
  BY <1>1 DEF PhaseSo, SeatSo
<1> QED
  BY <1>2 DEF PhaseShown, SeatShown, Ends

\* What the engine says of w is so of my subscription: m, after the echo g of a new one.
LEMMA SaidIs ==
  ASSUME NEW w, Said(w), msgs \in Seq(Report), NEW g, NEW m \in Of(WaveEvent, w),
         msgs' = msgs \o (g \o <<m>>), m \notin Odd(w), m \in OfSub(w) => m \in SubSo(w)',
         \/ g = <<>> /\ (eng'[w].sub = eng[w].sub \/ m \in SubSo(w)')
         \/ eng'[w].sub /\ \E r \in Of({"subscribed"}, w) : g = <<r>>,
         eng'[w].mine => eng'[w].phase \notin {"none", "gone"}, eng'[w].held => eng'[w].sub
  PROVE  Said(w)'
<1>1. m \in Report /\ SubSo(w)' \subseteq OfSub(w)
  BY DEF Of, SubSo
<1>2. Silent(msgs, Odd(w)) /\ (Silent(msgs, OfSub(w)) \/ LastIn(msgs, OfSub(w), SubSo(w)))
  BY DEF Said, Ends
<1>3. CASE g = <<>> /\ (eng'[w].sub = eng[w].sub \/ m \in SubSo(w)')
  <2>1. msgs' = msgs \o <<m>>
    BY <1>3
  <2>2. /\ \A A : Silent(msgs', A) <=> Silent(msgs, A) /\ m \notin A
        /\ \A A, M : LastIn(msgs', A, M) <=> m \in M \/ (m \notin A /\ LastIn(msgs, A, M))
    BY <1>1, <2>1, Appended
  <2>3. Silent(msgs', OfSub(w)) \/ LastIn(msgs', OfSub(w), SubSo(w)')
    <3>1. CASE m \in SubSo(w)'
      BY <2>2, <3>1
    <3>2. CASE m \notin SubSo(w)'
      <4>1. SubSo(w)' = SubSo(w) /\ m \notin OfSub(w)
        BY <1>3, <3>2 DEF SubSo
      <4> QED
        BY <1>2, <2>2, <4>1
    <3> QED
      BY <3>1, <3>2
  <2> QED
    BY <1>2, <2>2, <2>3 DEF Said, Ends
<1>4. ASSUME eng'[w].sub, NEW r \in Of({"subscribed"}, w), g = <<r>> PROVE Said(w)'
  <2> DEFINE s == msgs \o <<r>>
  <2>1. r \in Report /\ r.ev = "subscribed" /\ s \in Seq(Report) /\ msgs' = s \o <<m>>
    BY <1>1, <1>4 DEF Of
  <2>2. r \in SubSo(w)' /\ r \notin Odd(w)
    BY <1>4, <2>1 DEF SubSo, OfSub, Odd, Of
  <2>3. LastIn(s, OfSub(w), SubSo(w)') /\ Silent(s, Odd(w))
    BY <1>2, <2>1, <2>2, AppendIs
  <2> HIDE DEF s
  <2>4. LET t == s \o <<m>>
        IN  LastIn(t, OfSub(w), SubSo(w)') /\ Silent(t, Odd(w))
    BY <1>1, <2>1, <2>3, AppendIs
  <2> QED
    BY <2>1, <2>4 DEF Said, Ends
<1> QED
  BY <1>3, <1>4

\* A step that leaves the subscription as it was.
LEMMA StayedCores ==
  ASSUME NEW w, Asked(w), Given(w), msgs \in Seq(Report), NEW m \in Of(WaveEvent, w),
         msgs' = msgs \o <<m>>, UNCHANGED <<cmds, dir, dismissed>>, eng'[w].sub = eng[w].sub,
         eng'[w].mine = eng[w].mine, eng[w].phase = "over" => eng'[w].phase = "over",
         m.ev = "wave-announce" => ~eng[w].mine
  PROVE  Asked(w)' /\ Given(w)'
<1>1. m \in Report
  BY DEF Of
<1>2. \A A : Silent(msgs', A) <=> Silent(msgs, A) /\ m \notin A
  <2>1. \A A : Silent(msgs \o <<m>>, A) <=> Silent(msgs, A) /\ m \notin A
    BY <1>1, AppendIs
  <2> QED
    BY <2>1
<1>3. Known(w)' = Known(w)
  BY DEF Known
<1>4. Asked(w)'
  BY <1>2, <1>3 DEF Asked
<1>5. eng[w].mine => m \notin Told(w) /\ m \notin Untold(w)
  BY DEF Told, Untold, Of
<1>6. Given(w)'
  BY <1>2, <1>3, <1>5 DEF Given, Ends
<1> QED
  BY <1>4, <1>6

\* The echo of a seat kept or restored, whose cores are held already where they matter.
LEMMA SeatEcho ==
  ASSUME NEW w \in Wave, eng \in [Wave -> EngineWave]
  PROVE  LET e == IF eng[w].joined THEN Echo(w) ELSE <<>>
         IN  \/ e = <<>> /\ (eng[w].joined => eng[w].sub)
             \/ eng[w].joined /\ ~eng[w].sub /\ \E r \in Of({"subscribed"}, w) : e = <<r>>
BY EchoIs

LEMMA Moved ==
  ASSUME NEW w \in Wave, eng \in [Wave -> EngineWave], NEW ph \in {"lobby", "racing"}
  PROVE  LET e == [eng[w] EXCEPT !.phase = ph]
             f == IF e.joined THEN Subscribed(e) ELSE e
         IN  /\ f \in EngineWave /\ f.phase = ph /\ f.joined = eng[w].joined
             /\ f.mine = eng[w].mine
             /\ eng[w].joined => f.sub
             /\ (eng[w].joined => eng[w].sub) => f.sub = eng[w].sub /\ f.held = eng[w].held
             /\ (eng[w].held => eng[w].sub) => (f.held => f.sub)
<1> DEFINE e == [eng[w] EXCEPT !.phase = ph]
<1>1. eng[w] \in EngineWave
  OBVIOUS
<1>2. /\ e \in EngineWave /\ e.phase = ph /\ e.joined = eng[w].joined /\ e.mine = eng[w].mine
      /\ e.sub = eng[w].sub /\ e.held = eng[w].held
  BY <1>1 DEF EngineWave
<1> HIDE DEF e
<1>3. CASE e.joined
  BY <1>2, <1>3, SubscribedIs DEF e
<1>4. CASE ~e.joined
  BY <1>2, <1>4 DEF e
<1> QED
  BY <1>3, <1>4

\* A wave enters its lobby or its race, with the seat kept of it.
LEMMA EntersKeeps ==
  ASSUME IInv, NEW w \in Wave, NEW ph \in {"lobby", "racing"}, Enters(w, ph),
         eng[w].phase = "lobby" \/ Meets(w), NEW g, NEW m,
         g = IF eng[w].joined THEN Echo(w) ELSE <<>>,
         m = Msg(IF ph = "lobby" THEN "wave-announce" ELSE "wave-active", w),
         ph = "lobby" => Meets(w), msgs' = msgs \o (g \o <<m>>),
         UNCHANGED <<rare, paying, fate, payVars, cmds, coreVars, hurried>>
  PROVE  IInv'
<1> DEFINE e == [eng[w] EXCEPT !.phase = ph]
           f == IF e.joined THEN Subscribed(e) ELSE e
           ev == IF ph = "lobby" THEN "wave-announce" ELSE "wave-active"
<1>t. TypeOK
  BY DEF IInv
<1>1. /\ eng' = [eng EXCEPT ![w] = f]
      /\ astray' = IF eng[w].joined /\ ~eng[w].sub THEN astray \cup {w} ELSE astray
  <2>1. eng[w] \in EngineWave
    BY <1>t DEF TypeOK
  <2>2. e.joined = eng[w].joined /\ e.sub = eng[w].sub
    BY <2>1 DEF EngineWave
  <2> QED
    BY <2>2 DEF Enters
<1>2. /\ f \in EngineWave /\ f.phase = ph /\ f.joined = eng[w].joined
      /\ f.mine = eng[w].mine
      /\ eng[w].joined => f.sub
      /\ (eng[w].joined => eng[w].sub) => f.sub = eng[w].sub /\ f.held = eng[w].held
      /\ (eng[w].held => eng[w].sub) => (f.held => f.sub)
  BY <1>t, Moved DEF TypeOK
<1>3. \/ g = <<>> /\ (eng[w].joined => eng[w].sub)
      \/ eng[w].joined /\ ~eng[w].sub /\ \E r \in Of({"subscribed"}, w) : g = <<r>>
  BY <1>t, SeatEcho DEF TypeOK
<1> HIDE DEF f
<1>4. eng' \in [Wave -> EngineWave] /\ eng'[w] = f /\ \A v \in Wave : v # w => eng'[v] = eng[v]
  BY <1>t, <1>1, <1>2 DEF TypeOK
<1>5. /\ m \in Of({ev}, w) /\ m.ev = ev /\ m.joined = f.joined /\ m.sub = f.held
      /\ m.mine = f.mine /\ m \in Of(WaveEvent, w)
  <2>1. ev \in WaveEvent
    BY DEF WaveEvent
  <2> HIDE DEF ev
  <2>2. /\ m \in Of({ev}, w) /\ m.ev = ev /\ m.joined = f.joined /\ m.sub = f.held
        /\ m.mine = f.mine
    BY <1>4, <2>1, MsgIs DEF ev
  <2> QED
    BY <2>1, <2>2 DEF Of
<1>6. /\ msgs' \in Seq(Report) /\ \A v : v # w => Alike(msgs', msgs, Of(WaveEvent, v))
      /\ \A A, M : m \in M => LastIn(msgs', A, M)
  <2>1. g = <<>> \/ \E r \in Of({"subscribed"}, w) : g = <<r>>
    BY <1>3
  <2>2. msgs \in Seq(Report)
    BY <1>t DEF TypeOK
  <2> QED
    BY <1>5, <2>1, <2>2, SpeaksIs
<1>7. UNCHANGED <<cmds, dir, feeds, dismissed, active>> /\ astray \subseteq astray'
  BY <1>1 DEF coreVars
<1>8. TypeOK'
  BY <1>t, <1>1, <1>4, <1>6 DEF TypeOK, payVars, coreVars
<1>9. Elsewhere(w)
  BY <1>4, <1>6, <1>7, AlikeSame DEF Elsewhere
<1>10. PhaseShown(w)' /\ SeatShown(w)'
  <2>1. m \in OfPhase(w) /\ m \in OfSeat(w)
    BY <1>5 DEF OfPhase, OfSeat, Of, WaveEvent
  <2>2. m \in PhaseSo(w)' /\ m \in SeatSo(w)'
    BY <1>2, <1>4, <1>5, <2>1 DEF PhaseSo, SeatSo
  <2> QED
    BY <1>6, <2>2 DEF PhaseShown, SeatShown, Ends
<1>11. WaveCores(w) /\ Fresh(w) /\ Said(w)
  BY DEF IInv, CoresInv, WaveCores
<1>12. m.ev = "wave-announce" => ~eng[w].mine
  <2>1. m.ev = "wave-announce" => eng[w].phase \in {"none", "gone"}
    BY <1>5 DEF Meets, Unmet, NoWave
  <2> QED
    BY <1>11, <2>1 DEF Said
<1>13. Said(w)'
  <2>1. m \notin Odd(w)
    BY <1>2, <1>5, <1>12 DEF Odd, Of
  <2>2. m \in OfSub(w) => m \in SubSo(w)'
    BY <1>2, <1>4, <1>5, <1>11 DEF SubSo, OfSub, Of, Said
  <2>3. \/ g = <<>> /\ eng'[w].sub = eng[w].sub
        \/ eng'[w].sub /\ \E r \in Of({"subscribed"}, w) : g = <<r>>
    BY <1>2, <1>3, <1>4
  <2>4. eng'[w].phase \notin {"none", "gone"} /\ (eng'[w].held => eng'[w].sub)
    BY <1>2, <1>4, <1>11 DEF Said
  <2>5. msgs \in Seq(Report)
    BY <1>t DEF TypeOK
  <2> QED
    BY <1>5, <1>11, <2>1, <2>2, <2>3, <2>4, <2>5, SaidIs
<1>14. ASSUME w \notin astray' PROVE Asked(w)' /\ Given(w)'
  <2>1. eng[w].joined => eng[w].sub
    BY <1>1, <1>14
  <2>2. msgs' = msgs \o <<m>> /\ msgs \in Seq(Report)
    <3>1. g = <<>>
      BY <1>3, <2>1
    <3>2. g \o <<m>> = <<m>>
      <4>1. <<>> \o <<m>> = <<m>>
        OBVIOUS
      <4> QED
        BY <3>1, <4>1
    <3>3. msgs' = msgs \o <<m>>
      BY <3>2
    <3> QED
      BY <1>t, <3>3 DEF TypeOK
  <2>3. Asked(w) /\ Given(w)
    BY <1>7, <1>11, <1>14 DEF WaveCores
  <2>4. eng'[w].sub = eng[w].sub /\ eng'[w].mine = eng[w].mine /\ eng[w].phase # "over"
    BY <1>2, <1>4, <2>1 DEF Meets, Unmet, NoWave
  <2> QED
    BY <1>5, <1>7, <1>12, <2>2, <2>3, <2>4, StayedCores
<1>15. WaveCores(w)'
  BY <1>2, <1>4, <1>13, <1>14 DEF WaveCores, Fresh
<1> QED
  BY <1>7, <1>8, <1>9, <1>10, <1>15, StepOf

LEMMA AnnouncedKeeps == \A w \in Wave : IInv /\ Announced(w) => IInv'
BY EntersKeeps DEF Announced, Emit

LEMMA RacesKeeps == \A w \in Wave : IInv /\ Races(w) => IInv'
BY EntersKeeps DEF Races, Emit

LEMMA GoIdleKeeps == \A w \in Wave : IInv /\ GoIdle(w) => IInv'
<1> SUFFICES ASSUME NEW w \in Wave, IInv, GoIdle(w) PROVE IInv'
  OBVIOUS
<1> DEFINE m == Msg("wave-idle", w)
           over == [eng[w] EXCEPT !.phase = "over", !.held = FALSE, !.joined = FALSE]
           gone == [eng[w] EXCEPT !.phase = "gone", !.held = FALSE]
<1>t. TypeOK
  BY DEF IInv
<1>1. PICK f \in {over, gone} :
        /\ eng' = [eng EXCEPT ![w] = f]
        /\ \/ f = over /\ rare' = rare
           \/ f = gone /\ ~eng[w].mine /\ w \in Lapsing /\ rare' = rare \cup {w}
  <2>1. eng \in [Wave -> EngineWave]
    BY <1>t DEF TypeOK
  <2>2. CASE /\ eng' = [eng EXCEPT ![w].phase = "over", ![w].held = FALSE, ![w].joined = FALSE]
             /\ UNCHANGED rare
    <3>1. eng' = [eng EXCEPT ![w] = over]
      BY <2>1, <2>2 DEF EngineWave
    <3> QED
      BY <2>2, <3>1
  <2>3. CASE /\ ~eng[w].mine /\ w \in Lapsing /\ rare' = rare \cup {w}
             /\ eng' = [eng EXCEPT ![w].phase = "gone", ![w].held = FALSE]
    <3>1. eng' = [eng EXCEPT ![w] = gone]
      BY <2>1, <2>3 DEF EngineWave
    <3> QED
      BY <2>3, <3>1
  <2> QED
    BY <2>2, <2>3 DEF GoIdle
<1>2. /\ Live(w) /\ msgs' = msgs \o <<m>>
      /\ UNCHANGED <<paying, fate, payVars, cmds, coreVars, auxVars>>
  BY DEF GoIdle, Emit
<1>3. /\ f \in EngineWave /\ f.phase \in {"over", "gone"} /\ f.sub = eng[w].sub
      /\ f.mine = eng[w].mine /\ ~f.held /\ (f.phase = "gone" => ~f.mine)
  <2>1. eng[w] \in EngineWave
    BY <1>t DEF TypeOK
  <2>2. /\ over \in EngineWave /\ over.phase = "over" /\ over.sub = eng[w].sub
        /\ over.mine = eng[w].mine /\ ~over.held
    BY <2>1 DEF EngineWave
  <2>3. /\ gone \in EngineWave /\ gone.phase = "gone" /\ gone.sub = eng[w].sub
        /\ gone.mine = eng[w].mine /\ ~gone.held
    BY <2>1 DEF EngineWave
  <2> HIDE DEF over, gone
  <2> QED
    BY <1>1, <2>2, <2>3
<1> HIDE DEF over, gone
<1>4. eng' \in [Wave -> EngineWave] /\ eng'[w] = f /\ \A v \in Wave : v # w => eng'[v] = eng[v]
  BY <1>t, <1>1, <1>3 DEF TypeOK
<1>5. m \in Of({"wave-idle"}, w) /\ m.ev = "wave-idle" /\ m \in Of(WaveEvent, w) /\ m \in Report
  <2>1. "wave-idle" \in WaveEvent
    BY DEF WaveEvent
  <2>2. m \in Of({"wave-idle"}, w)
    BY <1>4, <2>1, MsgIs
  <2> QED
    BY <2>1, <2>2 DEF Of
<1> HIDE DEF m
<1>s. msgs' = msgs \o (<<>> \o <<m>>) /\ msgs \in Seq(Report)
  BY <1>t, <1>2 DEF TypeOK
<1>6. /\ msgs' \in Seq(Report) /\ \A v : v # w => Alike(msgs', msgs, Of(WaveEvent, v))
      /\ \A A, M : m \in M => LastIn(msgs', A, M)
  BY <1>5, <1>s, SpeaksIs
<1>7. TypeOK'
  BY <1>t, <1>1, <1>2, <1>4, <1>6 DEF TypeOK, payVars, coreVars, auxVars
<1>8. Elsewhere(w)
  BY <1>2, <1>4, <1>6, AlikeSame DEF Elsewhere
<1>9. PhaseShown(w)' /\ SeatShown(w)'
  <2>1. m \in OfPhase(w)
    BY <1>5 DEF OfPhase, Of
  <2>2. ~Live(w)'
    BY <1>3, <1>4 DEF Live
  <2>3. m \in PhaseSo(w)'
    BY <1>5, <2>1, <2>2 DEF PhaseSo
  <2> QED
    BY <1>6, <2>2, <2>3 DEF PhaseShown, SeatShown, Ends
<1>10. WaveCores(w)'
  <2>1. Fresh(w) /\ Said(w) /\ (w \notin astray => Asked(w) /\ Given(w))
    BY DEF IInv, CoresInv, WaveCores
  <2>2. UNCHANGED <<cmds, dir, dismissed, astray>>
    BY <1>2 DEF coreVars, auxVars
  <2>3. Said(w)'
    <3>1. m \notin Odd(w) /\ m \notin OfSub(w)
      BY <1>5 DEF Odd, OfSub, Of
    <3> QED
      BY <1>3, <1>4, <1>5, <1>s, <2>1, <3>1, SaidIs
  <2>4. ASSUME w \notin astray PROVE Asked(w)' /\ Given(w)'
    <3>1. eng[w].phase # "over"
      BY <1>2 DEF Live
    <3> QED
      BY <1>2, <1>3, <1>4, <1>5, <1>s, <2>1, <2>2, <2>4, <3>1, StayedCores
  <2> QED
    BY <1>3, <1>4, <2>2, <2>3, <2>4 DEF WaveCores, Fresh
<1>11. UNCHANGED <<dir, feeds, dismissed, active>> /\ astray \subseteq astray'
  BY <1>2 DEF coreVars, auxVars
<1> QED
  BY <1>7, <1>8, <1>9, <1>10, <1>11, StepOf

-----------------------------------------------------------------------------
\* The engine executes a command.

LEMMA PhaseKept ==
  ASSUME NEW w, PhaseShown(w), eng'[w].phase = eng[w].phase, UNCHANGED dir,
         Alike(msgs', msgs, OfPhase(w))
  PROVE  PhaseShown(w)'
<1>1. PhaseSo(w)' = PhaseSo(w) /\ PhaseSo(w) \subseteq OfPhase(w)
  BY DEF PhaseSo, Live
<1>2. /\ Silent(msgs', OfPhase(w)) <=> Silent(msgs, OfPhase(w))
      /\ LastIn(msgs', OfPhase(w), PhaseSo(w)) <=> LastIn(msgs, OfPhase(w), PhaseSo(w))
  BY <1>1 DEF Alike
<1>3. Known(w)' = Known(w) /\ Live(w)' = Live(w)
  BY DEF Known, Live
<1> QED
  BY <1>1, <1>2, <1>3 DEF PhaseShown, Ends

\* The next command is about the cores of w and does not give them back.
LEMMA TakenCores ==
  ASSUME NEW w, Asked(w), Given(w), cmds \in Seq(Order), cmds # <<>>, cmds' = Tail(cmds),
         Head(cmds) \in Cores(w) \ Gives(w), eng'[w].phase = eng[w].phase,
         eng[w].sub => eng'[w].sub,
         Head(cmds) \in Asks(w) => eng'[w].sub \/ eng[w].phase = "over",
         Silent(msgs', OfSub(w)) => Silent(msgs, OfSub(w)), UNCHANGED dir
  PROVE  Asked(w)' /\ Given(w)'
<1>1. Known(w)' = Known(w)
  BY DEF Known
<1>2. ~Silent(cmds, Asks(w)) => Head(cmds) \in Asks(w) \/ ~Silent(cmds', Asks(w))
  BY TailIs
<1>3. Asked(w)'
  BY <1>1, <1>2 DEF Asked
<1>4. ~dir[w].sub => LastIn(cmds', Cores(w), Gives(w))
  <2>1. ~Silent(cmds, Cores(w))
    BY TailIs
  <2>2. ~dir[w].sub => LastIn(cmds, Cores(w), Gives(w))
    BY <2>1 DEF Given, Ends
  <2> QED
    BY <2>2, TailIs
<1>5. LastIn(cmds', Cores(w), Gives(w)) => ~Silent(cmds', Cores(w))
  <2>1. Gives(w) \subseteq Cores(w)
    BY DEF Gives, Cores, To
  <2> QED
    BY <2>1 DEF LastIn, Silent
<1> QED
  BY <1>3, <1>4, <1>5 DEF Given, Ends

\* The next command gives them back.
LEMMA GivenCores ==
  ASSUME NEW w, Asked(w), Given(w), cmds \in Seq(Order), cmds # <<>>, cmds' = Tail(cmds),
         Head(cmds) \in Gives(w), eng'[w].phase = eng[w].phase, ~eng'[w].sub,
         ~eng[w].sub \/ ~Silent(msgs', OfSub(w)),
         Silent(msgs', OfSub(w)) => Silent(msgs, OfSub(w)), UNCHANGED dir
  PROVE  Asked(w)' /\ Given(w)'
<1>1. Known(w)' = Known(w)
  BY DEF Known
<1>2. Head(cmds) \notin Asks(w) /\ Head(cmds) \in Cores(w)
  BY DEF Asks, Gives, Cores, To
<1>3. ~Silent(cmds, Asks(w)) => ~Silent(cmds', Asks(w))
  BY <1>2, TailIs
<1>4. Asked(w)'
  BY <1>1, <1>3 DEF Asked
<1>5. ~dir[w].sub => LastIn(cmds', Cores(w), Gives(w)) \/ Silent(cmds', Cores(w))
  <2>1. ~Silent(cmds, Cores(w))
    BY <1>2, TailIs
  <2>2. ~dir[w].sub => LastIn(cmds, Cores(w), Gives(w))
    BY <2>1 DEF Given, Ends
  <2> QED
    BY <2>2, TailIs
<1> QED
  BY <1>4, <1>5 DEF Given, Ends

LEMMA HeadIs ==
  ASSUME TypeOK, cmds # <<>>, cmds' = Tail(cmds)
  PROVE  LET c == Head(cmds)
         IN  /\ c \in Order /\ cmds' \in Seq(Order)
             /\ c.ev \in WaveCommand => c.wave \in Wave
             /\ \A v \in Wave :
                  c.wave # v \/ c.ev \notin {"subscribe-wave", "join-wave", "unsubscribe-wave"} =>
                    Alike(cmds', cmds, Cores(v))
<1> DEFINE c == Head(cmds)
<1>1. cmds \in Seq(Order)
  BY DEF TypeOK
<1>2. c \in Order /\ cmds' \in Seq(Order)
  BY <1>1
<1>3. c.ev \in WaveCommand => c.wave \in Wave
  BY <1>2 DEF Order, Frame, WaveCommand
<1>4. ASSUME NEW v \in Wave,
             c.wave # v \/ c.ev \notin {"subscribe-wave", "join-wave", "unsubscribe-wave"}
      PROVE  Alike(cmds', cmds, Cores(v))
  <2>1. c \notin Cores(v)
    BY <1>4 DEF Cores, To
  <2> QED
    BY <1>1, <2>1, AlikeTail
<1> QED
  BY <1>2, <1>3, <1>4

\* What Does makes of a command c, which is about w.
DoesSubscribe(c, w) ==
  /\ c.ev = "subscribe-wave" /\ Live(w)
  /\ eng' = [eng EXCEPT ![w] = Subscribed(@)] /\ msgs' = msgs \o Echo(w)
  /\ UNCHANGED <<paying, fate, wallet, making>>

DoesUnsubscribe(c, w) ==
  /\ c.ev = "unsubscribe-wave" /\ eng[w].sub
  /\ eng' = [eng EXCEPT ![w].sub = FALSE, ![w].held = FALSE,
                        ![w].joined = @ /\ ~Live(w)]
  /\ msgs' = msgs \o <<Msg("unsubscribed", w)>>
  /\ UNCHANGED <<paying, fate, wallet, making>>

DoesJoin(c, w) ==
  /\ c.ev = "join-wave" /\ eng[w].phase = "lobby" /\ ~eng[w].joined
  /\ eng' = [eng EXCEPT ![w] = [Subscribed(@) EXCEPT !.joined = TRUE]]
  /\ msgs' = msgs \o (Echo(w) \o <<Msg("joined", w)>>)
  /\ UNCHANGED <<paying, fate, wallet, making>>

DoesStart(c, w) ==
  /\ c.ev = "start-wave" /\ eng[w] = NoWave
  /\ eng' = [eng EXCEPT ![w] = [phase |-> "lobby", mine |-> TRUE, sub |-> TRUE,
                                held |-> TRUE, joined |-> TRUE]]
  /\ msgs' = msgs \o <<Msg("wave-announce", w)>>
  /\ UNCHANGED <<paying, fate, wallet, making>>

DoesPay(c, w) ==
  /\ c.ev \in {"tip", "redeem", "set-wallet-options"}
  /\ \/ paying' = paying \cup {w} /\ c.ev = "tip" /\ UNCHANGED <<fate, wallet, making, msgs>>
     \/ /\ c.ev = "tip" /\ msgs' = msgs \o <<Plain("tip-failed", w)>>
        /\ UNCHANGED <<paying, fate, wallet, making>>
     \/ /\ c.ev = "redeem" /\ \E f \in Redeems(w) : fate' = [fate EXCEPT ![w] = f]
        /\ UNCHANGED <<paying, wallet, making, msgs>>
     \/ /\ c.ev = "set-wallet-options" /\ wallet' = FALSE /\ making' = w
        /\ UNCHANGED <<paying, fate, msgs>>
  /\ UNCHANGED eng

DoesNothing(c, w) ==
  /\ ~(c.ev = "subscribe-wave" /\ Live(w)) /\ ~(c.ev = "unsubscribe-wave" /\ eng[w].sub)
  /\ Refuses

LEMMA DoesIs ==
  ASSUME NEW c, NEW w, w = c.wave, Does(c), wallet \in BOOLEAN
  PROVE  \/ DoesSubscribe(c, w) \/ DoesUnsubscribe(c, w) \/ DoesJoin(c, w) \/ DoesStart(c, w)
         \/ DoesPay(c, w) \/ DoesNothing(c, w)
<1>1. CASE c.ev = "subscribe-wave" /\ Live(w)
  BY <1>1 DEF Does, Emit, DoesSubscribe
<1>2. CASE c.ev = "unsubscribe-wave" /\ eng[w].sub
  BY <1>2 DEF Does, Emit, DoesUnsubscribe
<1>3. CASE c.ev = "join-wave" /\ eng[w].phase = "lobby" /\ ~eng[w].joined
  BY <1>3 DEF Does, Emit, DoesJoin
<1>4. CASE c.ev = "start-wave" /\ eng[w] = NoWave
  BY <1>4 DEF Does, Emit, DoesStart
<1>5. CASE c.ev = "tip"
  BY <1>5 DEF Does, Emit, DoesPay
<1>6. CASE c.ev \in {"redeem", "set-wallet-options"}
  BY <1>6 DEF Does, DoesPay
<1>7. CASE /\ ~(c.ev = "subscribe-wave" /\ Live(w)) /\ ~(c.ev = "unsubscribe-wave" /\ eng[w].sub)
           /\ ~(c.ev = "join-wave" /\ eng[w].phase = "lobby" /\ ~eng[w].joined)
           /\ ~(c.ev = "start-wave" /\ eng[w] = NoWave)
           /\ c.ev \notin {"tip", "redeem", "set-wallet-options"}
  BY <1>7 DEF Does, DoesNothing
<1> QED
  BY <1>1, <1>2, <1>3, <1>4, <1>5, <1>6, <1>7

LEMMA ExecSubscribe ==
  ASSUME IInv, NEW w, w = Head(cmds).wave, Head(cmds).ev = "subscribe-wave", Live(w),
         cmds # <<>>, cmds' = Tail(cmds),
         eng' = [eng EXCEPT ![w] = Subscribed(@)], msgs' = msgs \o Echo(w),
         UNCHANGED <<rare, paying, fate, payVars, coreVars, auxVars>>
  PROVE  IInv'
<1> DEFINE c == Head(cmds)
           f == Subscribed(eng[w])
<1>t. TypeOK
  BY DEF IInv
<1>1. /\ w \in Wave /\ cmds' \in Seq(Order) /\ c \in Order
      /\ \A v \in Wave : v # w => Alike(cmds', cmds, Cores(v))
  BY <1>t, HeadIs DEF WaveCommand
<1>2. /\ f \in EngineWave /\ f.sub /\ f.phase = eng[w].phase /\ f.joined = eng[w].joined
      /\ f.mine = eng[w].mine /\ (eng[w].sub => f = eng[w])
  BY <1>t, <1>1, SubscribedIs DEF TypeOK
<1>3. eng' = [eng EXCEPT ![w] = f]
  OBVIOUS
<1> HIDE DEF f
<1>4. eng' \in [Wave -> EngineWave] /\ eng'[w] = f /\ \A v \in Wave : v # w => eng'[v] = eng[v]
  BY <1>t, <1>1, <1>2, <1>3 DEF TypeOK
<1>w. Fresh(w) /\ Said(w) /\ (w \notin astray => Asked(w) /\ Given(w))
  BY <1>1 DEF IInv, CoresInv, WaveCores
<1>5. /\ msgs' \in Seq(Report) /\ \A v \in Wave : v # w => Alike(msgs', msgs, Of(WaveEvent, v))
      /\ Alike(msgs', msgs, OfPhase(w)) /\ SeatShown(w)' /\ Said(w)'
      /\ Silent(msgs', OfSub(w)) => Silent(msgs, OfSub(w))
  <2>1. PhaseShown(w) /\ SeatShown(w)
    BY <1>1 DEF IInv, ViewInv
  <2>2. msgs \in Seq(Report)
    BY <1>t DEF TypeOK
  <2>3. CASE eng[w].sub /\ Echo(w) = <<>>
    <3>1. msgs' = msgs
      BY <2>2, <2>3
    <3>2. eng'[w] = eng[w]
      BY <1>2, <1>4, <2>3
    <3>3. SeatShown(w)'
      <4>1. EntrySame(w) /\ Alike(msgs', msgs, Of(WaveEvent, w))
        BY <3>1, AlikeSame DEF EntrySame, coreVars
      <4> QED
        BY <2>1, <3>2, <4>1, SameView
    <3>4. Said(w)'
      BY <1>w, <3>1, <3>2 DEF Said, SubSo
    <3> QED
      BY <2>2, <3>1, <3>3, <3>4, AlikeSame
  <2>4. ASSUME NEW r \in Of({"subscribed"}, w), Echo(w) = <<r>>, r.ev = "subscribed",
               r.joined = eng[w].joined
        PROVE  /\ msgs' \in Seq(Report)
               /\ \A v \in Wave : v # w => Alike(msgs', msgs, Of(WaveEvent, v))
               /\ Alike(msgs', msgs, OfPhase(w)) /\ SeatShown(w)' /\ Said(w)'
               /\ Silent(msgs', OfSub(w)) => Silent(msgs, OfSub(w))
    <3>1. r \in Report /\ msgs' = msgs \o <<r>>
      BY <2>4 DEF Of
    <3>2. /\ msgs \o <<r>> \in Seq(Report)
          /\ \A A : Silent(msgs \o <<r>>, A) <=> Silent(msgs, A) /\ r \notin A
          /\ \A A, M : r \in M => LastIn(msgs \o <<r>>, A, M)
      BY <2>2, <3>1, AppendIs
    <3>3. \A v \in Wave : v # w => r \notin Of(WaveEvent, v)
      BY DEF Of
    <3>4. r \notin OfPhase(w)
      BY DEF Of, OfPhase
    <3>5. r \in SeatSo(w)'
      BY <1>2, <1>4, <2>4 DEF SeatSo, OfSeat, Of, WaveEvent
    <3>6. SeatShown(w)'
      BY <3>1, <3>2, <3>5 DEF SeatShown, Ends
    <3>7. Said(w)'
      <4>1. r \in SubSo(w)' /\ r \notin Odd(w) /\ r \in Of(WaveEvent, w)
        BY <1>2, <1>4, <2>4 DEF SubSo, OfSub, Odd, Of, WaveEvent
      <4>2. msgs' = msgs \o (<<>> \o <<r>>)
        BY <3>1
      <4>3. eng'[w].mine => eng'[w].phase \notin {"none", "gone"}
        BY <1>2, <1>4, <1>w DEF Said
      <4> QED
        BY <1>2, <1>4, <1>w, <2>2, <4>1, <4>2, <4>3, SaidIs
    <3>8. Alike(msgs', msgs, OfPhase(w))
      BY <2>2, <3>1, <3>4, AlikeAppend
    <3>9. \A v \in Wave : v # w => Alike(msgs', msgs, Of(WaveEvent, v))
      BY <2>2, <3>1, <3>3, AlikeAppend
    <3> QED
      BY <3>1, <3>2, <3>6, <3>7, <3>8, <3>9
  <2>5. eng \in [Wave -> EngineWave]
    BY <1>t DEF TypeOK
  <2>6. \/ eng[w].sub /\ Echo(w) = <<>>
        \/ \E r \in Of({"subscribed"}, w) :
             Echo(w) = <<r>> /\ r.ev = "subscribed" /\ r.joined = eng[w].joined
    BY <1>1, <2>5, EchoIs
  <2> QED
    BY <2>3, <2>4, <2>6
<1>6. TypeOK'
  BY <1>t, <1>1, <1>4, <1>5 DEF TypeOK, payVars, coreVars, auxVars
<1>7. Elsewhere(w)
  BY <1>1, <1>4, <1>5 DEF Elsewhere
<1>8. PhaseShown(w)' /\ SeatShown(w)'
  <2>1. PhaseShown(w) /\ UNCHANGED dir
    BY <1>1 DEF IInv, ViewInv, coreVars
  <2> QED
    BY <1>2, <1>4, <1>5, <2>1, PhaseKept
<1>9. WaveCores(w)'
  <2>1. c \in Cores(w) \ Gives(w)
    BY <1>1 DEF Cores, Gives, To
  <2>2. cmds \in Seq(Order) /\ UNCHANGED <<dir, astray>>
    BY <1>t DEF TypeOK, coreVars, auxVars
  <2>3. w \notin astray => Asked(w)' /\ Given(w)'
    BY <1>2, <1>4, <1>5, <1>w, <2>1, <2>2, TakenCores
  <2>4. Fresh(w)'
    BY <1>2, <1>4 DEF Fresh, Live
  <2> QED
    BY <1>5, <2>2, <2>3, <2>4 DEF WaveCores
<1>10. UNCHANGED <<dir, feeds, dismissed, active>> /\ astray \subseteq astray'
  BY DEF coreVars, auxVars
<1> QED
  BY <1>1, <1>6, <1>7, <1>8, <1>9, <1>10, StepOf

LEMMA ExecUnsubscribe ==
  ASSUME IInv, NEW w, w = Head(cmds).wave, Head(cmds).ev = "unsubscribe-wave", eng[w].sub,
         cmds # <<>>, cmds' = Tail(cmds),
         NEW f \in EngineWave, ~f.sub, ~f.held, f.mine = eng[w].mine, f.phase = eng[w].phase,
         f.joined => eng[w].joined /\ ~Live(w),
         eng' = [eng EXCEPT ![w] = f],
         msgs' = msgs \o <<Msg("unsubscribed", w)>>,
         UNCHANGED <<rare, paying, fate, payVars, coreVars, auxVars>>
  PROVE  IInv'
<1> DEFINE c == Head(cmds)
           m == Msg("unsubscribed", w)
<1>t. TypeOK
  BY DEF IInv
<1>1. /\ w \in Wave /\ cmds' \in Seq(Order) /\ c \in Order
      /\ \A v \in Wave : v # w => Alike(cmds', cmds, Cores(v))
  BY <1>t, HeadIs DEF WaveCommand
<1>4. eng' \in [Wave -> EngineWave] /\ eng'[w] = f /\ \A v \in Wave : v # w => eng'[v] = eng[v]
  BY <1>t, <1>1 DEF TypeOK
<1>5. m \in Of({"unsubscribed"}, w) /\ m.ev = "unsubscribed" /\ m \in Of(WaveEvent, w)
  <2>1. "unsubscribed" \in WaveEvent
    BY DEF WaveEvent
  <2>2. m \in Of({"unsubscribed"}, w)
    BY <1>1, <1>4, <2>1, MsgIs
  <2> QED
    BY <2>1, <2>2 DEF Of
<1> HIDE DEF m
<1>6. /\ msgs' \in Seq(Report) /\ \A v : v # w => Alike(msgs', msgs, Of(WaveEvent, v))
      /\ \A A, M : m \in M => LastIn(msgs', A, M)
      /\ Alike(msgs', msgs, Report \ (Of({"subscribed"}, w) \cup {m}))
      /\ \A A : Silent(msgs', A) <=> Silent(msgs, A) /\ m \notin A
  <2>1. msgs \in Seq(Report) /\ m \in Report /\ msgs' = msgs \o <<m>>
    BY <1>t, <1>5 DEF TypeOK, Of, m
  <2>2. msgs' = msgs \o (<<>> \o <<m>>)
    BY <2>1
  <2>3. /\ msgs' \in Seq(Report) /\ \A v : v # w => Alike(msgs', msgs, Of(WaveEvent, v))
        /\ \A A, M : m \in M => LastIn(msgs', A, M)
        /\ Alike(msgs', msgs, Report \ (Of({"subscribed"}, w) \cup {m}))
    BY <1>5, <2>1, <2>2, SpeaksIs
  <2>4. \A A : Silent(msgs \o <<m>>, A) <=> Silent(msgs, A) /\ m \notin A
    BY <2>1, AppendIs
  <2> QED
    BY <2>1, <2>3, <2>4
<1>7. TypeOK'
  BY <1>t, <1>1, <1>4, <1>6 DEF TypeOK, payVars, coreVars, auxVars
<1>8. Elsewhere(w)
  BY <1>1, <1>4, <1>6 DEF Elsewhere
<1>9. PhaseShown(w)'
  <2>1. PhaseShown(w) /\ UNCHANGED dir
    BY <1>1 DEF IInv, ViewInv, coreVars
  <2>2. OfPhase(w) \subseteq Report \ (Of({"subscribed"}, w) \cup {m})
    BY <1>5 DEF OfPhase, Of
  <2>3. Alike(msgs', msgs, OfPhase(w))
    BY <1>6, <2>2 DEF Alike
  <2> QED
    BY <1>4, <2>1, <2>3, PhaseKept
<1>10. SeatShown(w)'
  <2> SUFFICES ASSUME Live(w)' PROVE m \in SeatSo(w)'
    BY <1>6 DEF SeatShown, Ends
  <2>1. Live(w)
    BY <1>4 DEF Live
  <2>2. ~eng'[w].joined
    BY <1>4, <2>1
  <2> QED
    BY <1>5, <2>2 DEF SeatSo, OfSeat, Of, WaveEvent
<1>11. WaveCores(w)'
  <2>1. Fresh(w) /\ Said(w) /\ (w \notin astray => Asked(w) /\ Given(w))
    BY <1>1 DEF IInv, CoresInv, WaveCores
  <2>2. c \in Gives(w)
    BY <1>1 DEF Gives, To
  <2>3. cmds \in Seq(Order) /\ msgs \in Seq(Report) /\ UNCHANGED <<dir, astray>>
    BY <1>t DEF TypeOK, coreVars, auxVars
  <2>4. m \in SubSo(w)' /\ m \notin Odd(w) /\ m \in OfSub(w)
    BY <1>4, <1>5 DEF SubSo, OfSub, Odd, Of
  <2>5. ~Silent(msgs', OfSub(w))
    BY <1>6, <2>4
  <2>6. w \notin astray => Asked(w)' /\ Given(w)'
    BY <1>4, <2>1, <2>2, <2>3, <2>5, GivenCores
  <2>7. Said(w)'
    <3>1. msgs' = msgs \o (<<>> \o <<m>>)
      BY <1>5, <2>3 DEF m
    <3>2. eng'[w].mine => eng'[w].phase \notin {"none", "gone"}
      BY <1>4, <2>1 DEF Said
    <3>3. ~eng'[w].held /\ <<>> = <<>>
      BY <1>4
    <3> QED
      BY <1>5, <2>1, <2>3, <2>4, <3>1, <3>2, <3>3, SaidIs
  <2>8. Fresh(w)'
    <3>1. eng[w].phase # "none"
      BY <2>1 DEF Fresh, NoWave
    <3> QED
      BY <1>4, <3>1 DEF Fresh
  <2> QED
    BY <2>3, <2>6, <2>7, <2>8 DEF WaveCores
<1>12. UNCHANGED <<dir, feeds, dismissed, active>> /\ astray \subseteq astray'
  BY DEF coreVars, auxVars
<1> QED
  BY <1>1, <1>7, <1>8, <1>9, <1>10, <1>11, <1>12, StepOf

\* A join, whether it was the next command or waited for the wallet.
LEMMA ExecJoin ==
  ASSUME IInv, NEW w \in Wave, eng[w].phase = "lobby", ~eng[w].joined,
         NEW f \in EngineWave, f.sub, f.phase = "lobby", f.joined, f.mine = eng[w].mine,
         eng' = [eng EXCEPT ![w] = f],
         NEW g, g = Echo(w), NEW m, m = Msg("joined", w), msgs' = msgs \o (g \o <<m>>),
         cmds' \in Seq(Order), \A v \in Wave : v # w => Alike(cmds', cmds, Cores(v)),
         \/ /\ cmds # <<>> /\ cmds' = Tail(cmds) /\ astray' = astray
            /\ Head(cmds) \in Cores(w) /\ Head(cmds).ev = "join-wave"
         \/ cmds' = cmds /\ astray' = IF eng[w].sub # eng'[w].sub THEN astray \cup {w} ELSE astray,
         fees' \in SUBSET Frame(Fee, Wave),
         UNCHANGED <<rare, paying, fate, wallet, making, coreVars, hurried>>
  PROVE  IInv'
<1>t. TypeOK
  BY DEF IInv
<1>4. eng' \in [Wave -> EngineWave] /\ eng'[w] = f /\ \A v \in Wave : v # w => eng'[v] = eng[v]
  <2>1. eng \in [Wave -> EngineWave]
    BY <1>t DEF TypeOK
  <2> QED
    BY <2>1
<1>5. m \in Of({"joined"}, w) /\ m.ev = "joined" /\ m \in Of(WaveEvent, w)
  <2>1. "joined" \in WaveEvent
    BY DEF WaveEvent
  <2>2. m \in Of({"joined"}, w)
    BY <1>4, <2>1, MsgIs
  <2> QED
    BY <2>1, <2>2 DEF Of
<1>6. \/ g = <<>> /\ eng[w].sub
      \/ \E r \in Of({"subscribed"}, w) : g = <<r>>
  BY <1>t, EchoIs DEF TypeOK
<1>7. /\ msgs' \in Seq(Report) /\ \A v : v # w => Alike(msgs', msgs, Of(WaveEvent, v))
      /\ \A A, M : m \in M => LastIn(msgs', A, M)
      /\ Alike(msgs', msgs, Report \ (Of({"subscribed"}, w) \cup {m}))
  <2>1. msgs \in Seq(Report)
    BY <1>t DEF TypeOK
  <2> QED
    BY <1>5, <1>6, <2>1, SpeaksIs
<1>8. astray \subseteq astray' /\ astray' \in SUBSET Wave
  BY <1>t DEF TypeOK
<1>9. TypeOK'
  BY <1>t, <1>4, <1>7, <1>8 DEF TypeOK, coreVars
<1>10. Elsewhere(w)
  BY <1>4, <1>7 DEF Elsewhere
<1>11. PhaseShown(w)'
  <2>1. PhaseShown(w) /\ UNCHANGED dir
    BY DEF IInv, ViewInv, coreVars
  <2>2. OfPhase(w) \subseteq Report \ (Of({"subscribed"}, w) \cup {m})
    BY <1>5 DEF OfPhase, Of
  <2>3. Alike(msgs', msgs, OfPhase(w))
    BY <1>7, <2>2 DEF Alike
  <2> QED
    BY <1>4, <2>1, <2>3, PhaseKept
<1>12. SeatShown(w)'
  <2>1. m \in SeatSo(w)'
    BY <1>4, <1>5 DEF SeatSo, OfSeat, Of, WaveEvent
  <2> QED
    BY <1>7, <2>1 DEF SeatShown, Ends
<1>13. WaveCores(w)'
  <2>1. Fresh(w) /\ Said(w) /\ (w \notin astray => Asked(w) /\ Given(w))
    BY DEF IInv, CoresInv, WaveCores
  <2>2. cmds \in Seq(Order) /\ msgs \in Seq(Report) /\ UNCHANGED <<dir, dismissed>>
    BY <1>t DEF TypeOK, coreVars
  <2>3. m \notin Odd(w) /\ m \notin OfSub(w)
    BY <1>5 DEF Odd, OfSub, Of
  <2>4. eng'[w].sub = TRUE /\ (eng[w].sub => eng'[w].sub = eng[w].sub)
    <3>1. f.sub \in BOOLEAN /\ eng[w].sub \in BOOLEAN
      BY <1>t DEF EngineWave, TypeOK
    <3> QED
      BY <1>4, <3>1
  <2>5. Said(w)'
    BY <1>4, <1>5, <1>6, <2>1, <2>2, <2>3, <2>4, SaidIs
  <2>6. Fresh(w)'
    BY <1>4 DEF Fresh
  <2>7. ASSUME w \notin astray' PROVE Asked(w)' /\ Given(w)'
    <3>1. Asked(w) /\ Given(w)
      BY <1>8, <2>1, <2>7
    <3>2. CASE /\ cmds # <<>> /\ cmds' = Tail(cmds)
               /\ Head(cmds) \in Cores(w) /\ Head(cmds).ev = "join-wave"
      <4>1. Head(cmds) \in Cores(w) \ Gives(w)
        BY <3>2 DEF Gives, To
      <4>2. Silent(msgs', OfSub(w)) => Silent(msgs, OfSub(w))
        <5>1. CASE g = <<>>
          <6>1. LET t == msgs \o <<m>>
                IN  \A A : Silent(t, A) <=> Silent(msgs, A) /\ m \notin A
            BY <1>5, <2>2, AppendIs DEF Of
          <6>2. msgs' = msgs \o <<m>>
            BY <5>1
          <6> QED
            BY <6>1, <6>2
        <5>2. ASSUME NEW r \in Of({"subscribed"}, w), g = <<r>>
              PROVE  Silent(msgs', OfSub(w)) => Silent(msgs, OfSub(w))
          <6> DEFINE q == msgs \o <<r>>
          <6>1. q \in Seq(Report) /\ msgs' = q \o <<m>> /\ m \in Report /\ r \in Report
            BY <1>5, <2>2, <5>2 DEF Of
          <6>2. \A A : Silent(q, A) <=> Silent(msgs, A) /\ r \notin A
            BY <2>2, <6>1, AppendIs
          <6> HIDE DEF q
          <6>3. LET t == q \o <<m>>
                IN  \A A : Silent(t, A) <=> Silent(q, A) /\ m \notin A
            BY <6>1, AppendIs
          <6> QED
            BY <6>1, <6>2, <6>3
        <5> QED
          BY <1>6, <5>1, <5>2
      <4> QED
        BY <1>4, <2>2, <2>4, <3>1, <3>2, <4>1, <4>2, TakenCores
    <3>3. CASE /\ cmds' = cmds
               /\ astray' = IF eng[w].sub # eng'[w].sub THEN astray \cup {w} ELSE astray
      <4>1. eng'[w].sub = eng[w].sub /\ eng[w].sub
        BY <2>4, <2>7, <3>3
      <4>2. g = <<>>
        BY <4>1 DEF Echo
      <4>3. msgs' = msgs \o <<m>>
        BY <4>2
      <4> QED
        BY <1>4, <1>5, <2>2, <3>1, <3>3, <4>1, <4>3, StayedCores
    <3> QED
      BY <3>2, <3>3
  <2> QED
    BY <2>5, <2>6, <2>7 DEF WaveCores
<1>14. UNCHANGED <<dir, feeds, dismissed, active>>
  BY DEF coreVars
<1> QED
  BY <1>8, <1>9, <1>10, <1>11, <1>12, <1>13, <1>14, StepOf

\* A start, whether it was the next command or waited for the wallet.
LEMMA ExecStart ==
  ASSUME IInv, NEW w \in Wave, eng[w] = NoWave,
         eng' = [eng EXCEPT ![w] = [phase |-> "lobby", mine |-> TRUE, sub |-> TRUE,
                                    held |-> TRUE, joined |-> TRUE]],
         msgs' = msgs \o <<Msg("wave-announce", w)>>,
         cmds' \in Seq(Order), \A v \in Wave : Alike(cmds', cmds, Cores(v)),
         fees' \in SUBSET Frame(Fee, Wave),
         UNCHANGED <<rare, paying, fate, wallet, making, coreVars, auxVars>>
  PROVE  IInv'
<1> DEFINE f == [phase |-> "lobby", mine |-> TRUE, sub |-> TRUE, held |-> TRUE, joined |-> TRUE]
           m == Msg("wave-announce", w)
<1>t. TypeOK
  BY DEF IInv
<1>2. f \in EngineWave /\ f.sub /\ f.held /\ f.phase = "lobby" /\ f.joined /\ f.mine
  BY DEF EngineWave
<1>3. eng' = [eng EXCEPT ![w] = f]
  OBVIOUS
<1> HIDE DEF f
<1>4. eng' \in [Wave -> EngineWave] /\ eng'[w] = f /\ \A v \in Wave : v # w => eng'[v] = eng[v]
  BY <1>t, <1>2, <1>3 DEF TypeOK
<1>5. m \in Of({"wave-announce"}, w) /\ m.joined = f.joined /\ m.sub = f.held /\ m \in Of(WaveEvent, w)
  <2>1. "wave-announce" \in WaveEvent
    BY DEF WaveEvent
  <2>2. m \in Of({"wave-announce"}, w) /\ m.joined = f.joined /\ m.sub = f.held
    BY <1>4, <2>1, MsgIs
  <2> QED
    BY <2>1, <2>2 DEF Of
<1> HIDE DEF m
<1>m. msgs' = msgs \o <<m>> /\ msgs \in Seq(Report) /\ m \in Report
  BY <1>t, <1>5 DEF m, TypeOK, Of
<1>s. msgs' = msgs \o (<<>> \o <<m>>)
  BY <1>m
<1>6. /\ msgs' \in Seq(Report) /\ \A v : v # w => Alike(msgs', msgs, Of(WaveEvent, v))
      /\ \A A, M : m \in M => LastIn(msgs', A, M)
  BY <1>5, <1>m, <1>s, SpeaksIs
<1>7. TypeOK'
  BY <1>t, <1>4, <1>6 DEF TypeOK, coreVars, auxVars
<1>8. Elsewhere(w)
  BY <1>4, <1>6 DEF Elsewhere
<1>9. PhaseShown(w)' /\ SeatShown(w)'
  BY <1>2, <1>4, <1>5, <1>6, AnnounceShown
<1>10. WaveCores(w)'
  <2>1. /\ ~Known(w) /\ w \notin dismissed
        /\ Silent(msgs, Of(WaveEvent, w)) /\ Silent(cmds, Cores(w)) /\ Said(w)
    BY DEF IInv, CoresInv, WaveCores, Fresh, NoWave
  <2>2. UNCHANGED <<dir, dismissed>>
    BY DEF coreVars
  <2>3. m \in Told(w) /\ m \notin Untold(w) /\ m \notin Odd(w) /\ m \in SubSo(w)'
    BY <1>2, <1>4, <1>5 DEF Told, Untold, Odd, SubSo, OfSub, Of
  <2>4. Said(w)'
    BY <1>2, <1>4, <1>5, <1>m, <1>s, <2>1, <2>3, SaidIs
  <2>5. /\ Silent(cmds', Cores(w)) /\ ~Silent(msgs', Told(w)) /\ Silent(msgs', Untold(w))
    <3>1. Silent(msgs, Untold(w))
      BY <2>1 DEF Silent, Untold, Of, WaveEvent
    <3>2. LET t == msgs \o <<m>>
          IN  ~Silent(t, Told(w)) /\ Silent(t, Untold(w))
      BY <1>m, <2>3, <3>1, AppendIs
    <3>3. Silent(cmds', Cores(w))
      BY <2>1 DEF Alike
    <3> QED
      BY <1>m, <3>2, <3>3
  <2>6. ~Known(w)' /\ w \notin dismissed'
    BY <2>1, <2>2 DEF Known
  <2>7. Asked(w)' /\ Given(w)'
    BY <1>2, <1>4, <2>5, <2>6 DEF Asked, Given, Ends
  <2> QED
    BY <1>2, <1>4, <2>4, <2>7 DEF WaveCores, Fresh
<1>11. UNCHANGED <<dir, feeds, dismissed, active>> /\ astray \subseteq astray'
  BY DEF coreVars, auxVars
<1> QED
  BY <1>7, <1>8, <1>9, <1>10, <1>11, StepOf

\* Nothing comes of a command that is too late or refused, or of one about cores already given
\* back.
LEMMA ExecNothing ==
  ASSUME IInv, cmds # <<>>, cmds' = Tail(cmds), NEW c, NEW w, c = Head(cmds), w = c.wave,
         ~(c.ev = "subscribe-wave" /\ Live(w)),
         ~(c.ev = "unsubscribe-wave" /\ eng[w].sub),
         astray \subseteq astray',
         c.ev = "subscribe-wave" /\ eng[w].phase = "gone" => w \in astray',
         \A v \in Wave : Alike(msgs', msgs, Of(WaveEvent, v)),
         UNCHANGED <<eng, coreVars>>, TypeOK'
  PROVE  IInv'
<1>t. TypeOK
  BY DEF IInv
<1>1. /\ c \in Order
      /\ c.ev \in WaveCommand => w \in Wave
      /\ \A v \in Wave :
           w # v \/ c.ev \notin {"subscribe-wave", "join-wave", "unsubscribe-wave"} =>
             Alike(cmds', cmds, Cores(v))
  BY <1>t, HeadIs
<1>2. UNCHANGED <<eng, dir, feeds, dismissed, active>>
  BY DEF coreVars
<1>3. CASE c.ev \notin {"subscribe-wave", "join-wave", "unsubscribe-wave"}
  BY <1>1, <1>2, <1>3, StepOfNone
<1>4. CASE c.ev \in {"subscribe-wave", "join-wave", "unsubscribe-wave"}
  <2>1. w \in Wave /\ \A v \in Wave : v # w => Alike(cmds', cmds, Cores(v))
    BY <1>1, <1>4 DEF WaveCommand
  <2>2. Elsewhere(w)
    BY <1>2, <2>1 DEF Elsewhere
  <2>3. PhaseShown(w)' /\ SeatShown(w)'
    <3>1. PhaseShown(w) /\ SeatShown(w) /\ EntrySame(w) /\ eng'[w] = eng[w]
      BY <1>2, <2>1 DEF IInv, ViewInv, EntrySame
    <3> QED
      BY <2>1, <3>1, SameView
  <2>4. cmds \in Seq(Order) /\ c \in Cores(w)
    BY <1>t, <1>1, <1>4 DEF TypeOK, Cores, To
  <2>5. Fresh(w) /\ Said(w) /\ (w \notin astray => Asked(w) /\ Given(w))
    BY <2>1 DEF IInv, CoresInv, WaveCores
  <2>6. eng[w].phase # "none"
    BY <2>4, <2>5, TailIs DEF Fresh
  <2>7. /\ Silent(msgs', OfSub(w)) <=> Silent(msgs, OfSub(w))
        /\ Silent(msgs', Odd(w)) <=> Silent(msgs, Odd(w))
        /\ LastIn(msgs', OfSub(w), SubSo(w)) <=> LastIn(msgs, OfSub(w), SubSo(w))
    <3>1. OfSub(w) \in SUBSET Of(WaveEvent, w) /\ SubSo(w) \in SUBSET Of(WaveEvent, w)
          /\ Odd(w) \in SUBSET Of(WaveEvent, w)
      BY DEF OfSub, SubSo, Odd, Of, WaveEvent
    <3> QED
      BY <2>1, <3>1 DEF Alike
  <2>8. Said(w)'
    <3>1. SubSo(w)' = SubSo(w)
      BY <1>2 DEF SubSo
    <3> QED
      BY <1>2, <2>5, <2>7, <3>1 DEF Said, Ends
  <2>9. ASSUME w \notin astray' PROVE Asked(w)' /\ Given(w)'
    <3>1. Asked(w) /\ Given(w)
      BY <2>5, <2>9
    <3>2. CASE c.ev = "unsubscribe-wave"
      <4>1. c \in Gives(w)
        BY <1>1, <3>2 DEF Gives, To
      <4>2. ~eng[w].sub
        BY <3>2
      <4> QED
        BY <1>2, <2>4, <2>7, <3>1, <4>1, <4>2, GivenCores
    <3>3. CASE c.ev \in {"subscribe-wave", "join-wave"}
      <4>1. c \in Cores(w) \ Gives(w)
        BY <2>4, <3>3 DEF Gives, To
      <4>2. c \in Asks(w) => eng[w].phase = "over"
        <5>1. eng[w].phase \in {"none", "lobby", "racing", "gone", "over"}
          BY <1>t, <2>1 DEF TypeOK, EngineWave
        <5> QED
          BY <2>6, <2>9, <5>1 DEF Asks, To, Live
      <4> QED
        BY <1>2, <2>4, <2>7, <3>1, <4>1, <4>2, TakenCores
    <3> QED
      BY <1>4, <3>2, <3>3
  <2>10. WaveCores(w)'
    BY <1>2, <2>6, <2>8, <2>9 DEF WaveCores, Fresh
  <2> QED
    BY <1>2, <2>1, <2>2, <2>3, <2>10, StepOf
<1> QED
  BY <1>3, <1>4

LEMMA ExecKeeps == IInv /\ Exec => IInv'
<1> SUFFICES ASSUME IInv, Exec PROVE IInv'
  OBVIOUS
<1>c. PICK c, w : c = Head(cmds) /\ w = c.wave
  OBVIOUS
<1>t. TypeOK
  BY DEF IInv
<1>1. cmds # <<>> /\ cmds' = Tail(cmds) /\ UNCHANGED <<rare, coreVars, hurried>>
  BY DEF Exec
<1>2. /\ c \in Order /\ cmds' \in Seq(Order)
      /\ c.ev \in WaveCommand => w \in Wave
      /\ \A v \in Wave :
           w # v \/ c.ev \notin {"subscribe-wave", "join-wave", "unsubscribe-wave"} =>
             Alike(cmds', cmds, Cores(v))
  BY <1>t, <1>c, <1>1, HeadIs
<1>3. CASE c.ev \in Fee /\ wallet
  <2>1. fees' = fees \cup {c} /\ Refuses /\ UNCHANGED astray
    BY <1>c, <1>3 DEF Exec
  <2>2. w \in Wave /\ fees' \in SUBSET Frame(Fee, Wave)
    <3>1. w \in Wave
      BY <1>2, <1>3 DEF Fee, WaveCommand
    <3>2. c \in Frame(Fee, Wave)
      BY <1>c, <1>2, <1>3, <3>1 DEF Order, Frame
    <3> QED
      BY <1>t, <2>1, <3>1, <3>2 DEF TypeOK
  <2>3. TypeOK'
    BY <1>t, <1>1, <1>2, <2>1, <2>2 DEF TypeOK, Refuses, coreVars
  <2>4. /\ c.ev \notin {"subscribe-wave", "unsubscribe-wave"} /\ UNCHANGED eng
        /\ \A v \in Wave : Alike(msgs', msgs, Of(WaveEvent, v))
    BY <1>3, <2>1, AlikeSame DEF Fee, Refuses
  <2> QED
    BY <1>c, <1>1, <2>1, <2>3, <2>4, ExecNothing
<1>4. CASE ~(c.ev \in Fee /\ wallet)
  <2>1. /\ Does(c) \/ (c.ev = "join-wave" /\ Refuses)
        /\ astray' = IF c.ev = "subscribe-wave" /\ eng[w].phase = "gone"
                     THEN astray \cup {w} ELSE astray
        /\ UNCHANGED fees
    BY <1>c, <1>4 DEF Exec
  <2>2. astray \subseteq astray' /\ astray' \in SUBSET Wave
    BY <1>t, <1>2, <2>1 DEF TypeOK, WaveCommand
  <2>f. wallet \in BOOLEAN /\ fees' \in SUBSET Frame(Fee, Wave)
    BY <1>t, <2>1 DEF TypeOK
  <2>3. CASE DoesSubscribe(c, w)
    <3>1. UNCHANGED astray
      BY <2>1, <2>3 DEF DoesSubscribe, Live
    <3> QED
      BY <1>c, <1>1, <2>1, <2>3, <3>1, ExecSubscribe DEF DoesSubscribe, payVars, auxVars
  <2>4. CASE DoesUnsubscribe(c, w)
    <3>1. w \in Wave /\ eng[w] \in EngineWave /\ eng \in [Wave -> EngineWave]
      BY <1>t, <1>2, <2>4 DEF WaveCommand, TypeOK, DoesUnsubscribe
    <3> DEFINE j == eng[w].joined /\ ~Live(w)
               f == [eng[w] EXCEPT !.sub = FALSE, !.held = FALSE, !.joined = j]
    <3>2. eng' = [eng EXCEPT ![w] = f]
      BY <2>4, <3>1 DEF EngineWave, DoesUnsubscribe
    <3>3. /\ f \in EngineWave /\ ~f.sub /\ ~f.held /\ f.mine = eng[w].mine
          /\ f.phase = eng[w].phase /\ f.joined = j
      <4>1. j \in BOOLEAN
        OBVIOUS
      <4> HIDE DEF j
      <4> QED
        BY <3>1, <4>1 DEF EngineWave
    <3> HIDE DEF f
    <3>4. UNCHANGED astray
      BY <2>1, <2>4 DEF DoesUnsubscribe
    <3> QED
      BY <1>c, <1>1, <2>1, <2>4, <3>2, <3>3, <3>4, ExecUnsubscribe
         DEF DoesUnsubscribe, payVars, auxVars
  <2>5. CASE DoesJoin(c, w)
    <3>1. w \in Wave /\ eng[w] \in EngineWave /\ c \in Cores(w)
      BY <1>c, <1>t, <1>2, <2>5 DEF WaveCommand, TypeOK, DoesJoin, Cores, To
    <3> DEFINE s == Subscribed(eng[w])
               f == [s EXCEPT !.joined = TRUE]
    <3>2. eng' = [eng EXCEPT ![w] = f]
      BY <2>5 DEF DoesJoin
    <3>3. f \in EngineWave /\ f.sub /\ f.phase = "lobby" /\ f.joined /\ f.mine = eng[w].mine
      <4>1. s \in EngineWave /\ s.sub /\ s.phase = "lobby" /\ s.mine = eng[w].mine
        BY <2>5, <3>1, SubscribedIs DEF DoesJoin
      <4> HIDE DEF s
      <4> QED
        BY <4>1 DEF EngineWave
    <3> HIDE DEF f
    <3>4. UNCHANGED astray /\ \A v \in Wave : v # w => Alike(cmds', cmds, Cores(v))
      BY <1>2, <2>1, <2>5 DEF DoesJoin
    <3> QED
      BY <1>c, <1>1, <1>2, <2>1, <2>f, <2>5, <3>1, <3>2, <3>3, <3>4, ExecJoin DEF DoesJoin
  <2>6. CASE DoesStart(c, w)
    <3>1. w \in Wave /\ UNCHANGED astray /\ \A v \in Wave : Alike(cmds', cmds, Cores(v))
      BY <1>2, <2>1, <2>6 DEF DoesStart, WaveCommand
    <3> QED
      BY <1>1, <1>2, <2>1, <2>f, <2>6, <3>1, ExecStart DEF DoesStart, auxVars
  <2>7. CASE DoesPay(c, w)
    <3>1. /\ c.ev = "tip" => w \in Tip
          /\ c.ev = "redeem" => w \in Token
          /\ c.ev = "set-wallet-options" => w \in Network
      BY <1>c, <1>2 DEF Order, Frame, WaveCommand
    <3>2. msgs' \in Seq(Report) /\ \A v \in Wave : Alike(msgs', msgs, Of(WaveEvent, v))
      <4>1. CASE msgs' = msgs
        BY <1>t, <4>1, AlikeSame DEF TypeOK
      <4>2. CASE c.ev = "tip" /\ msgs' = msgs \o <<Plain("tip-failed", w)>>
        <5>1. Plain("tip-failed", w) \in Report /\ Plain("tip-failed", w).ev \notin WaveEvent
          BY <3>1, <4>2, PlainIs DEF WaveEvent
        <5> QED
          BY <1>t, <4>2, <5>1, OtherMessage
      <4> QED
        BY <2>7, <4>1, <4>2 DEF DoesPay
    <3>3. /\ paying' \in SUBSET Tip /\ fate' \in [Token -> Fate]
          /\ wallet' \in BOOLEAN /\ making' \in Network \cup {None}
      <4>1. \A f \in Redeems(w) : f \in Fate
        BY DEF Redeems, Fate
      <4> QED
        BY <1>t, <2>7, <3>1, <4>1 DEF DoesPay, TypeOK
    <3>4. TypeOK'
      BY <1>t, <1>1, <1>2, <2>1, <2>2, <2>7, <3>2, <3>3 DEF TypeOK, coreVars, DoesPay
    <3>5. c.ev \notin {"subscribe-wave", "unsubscribe-wave"} /\ UNCHANGED eng
      BY <2>7 DEF DoesPay
    <3> QED
      BY <1>c, <1>1, <2>2, <3>2, <3>4, <3>5, ExecNothing
  <2>8. CASE DoesNothing(c, w) \/ (c.ev = "join-wave" /\ Refuses)
    <3>1. /\ UNCHANGED <<eng, paying, fate, wallet, making, msgs>>
          /\ ~(c.ev = "subscribe-wave" /\ Live(w)) /\ ~(c.ev = "unsubscribe-wave" /\ eng[w].sub)
      BY <2>8 DEF DoesNothing, Refuses
    <3>2. TypeOK'
      BY <1>t, <1>1, <1>2, <2>1, <2>2, <3>1 DEF TypeOK, coreVars
    <3>3. \A v \in Wave : Alike(msgs', msgs, Of(WaveEvent, v))
      BY <3>1, AlikeSame
    <3>4. c.ev = "subscribe-wave" /\ eng[w].phase = "gone" => w \in astray'
      BY <2>1
    <3> QED
      BY <1>c, <1>1, <2>2, <3>1, <3>2, <3>3, <3>4, ExecNothing
  <2> QED
    BY <1>c, <2>1, <2>f, <2>3, <2>4, <2>5, <2>6, <2>7, <2>8, DoesIs
<1> QED
  BY <1>3, <1>4

LEMMA FundsKeeps == \A c \in fees : IInv /\ FundsRead(c) => IInv'
<1> SUFFICES ASSUME NEW c \in fees, IInv, FundsRead(c) PROVE IInv'
  OBVIOUS
<1>t. TypeOK
  BY DEF IInv
<1> DEFINE w == c.wave
<1>1. w \in Wave /\ c.ev \in Fee
  BY <1>t DEF TypeOK, Frame
<1>2. /\ fees' \in SUBSET Frame(Fee, Wave)
      /\ Does(c) \/ Refuses
      /\ astray' = IF c.ev = "join-wave" /\ eng[w].sub # eng'[w].sub
                   THEN astray \cup {w} ELSE astray
      /\ UNCHANGED <<rare, cmds, coreVars, hurried>>
  BY <1>t DEF FundsRead, TypeOK
<1>3. cmds' \in Seq(Order) /\ \A v \in Wave : Alike(cmds', cmds, Cores(v))
  BY <1>t, <1>2, AlikeSame DEF TypeOK
<1> HIDE DEF w
<1>4. CASE DoesJoin(c, w)
  <2>1. eng[w] \in EngineWave
    BY <1>t, <1>1 DEF TypeOK
  <2> DEFINE s == Subscribed(eng[w])
             f == [s EXCEPT !.joined = TRUE]
  <2>2. eng' = [eng EXCEPT ![w] = f]
    BY <1>4 DEF DoesJoin
  <2>3. f \in EngineWave /\ f.sub /\ f.phase = "lobby" /\ f.joined /\ f.mine = eng[w].mine
    <3>1. s \in EngineWave /\ s.sub /\ s.phase = "lobby" /\ s.mine = eng[w].mine
      BY <1>4, <2>1, SubscribedIs DEF DoesJoin
    <3> HIDE DEF s
    <3> QED
      BY <3>1 DEF EngineWave
  <2> HIDE DEF f
  <2> QED
    BY <1>1, <1>2, <1>3, <1>4, <2>2, <2>3, ExecJoin DEF DoesJoin
<1>5. CASE DoesStart(c, w)
  <2>1. UNCHANGED astray
    BY <1>2, <1>5 DEF DoesStart
  <2> QED
    BY <1>1, <1>2, <1>3, <1>5, <2>1, ExecStart DEF DoesStart, auxVars
<1>6. CASE DoesNothing(c, w) \/ Refuses
  <2>1. UNCHANGED <<eng, paying, fate, wallet, making, msgs>>
    BY <1>6 DEF DoesNothing, Refuses
  <2>2. TypeOK' /\ astray \subseteq astray'
    BY <1>t, <1>2, <2>1 DEF TypeOK, coreVars
  <2>3. \A v \in Wave : Alike(msgs', msgs, Of(WaveEvent, v))
    BY <2>1, AlikeSame
  <2>4. UNCHANGED <<eng, dir, feeds, dismissed, active>>
    BY <1>2, <2>1 DEF coreVars
  <2> QED
    BY <1>3, <2>2, <2>3, <2>4, StepOfNone
<1>7. Does(c) => DoesJoin(c, w) \/ DoesStart(c, w) \/ DoesNothing(c, w)
  <2>1. wallet \in BOOLEAN /\ c.ev \in {"start-wave", "join-wave"}
    BY <1>t, <1>1 DEF TypeOK, Fee
  <2> QED
    BY <2>1, DoesIs DEF w, DoesSubscribe, DoesUnsubscribe, DoesPay
<1> QED
  BY <1>2, <1>4, <1>5, <1>6, <1>7

-----------------------------------------------------------------------------
\* The user asks for something.

LEMMA StartKeeps == \A w \in Wave : IInv /\ startWave(w) => IInv'
<1> SUFFICES ASSUME NEW w \in Wave, IInv, startWave(w) PROVE IInv'
  OBVIOUS
<1> DEFINE c == Plain("start-wave", w)
<1>t. TypeOK
  BY DEF IInv
<1>1. cmds' = cmds \o <<c>> /\ UNCHANGED <<engVars, msgs, coreVars, auxVars>>
  BY DEF startWave, Send
<1>2. c \in Order /\ c.ev = "start-wave"
  BY PlainIs DEF WaveCommand
<1> HIDE DEF c
<1>3. cmds' \in Seq(Order) /\ \A v \in Wave : Alike(cmds', cmds, Cores(v))
  BY <1>t, <1>1, <1>2, OtherCommand
<1>4. TypeOK'
  BY <1>t, <1>1, <1>3 DEF TypeOK, engVars, payVars, coreVars, auxVars
<1>5. \A v \in Wave : Alike(msgs', msgs, Of(WaveEvent, v))
  BY <1>1, AlikeSame
<1> QED
  BY <1>1, <1>3, <1>4, <1>5, StepOfNone DEF engVars, coreVars, auxVars

LEMMA TipKeeps == \A t \in Tip : IInv /\ tip(t) => IInv'
<1> SUFFICES ASSUME NEW t \in Tip, IInv, tip(t) PROVE IInv'
  OBVIOUS
<1> DEFINE c == Plain("tip", t)
<1>t. TypeOK
  BY DEF IInv
<1>1. /\ cmds' = cmds \o <<c>> /\ rare' = rare \cup {"tip"} /\ lastTip' = t
      /\ hurried' = IF inFlight = {} THEN hurried ELSE hurried \cup inFlight \cup {t}
      /\ UNCHANGED <<eng, paying, fate, payVars, msgs, dir, feeds, linger, fades, dismissed,
                     active, net, astray>>
  BY DEF tip, Send, Rare
<1>2. c \in Order /\ c.ev = "tip"
  BY PlainIs
<1> HIDE DEF c
<1>3. cmds' \in Seq(Order) /\ \A v \in Wave : Alike(cmds', cmds, Cores(v))
  BY <1>t, <1>1, <1>2, OtherCommand
<1>4. TypeOK'
  <2>1. hurried' \in SUBSET Tip
    BY <1>t, <1>1 DEF TypeOK, inFlight
  <2> QED
    BY <1>t, <1>1, <1>3, <2>1 DEF TypeOK, Kind, payVars
<1>5. \A v \in Wave : Alike(msgs', msgs, Of(WaveEvent, v))
  BY <1>1, AlikeSame
<1> QED
  BY <1>1, <1>3, <1>4, <1>5, StepOfNone

LEMMA MintKeeps == \A n \in Network : IInv /\ setMint(n) => IInv'
<1> SUFFICES ASSUME NEW n \in Network, IInv, setMint(n) PROVE IInv'
  OBVIOUS
<1> DEFINE c == Plain("set-wallet-options", n)
<1>t. TypeOK
  BY DEF IInv
<1>1. /\ cmds' = cmds \o <<c>> /\ rare' = rare \cup {"wallet"}
      /\ UNCHANGED <<eng, paying, fate, payVars, msgs, coreVars, auxVars>>
  BY DEF setMint, Send, Rare
<1>2. c \in Order /\ c.ev = "set-wallet-options"
  BY PlainIs
<1> HIDE DEF c
<1>3. cmds' \in Seq(Order) /\ \A v \in Wave : Alike(cmds', cmds, Cores(v))
  BY <1>t, <1>1, <1>2, OtherCommand
<1>4. TypeOK'
  BY <1>t, <1>1, <1>3 DEF TypeOK, Kind, payVars, coreVars, auxVars
<1>5. \A v \in Wave : Alike(msgs', msgs, Of(WaveEvent, v))
  BY <1>1, AlikeSame
<1> QED
  BY <1>1, <1>3, <1>4, <1>5, StepOfNone DEF coreVars, auxVars

\* A command that takes the cores of a wave shown as subscribed from now on.
LEMMA AskedCores ==
  ASSUME NEW w, WaveCores(w), Known(w), Known(w)', cmds \in Seq(Order),
         NEW c \in Cores(w), cmds' = cmds \o <<c>>, astray \subseteq astray',
         w \notin astray' => dir'[w].sub /\ (dir[w].sub \/ c \in Asks(w)),
         UNCHANGED <<eng, msgs>>
  PROVE  WaveCores(w)'
<1>1. c \in Order
  BY DEF Cores, To
<1>2. \A A : Silent(cmds', A) <=> Silent(cmds, A) /\ c \notin A
  <2>1. \A A : Silent(cmds \o <<c>>, A) <=> Silent(cmds, A) /\ c \notin A
    BY <1>1, AppendIs
  <2> QED
    BY <2>1
<1>3. Fresh(w)' /\ Said(w)'
  BY DEF WaveCores, Fresh, Said, SubSo
<1>4. ASSUME w \notin astray' PROVE Asked(w)' /\ Given(w)'
  BY <1>2, <1>4 DEF WaveCores, Asked, Given
<1> QED
  BY <1>3, <1>4 DEF WaveCores

LEMMA JoinKeeps == IInv /\ joinWave => IInv'
<1> SUFFICES ASSUME IInv, joinWave PROVE IInv'
  OBVIOUS
<1>t. TypeOK
  BY DEF IInv
<1>w. PICK w \in Wave : w = active
  BY <1>t DEF joinWave, TypeOK
<1> DEFINE c == Plain("join-wave", w)
<1>1. active # None /\ cmds' = cmds \o <<c>> /\ UNCHANGED <<engVars, msgs, coreVars, auxVars>>
  BY <1>w DEF joinWave, Send
<1>2. c \in Order /\ c.ev = "join-wave" /\ c.wave = w
  BY PlainIs DEF WaveCommand
<1> HIDE DEF c
<1>3. cmds \in Seq(Order) /\ cmds' \in Seq(Order)
  BY <1>t, <1>1, <1>2 DEF TypeOK
<1>4. \A v \in Wave : v # w => Alike(cmds', cmds, Cores(v))
  <2>1. \A v \in Wave : v # w => c \notin Cores(v)
    BY <1>2 DEF Cores, To
  <2> QED
    BY <1>1, <1>2, <1>3, <2>1, AlikeAppend
<1>5. TypeOK'
  BY <1>t, <1>1, <1>3 DEF TypeOK, engVars, payVars, coreVars, auxVars
<1>6. UNCHANGED <<eng, astray, msgs, dir, feeds, dismissed, active>>
  BY <1>1 DEF engVars, coreVars, auxVars
<1>7. Elsewhere(w)
  BY <1>4, <1>6, AlikeSame DEF Elsewhere
<1>8. PhaseShown(w)' /\ SeatShown(w)'
  <2>1. PhaseShown(w) /\ SeatShown(w) /\ EntrySame(w) /\ eng'[w] = eng[w]
    BY <1>6 DEF IInv, ViewInv, EntrySame
  <2>2. Alike(msgs', msgs, Of(WaveEvent, w))
    BY <1>6, AlikeSame
  <2> QED
    BY <2>1, <2>2, SameView
<1>9. WaveCores(w)'
  <2>1. WaveCores(w) /\ (w \notin astray => dir[w].sub)
    BY <1>w, <1>1 DEF IInv, CoresInv
  <2>2. Known(w) /\ Known(w)'
    BY <1>w, <1>1, <1>6 DEF IInv, DirectoryInv, Known
  <2>3. c \in Cores(w)
    BY <1>2 DEF Cores, To
  <2> QED
    BY <1>1, <1>3, <1>6, <2>1, <2>2, <2>3, AskedCores
<1> QED
  BY <1>5, <1>6, <1>7, <1>8, <1>9, StepOf

-----------------------------------------------------------------------------
\* A step of the view model, which changes what is shown of the waves W.

LEMMA StepOfView ==
  ASSUME IInv, TypeOK', DirectoryInv', UNCHANGED eng, astray \subseteq astray', NEW W,
         \A v \in Wave \ W : /\ EntrySame(v) /\ (v \in dismissed' <=> v \in dismissed)
                             /\ Alike(msgs', msgs, Of(WaveEvent, v))
                             /\ Alike(cmds', cmds, Cores(v)),
         \A v \in Wave \cap W : PhaseShown(v)' /\ SeatShown(v)' /\ WaveCores(v)',
         active' # None /\ active' \notin astray' => dir'[active'].sub
  PROVE  IInv'
<1>1. ViewInv'
  <2>1. ASSUME NEW v \in Wave, v \notin W PROVE PhaseShown(v)' /\ SeatShown(v)'
    <3>1. PhaseShown(v) /\ SeatShown(v) /\ eng'[v] = eng[v]
      BY DEF IInv, ViewInv
    <3> QED
      BY <2>1, <3>1, SameView
  <2> QED
    BY <2>1 DEF ViewInv
<1>2. CoresInv'
  <2>1. ASSUME NEW v \in Wave, v \notin W PROVE WaveCores(v)'
    <3>1. WaveCores(v) /\ eng'[v] = eng[v]
      BY DEF IInv, CoresInv
    <3>2. Known(v)' = Known(v) /\ dir'[v].sub = dir[v].sub
      BY <2>1 DEF EntrySame, Known
    <3> QED
      BY <2>1, <3>1, <3>2, SameCores
  <2> QED
    BY <2>1 DEF CoresInv
<1> QED
  BY <1>1, <1>2 DEF IInv

LEMMA SelectKeeps == \A w \in Wave : IInv /\ selectWave(w) => IInv'
<1> SUFFICES ASSUME NEW w \in Wave, IInv, selectWave(w) PROVE IInv'
  OBVIOUS
<1> DEFINE c == Plain("subscribe-wave", w)
           n == [dir[w] EXCEPT !.sub = TRUE]
<1>t. TypeOK
  BY DEF IInv
<1>1. /\ Known(w) /\ active' = w
      /\ cmds' = cmds \o (IF dir[w].sub THEN <<>> ELSE <<c>>)
      /\ UNCHANGED <<engVars, msgs, feeds, linger, fades, dismissed, net, lastTip, auxVars>>
  BY DEF selectWave, visible, Send
<1>2. c \in Order /\ c.ev = "subscribe-wave" /\ c.wave = w
  BY PlainIs DEF WaveCommand
<1> HIDE DEF c
<1>3. dir' = [dir EXCEPT ![w] = n]
  <2>1. dir' = [dir EXCEPT ![w].sub = TRUE]
    BY DEF selectWave
  <2> QED
    BY <1>t, <2>1 DEF TypeOK, Entry
<1>4. /\ n \in Entry /\ n.sub /\ n.phase = dir[w].phase /\ n.joined = dir[w].joined
      /\ n.mine = dir[w].mine /\ n.by = dir[w].by
  <2>1. dir[w] \in Entry
    BY <1>t DEF TypeOK
  <2> QED
    BY <2>1 DEF Entry
<1> HIDE DEF n
<1>5. dir' \in [Wave -> Entry] /\ dir'[w] = n /\ \A v \in Wave : v # w => dir'[v] = dir[v]
  BY <1>t, <1>3, <1>4 DEF TypeOK
<1>6. cmds \in Seq(Order) /\ cmds' \in Seq(Order) /\ (dir[w].sub => cmds' = cmds)
      /\ (~dir[w].sub => cmds' = cmds \o <<c>>)
  BY <1>t, <1>1, <1>2 DEF TypeOK
<1>7. \A v \in Wave : v # w => Alike(cmds', cmds, Cores(v))
  <2>1. \A v \in Wave : v # w => c \notin Cores(v)
    BY <1>2 DEF Cores, To
  <2>2. CASE dir[w].sub
    BY <1>6, <2>2, AlikeSame
  <2>3. CASE ~dir[w].sub
    BY <1>2, <1>6, <2>1, <2>3, AlikeAppend
  <2> QED
    BY <2>2, <2>3
<1>8. TypeOK'
  BY <1>t, <1>1, <1>5, <1>6 DEF TypeOK, engVars, payVars, auxVars
<1>9. DirectoryInv'
  <2>1. \A v \in Wave : Known(v)' = Known(v) /\ dir'[v].mine = dir[v].mine /\ dir'[v].by = dir[v].by
    BY <1>4, <1>5 DEF Known
  <2>2. \A v \in Wave : Listed(v)'
    <3>1. \A v \in Wave : v # w => Listed(v)'
      BY <1>1, <1>5 DEF IInv, DirectoryInv, Listed, Known
    <3>2. Listed(w)'
      BY <1>1, <2>1 DEF IInv, DirectoryInv, Listed
    <3> QED
      BY <3>1, <3>2
  <2>4. Known(active)'
    BY <1>1, <1>4, <1>5 DEF Known
  <2> QED
    BY <1>1, <2>1, <2>2, <2>4 DEF IInv, DirectoryInv
<1>10. EntrySame(w) \/ ~dir[w].sub
  BY <1>t, <1>4, <1>5 DEF EntrySame, TypeOK, Entry
<1>11. PhaseShown(w)' /\ SeatShown(w)'
  <2>1. PhaseShown(w) /\ SeatShown(w)
    BY DEF IInv, ViewInv
  <2>2. PhaseSo(w)' = PhaseSo(w) /\ SeatSo(w)' = SeatSo(w) /\ Live(w)' = Live(w)
    BY <1>1 DEF PhaseSo, SeatSo, Live, engVars
  <2> QED
    BY <1>1, <1>4, <1>5, <2>1, <2>2 DEF PhaseShown, SeatShown, Ends, Known, engVars
<1>12. WaveCores(w)'
  <2>1. WaveCores(w)
    BY DEF IInv, CoresInv
  <2>2. UNCHANGED <<eng, msgs, dismissed, astray>>
    BY <1>1 DEF engVars, auxVars
  <2>3. CASE dir[w].sub
    <3>1. /\ eng'[w] = eng[w] /\ (w \in dismissed' <=> w \in dismissed)
          /\ (Known(w)' <=> Known(w)) /\ (dir'[w].sub <=> dir[w].sub)
      BY <1>4, <1>5, <2>2, <2>3 DEF Known
    <3>2. Alike(msgs', msgs, Of(WaveEvent, w)) /\ Alike(cmds', cmds, Cores(w))
      BY <1>6, <2>2, <2>3, AlikeSame
    <3> QED
      BY <2>1, <2>2, <3>1, <3>2, SameCores
  <2>4. CASE ~dir[w].sub
    <3>1. Known(w)' /\ dir'[w].sub
      BY <1>1, <1>4, <1>5 DEF Known
    <3>2. c \in Cores(w) /\ c \in Asks(w)
      BY <1>2 DEF Cores, Asks, To
    <3> QED
      BY <1>1, <1>6, <2>1, <2>2, <2>4, <3>1, <3>2, AskedCores
  <2> QED
    BY <2>3, <2>4
<1>13. \A v \in Wave \ {w} : /\ EntrySame(v) /\ (v \in dismissed' <=> v \in dismissed)
                             /\ Alike(msgs', msgs, Of(WaveEvent, v))
                             /\ Alike(cmds', cmds, Cores(v))
  BY <1>1, <1>5, <1>7, AlikeSame DEF EntrySame
<1>14. UNCHANGED <<eng, astray>> /\ (active' # None => dir'[active'].sub)
  BY <1>1, <1>4, <1>5 DEF engVars, auxVars
<1> DEFINE W == {w}
<1>15. /\ \A v \in Wave \cap W : PhaseShown(v)' /\ SeatShown(v)' /\ WaveCores(v)'
       /\ \A v \in Wave \ W : /\ EntrySame(v) /\ (v \in dismissed' <=> v \in dismissed)
                              /\ Alike(msgs', msgs, Of(WaveEvent, v))
                              /\ Alike(cmds', cmds, Cores(v))
  <2>1. \A v \in Wave \cap W : v = w
    OBVIOUS
  <2> QED
    BY <1>11, <1>12, <1>13, <2>1
<1> HIDE DEF W
<1> QED
  BY <1>8, <1>9, <1>14, <1>15, StepOfView

\* The waves P, of which one at most has cores to free, are dropped from the directory.
LEMMA DropIs ==
  ASSUME TypeOK, NEW P \in SUBSET Wave, \A v, w \in P : v = w, Drop(P, dir)
  PROVE  /\ dir' \in [Wave -> Entry] /\ cmds' \in Seq(Order)
         /\ feeds' = feeds \ P /\ linger' = linger \ P
         /\ \A v \in Wave : dir'[v] = IF v \in P THEN NoEntry ELSE dir[v]
         /\ \A v \in Wave : v \notin P \/ ~dir[v].sub => Alike(cmds', cmds, Cores(v))
         /\ \A v \in P : dir[v].sub => LastIn(cmds', Cores(v), Gives(v))
<1>1. cmds \in Seq(Order) /\ dir \in [Wave -> Entry]
  BY DEF TypeOK
<1>2. /\ cmds' = cmds \o Frees(P, dir)
      /\ dir' = [v \in Wave |-> IF v \in P THEN NoEntry ELSE dir[v]]
      /\ feeds' = feeds \ P /\ linger' = linger \ P
  BY DEF Drop, Send
<1>3. /\ cmds' \in Seq(Order)
      /\ \A v \in Wave : v \notin P \/ ~dir[v].sub => Alike(cmds', cmds, Cores(v))
      /\ \A v \in P : dir[v].sub => LastIn(cmds', Cores(v), Gives(v))
  BY <1>1, <1>2, FreedIs
<1> QED
  BY <1>1, <1>2, <1>3, NoWaveType

LEMMA DropKeeps ==
  ASSUME IInv, NEW w \in Wave, Drop({w}, dir),
         active' = IF active = w THEN None ELSE active,
         \/ dismissed' = dismissed
         \/ dismissed' = dismissed \cup {w} /\ Known(w),
         fades' \in SUBSET Wave, UNCHANGED <<engVars, msgs, net, lastTip, auxVars>>
  PROVE  IInv'
<1>t. TypeOK
  BY DEF IInv
<1>1. /\ dir' \in [Wave -> Entry] /\ cmds' \in Seq(Order)
      /\ feeds' = feeds \ {w} /\ linger' = linger \ {w}
      /\ dir'[w] = NoEntry /\ \A v \in Wave : v # w => dir'[v] = dir[v]
      /\ \A v \in Wave : v # w \/ ~dir[v].sub => Alike(cmds', cmds, Cores(v))
      /\ dir[w].sub => LastIn(cmds', Cores(w), Gives(w))
  BY <1>t, DropIs
<1>2. UNCHANGED <<eng, rare, paying, fate, wallet, making, fees, astray, hurried>>
  BY DEF engVars, payVars, auxVars
<1>3. TypeOK'
  BY <1>t, <1>1, <1>2 DEF TypeOK
<1>4. ~Known(w)' /\ ~dir'[w].sub /\ ~dir'[w].mine /\ dir'[w].phase = "none"
  BY <1>1 DEF Known, NoEntry
<1>5. DirectoryInv'
  <2>1. \A v \in Wave : Listed(v)'
    <3>1. \A v \in Wave : v # w => Listed(v)'
      BY <1>1 DEF IInv, DirectoryInv, Listed, Known
    <3> QED
      BY <1>4, <3>1 DEF Listed
  <2>2. feeds' \cap dismissed' = {}
    BY <1>1 DEF IInv, DirectoryInv
  <2>3. active' # None => Known(active)'
    BY <1>t, <1>1 DEF IInv, DirectoryInv, Known, TypeOK
  <2>4. \A u, v \in Wave : dir'[u].mine /\ dir'[v].mine => u = v
    BY <1>1, <1>4 DEF IInv, DirectoryInv
  <2> QED
    BY <2>1, <2>2, <2>3, <2>4 DEF DirectoryInv
<1>6. Alike(msgs', msgs, Of(WaveEvent, w)) /\ eng'[w] = eng[w]
  BY <1>2, AlikeSame
<1>7. PhaseShown(w)' /\ SeatShown(w)'
  <2>1. PhaseShown(w) /\ SeatShown(w)
    BY DEF IInv, ViewInv
  <2> QED
    BY <1>4, <1>6, <2>1, DroppedView
<1>8. WaveCores(w)'
  <2>1. WaveCores(w) /\ Listed(w)
    BY DEF IInv, CoresInv, DirectoryInv
  <2> QED
    BY <1>1, <1>2, <1>4, <1>6, <2>1, DroppedCores
<1>9. \A v \in Wave \ {w} : /\ EntrySame(v) /\ (v \in dismissed' <=> v \in dismissed)
                            /\ Alike(msgs', msgs, Of(WaveEvent, v))
                            /\ Alike(cmds', cmds, Cores(v))
  BY <1>1, AlikeSame DEF EntrySame
<1>10. active' # None /\ active' \notin astray' => dir'[active'].sub
  BY <1>t, <1>1, <1>2 DEF IInv, CoresInv, TypeOK
<1> QED
  BY <1>2, <1>3, <1>5, <1>7, <1>8, <1>9, <1>10, StepOfView

LEMMA DismissKeeps == \A w \in Wave : IInv /\ dismissWave(w) => IInv'
<1> SUFFICES ASSUME NEW w \in Wave, IInv, dismissWave(w) PROVE IInv'
  OBVIOUS
<1>1. fades' \in SUBSET Wave
  BY DEF dismissWave, IInv, TypeOK
<1> QED
  BY <1>1, DropKeeps DEF dismissWave

LEMMA FadeKeeps == \A w \in Wave : IInv /\ FadeEnds(w) => IInv'
<1> SUFFICES ASSUME NEW w \in Wave, IInv, FadeEnds(w) PROVE IInv'
  OBVIOUS
<1>1. fades' \in SUBSET Wave
  BY DEF FadeEnds, IInv, TypeOK
<1> QED
  BY <1>1, DropKeeps DEF FadeEnds

LEMMA LingerKeeps == \A w \in Wave : IInv /\ LingerEnds(w) => IInv'
<1> SUFFICES ASSUME NEW w \in Wave, IInv, LingerEnds(w) PROVE IInv'
  OBVIOUS
<1> DEFINE n == [dir[w] EXCEPT !.fading = TRUE]
<1>t. TypeOK
  BY DEF IInv
<1>1. /\ linger' = linger \ {w} /\ fades' = fades \cup {w}
      /\ UNCHANGED <<engVars, msgs, cmds, feeds, dismissed, active, net, lastTip, auxVars>>
  BY DEF LingerEnds
<1>2. dir' = [dir EXCEPT ![w] = n]
  <2>1. dir' = [dir EXCEPT ![w].fading = TRUE]
    BY DEF LingerEnds
  <2> QED
    BY <1>t, <2>1 DEF TypeOK, Entry
<1>3. /\ n \in Entry /\ n.sub = dir[w].sub /\ n.phase = dir[w].phase
      /\ n.joined = dir[w].joined /\ n.mine = dir[w].mine /\ n.by = dir[w].by
  <2>1. dir[w] \in Entry
    BY <1>t DEF TypeOK
  <2> QED
    BY <2>1 DEF Entry
<1> HIDE DEF n
<1>4. dir' \in [Wave -> Entry] /\ dir'[w] = n /\ \A v \in Wave : v # w => dir'[v] = dir[v]
  BY <1>t, <1>2, <1>3 DEF TypeOK
<1>5. \A v \in Wave : EntrySame(v) /\ dir'[v].mine = dir[v].mine /\ dir'[v].by = dir[v].by
  BY <1>3, <1>4 DEF EntrySame
<1>6. TypeOK'
  BY <1>t, <1>1, <1>4 DEF TypeOK, engVars, payVars, auxVars
<1>7. DirectoryInv'
  <2>1. \A v \in Wave : Known(v)' = Known(v)
    BY <1>5 DEF Known, EntrySame
  <2>2. \A v \in Wave : Listed(v)'
    BY <1>1, <1>5, <2>1 DEF IInv, DirectoryInv, Listed, EntrySame
  <2>3. active' # None => Known(active)'
    BY <1>t, <1>1, <1>5 DEF IInv, DirectoryInv, Known, TypeOK, EntrySame
  <2> QED
    BY <1>1, <1>5, <2>2, <2>3 DEF IInv, DirectoryInv
<1>8. \A v \in Wave \ {} : /\ EntrySame(v) /\ (v \in dismissed' <=> v \in dismissed)
                           /\ Alike(msgs', msgs, Of(WaveEvent, v))
                           /\ Alike(cmds', cmds, Cores(v))
  BY <1>1, <1>5, AlikeSame
<1>9. UNCHANGED <<eng, astray>>
  BY <1>1 DEF engVars, auxVars
<1>10. active' # None /\ active' \notin astray' => dir'[active'].sub
  BY <1>t, <1>1, <1>5, <1>9 DEF IInv, CoresInv, TypeOK, EntrySame
<1> DEFINE none == {}
<1>11. \A v \in Wave \cap none : PhaseShown(v)' /\ SeatShown(v)' /\ WaveCores(v)'
  OBVIOUS
<1> QED
  BY <1>6, <1>7, <1>8, <1>9, <1>10, <1>11, StepOfView

-----------------------------------------------------------------------------
\* The view model handles a message.

LEMMA NextIs ==
  ASSUME TypeOK, msgs # <<>>, msgs' = Tail(msgs), NEW m, m = Head(msgs)
  PROVE  /\ m \in Report /\ msgs \in Seq(Report) /\ msgs' \in Seq(Report)
         /\ \A v : m \notin Of(WaveEvent, v) => Alike(msgs', msgs, Of(WaveEvent, v))
<1>1. msgs \in Seq(Report)
  BY DEF TypeOK
<1>2. m \in Report /\ msgs' \in Seq(Report)
  BY <1>1
<1>3. ASSUME NEW v, m \notin Of(WaveEvent, v) PROVE Alike(msgs', msgs, Of(WaveEvent, v))
  <2>1. Head(msgs) \notin Of(WaveEvent, v)
    BY <1>3
  <2> QED
    BY <1>1, <2>1, AlikeTail
<1> QED
  BY <1>1, <1>2, <1>3

\* A message that is about no wave's life leaves the directory alone.
LEMMA HandleOther ==
  ASSUME IInv, TypeOK', msgs # <<>>, msgs' = Tail(msgs), NEW m, m = Head(msgs),
         m.ev \notin WaveEvent, UNCHANGED <<eng, astray, dir, dismissed>>,
         \A v \in Wave : Alike(cmds', cmds, Cores(v)),
         feeds' \cap dismissed = {}, active' \in {active, None}
  PROVE  IInv'
<1>1. \A v : Alike(msgs', msgs, Of(WaveEvent, v))
  <2>1. \A v : m \notin Of(WaveEvent, v)
    BY DEF Of
  <2> QED
    BY <2>1, NextIs DEF IInv
<1>2. DirectoryInv'
  <2>1. \A v \in Wave : Listed(v)'
    BY DEF IInv, DirectoryInv, Listed, Known
  <2>2. active' # None => Known(active)'
    BY DEF IInv, DirectoryInv, Known
  <2> QED
    BY <2>1, <2>2 DEF IInv, DirectoryInv
<1> DEFINE none == {}
<1>3. /\ \A v \in Wave \ none : /\ EntrySame(v) /\ (v \in dismissed' <=> v \in dismissed)
                                /\ Alike(msgs', msgs, Of(WaveEvent, v))
                                /\ Alike(cmds', cmds, Cores(v))
      /\ \A v \in Wave \cap none : PhaseShown(v)' /\ SeatShown(v)' /\ WaveCores(v)'
  BY <1>1 DEF EntrySame
<1>4. active' # None /\ active' \notin astray' => dir'[active'].sub
  BY DEF IInv, CoresInv
<1> HIDE DEF none
<1> QED
  BY <1>2, <1>3, <1>4, StepOfView

\* DIRECTORY_PATCH.
LEMMA PatchIs ==
  ASSUME NEW e \in Entry, NEW m \in Report, m.ev \in WaveEvent
  PROVE  /\ Patch(m, e) \in Entry /\ Patch(m, e).by = (e.by \/ m.ev = "wave-announce")
         /\ m.ev = "wave-announce" =>
              /\ Patch(m, e).phase = "lobby" /\ Patch(m, e).mine = m.mine
              /\ Patch(m, e).sub = m.sub /\ Patch(m, e).joined = m.joined
         /\ m.ev = "wave-active" => Patch(m, e).phase = "racing" /\ Patch(m, e).joined = m.joined
         /\ m.ev = "wave-idle" => Patch(m, e).phase = "ended" /\ Patch(m, e).joined = e.joined
         /\ m.ev = "subscribed" => Patch(m, e).sub /\ Patch(m, e).joined = m.joined
         /\ m.ev = "unsubscribed" => ~Patch(m, e).sub /\ ~Patch(m, e).joined
         /\ m.ev = "joined" => Patch(m, e).joined
         /\ m.ev \in {"subscribed", "unsubscribed", "joined"} => Patch(m, e).phase = e.phase
         /\ m.ev # "wave-announce" => Patch(m, e).mine = e.mine
         /\ m.ev \in {"joined", "wave-active", "wave-idle"} => Patch(m, e).sub = e.sub
<1>1. m.mine \in BOOLEAN /\ m.sub \in BOOLEAN /\ m.joined \in BOOLEAN
  BY DEF Report, Frame
<1>2. CASE m.ev = "wave-announce"
  BY <1>1, <1>2 DEF Patch, Entry
<1>3. CASE m.ev = "subscribed"
  BY <1>1, <1>3 DEF Patch, Entry
<1>4. CASE m.ev = "unsubscribed"
  BY <1>1, <1>4 DEF Patch, Entry
<1>5. CASE m.ev = "joined"
  BY <1>1, <1>5 DEF Patch, Entry
<1>6. CASE m.ev = "wave-active"
  BY <1>1, <1>6 DEF Patch, Entry
<1>7. CASE m.ev = "wave-idle"
  BY <1>1, <1>7 DEF Patch, Entry
<1> QED
  BY <1>2, <1>3, <1>4, <1>5, <1>6, <1>7 DEF WaveEvent

\* What the wave of a message is shown as.
Hears(m, w) ==
  \/ ~Known(w) /\ dir'[w] = dir[w] /\ (m.ev = "wave-announce" => w \in dismissed)
  \/ dir'[w] = Patch(m, dir[w]) /\ (Known(w) \/ m.ev = "wave-announce")

LEMMA HeardView ==
  ASSUME NEW w, PhaseShown(w), SeatShown(w), msgs \in Seq(Report), msgs # <<>>,
         msgs' = Tail(msgs), NEW m \in Of(WaveEvent, w), m = Head(msgs), UNCHANGED eng,
         dir[w] \in Entry, eng[w] \in EngineWave, Hears(m, w)
  PROVE  PhaseShown(w)' /\ SeatShown(w)'
<1>1. m \in Report /\ m.ev \in WaveEvent /\ m.wave = w
  BY DEF Of
<1>2. /\ \A A : Silent(msgs, A) <=> Silent(msgs', A) /\ m \notin A
      /\ \A A, M : LastIn(msgs, A, M) <=> LastIn(msgs', A, M) \/ (m \in M /\ Silent(msgs', A))
  BY TailIs
<1>3. PhaseSo(w)' = PhaseSo(w) /\ SeatSo(w)' = SeatSo(w) /\ (Live(w)' <=> Live(w))
  BY DEF PhaseSo, SeatSo, Live
<1>4. /\ Silent(msgs', OfPhase(w)) \/ LastIn(msgs', OfPhase(w), PhaseSo(w))
      /\ Live(w) => Silent(msgs', OfSeat(w)) \/ LastIn(msgs', OfSeat(w), SeatSo(w))
  BY <1>2 DEF PhaseShown, SeatShown, Ends
<1>5. CASE ~Known(w)'
  BY <1>3, <1>4, <1>5 DEF PhaseShown, SeatShown, Ends
<1>6. CASE Known(w)'
  <2> DEFINE n == Patch(m, dir[w])
  <2>1. dir'[w] = n /\ (Known(w) \/ m.ev = "wave-announce")
    BY <1>6 DEF Hears, Known
  <2>2. /\ m.ev = "wave-announce" => n.phase = "lobby" /\ n.joined = m.joined
        /\ m.ev = "wave-active" => n.phase = "racing" /\ n.joined = m.joined
        /\ m.ev = "wave-idle" => n.phase = "ended" /\ n.joined = dir[w].joined
        /\ m.ev = "subscribed" => n.joined = m.joined
        /\ m.ev = "unsubscribed" => ~n.joined
        /\ m.ev = "joined" => n.joined
        /\ m.ev \in {"subscribed", "unsubscribed", "joined"} => n.phase = dir[w].phase
        /\ n \in Entry
    BY <1>1, PatchIs
  <2> HIDE DEF n
  <2>3. PhaseShown(w)'
    <3> SUFFICES ASSUME Silent(msgs', OfPhase(w)), ~LastIn(msgs', OfPhase(w), PhaseSo(w))
                 PROVE  IF n.phase = "ended" THEN ~Live(w) ELSE n.phase = eng[w].phase
      BY <1>3, <1>4, <2>1 DEF PhaseShown, Ends
    <3>1. CASE m \in OfPhase(w)
      <4>1. m \in PhaseSo(w)
        BY <1>2, <3>1 DEF PhaseShown, Ends
      <4> QED
        BY <2>2, <4>1 DEF PhaseSo, OfPhase, Of
    <3>2. CASE m \notin OfPhase(w)
      <4>1. m.ev \in {"subscribed", "unsubscribed", "joined"}
        BY <1>1, <3>2 DEF OfPhase, Of, WaveEvent
      <4>2. m \notin PhaseSo(w)
        BY <3>2 DEF PhaseSo
      <4>3. Known(w) => IF dir[w].phase = "ended" THEN ~Live(w) ELSE dir[w].phase = eng[w].phase
        BY <1>2, <4>2 DEF PhaseShown, Ends
      <4> QED
        BY <2>1, <2>2, <4>1, <4>3
    <3> QED
      BY <3>1, <3>2
  <2>4. SeatShown(w)'
    <3> SUFFICES ASSUME Live(w), Silent(msgs', OfSeat(w)), ~LastIn(msgs', OfSeat(w), SeatSo(w))
                 PROVE  n.joined = eng[w].joined
      BY <1>3, <1>4, <2>1 DEF SeatShown, Ends
    <3>1. CASE m \in OfSeat(w)
      <4>1. m \in SeatSo(w)
        BY <1>2, <3>1 DEF SeatShown, Ends
      <4>2. n.joined \in BOOLEAN /\ eng[w].joined \in BOOLEAN
        BY <2>2 DEF Entry, EngineWave
      <4>3. m.ev \in WaveEvent \ {"wave-idle"}
        BY <3>1 DEF OfSeat, Of
      <4>4. CASE m.ev \in {"joined", "unsubscribed"}
        BY <2>2, <4>1, <4>2, <4>4 DEF SeatSo
      <4>5. CASE m.ev \in {"wave-announce", "subscribed", "wave-active"}
        BY <2>2, <4>1, <4>5 DEF SeatSo
      <4> QED
        BY <4>3, <4>4, <4>5 DEF WaveEvent
    <3>2. CASE m \notin OfSeat(w)
      <4>1. m.ev = "wave-idle"
        BY <1>1, <3>2 DEF OfSeat, Of
      <4>2. m \notin SeatSo(w)
        BY <3>2 DEF SeatSo
      <4>3. Known(w) => dir[w].joined = eng[w].joined
        BY <1>2, <4>2 DEF SeatShown, Ends
      <4> QED
        BY <2>1, <2>2, <4>1, <4>3
    <3> QED
      BY <3>1, <3>2
  <2> QED
    BY <2>3, <2>4
<1> QED
  BY <1>5, <1>6

LEMMA HeardCores ==
  ASSUME NEW w, WaveCores(w), Listed(w), msgs \in Seq(Report), msgs # <<>>,
         msgs' = Tail(msgs), NEW m \in Of(WaveEvent, w), m = Head(msgs),
         UNCHANGED <<eng, dismissed>>, Alike(cmds', cmds, Cores(w)), astray \subseteq astray',
         w \notin astray' => (dir[w].sub => dir'[w].sub),
         dir[w] \in Entry, eng[w] \in EngineWave, Hears(m, w)
  PROVE  /\ WaveCores(w)'
         /\ m.ev = "wave-announce" /\ Known(w)' /\ m.mine => dir'[w].sub
<1>1. m \in Report /\ m.ev \in WaveEvent /\ m.wave = w
  BY DEF Of
<1>2. /\ \A A : Silent(msgs, A) <=> Silent(msgs', A) /\ m \notin A
      /\ \A A, M : LastIn(msgs, A, M) <=> LastIn(msgs', A, M) \/ (m \in M /\ Silent(msgs', A))
  BY TailIs
<1>3. SubSo(w)' = SubSo(w)
  BY DEF SubSo
<1>4. /\ Silent(cmds', Cores(w)) <=> Silent(cmds, Cores(w))
      /\ Silent(cmds', Asks(w)) <=> Silent(cmds, Asks(w))
      /\ LastIn(cmds', Cores(w), Gives(w)) <=> LastIn(cmds, Cores(w), Gives(w))
  <2>1. Gives(w) \subseteq Cores(w) /\ Asks(w) \subseteq Cores(w)
    BY DEF Asks, Gives, Cores, To
  <2> QED
    BY <2>1 DEF Alike
<1>5. eng[w].phase # "none"
  <2>1. ~Silent(msgs, Of(WaveEvent, w))
    BY <1>2
  <2> QED
    BY <2>1 DEF WaveCores, Fresh
<1>6. Fresh(w)' /\ Said(w)'
  <2>1. Silent(msgs', OfSub(w)) \/ LastIn(msgs', OfSub(w), SubSo(w))
    BY <1>2 DEF WaveCores, Said, Ends
  <2> QED
    BY <1>2, <1>3, <1>5, <2>1 DEF WaveCores, Fresh, Said, Ends
<1>7. Silent(msgs', OfSub(w)) /\ m \in OfSub(w) => m \in SubSo(w)
  <2>1. SubSo(w) \subseteq OfSub(w)
    BY DEF SubSo
  <2>2. Silent(msgs', OfSub(w)) => ~LastIn(msgs', OfSub(w), SubSo(w))
    BY <2>1 DEF Silent, LastIn
  <2> QED
    BY <1>2, <2>2 DEF WaveCores, Said, Ends
<1> DEFINE n == Patch(m, dir[w])
<1>8. /\ m.ev = "wave-announce" => n.phase = "lobby" /\ n.sub = m.sub
      /\ m.ev = "subscribed" => n.sub
      /\ m.ev = "unsubscribed" => ~n.sub
      /\ m.ev \in {"joined", "wave-active", "wave-idle"} => n.sub = dir[w].sub
  BY <1>1, PatchIs
<1> HIDE DEF n
<1>9. m.ev = "wave-announce" /\ m.mine => m.sub
  <2>1. m \notin Odd(w)
    BY <1>2 DEF WaveCores, Said
  <2> QED
    BY <1>1, <2>1 DEF Odd, Of
<1>10. m.ev = "wave-announce" /\ Known(w)' /\ m.mine => dir'[w].sub
  BY <1>8, <1>9 DEF Hears, Known, n
<1>11. ASSUME w \notin astray' PROVE Asked(w)' /\ Given(w)'
  <2>1. Asked(w) /\ Given(w) /\ (dir[w].sub => dir'[w].sub)
    BY <1>11 DEF WaveCores
  <2>2. CASE ~Known(w) /\ dir'[w] = dir[w] /\ (m.ev = "wave-announce" => w \in dismissed)
    <3>1. ~Known(w)'
      BY <2>2 DEF Known
    <3>2. w \notin dismissed => m \notin Told(w) /\ m \notin Untold(w)
      BY <2>2 DEF Told, Untold, Of
    <3> QED
      BY <1>2, <1>4, <2>1, <2>2, <3>1, <3>2 DEF Asked, Given, Ends
  <2>3. CASE dir'[w] = n /\ (Known(w) \/ m.ev = "wave-announce")
    <3>1. Asked(w)'
      <4> SUFFICES ASSUME n.sub, Silent(msgs', OfSub(w))
                   PROVE  eng[w].sub \/ eng[w].phase = "over" \/ ~Silent(cmds', Asks(w))
        BY <2>3 DEF Asked
      <4>1. CASE m \in OfSub(w)
        <5>1. m \in SubSo(w) /\ m.ev \in {"wave-announce", "subscribed", "unsubscribed"}
          BY <1>7, <4>1 DEF OfSub, Of
        <5> QED
          BY <1>8, <5>1 DEF SubSo
      <4>2. CASE m \notin OfSub(w)
        <5>1. m.ev \in {"joined", "wave-active", "wave-idle"}
          BY <1>1, <4>2 DEF OfSub, Of, WaveEvent
        <5>2. Known(w) /\ dir[w].sub /\ Silent(msgs, OfSub(w))
          BY <1>2, <1>8, <2>3, <4>2, <5>1
        <5> QED
          BY <1>4, <2>1, <5>2 DEF Asked
      <4> QED
        BY <4>1, <4>2
    <3>2. Given(w)'
      <4> SUFFICES ASSUME ~n.sub
                   PROVE  /\ Ends(cmds', Cores(w), Gives(w), TRUE)
                          /\ ~(Silent(cmds', Cores(w)) /\ eng[w].sub)
        BY <2>3 DEF Given
      <4>1. ~dir[w].sub
        BY <2>1, <2>3
      <4>2. Ends(cmds', Cores(w), Gives(w), TRUE)
        BY <1>4, <2>1, <4>1 DEF Given, Ends
      <4>3. ASSUME Silent(cmds', Cores(w)), eng[w].sub PROVE FALSE
        <5>1. ~Known(w) /\ Silent(msgs, Untold(w))
          BY <1>4, <2>1, <4>1, <4>3 DEF Given
        <5>2. m.ev = "wave-announce" /\ m \notin Untold(w)
          BY <1>2, <2>3, <5>1
        <5>3. m.sub
          BY <1>1, <5>2 DEF Untold, Of
        <5> QED
          BY <1>8, <5>2, <5>3
      <4> QED
        BY <4>2, <4>3
    <3> QED
      BY <3>1, <3>2
  <2> QED
    BY <2>2, <2>3 DEF Hears, n
<1> QED
  BY <1>6, <1>10, <1>11 DEF WaveCores

\* An event of a wave that was dismissed is forgotten.
LEMMA HandleDismissed ==
  ASSUME IInv, msgs # <<>>, msgs' = Tail(msgs), NEW w \in Wave, NEW m \in Of(WaveEvent, w),
         m = Head(msgs), w \in dismissed, UNCHANGED <<engVars, cmds, coreVars, auxVars>>
  PROVE  IInv'
<1>t. TypeOK
  BY DEF IInv
<1>1. /\ msgs \in Seq(Report) /\ msgs' \in Seq(Report)
      /\ \A v : m \notin Of(WaveEvent, v) => Alike(msgs', msgs, Of(WaveEvent, v))
  BY <1>t, NextIs
<1>2. UNCHANGED <<eng, astray, dir, feeds, dismissed, active>>
  BY DEF engVars, coreVars, auxVars
<1>3. TypeOK'
  BY <1>t, <1>1 DEF TypeOK, engVars, payVars, coreVars, auxVars
<1>4. Elsewhere(w)
  <2>1. \A v : v # w => m \notin Of(WaveEvent, v)
    BY DEF Of
  <2> QED
    BY <1>1, <1>2, <2>1, AlikeSame DEF Elsewhere
<1>5. Listed(w) /\ ~Known(w) /\ dir[w] \in Entry /\ eng[w] \in EngineWave
  BY <1>t DEF IInv, DirectoryInv, Listed, TypeOK
<1>6. Hears(m, w)
  BY <1>2, <1>5 DEF Hears
<1>7. PhaseShown(w)' /\ SeatShown(w)'
  <2>1. PhaseShown(w) /\ SeatShown(w)
    BY DEF IInv, ViewInv
  <2> QED
    BY <1>1, <1>2, <1>5, <1>6, <2>1, HeardView
<1>8. WaveCores(w)'
  <2>1. WaveCores(w)
    BY DEF IInv, CoresInv
  <2>2. Alike(cmds', cmds, Cores(w))
    BY AlikeSame
  <2> QED
    BY <1>1, <1>2, <1>5, <1>6, <2>1, <2>2, HeardCores
<1> QED
  BY <1>2, <1>3, <1>4, <1>7, <1>8, StepOf

\* An event of another wave is patched into the directory, and the wave it supersedes dropped.
LEMMA UpdatedIs ==
  ASSUME dir \in [Wave -> Entry], NEW w \in Wave, NEW m \in Of(WaveEvent, w)
  PROVE  LET d == Updated(m)
         IN  /\ d \in [Wave -> Entry] /\ \A v \in Wave : v # w => d[v] = dir[v]
             /\ d[w] = IF m.ev = "wave-announce" \/ Known(w) THEN Patch(m, dir[w]) ELSE dir[w]
<1>1. m \in Report /\ m.ev \in WaveEvent /\ m.wave = w
  BY DEF Of
<1> DEFINE n == Patch(m, dir[w])
<1>2. n \in Entry
  BY <1>1, PatchIs
<1>3. Updated(m) = IF m.ev = "wave-announce" \/ Known(w) THEN [dir EXCEPT ![w] = n] ELSE dir
  BY <1>1 DEF Updated
<1> HIDE DEF n
<1>4. LET d == Updated(m)
      IN  /\ d \in [Wave -> Entry] /\ \A v \in Wave : v # w => d[v] = dir[v]
          /\ d[w] = IF m.ev = "wave-announce" \/ Known(w) THEN n ELSE dir[w]
  BY <1>2, <1>3
<1> QED
  BY <1>4 DEF n

LEMMA HandleWave ==
  ASSUME IInv, msgs # <<>>, msgs' = Tail(msgs), NEW w \in Wave, NEW m \in Of(WaveEvent, w),
         m = Head(msgs), w \notin dismissed, NEW d, d = Updated(m), NEW P, P = Prior(m, d),
         cmds' = cmds \o Frees(P, d),
         dir' = [v \in Wave |-> IF v \in P THEN NoEntry ELSE d[v]],
         feeds' = feeds \ P, linger' \in SUBSET Wave,
         active' = IF m.ev = "wave-announce" /\ m.mine THEN w ELSE active,
         astray' = IF dir[w].sub /\ ~d[w].sub THEN astray \cup {w} ELSE astray,
         UNCHANGED <<engVars, fades, dismissed, net, lastTip, hurried>>
  PROVE  IInv'
<1>t. TypeOK
  BY DEF IInv
<1>1. m \in Report /\ m.ev \in WaveEvent /\ m.wave = w
  BY DEF Of
<1>2. /\ d \in [Wave -> Entry] /\ \A v \in Wave : v # w => d[v] = dir[v]
      /\ d[w] = IF m.ev = "wave-announce" \/ Known(w) THEN Patch(m, dir[w]) ELSE dir[w]
  BY <1>t, UpdatedIs DEF TypeOK
<1>3. /\ P \in SUBSET Wave /\ w \notin P /\ \A v \in P : dir[v].mine /\ v # w
      /\ m.ev = "wave-announce" /\ m.mine => \A v \in Wave : d[v].mine => v = w \/ v \in P
      /\ ~(m.ev = "wave-announce" /\ m.mine) => P = {}
  BY <1>1, <1>2 DEF Prior
<1>4. \A u, v \in P : u = v
  BY <1>3 DEF IInv, DirectoryInv
<1>5. \A v \in P : Known(v) /\ d[v] = dir[v]
  BY <1>2, <1>3 DEF IInv, DirectoryInv, Listed
<1>6. /\ cmds' \in Seq(Order)
      /\ \A v \in Wave : v \notin P \/ ~d[v].sub => Alike(cmds', cmds, Cores(v))
      /\ \A v \in P : d[v].sub => LastIn(cmds', Cores(v), Gives(v))
  BY <1>t, <1>3, <1>4, FreedIs DEF TypeOK
<1>7. /\ dir' \in [Wave -> Entry] /\ dir'[w] = d[w] /\ \A v \in P : dir'[v] = NoEntry
      /\ \A v \in Wave : v # w /\ v \notin P => dir'[v] = dir[v]
  BY <1>2, <1>3, NoWaveType
<1>8. /\ msgs \in Seq(Report) /\ msgs' \in Seq(Report)
      /\ \A v : v # w => Alike(msgs', msgs, Of(WaveEvent, v))
  <2>1. \A v : v # w => m \notin Of(WaveEvent, v)
    BY <1>1 DEF Of
  <2> QED
    BY <1>t, <2>1, NextIs
<1>9. /\ UNCHANGED <<eng, rare, paying, fate, wallet, making, fees>>
      /\ astray \subseteq astray'
  BY DEF engVars, payVars
<1>10. TypeOK'
  <2>1. active' \in Wave \cup {None} /\ feeds' \in SUBSET Wave /\ astray' \in SUBSET Wave
    BY <1>t DEF TypeOK
  <2> QED
    BY <1>t, <1>6, <1>7, <1>8, <1>9, <2>1 DEF TypeOK
<1>11. dir[w] \in Entry /\ eng[w] \in EngineWave
  BY <1>t DEF TypeOK
<1>12. Hears(m, w)
  BY <1>2, <1>7 DEF Hears
<1>13. \A v \in P : ~Known(v)' /\ ~dir'[v].sub /\ ~dir'[v].mine
  BY <1>7 DEF Known, NoEntry
<1> DEFINE n == Patch(m, dir[w])
<1>14. /\ m.ev = "wave-announce" => n.phase = "lobby" /\ n.mine = m.mine
       /\ m.ev # "wave-announce" => n.mine = dir[w].mine
       /\ n.by = (dir[w].by \/ m.ev = "wave-announce")
       /\ Known(w) => n.phase # "none"
  BY <1>1, <1>11, PatchIs DEF Known, WaveEvent
<1>15. DirectoryInv'
  <2>1. \A v \in Wave : v # w /\ v \notin P => Listed(v)'
    BY <1>7 DEF IInv, DirectoryInv, Listed, Known
  <2>2. \A v \in P : Listed(v)'
    BY <1>13 DEF Listed
  <2>3. Listed(w)'
    <3>1. CASE m.ev = "wave-announce" \/ Known(w)
      <4>1. dir'[w] = n
        BY <1>2, <1>7, <3>1
      <4> HIDE DEF n
      <4>2. n.phase # "none" /\ n.by
        BY <1>14, <3>1 DEF IInv, DirectoryInv, Listed
      <4> QED
        BY <4>1, <4>2 DEF Listed, Known
    <3>2. CASE ~(m.ev = "wave-announce" \/ Known(w))
      BY <1>2, <1>7, <3>2 DEF IInv, DirectoryInv, Listed, Known
    <3> QED
      BY <3>1, <3>2
  <2>4. feeds' \cap dismissed' = {}
    BY DEF IInv, DirectoryInv
  <2>5. active' # None => Known(active)'
    <3>1. CASE m.ev = "wave-announce" /\ m.mine
      <4>1. dir'[w] = n
        BY <1>2, <1>7, <3>1
      <4> HIDE DEF n
      <4> QED
        BY <1>14, <3>1, <4>1 DEF Known
    <3>2. CASE ~(m.ev = "wave-announce" /\ m.mine)
      <4>1. P = {} /\ active' = active
        BY <1>3, <3>2
      <4>2. ASSUME active # None PROVE dir'[active].phase # "none"
        <5>1. active \in Wave /\ Known(active)
          BY <1>t, <4>2 DEF TypeOK, IInv, DirectoryInv
        <5>2. CASE active = w
          <6>1. dir'[w] = n
            BY <1>2, <1>7, <5>1, <5>2
          <6> HIDE DEF n
          <6> QED
            BY <1>14, <5>1, <5>2, <6>1
        <5>3. CASE active # w
          BY <1>7, <4>1, <5>1, <5>3 DEF Known
        <5> QED
          BY <5>2, <5>3
      <4> QED
        BY <4>1, <4>2 DEF Known
    <3> QED
      BY <3>1, <3>2
  <2>6. \A u, v \in Wave : dir'[u].mine /\ dir'[v].mine => u = v
    <3>1. CASE m.ev = "wave-announce" /\ m.mine
      <4>1. \A v \in Wave : dir'[v].mine => v = w
        BY <1>2, <1>3, <1>7, <1>13, <3>1
      <4> QED
        BY <4>1
    <3>2. CASE ~(m.ev = "wave-announce" /\ m.mine)
      <4>1. dir'[w].mine => dir[w].mine
        <5>1. dir'[w] = n \/ dir'[w] = dir[w]
          BY <1>2, <1>7
        <5> HIDE DEF n
        <5> QED
          BY <1>14, <3>2, <5>1
      <4>2. \A v \in Wave : dir'[v].mine => dir[v].mine
        BY <1>3, <1>7, <3>2, <4>1
      <4> QED
        BY <4>2 DEF IInv, DirectoryInv
    <3> QED
      BY <3>1, <3>2
  <2> QED
    BY <2>1, <2>2, <2>3, <2>4, <2>5, <2>6 DEF DirectoryInv
<1>16. \A v \in Wave : PhaseShown(v) /\ SeatShown(v) /\ eng'[v] = eng[v]
  BY <1>9 DEF IInv, ViewInv
<1>17. PhaseShown(w)' /\ SeatShown(w)'
  BY <1>8, <1>9, <1>11, <1>12, <1>16, HeardView
<1>18. \A v \in P : PhaseShown(v)' /\ SeatShown(v)'
  BY <1>3, <1>8, <1>13, <1>16, DroppedView
<1>19. /\ WaveCores(w)' /\ \A v \in P : WaveCores(v)'
       /\ active' # None /\ active' \notin astray' => dir'[active'].sub
  <2>1. \A v \in Wave : WaveCores(v)
    BY DEF IInv, CoresInv
  <2>s. w \notin astray' => (dir[w].sub => dir'[w].sub)
    BY <1>7
  <2>2. /\ WaveCores(w)'
        /\ m.ev = "wave-announce" /\ Known(w)' /\ m.mine => dir'[w].sub
    <3>1. Listed(w) /\ WaveCores(w) /\ Alike(cmds', cmds, Cores(w))
      BY <1>3, <1>6, <2>1 DEF IInv, DirectoryInv
    <3> QED
      BY <1>8, <1>9, <1>11, <1>12, <2>s, <3>1, HeardCores
  <2>3. \A v \in P : WaveCores(v)'
    <3> TAKE v \in P
    <3>1. v \in Wave /\ v # w /\ d[v] = dir[v] /\ ~Known(v)' /\ ~dir'[v].sub
      BY <1>3, <1>5, <1>13
    <3>2. /\ WaveCores(v) /\ Listed(v) /\ eng'[v] = eng[v]
          /\ Alike(msgs', msgs, Of(WaveEvent, v))
      BY <1>8, <1>16, <2>1, <3>1 DEF IInv, DirectoryInv
    <3>3. /\ dir[v].sub => LastIn(cmds', Cores(v), Gives(v))
          /\ ~dir[v].sub => Alike(cmds', cmds, Cores(v))
      BY <1>6, <3>1
    <3> QED
      BY <1>9, <3>1, <3>2, <3>3, DroppedCores
  <2>4. active' # None /\ active' \notin astray' => dir'[active'].sub
    <3>1. CASE m.ev = "wave-announce" /\ m.mine
      BY <1>15, <2>2, <3>1 DEF DirectoryInv
    <3>2. CASE ~(m.ev = "wave-announce" /\ m.mine)
      <4>1. P = {} /\ active' = active
        BY <1>3, <3>2
      <4>2. active # None /\ active \notin astray' => active \in Wave /\ dir[active].sub
        BY <1>t, <1>9 DEF TypeOK, IInv, CoresInv
      <4> QED
        BY <1>7, <2>s, <4>1, <4>2
    <3> QED
      BY <3>1, <3>2
  <2> QED
    BY <2>2, <2>3, <2>4
<1> DEFINE W == P \cup {w}
<1>20. \A v \in Wave \cap W : PhaseShown(v)' /\ SeatShown(v)' /\ WaveCores(v)'
  BY <1>17, <1>18, <1>19
<1>21. \A v \in Wave \ W : /\ EntrySame(v) /\ (v \in dismissed' <=> v \in dismissed)
                           /\ Alike(msgs', msgs, Of(WaveEvent, v))
                           /\ Alike(cmds', cmds, Cores(v))
  BY <1>6, <1>7, <1>8 DEF EntrySame
<1> HIDE DEF W
<1> QED
  BY <1>9, <1>10, <1>15, <1>19, <1>20, <1>21, StepOfView

LEMMA HandleKeeps == IInv /\ Handle => IInv'
<1> SUFFICES ASSUME IInv, Handle PROVE IInv'
  OBVIOUS
<1>c. PICK m, w : m = Head(msgs) /\ w = m.wave
  OBVIOUS
<1>t. TypeOK
  BY DEF IInv
<1>1. msgs # <<>> /\ msgs' = Tail(msgs) /\ UNCHANGED engVars
  BY DEF Handle
<1>2. /\ m \in Report /\ msgs \in Seq(Report) /\ msgs' \in Seq(Report)
      /\ \A v : m \notin Of(WaveEvent, v) => Alike(msgs', msgs, Of(WaveEvent, v))
  BY <1>t, <1>c, <1>1, NextIs
<1>3. UNCHANGED <<eng, rare, paying, fate, wallet, making, fees>>
  BY <1>1 DEF engVars, payVars
<1>4. feeds \cap dismissed = {}
  BY DEF IInv, DirectoryInv
<1>5. CASE m.ev = "dm"
  <2> DEFINE c == Plain("redeem", w)
  <2>1. HandleDm(m)
    BY <1>c, <1>5 DEF Handle
  <2>2. cmds' = cmds \o <<c>> /\ UNCHANGED <<coreVars, auxVars>>
    BY <1>c, <2>1 DEF HandleDm, Send
  <2>3. w \in Token /\ m.ev \notin WaveEvent
    BY <1>c, <1>2, <1>5 DEF Report, Frame, WaveEvent
  <2>4. c \in Order /\ c.ev = "redeem"
    BY <2>3, PlainIs
  <2> HIDE DEF c
  <2>5. cmds' \in Seq(Order) /\ \A v \in Wave : Alike(cmds', cmds, Cores(v))
    BY <1>t, <2>2, <2>4, OtherCommand
  <2>6. TypeOK'
    BY <1>t, <1>2, <1>3, <2>2, <2>5 DEF TypeOK, coreVars, auxVars
  <2>7. /\ UNCHANGED <<astray, dir, dismissed>> /\ feeds' \cap dismissed = {}
        /\ active' \in {active, None}
    BY <1>4, <2>2 DEF coreVars, auxVars
  <2> QED
    BY <1>c, <1>1, <1>3, <2>3, <2>5, <2>6, <2>7, HandleOther
<1>6. CASE m.ev = "feed"
  <2>1. HandleFeed(m)
    BY <1>c, <1>6 DEF Handle
  <2>2. /\ feeds' = IF w \in dismissed THEN feeds ELSE feeds \cup {w}
        /\ UNCHANGED <<cmds, dir, linger, fades, dismissed, active, net, lastTip, astray, hurried>>
    BY <1>c, <2>1 DEF HandleFeed, auxVars
  <2>3. w \in Wave /\ m.ev \notin WaveEvent
    BY <1>c, <1>2, <1>6 DEF Report, Frame, WaveEvent
  <2>4. TypeOK'
    BY <1>t, <1>2, <1>3, <2>2, <2>3 DEF TypeOK
  <2>5. feeds' \cap dismissed = {} /\ active' \in {active, None}
    BY <1>4, <2>2
  <2>6. \A v \in Wave : Alike(cmds', cmds, Cores(v))
    BY <2>2, AlikeSame
  <2> QED
    BY <1>c, <1>1, <1>3, <2>2, <2>3, <2>4, <2>5, <2>6, HandleOther
<1>7. CASE m.ev = "wallet"
  <2>1. HandleWallet(m)
    BY <1>c, <1>7 DEF Handle
  <2>2. /\ net' = w /\ active' \in {active, None}
        /\ UNCHANGED <<cmds, dir, feeds, linger, fades, dismissed, lastTip, astray, hurried>>
    BY <1>c, <2>1 DEF HandleWallet, auxVars
  <2>3. w \in Network /\ m.ev \notin WaveEvent
    BY <1>c, <1>2, <1>7 DEF Report, Frame, WaveEvent
  <2>4. TypeOK'
    BY <1>t, <1>2, <1>3, <2>2, <2>3 DEF TypeOK
  <2>5. feeds' \cap dismissed = {}
    BY <1>4, <2>2
  <2>6. \A v \in Wave : Alike(cmds', cmds, Cores(v))
    BY <2>2, AlikeSame
  <2> QED
    BY <1>c, <1>1, <1>3, <2>2, <2>3, <2>4, <2>5, <2>6, HandleOther
<1>8. CASE m.ev \in {"tip-result", "tip-failed"}
  <2>1. HandleTip(m)
    BY <1>c, <1>8 DEF Handle
  <2>2. /\ lastTip' = None /\ hurried' = hurried \ {w}
        /\ cmds' = cmds \o (IF m.ev = "tip-result" /\ lastTip # None
                            THEN <<Delivery(w, lastTip)>> ELSE <<>>)
        /\ UNCHANGED <<dir, feeds, linger, fades, dismissed, active, net, astray>>
    BY <1>c, <2>1 DEF HandleTip, Send
  <2>3. w \in Tip /\ m.ev \notin WaveEvent
    BY <1>c, <1>2, <1>8 DEF Report, Frame, WaveEvent
  <2>4. cmds' \in Seq(Order) /\ \A v \in Wave : Alike(cmds', cmds, Cores(v))
    <3>1. CASE m.ev = "tip-result" /\ lastTip # None
      <4> DEFINE c == Delivery(w, lastTip)
      <4>1. c \in Order /\ c.ev = "dm"
        <5>1. <<w, lastTip>> \in Tip \X Tip
          BY <1>t, <2>3, <3>1 DEF TypeOK
        <5> QED
          BY <5>1, PlainIs DEF Delivery
      <4>2. cmds' = cmds \o <<c>>
        BY <2>2, <3>1
      <4> HIDE DEF c
      <4> QED
        BY <1>t, <4>1, <4>2, OtherCommand
    <3>2. CASE ~(m.ev = "tip-result" /\ lastTip # None)
      <4>1. cmds' = cmds
        BY <1>t, <2>2, <3>2 DEF TypeOK
      <4> QED
        BY <1>t, <4>1, AlikeSame DEF TypeOK
    <3> QED
      BY <3>1, <3>2
  <2>5. TypeOK'
    BY <1>t, <1>2, <1>3, <2>2, <2>4 DEF TypeOK
  <2>6. feeds' \cap dismissed = {} /\ active' \in {active, None}
    BY <1>4, <2>2
  <2> QED
    BY <1>c, <1>1, <1>3, <2>2, <2>3, <2>4, <2>5, <2>6, HandleOther
<1>9. CASE m.ev \in WaveEvent
  <2>1. HandleEvent(m)
    BY <1>c, <1>9 DEF Handle, WaveEvent
  <2>2. w \in Wave /\ m \in Of(WaveEvent, w)
    BY <1>c, <1>2, <1>9 DEF Of, Report, Frame, WaveEvent
  <2>3. CASE w \in dismissed
    <3>1. UNCHANGED <<cmds, coreVars, auxVars>>
      BY <1>c, <2>1, <2>3 DEF HandleEvent
    <3> QED
      BY <1>c, <1>1, <2>2, <2>3, <3>1, HandleDismissed
  <2>4. CASE w \notin dismissed
    <3>1. PICK d : d = Updated(m)
      OBVIOUS
    <3>2. PICK P : P = Prior(m, d)
      OBVIOUS
    <3>3. /\ cmds' = cmds \o Frees(P, d)
          /\ dir' = [v \in Wave |-> IF v \in P THEN NoEntry ELSE d[v]]
          /\ feeds' = feeds \ P
          /\ linger' = (linger \cup (IF m.ev = "wave-idle" /\ Known(w) THEN {w} ELSE {})) \ P
          /\ active' = IF m.ev = "wave-announce" /\ m.mine THEN w ELSE active
          /\ astray' = IF dir[w].sub /\ ~d[w].sub THEN astray \cup {w} ELSE astray
          /\ UNCHANGED <<fades, dismissed, net, lastTip, hurried>>
      BY <1>c, <2>1, <2>4, <3>1, <3>2 DEF HandleEvent, Send
    <3>4. linger' \in SUBSET Wave
      BY <1>t, <2>2, <3>3 DEF TypeOK
    <3> QED
      BY <1>c, <1>1, <2>2, <2>4, <3>1, <3>2, <3>3, <3>4, HandleWave
  <2> QED
    BY <2>3, <2>4
<1>10. m.ev \in WaveEvent \cup {"feed", "dm", "tip-result", "tip-failed", "wallet"}
  BY <1>2 DEF Report, Frame
<1> QED
  BY <1>5, <1>6, <1>7, <1>8, <1>9, <1>10

-----------------------------------------------------------------------------
\* The theorems.

LEMMA InitIInv == Init => IInv
<1> SUFFICES ASSUME Init PROVE IInv
  OBVIOUS
<1>1. TypeOK
  <2>1. net \in Network
    BY AppCoreAssumption DEF Init
  <2>2. msgs \in Seq(Report) /\ cmds \in Seq(Order)
    BY DEF Init
  <2>3. /\ wallet \in BOOLEAN /\ making \in Network \cup {None}
        /\ rare \in SUBSET (Lapsing \cup Kind)
    BY <2>1 DEF Init, Kind
  <2> QED
    BY <2>1, <2>2, <2>3, NoWaveType DEF Init, TypeOK, Fate
<1>2. \A w \in Wave : /\ eng[w] = NoWave /\ dir[w] = NoEntry /\ ~Known(w) /\ ~eng[w].sub
                      /\ ~eng[w].joined /\ ~eng[w].mine /\ ~eng[w].held /\ w \notin dismissed
  BY DEF Init, Known, NoWave, NoEntry
<1>3. \A A : Silent(msgs, A) /\ Silent(cmds, A)
  BY NothingSaid DEF Init
<1>4. DirectoryInv
  BY <1>2 DEF Init, DirectoryInv, Listed, NoEntry
<1>5. ViewInv
  BY <1>2, <1>3 DEF ViewInv, PhaseShown, SeatShown, Ends
<1>6. CoresInv
  BY <1>2, <1>3 DEF Init, CoresInv, WaveCores, Fresh, Said, Asked, Given, Ends
<1> QED
  BY <1>1, <1>4, <1>5, <1>6 DEF IInv

LEMMA NextIInv == IInv /\ [Next]_vars => IInv'
<1> SUFFICES ASSUME IInv, [Next]_vars PROVE IInv'
  OBVIOUS
<1>1. CASE Engine
  BY <1>1, AnnouncedKeeps, RacesKeeps, GoIdleKeeps, FeedKeeps, DmKeeps, TipPaidKeeps,
     WalletKeeps, ExecKeeps, FundsKeeps DEF Engine
<1>2. CASE User
  BY <1>2, SelectKeeps, DismissKeeps, StartKeeps, JoinKeeps, TipKeeps, MintKeeps DEF User
<1>3. CASE Handle
  BY <1>3, HandleKeeps
<1>4. CASE \E w \in Wave : LingerEnds(w) \/ FadeEnds(w)
  BY <1>4, LingerKeeps, FadeKeeps
<1>5. CASE UNCHANGED vars
  <2>1. UNCHANGED <<eng, dir, feeds, dismissed, active, msgs, cmds, astray>>
    BY <1>5 DEF vars, engVars, coreVars, auxVars
  <2>2. TypeOK'
    BY <1>5 DEF IInv, TypeOK, vars, engVars, payVars, coreVars, auxVars
  <2> QED
    BY <2>1, <2>2, AlikeSame, StepOfNone
<1> QED
  BY <1>1, <1>2, <1>3, <1>4, <1>5 DEF Next

\* The invariant holds in every reachable state.
THEOREM Invariance == Spec => []IInv
<1>1. Init => IInv
  BY InitIInv
<1>2. IInv /\ [Next]_vars => IInv'
  BY NextIInv
<1> QED
  BY <1>1, <1>2, PTL DEF Spec

\* Type correctness: whatever crosses on the seam, every message, command and view of the
\* view model is one of those the code declares.
THEOREM TypeCorrect == Spec => []TypeOK
<1>1. IInv => TypeOK
  BY DEF IInv
<1> QED
  BY <1>1, Invariance, PTL

LEMMA InvariantAgrees == IInv => DirectoryAgrees
<1> SUFFICES ASSUME IInv PROVE DirectoryAgrees
  OBVIOUS
<1>1. DirectoryKnown
  <2>1. \A w \in Wave : Known(w) => dir[w].by /\ w \notin dismissed
    BY DEF IInv, DirectoryInv, Listed
  <2>2. Cardinality({w \in Wave : dir[w].mine}) <= 1
    <3> DEFINE M == {w \in Wave : dir[w].mine}
    <3>1. \A v, w \in M : v = w
      BY DEF IInv, DirectoryInv
    <3>2. CASE M = {}
      <4> HIDE DEF M
      <4>1. Cardinality(M) = 0
        BY <3>2, FS_EmptySet
      <4> QED
        BY <4>1 DEF M
    <3>3. CASE M # {}
      <4>1. PICK v \in M : TRUE
        BY <3>3
      <4>2. M = {v}
        BY <3>1, <4>1
      <4> HIDE DEF M
      <4>3. Cardinality(M) = 1
        BY <4>2, FS_Singleton
      <4> QED
        BY <4>3 DEF M
    <3> QED
      BY <3>2, <3>3
  <2> QED
    BY <2>1, <2>2 DEF DirectoryKnown, IInv, DirectoryInv
<1>2. ASSUME NEW w \in Wave, Settled(w)
      PROVE  /\ Silent(msgs, OfPhase(w)) /\ ~LastIn(msgs, OfPhase(w), PhaseSo(w))
             /\ Silent(msgs, OfSeat(w)) /\ ~LastIn(msgs, OfSeat(w), SeatSo(w))
             /\ Silent(msgs, OfSub(w)) /\ Silent(msgs, Told(w))
             /\ Silent(cmds, Asks(w)) /\ Silent(cmds, Cores(w))
  BY <1>2 DEF Settled, Silent, LastIn, Of, To, OfPhase, OfSeat, PhaseSo, SeatSo, OfSub, Told,
              Asks, Cores
<1>3. ShownAsItIs
  <2> SUFFICES ASSUME NEW w \in Wave, Known(w), Settled(w)
               PROVE  IF dir[w].phase = "ended" THEN ~Live(w)
                      ELSE eng[w].phase = dir[w].phase /\ eng[w].joined = dir[w].joined
    BY DEF ShownAsItIs
  <2>1. IF dir[w].phase = "ended" THEN ~Live(w) ELSE dir[w].phase = eng[w].phase
    BY <1>2 DEF IInv, ViewInv, PhaseShown, Ends
  <2>2. Live(w) => dir[w].joined = eng[w].joined
    BY <1>2 DEF IInv, ViewInv, SeatShown, Ends
  <2>3. dir[w].phase # "ended" => Live(w)
    <3>1. dir[w].phase \in {"none", "lobby", "racing", "ended"}
      BY DEF IInv, TypeOK, Entry
    <3> QED
      BY <2>1, <3>1 DEF Known, Live
  <2> QED
    BY <2>1, <2>2, <2>3
<1>4. CoresFreed
  <2> SUFFICES ASSUME NEW w \in Wave, w \notin astray, Settled(w)
               PROVE  (eng[w].sub => dir[w].sub) /\ (Live(w) /\ dir[w].sub => eng[w].sub)
    BY DEF CoresFreed
  <2>1. Asked(w) /\ Given(w) /\ Listed(w)
    BY DEF IInv, CoresInv, WaveCores, DirectoryInv
  <2>2. eng[w].sub => dir[w].sub
    BY <1>2, <2>1 DEF Given
  <2>3. Live(w) /\ dir[w].sub => eng[w].sub
    BY <1>2, <2>1 DEF Asked, Listed, Live
  <2> QED
    BY <2>2, <2>3
<1> QED
  BY <1>1, <1>3, <1>4 DEF DirectoryAgrees

\* The directory is sound, whatever the engine, the user, the wallet and the timers do in
\* whatever order and whatever crosses on the seam: what it shows was announced and not pushed
\* away, and once the queues have nothing about a wave, the view model shows its phase and my
\* seat as they are, and, unless one of the gaps that CoresFreed names opened on that wave, the
\* engine holds its cores only if it is shown as subscribed, and does if it is live and shown so.
THEOREM DirectoryIsSound == Spec => []DirectoryAgrees
<1>1. IInv => DirectoryAgrees
  BY InvariantAgrees
<1> QED
  BY <1>1, Invariance, PTL

-----------------------------------------------------------------------------
\* The tips in flight.  A tip is at one place at a time: with a command, at the wallet, or
\* with its result; and the tip remembered is the only one, unless several were hurried.

Result == {"tip-result", "tip-failed"}

Tells(s, evs, t) == \E i \in DOMAIN s : s[i].ev \in evs /\ s[i].wave = t
Once(s, evs) ==
  \A i, j \in DOMAIN s :
    s[i].ev \in evs /\ s[j].ev \in evs /\ s[i].wave = s[j].wave => i = j

Afoot(t) == t \in paying \/ Tells(msgs, Result, t) \/ Tells(cmds, {"tip"}, t)

TipInv ==
  /\ Once(msgs, Result) /\ Once(cmds, {"tip"})
  /\ \A t \in Tip :
       /\ t \in paying => ~Tells(msgs, Result, t) /\ ~Tells(cmds, {"tip"}, t)
       /\ Tells(msgs, Result, t) => ~Tells(cmds, {"tip"}, t)
       /\ Afoot(t) /\ t \notin hurried => lastTip = t /\ \A u \in Tip : Afoot(u) => u = t

\* A queue t tells what s tells of evs.
Same(t, s, evs) ==
  /\ \A u : Tells(t, evs, u) <=> Tells(s, evs, u)
  /\ Once(s, evs) => Once(t, evs)

Mute(e, evs) == \A i \in DOMAIN e : e[i].ev \notin evs

\* Not the head of the messages is taken.
Kept == msgs # <<>> => msgs' # Tail(msgs)

LEMMA ConcatSame ==
  ASSUME NEW S, NEW s \in Seq(S), NEW e \in Seq(S), NEW evs, Mute(e, evs)
  PROVE  Same(s \o e, s, evs) /\ (s # <<>> => s \o e # Tail(s))
<1> DEFINE t == s \o e
<1>1. /\ \A i \in DOMAIN s : i \in DOMAIN t /\ t[i] = s[i]
      /\ \A i \in DOMAIN t : i \in DOMAIN s \/ \E j \in DOMAIN e : t[i] = e[j]
  <2>1. /\ Len(s) \in Nat /\ Len(e) \in Nat /\ DOMAIN s = 1 .. Len(s) /\ DOMAIN e = 1 .. Len(e)
        /\ DOMAIN t = 1 .. (Len(s) + Len(e))
        /\ \A i \in 1 .. (Len(s) + Len(e)) : t[i] = IF i <= Len(s) THEN s[i] ELSE e[i - Len(s)]
    OBVIOUS
  <2> HIDE DEF t
  <2>2. ASSUME NEW i \in DOMAIN t, i \notin DOMAIN s PROVE \E j \in DOMAIN e : t[i] = e[j]
    <3>1. i - Len(s) \in DOMAIN e /\ t[i] = e[i - Len(s)]
      BY <2>1, <2>2
    <3> QED
      BY <3>1
  <2> QED
    BY <2>1, <2>2
<1>2. s # <<>> => t # Tail(s)
  <2>1. Len(t) = Len(s) + Len(e) /\ (s # <<>> => Len(Tail(s)) = Len(s) - 1)
    OBVIOUS
  <2>2. Len(s) \in Nat /\ Len(e) \in Nat
    OBVIOUS
  <2> HIDE DEF t
  <2> QED
    BY <2>1, <2>2
<1> HIDE DEF t
<1>3. \A i \in DOMAIN t : t[i].ev \in evs => i \in DOMAIN s /\ t[i] = s[i]
  BY <1>1 DEF Mute
<1>4. \A u : Tells(t, evs, u) <=> Tells(s, evs, u)
  BY <1>1, <1>3 DEF Tells
<1>5. Once(s, evs) => Once(t, evs)
  BY <1>1, <1>3 DEF Once
<1> QED
  BY <1>2, <1>4, <1>5 DEF Same, t

LEMMA TailSame ==
  ASSUME NEW S, NEW s \in Seq(S), s # <<>>, NEW evs, Once(s, evs), NEW t, t = Tail(s)
  PROVE  /\ Once(t, evs)
         /\ Head(s).ev \notin evs => Same(t, s, evs)
         /\ Head(s).ev \in evs =>
              /\ Tells(s, evs, Head(s).wave)
              /\ \A u : Tells(t, evs, u) <=> Tells(s, evs, u) /\ u # Head(s).wave
<1> DEFINE x == Head(s)
<1>1. /\ 1 \in DOMAIN s /\ s[1] = x
      /\ \A i \in DOMAIN t : i \in Nat /\ i >= 1 /\ i + 1 \in DOMAIN s /\ t[i] = s[i + 1]
      /\ \A j \in DOMAIN s : j = 1 \/ (j \in Nat /\ j > 1 /\ j - 1 \in DOMAIN t /\ s[j] = t[j - 1])
  OBVIOUS
<1> HIDE DEF x
<1>2. Once(t, evs)
  <2> SUFFICES ASSUME NEW i \in DOMAIN t, NEW j \in DOMAIN t, t[i].ev \in evs, t[j].ev \in evs,
                      t[i].wave = t[j].wave
               PROVE  i = j
    BY DEF Once
  <2>1. i + 1 = j + 1
    BY <1>1 DEF Once
  <2> QED
    BY <1>1, <2>1
<1>3. ASSUME NEW u, Tells(t, evs, u) PROVE Tells(s, evs, u)
  BY <1>1, <1>3 DEF Tells
<1>4. ASSUME NEW u, Tells(s, evs, u), x.ev \notin evs \/ u # x.wave PROVE Tells(t, evs, u)
  BY <1>1, <1>4 DEF Tells
<1>5. ASSUME NEW u, Tells(t, evs, u), x.ev \in evs PROVE u # x.wave
  <2>1. PICK i \in DOMAIN t : t[i].ev \in evs /\ t[i].wave = u
    BY <1>5 DEF Tells
  <2>2. i + 1 # 1 /\ i + 1 \in DOMAIN s /\ s[i + 1] = t[i]
    BY <1>1
  <2> QED
    BY <1>1, <1>5, <2>1, <2>2 DEF Once
<1>6. x.ev \in evs => Tells(s, evs, x.wave)
  BY <1>1 DEF Tells
<1> QED
  BY <1>2, <1>3, <1>4, <1>5, <1>6 DEF Same, x

\* A word about the tip of x, which nothing told of, is added.
LEMMA AddedSame ==
  ASSUME NEW S, NEW s \in Seq(S), NEW x \in S, NEW evs, x.ev \in evs, Once(s, evs),
         ~Tells(s, evs, x.wave), NEW t, t = s \o <<x>>
  PROVE  /\ Once(t, evs)
         /\ \A u : Tells(t, evs, u) <=> Tells(s, evs, u) \/ u = x.wave
<1>1. /\ Len(s) + 1 \in DOMAIN t /\ t[Len(s) + 1] = x
      /\ \A i \in DOMAIN s : i \in DOMAIN t /\ t[i] = s[i]
      /\ \A i \in DOMAIN t : i \in DOMAIN s \/ i = Len(s) + 1
  OBVIOUS
<1>2. Once(t, evs)
  BY <1>1 DEF Once, Tells
<1>3. \A u : Tells(t, evs, u) <=> Tells(s, evs, u) \/ u = x.wave
  BY <1>1 DEF Tells
<1> QED
  BY <1>2, <1>3

LEMMA TipsSame ==
  ASSUME TipInv, UNCHANGED <<paying, hurried, lastTip>>,
         Same(msgs', msgs, Result), Same(cmds', cmds, {"tip"})
  PROVE  TipInv'
<1>1. \A t : Afoot(t)' <=> Afoot(t)
  BY DEF Afoot, Same
<1> QED
  BY <1>1 DEF TipInv, Same

LEMMA MuteAdd ==
  ASSUME NEW S, NEW s \in Seq(S), NEW x \in S, NEW evs, Mute(s, evs), x.ev \notin evs
  PROVE  s \o <<x>> \in Seq(S) /\ Mute(s \o <<x>>, evs)
<1> DEFINE t == s \o <<x>>
<1>1. /\ t \in Seq(S) /\ t[Len(s) + 1] = x
      /\ \A i \in DOMAIN s : t[i] = s[i]
      /\ \A i \in DOMAIN t : i \in DOMAIN s \/ i = Len(s) + 1
  OBVIOUS
<1> HIDE DEF t
<1>2. Mute(t, evs)
  BY <1>1 DEF Mute
<1> QED
  BY <1>1, <1>2 DEF t

\* What the engine says of a wave is of no tip.
LEMMA SpeechIs ==
  ASSUME TypeOK, TypeOK', NEW w \in Wave, NEW ev \in WaveEvent,
         NEW e, e \in {<<>>, Echo(w)}
  PROVE  /\ Echo(w) \in Seq(Report) /\ Mute(Echo(w), Result)
         /\ e \o <<Msg(ev, w)>> \in Seq(Report) /\ Mute(e \o <<Msg(ev, w)>>, Result)
<1>1. Msg(ev, w) \in Report /\ Msg(ev, w).ev \notin Result
  BY MsgIs DEF TypeOK, WaveEvent, Result
<1>2. <<>> \in Seq(Report) /\ Mute(<<>>, Result)
  BY DEF Mute
<1>3. Echo(w) \in Seq(Report) /\ Mute(Echo(w), Result)
  <2>1. CASE Echo(w) = <<>>
    BY <1>2, <2>1
  <2>2. ASSUME NEW r \in Of({"subscribed"}, w), Echo(w) = <<r>>
        PROVE  Echo(w) \in Seq(Report) /\ Mute(Echo(w), Result)
    <3>1. r \in Report /\ r.ev \notin Result
      BY <2>2 DEF Of, Result
    <3> QED
      BY <2>2, <3>1 DEF Mute
  <2> QED
    BY <2>1, <2>2, EchoIs DEF TypeOK
<1> QED
  BY <1>1, <1>2, <1>3, MuteAdd

LEMMA SaysIs ==
  ASSUME TypeOK, NEW e \in Seq(Report), Mute(e, Result), msgs' = msgs \o e
  PROVE  Same(msgs', msgs, Result) /\ Kept
BY ConcatSame DEF TypeOK, Kept

LEMMA SilentIs ==
  ASSUME TypeOK, msgs' = msgs
  PROVE  Same(msgs', msgs, Result) /\ Kept
<1>1. msgs \in Seq(Report)
  BY DEF TypeOK
<1>2. msgs # <<>> => msgs # Tail(msgs)
  <2>1. msgs # <<>> => Len(Tail(msgs)) = Len(msgs) - 1 /\ Len(msgs) \in Nat
    BY <1>1
  <2> QED
    BY <2>1
<1> QED
  BY <1>2 DEF Same, Kept

\* Commands about a wave's cores are about no tip.
LEMMA OrdersSame ==
  ASSUME TypeOK, NEW c \in Order, c.ev # "tip", cmds' = cmds \o <<c>>
  PROVE  Same(cmds', cmds, {"tip"})
<1>1. <<c>> \in Seq(Order) /\ Mute(<<c>>, {"tip"})
  BY DEF Mute
<1> QED
  BY <1>1, ConcatSame DEF TypeOK

LEMMA FreesSame ==
  ASSUME TypeOK, NEW P \in SUBSET Wave, NEW d, \A v, w \in P : v = w,
         cmds' = cmds \o Frees(P, d)
  PROVE  Same(cmds', cmds, {"tip"})
<1>1. CASE Frees(P, d) = <<>>
  <2>1. cmds' = cmds
    BY <1>1 DEF TypeOK
  <2> QED
    BY <2>1 DEF Same
<1>2. ASSUME NEW v \in P, Frees(P, d) = <<Plain("unsubscribe-wave", v)>>
      PROVE  Same(cmds', cmds, {"tip"})
  <2>1. /\ Plain("unsubscribe-wave", v) \in Order
        /\ Plain("unsubscribe-wave", v).ev # "tip"
    BY PlainIs DEF WaveCommand
  <2> QED
    BY <1>2, <2>1, OrdersSame
<1> QED
  BY <1>1, <1>2, FreesIs

\* The engine says something of no tip.
LEMMA SaysTips ==
  ASSUME TypeOK, TipInv, NEW e \in Seq(Report), Mute(e, Result), msgs' = msgs \o e,
         UNCHANGED <<paying, hurried, lastTip, cmds>>
  PROVE  TipInv' /\ Kept
<1>1. Same(cmds', cmds, {"tip"})
  BY DEF Same
<1> QED
  BY <1>1, SaysIs, TipsSame

LEMMA PlainSays ==
  ASSUME TypeOK, TipInv, NEW r \in Report, r.ev \notin Result, msgs' = msgs \o <<r>>,
         UNCHANGED <<paying, hurried, lastTip, cmds>>
  PROVE  TipInv' /\ Kept
<1>1. <<r>> \in Seq(Report) /\ Mute(<<r>>, Result)
  BY DEF Mute
<1> QED
  BY <1>1, SaysTips

\* The user asks for something that is no tip, or a timer fires.
LEMMA AsksTips ==
  ASSUME TypeOK, TipInv, Same(cmds', cmds, {"tip"}),
         UNCHANGED <<paying, hurried, lastTip, msgs>>
  PROVE  TipInv' /\ Kept
BY SilentIs, TipsSame

LEMMA WaveTips ==
  \A w \in Wave : IInv /\ IInv' /\ TipInv /\ (Announced(w) \/ Races(w) \/ GoIdle(w) \/ FeedShown(w))
    => TipInv' /\ Kept
<1> SUFFICES ASSUME NEW w \in Wave, IInv, IInv', TipInv,
                    Announced(w) \/ Races(w) \/ GoIdle(w) \/ FeedShown(w)
             PROVE  TipInv' /\ Kept
  OBVIOUS
<1>t. TypeOK /\ TypeOK'
  BY DEF IInv
<1>1. UNCHANGED <<paying, hurried, lastTip, cmds>>
  BY DEF Announced, Races, GoIdle, FeedShown, engVars, payVars, coreVars, auxVars
<1>2. ASSUME NEW ev \in WaveEvent, NEW e \in {<<>>, Echo(w)}, msgs' = msgs \o (e \o <<Msg(ev, w)>>)
      PROVE  TipInv' /\ Kept
  <2>1. e \o <<Msg(ev, w)>> \in Seq(Report) /\ Mute(e \o <<Msg(ev, w)>>, Result)
    BY <1>t, SpeechIs
  <2> QED
    BY <1>t, <1>1, <1>2, <2>1, SaysTips
<1>3. /\ "wave-announce" \in WaveEvent /\ "wave-active" \in WaveEvent /\ "wave-idle" \in WaveEvent
  BY DEF WaveEvent
<1> DEFINE g == IF eng[w].joined THEN Echo(w) ELSE <<>>
<1>4. g \in {<<>>, Echo(w)}
  OBVIOUS
<1>5. CASE Announced(w)
  <2>1. msgs' = msgs \o (g \o <<Msg("wave-announce", w)>>)
    BY <1>5 DEF Announced, Emit
  <2> QED
    BY <1>2, <1>3, <1>4, <2>1
<1>6. CASE Races(w)
  <2>1. msgs' = msgs \o (g \o <<Msg("wave-active", w)>>)
    BY <1>6 DEF Races, Emit
  <2> QED
    BY <1>2, <1>3, <1>4, <2>1
<1>7. CASE GoIdle(w)
  <2>1. Msg("wave-idle", w) \in Report /\ Msg("wave-idle", w).ev = "wave-idle"
    BY <1>t, <1>3, MsgIs DEF TypeOK
  <2>2. msgs' = msgs \o <<Msg("wave-idle", w)>>
    BY <1>7 DEF GoIdle, Emit
  <2> QED
    BY <1>t, <1>1, <2>1, <2>2, PlainSays DEF Result
<1>8. CASE FeedShown(w)
  <2>1. Plain("feed", w) \in Report /\ Plain("feed", w).ev = "feed"
    BY PlainIs
  <2>2. msgs' = msgs \o <<Plain("feed", w)>>
    BY <1>8 DEF FeedShown, Emit
  <2> QED
    BY <1>t, <1>1, <2>1, <2>2, PlainSays DEF Result
<1> QED
  BY <1>5, <1>6, <1>7, <1>8

LEMMA DmTips == \A k \in Token : IInv /\ TipInv /\ DmArrives(k) => TipInv' /\ Kept
<1> SUFFICES ASSUME NEW k \in Token, IInv, TipInv, DmArrives(k) PROVE TipInv' /\ Kept
  OBVIOUS
<1>1. Plain("dm", k) \in Report /\ Plain("dm", k).ev = "dm"
  BY PlainIs
<1>2. msgs' = msgs \o <<Plain("dm", k)>> /\ UNCHANGED <<paying, hurried, lastTip, cmds>>
  BY DEF DmArrives, Emit, coreVars, auxVars
<1> QED
  BY <1>1, <1>2, PlainSays DEF IInv, Result

LEMMA MadeTips == IInv /\ TipInv /\ WalletMade => TipInv' /\ Kept
<1> SUFFICES ASSUME IInv, TipInv, WalletMade PROVE TipInv' /\ Kept
  OBVIOUS
<1>t. TypeOK
  BY DEF IInv
<1>1. Plain("wallet", making) \in Report /\ Plain("wallet", making).ev = "wallet"
  BY <1>t, PlainIs DEF WalletMade, TypeOK
<1>2. /\ UNCHANGED <<paying, hurried, lastTip, cmds>>
      /\ msgs' = msgs \o <<Plain("wallet", making)>> \/ UNCHANGED msgs
  BY DEF WalletMade, Emit, coreVars, auxVars
<1>3. CASE msgs' = msgs \o <<Plain("wallet", making)>>
  BY <1>t, <1>1, <1>2, <1>3, PlainSays DEF Result
<1>4. CASE UNCHANGED msgs
  <2>1. Same(cmds', cmds, {"tip"})
    BY <1>2 DEF Same
  <2> QED
    BY <1>t, <1>2, <1>4, <2>1, AsksTips
<1> QED
  BY <1>2, <1>3, <1>4

\* The wallet has done with a tip: its result is on its way.
LEMMA PaidTips == \A t \in Tip : IInv /\ TipInv /\ TipPaid(t) => TipInv' /\ Kept
<1> SUFFICES ASSUME NEW t \in Tip, IInv, TipInv, TipPaid(t) PROVE TipInv' /\ Kept
  OBVIOUS
<1>t. TypeOK /\ msgs \in Seq(Report)
  BY DEF IInv, TypeOK
<1>1. PICK ev \in Result : msgs' = msgs \o <<Plain(ev, t)>>
  BY DEF TipPaid, Emit, Result
<1> DEFINE r == Plain(ev, t)
<1>2. r \in Report /\ r.ev = ev /\ r.wave = t
  BY PlainIs DEF Result
<1>3. /\ msgs' = msgs \o <<r>> /\ t \in paying /\ paying' = paying \ {t}
      /\ UNCHANGED <<hurried, lastTip, cmds>>
  BY <1>1 DEF TipPaid, coreVars, auxVars
<1> HIDE DEF r
<1>4. ~Tells(msgs, Result, t) /\ ~Tells(cmds, {"tip"}, t)
  BY <1>3 DEF TipInv
<1>5. Once(msgs', Result) /\ \A u : Tells(msgs', Result, u) <=> Tells(msgs, Result, u) \/ u = t
  BY <1>t, <1>2, <1>3, <1>4, AddedSame DEF TipInv
<1>6. \A u : Afoot(u)' <=> Afoot(u)
  BY <1>3, <1>5 DEF Afoot
<1>7. TipInv'
  BY <1>3, <1>4, <1>5, <1>6 DEF TipInv
<1>8. Kept
  <2>1. Len(msgs') = Len(msgs) + 1 /\ Len(msgs) \in Nat
    BY <1>t, <1>2, <1>3
  <2>2. msgs # <<>> => Len(Tail(msgs)) = Len(msgs) - 1
    BY <1>t
  <2> QED
    BY <2>1, <2>2 DEF Kept
<1> QED
  BY <1>7, <1>8

\* The engine carries out a command that is no tip.
LEMMA DoesTips ==
  ASSUME IInv, IInv', TipInv, NEW c, NEW w \in Wave, w = c.wave, c.ev # "tip",
         Does(c) \/ Refuses, Same(cmds', cmds, {"tip"}), UNCHANGED <<hurried, lastTip>>
  PROVE  TipInv' /\ Kept
<1>t. TypeOK /\ TypeOK' /\ wallet \in BOOLEAN
  BY DEF IInv, TypeOK
<1>1. ASSUME NEW e \in Seq(Report), Mute(e, Result), msgs' = msgs \o e, UNCHANGED paying
      PROVE  TipInv' /\ Kept
  BY <1>t, <1>1, SaysIs, TipsSame
<1>2. ASSUME UNCHANGED <<msgs, paying>> PROVE TipInv' /\ Kept
  BY <1>t, <1>2, AsksTips
<1>3. /\ "joined" \in WaveEvent /\ "unsubscribed" \in WaveEvent /\ "wave-announce" \in WaveEvent
  BY DEF WaveEvent
<1>4. ASSUME NEW ev \in WaveEvent, NEW e \in {<<>>, Echo(w)}
      PROVE  /\ Echo(w) \in Seq(Report) /\ Mute(Echo(w), Result)
             /\ e \o <<Msg(ev, w)>> \in Seq(Report) /\ Mute(e \o <<Msg(ev, w)>>, Result)
  BY <1>t, SpeechIs
<1>5. ASSUME NEW ev \in WaveEvent PROVE <<Msg(ev, w)>> \in Seq(Report) /\ Mute(<<Msg(ev, w)>>, Result)
  <2>1. Msg(ev, w) \in Report /\ Msg(ev, w).ev = ev
    BY <1>t, MsgIs DEF TypeOK
  <2> QED
    BY <2>1 DEF Mute, WaveEvent, Result
<1>6. CASE DoesSubscribe(c, w)
  BY <1>1, <1>3, <1>4, <1>6 DEF DoesSubscribe
<1>7. CASE DoesUnsubscribe(c, w)
  BY <1>1, <1>3, <1>5, <1>7 DEF DoesUnsubscribe
<1>8. CASE DoesJoin(c, w)
  BY <1>1, <1>3, <1>4, <1>8 DEF DoesJoin
<1>9. CASE DoesStart(c, w)
  BY <1>1, <1>3, <1>5, <1>9 DEF DoesStart
<1>10. CASE DoesPay(c, w)
  BY <1>2, <1>10 DEF DoesPay
<1>11. CASE DoesNothing(c, w) \/ Refuses
  BY <1>2, <1>11 DEF DoesNothing, Refuses
<1> QED
  BY <1>t, <1>6, <1>7, <1>8, <1>9, <1>10, <1>11, DoesIs

\* The engine takes a tip to its wallet, or says that it has none.
LEMMA PayTips ==
  ASSUME IInv, TipInv, cmds # <<>>, cmds' = Tail(cmds), NEW c, c = Head(cmds), c.ev = "tip", Does(c),
         UNCHANGED <<hurried, lastTip>>
  PROVE  TipInv' /\ Kept
<1> DEFINE w == c.wave
<1>t. TypeOK /\ msgs \in Seq(Report) /\ cmds \in Seq(Order)
  BY DEF IInv, TypeOK
<1>1. w \in Tip
  <2>1. c \in Order
    BY <1>t
  <2> QED
    BY <2>1 DEF Order, Frame, WaveCommand
<1>2. /\ Once(cmds', {"tip"}) /\ Tells(cmds, {"tip"}, w)
      /\ \A u : Tells(cmds', {"tip"}, u) <=> Tells(cmds, {"tip"}, u) /\ u # w
  BY <1>t, TailSame DEF TipInv
<1>3. w \notin paying /\ ~Tells(msgs, Result, w)
  BY <1>1, <1>2 DEF TipInv
<1> HIDE DEF w
<1>4. CASE wallet
  <2>1. paying' = paying \cup {w} /\ UNCHANGED msgs
    BY <1>4 DEF Does, w
  <2>2. \A u : Afoot(u)' <=> Afoot(u)
    BY <1>2, <2>1 DEF Afoot
  <2>3. TipInv'
    BY <1>2, <1>3, <2>1, <2>2 DEF TipInv
  <2> QED
    BY <1>t, <2>1, <2>3, SilentIs
<1>5. CASE ~wallet
  <2> DEFINE r == Plain("tip-failed", w)
  <2>1. r \in Report /\ r.ev \in Result /\ r.wave = w
    BY <1>1, PlainIs DEF Result
  <2>2. msgs' = msgs \o <<r>> /\ UNCHANGED paying
    BY <1>5 DEF Does, Emit, w
  <2> HIDE DEF r
  <2>3. /\ Once(msgs', Result)
        /\ \A u : Tells(msgs', Result, u) <=> Tells(msgs, Result, u) \/ u = w
    BY <1>t, <1>3, <2>1, <2>2, AddedSame DEF TipInv
  <2>4. \A u : Afoot(u)' <=> Afoot(u)
    BY <1>2, <2>2, <2>3 DEF Afoot
  <2>5. TipInv'
    BY <1>2, <1>3, <2>2, <2>3, <2>4 DEF TipInv
  <2>6. Kept
    <3>1. Len(msgs') = Len(msgs) + 1 /\ Len(msgs) \in Nat
      BY <1>t, <2>1, <2>2
    <3>2. msgs # <<>> => Len(Tail(msgs)) = Len(msgs) - 1
      BY <1>t
    <3> QED
      BY <3>1, <3>2 DEF Kept
  <2> QED
    BY <2>5, <2>6
<1> QED
  BY <1>4, <1>5

LEMMA ExecTips == IInv /\ IInv' /\ TipInv /\ Exec => TipInv' /\ Kept
<1> SUFFICES ASSUME IInv, IInv', TipInv, Exec PROVE TipInv' /\ Kept
  OBVIOUS
<1>c. PICK c, w : c = Head(cmds) /\ w = c.wave
  OBVIOUS
<1>t. TypeOK /\ cmds \in Seq(Order) /\ wallet \in BOOLEAN
  BY DEF IInv, TypeOK
<1>1. /\ cmds # <<>> /\ cmds' = Tail(cmds) /\ UNCHANGED <<hurried, lastTip>>
      /\ Refuses \/ Does(c)
      /\ c.ev = "tip" => Does(c)
  BY <1>c DEF Exec, coreVars, Fee
<1>2. c \in Order /\ (c.ev \in WaveCommand => w \in Wave)
  BY <1>c, <1>t, <1>1, HeadIs
<1>3. CASE c.ev = "tip"
  BY <1>c, <1>1, <1>3, PayTips
<1>4. CASE c.ev # "tip"
  <2>1. Same(cmds', cmds, {"tip"})
    BY <1>c, <1>t, <1>1, <1>4, TailSame DEF TipInv
  <2>2. CASE c.ev \in WaveCommand
    BY <1>c, <1>1, <1>2, <1>4, <2>1, <2>2, DoesTips
  <2>3. CASE c.ev \notin WaveCommand
    <3>1. UNCHANGED <<msgs, paying>>
      BY <1>c, <1>t, <1>1, <1>4, <2>3, DoesIs
         DEF DoesSubscribe, DoesUnsubscribe, DoesJoin, DoesStart, DoesPay, DoesNothing, Refuses,
             WaveCommand
    <3> QED
      BY <1>t, <1>1, <2>1, <3>1, AsksTips
  <2> QED
    BY <2>2, <2>3
<1> QED
  BY <1>3, <1>4

LEMMA FundsTips == \A c \in fees : IInv /\ IInv' /\ TipInv /\ FundsRead(c) => TipInv' /\ Kept
<1> SUFFICES ASSUME NEW c \in fees, IInv, IInv', TipInv, FundsRead(c) PROVE TipInv' /\ Kept
  OBVIOUS
<1>1. c.wave \in Wave /\ c.ev # "tip"
  BY DEF IInv, TypeOK, Frame, Fee
<1>2. Does(c) \/ Refuses
  BY DEF FundsRead
<1>3. UNCHANGED <<hurried, lastTip>> /\ Same(cmds', cmds, {"tip"})
  BY DEF FundsRead, coreVars, Same
<1> QED
  BY <1>1, <1>2, <1>3, DoesTips

-----------------------------------------------------------------------------
\* The user and the timers.

LEMMA TipTips == \A t \in Tip : IInv /\ TipInv /\ tip(t) => TipInv' /\ Kept
<1> SUFFICES ASSUME NEW t \in Tip, IInv, TipInv, tip(t) PROVE TipInv' /\ Kept
  OBVIOUS
<1> DEFINE c == Plain("tip", t)
<1>t. TypeOK /\ cmds \in Seq(Order)
  BY DEF IInv, TypeOK
<1>1. /\ cmds' = cmds \o <<c>> /\ lastTip' = t /\ UNCHANGED <<paying, msgs>>
      /\ hurried' = IF inFlight = {} THEN hurried ELSE hurried \cup inFlight \cup {t}
      /\ t \notin inFlight
  BY DEF tip, Send
<1>2. c \in Order /\ c.ev \in {"tip"} /\ c.wave = t
  BY PlainIs
<1> HIDE DEF c
<1>3. \A u \in Tip : Afoot(u) => u \in inFlight
  BY DEF Afoot, Tells, inFlight
<1>4. t \notin paying /\ ~Tells(msgs, Result, t) /\ ~Tells(cmds, {"tip"}, t)
  BY <1>1, <1>3 DEF Afoot
<1>5. /\ Once(cmds', {"tip"})
      /\ \A u : Tells(cmds', {"tip"}, u) <=> Tells(cmds, {"tip"}, u) \/ u = t
  BY <1>t, <1>1, <1>2, <1>4, AddedSame DEF TipInv
<1>6. \A u : Afoot(u)' <=> Afoot(u) \/ u = t
  BY <1>1, <1>5 DEF Afoot
<1>7. ASSUME NEW u \in Tip, Afoot(u)', u \notin hurried'
      PROVE  lastTip' = u /\ \A v \in Tip : Afoot(v)' => v = u
  <2>1. inFlight = {} /\ u = t
    BY <1>1, <1>3, <1>6, <1>7
  <2> QED
    BY <1>1, <1>3, <1>6, <2>1
<1>8. TipInv'
  BY <1>1, <1>4, <1>5, <1>7 DEF TipInv
<1> QED
  BY <1>t, <1>1, <1>8, SilentIs

LEMMA UserTips == IInv /\ TipInv /\ User => TipInv' /\ Kept
<1> SUFFICES ASSUME IInv, TipInv, User PROVE TipInv' /\ Kept
  OBVIOUS
<1>t. TypeOK
  BY DEF IInv
<1>1. ASSUME NEW c \in Order, c.ev # "tip", cmds' = cmds \o <<c>>,
             UNCHANGED <<paying, hurried, lastTip, msgs>>
      PROVE  TipInv' /\ Kept
  BY <1>t, <1>1, OrdersSame, AsksTips
<1>2. ASSUME NEW w \in Wave, startWave(w) PROVE TipInv' /\ Kept
  <2>1. Plain("start-wave", w) \in Order /\ Plain("start-wave", w).ev # "tip"
    BY PlainIs DEF WaveCommand
  <2> QED
    BY <1>1, <1>2, <2>1 DEF startWave, Send, engVars, coreVars, auxVars
<1>3. CASE joinWave
  <2>1. Plain("join-wave", active) \in Order /\ Plain("join-wave", active).ev # "tip"
    BY <1>t, <1>3, PlainIs DEF WaveCommand, joinWave, TypeOK
  <2> QED
    BY <1>1, <1>3, <2>1 DEF joinWave, Send, engVars, coreVars, auxVars
<1>4. ASSUME NEW n \in Network, setMint(n) PROVE TipInv' /\ Kept
  <2>1. Plain("set-wallet-options", n) \in Order /\ Plain("set-wallet-options", n).ev # "tip"
    BY PlainIs
  <2> QED
    BY <1>1, <1>4, <2>1 DEF setMint, Send, coreVars, auxVars
<1>5. ASSUME NEW w \in Wave, dismissWave(w) PROVE TipInv' /\ Kept
  <2>1. /\ cmds' = cmds \o Frees({w}, dir)
        /\ UNCHANGED <<paying, hurried, lastTip, msgs>>
    BY <1>5 DEF dismissWave, Drop, Send, engVars, auxVars
  <2>2. Same(cmds', cmds, {"tip"})
    <3> DEFINE P == {w}
    <3>1. P \in SUBSET Wave /\ (\A u, v \in P : u = v) /\ cmds' = cmds \o Frees(P, dir)
      BY <2>1
    <3> HIDE DEF P
    <3> QED
      BY <1>t, <3>1, FreesSame
  <2> QED
    BY <1>t, <2>1, <2>2, AsksTips
<1>6. ASSUME NEW w \in Wave, selectWave(w) PROVE TipInv' /\ Kept
  <2>1. Plain("subscribe-wave", w) \in Order /\ Plain("subscribe-wave", w).ev # "tip"
    BY PlainIs DEF WaveCommand
  <2>2. /\ UNCHANGED <<paying, hurried, lastTip, msgs>>
        /\ cmds' = cmds \o (IF dir[w].sub THEN <<>> ELSE <<Plain("subscribe-wave", w)>>)
    BY <1>6 DEF selectWave, Send, engVars, auxVars
  <2>3. CASE dir[w].sub
    <3>1. cmds' = cmds
      BY <1>t, <2>2, <2>3 DEF TypeOK
    <3> QED
      BY <1>t, <2>2, <3>1, AsksTips DEF Same
  <2>4. CASE ~dir[w].sub
    BY <1>1, <2>1, <2>2, <2>4
  <2> QED
    BY <2>3, <2>4
<1> QED
  BY <1>2, <1>3, <1>4, <1>5, <1>6, TipTips DEF User

LEMMA TimerTips == \A w \in Wave : IInv /\ TipInv /\ (LingerEnds(w) \/ FadeEnds(w)) => TipInv' /\ Kept
<1> SUFFICES ASSUME NEW w \in Wave, IInv, TipInv, LingerEnds(w) \/ FadeEnds(w)
             PROVE  TipInv' /\ Kept
  OBVIOUS
<1>t. TypeOK
  BY DEF IInv
<1>1. UNCHANGED <<paying, hurried, lastTip, msgs>>
  BY DEF LingerEnds, FadeEnds, engVars, auxVars
<1>2. CASE LingerEnds(w)
  <2>1. Same(cmds', cmds, {"tip"})
    BY <1>2 DEF LingerEnds, Same
  <2> QED
    BY <1>t, <1>1, <2>1, AsksTips
<1>3. CASE FadeEnds(w)
  <2>1. cmds' = cmds \o Frees({w}, dir)
    BY <1>3 DEF FadeEnds, Drop, Send
  <2>2. Same(cmds', cmds, {"tip"})
    <3> DEFINE P == {w}
    <3>1. P \in SUBSET Wave /\ (\A u, v \in P : u = v) /\ cmds' = cmds \o Frees(P, dir)
      BY <2>1
    <3> HIDE DEF P
    <3> QED
      BY <1>t, <3>1, FreesSame
  <2> QED
    BY <1>t, <1>1, <2>2, AsksTips
<1> QED
  BY <1>2, <1>3

-----------------------------------------------------------------------------
\* The view model takes the next message.

\* The result of a tip: the token goes to the author of the moment tipped.
LEMMA HeardTips ==
  ASSUME IInv, TipInv, Handle, Head(msgs).ev \in Result
  PROVE  /\ TipInv'
         /\ \A t \in Tip \ hurried :
              Head(msgs) = Plain("tip-result", t) => cmds' = Append(cmds, Delivery(t, t))
<1>c. PICK m, w : m = Head(msgs) /\ w = m.wave
  OBVIOUS
<1>t. TypeOK /\ msgs \in Seq(Report) /\ cmds \in Seq(Order)
  BY DEF IInv, TypeOK
<1>1. /\ msgs # <<>> /\ msgs' = Tail(msgs) /\ lastTip' = None /\ hurried' = hurried \ {w}
      /\ cmds' = cmds \o (IF m.ev = "tip-result" /\ lastTip # None
                          THEN <<Delivery(w, lastTip)>> ELSE <<>>)
      /\ UNCHANGED paying
  BY <1>c DEF Handle, HandleTip, Send, Result, engVars
<1>2. w \in Tip
  <2>1. m \in Report /\ m.ev \in {"tip-result", "tip-failed"}
    BY <1>c, <1>t, <1>1 DEF Result
  <2> QED
    BY <1>c, <2>1 DEF Report, Frame, WaveEvent
<1>3. /\ Once(msgs', Result) /\ Tells(msgs, Result, w)
      /\ \A u : Tells(msgs', Result, u) <=> Tells(msgs, Result, u) /\ u # w
  BY <1>c, <1>t, <1>1, TailSame DEF TipInv
<1>4. Afoot(w) /\ w \notin paying /\ ~Tells(cmds, {"tip"}, w)
  BY <1>2, <1>3 DEF Afoot, TipInv
<1>5. Same(cmds', cmds, {"tip"})
  <2>1. CASE m.ev = "tip-result" /\ lastTip # None
    <3> DEFINE c == Delivery(w, lastTip)
    <3>1. c \in Order /\ c.ev = "dm"
      <4>1. <<w, lastTip>> \in Tip \X Tip
        BY <1>t, <1>2, <2>1 DEF TypeOK
      <4> QED
        BY <4>1, PlainIs DEF Delivery
    <3>2. cmds' = cmds \o <<c>>
      BY <1>1, <2>1
    <3> HIDE DEF c
    <3> QED
      BY <1>t, <3>1, <3>2, OrdersSame
  <2>2. CASE ~(m.ev = "tip-result" /\ lastTip # None)
    <3>1. cmds' = cmds
      BY <1>t, <1>1, <2>2
    <3> QED
      BY <3>1 DEF Same
  <2> QED
    BY <2>1, <2>2
<1>6. \A u : Afoot(u)' <=> Afoot(u) /\ u # w
  BY <1>1, <1>3, <1>4, <1>5 DEF Afoot, Same
<1>7. ASSUME NEW u \in Tip, Afoot(u)', u \notin hurried' PROVE FALSE
  BY <1>1, <1>2, <1>4, <1>6, <1>7 DEF TipInv
<1>8. TipInv'
  BY <1>1, <1>3, <1>5, <1>7 DEF TipInv, Same
<1>9. ASSUME NEW t \in Tip \ hurried, m = Plain("tip-result", t)
      PROVE  cmds' = Append(cmds, Delivery(t, t))
  <2>1. w = t /\ m.ev = "tip-result"
    BY <1>c, <1>9, PlainIs
  <2>2. lastTip = t /\ t # None
    BY <1>2, <1>4, <1>9, <2>1, AppCoreAssumption DEF TipInv, None
  <2>3. cmds' = cmds \o <<Delivery(t, t)>>
    BY <1>1, <2>1, <2>2
  <2>4. Delivery(t, t) \in Order
    BY <1>9, PlainIs DEF Delivery
  <2> HIDE DEF Delivery
  <2> QED
    BY <1>t, <2>3, <2>4
<1> QED
  BY <1>c, <1>8, <1>9

LEMMA HandleTips == IInv /\ TipInv /\ Handle /\ Head(msgs).ev \notin Result => TipInv'
<1> SUFFICES ASSUME IInv, TipInv, Handle, Head(msgs).ev \notin Result PROVE TipInv'
  OBVIOUS
<1>c. PICK m, w : m = Head(msgs) /\ w = m.wave
  OBVIOUS
<1>t. TypeOK /\ msgs \in Seq(Report) /\ dir \in [Wave -> Entry]
  BY DEF IInv, TypeOK
<1>1. /\ msgs # <<>> /\ msgs' = Tail(msgs) /\ UNCHANGED paying /\ m \in Report
      /\ m.ev \notin {"tip-result", "tip-failed"}
  BY <1>c, <1>t DEF Handle, engVars, Result
<1>2. Same(msgs', msgs, Result)
  BY <1>c, <1>t, <1>1, TailSame DEF TipInv, Result
<1>3. ASSUME Same(cmds', cmds, {"tip"}), UNCHANGED <<hurried, lastTip>> PROVE TipInv'
  BY <1>1, <1>2, <1>3, TipsSame
<1>4. Same(cmds, cmds, {"tip"})
  BY DEF Same
<1>5. CASE m.ev = "dm"
  <2>1. HandleDm(m) /\ w \in Token
    BY <1>c, <1>1, <1>5 DEF Handle, Report, Frame, WaveEvent
  <2>2. Plain("redeem", w) \in Order /\ Plain("redeem", w).ev # "tip"
    BY <2>1, PlainIs
  <2>3. cmds' = cmds \o <<Plain("redeem", w)>> /\ UNCHANGED <<hurried, lastTip>>
    BY <1>c, <2>1 DEF HandleDm, Send, coreVars, auxVars
  <2> QED
    BY <1>t, <1>3, <2>2, <2>3, OrdersSame
<1>6. CASE m.ev \in {"feed", "wallet"}
  <2>1. HandleFeed(m) \/ HandleWallet(m)
    BY <1>c, <1>6 DEF Handle
  <2>2. UNCHANGED <<cmds, hurried, lastTip>>
    BY <2>1 DEF HandleFeed, HandleWallet, auxVars
  <2> QED
    BY <1>3, <1>4, <2>2
<1>7. CASE m.ev \in WaveEvent
  <2>1. HandleEvent(m) /\ w \in Wave /\ m \in Of(WaveEvent, w)
    BY <1>c, <1>1, <1>7 DEF Handle, Of, Report, Frame, WaveEvent
  <2>2. CASE w \in dismissed
    <3>1. UNCHANGED <<cmds, hurried, lastTip>>
      BY <1>c, <2>1, <2>2 DEF HandleEvent, coreVars, auxVars
    <3> QED
      BY <1>3, <1>4, <3>1
  <2>3. CASE w \notin dismissed
    <3>1. PICK d : d = Updated(m)
      OBVIOUS
    <3>2. PICK P : P = Prior(m, d)
      OBVIOUS
    <3>3. cmds' = cmds \o Frees(P, d) /\ UNCHANGED <<hurried, lastTip>>
      BY <1>c, <2>1, <2>3, <3>1, <3>2 DEF HandleEvent, Send
    <3>4. P \in SUBSET Wave /\ \A v \in P : v # w /\ d[v].mine
      BY <1>c, <3>2 DEF Prior
    <3>5. \A v \in Wave : v # w => d[v] = dir[v]
      BY <1>t, <2>1, <3>1, UpdatedIs
    <3>6. \A u, v \in P : u = v
      BY <3>4, <3>5 DEF IInv, DirectoryInv
    <3>7. Same(cmds', cmds, {"tip"})
      BY <1>t, <3>3, <3>4, <3>6, FreesSame
    <3> QED
      BY <1>3, <3>3, <3>7
  <2> QED
    BY <2>2, <2>3
<1>8. m.ev \in WaveEvent \cup {"feed", "dm", "wallet"}
  BY <1>1 DEF Report, Frame
<1> QED
  BY <1>5, <1>6, <1>7, <1>8

-----------------------------------------------------------------------------

LEMMA InitTips == Init => TipInv
BY DEF Init, TipInv, Once, Tells, Afoot

\* What every step does of a tip: only the view model takes the next message.
LEMMA NextTips ==
  IInv /\ IInv' /\ TipInv /\ [Next]_vars => TipInv' /\ (Kept \/ Handle)
<1> SUFFICES ASSUME IInv, IInv', TipInv, [Next]_vars PROVE TipInv' /\ (Kept \/ Handle)
  OBVIOUS
<1>1. CASE Engine
  BY <1>1, WaveTips, DmTips, PaidTips, MadeTips, ExecTips, FundsTips DEF Engine
<1>2. CASE User
  BY <1>2, UserTips
<1>3. CASE Handle
  BY <1>3, HeardTips, HandleTips
<1>4. CASE \E w \in Wave : LingerEnds(w) \/ FadeEnds(w)
  BY <1>4, TimerTips
<1>5. CASE UNCHANGED vars
  <2>1. UNCHANGED <<paying, hurried, lastTip, msgs, cmds>>
    BY <1>5 DEF vars, engVars, coreVars, auxVars
  <2>2. Same(cmds', cmds, {"tip"})
    BY <2>1 DEF Same
  <2> QED
    BY <2>1, <2>2, AsksTips DEF IInv
<1> QED
  BY <1>1, <1>2, <1>3, <1>4, <1>5 DEF Next

\* The token of a tip that was paid is sent to the author of the moment tipped, whatever was
\* tipped before, whatever the wallet does and wherever the user goes meanwhile: unless another
\* tip was in flight at the same time, for the view model remembers one.
THEOREM TipsGoToAuthor == Spec => TipsReachAuthor
<1> DEFINE A == \A t \in Tip \ hurried :
                  msgs # <<>> /\ Head(msgs) = Plain("tip-result", t) /\ msgs' = Tail(msgs)
                    => cmds' = Append(cmds, Delivery(t, t))
<1>1. Init => TipInv
  BY InitTips
<1>2. IInv /\ IInv' /\ TipInv /\ [Next]_vars => TipInv' /\ [A]_vars
  <2> SUFFICES ASSUME IInv, IInv', TipInv, [Next]_vars PROVE TipInv' /\ A
    OBVIOUS
  <2>1. TipInv' /\ (Kept \/ Handle)
    BY NextTips
  <2>2. ASSUME NEW t \in Tip \ hurried, msgs # <<>>, Head(msgs) = Plain("tip-result", t),
               msgs' = Tail(msgs)
        PROVE  cmds' = Append(cmds, Delivery(t, t))
    <3>1. Handle
      BY <2>1, <2>2 DEF Kept
    <3>2. Head(msgs).ev \in Result
      BY <2>2, PlainIs DEF Result
    <3> QED
      BY <2>2, <3>1, <3>2, HeardTips
  <2> QED
    BY <2>1, <2>2
<1> QED
  BY <1>1, <1>2, Invariance, PTL DEF Spec, TipsReachAuthor

=============================================================================
