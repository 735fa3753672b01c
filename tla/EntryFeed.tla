----------------------------- MODULE EntryFeed -----------------------------
(***************************************************************************)
(* One peer's entry in one wave: the pipeline that pairs the staged payload*)
(* with the slot (lib/entry.js), the feed of cores it is appended to and   *)
(* read from (lib/feed-crdt.js), and what lib/wave.js does around them: the*)
(* lobby, the slot timer, the burn ticket, the revival of a lobby given up.*)
(*                                                                         *)
(* The rest of the mesh is the environment: it announces and starts the    *)
(* wave, makes writers known and replicates their blocks.  My own core     *)
(* outlives its closing (it is a named core of the store); a WaveCores does*)
(* not, and each one opened has a number of its own, gen.  Participants are*)
(* keys, and an entry's hop is its author's rank in the sweep.             *)
(***************************************************************************)
EXTENDS Sweep, FeedMerge

CONSTANTS
  Me,            \* this peer
  Writer,        \* the other participants
  Host,          \* the initiator of a wave that is not mine
  Late,          \* the participants whose entries have the later timestamp
  AutoSubscribe, \* the values of the engine's option
  MaxOpens,      \* bound on the feeds opened in a behaviour
  MaxReads,      \* bound on the views being read at once
  MaxPosts       \* bound on the postEntry calls waiting for a core at once

ASSUME FeedAssumption ==
  /\ Writer \subseteq Nat \ {0} /\ IsFiniteSet(Writer)
  /\ Me \in Nat \ (Writer \cup {0})
  /\ Host \in Writer
  /\ AutoSubscribe \in SUBSET BOOLEAN \ {{}}
  /\ MaxOpens \in Nat \ {0}
  /\ MaxReads \in Nat \ {0}
  /\ MaxPosts \in Nat \ {0}

VARIABLES
  eng,   \* the engine: WaveState, WaveCores, and what outlives them
  reads, \* the #emitView calls in progress
  view,  \* the cores whose blocks were merged into the feed last pushed
  got,   \* the writers whose block 0 is replicated here
  hist   \* the environment's and the properties' memory

vars == <<eng, reads, view, got, hist>>

Participant == Writer \cup {Me}

\* A WaveState with its EntryPipeline.
WaveState ==
  [phase : {"none", "lobby", "racing"}, mine : BOOLEAN, joined : BOOLEAN,
   subscribed : BOOLEAN, signed : BOOLEAN, burn : BOOLEAN,
   writers : SUBSET Participant,
   hop : Nat,                                          \* my rank in the schedule
   timer : BOOLEAN,                                    \* my slot timer is armed
   staged : BOOLEAN, slot : BOOLEAN, posted : BOOLEAN] \* the pipeline

\* A WaveCores: open iff #waves and subscriptions hold the wave.
WaveCores ==
  [gen : Nat, open : BOOLEAN, ready : BOOLEAN, posted : BOOLEAN, pending : BOOLEAN,
   foreign : SUBSET Writer]

Block == [burn : BOOLEAN, hop : Nat]

Engine ==
  [auto : AutoSubscribe, w : WaveState, f : WaveCores,
   memo : [on : BOOLEAN, signed : BOOLEAN, burn : BOOLEAN], \* abandonedJoins
   ended : BOOLEAN,                                         \* endedWaves
   opening : SUBSET Nat,                  \* the feeds floodMyFeedCore calls await
   posts : [1 .. MaxOpens -> Seq(Block)], \* the postEntry calls that await own.ready of a feed
   core : Seq(Block)]                     \* my own core

\* A reading of the feed: the core whose block is awaited comes first in todo.
Read == [gen : Nat, todo : Seq(Participant), raw : Seq(Participant)]

NoWave ==
  [phase |-> "none", mine |-> FALSE, joined |-> FALSE, subscribed |-> FALSE,
   signed |-> FALSE, burn |-> FALSE, writers |-> {}, hop |-> 0, timer |-> FALSE,
   staged |-> FALSE, slot |-> FALSE, posted |-> FALSE]

NoMemo == [on |-> FALSE, signed |-> FALSE, burn |-> FALSE]

NoRead == [gen |-> 0, todo |-> << >>, raw |-> << >>]

-----------------------------------------------------------------------------
\* CrdtFeed, as functions of the engine.
\* (Definitions marked Bug are what a slip in the code would make of the one that
\* follows; no specification uses them.)

\* open() of a wave not held.
Open(s) ==
  [s EXCEPT !.f = [gen |-> s.f.gen + 1, open |-> TRUE, ready |-> FALSE,
                   posted |-> FALSE, pending |-> FALSE, foreign |-> {}]]

\* The rest of the postEntry calls that await core g, once it is ready: the append of
\* a feed closed meanwhile fails.
Appended(s, g) ==
  LET rest == [s EXCEPT !.posts[g] = << >>]
  IN  IF s.posts[g] = << >> \/ ~(s.f.open /\ s.f.gen = g)
      THEN rest
      ELSE [rest EXCEPT !.f.posted = TRUE, !.f.pending = FALSE, !.core = @ \o s.posts[g]]

\* The entry as it will be appended: the burn and the hop are those of now.
Awaits(s) ==
  [s EXCEPT !.posts[s.f.gen] = Append(@, [burn |-> s.w.burn, hop |-> s.w.hop])]

NoPosts(s) == \A g \in 1 .. MaxOpens : s.posts[g] = << >>

\* Bug: an entry that has no join attestation yet is dropped.
BugPostEntry(s) ==
  IF ~s.f.open \/ s.f.posted \/ ~s.w.signed
  THEN s
  ELSE LET t == Awaits(s)
       IN  IF s.f.ready THEN Appended(t, s.f.gen) ELSE t

\* postEntry(): hold an entry without its join attestation; else capture the proofs
\* and append once my core is ready (at once if it is).
PostEntry(s) ==
  IF ~s.f.open \/ s.f.posted
  THEN s
  ELSE IF ~s.w.signed
  THEN [s EXCEPT !.f.pending = TRUE]
  ELSE LET t == Awaits(s)
       IN  IF s.f.ready THEN Appended(t, s.f.gen) ELSE t

\* EntryPipeline.#tryPost(): both halves are there, for the first time.
TryPost(s) ==
  IF s.w.posted \/ ~s.w.slot \/ ~s.w.staged
  THEN s
  ELSE PostEntry([s EXCEPT !.w.posted = TRUE])

-----------------------------------------------------------------------------
\* WaveManager, as functions of the engine.

\* subscribe(): open my core and every writer's known while merely aware.
HoldFeed(s) ==
  IF s.w.phase = "none" \/ s.f.open
  THEN s
  ELSE [Open(s) EXCEPT !.w.subscribed = TRUE, !.f.foreign = s.w.writers \ {Me}]

\* enterLobby() of a wave not engaged: what an abandoned lobby left is restored.
EnterLobby(s, mine) ==
  LET t == [s EXCEPT !.w = [NoWave EXCEPT !.phase = "lobby", !.mine = mine,
                                          !.joined = mine \/ s.memo.on,
                                          !.signed = s.memo.signed,
                                          !.burn = s.memo.burn],
                     !.memo = NoMemo]
  IN  IF s.auto \/ t.w.joined THEN HoldFeed(t) ELSE t

\* ingestWriter() over credentials: only new ones count.
Ingest(s, creds) ==
  LET new == creds \ s.w.writers
  IN  [s EXCEPT !.w.writers = @ \cup new,
                !.f.foreign = IF s.w.subscribed THEN @ \cup (new \ {Me}) ELSE @]

\* beginSweep() and armSweepTimers().
BeginSweep(s, roster) ==
  [s EXCEPT !.w.phase = "racing",
            !.w.timer = Me \in roster /\ s.w.joined,
            !.w.hop = Rank(roster, Me)]

\* The continuation of floodMyFeedCore(): sign my join and seat myself, unless the
\* wave went or I un-joined meanwhile.
PublishCore(s) ==
  IF s.w.phase = "none" \/ ~s.w.joined
  THEN s
  ELSE [s EXCEPT !.w.signed = TRUE, !.w.writers = @ \cup {Me}]

\* floodMyFeedCore() with the feed open: at once if my core is ready.
FloodMyFeedCore(s) ==
  IF s.f.ready THEN PublishCore(s) ELSE [s EXCEPT !.opening = @ \cup {s.f.gen}]

\* Bug: an abandoned lobby's memo has no ticket.
BugGoIdle(s, revivable) ==
  [s EXCEPT !.w = NoWave,
            !.ended = @ \/ ~revivable,
            !.memo = IF ~revivable THEN NoMemo
                     ELSE IF s.w.joined
                     THEN [on |-> TRUE, signed |-> s.w.signed]
                     ELSE @]

\* goIdle(): the WaveState goes; a revivable end remembers a join.
GoIdle(s, revivable) ==
  [s EXCEPT !.w = NoWave,
            !.ended = @ \/ ~revivable,
            !.memo = IF ~revivable THEN NoMemo
                     ELSE IF s.w.joined
                     THEN [on |-> TRUE, signed |-> s.w.signed, burn |-> s.w.burn]
                     ELSE @]

-----------------------------------------------------------------------------
\* Block 0 of each participant's core.
Op(core, c) ==
  [peer |-> c, time |-> IF c \in Late THEN 2 ELSE 1, signed |-> TRUE, fits |-> TRUE,
   hop |-> IF c = Me THEN core[1].hop ELSE Rank(Participant, c),
   address |-> c,
   burn |-> IF c = Me /\ ~core[1].burn THEN NoBurn ELSE c]

\* The feed that is pushed when the blocks of these cores have been read.
Feed(core, cores) == mergeFeed([k \in 1 .. Len(cores) |-> Op(core, cores[k])])

\* The cores from the first that has its block: the ones before it are passed over.
From(core, here, cores) ==
  LET held == {k \in 1 .. Len(cores) :
                 IF cores[k] = Me THEN core # << >> ELSE cores[k] \in here}
      first == CHOOSE k \in held : \A j \in held : k <= j
  IN  IF held = {} THEN << >> ELSE SubSeq(cores, first, Len(cores))

Orders(S) ==
  {o \in [1 .. Cardinality(S) -> S] : \A i, j \in DOMAIN o : o[i] = o[j] => i = j}

\* #emitView(): a reading begins, my own core first; with no block to await the view is
\* pushed at once.  (A call beyond MaxReads is left to the next tick.)
EmitView(t, here) ==
  LET free == {r \in 1 .. MaxReads : reads[r] = NoRead}
  IN  IF t.f.open /\ free # {}
      THEN \E o \in Orders(t.f.foreign), r \in free :
             LET todo == From(t.core, here, << Me >> \o o)
             IN  /\ \A q \in free : r <= q
                 /\ IF todo = << >>
                    THEN view' = << >> /\ UNCHANGED reads
                    ELSE /\ reads' = [reads EXCEPT ![r] = [gen |-> t.f.gen, todo |-> todo,
                                                          raw |-> << >>]]
                         /\ UNCHANGED view
      ELSE UNCHANGED <<reads, view>>

\* A handler that ends in t repaints if it appended or opened a writer's core.
Becomes(t) ==
  /\ eng' = t
  /\ IF eng'.core # eng.core \/ ~(eng'.f.foreign \subseteq eng.f.foreign)
     THEN EmitView(eng', got)
     ELSE UNCHANGED <<reads, view>>

\* Has my wave-join been flooded: then the initiator may seat me.
Seen(t) == hist' = [hist EXCEPT !.flooded = @ \/ Me \in t.w.writers]

-----------------------------------------------------------------------------
\* The user's calls.

\* startWave() and doAnnounce().
StartWave ==
  LET t == FloodMyFeedCore(EnterLobby(eng, TRUE))
  IN  /\ eng.w.phase = "none" /\ eng.f.gen = 0 /\ ~eng.memo.on /\ ~eng.ended
      /\ Becomes(t)
      /\ Seen(t)
      /\ UNCHANGED got

\* subscribe() by the host.
Subscribe ==
  /\ eng.w.phase # "none"
  /\ ~eng.f.open
  /\ Becomes(HoldFeed(eng))
  /\ UNCHANGED <<got, hist>>

\* join(): opt in to a lobby; its fee begins to be burned.
Join ==
  LET t == FloodMyFeedCore([HoldFeed(eng) EXCEPT !.w.joined = TRUE])
  IN  /\ eng.w.phase = "lobby"
      /\ ~eng.w.joined
      /\ Becomes(t)
      /\ hist' = [hist EXCEPT !.flooded = @ \/ Me \in t.w.writers, !.burning = TRUE]
      /\ UNCHANGED got

\* stageEntry().
Stage ==
  /\ eng.w.phase # "none"
  /\ ~eng.w.staged
  /\ Becomes(TryPost([eng EXCEPT !.w.staged = TRUE]))
  /\ UNCHANGED <<got, hist>>

\* unsubscribe(): un-join and close the feed.  The slot timer stays.
Unsubscribe ==
  /\ eng.f.open
  /\ eng.f.gen < MaxOpens
  /\ eng' = [eng EXCEPT !.w.subscribed = FALSE, !.w.joined = FALSE,
                        !.f = [gen |-> eng.f.gen, open |-> FALSE, ready |-> FALSE,
                               posted |-> FALSE, pending |-> FALSE, foreign |-> {}]]
  /\ hist' = [hist EXCEPT !.left = TRUE, !.due = FALSE]
  /\ UNCHANGED <<reads, view, got>>

-----------------------------------------------------------------------------
\* What others send.

\* An announce or a lobby's wave-sync: adopt the wave.
Adopt ==
  /\ eng.w.phase = "none"
  /\ ~eng.ended
  /\ Becomes(EnterLobby(eng, FALSE))
  /\ UNCHANGED <<got, hist>>

\* A wave-join (in the lobby) or a wave-sync names a writer: me only once I flooded.
LearnWriter(c) ==
  /\ eng.w.phase # "none"
  /\ c \notin eng.w.writers
  /\ c = Me => hist.flooded
  /\ Becomes(Ingest(eng, {c}))
  /\ UNCHANGED <<got, hist>>

\* A wave-start, or a racing wave-sync: adopt the wave if need be, learn every core,
\* race.  I am seated only if my wave-join got out.
RaceStarts ==
  \E creds \in SUBSET Participant :
    LET s == IF eng.w.phase = "none" THEN EnterLobby(eng, FALSE) ELSE eng
        t == BeginSweep(Ingest(s, creds), {Host} \cup creds)
    IN  /\ eng.w.phase # "racing"
        /\ ~eng.w.mine
        /\ ~eng.ended
        /\ Me \in creds => hist.flooded
        /\ Becomes(t)
        /\ UNCHANGED <<got, hist>>

\* Block 0 of a writer's core is downloaded; its feed, if held, repaints.
Replicate(c) ==
  /\ c \in eng.f.foreign \ got
  /\ got' = got \cup {c}
  /\ EmitView(eng, got')
  /\ UNCHANGED <<eng, hist>>

-----------------------------------------------------------------------------
\* Timers and completions.

\* own.ready() of feed g resolves: its floods and posts go on.
CoreReady(g) ==
  LET held == eng.f.open /\ eng.f.gen = g
      s == [eng EXCEPT !.f.ready = @ \/ held, !.opening = @ \ {g}]
      t == Appended(IF g \in eng.opening THEN PublishCore(s) ELSE s, g)
  IN  /\ \/ held /\ ~eng.f.ready
         \/ ~held /\ (g \in eng.opening \/ eng.posts[g] # << >>)
      /\ Becomes(t)
      /\ Seen(t)
      /\ UNCHANGED got

\* finalizeAndStart(): my lobby closes.  My core's key may be readable before its
\* ready() resolves; if it is not, I race unsigned.
FinalizeAndStart ==
  \E keyReady \in BOOLEAN :
    LET s == IF keyReady
             THEN [eng EXCEPT !.w.signed = TRUE, !.w.writers = @ \cup {Me}]
             ELSE eng
    IN  /\ eng.w.mine
        /\ eng.w.phase = "lobby"
        /\ keyReady => eng.f.open
        /\ eng.f.ready => keyReady
        /\ Becomes(BeginSweep(s, {Me} \cup s.w.writers))
        /\ UNCHANGED <<got, hist>>

\* The fallback of somebody else's lobby.
LobbyTimeout ==
  /\ eng.w.phase = "lobby"
  /\ ~eng.w.mine
  /\ Becomes(GoIdle(eng, TRUE))
  /\ UNCHANGED <<got, hist>>

\* My slot timer.
SlotFires ==
  /\ eng.w.timer
  /\ Becomes(TryPost([eng EXCEPT !.w.timer = FALSE, !.w.slot = TRUE]))
  /\ UNCHANGED <<got, hist>>

\* finishWave().
FinishWave ==
  /\ eng.w.phase = "racing"
  /\ ~eng.w.timer
  /\ Becomes(GoIdle(eng, FALSE))
  /\ UNCHANGED <<got, hist>>

\* recordBurn() of my join fee: a wave no longer engaged drops it; an open lobby is
\* told of it.
BurnConfirmed ==
  LET s == [eng EXCEPT !.w.burn = TRUE]
      t == IF eng.w.phase = "none" THEN eng
           ELSE IF s.w.joined /\ s.w.phase = "lobby" THEN FloodMyFeedCore(s)
           ELSE s
  IN  /\ hist.burning
      /\ Becomes(t)
      /\ hist' = [hist EXCEPT !.burning = FALSE,
                              !.flooded = @ \/ Me \in t.w.writers,
                              !.due = @ \/ (eng.w.joined /\ eng.core = << >>
                                            /\ NoPosts(eng))]
      /\ UNCHANGED got

\* Bug: a held entry is not retried.
BugTick ==
  /\ eng.f.open
  /\ UNCHANGED eng
  /\ EmitView(eng, got)
  /\ UNCHANGED <<got, hist>>

\* tick(): retry a held entry, repaint.
Tick ==
  /\ eng.f.open
  /\ eng' = IF eng.f.pending /\ ~eng.f.posted /\ Len(eng.posts[eng.f.gen]) < MaxPosts
            THEN PostEntry(eng)
            ELSE eng
  /\ EmitView(eng', got)
  /\ UNCHANGED <<got, hist>>

\* Bug: the view is pushed if the wave is held, whichever feed was read.
BugReadOn(r) ==
  LET read == reads[r]
      raw == Append(read.raw, Head(read.todo))
      rest == From(eng.core, got, Tail(read.todo))
  IN  /\ read # NoRead
      /\ IF rest = << >>
         THEN /\ reads' = [reads EXCEPT ![r] = NoRead]
              /\ view' = IF eng.f.open THEN raw ELSE view
         ELSE /\ reads' = [reads EXCEPT ![r].todo = rest, ![r].raw = raw]
              /\ UNCHANGED view
      /\ UNCHANGED <<eng, got, hist>>

\* #emitView(): the block awaited is here.  On to the next core that has one; after
\* the last the merged feed is pushed, unless this one was closed meanwhile.
ReadOn(r) ==
  LET read == reads[r]
      raw == Append(read.raw, Head(read.todo))
      rest == From(eng.core, got, Tail(read.todo))
  IN  /\ read # NoRead
      /\ IF rest = << >>
         THEN /\ reads' = [reads EXCEPT ![r] = NoRead]
              /\ view' = IF eng.f.open /\ eng.f.gen = read.gen THEN raw ELSE view
         ELSE /\ reads' = [reads EXCEPT ![r].todo = rest, ![r].raw = raw]
              /\ UNCHANGED view
      /\ UNCHANGED <<eng, got, hist>>

-----------------------------------------------------------------------------
Init ==
  /\ \E auto \in AutoSubscribe :
       eng = [auto |-> auto, w |-> NoWave,
              f |-> [gen |-> 0, open |-> FALSE, ready |-> FALSE, posted |-> FALSE,
                     pending |-> FALSE, foreign |-> {}],
              memo |-> NoMemo, ended |-> FALSE, opening |-> {},
              posts |-> [g \in 1 .. MaxOpens |-> << >>], core |-> << >>]
  /\ reads = [r \in 1 .. MaxReads |-> NoRead]
  /\ view = << >>
  /\ got = {}
  /\ hist = [flooded |-> FALSE, burning |-> FALSE, due |-> FALSE, left |-> FALSE]

User == StartWave \/ Subscribe \/ Join \/ Stage \/ Unsubscribe

Mesh ==
  \/ Adopt \/ RaceStarts
  \/ \E c \in Participant : LearnWriter(c)
  \/ \E c \in Writer : Replicate(c)

Timer ==
  FinalizeAndStart \/ LobbyTimeout \/ SlotFires \/ FinishWave \/ BurnConfirmed \/ Tick

Next ==
  \/ User
  \/ Mesh
  \/ Timer
  \/ \E g \in 1 .. MaxOpens : CoreReady(g)
  \/ \E r \in 1 .. MaxReads : ReadOn(r)

Spec == Init /\ [][Next]_vars

\* The feed ticker runs for as long as the engine does, storage answers, and armed
\* timers fire.  Nothing is assumed of the user, the mesh or the payment.
Fairness ==
  /\ WF_vars(Tick)
  /\ WF_vars(SlotFires)
  /\ \A g \in 1 .. MaxOpens : WF_vars(CoreReady(g))
  /\ \A r \in 1 .. MaxReads : WF_vars(ReadOn(r))

FairSpec == Spec /\ Fairness

-----------------------------------------------------------------------------
\* Properties.

\* Type correctness of every variable.
TypeOK ==
  /\ eng \in Engine
  /\ reads \in [1 .. MaxReads -> Read]
  /\ view \in Seq(Participant)
  /\ got \in SUBSET Writer
  /\ hist \in [flooded : BOOLEAN, burning : BOOLEAN, due : BOOLEAN, left : BOOLEAN]

EntryAccounted ==
  eng.w.posted => \/ eng.core # << >> \/ eng.f.pending \/ ~NoPosts(eng)
                  \/ hist.left

TicketRides == hist.due /\ eng.core # << >> => eng.core[1].burn

\* Neither my entry nor its ticket is lost.  The two once-per-wave guards do not lose an entry
\* between them: one the pipeline let go is in my core, held for its attestation or waiting for
\* the core.  And a fee burn recorded before the entry is posted rides it, also when the lobby it
\* was paid in timed out and a late start revived it (abandonedJoins' promise).  Unless the user
\* left the wave.
EntryCarried == EntryAccounted /\ TicketRides

\* A view read from a feed that was closed meanwhile is never pushed: what the host
\* is shown comes from cores the feed of that moment holds.
ViewOfHeldCores ==
  [][view' # view =>
       /\ eng'.f.open
       /\ \A k \in 1 .. Len(view') : view'[k] \in eng'.f.foreign \cup {Me}]_vars

\* A posted entry reaches my core while its wave lasts: the wait for the attestation
\* and for the core end, and the tick retries.
EntryLands ==
  eng.w.posted ~> (eng.core # << >> \/ hist.left \/ eng.w.phase = "none")

\* A feed held for good ends up showing every block it holds, whatever readings
\* overlap and whichever append event was missed; and it shows them as any peer that
\* holds the same blocks would, in whatever order it read them.
ViewConverges ==
  <>[]eng.f.open =>
    <>[](\A o \in Orders((eng.f.foreign \cap got)
                          \cup (IF eng.core # << >> THEN {Me} ELSE {})) :
           Feed(eng.core, view) = Feed(eng.core, o))

=============================================================================
