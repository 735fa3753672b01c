------------------------------ MODULE Capture ------------------------------
(***************************************************************************)
(* The lobby moment on the desktop (renderer/lib/proof.js, lobby.js and     *)
(* app.js): who is asked to join, who frames a moment before which wave     *)
(* starts, and which wave the moment is staged for, while the user moves    *)
(* between waves, the engine's events arrive and the camera takes its time  *)
(* to answer.  Of the view model (AppCore) only the active wave and the     *)
(* phase, seat and payment of each wave are kept; lingering is not.         *)
(***************************************************************************)
EXTENDS Naturals, Sequences

CONSTANTS
  Wave,      \* the waves
  Mine,      \* the one of them that this user may start
  NetOf,     \* the settlement network of each wave
  MaxMsgs,   \* bound on the messages on their way up
  MaxCmds,   \* bound on the commands on their way down
  MaxAsks    \* bound on the unanswered requests for the camera

ASSUME CaptureAssumption ==
  /\ Mine \in Wave /\ "none" \notin Wave
  /\ MaxMsgs \in Nat \ {0} /\ MaxCmds \in Nat \ {0} /\ MaxAsks \in Nat \ {0}

VARIABLES
  eng,     \* the engine's waves
  revived, \* waves that timed out in their lobby, once
  fees,    \* the commands that wait for the wallet's balance
  msgs,    \* messages from the engine
  cmds,    \* commands to the engine
  dir,     \* the directory of the view model
  active,  \* activeWaveId, mirrored by active.js
  net,     \* the settlement network of the wallet
  panel,   \* the lobby panel and the capture panel (see NoPanel)
  ask,     \* waves whose moment the user was asked for
  sent,    \* waves a moment was staged for
  waived,  \* waves whose moment, or seat, was given up (see Waive)
  missed,  \* waves whose moment the code lost (see Miss)
  stranded \* waves whose last join was refused for want of funds (see FundsRead)

engVars == <<eng, revived, fees>>
ghosts == <<ask, sent, waived, missed, stranded>>
vars == <<engVars, msgs, cmds, dir, active, net, panel, ghosts>>

None == "none"
NoWave == [phase |-> "none", joined |-> FALSE, paid |-> "none"]

\* shut: the gallery's closed, it paints nothing; shows: the wave whose moments it holds.
\* lobby: the lobby panel, with or without its join button; ok: the button is enabled;
\* open: isOpen; asking: calls of getUserMedia under way; stream: the camera is on and held;
\* lost: the camera is on and held by nobody.
\* late: the panel was closed, or opened again, with a call under way.
NoPanel == [lobby |-> "closed", ok |-> FALSE, open |-> FALSE, asking |-> 0, stream |-> FALSE,
            lost |-> FALSE, late |-> FALSE, shut |-> FALSE, shows |-> None]

\* A message tells of a wave, or which network the wallet is on.
Network == {NetOf[w] : w \in Wave} \cup {"other"}
WaveEvent == {"wave-announce", "wave-verified", "wave-unpaid", "wave-active", "wave-idle",
              "joined", "join-pending", "join-refused"}
Paid == {"none", "pending", "verified"}
Report == [ev : WaveEvent, wave : Wave, joined : BOOLEAN, paid : Paid]
            \cup [ev : {"wallet"}, wave : Network, joined : {FALSE}, paid : {"none"}]
Order == [cmd : {"join", "start", "leave", "stage"}, wave : Wave]

Room == Len(msgs) + 1 < MaxMsgs
Idle == Len(cmds) < MaxCmds /\ panel.asking < MaxAsks
Event(ev, w) == [ev |-> ev, wave |-> w, joined |-> eng'[w].joined, paid |-> eng'[w].paid]
Emit(s) == msgs' = msgs \o s
Cmd(c, w) == [cmd |-> c, wave |-> w]

-----------------------------------------------------------------------------
\* The engine.

Unheard == UNCHANGED <<dir, active, net, panel>>
Quiet == Unheard /\ UNCHANGED <<fees, ghosts>>

\* enterLobby: a seat kept over a lobby time-out is restored.
Lobby(w, paid) == eng' = [eng EXCEPT ![w] = [@ EXCEPT !.phase = "lobby", !.paid = paid]]

Announced(w) ==
  /\ Room
  /\ eng[w].phase = "none" /\ w # Mine
  /\ \E paid \in {"pending", "verified"} : Lobby(w, paid)
  /\ Emit(<<Event("wave-announce", w)>>)
  /\ UNCHANGED <<revived, cmds>> /\ Quiet

\* verifyStartProof, announcePaid: the start burn is real.
Verified(w) ==
  /\ Room
  /\ eng[w].phase = "lobby" /\ eng[w].paid = "pending"
  /\ eng' = [eng EXCEPT ![w].paid = "verified"]
  /\ Emit(<<Event("wave-verified", w)>>)
  /\ UNCHANGED <<revived, cmds>> /\ Quiet

\* Bug: an unpaid wave stays in its lobby, rejected.
BugUnpaid(w) ==
  /\ Room
  /\ eng[w].phase = "lobby" /\ eng[w].paid = "pending"
  /\ eng' = [eng EXCEPT ![w].paid = "rejected"]
  /\ Emit(<<Event("wave-unpaid", w)>>)
  /\ UNCHANGED <<revived, cmds>> /\ Quiet

\* verifyStartProof, or PAY_TIMEOUT_MS for a wave of mine: it is not.
Unpaid(w) ==
  /\ Room
  /\ eng[w].phase = "lobby" /\ eng[w].paid = "pending"
  /\ eng' = [eng EXCEPT ![w].phase = "over", ![w].joined = FALSE]
  /\ Emit((IF w = Mine THEN <<>> ELSE <<Event("wave-unpaid", w)>>) \o <<Event("wave-idle", w)>>)
  /\ UNCHANGED <<revived, cmds>> /\ Quiet

\* finalizeAndStart, handleWaveStart, handleWaveSync: the sweep begins, also of a wave met, or
\* met again, when it starts (a start announces it first, a sync does not).
Races(w) ==
  /\ Room
  /\ \/ eng[w].phase = "lobby" /\ (w = Mine => eng[w].paid = "verified")
     \/ eng[w].phase = "none" /\ w # Mine
  /\ eng' = [eng EXCEPT ![w].phase = "racing"]
  /\ \/ Emit(<<Event("wave-active", w)>>)
     \/ /\ eng[w].phase = "none"
        /\ Emit(<<[Event("wave-announce", w) EXCEPT !.paid = "pending"],
                  Event("wave-active", w)>>)
  /\ UNCHANGED <<revived, cmds>> /\ Quiet

\* goIdle: the sweep has ended, or the lobby timed out and may come back.
GoIdle(w) ==
  /\ Room
  /\ \/ /\ eng[w].phase = "racing"
        /\ eng' = [eng EXCEPT ![w].phase = "over", ![w].joined = FALSE]
        /\ UNCHANGED revived
     \/ /\ eng[w].phase = "lobby" /\ w # Mine /\ w \notin revived
        /\ eng' = [eng EXCEPT ![w].phase = "none"]
        /\ revived' = revived \cup {w}
  /\ Emit(<<Event("wave-idle", w)>>)
  /\ UNCHANGED cmds /\ Quiet

\* handleJoin and handleStartWave ask the wallet, if there is one, before anything else.
Fee == {"join", "start"}

\* exec: the rest is unsubscribe and stageEntry.
Exec ==
  /\ Room
  /\ cmds # <<>>
  /\ cmds' = Tail(cmds)
  /\ LET c == Head(cmds)
         w == c.wave
     IN /\ fees' = IF c.cmd \in Fee THEN fees \cup {c} ELSE fees
        /\ eng' = IF c.cmd = "leave" /\ eng[w].phase \in {"lobby", "racing"}
                  THEN [eng EXCEPT ![w].joined = FALSE] ELSE eng
  /\ UNCHANGED <<msgs, revived, ghosts>> /\ Unheard

\* join: a seat, or why there is none; nothing if the lobby is gone or the seat is taken.
Joins(w) ==
  IF eng[w].phase = "lobby" /\ ~eng[w].joined
  THEN \/ /\ eng[w].paid = "verified"
          /\ eng' = [eng EXCEPT ![w].joined = TRUE]
          /\ Emit(<<Event("joined", w)>>)
       \/ /\ eng[w].paid = "pending"
          /\ UNCHANGED eng /\ Emit(<<Event("join-pending", w)>>)
       \/ UNCHANGED eng /\ Emit(<<Event("join-refused", w)>>)
  ELSE UNCHANGED <<eng, msgs>>

\* startWave: w is a new wave.
Starts(w) ==
  /\ eng[w].phase = "none"
  /\ \E paid \in {"pending", "verified"} :
       eng' = [eng EXCEPT ![w] = [phase |-> "lobby", joined |-> TRUE, paid |-> paid]]
  /\ Emit(<<Event("wave-announce", w)>>)

\* fundedForFee has read the balance: the command is carried out on the wave as it is now, or
\* the funds do not suffice, which the panels are not told (burn-result is but a line of text).
FundsRead(c) ==
  /\ Room
  /\ c \in fees
  /\ fees' = fees \ {c}
  /\ \/ /\ IF c.cmd = "join" THEN Joins(c.wave) ELSE Starts(c.wave)
        /\ UNCHANGED stranded
     \/ /\ UNCHANGED <<eng, msgs>>
        /\ stranded' = IF c.cmd = "join" THEN stranded \cup {c.wave} ELSE stranded
  /\ UNCHANGED <<cmds, revived, ask, sent, waived, missed>> /\ Unheard

\* The engine has moved its wallet to another mint (Engine), once.
MintSwitched(n) ==
  /\ Room
  /\ n # net /\ net = NetOf[Mine]
  /\ \A i \in DOMAIN msgs : msgs[i].ev # "wallet"
  /\ Emit(<<[ev |-> "wallet", wave |-> n, joined |-> FALSE, paid |-> "none"]>>)
  /\ UNCHANGED <<engVars, cmds>> /\ Quiet

-----------------------------------------------------------------------------
\* The panels, as functions of their record.

Late(p) == p.late \/ p.asking > 0

\* proof.close
Shut(p) == [p EXCEPT !.open = FALSE, !.stream = FALSE, !.late = Late(p)]

\* proof.open: it asks for the camera, unless the panel is open.
Frame(p) == IF p.open THEN p ELSE [p EXCEPT !.open = TRUE, !.asking = @ + 1, !.late = Late(p)]

\* The rest of proof.open, once the camera was granted or not.
Answered(p, granted) ==
  [p EXCEPT !.asking = @ - 1, !.stream = @ \/ granted, !.lost = @ \/ (granted /\ p.stream)]

\* lobby.close, lobby.open and lobby.setJoinable
Hide(p) == [p EXCEPT !.lobby = "closed"]
Offer(p, joined, paid) ==
  [p EXCEPT !.lobby = IF joined THEN "in" ELSE "offer", !.ok = IF joined THEN @ ELSE paid = "verified"]
Joinable(p) == IF p.lobby = "offer" THEN [p EXCEPT !.ok = TRUE] ELSE p

\* Bug: the gallery is cleared and not closed.
BugCentre(p) == [p EXCEPT !.shows = None]

\* gallery.close and gallery.setActive: the centre is the camera's, or the gallery's again.
Centre(p) == [p EXCEPT !.shut = TRUE, !.shows = None]
Gallery(p) == [p EXCEPT !.shut = FALSE]

\* gallery.handle, with the moments of w.
Moments(p, w) == IF p.shut THEN p ELSE [p EXCEPT !.shows = w]

\* beginCapture
Begin(p) == Frame(Hide(Centre(p)))

\* proof.captureAndStage: what is framed is staged for the active wave, and the panel closed.
\* (capture draws a frame, or sends none if there is no camera.)
Stage ==
  IF panel.open
  THEN cmds' = Append(cmds, Cmd("stage", active)) /\ sent' = sent \cup {active}
  ELSE UNCHANGED <<cmds, sent>>

Asked(w) == ask' = ask \cup {w} /\ waived' = waived \ {w} /\ missed' = missed \ {w}
            /\ UNCHANGED stranded

\* No moment, or no seat, is expected any more: the user said so, or the engine.
Waive(S) == waived' = waived \cup S /\ UNCHANGED <<ask, missed, stranded>>

\* The moment is not framed, or framed and not staged, by a gap of the code: a lobby that comes
\* back with my seat reopens no camera (AnnounceTheirs); and the open panel of a lobby is taken
\* over by a new wave of mine (AnnounceMine), or closed as the wallet leaves the wave's network
\* (HandleWallet), without onBeforeSwitchWave.
Miss(S) == missed' = missed \cup S /\ UNCHANGED <<ask, waived, stranded>>

\* What is remembered of w counts from one lobby to the next.
Forget(w) == /\ ask' = ask \ {w} /\ sent' = sent \ {w} /\ waived' = waived \ {w}
             /\ missed' = missed \ {w} /\ stranded' = stranded \ {w}

\* Bug: the panel of a lobby I am in is not opened again.
BugShown(a, d) ==
  LET p == Shut(Hide(Centre(panel))) IN
  IF a = None THEN Gallery(p)
  ELSE IF d[a].phase # "lobby" THEN Moments(Gallery(p), a)
  ELSE Offer(p, d[a].joined, d[a].paid)

\* renderActiveWave, for the wave a and the directory d.
Shown(a, d) ==
  LET p == Shut(Hide(Centre(panel))) IN
  IF a = None THEN Gallery(p)
  ELSE IF d[a].phase # "lobby" THEN Moments(Gallery(p), a)
  ELSE IF d[a].joined THEN Begin(p) ELSE Offer(p, FALSE, d[a].paid)

-----------------------------------------------------------------------------
\* Events.

\* DIRECTORY_PATCH, of a wave that is known or announced, and not dismissed.
Patch(m, e) ==
  CASE m.ev = "wave-announce" -> [phase |-> "lobby", joined |-> m.joined, paid |-> m.paid]
    [] m.ev = "joined"        -> [e EXCEPT !.joined = TRUE]
    [] m.ev = "wave-verified" -> [e EXCEPT !.paid = "verified"]
    [] m.ev = "wave-active"   -> [e EXCEPT !.phase = "racing", !.joined = m.joined]
    [] m.ev = "wave-idle"     -> [e EXCEPT !.phase = "ended"]
    [] OTHER                  -> e

Updated(m) ==
  LET e == dir[m.wave] IN
  IF e.phase = "dismissed" \/ (e.phase = "none" /\ m.ev # "wave-announce") THEN dir
  ELSE [dir EXCEPT ![m.wave] = Patch(m, e)]

Unstaged == UNCHANGED <<cmds, sent>>

\* EVENT_HANDLERS['wave-announce'] of a wave of mine, which the view model has just selected:
\* an open panel stays open, for it.
AnnounceMine(m) ==
  /\ panel' = IF m.paid = "verified" THEN Begin(panel) ELSE Centre(panel)
  /\ missed' = (missed \cup (IF panel.open THEN {active} \ {None} ELSE {})) \ {m.wave}
  /\ waived' = waived \ {m.wave}
  /\ ask' = IF m.paid = "verified" THEN ask \cup {m.wave} ELSE ask
  /\ UNCHANGED stranded /\ Unstaged

\* EVENT_HANDLERS['wave-announce'] of someone's: the panel of a lobby that came back says "you
\* are in" to whom kept a seat.
AnnounceTheirs(m) ==
  /\ panel' = Offer(panel, m.joined, m.paid)
  /\ Miss(IF m.joined THEN {m.wave} ELSE {})
  /\ Unstaged

\* EVENT_HANDLERS.joined and, for a wave of mine, EVENT_HANDLERS['wave-verified']
BeginCapture(m) == panel' = Begin(panel) /\ Asked(m.wave) /\ Unstaged

\* EVENT_HANDLERS['wave-active']
WaveActive ==
  /\ Stage
  /\ panel' = Gallery(IF panel.open THEN Shut(Hide(panel)) ELSE Hide(panel))
  /\ UNCHANGED <<ask, waived, missed, stranded>>

\* EVENT_HANDLERS['wave-idle']
WaveIdle(m) ==
  /\ panel' = Gallery(Shut(Hide(panel)))
  /\ Forget(m.wave)
  /\ UNCHANGED cmds

\* The other handlers change the lobby panel, or only say something.
Panels(p, S) == panel' = p /\ Waive(S) /\ Unstaged

Narrate(m) ==
  CASE m.ev = "wave-announce" -> IF m.wave = Mine THEN AnnounceMine(m) ELSE AnnounceTheirs(m)
    [] m.ev = "wave-verified" -> IF m.wave = Mine THEN BeginCapture(m)
                                 ELSE Panels(Joinable(panel), {})
    [] m.ev = "joined"        -> BeginCapture(m)
    [] m.ev = "join-pending"  -> UNCHANGED <<panel, ghosts, cmds>>
    [] m.ev = "join-refused"  -> Panels(Hide(panel), {m.wave})
    [] m.ev = "wave-unpaid"   -> Panels(Hide(panel), {})
    [] m.ev = "wave-active"   -> WaveActive
    [] m.ev = "wave-idle"     -> WaveIdle(m)

\* A wave that is not shown: nothing is painted.
Unseen(m) ==
  /\ UNCHANGED <<panel, cmds>>
  /\ IF m.ev = "wave-idle" THEN Forget(m.wave) ELSE UNCHANGED ghosts

\* The view model first (updateDirectory, maybeAutoSelect), then the handler of the event, if
\* it is of the active wave.
HandleEvent(m) ==
  /\ dir' = Updated(m)
  /\ active' = IF m.ev = "wave-announce" /\ m.wave = Mine THEN Mine ELSE active
  /\ IF m.wave = active' THEN Narrate(m) ELSE Unseen(m)
  /\ UNCHANGED net

\* handleWallet: a wave of another network is left without its moment; one that stays is painted again.
HandleWallet(m) ==
  /\ net' = m.wave
  /\ active' = IF active # None /\ active # Mine /\ NetOf[active] # net' THEN None ELSE active
  /\ panel' = Shown(active', dir)
  /\ Miss(IF active' # active /\ panel.open THEN {active} ELSE {})
  /\ UNCHANGED <<dir, cmds, sent>>

Handle ==
  /\ msgs # <<>> /\ Idle
  /\ msgs' = Tail(msgs)
  /\ IF Head(msgs).ev = "wallet" THEN HandleWallet(Head(msgs)) ELSE HandleEvent(Head(msgs))
  /\ UNCHANGED engVars

\* SNAPSHOT_PAINTERS.feed: moments of the active wave have come in.
FeedComesIn ==
  /\ active # None
  /\ panel' = Moments(panel, active)
  /\ UNCHANGED <<engVars, msgs, cmds, dir, active, net, ghosts>>

\* getUserMedia answers, with a stream or not: open() goes on, whatever happened meanwhile.
CameraAnswers ==
  /\ panel.asking > 0
  /\ \E granted \in BOOLEAN : panel' = Answered(panel, granted)
  /\ UNCHANGED <<engVars, msgs, cmds, dir, active, net, ghosts>>

-----------------------------------------------------------------------------
\* The user.

Still == UNCHANGED <<engVars, msgs, dir, net>>

\* visibleWaves: the waves with a ring to click.
Visible == {w \in Wave : /\ dir[w].phase \in {"lobby", "racing", "ended"}
                         /\ w = Mine \/ NetOf[w] = net}

\* selectWave: onBeforeSwitchWave stages what is framed, then the new wave is painted.
Select(w) ==
  /\ Idle
  /\ w \in Visible \ {active}
  /\ Stage
  /\ active' = w
  /\ panel' = Shown(w, dir)
  /\ IF dir[w].phase = "lobby" /\ dir[w].joined THEN Asked(w) ELSE UNCHANGED <<ask, waived, missed, stranded>>
  /\ Still

\* dismissWave
Dismiss(w) ==
  /\ Idle
  /\ dir[w].phase \in {"lobby", "racing", "ended"}
  /\ cmds' = Append(cmds, Cmd("leave", w))
  /\ dir' = [dir EXCEPT ![w] = [NoWave EXCEPT !.phase = "dismissed"]]
  /\ IF w = active THEN active' = None /\ panel' = Shown(None, dir) ELSE UNCHANGED <<active, panel>>
  /\ Forget(w)
  /\ UNCHANGED <<engVars, msgs, net>>

\* joinBtn: hidden once pressed.
Join ==
  /\ Idle
  /\ panel.lobby = "offer" /\ panel.ok /\ active # None
  /\ panel' = [panel EXCEPT !.lobby = "in"]
  /\ cmds' = Append(cmds, Cmd("join", active))
  /\ stranded' = stranded \ {active}
  /\ Still /\ UNCHANGED <<active, ask, sent, waived, missed>>

\* cancelBtn: not now
NotNow ==
  /\ panel.lobby = "offer" /\ active # None
  /\ panel' = Hide(panel)
  /\ Waive({active})
  /\ Still /\ UNCHANGED <<active, cmds, sent>>

\* captureBtn
Capture ==
  /\ Idle
  /\ panel.open
  /\ Stage
  /\ panel' = Shut(panel)
  /\ Still /\ UNCHANGED <<active, ask, waived, missed, stranded>>

\* skipBtn
Skip ==
  /\ panel.open
  /\ panel' = Shut(panel)
  /\ Waive({active})
  /\ Still /\ UNCHANGED <<active, cmds, sent>>

Start ==
  /\ Idle
  /\ eng[Mine].phase = "none" /\ Cmd("start", Mine) \notin fees \cup {cmds[i] : i \in DOMAIN cmds}
  /\ cmds' = Append(cmds, Cmd("start", Mine))
  /\ Still /\ UNCHANGED <<active, panel, ghosts>>

-----------------------------------------------------------------------------
Init ==
  /\ eng = [w \in Wave |-> NoWave] /\ revived = {} /\ fees = {}
  /\ msgs = <<>> /\ cmds = <<>>
  /\ dir = [w \in Wave |-> NoWave]
  /\ active = None /\ net = NetOf[Mine]
  /\ panel = NoPanel
  /\ ask = {} /\ sent = {} /\ waived = {} /\ missed = {} /\ stranded = {}

Next ==
  \/ \E w \in Wave : Announced(w) \/ Verified(w) \/ Unpaid(w) \/ Races(w) \/ GoIdle(w)
  \/ Exec
  \/ \E c \in fees : FundsRead(c)
  \/ \E n \in Network : MintSwitched(n)
  \/ Handle \/ CameraAnswers \/ FeedComesIn
  \/ \E w \in Wave : Select(w) \/ Dismiss(w)
  \/ Join \/ NotNow \/ Capture \/ Skip \/ Start

Spec == Init /\ [][Next]_vars

-----------------------------------------------------------------------------
\* Type correctness of every variable.
TypeOK ==
  /\ eng \in [Wave -> [phase : {"none", "lobby", "racing", "over"}, joined : BOOLEAN, paid : Paid]]
  /\ msgs \in Seq(Report) /\ cmds \in Seq(Order)
  /\ dir \in [Wave -> [phase : {"none", "lobby", "racing", "ended", "dismissed"}, joined : BOOLEAN,
                       paid : Paid]]
  /\ active \in Wave \cup {None} /\ net \in Network
  /\ panel \in [lobby : {"closed", "offer", "in"}, ok : BOOLEAN, open : BOOLEAN,
                asking : 0..MaxAsks, stream : BOOLEAN, lost : BOOLEAN, late : BOOLEAN,
                shut : BOOLEAN, shows : Wave \cup {None}]
  /\ revived \in SUBSET Wave
  /\ fees \in SUBSET [cmd : Fee, wave : Wave]
  /\ ask \in SUBSET Wave /\ sent \in SUBSET Wave /\ waived \in SUBSET Wave
  /\ missed \in SUBSET Wave /\ stranded \in SUBSET Wave

Settled(w) ==
  /\ \A i \in DOMAIN msgs : msgs[i].wave # w
  /\ \A i \in DOMAIN cmds : cmds[i].wave # w
  /\ \A c \in fees : c.wave # w

\* Invariant 3 of app-core.js: when a wave starts, the moment the user was asked for is staged,
\* though the user may have gone to look at another wave since, and has no moment to frame there.
\* (Not by the three paths of Miss: app-core.js promises it for every way a wave is left.)
WatchedIsStaged ==
  \A w \in Wave : dir[w].phase = "racing" /\ w \in ask \ (waived \cup missed) => w \in sent

\* Who looks at a lobby is asked for what is needed next, once nothing about it is on its way:
\* with a seat (and, for a wave of mine, the fee paid) to frame a moment, without one to join
\* as soon as the start fee is proven paid, unless the moment or the seat was given up or
\* missed.  Who was refused for want of funds may be told to be in, with no seat: the lobby
\* panel hears nothing of it.
LobbyAsks ==
  active # None /\ dir[active].phase = "lobby" /\ Settled(active)
      /\ active \notin waived \cup missed /\ dir[active].paid = "verified" =>
    IF dir[active].joined THEN panel.open \/ active \in sent
    ELSE \/ panel.lobby = "offer" /\ panel.ok
         \/ panel.lobby = "in" /\ active \in stranded

\* The camera is on only while a moment is framed, and only once.  (If the panel is closed, or
\* opened again, before the camera answers, it may stay on: `late`.)
CameraOff == (panel.stream /\ ~panel.open) \/ panel.lost => panel.late

\* The ring's centre has one owner: the gallery paints no moment behind the camera, and none of
\* a wave that is not the active one (a lingering wave's feed keeps coming in), and it is open
\* again whenever the active wave races or has ended, or nothing would be seen of it.
OneCentre ==
  /\ CameraOff
  /\ panel.open => panel.shut
  /\ panel.shows \in {None, active}
  /\ active # None /\ dir[active].phase \in {"racing", "ended"} => ~panel.shut

\* What the user is asked for is what the wave's phase and seat call for, and is staged in time.
MomentTaken == WatchedIsStaged /\ LobbyAsks
=============================================================================
