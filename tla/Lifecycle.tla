----------------------------- MODULE Lifecycle -----------------------------
(***************************************************************************)
(* What the wave engine promises about ONE wave, without messages: every   *)
(* peer walks unaware -> lobby -> racing -> ended, nobody races before the *)
(* initiator has frozen the roster, the roster is frozen once, whoever     *)
(* races seats at least the frozen roster, and an ended wave never comes   *)
(* back.  A lobby may be given up and taken up again (the revivable        *)
(* "lobby-timeout" of wave.js).  Module Wave implements this one.          *)
(***************************************************************************)
CONSTANTS Peer, Initiator

VARIABLES life, seats, frozen

vars == <<life, seats, frozen>>

Init ==
  /\ life = [p \in Peer |-> "unaware"]
  /\ seats = [p \in Peer |-> {}]
  /\ frozen = {}

Engage(p) ==
  /\ life[p] = "unaware"
  /\ life' = [life EXCEPT ![p] = "lobby"]
  /\ UNCHANGED <<seats, frozen>>

\* The initiator closes its lobby: the only step that fixes the roster.
Freeze ==
  /\ life[Initiator] = "lobby"
  /\ frozen = {}
  /\ \E roster \in SUBSET Peer :
       /\ Initiator \in roster
       /\ frozen' = roster
       /\ seats' = [seats EXCEPT ![Initiator] = roster]
  /\ life' = [life EXCEPT ![Initiator] = "racing"]

\* Any other peer starts racing on a schedule it was told.
Adopt(p) ==
  /\ p # Initiator
  /\ life[p] \in {"unaware", "lobby"}
  /\ frozen # {}
  /\ \E roster \in SUBSET Peer :
       /\ frozen \subseteq roster
       /\ seats' = [seats EXCEPT ![p] = roster]
  /\ life' = [life EXCEPT ![p] = "racing"]
  /\ UNCHANGED frozen

GiveUp(p) ==
  /\ p # Initiator
  /\ life[p] = "lobby"
  /\ life' = [life EXCEPT ![p] = "unaware"]
  /\ UNCHANGED <<seats, frozen>>

End(p) ==
  /\ life[p] = "racing"
  /\ life' = [life EXCEPT ![p] = "ended"]
  /\ seats' = [seats EXCEPT ![p] = {}]
  /\ UNCHANGED frozen

Next ==
  \/ Freeze
  \/ \E p \in Peer : Engage(p) \/ Adopt(p) \/ GiveUp(p) \/ End(p)

Spec == Init /\ [][Next]_vars

=============================================================================
