------------------------------- MODULE Sweep -------------------------------
(***************************************************************************)
(* The pure arithmetic of a sweep: a peer's seat on the ring (lib/ring.js),*)
(* the lap an initiator chooses (finalizeAndStart of lib/wave.js) and the  *)
(* slots every peer derives from the same roster (lib/sweep.js).           *)
(*                                                                         *)
(* A peer id is its key, a number.  angleOf keeps the top six bytes of the *)
(* thirty-two: keys that agree in them, Arc keys in a row, share an angle. *)
(***************************************************************************)
EXTENDS Naturals, FiniteSets

CONSTANT Arc \* how many keys share an angle

ASSUME ArcAssumption == Arc \in Nat \ {0}

SLOT_MS == 400
MIN_LAP_MS == 4000
MAX_LAP_MS == 60000

\* Angles are compared, and grow with the key's top bytes: their number stands for
\* them.
angleOf(key) == key \div Arc

\* The order of the seats: by angle, by id where angles are equal.
Before(a, b) ==
  \/ angleOf(a) < angleOf(b)
  \/ angleOf(a) = angleOf(b) /\ a < b

\* A roster member's place in the sweep, the first being 0.
Rank(roster, id) == Cardinality({q \in roster : Before(q, id)})

\* Math.round(n / d) of natural numbers.
Round(n, d) == (2 * n + d) \div (2 * d)

\* When slot `rank` of `count` fires, in a lap that starts at t0.
SlotAt(rank, count, t0, lapMs) == t0 + Round(rank * lapMs, count)

\* The lap of a roster of n, spaced by SLOT_MS within limits.
LapOf(n) ==
  LET wanted == n * SLOT_MS
  IN  IF wanted < MIN_LAP_MS THEN MIN_LAP_MS
      ELSE IF wanted > MAX_LAP_MS THEN MAX_LAP_MS
      ELSE wanted

\* sweepSchedule(): each member's slot.  mySlot(schedule, id) is schedule[id] where id
\* is in the roster.
sweepSchedule(roster, t0, lapMs) ==
  [id \in roster |->
     LET rank == Rank(roster, id)
     IN  [rank |-> rank, at |-> SlotAt(rank, Cardinality(roster), t0, lapMs)]]

=============================================================================
