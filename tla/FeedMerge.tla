----------------------------- MODULE FeedMerge -----------------------------
(***************************************************************************)
(* The pure math of a wave's feed (lib/feed.js): which operations read from*)
(* the participants' cores are admitted, what is kept of them, and the     *)
(* order they are shown in.                                                *)
(*                                                                         *)
(* Signatures are abstracted to what they tell: an operation is signed if  *)
(* its join attestation verifies for its peer, wave and core, and its burn *)
(* is the payer of an attestation that verifies, or NoBurn.                *)
(***************************************************************************)
EXTENDS Naturals, Sequences, FiniteSets

NoBurn == 0
NoAddress == 0

\* entryHasValidJoin() and the cap on the serialized payload.
Admitted(op) == op.signed /\ op.fits

\* tipAddressIsBackedByBurn().
Backed(op) == op.burn # NoBurn /\ op.burn = op.address

\* What is kept of an admitted operation: the burn's reference is, backed or not.
Entry(op) ==
  [peer |-> op.peer, hop |-> op.hop, time |-> op.time,
   address |-> IF Backed(op) THEN op.address ELSE NoAddress,
   burnTx |-> op.burn # NoBurn]

\* The entries that stay: one per peer, the newest, the first read of equals.
Newest(es) ==
  {i \in 1 .. Len(es) :
     \A j \in 1 .. Len(es) :
       es[j].peer = es[i].peer =>
         \/ es[j].time < es[i].time
         \/ es[j].time = es[i].time /\ i <= j}

\* A peer's place in the table: that of its first entry read.
Turn(es, i) ==
  CHOOSE t \in 1 .. Len(es) :
    /\ es[t].peer = es[i].peer
    /\ \A j \in 1 .. t - 1 : es[j].peer # es[i].peer

\* Bug: entries of one hop stay in the order they were read.
BugEarlier(es, j, i) ==
  \/ es[j].hop < es[i].hop
  \/ es[j].hop = es[i].hop /\ Turn(es, j) < Turn(es, i)

\* The order of the feed: by hop, then time; the sort is stable.
Earlier(es, j, i) ==
  \/ es[j].hop < es[i].hop
  \/ /\ es[j].hop = es[i].hop
     /\ \/ es[j].time < es[i].time
        \/ es[j].time = es[i].time /\ Turn(es, j) < Turn(es, i)

buildFeed(es) ==
  LET kept == Newest(es)
      Before(i) == Cardinality({j \in kept : Earlier(es, j, i)})
  IN  [k \in 1 .. Cardinality(kept) |-> es[CHOOSE i \in kept : Before(i) = k - 1]]

mergeFeed(raw) ==
  LET feed == buildFeed(SelectSeq(raw, Admitted))
  IN  [k \in 1 .. Len(feed) |-> Entry(feed[k])]

=============================================================================
