---------------------------- MODULE QueuePromise ----------------------------
(***************************************************************************)
(* The send queue's contract SendQueue as a specification that             *)
(* PacketSender implements: what the contract's variables are, in terms of *)
(* the queue, the flags and the history of the detailed model.             *)
(***************************************************************************)
EXTENDS PacketSender

(* The video packet pushed just before p, if any, in whatever state. *)
Predecessor(p) ==
  LET before == {q \in Video(Everything) : q.seq < p.seq}
  IN  {q \in before : \A r \in before : r.seq <= q.seq}

(* A frame refers to the video packet before it in the stream, unless it is*)
(* a keyframe; whether that packet was dropped is settled when it is queued.*)
Mark(p) ==
  IF p.kind = "key" THEN "I"
  ELSE IF Predecessor(p) \cap dropped # {} THEN "G" ELSE "P"

Over == dead \/ stop

(* The packet of S that i - 1 others are older than. *)
Place(S, p) == Cardinality({q \in S : q.seq <= p.seq})
Nth(S, i) == CHOOSE p \in S : Place(S, p) = i

Backlog ==
  IF Over THEN << >>
  ELSE [i \in 1 .. Cardinality(Video(queue)) |-> Mark(Nth(Video(queue), i))]

Gap ==
  \E p \in dropped : \A q \in Video(Everything) : q.seq <= p.seq

Promise == INSTANCE SendQueue WITH
  backlog <- Backlog, gap <- Gap, resync <- resync_requested, dead <- Over

(* The detailed queue implements SendQueue: what it discards it discards   *)
(* whole, it keeps order, and it asks for a keyframe exactly when what it  *)
(* gave up leaves the next frame without its reference.                    *)
KeepsPromise == Promise!QueueSpec
=============================================================================
