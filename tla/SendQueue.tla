----------------------------- MODULE SendQueue -----------------------------
(***************************************************************************)
(* What PacketSender promises the rest of the sender about video: a FIFO   *)
(* that may, at any moment, give up its whole backlog, and that asks for a *)
(* keyframe whenever what it gave up leaves the next frame undecodable.    *)
(* Bytes, budgets, cursor packets, threads and statistics are not part of  *)
(* the promise; PacketSender has them and is shown to keep it.             *)
(*                                                                         *)
(* A video packet is represented by what its receiver can do with it:      *)
(*   "I"  a keyframe, decodable on its own;                                *)
(*   "P"  a frame whose reference is the packet before it in the stream;   *)
(*   "G"  a frame whose reference was given up: decodable by nobody.       *)
(***************************************************************************)
EXTENDS Naturals, Sequences

VARIABLES
  backlog,   (* marks of the queued video packets, oldest first             *)
  gap,       (* the newest video packet offered was given up                *)
  resync,    (* a keyframe has been asked for and nobody has taken the wish *)
  dead       (* the socket has failed; the queue accepts nothing more       *)

queueVars == <<backlog, gap, resync, dead>>

Marks == {"I", "P", "G"}

QueueTypeOK ==
  /\ backlog \in Seq(Marks)
  /\ gap \in BOOLEAN
  /\ resync \in BOOLEAN
  /\ dead \in BOOLEAN

QueueInit ==
  /\ backlog = << >>
  /\ gap = FALSE
  /\ resync = FALSE
  /\ dead = FALSE
-----------------------------------------------------------------------------
(* The mark of a video packet queued now. *)
MarkOf(key) == IF key THEN "I" ELSE IF gap THEN "G" ELSE "P"

(* A packet that fits joins the queue. *)
Keep(key) ==
  /\ ~dead
  /\ backlog' = Append(backlog, MarkOf(key))
  /\ gap' = FALSE
  /\ UNCHANGED <<resync, dead>>

(* A packet that does not fit takes the whole backlog with it, unless it is *)
(* a keyframe: that one is worth queueing alone.                            *)
Overflow(key) ==
  /\ ~dead
  /\ backlog' = IF key THEN <<"I">> ELSE << >>
  /\ gap' = ~key
  /\ resync' = (resync \/ ~key)
  /\ UNCHANGED dead

Offer(key) == Keep(key) \/ Overflow(key)

(* The oldest packet goes to the socket. *)
Send ==
  /\ ~dead
  /\ backlog # << >>
  /\ backlog' = Tail(backlog)
  /\ UNCHANGED <<gap, resync, dead>>

(* The run loop collects the request for a keyframe. *)
TakeResync ==
  /\ resync' = FALSE
  /\ UNCHANGED <<backlog, gap, dead>>

(* The socket fails, or the connection is torn down. *)
Fail ==
  /\ dead' = TRUE
  /\ backlog' = << >>
  /\ UNCHANGED <<gap, resync>>

QueueNext ==
  \/ \E key \in BOOLEAN : Offer(key)
  \/ Send
  \/ TakeResync
  \/ Fail

QueueSpec == QueueInit /\ [][QueueNext]_queueVars
=============================================================================
