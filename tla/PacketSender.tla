---------------------------- MODULE PacketSender ----------------------------
(***************************************************************************)
(* src/sender/packet_sender.{h,cpp}: the send queue of one connection.     *)
(* Producers (the encoder's event thread, and the run loop and the control *)
(* thread, which queue cursor packets and pongs) push under mutex_; run()  *)
(* drains the queue to the socket on a thread of its own; the run loop     *)
(* retunes the budget, collects the resync request and the counters, and   *)
(* in the end destroys the object.                                         *)
(*                                                                         *)
(* queue_ is a deque that is only ever appended to and popped or erased    *)
(* from, always under mutex_.  It is modelled as the set of its packets,   *)
(* each stamped with its turn in push order; its front is the least stamp. *)
(***************************************************************************)
EXTENDS Naturals, FiniteSets, FiniteSetsExt

CONSTANTS
  SizeOf,       (* kind of packet -> the sizes in bytes it may have          *)
  Budgets,      (* the values set_max_queued_bytes is called with            *)
  MaxPackets,   (* bound on the packets ever pushed, for TLC                 *)
  None

Kinds == {"key", "delta", "control"}

ASSUME SizeAssumption ==
  /\ SizeOf \in [Kinds -> SUBSET (Nat \ {0})]
  /\ Budgets \subseteq Nat
  /\ Budgets # {} /\ IsFiniteSet(Budgets)   (* size_t *)
  /\ MaxPackets \in Nat
  /\ None \notin [seq : Nat \ {0}, kind : Kinds, size : Nat \ {0}]

VARIABLES
  queue, queued_bytes, max_queued_bytes, stop, dead, resync_requested, stats,
  thread,    (* where run() is                                               *)
  packet,    (* run()'s local: the packet being sent                         *)
  owner,     (* how far the destructor has got                               *)
  totals,    (* the run loop's accumulate() over every take_stats()          *)
  (* history, never read by the code: *)
  pushed,    (* how many packets push() has accepted for consideration       *)
  sent,      (* packets send_all has returned TRUE for                       *)
  dropped,   (* video packets a flush has discarded                          *)
  cleared    (* packets discarded because the connection is over             *)

lockVars == <<queue, queued_bytes, resync_requested, stats>>
history == <<pushed, sent, dropped, cleared>>
vars == <<lockVars, max_queued_bytes, stop, dead, thread, packet, owner, totals, history>>

Packet == [seq : Nat \ {0}, kind : Kinds, size : Nat \ {0}]

(* Stats, without the two fields only a log line reads: dropped_bytes and  *)
(* peak_queued_bytes.                                                      *)
Counters == [video : Nat, bytes : Nat, dropped : Nat, flushes : Nat]
NoCount == [video |-> 0, bytes |-> 0, dropped |-> 0, flushes |-> 0]

IsVideo(p) == p.kind # "control"
Video(S) == {p \in S : IsVideo(p)}
Bytes(S) == MapThenSumSet(LAMBDA p : p.size, S)
Newest == CHOOSE p \in queue : \A q \in queue : q.seq <= p.seq (* faulty Oldest *)
Oldest == CHOOSE p \in queue : \A q \in queue : p.seq <= q.seq
Flight == IF packet = None THEN {} ELSE {packet}
-----------------------------------------------------------------------------
Init ==
  /\ queue = {} /\ queued_bytes = 0
  /\ max_queued_bytes \in Budgets
  /\ stop = FALSE /\ dead = FALSE
  /\ resync_requested = FALSE
  /\ stats = NoCount /\ totals = NoCount
  /\ thread = "awake" /\ packet = None
  /\ owner = "live"
  /\ pushed = 0 /\ sent = {} /\ dropped = {} /\ cleared = {}
-----------------------------------------------------------------------------
(* Faulty variants of Notified: the notify is forgotten; it is sent only   *)
(* when there is something to send.                                        *)
NotNotified == thread
NotifiedOfWork == IF thread = "parked" /\ queue' # {} THEN "awake" ELSE thread

(* cv_.notify: the parked drain thread looks at the queue again. *)
Notified == IF thread = "parked" THEN "awake" ELSE thread

(* send_video, send_cursor and send_pong give up at once on a dead          *)
(* connection, before taking mutex_; push tests again under it. The first  *)
(* test changes nothing, so only the second is a step: an offer made on a  *)
(* stale answer is one that push refuses, or would have to.                *)
RefusingIfStopped == stop (* faulty: only the unlocked test looks at dead_ *)
Refusing == stop \/ dead

(* A packet of the kind and size offered, stamped with its turn. *)
Stamped(k, n) == [seq |-> pushed + 1, kind |-> k, size |-> n]

(* Faulty variants of Fits: cursor packets overflow too; the newcomer's    *)
(* own size is left out.                                                   *)
FitsAnyKind(p) == queued_bytes + p.size <= max_queued_bytes
FitsWithoutSelf(p) == ~IsVideo(p) \/ queued_bytes <= max_queued_bytes

Fits(p) == ~IsVideo(p) \/ queued_bytes + p.size <= max_queued_bytes

Enqueue(p) ==
  /\ Fits(p)
  /\ queue' = queue \cup {p}
  /\ queued_bytes' = queued_bytes + p.size
  /\ thread' = Notified
  /\ UNCHANGED <<resync_requested, stats, dropped>>

(* What a flush discards: all queued video (faulty: just the newest of it). *)
NewestVictim == {p \in Video(queue) : \A q \in Video(queue) : q.seq <= p.seq}
Victims == Video(queue)

(* The byte count a flush leaves (faulty: subtracted twice; not at all). *)
BytesLeftTwice == queued_bytes - 2 * Bytes(Victims)
BytesLeftStale == queued_bytes
BytesLeft == queued_bytes - Bytes(Victims)

(* The counters a flush leaves: every victim, and the newcomer if it goes too. *)
Flushed(lost) ==
  [stats EXCEPT !.dropped = @ + Cardinality(lost), !.flushes = @ + 1]

(* Overflow, and the newcomer is a keyframe: it replaces the video backlog. *)
FlushAndKeep(p) ==
  /\ ~Fits(p) /\ p.kind = "key"
  /\ queue' = (queue \ Victims) \cup {p}
  /\ queued_bytes' = BytesLeft + p.size
  /\ stats' = Flushed(Victims)
  /\ dropped' = dropped \cup Victims
  /\ thread' = Notified
  /\ UNCHANGED resync_requested

(* Overflow, and the newcomer references what is being discarded: it goes  *)
(* with the backlog, a keyframe is asked for, and nobody needs waking.     *)
FlushAndDrop(p) ==
  /\ ~Fits(p) /\ p.kind # "key"
  /\ queue' = queue \ Victims
  /\ queued_bytes' = BytesLeft
  /\ stats' = Flushed(Victims \cup {p})
  /\ dropped' = dropped \cup Victims \cup {p}
  /\ resync_requested' = TRUE
  /\ UNCHANGED thread

(* A producer offers a packet. The owner outlives its producers: by the    *)
(* time ~PacketSender runs the encoder's sink is gone, the control thread  *)
(* is joined, and the run loop is in the destructor.                       *)
Push(k, n) ==
  LET p == Stamped(k, n)
  IN  /\ owner = "live"
      /\ ~Refusing
      /\ pushed < MaxPackets
      /\ Enqueue(p) \/ FlushAndKeep(p) \/ FlushAndDrop(p)
      /\ pushed' = pushed + 1
      /\ UNCHANGED <<max_queued_bytes, stop, dead, packet, owner, totals, sent,
                     cleared>>
-----------------------------------------------------------------------------
(* run(): the wait finds nothing to do. *)
Park ==
  /\ thread = "awake"
  /\ ~stop /\ queue = {}
  /\ thread' = "parked"
  /\ UNCHANGED <<lockVars, max_queued_bytes, stop, dead, packet, owner, totals, history>>

StopSeen ==
  /\ thread = "awake"
  /\ stop
  /\ thread' = "exited"
  /\ UNCHANGED <<lockVars, max_queued_bytes, stop, dead, packet, owner, totals, history>>

Pop ==
  /\ thread = "awake"
  /\ ~stop /\ queue # {}
  /\ packet' = Oldest
  /\ queue' = queue \ {Oldest}
  /\ queued_bytes' = queued_bytes - Oldest.size
  /\ thread' = "sending"
  /\ UNCHANGED <<resync_requested, stats, max_queued_bytes, stop, dead, owner,
                 totals, history>>

(* send_all returns, outside the lock; a socket that was shut down only fails. *)
SendDone ==
  /\ thread = "sending"
  /\ owner # "shut"
  /\ sent' = sent \cup {packet}
  /\ thread' = "sent"
  /\ UNCHANGED <<lockVars, max_queued_bytes, stop, dead, packet, owner, totals, pushed, dropped, cleared>>

Count ==
  /\ thread = "sent"
  /\ stats' = [stats EXCEPT !.video = IF IsVideo(packet) THEN @ + 1 ELSE @,
                            !.bytes = @ + packet.size]
  /\ packet' = None
  /\ thread' = "awake"
  /\ UNCHANGED <<queue, queued_bytes, resync_requested, max_queued_bytes, stop,
                 dead, owner, totals, history>>

(* A reset, a five-second stall, or the destructor's shutdown. *)
SendFailed ==
  /\ thread = "sending"
  /\ dead' = TRUE
  /\ thread' = "failed"
  /\ cleared' = cleared \cup {packet}
  /\ packet' = None
  /\ UNCHANGED <<lockVars, max_queued_bytes, stop, owner, totals, pushed,
                 sent, dropped>>

ClearAndExit ==
  /\ thread = "failed"
  /\ cleared' = cleared \cup queue
  /\ queue' = {}
  /\ queued_bytes' = 0
  /\ thread' = "exited"
  /\ UNCHANGED <<resync_requested, stats, max_queued_bytes, stop, dead, packet,
                 owner, totals, pushed, sent, dropped>>
-----------------------------------------------------------------------------
(* The run loop's calls. *)
SetMaxQueuedBytes ==
  /\ owner = "live"
  /\ \E b \in Budgets : max_queued_bytes' = b
  /\ UNCHANGED <<lockVars, stop, dead, thread, packet, owner, totals,
                 history>>

TakeResyncRequest ==
  /\ owner = "live"
  /\ resync_requested' = FALSE
  /\ UNCHANGED <<queue, queued_bytes, stats, max_queued_bytes, stop, dead,
                 thread, packet, owner, totals, history>>

Plus(a, b) == [c \in DOMAIN a |-> a[c] + b[c]]

(* Faulty: the counters are copied and not reset. *)
CopyStats ==
  /\ owner = "live"
  /\ totals' = Plus(totals, stats)
  /\ UNCHANGED <<queue, queued_bytes, resync_requested, stats, max_queued_bytes,
                 stop, dead, thread, packet, owner, history>>

TakeStats ==
  /\ owner = "live"
  /\ totals' = Plus(totals, stats)
  /\ stats' = NoCount
  /\ UNCHANGED <<queue, queued_bytes, resync_requested, max_queued_bytes, stop,
                 dead, thread, packet, owner, history>>

(* ~PacketSender. *)
Stop ==
  /\ owner = "live"
  /\ stop' = TRUE
  /\ cleared' = cleared \cup queue
  /\ queue' = {}
  /\ queued_bytes' = 0
  /\ thread' = Notified
  /\ owner' = "stopping"
  /\ UNCHANGED <<resync_requested, stats, max_queued_bytes, dead, packet, totals, pushed, sent, dropped>>

Shutdown ==
  /\ owner = "stopping"
  /\ owner' = "shut"
  /\ UNCHANGED <<lockVars, max_queued_bytes, stop, dead, thread, packet, totals, history>>

JoinAndClose ==
  /\ owner = "shut"
  /\ thread = "exited"
  /\ owner' = "closed"
  /\ UNCHANGED <<lockVars, max_queued_bytes, stop, dead, thread, packet, totals, history>>
-----------------------------------------------------------------------------
Drain == Park \/ StopSeen \/ Pop \/ SendDone \/ Count \/ SendFailed \/ ClearAndExit

RunLoop ==
  \/ SetMaxQueuedBytes \/ TakeResyncRequest \/ TakeStats
  \/ Stop \/ Shutdown \/ JoinAndClose

Next ==
  \/ \E k \in Kinds : \E n \in SizeOf[k] : Push(k, n)
  \/ Drain
  \/ RunLoop

Spec == Init /\ [][Next]_vars

(* Both threads keep running; a send in progress is NOT assumed to return  *)
(* by itself, since a peer that accepts a trickle can hold it for ever.    *)
(* Only once the socket is shut down is it certain to come back.           *)
Fairness ==
  /\ WF_vars(Park \/ StopSeen \/ Pop \/ Count \/ ClearAndExit)
  /\ WF_vars(owner = "shut" /\ SendFailed)
  /\ WF_vars(Shutdown) /\ WF_vars(JoinAndClose)

FairSpec == Spec /\ Fairness
-----------------------------------------------------------------------------
(* Every packet ever pushed, wherever it is now. *)
Everything == queue \cup Flight \cup sent \cup dropped \cup cleared

(* Every variable but the byte count is of its type. *)
ShapeOK ==
  /\ queue \subseteq Packet /\ IsFiniteSet(queue)
  /\ max_queued_bytes \in Budgets
  /\ stop \in BOOLEAN /\ dead \in BOOLEAN /\ resync_requested \in BOOLEAN
  /\ stats \in Counters /\ totals \in Counters
  /\ thread \in {"awake", "parked", "sending", "sent", "failed", "exited"}
  /\ packet \in Packet \cup {None}
  /\ owner \in {"live", "stopping", "shut", "closed"}
  /\ pushed \in Nat
  /\ sent \subseteq Packet /\ dropped \subseteq Packet /\ cleared \subseteq Packet

(* The variables are of their types; in particular the byte count, which   *)
(* the code keeps in a size_t, never goes below zero.                      *)
TypeOK == ShapeOK /\ queued_bytes \in Nat

(* The running byte count is the bytes of what is queued, through every    *)
(* push, pop, flush and clear: an overflow is judged by this count alone.  *)
BytesAccounted == queued_bytes = Bytes(queue)

(* The drain thread never sleeps on work: whenever it is parked there is   *)
(* nothing queued and nobody has asked it to stop, so no notify is missing *)
(* from a path that queues (the path that drops its packet notifies no one *)
(* and must not need to).                                                  *)
NoLostWakeup == thread = "parked" => queue = {} /\ ~stop

(* Once the drain thread is gone nothing is ever queued again: a producer  *)
(* that saw a live connection before the lock cannot leave a packet behind *)
(* that nobody will send, free or count.                                   *)
NothingStranded == thread = "exited" => queue = {}

(* No packet is lost track of: each one pushed is queued, in flight, sent, *)
(* dropped or cleared, and in one of these only (a packet whose send has   *)
(* returned is in flight until it is counted). Only video is ever dropped  *)
(* by a backlog; a cursor packet or a pong goes missing only together with *)
(* the connection.                                                         *)
NothingVanishes ==
  /\ \A n \in 1 .. pushed : \E p \in Everything : p.seq = n
  /\ \A p, q \in Everything : p.seq = q.seq => p = q
  /\ queue \cap (Flight \cup sent \cup dropped \cup cleared) = {}
  /\ dropped \cap (Flight \cup sent \cup cleared) = {}
  /\ cleared \cap (Flight \cup sent) = {}
  /\ \A p \in dropped : IsVideo(p)
  /\ cleared # {} => dead \/ stop

(* What has been handed to the socket was pushed before anything queued:   *)
(* the wire carries the packets in push order whatever was flushed between.*)
InOrder ==
  /\ \A p \in sent \cup Flight : \A q \in queue : p.seq < q.seq
  /\ \A p \in sent, q \in Flight : p.seq <= q.seq

(* The backlog is a latency bound. Up to and including any queued video    *)
(* packet the queue holds no more than the largest budget in use, unless   *)
(* that packet is a keyframe queued alone, with no video before it.        *)
BacklogBounded ==
  \A v \in Video(queue) :
    LET ahead == {p \in queue : p.seq <= v.seq}
    IN  \/ Bytes(ahead) <= Max(Budgets)
        \/ v.kind = "key" /\ Video(ahead) = {v}

(* take_stats() empties counters two threads write; the totals the run     *)
(* loop accumulates, with what is not collected yet, still tell exactly    *)
(* what happened: nothing is counted twice or lost between two reads.      *)
StatsExact ==
  LET now == Plus(totals, stats)
      counted == IF thread = "sent" THEN sent \ Flight ELSE sent
  IN  /\ now.video = Cardinality(Video(counted))
      /\ now.bytes = Bytes(counted)
      /\ now.dropped = Cardinality(dropped)
      /\ dropped # {} => now.flushes > 0

(* The destructor returns, even from a peer that has stopped reading and   *)
(* whatever the drain thread was doing: it is woken or its send is broken. *)
DestructorReturns == owner = "stopping" ~> owner = "closed"
=============================================================================
