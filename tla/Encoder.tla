------------------------------ MODULE Encoder ------------------------------
(***************************************************************************)
(* src/sender/mf_encoder.cpp between the run loop, which calls encode(),   *)
(* pipeline_depth() and set_sink(), and the event thread, which serves the *)
(* MFT's two events.  The MFT itself is external: it asks for input while  *)
(* it has room and gives a frame back once it holds more than Delay.       *)
(*                                                                         *)
(* mutex_ is held by the event thread while it hands pending_ over (state  *)
(* "handing"), and sink_mutex_ while the sink runs ("calling"); the other  *)
(* critical sections are single steps.  The three counters are atomics     *)
(* read without any lock, so each read of pipeline_depth() is a step.      *)
(*                                                                         *)
(* A frame is represented by the number of its capture: a duplicate has    *)
(* its original's number.                                                  *)
(***************************************************************************)
EXTENDS Integers, Sequences

CONSTANTS
  Delay,        (* frames the MFT holds until given another                  *)
  Room,         (* frames and input credits the MFT has out at a time        *)
  Resubmits,    (* kMaxFlushResubmits                                        *)
  MaxFrames,    (* bound on the frames captured, for TLC                     *)
  Mishaps       (* bound on the Media Foundation calls that fail, for TLC    *)

ASSUME EncoderAssumption ==
  /\ Delay \in Nat /\ Room \in Nat /\ Resubmits \in Nat
  /\ MaxFrames \in Nat /\ Mishaps \in Nat

VARIABLES
  credits,                     (* input_credits_                             *)
  pending,                     (* pending_: a frame, or 0                    *)
  submitted, emitted, queued,  (* the counters                               *)
  inside,                      (* frames the MFT holds, oldest first         *)
  event,       (* event thread: "idle", "handing", "took", "counted",        *)
               (* "calling", "exited"                                        *)
  out,         (* event thread: the frame it has taken out of the MFT        *)
  loop,        (* run loop: "idle", "one", "two", "read": the counters       *)
               (* pipeline_depth() has read; then "leaving", "detached",     *)
               (* "stopping", "joining", "done"                              *)
  depth,       (* run loop: the depth read (so far)                          *)
  last_tex,    (* run loop: the newest frame captured, or 0                  *)
  resubmits_left,
  sink,        (* sink_ is set                                               *)
  sender,      (* the PacketSender the sink calls exists                     *)
  (* history, never read by the code: *)
  fed,         (* the last frame handed to the MFT                           *)
  shown,       (* the newest frame the sink was given                        *)
  lost,        (* frames the MFT was given that never reach ++emitted_       *)
  mishaps

counters == <<submitted, emitted, queued>>
mftVars == <<credits, pending, inside, fed>>
eventVars == <<event, out, shown>>
loopVars == <<loop, depth, last_tex, resubmits_left>>
teardown == <<sink, sender>>
vars == <<counters, mftVars, eventVars, loopVars, teardown, lost, mishaps>>

Init ==
  /\ credits = 0 /\ pending = 0 /\ inside = << >> /\ fed = 0
  /\ submitted = 0 /\ emitted = 0 /\ queued = 0
  /\ event = "idle" /\ out = 0 /\ shown = 0
  /\ loop = "idle" /\ depth = 0 /\ last_tex = 0 /\ resubmits_left = 0
  /\ sink = TRUE /\ sender = TRUE
  /\ lost = 0 /\ mishaps = 0

Mishap == mishaps < Mishaps /\ mishaps' = mishaps + 1
-----------------------------------------------------------------------------
(* encode(f), under mutex_. (Faulty: the frame already waiting stays; the  *)
(* replacement is counted too.)                                            *)
WaitBehind(f) ==
  /\ credits = 0
  /\ pending' = IF pending = 0 THEN f ELSE pending
  /\ queued' = IF pending = 0 THEN queued + 1 ELSE queued
  /\ UNCHANGED <<credits, inside, fed, submitted, emitted>>
WaitCountedTwice(f) ==
  /\ credits = 0
  /\ pending' = f
  /\ queued' = queued + 1
  /\ UNCHANGED <<credits, inside, fed, submitted, emitted>>
Wait(f) ==
  /\ credits = 0
  /\ pending' = f
  /\ queued' = IF pending = 0 THEN queued + 1 ELSE queued
  /\ UNCHANGED <<credits, inside, fed, submitted, emitted>>

(* (Faulty: nobody looks whether there is a credit to spend.) *)
FeedRegardless(f) ==
  /\ credits' = credits - 1
  /\ inside' = Append(inside, f) /\ fed' = f
  /\ submitted' = submitted + 1
  /\ UNCHANGED <<pending, queued, emitted>>
Feed(f) ==
  /\ credits > 0
  /\ credits' = credits - 1
  /\ inside' = Append(inside, f) /\ fed' = f
  /\ submitted' = submitted + 1
  /\ UNCHANGED <<pending, queued, emitted>>

(* ProcessInput fails: the credit is gone, and the run loop leaves. *)
FeedFails ==
  /\ credits > 0
  /\ Mishap
  /\ credits' = credits - 1
  /\ loop' = "leaving"
  /\ UNCHANGED <<counters, pending, inside, fed>>

(* convert_to_nv12 fails, before the lock: the frame is dropped. *)
ConversionFails == Mishap /\ loop' = "idle" /\ UNCHANGED <<mftVars, counters>>

Encode(f) ==
  \/ event # "handing" /\ (Feed(f) \/ Wait(f)) /\ loop' = "idle" /\ UNCHANGED mishaps
  \/ event # "handing" /\ FeedFails
  \/ ConversionFails

(* A captured frame is submitted. *)
SubmitNew ==
  /\ loop = "idle"
  /\ last_tex < MaxFrames
  /\ last_tex' = last_tex + 1
  /\ resubmits_left' = Resubmits
  /\ Encode(last_tex + 1)
  /\ UNCHANGED <<depth, eventVars, teardown, lost>>

(* A quiet tick reads the depth, and submits the same frame again if the   *)
(* encoder is holding something. (Faulty: submitted_ is read first.)       *)
TermSubmittedFirst(i) == CASE i = 1 -> submitted [] i = 2 -> -emitted [] i = 3 -> queued
Term(i) == CASE i = 1 -> queued [] i = 2 -> -emitted [] i = 3 -> submitted

ReadDepth ==
  /\ \/ loop = "idle" /\ depth' = Term(1) /\ loop' = "one"
     \/ loop = "one" /\ depth' = depth + Term(2) /\ loop' = "two"
     \/ loop = "two" /\ depth' = depth + Term(3) /\ loop' = "read"
  /\ UNCHANGED <<counters, mftVars, eventVars, last_tex, resubmits_left,
                 teardown, lost, mishaps>>

(* (Faulty: a single frame is not thought worth flushing.) *)
MayResubmitIfTwo == resubmits_left > 0 /\ last_tex # 0 /\ depth > 1
MayResubmit == resubmits_left > 0 /\ last_tex # 0 /\ depth > 0

SubmitAgain ==
  /\ loop = "read"
  /\ MayResubmit
  /\ resubmits_left' = resubmits_left - 1
  /\ Encode(last_tex)
  /\ UNCHANGED <<depth, last_tex, eventVars, teardown, lost>>

NothingToFlush ==
  /\ loop = "read"
  /\ ~MayResubmit
  /\ loop' = "idle"
  /\ UNCHANGED <<counters, mftVars, depth, last_tex, resubmits_left, eventVars,
                 teardown, lost, mishaps>>
-----------------------------------------------------------------------------
(* on_need_input: the waiting frame goes in, submitted_ before queued_ ... *)
HandOver ==
  /\ event = "idle"
  /\ Len(inside) + credits < Room
  /\ pending # 0
  /\ event' = "handing"
  /\ \/ /\ inside' = Append(inside, pending) /\ fed' = pending
        /\ submitted' = submitted + 1
        /\ UNCHANGED mishaps
     \/ Mishap /\ UNCHANGED <<inside, fed, submitted>>     (* ProcessInput fails *)
  /\ UNCHANGED <<credits, pending, emitted, queued, out, shown, loopVars, teardown, lost>>

HandedOver ==
  /\ event = "handing"
  /\ pending' = 0
  /\ queued' = queued - 1
  /\ event' = "idle"
  /\ UNCHANGED <<credits, inside, fed, submitted, emitted, out, shown, loopVars,
                 teardown, lost, mishaps>>

(* ... or the credit is kept for the next one. (Faulty: kept regardless.)  *)
CreditRegardless == event = "idle" /\ Len(inside) + credits < Room
CreditDue == event = "idle" /\ Len(inside) + credits < Room /\ pending = 0

GainCredit ==
  /\ CreditDue
  /\ credits' = credits + 1
  /\ UNCHANGED <<counters, pending, inside, fed, eventVars, loopVars, teardown,
                 lost, mishaps>>

(* on_have_output: ProcessOutput takes the oldest frame, or fails and it   *)
(* is never counted ...                                                    *)
TakeOutput ==
  /\ event = "idle"
  /\ Len(inside) > Delay
  /\ inside' = Tail(inside)
  /\ \/ event' = "took" /\ out' = Head(inside) /\ UNCHANGED <<lost, mishaps>>
     \/ Mishap /\ lost' = lost + 1 /\ UNCHANGED <<event, out>>
  /\ UNCHANGED <<credits, pending, fed, counters, shown, loopVars, teardown>>

CountOutput ==
  /\ event = "took"
  /\ emitted' = emitted + 1
  /\ event' = "counted"
  /\ UNCHANGED <<submitted, queued, mftVars, out, shown, loopVars, teardown, lost, mishaps>>

(* ... the buffer is unusable, or the sink is called if there is one ...   *)
CallSink ==
  /\ event = "counted"
  /\ \/ sink /\ event' = "calling" /\ UNCHANGED mishaps
     \/ ~sink /\ event' = "idle" /\ UNCHANGED mishaps
     \/ Mishap /\ event' = "idle"
  /\ UNCHANGED <<counters, mftVars, out, shown, loopVars, teardown, lost>>

(* ... and returns. *)
SinkReturns ==
  /\ event = "calling"
  /\ shown' = out
  /\ event' = "idle"
  /\ UNCHANGED <<counters, mftVars, out, loopVars, teardown, lost, mishaps>>
-----------------------------------------------------------------------------
(* The end of a connection: set_sink(nullptr), ~MfVideoEncoder, then       *)
(* ~PacketSender.  set_sink waits for sink_mutex_. (Faulty: it does not.)  *)
SinkUnlocked == TRUE
SinkFree == event # "calling"

Detach ==
  /\ loop \in {"idle", "leaving"}
  /\ SinkFree
  /\ sink' = FALSE
  /\ loop' = "detached"
  /\ UNCHANGED <<counters, mftVars, eventVars, depth, last_tex, resubmits_left,
                 sender, lost, mishaps>>

(* stop_ is set; then, under mutex_, the MFT is told to drain. *)
StopEncoder ==
  /\ \/ loop = "detached" /\ loop' = "stopping"
     \/ loop = "stopping" /\ event # "handing" /\ loop' = "joining"
  /\ UNCHANGED <<counters, mftVars, eventVars, depth, last_tex, resubmits_left,
                 teardown, lost, mishaps>>

(* The event thread looks at stop_ between two events; only the drain's    *)
(* event is sure to wake it for that. (Faulty: the drain is forgotten.)    *)
NeverWoken == FALSE
Woken == loop = "joining"

EventThreadExits ==
  /\ loop \in {"stopping", "joining"}
  /\ event = "idle"
  /\ event' = "exited"
  /\ UNCHANGED <<counters, mftVars, out, shown, loopVars, teardown, lost, mishaps>>

(* The join, and then the sender goes. *)
Joined == loop = "joining" /\ event = "exited"

DestroySender ==
  /\ Joined
  /\ sender' = FALSE
  /\ loop' = "done"
  /\ UNCHANGED <<counters, mftVars, eventVars, depth, last_tex, resubmits_left,
                 sink, lost, mishaps>>
-----------------------------------------------------------------------------
RunLoop ==
  \/ SubmitNew \/ ReadDepth \/ SubmitAgain \/ NothingToFlush
  \/ Detach \/ StopEncoder \/ DestroySender

EventThread ==
  \/ HandOver \/ HandedOver \/ GainCredit \/ TakeOutput \/ CountOutput
  \/ CallSink \/ SinkReturns \/ EventThreadExits

Next == RunLoop \/ EventThread

Spec == Init /\ [][Next]_vars

(* The event thread keeps serving the MFT; the run loop, while it is not   *)
(* told to stop, keeps ticking. Captures are not assumed to go on.         *)
Fairness ==
  /\ WF_vars(HandOver) /\ WF_vars(GainCredit) /\ WF_vars(TakeOutput)
  /\ WF_vars(HandedOver \/ CountOutput \/ CallSink \/ SinkReturns)
  /\ WF_vars(ReadDepth \/ SubmitAgain \/ NothingToFlush)
  /\ WF_vars(StopEncoder) /\ WF_vars(Woken /\ EventThreadExits) /\ WF_vars(DestroySender)

FairSpec == Spec /\ Fairness
-----------------------------------------------------------------------------
TypeOK ==
  /\ credits \in Nat /\ pending \in Nat /\ inside \in Seq(Nat) /\ fed \in Nat
  /\ submitted \in Nat /\ emitted \in Nat /\ queued \in Nat
  /\ event \in {"idle", "handing", "took", "counted", "calling", "exited"}
  /\ out \in Nat /\ shown \in Nat
  /\ loop \in {"idle", "one", "two", "read", "leaving", "detached", "stopping",
              "joining", "done"}
  /\ depth \in Int /\ last_tex \in Nat /\ resubmits_left \in 0 .. Resubmits
  /\ sink \in BOOLEAN /\ sender \in BOOLEAN
  /\ lost \in Nat /\ mishaps \in Nat

(* The atomics agree with what they count, although two threads move them, *)
(* one at a time and each in its own order: queued_ is the waiting frame,  *)
(* and the rest is what the MFT holds, what has left it but is not counted *)
(* yet, and what the early returns of on_have_output never count.          *)
CountersExact ==
  /\ queued = IF pending # 0 THEN 1 ELSE 0
  /\ submitted - emitted = Len(inside) + (IF event = "took" THEN 1 ELSE 0) + lost

(* What the encoder has been given and has not given back.                 *)
Holding == Len(inside) + (IF pending # 0 /\ event # "handing" THEN 1 ELSE 0)

(* mf_encoder.cpp:716-718: a concurrent handoff "can round the answer up   *)
(* but never down". The comparison is with what is held when the last      *)
(* counter is read: a frame stuck in there is never overlooked.            *)
DepthNeverShort == [][loop = "two" => depth + Term(3) >= Holding]_loop

(* No frame waits in pending_ while the MFT is owed one: each of its       *)
(* requests is answered by a frame or kept, never both or neither.         *)
NoFrameWaitsOnCredit == credits > 0 => pending = 0

(* "Latest wins", and only forwards: frames go into the MFT in the order   *)
(* they were captured, what waits is newer than what went in, nothing is   *)
(* shown after a newer one, and unless a call failed the newest frame is   *)
(* the one in or waiting.                                                  *)
NewestWins ==
  /\ shown <= out /\ out <= fed /\ fed <= last_tex /\ pending <= last_tex
  /\ \A i \in DOMAIN inside : out <= inside[i] /\ inside[i] <= fed
  /\ \A i, j \in DOMAIN inside : i < j => inside[i] <= inside[j]
  /\ pending # 0 => fed <= pending
  /\ mishaps = 0 => last_tex = pending \/ last_tex = fed

(* main.cpp:677-679: once set_sink(nullptr) has returned no sink call is   *)
(* running or will be, and while one runs its sender exists.               *)
SenderOutlivesSink ==
  /\ event = "calling" => sender
  /\ ~sink => event # "calling"

(* A screen that stops changing does not leave its last frame inside the   *)
(* encoder: while there is a budget for duplicates they go on until it is   *)
(* out.                                                                     *)
LastFrameComesOut ==
  \A f \in 1 .. MaxFrames :
    last_tex = f ~>
      shown >= f \/ last_tex > f \/ resubmits_left = 0 \/ mishaps > 0 \/ ~sink

(* Tearing a connection down ends: neither lock nor the join can hang on   *)
(* the other thread.                                                       *)
TeardownEnds == loop = "detached" ~> loop = "done"
-----------------------------------------------------------------------------
(* The frame the event thread has taken out of the MFT and not handed on. *)
OnItsWay == IF event \in {"took", "counted", "calling"} THEN <<out>> ELSE << >>

(* What the run loop relies on (EncoderPipe): a frame being handed over no *)
(* longer waits, and one on its way to the sink has not left.              *)
Pipe == INSTANCE EncoderPipe WITH
  pending <- pending # 0 /\ event # "handing",
  mft <- OnItsWay \o inside,
  MftRoom <- Room

(* The two threads, both locks and every failing call amount to that pipe: *)
(* none is skipped, none goes in twice, none in pending_ misses a request. *)
KeepsPipe == Pipe!PipeInit /\ [][Pipe!PipeNext(1 .. MaxFrames)]_(Pipe!pipeVars)
=============================================================================
