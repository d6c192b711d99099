---------------------------- MODULE VideoStream ----------------------------
(***************************************************************************)
(* One connection's video, from the capture mailbox to the receiver's      *)
(* picture and back: run_h264's loop, the pacer, the encoder and the send  *)
(* queue (by their contracts, PacerPromise, EncoderPipe and SendQueue),    *)
(* the socket, the receive thread and the control channel.  The GOP is     *)
(* infinite, so a keyframe exists only because somebody asked for one; the *)
(* module is about those requests.                                         *)
(*                                                                         *)
(* The two clocks that matter (at most a keyframe per 500 ms, at most a    *)
(* request per 250 ms) are flags raised by the event and lowered by time.  *)
(***************************************************************************)
EXTENDS SendQueue, EncoderPipe, PacerPromise

CONSTANTS
  Trouble,     (* bound: overflows, lost outputs and decoder faults, for TLC *)
  MaxBacklog, MaxWire, MaxAsks   (* bounds on what is queued, for TLC        *)

ASSUME BoundsAssumption ==
  /\ Resubmits \in Nat /\ Delay \in Nat /\ MftRoom \in Nat /\ Trouble \in Nat
  /\ MaxBacklog \in Nat /\ MaxWire \in Nat /\ MaxAsks \in Nat

VARIABLES
  pc,                  (* where the run loop is: "top" or "frame"            *)
  keyframe_pending,
  throttled,           (* now - last_keyframe < kMinKeyframeInterval         *)
  force,               (* CODECAPI_AVEncVideoForceKeyFrame is set            *)
  wire,                (* marks of the packets in the socket                 *)
  picture,             (* "good"; "torn": shown without a reference the      *)
                       (* sender gave up; "lost": the decoder failed         *)
  suppressed,          (* arrival_us - last_resync_us <= 250 ms              *)
  asks,                (* keyframe requests on the control channel           *)
  keyframe_requested,
  (* history, never read by the code: *)
  awaiting,            (* the receiver has asked since its last keyframe     *)
  slipped,             (* on_have_output lost a frame since the last keyframe *)
  trouble

loopVars == <<pc, keyframe_pending, throttled>>
mftVars == <<pipeVars, force>>
rxVars == <<picture, suppressed, awaiting>>
vars == <<queueVars, loopVars, pacerVars, mftVars, wire, rxVars, asks,
          keyframe_requested, slipped, trouble>>
-----------------------------------------------------------------------------
(* The connection is set up: everything is fresh, request_keyframe has run *)
(* and its time is last_keyframe.                                          *)
Init ==
  /\ QueueInit
  /\ pc = "top" /\ keyframe_pending = FALSE /\ throttled = TRUE
  /\ PacerInit /\ PipeInit /\ force = TRUE
  /\ wire = << >>
  /\ picture = "torn" /\ suppressed = FALSE /\ awaiting = FALSE
  /\ asks = 0 /\ keyframe_requested = FALSE
  /\ slipped = FALSE /\ trouble = 0

Disturb == trouble < Trouble /\ trouble' = trouble + 1
-----------------------------------------------------------------------------
(* The capture thread: latest frame wins. *)
NewFrame ==
  /\ ~dead
  /\ Arrive
  /\ UNCHANGED <<queueVars, loopVars, mftVars, wire, rxVars, asks,
                 keyframe_requested, slipped, trouble>>

(* Top of the loop: collect the requests (the || leaves the receiver's     *)
(* where it is when the queue has one too), and pass one on to the encoder *)
(* if the last was long enough ago.                                        *)
Collect(wanted) ==
  LET grant == wanted /\ ~throttled
  IN  /\ keyframe_pending' = (wanted /\ ~grant)
      /\ force' = (force \/ grant)
      /\ throttled' = (throttled \/ grant)

(* Faulty: a held request is forgotten if no new one comes; both requests  *)
(* are taken and the receiver's is overwritten by the queue's.             *)
ForgetHeldRequest ==
  /\ resync' = FALSE
  /\ keyframe_requested' = (resync /\ keyframe_requested)
  /\ Collect(resync \/ keyframe_requested)

OverwriteRequest ==
  /\ resync' = FALSE
  /\ keyframe_requested' = FALSE
  /\ Collect(keyframe_pending \/ resync)

CollectRequests ==
  /\ resync' = FALSE
  /\ keyframe_requested' = (resync /\ keyframe_requested)
  /\ Collect(keyframe_pending \/ resync \/ keyframe_requested)

LoopTop ==
  /\ ~dead
  /\ pc = "top"
  /\ CollectRequests
  /\ pc' = "frame"
  /\ UNCHANGED <<backlog, gap, dead, pacerVars, pending, credits, mft, wire,
                 rxVars, asks, slipped, trouble>>

KeyframeIntervalPasses ==
  /\ ~dead
  /\ throttled
  /\ throttled' = FALSE
  /\ UNCHANGED <<queueVars, pc, keyframe_pending, pacerVars, mftVars, wire,
                 rxVars, asks, keyframe_requested, slipped, trouble>>
-----------------------------------------------------------------------------
(* What the encoder was given and has not given back. *)
Depth == Len(mft) + (IF pending THEN 1 ELSE 0)

(* The slots that matter: there is a frame to send or one to shake loose. *)
SlotIsDue ==
  HeldNow(mailbox) \/ (BudgetNow(mailbox) > 0 /\ Depth > 0)

(* One pass through the rest of the loop, without a slot ... *)
NoSlot ==
  /\ ~dead
  /\ pc = "frame"
  /\ pc' = "top"
  /\ Pass(mailbox)
  /\ UNCHANGED <<queueVars, keyframe_pending, throttled, mftVars, wire, rxVars,
                 asks, keyframe_requested, slipped, trouble>>

(* ... and with one. *)
TakeSlot ==
  /\ ~dead
  /\ pc = "frame"
  /\ pc' = "top"
  /\ Grant(mailbox)
  /\ UNCHANGED <<queueVars, keyframe_pending, throttled, wire, rxVars, asks,
                 keyframe_requested, slipped, trouble>>

(* ProcessInput makes the frame a keyframe if one was asked for, and then  *)
(* one is asked for no longer.                                             *)
Frame == IF force THEN "I" ELSE "P"
UsedUp == force' = (force /\ mft' = mft)

(* encode(): the frame goes into the MFT if it has credit, else it takes   *)
(* the place of whatever is waiting for credit.                            *)
Submit == TakeSlot /\ Encode(Frame) /\ UsedUp

(* convert_to_nv12 fails, typically on an exhausted pool: the frame is     *)
(* dropped before the encoder, its slot spent.                             *)
DroppedPreEncode ==
  /\ TakeSlot
  /\ UNCHANGED mftVars
-----------------------------------------------------------------------------
(* The event thread: METransformNeedInput. *)
NeedInput ==
  /\ ~dead
  /\ AnswerNeed(Frame)
  /\ UsedUp
  /\ UNCHANGED <<queueVars, loopVars, pacerVars, wire, rxVars, asks,
                 keyframe_requested, slipped, trouble>>

(* METransformHaveOutput: the oldest frame is offered to the send queue. *)
HaveOutput ==
  /\ Leave
  /\ LET key == Head(mft) = "I"
     IN  /\ \/ Keep(key) /\ Len(backlog) < MaxBacklog /\ UNCHANGED trouble
            \/ Overflow(key) /\ Disturb
         /\ slipped' = (slipped /\ ~key)
  /\ UNCHANGED <<loopVars, pacerVars, force, wire, rxVars, asks, keyframe_requested>>

(* ... or one of the early returns loses it: the next frame refers to one  *)
(* the queue has never seen.                                               *)
OutputLost ==
  /\ ~dead
  /\ Leave
  /\ Disturb
  /\ gap' = TRUE
  /\ slipped' = TRUE
  /\ UNCHANGED <<backlog, resync, dead, loopVars, pacerVars, force, wire, rxVars,
                 asks, keyframe_requested>>
-----------------------------------------------------------------------------
(* The drain thread and the socket. *)
SendPacket ==
  /\ Len(wire) < MaxWire
  /\ Send
  /\ wire' = Append(wire, Head(backlog))
  /\ UNCHANGED <<loopVars, pacerVars, mftVars, rxVars, asks, keyframe_requested,
                 slipped, trouble>>

(* The connection fails, on either end, or encode() does (EncodeFails):    *)
(* run_h264's loop ends and with it everything here; the next connection   *)
(* starts from Init.                                                       *)
ConnectionFails ==
  /\ ~dead
  /\ Fail
  /\ UNCHANGED <<loopVars, pacerVars, mftVars, wire, rxVars, asks,
                 keyframe_requested, slipped, trouble>>
-----------------------------------------------------------------------------
(* The picture after decoding m. *)
Decoded(m) == CASE m = "I" -> "good" [] m = "G" -> "torn" [] m = "P" -> picture

(* A failed decode is asked about, unless something was within 250 ms. *)
(* Faulty: the decoder is flushed and the time noted, nothing is sent.     *)
FlushOnly(m) ==
  \/ ~suppressed /\ suppressed' = TRUE /\ awaiting' = TRUE /\ UNCHANGED asks
  \/ suppressed /\ awaiting' = (awaiting /\ m # "I") /\ UNCHANGED <<asks, suppressed>>

AskOrNot(m) ==
  \/ /\ ~suppressed
     /\ asks < MaxAsks
     /\ asks' = asks + 1 /\ suppressed' = TRUE /\ awaiting' = TRUE
  \/ /\ suppressed
     /\ awaiting' = (awaiting /\ m # "I")
     /\ UNCHANGED <<asks, suppressed>>

(* The receive thread reads a packet. A frame without its reference may be *)
(* concealed or fail; a sound one fails only by a fault of the decoder.    *)
Receive ==
  /\ ~dead
  /\ wire # << >>
  /\ wire' = Tail(wire)
  /\ LET m == Head(wire)
     IN  \/ /\ picture' = Decoded(m)
            /\ awaiting' = (awaiting /\ m # "I")
            /\ UNCHANGED <<asks, suppressed, trouble>>
         \/ /\ Decoded(m) # "good"
            /\ picture' = Decoded(m)
            /\ AskOrNot(m)
            /\ UNCHANGED trouble
         \/ /\ Decoded(m) = "good"
            /\ Disturb
            /\ picture' = "lost"
            /\ AskOrNot(m)
  /\ UNCHANGED <<queueVars, loopVars, pacerVars, mftVars, keyframe_requested, slipped>>

ResyncWindowPasses ==
  /\ ~dead
  /\ suppressed
  /\ suppressed' = FALSE
  /\ UNCHANGED <<queueVars, loopVars, pacerVars, mftVars, wire, picture, awaiting,
                 asks, keyframe_requested, slipped, trouble>>

(* ControlReceiver::run reads a request. *)
AskArrives ==
  /\ ~dead
  /\ asks > 0
  /\ asks' = asks - 1
  /\ keyframe_requested' = TRUE
  /\ UNCHANGED <<queueVars, loopVars, pacerVars, mftVars, wire, rxVars, slipped, trouble>>
-----------------------------------------------------------------------------
Loop == LoopTop \/ NoSlot \/ Submit \/ DroppedPreEncode
Encoder == NeedInput \/ HaveOutput \/ OutputLost
Link == SendPacket \/ Receive \/ AskArrives \/ ConnectionFails
Time == KeyframeIntervalPasses \/ ResyncWindowPasses

Next == NewFrame \/ Loop \/ Encoder \/ Link \/ Time

Spec == Init /\ [][Next]_vars

(* Threads and timers keep going; the link moves or fails (a send is given *)
(* up after five seconds without progress); the MFT asks for input and     *)
(* gives output; a slot that is due is not missed for ever, nor does       *)
(* conversion fail for ever.                                               *)
Progress ==
  /\ WF_vars(LoopTop) /\ WF_vars(NoSlot \/ Submit \/ DroppedPreEncode)
  /\ SF_vars(SlotIsDue /\ Submit)
  /\ WF_vars(NeedInput) /\ SF_vars(pending /\ NeedInput /\ mft' # mft)
  /\ WF_vars(HaveOutput)
  /\ WF_vars(SendPacket \/ (backlog # << >> /\ ConnectionFails))
  /\ WF_vars(AskArrives \/ (asks > 0 /\ ConnectionFails))
  /\ WF_vars(Receive)
  /\ WF_vars(KeyframeIntervalPasses) /\ WF_vars(ResyncWindowPasses)

(* A screen that keeps changing, and one that need not. *)
BusySpec == Spec /\ Progress /\ WF_vars(NewFrame)
QuietSpec == Spec /\ Progress
-----------------------------------------------------------------------------
TypeOK ==
  /\ QueueTypeOK
  /\ pc \in {"top", "frame"} /\ keyframe_pending \in BOOLEAN /\ throttled \in BOOLEAN
  /\ mailbox \in BOOLEAN /\ held \in BOOLEAN
  /\ resubmits_left \in 0 .. Resubmits
  /\ pending \in BOOLEAN /\ credits \in Nat /\ force \in BOOLEAN
  /\ mft \in Seq({"I", "P"}) /\ wire \in Seq(Marks)
  /\ picture \in {"good", "torn", "lost"}
  /\ suppressed \in BOOLEAN /\ awaiting \in BOOLEAN
  /\ asks \in Nat /\ keyframe_requested \in BOOLEAN
  /\ slipped \in BOOLEAN /\ trouble \in Nat

(* A stretch of the stream leaves the picture torn if it ends in a gap no  *)
(* keyframe follows, or if the picture was torn before and no keyframe is  *)
(* in it.                                                                  *)
NoKey(s) == \A i \in DOMAIN s : s[i] # "I"
Torn(s) == \E i \in DOMAIN s : s[i] = "G" /\ \A j \in DOMAIN s : j > i => s[j] # "I"
TornAfter(s, before) == Torn(s) \/ (before /\ NoKey(s))

(* The same, for everything already encoded: what is in the socket, then   *)
(* in the queue, then what the queue has given up, then in the MFT.        *)
StaysTorn(before) == TornAfter(mft, gap \/ TornAfter(backlog, TornAfter(wire, before)))

(* main.cpp:556-566, packet_sender.cpp:81-94: whatever the queue gave up,  *)
(* if nothing already encoded will mend the receiver's picture then the    *)
(* sender itself knows a keyframe is owed: the wish is in the queue, held  *)
(* by the loop, or with the encoder. (What on_have_output lost after the   *)
(* encoder was done is the exception: nobody but the receiver can tell.)   *)
NoSilentGap ==
  ~dead /\ StaysTorn(picture = "torn") =>
    resync \/ keyframe_pending \/ force \/ slipped

(* A receiver that has asked, and has had no keyframe since, is never      *)
(* forgotten: the request is on its way, noted, held, with the encoder, or *)
(* already answered by a keyframe that is on its way.                      *)
RequestNeverLost ==
  ~dead /\ awaiting /\ StaysTorn(TRUE) =>
    \/ asks > 0 \/ keyframe_requested
    \/ resync \/ keyframe_pending \/ force \/ slipped

Requested == resync \/ keyframe_requested \/ keyframe_pending \/ force
KeyframeEncoded == ~NoKey(mft)

(* While the screen changes, every request makes the encoder cut a         *)
(* keyframe: "held rather than dropped" (README.md:85), neither lost in    *)
(* the throttle, in the encoder's pending slot nor before the encoder.     *)
KeyframeAnswered == Requested ~> KeyframeEncoded \/ dead

(* ... and the receiver's picture is mended, or it fails in a way nobody   *)
(* has been told of yet (see FailureIsAsked).                              *)
PictureRecovers ==
  picture = "torn" \/ awaiting ~> (picture # "torn" /\ ~awaiting) \/ slipped \/ dead

(* main.cpp:232-234, of requests inside the throttle window: "a receiver   *)
(* that cannot decode still gets its keyframe, just not instantly". The    *)
(* code submits nothing to carry it while the screen is still.             *)
StillGetsItsKeyframe == keyframe_requested ~> KeyframeEncoded \/ dead

(* mf_decoder.h:31-33: a caller that is told a packet could not be decoded *)
(* "should ask the sender for a keyframe". The 250 ms limit also covers a  *)
(* failure that follows the keyframe the last request brought.             *)
FailureIsAsked == picture = "lost" => awaiting
=============================================================================
