------------------------------ MODULE Lz4Path ------------------------------
(***************************************************************************)
(* The lossless path (--codec lz4), from the screen to the receiver's      *)
(* texture: every frame is the whole image together with the rectangles    *)
(* that are new in it, and only those are sent.  A rectangle that falls    *)
(* out anywhere stays wrong on the receiver's screen until its pixels      *)
(* change again, so the module is about rectangles: DXGI accumulates them, *)
(* the sender's mailbox merges those of a frame nobody took, a connection  *)
(* begins with all of them, and the receiver's mailbox merges pixels.      *)
(*                                                                         *)
(* The screen is a set of regions; the pixels of a region are the number   *)
(* of times it has changed, and a region's number is 0 where there are no  *)
(* pixels of it.  The display keeps its mode and its format is BGRA        *)
(* (README: what run_lz4 does otherwise).                                  *)
(***************************************************************************)
EXTENDS Naturals

CONSTANTS
  Regions,
  Changes,   (* bound: changes of a region, for TLC                          *)
  Trouble    (* bound: failures, for TLC                                     *)

ASSUME Lz4Assumption == Changes \in Nat /\ Trouble \in Nat

VARIABLES
  screen,         (* the pixels of the sender's display                      *)
  dirty,          (* what DXGI has accumulated since the last frame          *)
  first_frame,
  gate,
  cap, hand,      (* the capture thread's place and frame                    *)
  mailbox,
  run,            (* the accepting thread's place                            *)
  last, need_keyframe,
  link,           (* "none", "up", or "cut": ended, and not noticed by both  *)
  wire,           (* the updates in the socket                               *)
  batch,          (* the updates in the receiver's mailbox                   *)
  image,          (* the presenter's texture                                 *)
  (* history, never read by the code: *)
  forgotten,      (* regions whose new pixels a failed readback took along   *)
  trouble

captureVars == <<dirty, first_frame, cap, hand, forgotten>>
runVars == <<run, last, need_keyframe, gate>>
receiverVars == <<batch, image>>
vars == <<screen, captureVars, mailbox, runVars, link, wire, receiverVars,
          trouble>>
-----------------------------------------------------------------------------
Blank == [r \in Regions |-> 0]
NoFrame == [pixels |-> Blank, rects |-> {}]

Disturb == trouble < Trouble /\ trouble' = trouble + 1

Init ==
  /\ screen = [r \in Regions |-> 1]
  /\ dirty = {} /\ first_frame = TRUE /\ gate = FALSE
  /\ cap = "gate" /\ hand = NoFrame /\ mailbox = NoFrame
  /\ run = "accept" /\ last = NoFrame /\ need_keyframe = FALSE
  /\ link = "none" /\ wire = Blank /\ batch = Blank /\ image = Blank
  /\ forgotten = {} /\ trouble = 0
-----------------------------------------------------------------------------
Change(r) ==
  /\ screen[r] <= Changes
  /\ screen' = [screen EXCEPT ![r] = @ + 1]
  /\ dirty' = dirty \cup {r}
  /\ forgotten' = forgotten \ {r}
  /\ UNCHANGED <<first_frame, cap, hand, mailbox, runVars, link, wire,
                 receiverVars, trouble>>

(* The capture thread. *)
PassGate ==
  /\ cap = "gate" /\ gate
  /\ cap' = "acquire"
  /\ UNCHANGED <<screen, dirty, first_frame, hand, forgotten, mailbox, runVars,
                 link, wire, receiverVars, trouble>>

(* What acquire and collect_rects report: everything, of a duplication     *)
(* that has given no frame yet.                                            *)
Pending == IF first_frame THEN Regions ELSE dirty

(* Faulty: a new duplication's first frame is taken for any other. *)
ReportDirty == dirty

Report == Pending

NextFrame ==
  /\ cap = "acquire" /\ Pending # {}
  /\ hand' = [pixels |-> screen, rects |-> Report]
  /\ dirty' = {} /\ first_frame' = FALSE
  /\ cap' = "push"
  /\ UNCHANGED <<screen, forgotten, mailbox, runVars, link, wire, receiverVars,
                 trouble>>

NothingNew ==
  /\ cap = "acquire" /\ Pending = {}
  /\ cap' = "gate"
  /\ UNCHANGED <<screen, dirty, first_frame, hand, forgotten, mailbox, runVars,
                 link, wire, receiverVars, trouble>>

(* The staging texture or its mapping fails after the frame is released:   *)
(* its rectangles are gone with it, unless it was the first.               *)
ReadbackFails ==
  /\ cap = "acquire" /\ Pending # {}
  /\ Disturb
  /\ forgotten' = IF first_frame THEN forgotten ELSE forgotten \cup dirty
  /\ dirty' = {}
  /\ cap' = "gate"
  /\ UNCHANGED <<screen, first_frame, hand, mailbox, runVars, link, wire,
                 receiverVars>>

(* ACCESS_LOST, and a duplication made anew. *)
AccessLost ==
  /\ cap = "acquire"
  /\ Disturb
  /\ first_frame' = TRUE /\ dirty' = {}
  /\ cap' = "gate"
  /\ UNCHANGED <<screen, hand, forgotten, mailbox, runVars, link, wire,
                 receiverVars>>

(* The mailbox's merge: the newer pixels with the rectangles of both, or   *)
(* one rectangle for all if those, overlapping, come to more than that.    *)
MergedRects(a, b) == {a \cup b} \cup (IF a \cap b = {} THEN {} ELSE {Regions})

(* Faulty: latest wins, rectangles and all. *)
PushLatest ==
  /\ cap = "push"
  /\ mailbox' = hand
  /\ hand' = NoFrame
  /\ cap' = "gate"
  /\ UNCHANGED <<screen, dirty, first_frame, forgotten, runVars, link, wire,
                 receiverVars, trouble>>

Push ==
  /\ cap = "push"
  /\ \E rects \in MergedRects(hand.rects, mailbox.rects) :
       mailbox' = [pixels |-> hand.pixels, rects |-> rects]
  /\ hand' = NoFrame
  /\ cap' = "gate"
  /\ UNCHANGED <<screen, dirty, first_frame, forgotten, runVars, link, wire,
                 receiverVars, trouble>>

CaptureNext ==
  PassGate \/ NextFrame \/ NothingNew \/ ReadbackFails \/ AccessLost \/ Push
-----------------------------------------------------------------------------
(* run_lz4's thread.  The receiver that connects has the texture of its    *)
(* last connection, or none.                                               *)
runElse == <<screen, captureVars, trouble>>

Accept ==
  /\ run = "accept" /\ link = "none"
  /\ link' = "up" /\ image' \in {image, Blank}
  /\ run' = "open"
  /\ need_keyframe' = TRUE
  /\ UNCHANGED <<runElse, mailbox, last, gate, wire, batch>>

OpenGate ==
  /\ run = "open"
  /\ gate' = TRUE
  /\ run' = IF last # NoFrame THEN "send" ELSE "pop"
  /\ UNCHANGED <<runElse, mailbox, last, need_keyframe, link, wire, receiverVars>>

(* pop blocks until there is a frame. *)
Pop ==
  /\ run = "pop" /\ mailbox # NoFrame
  /\ last' = mailbox /\ mailbox' = NoFrame
  /\ run' = "send"
  /\ UNCHANGED <<runElse, need_keyframe, gate, link, wire, receiverVars>>

(* The frame's own rectangles, or all for the first frame of a connection. *)
(* Faulty: a connection begins where the last one ended. *)
SendOwnRects == last.rects

SendRects == IF need_keyframe THEN Regions ELSE last.rects

(* send_frame: one frame in the socket at a time (the bound).  To a client *)
(* that has gone, a send may still succeed.                                *)
Send ==
  /\ run = "send"
  /\ \/ /\ link = "up" /\ wire = Blank
        /\ wire' = [r \in Regions |-> IF r \in SendRects THEN last.pixels[r] ELSE 0]
     \/ link # "up" /\ UNCHANGED wire
  /\ need_keyframe' = FALSE
  /\ run' = "pop"
  /\ UNCHANGED <<runElse, mailbox, last, gate, link, receiverVars>>

SendFails ==
  /\ run = "send" /\ link # "up"
  /\ gate' = FALSE
  /\ run' = "accept"
  /\ UNCHANGED <<runElse, mailbox, last, need_keyframe, link, wire, receiverVars>>

RunNext == Accept \/ OpenGate \/ Pop \/ Send \/ SendFails
-----------------------------------------------------------------------------
(* The link, and the receiver: its receive thread merges what is older     *)
(* before what is newer, its present loop applies.                         *)
Cut ==
  /\ link = "up"
  /\ Disturb
  /\ link' = "cut" /\ wire' \in {wire, Blank}
  /\ UNCHANGED <<screen, captureVars, mailbox, runVars, receiverVars>>

Over(newer, older) == [r \in Regions |-> IF newer[r] # 0 THEN newer[r] ELSE older[r]]

(* Faulty: the newer updates come first, to be painted over. *)
OlderLast(incoming, pending) == Over(pending, incoming)

Merged(incoming, pending) == Over(incoming, pending)

Receive ==
  /\ wire # Blank
  /\ batch' = Merged(wire, batch)
  /\ wire' = Blank
  /\ UNCHANGED <<runElse, mailbox, runVars, link, image>>

Apply ==
  /\ batch # Blank
  /\ image' = Over(batch, image)
  /\ batch' = Blank
  /\ UNCHANGED <<runElse, mailbox, runVars, link, wire>>

(* The connection has ended, and with it what was not applied. *)
ReceiverLeaves ==
  /\ link = "cut" /\ wire = Blank
  /\ link' = "none" /\ batch' = Blank
  /\ UNCHANGED <<runElse, mailbox, runVars, wire, image>>

ReceiverNext == Receive \/ Apply \/ ReceiverLeaves

Next ==
  \/ \E r \in Regions : Change(r)
  \/ CaptureNext \/ RunNext \/ Cut \/ ReceiverNext

Spec == Init /\ [][Next]_vars

(* The threads go on; the screen need not change. *)
FairSpec ==
  /\ Spec
  /\ WF_vars(CaptureNext) /\ WF_vars(RunNext)
  /\ WF_vars(Receive) /\ WF_vars(Apply) /\ WF_vars(ReceiverLeaves)
-----------------------------------------------------------------------------
(* What the receiver's texture will hold of a region when everything on    *)
(* its way has arrived, in the order it will: the last to come counts.     *)
Coming(r) ==
  IF r \in hand.rects THEN hand.pixels[r]
  ELSE IF r \in mailbox.rects THEN mailbox.pixels[r]
  ELSE IF link # "up" \/ need_keyframe \/ (run = "send" /\ r \in last.rects)
       THEN last.pixels[r]
  ELSE Over(wire, Over(batch, image))[r]

(* No change is lost between the screen and the receiver, whatever frames  *)
(* are skipped, merged or cut off with a connection: what DXGI has not     *)
(* reported yet apart, what is on its way adds up to the screen            *)
(* (sender/main.cpp:141-151, 167, 191-200; receiver/main.cpp:108-114).     *)
NothingForgotten ==
  \A r \in Regions \ (Pending \cup forgotten) : Coming(r) = screen[r]

(* The sender waits for a frame with a client that has gone; on a still    *)
(* screen it waits for ever, and nobody else is accepted.                  *)
Unnoticed == run = "pop" /\ link # "up"

(* When the screen rests the receiver's texture becomes what it shows, on  *)
(* the connection it has or on the next, except while the sender has not   *)
(* noticed that its client is gone.                                        *)
PictureCatchesUp ==
  <>[](Unnoticed \/ \A r \in Regions \ forgotten : image[r] = screen[r])
=============================================================================
