------------------------------ MODULE Session ------------------------------
(***************************************************************************)
(* The two programs together, from start to start: mode changes, restarts, *)
(* strangers, broken links and a user who may close the window, against    *)
(* the promise that the two ends find each other again and agree.          *)
(***************************************************************************)
EXTENDS SenderSession, ReceiverSession

vars == <<linkVars, trouble, senderVars, receiverVars>>

Init == LinkInit /\ SenderInit /\ ReceiverInit

(* A hello that does not come in five seconds is a rare thing from a       *)
(* sender on its way to it, and certain from one that is blocked in pop.   *)
HelloOverdue ==
  /\ ShakeTimesOut
  /\ IF run = "pop" THEN UNCHANGED trouble ELSE Disturb

Next ==
  \/ SenderNext /\ UNCHANGED receiverVars
  \/ (ReceiverNext \/ HelloOverdue \/ UserCloses) /\ UNCHANGED senderVars

Spec == Init /\ [][Next]_vars

(* Both programs run and a sender that died is started again; nothing is   *)
(* assumed of the user, of the screen or of what Windows does to it.       *)
Fairness ==
  /\ WF_vars(CaptureNext /\ UNCHANGED receiverVars)
  /\ WF_vars(RunNext /\ UNCHANGED receiverVars)
  /\ WF_vars((Notice \/ Restart) /\ UNCHANGED receiverVars)
  /\ WF_vars((ReceiverNext \/ HelloOverdue) /\ UNCHANGED senderVars)

FairSpec == Spec /\ Fairness
-----------------------------------------------------------------------------
Places == {"accept", "width", "height", "format", "hz", "build", "greet",
           "greet h264", "greet hevc", "clear", "open", "top", "take", "pop",
           "leave", "close"}
Reading == {"width", "height", "format", "hz"}
Settling == {"build", "greet", "greet h264", "greet hevc", "clear", "open"}

(* A flag is up, or the capture thread is on its way to raising it. *)
FlagToCome == mode_changed \/ cap = "publish"

(* A connection set up for anything but the mode in force is one the loop  *)
(* will be told to end: the fields and the flag are five separate stores   *)
(* of one thread (dxgi_capture.cpp:189-199) against four separate loads    *)
(* and an exchange of another (sender/main.cpp:381-397, 551).              *)
StaleModeEnds ==
  codec_kind = "video" /\ run \in Settling \cup {"top", "take"}
    /\ cfg # published => FlagToCome

(* Every picture that reaches the receiver fits the textures it made from  *)
(* this connection's hello: the copy's box is their size, and a frame of   *)
(* another mode may be in the mailbox before the flag is seen              *)
(* (sender/main.cpp:651-659, presenter.cpp:578-584).                       *)
FrameFits ==
  rx \in {"decoder", "show"} =>
    \A i \in DOMAIN inbox :
      inbox[i].type = "frame" => <<inbox[i].width, inbox[i].height>> = texture

(* Nothing is passed on that the copy did not write: a pool texture of     *)
(* another format makes CopyResource a silent no-op                        *)
(* (dxgi_capture.cpp:371-375, 408-434).                                    *)
CopyMatches == \A f \in {hand, mailbox} : f # << >> => f.good

(* Clients are dropped to renegotiate when the display changed, and only   *)
(* then (sender/main.cpp:377-380: "dropped a frame or two in and the       *)
(* receiver reconnects against the right numbers").                        *)
EachDropIsAChange == drops <= changes

(* Once it has worked, the receiver ends when its user or its own machine  *)
(* says so, never because of what the sender does                          *)
(* (receiver/main.cpp:43-47, 252-257).                                     *)
NeverGivesUp == connected_before => outcome \in {"running", "user", "fault"}

(* The picture is there, of the display as it is. *)
Showing ==
  /\ rx = "show" /\ mine = "accepted"
  /\ cfg = display /\ painted = <<display.width, display.height>>

(* Capture is parked with a format in its fields that no encoder takes:    *)
(* the client is on its way to being dropped for it, and so is the next.   *)
Refusing ==
  /\ up /\ codec_kind = "video" /\ cap = "parked" /\ ~gate
  /\ published.format \notin Convertible
  /\ \/ run \in {"accept", "width", "height", "format", "close"}
     \/ run \in {"hz", "build"} /\ cfg.format \notin Convertible

(* The refusal outlives its cause: with capture parked nobody looks at the *)
(* display, so until the sender is started again no client is served, also *)
(* when HDR has long been turned off (mf_encoder.cpp:610-619,              *)
(* sender/main.cpp:322-331, 438-441).                                      *)
RefusalSticks == [][Refusing => Refusing' \/ ~up']_vars

(* When the disturbances end, so does the searching: the receiver shows    *)
(* the display in its present mode, also when nothing on it moves, unless  *)
(* the sender met a mode it cannot convert (Refusing), or was started      *)
(* without video, or the first full frame was lost (missed)                *)
(* (receiver/main.cpp:515-570 against run_h264's loop).                    *)
SessionSettles ==
  <>[](outcome # "running" \/ codec_kind = "lz4" \/ missed \/ Refusing \/ Showing)

(* A user who closes the window is rid of the process, wherever it is; the *)
(* one exception is a window replaced for another kind of stream           *)
(* (presenter.cpp:523-531, receiver/main.cpp:353, 457, 538).               *)
CloseHonoured == closing ~> (~closing \/ outcome # "running")
=============================================================================
