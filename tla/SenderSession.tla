--------------------------- MODULE SenderSession ---------------------------
(***************************************************************************)
(* The sender from one client to the next: the capture thread with the     *)
(* duplication it holds, the four mode fields it publishes one by one, the *)
(* gate that parks it and the mailbox it fills; and the thread that        *)
(* accepts, reads the mode, builds an encoder, greets and streams until    *)
(* the client has gone or the mode changed.  A frame is what its texture   *)
(* was cut to and whether the desktop was really copied into it.  Pacing,  *)
(* requests and rates are in modules of their own; a frame taken is a      *)
(* frame sent here.                                                        *)
(***************************************************************************)
EXTENDS Link

CONSTANTS
  Modes,          (* the display's modes: width, height, format and hz       *)
  FirstModes,     (* those it may be in at the start                         *)
  SeedFormat,     (* the format a duplication's description gives, or "same" *)
                  (* when it is the format of its textures                   *)
  Convertible,    (* the formats the video processor takes                   *)
  Preferred, CodecExplicit,   (* --codec, and whether it was given           *)
  Changes         (* bound: mode changes, for TLC                            *)

Mode == [width : Nat, height : Nat, format : STRING, hz : Nat]

ASSUME SessionAssumption ==
  /\ Changes \in Nat
  /\ FirstModes \subseteq Modes /\ Modes \subseteq Mode
  /\ SeedFormat \in STRING /\ Convertible \subseteq STRING
  /\ Preferred = "hevc" => CodecExplicit

VARIABLES
  display,        (* the mode Windows is in                                  *)
  dup,            (* dup_: "none", "ok", or "lost" to a mode change          *)
  fresh,          (* the duplication has pixels to deliver                   *)
  first_frame,
  published,      (* width_, height_, format_ and refresh_hz_                *)
  mode_changed,
  cap, then,      (* the capture thread's place, and where it publishes from *)
  target,         (* the mode it is adopting, that of the texture acquired   *)
  writing,        (* which of adopt_mode's stores comes next                 *)
  pool,           (* what the pool's textures are cut to, << >> for none     *)
  hand, mailbox,  (* a frame on its way, and one waiting; << >> for none     *)
  gate,
  run,            (* the accepting thread's place                            *)
  codec_kind,     (* "video" or "lz4": how the sender was started            *)
  cfg,            (* the mode this connection was set up for                 *)
  (* history, never read by the code: *)
  changes,
  drops,          (* connections ended by mode_changed, counted until there  *)
                  (* are more than changes                                   *)
  missed          (* the picture a still screen owes was lost: the gate      *)
                  (* opened on a duplication that had delivered its own, or  *)
                  (* there was no texture to copy it into                    *)

captureVars == <<dup, fresh, first_frame, published, cap, then, target,
                 writing, pool, hand>>
runVars == <<run, cfg, gate>>
senderVars == <<display, captureVars, mailbox, mode_changed, runVars,
                codec_kind, changes, drops, missed>>
-----------------------------------------------------------------------------
Describe(m) == IF SeedFormat = "same" THEN m ELSE [m EXCEPT !.format = SeedFormat]

Cut(m) == <<m.width, m.height, m.format>>

(* DxgiCapture::create has duplicated the display once; nothing is parked. *)
SenderStart(m) ==
  /\ dup' = "ok" /\ fresh' = TRUE /\ first_frame' = TRUE
  /\ published' = Describe(m) /\ mode_changed' = FALSE
  /\ cap' = "gate" /\ then' = "gate" /\ target' = Describe(m) /\ writing' = 1
  /\ pool' = << >> /\ hand' = << >> /\ mailbox' = << >> /\ gate' = FALSE
  /\ run' = "accept" /\ cfg' = Describe(m) /\ missed' = FALSE

SenderInit ==
  /\ display \in FirstModes
  /\ dup = "ok" /\ fresh = TRUE /\ first_frame = TRUE
  /\ published = Describe(display) /\ mode_changed = FALSE
  /\ cap = "gate" /\ then = "gate" /\ target = Describe(display) /\ writing = 1
  /\ pool = << >> /\ hand = << >> /\ mailbox = << >> /\ gate = FALSE
  /\ run = "accept" /\ cfg = Describe(display)
  /\ codec_kind = "video"
  /\ changes = 0 /\ drops = 0 /\ missed = FALSE
-----------------------------------------------------------------------------
(* The world: a mode change invalidates the duplication. *)
ModeChanges ==
  /\ changes < Changes
  /\ \E m \in Modes \ {display} : display' = m
  /\ changes' = changes + 1
  /\ dup' = IF dup = "ok" THEN "lost" ELSE dup
  /\ fresh' = FALSE
  /\ UNCHANGED <<linkVars, first_frame, published, cap, then, target, writing,
                 pool, hand, mailbox, mode_changed, runVars, codec_kind,
                 drops, missed, trouble>>

PixelsChange ==
  /\ dup = "ok" /\ ~fresh
  /\ fresh' = TRUE
  /\ UNCHANGED <<linkVars, display, dup, first_frame, published, cap, then,
                 target, writing, pool, hand, mailbox, mode_changed, runVars,
                 codec_kind, changes, drops, missed, trouble>>
-----------------------------------------------------------------------------
(* The capture thread.  At the top of its loop it gives up the duplication *)
(* when the gate is shut, and parks.                                       *)
captureElse == <<linkVars, display, mode_changed, runVars, codec_kind,
                 changes, drops>>

SeeGate ==
  /\ cap = "gate"
  /\ IF gate
     THEN cap' = "acquire" /\ UNCHANGED <<dup, first_frame, fresh>>
     ELSE /\ cap' = "parked" /\ dup' = "none" /\ fresh' = FALSE
          /\ first_frame' = (first_frame \/ dup # "none")
  /\ UNCHANGED <<captureElse, published, then, target, writing, pool, hand,
                 mailbox, missed, trouble>>

Unpark ==
  /\ cap = "parked" /\ gate
  /\ cap' = "acquire"
  /\ UNCHANGED <<captureElse, dup, fresh, first_frame, published, then, target,
                 writing, pool, hand, mailbox, missed, trouble>>

(* adopt_mode: an unchanged mode is left alone; otherwise the textures go  *)
(* and the fields follow one by one.                                       *)
(* Faulty: a change of format alone keeps the textures.                    *)
AdoptKeepingPool(m, place) ==
  /\ target' = m /\ then' = place
  /\ IF m = published
     THEN cap' = place /\ UNCHANGED <<pool, writing>>
     ELSE /\ cap' = "publish" /\ writing' = 1
          /\ pool' = IF m.width = published.width /\ m.height = published.height
                     THEN pool ELSE << >>

Adopt(m, place) ==
  /\ target' = m /\ then' = place
  /\ IF m = published
     THEN cap' = place /\ UNCHANGED <<pool, writing>>
     ELSE cap' = "publish" /\ pool' = << >> /\ writing' = 1

(* reinit_duplication: without a duplication acquire makes one and goes    *)
(* on; after ACCESS_LOST it makes one and returns.                         *)
Reinit ==
  /\ cap = "acquire" /\ dup # "ok"
  /\ dup' = "ok" /\ fresh' = TRUE /\ first_frame' = TRUE /\ missed' = FALSE
  /\ Adopt(Describe(display), IF dup = "none" THEN "acquire" ELSE "gate")
  /\ UNCHANGED <<captureElse, published, hand, mailbox, trouble>>

ReinitFails ==
  /\ cap = "acquire" /\ dup # "ok"
  /\ Disturb
  /\ dup' = "none" /\ cap' = "gate"
  /\ UNCHANGED <<captureElse, fresh, first_frame, published, then, target,
                 writing, pool, hand, mailbox, missed>>

(* The textures decide: whatever the description said is corrected here. *)
Acquire ==
  /\ cap = "acquire" /\ dup = "ok" /\ fresh
  /\ fresh' = FALSE
  /\ Adopt([display EXCEPT !.hz = published.hz], "frame")
  /\ UNCHANGED <<captureElse, dup, first_frame, published, hand, mailbox,
                 missed, trouble>>

AcquireTimesOut ==
  /\ cap = "acquire" /\ dup = "ok" /\ ~fresh
  /\ cap' = "gate"
  /\ UNCHANGED <<captureElse, dup, fresh, first_frame, published, then, target,
                 writing, pool, hand, mailbox, missed, trouble>>

(* Faulty: the flag goes up before the fields it announces. *)
FlagFirst == <<"flag", "hz", "format", "height", "width">>

StoreOrder == <<"hz", "format", "height", "width", "flag">>

Publish ==
  /\ cap = "publish"
  /\ IF StoreOrder[writing] = "flag"
     THEN mode_changed' = TRUE /\ UNCHANGED published
     ELSE /\ published' = [published EXCEPT ![StoreOrder[writing]] =
                                                target[StoreOrder[writing]]]
          /\ UNCHANGED mode_changed
  /\ IF writing = Len(StoreOrder)
     THEN cap' = then /\ writing' = 1
     ELSE writing' = writing + 1 /\ UNCHANGED cap
  /\ UNCHANGED <<linkVars, display, runVars, codec_kind, changes,
                 drops, dup, fresh, first_frame, then, target, pool, hand,
                 mailbox, missed, trouble>>

(* next_frame_texture: the pool is made anew if the mode took it, and the  *)
(* copy does nothing, and says nothing, if the two do not match.           *)
CopyFrame ==
  /\ cap = "frame"
  /\ pool' = IF pool = << >> THEN Cut(published) ELSE pool
  /\ hand' = [cut |-> pool', good |-> pool' = Cut(target)]
  /\ first_frame' = FALSE
  /\ cap' = "push"
  /\ UNCHANGED <<captureElse, dup, fresh, published, then, target, writing,
                 mailbox, missed, trouble>>

PoolFails ==
  /\ cap = "frame" /\ pool = << >>
  /\ Disturb
  /\ cap' = "gate" /\ missed' = TRUE
  /\ UNCHANGED <<captureElse, dup, fresh, first_frame, published, then, target,
                 writing, pool, hand, mailbox>>

Push ==
  /\ cap = "push"
  /\ mailbox' = hand /\ hand' = << >>
  /\ cap' = "gate"
  /\ UNCHANGED <<captureElse, dup, fresh, first_frame, published, then, target,
                 writing, pool, missed, trouble>>

CaptureNext ==
  codec_kind = "video" /\ up /\
  (\/ SeeGate \/ Unpark \/ Reinit \/ ReinitFails \/ Acquire
   \/ AcquireTimesOut \/ Publish \/ CopyFrame \/ PoolFails \/ Push)
-----------------------------------------------------------------------------
(* The accepting thread. *)
runElse == <<display, captureVars, codec_kind, changes>>

AcceptClient ==
  /\ run = "accept"
  /\ Accept
  /\ run' = IF codec_kind = "video" THEN "width" ELSE "greet"
  /\ UNCHANGED <<runElse, cfg, gate, mailbox, mode_changed, drops, missed,
                 trouble>>

TurnAway ==
  /\ run = "accept"
  /\ AcceptSilent
  /\ UNCHANGED <<runElse, runVars, mailbox, mode_changed, drops, missed, trouble>>

(* The mode is read one field after the other. *)
AfterReading(f) == CASE f = "width"  -> "height"
                     [] f = "height" -> "format"
                     [] f = "format" -> "hz"
                     [] f = "hz"     -> "build"

ReadMode ==
  /\ run \in {"width", "height", "format", "hz"}
  /\ cfg' = [cfg EXCEPT ![run] = published[run]]
  /\ run' = AfterReading(run)
  /\ UNCHANGED <<linkVars, runElse, gate, mailbox, mode_changed, drops, missed,
                 trouble>>

(* What asking for an encoder may give: the codec, and whether its levels  *)
(* reach the display's rate.                                               *)
Settled(codec) == [codec : {codec}, fps : {"full", "short"}]

Created(codec) ==
  IF codec = "hevc" THEN Settled("hevc") \cup Settled("h264") ELSE Settled("h264")

Asked == IF Preferred = "hevc" /\ "hevc" \notin Decodable THEN "h264" ELSE Preferred

(* H.264 short of the display's rate is given up for HEVC if that has more. *)
Upgraded(e) ==
  IF /\ ~CodecExplicit /\ e.codec = "h264" /\ e.fps = "short"
     /\ "hevc" \in Decodable
  THEN {better \in Created("hevc") : better.fps = "full"} \cup Created("h264")
  ELSE {e}

EncoderChoices == UNION {Upgraded(e) : e \in Created(Asked)}

(* Faulty: a codec the client cannot decode is taken all the same. *)
AnyCodecAcceptable(codec) == TRUE

Acceptable(codec) == codec \in Decodable

(* init_video_processor asks whether the format can be converted.          *)
(* Faulty: any format is taken for convertible.                            *)
AnyFormatTaken(format) == TRUE

FormatTaken(format) == format \in Convertible

(* No encoder for a format that cannot be converted, however often it is   *)
(* asked for; any other failure is a matter of luck.  The codec goes into  *)
(* run, for the Hello.                                                     *)
BuildEncoder ==
  /\ run = "build"
  /\ \/ ~FormatTaken(cfg.format) /\ run' = "close" /\ UNCHANGED trouble
     \/ /\ FormatTaken(cfg.format)
        /\ \E e \in EncoderChoices :
             /\ IF e.codec = Asked THEN UNCHANGED trouble ELSE Disturb
             /\ run' = IF ~Acceptable(e.codec) THEN "close"
                       ELSE IF e.codec = "hevc" THEN "greet hevc" ELSE "greet h264"
     \/ FormatTaken(cfg.format) /\ Disturb /\ run' = "close"
  /\ UNCHANGED <<linkVars, runElse, cfg, gate, mailbox, mode_changed, drops,
                 missed>>

Hello(codec) == [type |-> "hello", width |-> cfg.width, height |-> cfg.height,
                 codec |-> codec]

Greet ==
  /\ run \in {"greet", "greet h264", "greet hevc"}
  /\ \/ /\ Transmit(Hello(CASE run = "greet" -> "none"
                            [] run = "greet h264" -> "h264"
                            [] run = "greet hevc" -> "hevc"))
        /\ run' = IF run = "greet" THEN "open" ELSE "clear"
     \/ /\ served # "live"
        /\ run' = "close" /\ UNCHANGED linkVars
  /\ UNCHANGED <<runElse, cfg, gate, mailbox, mode_changed, drops, missed,
                 trouble>>

ClearMailbox ==
  /\ run = "clear"
  /\ mailbox' = << >>
  /\ run' = "open"
  /\ UNCHANGED <<linkVars, runElse, cfg, gate, mode_changed, drops, missed,
                 trouble>>

OpenGate ==
  /\ run = "open"
  /\ gate' = TRUE
  /\ missed' = (dup # "none" /\ (missed \/ ~first_frame))
  /\ run' = IF codec_kind = "video" THEN "top" ELSE "pop"
  /\ UNCHANGED <<linkVars, runElse, cfg, mailbox, mode_changed, drops, trouble>>
-----------------------------------------------------------------------------
(* run_h264's loop, as far as it is about the connection. *)
loopElse == <<runElse, cfg, gate, missed>>

(* Faulty: the flag is read without being taken. *)
PeekModeChange == UNCHANGED mode_changed

TakeModeChange == mode_changed' = FALSE

TopDead ==
  /\ run = "top" /\ served = "dead"
  /\ run' = "leave"
  /\ UNCHANGED <<linkVars, loopElse, mailbox, mode_changed, drops, trouble>>

TopRenegotiates ==
  /\ run = "top" /\ served # "dead" /\ mode_changed
  /\ TakeModeChange
  /\ drops' = IF drops > changes THEN drops ELSE drops + 1
  /\ run' = "leave"
  /\ UNCHANGED <<linkVars, loopElse, mailbox, trouble>>

TopGoesOn ==
  /\ run = "top" /\ served # "dead" /\ ~mode_changed
  /\ run' = "take"
  /\ UNCHANGED <<linkVars, loopElse, mailbox, mode_changed, drops, trouble>>

(* Faulty: only the size is compared, as before there was HDR; nothing is. *)
FitsAnything(frame) == TRUE

Fits(frame) == frame.cut = Cut(cfg)

Picture(frame) == [type |-> "frame", width |-> frame.cut[1],
                   height |-> frame.cut[2], codec |-> "none"]

(* A frame cut to another mode is dropped; any other is encoded and sent.  *)
(* With the link full (the bound) the loop comes back without one.         *)
TakeFrame ==
  /\ run = "take" /\ mailbox # << >> /\ Room
  /\ mailbox' = << >>
  /\ IF Fits(mailbox) THEN Transmit(Picture(mailbox)) ELSE UNCHANGED linkVars
  /\ run' = "top"
  /\ UNCHANGED <<loopElse, mode_changed, drops, trouble>>

TakeNothing ==
  /\ run = "take" /\ (mailbox = << >> \/ ~Room)
  /\ run' = "top"
  /\ UNCHANGED <<linkVars, loopElse, mailbox, mode_changed, drops, trouble>>

EncodeFails ==
  /\ run = "take" /\ mailbox # << >>
  /\ Disturb
  /\ mailbox' = << >>
  /\ run' = "leave"
  /\ UNCHANGED <<linkVars, loopElse, mode_changed, drops>>

(* run_lz4: capture fills the mailbox, and the thread blocks until it has. *)
Lz4Frame ==
  /\ codec_kind = "lz4" /\ up /\ gate /\ mailbox = << >>
  /\ mailbox' = [cut |-> Cut(cfg), good |-> TRUE]
  /\ UNCHANGED <<linkVars, runElse, runVars, mode_changed, drops, missed, trouble>>

Lz4Send ==
  /\ run = "pop" /\ mailbox # << >> /\ Room
  /\ mailbox' = << >>
  /\ \/ served \in {"live", "stale"} /\ Transmit(Picture(mailbox)) /\ UNCHANGED run
     \/ served # "live" /\ run' = "leave" /\ UNCHANGED linkVars
  /\ UNCHANGED <<loopElse, mode_changed, drops, trouble>>

(* The gate is shut before anything else is torn down. *)
Leave ==
  /\ run = "leave"
  /\ gate' = FALSE
  /\ run' = "close"
  /\ UNCHANGED <<linkVars, runElse, cfg, mailbox, mode_changed, drops, missed,
                 trouble>>

CloseClient ==
  /\ run = "close"
  /\ SenderCloses
  /\ run' = "accept"
  /\ UNCHANGED <<runElse, cfg, gate, mailbox, mode_changed, drops, missed,
                 trouble>>

RunNext ==
  up /\
  (\/ AcceptClient \/ TurnAway \/ ReadMode \/ BuildEncoder \/ Greet
   \/ ClearMailbox \/ OpenGate \/ TopDead \/ TopRenegotiates \/ TopGoesOn
   \/ TakeFrame \/ TakeNothing \/ EncodeFails \/ Lz4Send \/ Leave
   \/ CloseClient)
-----------------------------------------------------------------------------
(* The link and the process. *)
Notice ==
  /\ NoticeGone
  /\ UNCHANGED <<senderVars, trouble>>

Breaks ==
  /\ LinkBreaks /\ Disturb
  /\ UNCHANGED senderVars

StrangerConnects ==
  /\ Stranger /\ Disturb
  /\ UNCHANGED senderVars

Dies ==
  /\ SenderDies /\ Disturb
  /\ UNCHANGED senderVars

(* Started again, perhaps with the other --codec. *)
Restart ==
  /\ ~up
  /\ up' = TRUE
  /\ SenderStart(display)
  /\ codec_kind' \in {"video", "lz4"}
  /\ UNCHANGED <<queue, mine, served, inbox, display, changes, drops,
                 trouble>>

SenderNext ==
  \/ ModeChanges \/ PixelsChange \/ CaptureNext \/ RunNext
  \/ Lz4Frame \/ Notice \/ Breaks \/ StrangerConnects \/ Dies \/ Restart
=============================================================================
