--------------------------- MODULE SessionProofs ----------------------------
(***************************************************************************)
(* What holds of the two programs together for every set of modes, every   *)
(* backlog and any number of disturbances: a connection set up for the     *)
(* wrong mode is told to end, what the copy missed is not passed on, no    *)
(* client is dropped without cause, every picture fits its textures, and   *)
(* a receiver that has worked once does not give up.                       *)
(***************************************************************************)
EXTENDS Session, Functions, TLAPS

Message == [type : {"none", "hello", "frame"}, width : Nat, height : Nat,
            codec : {"none", "h264", "hevc"}]

SizeOf(x) == <<x.width, x.height>>

Capturing == {"gate", "parked", "acquire", "publish", "frame", "push"}

(* What the variables hold; up, served and the rest are only ever compared. *)
Typed ==
  /\ display \in Mode /\ published \in Mode /\ target \in Mode /\ cfg \in Mode
  /\ cap \in Capturing /\ then \in {"gate", "acquire", "frame"}
  /\ writing \in 1..5
  /\ changes \in Nat /\ drops \in Nat
  /\ queue \in Seq({"mine", "gone", "silent"})
  /\ inbox \in Seq(Message) /\ hello \in Message

(* Which places belong to which kind of stream; without an encoder nothing *)
(* reads a mode, so a frame in the mailbox is of the one it started with.  *)
Kinds ==
  /\ codec_kind \in {"video", "lz4"}
  /\ run \in Reading \cup {"build", "greet h264", "greet hevc", "clear", "top",
                         "take"} => codec_kind = "video"
  /\ run \in {"greet", "pop"} => codec_kind = "lz4"
  /\ codec_kind = "lz4" /\ mailbox # << >> => mailbox.cut = Cut(cfg)

(* adopt_mode stores the fields in one order, and is done with those before *)
(* the one that comes next; outside it they are the mode last adopted.      *)
Stored ==
  /\ cap # "publish" => published = target
  /\ cap = "publish" =>
       /\ writing > 1 => published.hz = target.hz
       /\ writing > 2 => published.format = target.format
       /\ writing > 3 => published.height = target.height
       /\ writing > 4 => published.width = target.width

(* The pool is there for the mode in the fields, or is not there. *)
PoolRight ==
  pool # << >> => cap # "publish" /\ pool = Cut(published)

(* What the loop has read and what it has not: the inductive form of      *)
(* StaleModeEnds.  A field it has read and that is different now means a  *)
(* flag that is up or on its way.                                         *)
WidthRead == {"height", "format", "hz", "top", "take"} \cup Settling
HeightRead == {"format", "hz", "top", "take"} \cup Settling
FormatRead == {"hz", "top", "take"} \cup Settling
HzRead == {"top", "take"} \cup Settling

ReadSoFar ==
  codec_kind = "video" =>
    /\ run \in WidthRead /\ cfg.width # published.width => FlagToCome
    /\ run \in HeightRead /\ cfg.height # published.height => FlagToCome
    /\ run \in FormatRead /\ cfg.format # published.format => FlagToCome
    /\ run \in HzRead /\ cfg.hz # published.hz => FlagToCome

(* Every drop was called for: what could still call for one - a flag up, a *)
(* flag on its way, a display the capture has not looked at - has a change *)
(* of its own.  While the duplication lives the display is the one adopted. *)
Called ==
  /\ dup = "ok" => target = display
  /\ drops + (IF mode_changed THEN 1 ELSE 0) + (IF cap = "publish" THEN 1 ELSE 0)
           + (IF target # display THEN 1 ELSE 0) <= changes

(* The two ends of the link: the client served is the receiver's present   *)
(* connection, of which at most one waits in the queue, with nothing sent. *)
Linked ==
  /\ ~up => served = "none"
  /\ served = "live" => mine = "accepted"
  /\ rx \in {"connect", "retry", "exited"} => mine = "none" /\ inbox = << >>
  /\ mine = "pending" => rx = "shake" /\ inbox = << >>
  /\ \A i \in DOMAIN queue : queue[i] = "mine" =>
       mine = "pending" /\ \A j \in DOMAIN queue : queue[j] = "mine" => j = i

(* What is in flight is of the size its hello announced, and the loop's    *)
(* mode is of that size from the greeting on: the inductive form of        *)
(* FrameFits.                                                              *)
Ungreeted == Reading \cup {"accept", "build", "greet", "greet h264", "greet hevc"}
Streaming == {"clear", "open", "top", "take", "pop"}
Fitted == {"window", "decoder", "show"}

Announced ==
  /\ served = "live" /\ run \in Ungreeted => rx = "shake" /\ inbox = << >>
  /\ rx = "shake" =>
       \A m, n \in Range(inbox) : SizeOf(m) = SizeOf(n)
  /\ rx \in Fitted => \A m \in Range(inbox) : SizeOf(m) = SizeOf(hello)
  /\ rx \in {"decoder", "show"} => texture = SizeOf(hello)
  /\ served = "live" /\ run \in Streaming =>
       \/ rx = "shake" /\ \A m \in Range(inbox) : SizeOf(m) = SizeOf(cfg)
       \/ rx \in Fitted /\ SizeOf(hello) = SizeOf(cfg)
       \/ rx = "close"

(* A codec is announced only when the receiver said it has a decoder for   *)
(* it, and the deadline ends only a process that never got anywhere.       *)
Coded ==
  /\ run = "greet h264" => "h264" \in Decodable
  /\ run = "greet hevc" => "hevc" \in Decodable
  /\ \A m \in Range(inbox) : m.codec \in Decodable \cup {"none"}
  /\ hello.codec \in Decodable \cup {"none"}
  /\ rx = "decoder" => hello.codec # "none"
  /\ outcome \in {"running", "user", "fault", "deadline"}
  /\ outcome = "deadline" => rx = "exited" /\ ~connected_before
-----------------------------------------------------------------------------
(* One store of adopt_mode: a field of the four, in this order, or the     *)
(* flag, which ends it.                                                    *)
LEMMA PublishStores ==
  ASSUME Typed, Publish
  PROVE  \/ /\ writing = 1 /\ writing' = 2 /\ cap' = cap
            /\ published' = [published EXCEPT !.hz = target.hz]
            /\ mode_changed' = mode_changed
         \/ /\ writing = 2 /\ writing' = 3 /\ cap' = cap
            /\ published' = [published EXCEPT !.format = target.format]
            /\ mode_changed' = mode_changed
         \/ /\ writing = 3 /\ writing' = 4 /\ cap' = cap
            /\ published' = [published EXCEPT !.height = target.height]
            /\ mode_changed' = mode_changed
         \/ /\ writing = 4 /\ writing' = 5 /\ cap' = cap
            /\ published' = [published EXCEPT !.width = target.width]
            /\ mode_changed' = mode_changed
         \/ /\ writing = 5 /\ writing' = 1 /\ cap' = then
            /\ published' = published
            /\ mode_changed' = TRUE
<1>1. /\ Len(StoreOrder) = 5
      /\ StoreOrder[1] = "hz" /\ StoreOrder[2] = "format"
      /\ StoreOrder[3] = "height" /\ StoreOrder[4] = "width"
      /\ StoreOrder[5] = "flag"
  BY DEF StoreOrder
<1>2. writing = 1 \/ writing = 2 \/ writing = 3 \/ writing = 4 \/ writing = 5
  BY DEF Typed
<1>3. CASE writing = 1
  BY <1>1, <1>3 DEF Publish
<1>4. CASE writing = 2
  BY <1>1, <1>4 DEF Publish
<1>5. CASE writing = 3
  BY <1>1, <1>5 DEF Publish
<1>6. CASE writing = 4
  BY <1>1, <1>6 DEF Publish
<1>7. CASE writing = 5
  BY <1>1, <1>7 DEF Publish
<1>8. QED
  BY <1>2, <1>3, <1>4, <1>5, <1>6, <1>7

(* What a duplication describes is a mode, right or wrong. *)
LEMMA DescribedIsMode ==
  ASSUME NEW m \in Mode PROVE Describe(m) \in Mode
  BY SessionAssumption DEF Describe, Mode

(* Every way an encoder is settled on ends in one of two codecs. *)
LEMMA Codecs ==
  ASSUME NEW e \in EncoderChoices PROVE e.codec \in {"h264", "hevc"}
<1>1. \A c : \A d \in Created(c) : d.codec \in {"h264", "hevc"}
  BY DEF Created, Settled
<1>2. \A d : \A u \in Upgraded(d) :
        u \in Created("hevc") \/ u \in Created("h264") \/ u = d
  BY DEF Upgraded
<1>3. PICK d \in Created(Asked) : e \in Upgraded(d)
  BY DEF EncoderChoices
<1>4. QED
  BY <1>1, <1>2, <1>3
-----------------------------------------------------------------------------
(* The types, action by action where they are touched. *)
LEMMA TypedInit == Init => Typed
<1>1. ASSUME NEW m \in Modes PROVE m \in Mode /\ Describe(m) \in Mode
  BY SessionAssumption, DescribedIsMode
<1>2. NoHello \in Message
  BY DEF NoHello, Message
<1>3. SUFFICES ASSUME Init PROVE Typed
  OBVIOUS
<1>4. display \in Mode /\ Describe(display) \in Mode
  BY <1>1, <1>3, SessionAssumption DEF Init, SenderInit
<1>5. queue \in Seq({"mine", "gone", "silent"}) /\ inbox \in Seq(Message)
  BY <1>3 DEF Init, LinkInit
<1>6. QED
  BY <1>2, <1>3, <1>4, <1>5
     DEF Init, SenderInit, ReceiverInit, Typed, Capturing

(* The capture thread keeps the types. *)
LEMMA CaptureTyped ==
  ASSUME Typed, CaptureNext, UNCHANGED receiverVars PROVE Typed'
<1> USE DEF captureElse, linkVars, runVars, receiverVars, Typed, Capturing
<1>1. Describe(display) \in Mode
  BY DescribedIsMode
<1>2. CASE SeeGate \/ Unpark \/ ReinitFails \/ AcquireTimesOut \/ CopyFrame
           \/ PoolFails \/ Push
  BY <1>2 DEF SeeGate, Unpark, ReinitFails, AcquireTimesOut, CopyFrame,
              PoolFails, Push
<1>3. CASE Reinit
  BY <1>1, <1>3 DEF Reinit, Adopt
<1>4. CASE Acquire
  <2>1. [display EXCEPT !.hz = published.hz] \in Mode
    BY DEF Mode
  <2>2. QED
    BY <1>4, <2>1 DEF Acquire, Adopt
<1>5. CASE Publish
  <2>1. published' \in Mode
    BY <1>5, PublishStores DEF Mode
  <2>2. /\ cap' = cap \/ cap' = then
        /\ writing' = 1 \/ writing' = 2 \/ writing' = 3 \/ writing' = 4
           \/ writing' = 5
    BY <1>5, PublishStores, Zenon
  <2>3. QED
    BY <1>5, <2>1, <2>2 DEF Publish
<1>6. QED
  BY <1>2, <1>3, <1>4, <1>5 DEF CaptureNext

(* A fresh sender is at its accept. *)
LEMMA KindsInit == Init => Kinds
  BY DEF Init, SenderInit, Kinds, Reading

(* A loop stays the loop of its codec. *)
LEMMA KindsKept ==
  ASSUME Kinds, [Next]_vars PROVE Kinds'
<1> USE DEF Kinds, Reading
<1>1. CASE RunNext
  <2> USE DEF runElse, runVars, loopElse, captureVars
  <2>1. CASE AcceptClient \/ TurnAway
    BY <2>1 DEF AcceptClient, TurnAway
  <2>2. CASE ReadMode
    BY <2>2 DEF ReadMode, AfterReading
  <2>3. CASE BuildEncoder
    BY <2>3 DEF BuildEncoder
  <2>4. CASE Greet \/ ClearMailbox \/ OpenGate
    BY <2>4 DEF Greet, ClearMailbox, OpenGate
  <2>5. CASE TopDead \/ TopRenegotiates \/ TopGoesOn
    BY <2>5 DEF TopDead, TopRenegotiates, TopGoesOn
  <2>6. CASE TakeFrame \/ TakeNothing \/ EncodeFails \/ Lz4Send
    BY <2>6 DEF TakeFrame, TakeNothing, EncodeFails, Lz4Send
  <2>7. CASE Leave \/ CloseClient
    BY <2>7 DEF Leave, CloseClient
  <2>8. QED
    BY <1>1, <2>1, <2>2, <2>3, <2>4, <2>5, <2>6, <2>7 DEF RunNext
<1>2. CASE CaptureNext
  <2>1. codec_kind = "video" /\ UNCHANGED <<codec_kind, run, cfg>>
    BY <1>2 DEF CaptureNext, SeeGate, Unpark, Reinit, ReinitFails, Acquire,
         AcquireTimesOut, Publish, CopyFrame, PoolFails, Push, captureElse,
         runVars
  <2>2. QED
    BY <2>1
<1>3. CASE Lz4Frame
  BY <1>3 DEF Lz4Frame, runElse, runVars
<1>4. CASE Restart
  BY <1>4 DEF Restart, SenderStart
<1>5. CASE ModeChanges \/ PixelsChange \/ Notice \/ Breaks
           \/ StrangerConnects \/ Dies
  BY <1>5 DEF ModeChanges, PixelsChange, Notice, Breaks, StrangerConnects,
       Dies, senderVars, runVars
<1>6. CASE UNCHANGED senderVars
  BY <1>6 DEF senderVars, runVars
<1>7. QED
  BY <1>1, <1>2, <1>3, <1>4, <1>5, <1>6 DEF Next, SenderNext, vars

(* ReadMode, field by field: the one it reads and the one that is next. *)
LEMMA ModeIsRead ==
  ASSUME Typed, ReadMode
  PROVE  \/ /\ run = "width" /\ run' = "height"
            /\ cfg' = [cfg EXCEPT !.width = published.width]
         \/ /\ run = "height" /\ run' = "format"
            /\ cfg' = [cfg EXCEPT !.height = published.height]
         \/ /\ run = "format" /\ run' = "hz"
            /\ cfg' = [cfg EXCEPT !.format = published.format]
         \/ /\ run = "hz" /\ run' = "build"
            /\ cfg' = [cfg EXCEPT !.hz = published.hz]
<1>1. CASE run = "width"
  BY <1>1 DEF ReadMode, AfterReading
<1>2. CASE run = "height"
  BY <1>2 DEF ReadMode, AfterReading
<1>3. CASE run = "format"
  BY <1>3 DEF ReadMode, AfterReading
<1>4. CASE run = "hz"
  BY <1>4 DEF ReadMode, AfterReading
<1>5. run \in {"width", "height", "format", "hz"}
  BY DEF ReadMode
<1>6. QED
  BY <1>1, <1>2, <1>3, <1>4, <1>5

(* A message sent is in flight or lost; either way what is in flight is messages. *)
LEMMA Sent ==
  ASSUME Typed, NEW m \in Message, Transmit(m)
  PROVE  inbox' \in Seq(Message)
  BY DEF Typed, Transmit

(* What Head, Tail and Append do to the type of a sequence. *)
LEMMA SeqShapes ==
  ASSUME NEW S, NEW s \in Seq(S)
  PROVE  /\ << >> \in Seq(S)
         /\ s # << >> => Tail(s) \in Seq(S) /\ Head(s) \in S
         /\ \A x \in S : Append(s, x) \in Seq(S)
  OBVIOUS

(* The accepting thread keeps the types. *)
LEMMA RunTyped ==
  ASSUME Typed, Kinds, RunNext, UNCHANGED receiverVars PROVE Typed'
<1> USE DEF runElse, captureVars, linkVars, receiverVars, Typed
<1>1. CASE AcceptClient \/ TurnAway
  <2>1. queue # << >> /\ queue' = Tail(queue)
    BY <1>1 DEF AcceptClient, Accept, TurnAway, AcceptSilent
  <2>2. queue' \in Seq({"mine", "gone", "silent"})
    BY <2>1, SeqShapes
  <2>3. QED
    BY <1>1, <2>2 DEF AcceptClient, Accept, TurnAway, AcceptSilent, runVars
<1>2. CASE ReadMode
  <2>1. cfg' \in Mode
    BY <1>2, ModeIsRead DEF Mode
  <2>2. QED
    BY <1>2, <2>1 DEF ReadMode
<1>3. CASE BuildEncoder \/ ClearMailbox \/ OpenGate \/ TopDead
           \/ TopRenegotiates \/ TopGoesOn \/ TakeNothing \/ EncodeFails
           \/ Leave \/ CloseClient
  <2>1. drops' \in {drops, drops + 1}
    BY <1>3 DEF BuildEncoder, ClearMailbox, OpenGate, TopDead, TopRenegotiates,
         TopGoesOn, TakeNothing, EncodeFails, Leave, CloseClient
  <2>2. UNCHANGED <<captureVars, display, cfg, changes, queue, inbox>>
    BY <1>3 DEF BuildEncoder, ClearMailbox, OpenGate, TopDead, TopRenegotiates,
         TopGoesOn, TakeNothing, EncodeFails, Leave, CloseClient, SenderCloses,
         loopElse
  <2>3. QED
    BY <2>1, <2>2
<1>4. CASE Greet
  <2>1. \A c \in {"none", "h264", "hevc"} : Hello(c) \in Message
    BY DEF Hello, Message, Mode
  <2>2. inbox' \in Seq(Message)
    BY <1>4, <2>1, Sent DEF Greet
  <2>3. QED
    BY <1>4, <2>2 DEF Greet, Transmit
<1>5. CASE TakeFrame
  <2>1. Fits(mailbox) => Picture(mailbox) \in Message
    BY DEF Fits, Cut, Picture, Message, Mode
  <2>2. inbox' \in Seq(Message)
    BY <1>5, <2>1, Sent DEF TakeFrame
  <2>3. QED
    BY <1>5, <2>2 DEF TakeFrame, Transmit, loopElse
<1>6. CASE Lz4Send
  <2>1. mailbox.cut = <<cfg.width, cfg.height, cfg.format>>
    BY <1>6 DEF Lz4Send, Kinds, Cut
  <2>2. cfg.width \in Nat /\ cfg.height \in Nat
    BY DEF Mode
  <2>3. Picture(mailbox) \in Message
    BY <2>1, <2>2 DEF Picture, Message
  <2>4. inbox' \in Seq(Message)
    BY <1>6, <2>3, Sent DEF Lz4Send
  <2>5. QED
    BY <1>6, <2>4 DEF Lz4Send, Transmit, loopElse
<1>7. QED
  BY <1>1, <1>2, <1>3, <1>4, <1>5, <1>6 DEF RunNext

(* Every step of the session keeps the types. *)
LEMMA TypedKept ==
  ASSUME Typed, Kinds, [Next]_vars PROVE Typed'
<1> USE DEF linkVars, senderVars, captureVars, Typed
<1>1. CASE CaptureNext /\ UNCHANGED receiverVars
  BY <1>1, CaptureTyped
<1>2. CASE RunNext /\ UNCHANGED receiverVars
  BY <1>2, RunTyped
<1>3. CASE (ModeChanges \/ PixelsChange \/ Lz4Frame) /\ UNCHANGED receiverVars
  BY <1>3, SessionAssumption
     DEF ModeChanges, PixelsChange, Lz4Frame, runElse, runVars, receiverVars
<1>4. CASE (Notice \/ Breaks \/ Dies) /\ UNCHANGED receiverVars
  <2>1. queue' \in {queue, << >>} /\ inbox' \in {inbox, << >>}
    BY <1>4 DEF Notice, NoticeGone, Breaks, LinkBreaks, Dies, SenderDies
  <2>2. /\ queue' \in Seq({"mine", "gone", "silent"})
        /\ inbox' \in Seq(Message)
    BY <2>1, SeqShapes
  <2>3. UNCHANGED senderVars
    BY <1>4 DEF Notice, Breaks, Dies
  <2>4. QED
    BY <1>4, <2>2, <2>3 DEF runVars, receiverVars
<1>5. CASE StrangerConnects /\ UNCHANGED receiverVars
  BY <1>5 DEF StrangerConnects, Stranger, runVars, receiverVars
<1>6. CASE Restart /\ UNCHANGED receiverVars
  BY <1>6, DescribedIsMode DEF Restart, SenderStart, receiverVars, Capturing
<1>7. CASE (ReceiverNext \/ HelloOverdue \/ UserCloses) /\ UNCHANGED senderVars
  <2>1. ReceiverCloses => queue' \in Seq({"mine", "gone", "silent"})
                          /\ inbox' \in Seq(Message)
    BY DEF ReceiverCloses
  <2>2. NoHello \in Message
    BY DEF NoHello, Message
  <2>3. CASE Dial
    <3>1. queue' \in Seq({"mine", "gone", "silent"}) /\ inbox' \in Seq(Message)
      BY <2>3, SeqShapes DEF Dial, Connect
    <3>2. QED
      BY <1>7, <2>3, <3>1 DEF Dial, connectElse, runVars
  <2>4. CASE DialFails \/ GiveUp \/ QuitWaiting \/ RetryOver \/ FitWindow
             \/ BuildDecoder \/ QuitSession \/ ConnectionEnds \/ UserCloses
    BY <1>7, <2>4 DEF DialFails, GiveUp, QuitWaiting, RetryOver,
         FitWindow, BuildDecoder, QuitSession, ConnectionEnds, UserCloses,
         connectElse, End, runVars
  <2>5. CASE ShakeFails \/ HelloOverdue \/ WindowFails \/ DecoderFails
             \/ CloseConnection
    BY <1>7, <2>1, <2>2, <2>5 DEF ShakeFails, HelloOverdue, ShakeTimesOut,
         WindowFails, DecoderFails, CloseConnection, connectElse, runVars
  <2>6. CASE TakeHello \/ Paint
    <3>1. inbox # << >> /\ inbox' = Tail(inbox)
      BY <2>6 DEF TakeHello, Paint
    <3>2. Head(inbox) \in Message /\ inbox' \in Seq(Message)
      BY <3>1, SeqShapes
    <3>3. QED
      BY <1>7, <2>6, <3>2 DEF TakeHello, Paint, runVars
  <2>7. QED
    BY <1>7, <2>3, <2>4, <2>5, <2>6 DEF ReceiverNext
<1>8. CASE UNCHANGED vars
  BY <1>8 DEF vars, runVars, receiverVars
<1>9. QED
  BY <1>1, <1>2, <1>3, <1>4, <1>5, <1>6, <1>7, <1>8 DEF Next, SenderNext
-----------------------------------------------------------------------------
(* The capture thread: fields, pool and copies. *)
Copies == Stored /\ PoolRight /\ CopyMatches

(* A fresh sender has the mode it was described in its fields, and no pool. *)
LEMMA CopiesInit == Init => Copies
  BY DEF Init, SenderInit, Copies, Stored, PoolRight, CopyMatches

(* Every step keeps the fields, the pool and the last copy in agreement. *)
LEMMA CopiesKept ==
  ASSUME Typed, Copies, [Next]_vars PROVE Copies'
<1> USE DEF Copies, Stored, PoolRight, captureElse
<1>1. CASE CaptureNext
  <2>1. CASE SeeGate \/ Unpark \/ ReinitFails \/ AcquireTimesOut \/ PoolFails
    BY <2>1 DEF SeeGate, Unpark, ReinitFails, AcquireTimesOut, PoolFails,
         CopyMatches
  <2>2. CASE Reinit \/ Acquire
    BY <2>2 DEF Reinit, Acquire, Adopt, CopyMatches
  <2>3. CASE Publish
    <3>1. cap = "publish" /\ UNCHANGED <<target, then, pool, hand, mailbox>>
      BY <2>3 DEF Publish
    <3>2. published \in Mode /\ target \in Mode /\ then # "publish"
      BY DEF Typed
    <3>3. CASE writing = 5 /\ writing' = 1 /\ cap' = then /\ published' = published
      <4>1. published = target
        BY <3>1, <3>2, <3>3 DEF Mode
      <4>2. QED
        BY <3>1, <3>2, <3>3, <4>1 DEF CopyMatches
    <3>4. ASSUME cap' = cap,
                 \/ /\ writing = 1 /\ writing' = 2
                    /\ published' = [published EXCEPT !.hz = target.hz]
                 \/ /\ writing = 2 /\ writing' = 3
                    /\ published' = [published EXCEPT !.format = target.format]
                 \/ /\ writing = 3 /\ writing' = 4
                    /\ published' = [published EXCEPT !.height = target.height]
                 \/ /\ writing = 4 /\ writing' = 5
                    /\ published' = [published EXCEPT !.width = target.width]
          PROVE  Copies'
      <4>1. Stored'
        BY <3>1, <3>2, <3>4 DEF Mode
      <4>2. PoolRight' /\ CopyMatches'
        BY <3>1, <3>4 DEF CopyMatches
      <4>3. QED
        BY <4>1, <4>2
    <3>5. QED
      BY <2>3, <3>3, <3>4, PublishStores
  <2>4. CASE CopyFrame
    <3>1. pool' = Cut(published) /\ published = target
      BY <2>4 DEF CopyFrame
    <3>2. hand'.good /\ mailbox' = mailbox
      BY <2>4, <3>1 DEF CopyFrame
    <3>3. CopyMatches'
      BY <3>2 DEF CopyMatches
    <3>4. QED
      BY <2>4, <3>1, <3>3 DEF CopyFrame, Cut
  <2>5. CASE Push
    BY <2>5 DEF Push, CopyMatches
  <2>6. QED
    BY <1>1, <2>1, <2>2, <2>3, <2>4, <2>5 DEF CaptureNext
<1>2. CASE RunNext
  <2>1. UNCHANGED captureVars /\ mailbox' \in {mailbox, << >>}
    BY <1>2 DEF RunNext, AcceptClient, TurnAway, ReadMode, BuildEncoder, Greet,
         ClearMailbox, OpenGate, TopDead, TopRenegotiates, TopGoesOn,
         TakeFrame, TakeNothing, EncodeFails, Lz4Send, Leave, CloseClient,
         runElse, loopElse
  <2>2. QED
    BY <2>1 DEF captureVars, CopyMatches, Cut
<1>3. CASE Lz4Frame
  <2>1. mailbox'.good /\ UNCHANGED captureVars
    BY <1>3 DEF Lz4Frame, runElse
  <2>2. QED
    BY <2>1 DEF captureVars, CopyMatches, Cut
<1>4. CASE Restart
  BY <1>4 DEF Restart, SenderStart, CopyMatches
<1>5. CASE ModeChanges \/ PixelsChange
  BY <1>5 DEF ModeChanges, PixelsChange, CopyMatches, Cut
<1>6. CASE Notice \/ Breaks \/ StrangerConnects \/ Dies \/ UNCHANGED senderVars
  <2>1. UNCHANGED <<captureVars, mailbox>>
    BY <1>6 DEF Notice, Breaks, StrangerConnects, Dies, senderVars
  <2>2. QED
    BY <2>1 DEF captureVars, CopyMatches, Cut
<1>7. QED
  BY <1>1, <1>2, <1>3, <1>4, <1>5, <1>6 DEF Next, SenderNext, vars
-----------------------------------------------------------------------------
(* The mode, read field by field against the same fields written one by   *)
(* one.                                                                    *)
LEMMA ReadInit == Init => ReadSoFar
  BY DEF Init, SenderInit, ReadSoFar, WidthRead, HeightRead, FormatRead, HzRead,
     Settling

(* Every step keeps what the loop has read true, or a flag up or coming. *)
LEMMA ReadKept ==
  ASSUME Typed, Kinds, ReadSoFar, [Next]_vars PROVE ReadSoFar'
<1> USE DEF ReadSoFar, WidthRead, HeightRead, FormatRead, HzRead, Settling,
        FlagToCome
<1>1. CASE CaptureNext
  <2>1. UNCHANGED <<codec_kind, run, cfg>>
    BY <1>1 DEF CaptureNext, SeeGate, Unpark, Reinit, ReinitFails, Acquire,
         AcquireTimesOut, Publish, CopyFrame, PoolFails, Push, captureElse,
         runVars
  <2>2. CASE Publish
    BY <2>1, <2>2, PublishStores DEF Typed, Mode, Publish
  <2>3. CASE ~Publish
    <3>1. /\ UNCHANGED <<published, mode_changed>>
          /\ cap # "publish"
      BY <1>1, <2>3 DEF CaptureNext, SeeGate, Unpark, Reinit, ReinitFails,
           Acquire, AcquireTimesOut, CopyFrame, PoolFails, Push, captureElse
    <3>2. QED
      BY <2>1, <3>1
  <2>4. QED
    BY <2>2, <2>3
<1>2. CASE RunNext
  <2>1. UNCHANGED <<cap, published, codec_kind>>
    BY <1>2 DEF RunNext, AcceptClient, TurnAway, ReadMode, BuildEncoder, Greet,
         ClearMailbox, OpenGate, TopDead, TopRenegotiates, TopGoesOn,
         TakeFrame, TakeNothing, EncodeFails, Lz4Send, Leave, CloseClient,
         runElse, loopElse, captureVars
  <2>2. CASE ReadMode
    <3>1. UNCHANGED mode_changed
      BY <2>2 DEF ReadMode
    <3>2. QED
      BY <2>1, <2>2, <3>1, ModeIsRead DEF Typed, Mode
  <2>3. CASE TopRenegotiates
    BY <2>3 DEF TopRenegotiates
  <2>4. CASE ~ReadMode /\ ~TopRenegotiates
    <3>1. UNCHANGED <<cfg, mode_changed>>
      BY <1>2, <2>4 DEF RunNext, AcceptClient, TurnAway, BuildEncoder, Greet,
           ClearMailbox, OpenGate, TopDead, TopGoesOn, TakeFrame, TakeNothing,
           EncodeFails, Lz4Send, Leave, CloseClient, runVars, loopElse
    <3>2. \/ run' = run
          \/ run' \in {"width", "close", "accept", "leave", "pop"}
          \/ /\ codec_kind = "lz4"
          \/ /\ run \in HzRead /\ run' \in HzRead
      <4>1. CASE AcceptClient
        BY <4>1 DEF AcceptClient, Kinds
      <4>2. CASE BuildEncoder
        BY <4>2 DEF BuildEncoder
      <4>3. CASE Greet \/ ClearMailbox \/ OpenGate
        BY <4>3 DEF Greet, ClearMailbox, OpenGate
      <4>4. CASE TurnAway \/ TopDead \/ TopGoesOn \/ TakeFrame \/ TakeNothing
                 \/ EncodeFails \/ Lz4Send \/ Leave \/ CloseClient
        BY <4>4 DEF TurnAway, TopDead, TopGoesOn, TakeFrame, TakeNothing,
             EncodeFails, Lz4Send, Leave, CloseClient, runVars, loopElse
      <4>5. QED
        BY <1>2, <2>4, <4>1, <4>2, <4>3, <4>4 DEF RunNext
    <3>3. QED
      BY <2>1, <3>1, <3>2
  <2>5. QED
    BY <2>2, <2>3, <2>4
<1>3. CASE Restart
  BY <1>3 DEF Restart, SenderStart
<1>4. CASE Lz4Frame \/ ModeChanges \/ PixelsChange
  BY <1>4 DEF Lz4Frame, ModeChanges, PixelsChange, runElse, runVars, captureVars
<1>5. CASE Notice \/ Breaks \/ StrangerConnects \/ Dies \/ UNCHANGED senderVars
  BY <1>5 DEF Notice, Breaks, StrangerConnects, Dies, senderVars, runVars,
       captureVars
<1>6. QED
  BY <1>1, <1>2, <1>3, <1>4, <1>5 DEF Next, SenderNext, vars
-----------------------------------------------------------------------------
(* Changes and drops. *)
LEMMA CalledInit == ASSUME SeedFormat = "same", Init PROVE Called
  BY DEF Init, SenderInit, Called, Describe

(* Every step keeps the drops, made and to come, within the changes. *)
LEMMA CalledKept ==
  ASSUME SeedFormat = "same", Typed, Stored, Called, [Next]_vars PROVE Called'
<1> USE DEF Called
<1>1. CASE CaptureNext
  <2>1. UNCHANGED <<display, changes, drops>>
    BY <1>1 DEF CaptureNext, SeeGate, Unpark, Reinit, ReinitFails, Acquire,
         AcquireTimesOut, Publish, CopyFrame, PoolFails, Push, captureElse
  <2>2. CASE Reinit
    BY <2>1, <2>2 DEF Reinit, Adopt, Describe, Stored, Typed, captureElse
  <2>3. CASE Acquire
    <3>1. [display EXCEPT !.hz = published.hz] = published
      BY <2>3 DEF Acquire, Stored, Typed, Mode
    <3>2. QED
      BY <2>1, <2>3, <3>1 DEF Acquire, Adopt, Stored, Typed, captureElse
  <2>4. CASE Publish
    <3>1. UNCHANGED <<dup, target>>
      BY <2>4 DEF Publish
    <3>2. \/ mode_changed' = mode_changed /\ cap' = cap
          \/ mode_changed' /\ cap = "publish" /\ cap' # "publish"
      BY <2>4, PublishStores DEF Publish, Typed
    <3>3. QED
      BY <2>1, <3>1, <3>2 DEF Typed
  <2>5. CASE SeeGate \/ Unpark \/ ReinitFails \/ AcquireTimesOut \/ CopyFrame
             \/ PoolFails \/ Push
    <3>1. /\ UNCHANGED <<target, mode_changed>>
          /\ dup' \in {dup, "none"}
          /\ cap # "publish" /\ cap' # "publish"
      BY <2>5 DEF SeeGate, Unpark, ReinitFails, AcquireTimesOut, CopyFrame,
           PoolFails, Push, captureElse
    <3>2. QED
      BY <2>1, <3>1
  <2>6. QED
    BY <1>1, <2>2, <2>3, <2>4, <2>5 DEF CaptureNext
<1>2. CASE RunNext
  <2>1. UNCHANGED <<display, changes, dup, target, cap>>
    BY <1>2 DEF RunNext, AcceptClient, TurnAway, ReadMode, BuildEncoder, Greet,
         ClearMailbox, OpenGate, TopDead, TopRenegotiates, TopGoesOn,
         TakeFrame, TakeNothing, EncodeFails, Lz4Send, Leave, CloseClient,
         runElse, loopElse, captureVars
  <2>2. CASE TopRenegotiates
    BY <2>1, <2>2 DEF TopRenegotiates, TakeModeChange, Typed
  <2>3. CASE ~TopRenegotiates
    <3>1. UNCHANGED <<drops, mode_changed>>
      BY <1>2, <2>3 DEF RunNext, AcceptClient, TurnAway, ReadMode, BuildEncoder,
           Greet, ClearMailbox, OpenGate, TopDead, TopGoesOn, TakeFrame,
           TakeNothing, EncodeFails, Lz4Send, Leave, CloseClient
    <3>2. QED
      BY <2>1, <3>1
  <2>4. QED
    BY <2>2, <2>3
<1>3. CASE ModeChanges
  BY <1>3 DEF ModeChanges, Typed
<1>4. CASE Restart
  BY <1>4 DEF Restart, SenderStart, Describe, Typed
<1>5. CASE Lz4Frame \/ PixelsChange
  BY <1>5 DEF Lz4Frame, PixelsChange, runElse, captureVars
<1>6. CASE Notice \/ Breaks \/ StrangerConnects \/ Dies \/ UNCHANGED senderVars
  BY <1>6 DEF Notice, Breaks, StrangerConnects, Dies, senderVars, captureVars
<1>7. QED
  BY <1>1, <1>2, <1>3, <1>4, <1>5, <1>6 DEF Next, SenderNext, vars
-----------------------------------------------------------------------------
(* The link. *)
LEMMA RangeOfSeq ==
  ASSUME NEW S, NEW s \in Seq(S)
  PROVE  /\ s = << >> => Range(s) = {}
         /\ s # << >> => Head(s) \in Range(s) /\ Range(Tail(s)) \subseteq Range(s)
         /\ \A x \in S : Range(Append(s, x)) = Range(s) \cup {x}
<1>1. s = << >> => Range(s) = {}
  BY DEF Range
<1>2. ASSUME s # << >>
      PROVE  Head(s) \in Range(s) /\ Range(Tail(s)) \subseteq Range(s)
  <2>1. 1 \in DOMAIN s /\ Head(s) = s[1]
    BY <1>2
  <2>2. ASSUME NEW i \in DOMAIN Tail(s) PROVE i + 1 \in DOMAIN s /\ Tail(s)[i] = s[i + 1]
    BY <1>2
  <2>3. QED
    BY <2>1, <2>2 DEF Range
<1>3. ASSUME NEW x \in S PROVE Range(Append(s, x)) = Range(s) \cup {x}
  <2>1. DOMAIN Append(s, x) = DOMAIN s \cup {Len(s) + 1}
    OBVIOUS
  <2>2. Append(s, x)[Len(s) + 1] = x
    OBVIOUS
  <2>3. \A i \in DOMAIN s : Append(s, x)[i] = s[i]
    OBVIOUS
  <2>4. QED
    BY <2>1, <2>2, <2>3 DEF Range
<1>4. QED
  BY <1>1, <1>2, <1>3

(* A fresh pair has no connection. *)
LEMMA LinkedInit == Init => Linked
  BY DEF Init, LinkInit, ReceiverInit, Linked

(* What the two closings and a message do to the link. *)
LEMMA ReceiverClosesLink ==
  ASSUME Typed, Linked, ReceiverCloses,
         rx' \in {"retry", "exited", "connect"}
  PROVE  Linked'
  BY DEF Typed, Linked, ReceiverCloses

(* A message does not change who is connected to whom. *)
LEMMA TransmitKeepsLink ==
  ASSUME Typed, Linked, NEW m \in Message, Transmit(m), rx' = rx
  PROVE  Linked'
  BY DEF Typed, Linked, Transmit

(* The client accepted is the receiver, or one that waited before it. *)
LEMMA AcceptKeepsLink ==
  ASSUME Typed, Linked, Accept, up, rx' = rx
  PROVE  Linked'
<1>1. queue # << >> /\ queue' = Tail(queue) /\ Head(queue) = queue[1]
  BY DEF Accept, Typed
<1>2. \A i \in DOMAIN queue' : i + 1 \in DOMAIN queue /\ queue'[i] = queue[i + 1]
                               /\ i + 1 # 1 /\ i \in Nat
  BY <1>1 DEF Typed
<1>3. 1 \in DOMAIN queue
  BY <1>1 DEF Typed
<1>4. CASE queue[1] = "mine"
  BY <1>1, <1>2, <1>3, <1>4 DEF Accept, Linked
<1>5. CASE queue[1] # "mine"
  BY <1>1, <1>2, <1>3, <1>5 DEF Accept, Linked
<1>6. QED
  BY <1>4, <1>5

(* What the sender's two threads send is of the connection's own mode, and *)
(* is all they do to what is in flight.                                    *)
LEMMA SenderSends ==
  ASSUME Typed, Kinds, RunNext
  PROVE  \/ UNCHANGED inbox /\ ~Greet /\ ~TakeFrame /\ ~Lz4Send
         \/ UNCHANGED linkVars
         \/ \E m \in Message :
              /\ (Greet /\ m \in {Hello("none"), Hello("h264"), Hello("hevc")})
                 \/ (run \in {"take", "pop"} /\ m.codec = "none")
              /\ SizeOf(m) = SizeOf(cfg) /\ Transmit(m)
<1>1. CASE Greet
  <2>1. \A c \in {"none", "h264", "hevc"} :
          Hello(c) \in Message /\ SizeOf(Hello(c)) = SizeOf(cfg)
    BY DEF Hello, Message, Mode, SizeOf, Typed
  <2>2. \/ UNCHANGED linkVars
        \/ \E c \in {"none", "h264", "hevc"} : Transmit(Hello(c))
    BY <1>1 DEF Greet
  <2>3. QED
    BY <1>1, <2>1, <2>2
<1>2. CASE TakeFrame \/ Lz4Send
  <2>1. \/ UNCHANGED linkVars
        \/ mailbox.cut = Cut(cfg) /\ Transmit(Picture(mailbox))
    BY <1>2 DEF TakeFrame, Lz4Send, Fits, Kinds, Transmit, linkVars
  <2>2. mailbox.cut = Cut(cfg) =>
          /\ Picture(mailbox) \in Message /\ Picture(mailbox).codec = "none"
          /\ SizeOf(Picture(mailbox)) = SizeOf(cfg)
    BY DEF Picture, Cut, Message, Mode, SizeOf, Typed
  <2>3. run \in {"take", "pop"}
    BY <1>2 DEF TakeFrame, Lz4Send
  <2>4. QED
    BY <2>1, <2>2, <2>3
<1>3. CASE ~Greet /\ ~TakeFrame /\ ~Lz4Send
  BY <1>3 DEF RunNext, AcceptClient, Accept, TurnAway, AcceptSilent, ReadMode,
       BuildEncoder, ClearMailbox, OpenGate, TopDead, TopRenegotiates,
       TopGoesOn, TakeNothing, EncodeFails, Leave, CloseClient, SenderCloses,
       linkVars
<1>4. QED
  BY <1>1, <1>2, <1>3

(* The accepting thread serves one client, and closes it before the next. *)
LEMMA RunKeepsLink ==
  ASSUME Typed, Kinds, Linked, RunNext, UNCHANGED receiverVars
  PROVE  Linked'
<1> USE DEF receiverVars, linkVars
<1>1. up /\ rx' = rx
  BY DEF RunNext
<1>2. CASE AcceptClient
  BY <1>1, <1>2, AcceptKeepsLink DEF AcceptClient
<1>3. CASE TurnAway
  <2>1. queue # << >> /\ queue' = Tail(queue) /\ Head(queue) = queue[1]
        /\ UNCHANGED <<up, mine, served, inbox>>
    BY <1>3 DEF TurnAway, AcceptSilent, Typed
  <2>2. \A i \in DOMAIN queue' : i + 1 \in DOMAIN queue
                                 /\ queue'[i] = queue[i + 1] /\ i \in Nat
    BY <2>1 DEF Typed
  <2>3. QED
    BY <1>1, <2>1, <2>2 DEF Linked
<1>4. CASE Greet \/ TakeFrame \/ Lz4Send
  <2>1. UNCHANGED linkVars => Linked'
    BY <1>1 DEF Linked
  <2>2. QED
    BY <1>1, <1>4, <2>1, SenderSends, TransmitKeepsLink
<1>5. CASE CloseClient
  BY <1>1, <1>5 DEF CloseClient, SenderCloses, Linked
<1>6. CASE ReadMode \/ BuildEncoder \/ ClearMailbox \/ OpenGate \/ TopDead
           \/ TopRenegotiates \/ TopGoesOn \/ TakeNothing \/ EncodeFails \/ Leave
  <2>1. UNCHANGED linkVars
    BY <1>6 DEF ReadMode, BuildEncoder, ClearMailbox, OpenGate, TopDead,
         TopRenegotiates, TopGoesOn, TakeNothing, EncodeFails, Leave
  <2>2. QED
    BY <1>1, <2>1 DEF Linked
<1>7. QED
  BY <1>2, <1>3, <1>4, <1>5, <1>6 DEF RunNext

(* Every step keeps the two ends of the link in agreement. *)
LEMMA LinkedKept ==
  ASSUME Typed, Kinds, Linked, [Next]_vars PROVE Linked'
<1> USE DEF linkVars, receiverVars
<1>1. CASE RunNext /\ UNCHANGED receiverVars
  BY <1>1, RunKeepsLink
<1>2. CASE (CaptureNext \/ ModeChanges \/ PixelsChange \/ Lz4Frame)
           /\ UNCHANGED receiverVars
  <2>1. UNCHANGED linkVars
    BY <1>2 DEF CaptureNext, SeeGate, Unpark, Reinit, ReinitFails, Acquire,
         AcquireTimesOut, Publish, CopyFrame, PoolFails, Push, captureElse,
         ModeChanges, PixelsChange, Lz4Frame
  <2>2. QED
    BY <1>2, <2>1 DEF Linked
<1>3. CASE (Notice \/ Breaks \/ Dies \/ Restart) /\ UNCHANGED receiverVars
  BY <1>3 DEF Notice, NoticeGone, Breaks, LinkBreaks, Dies, SenderDies, Restart,
       Linked
<1>4. CASE StrangerConnects /\ UNCHANGED receiverVars
  <2>1. queue' = Append(queue, "silent") /\ UNCHANGED <<up, mine, served, inbox>>
    BY <1>4 DEF StrangerConnects, Stranger
  <2>2. \A i \in DOMAIN queue' : queue'[i] = "mine" =>
                                   i \in DOMAIN queue /\ queue[i] = "mine"
    BY <2>1 DEF Typed
  <2>3. QED
    BY <1>4, <2>1, <2>2 DEF Linked
<1>5. CASE Dial
  <2>1. queue' = Append(queue, "mine") /\ UNCHANGED <<up, served>> /\ rx = "connect"
        /\ mine' = "pending" /\ inbox' = << >> /\ rx' = "shake"  /\ up
    BY <1>5 DEF Dial, Connect
  <2>2. \A i \in DOMAIN queue : queue[i] # "mine"
    BY <2>1 DEF Linked
  <2>3. \A i \in DOMAIN queue' : queue'[i] = "mine" => i = Len(queue) + 1
    BY <2>1, <2>2 DEF Typed
  <2>4. QED
    BY <2>1, <2>3 DEF Linked
<1>6. CASE ShakeFails \/ HelloOverdue \/ WindowFails \/ DecoderFails
           \/ CloseConnection
  BY <1>6, ReceiverClosesLink
     DEF ShakeFails, HelloOverdue, ShakeTimesOut, WindowFails, DecoderFails,
         CloseConnection, End
<1>7. CASE TakeHello \/ Paint
  BY <1>7 DEF TakeHello, Paint, Linked
<1>8. CASE DialFails \/ GiveUp \/ QuitWaiting \/ RetryOver \/ FitWindow
           \/ BuildDecoder \/ QuitSession \/ ConnectionEnds \/ UserCloses
  BY <1>8 DEF DialFails, GiveUp, QuitWaiting, RetryOver, FitWindow,
       BuildDecoder, QuitSession, ConnectionEnds, UserCloses, End, Linked
<1>9. CASE UNCHANGED vars
  BY <1>9 DEF vars, Linked
<1>10. QED
  BY <1>1, <1>2, <1>3, <1>4, <1>5, <1>6, <1>7, <1>8, <1>9
     DEF Next, SenderNext, ReceiverNext
-----------------------------------------------------------------------------
(* Sizes. *)
LEMMA AnnouncedInit == Init => Announced
  BY DEF Init, LinkInit, ReceiverInit, Announced, Fitted, Range

(* The accepting thread sends what is of the size it announced. *)
LEMMA RunKeepsAnnounced ==
  ASSUME Typed, Kinds, Linked, Announced, RunNext, UNCHANGED receiverVars
  PROVE  Announced'
<1> USE DEF receiverVars, linkVars, Ungreeted, Streaming, Reading
<1>1. UNCHANGED <<rx, hello, texture>>
  OBVIOUS
<1>2. CASE AcceptClient
  <2>1. run' \in Ungreeted /\ UNCHANGED <<cfg, inbox>>
    BY <1>2 DEF AcceptClient, Accept
  <2>2. served' = "live" => rx = "shake" /\ inbox = << >>
    <3>1. queue # << >> /\ 1 \in DOMAIN queue /\ Head(queue) = queue[1]
      BY <1>2 DEF AcceptClient, Accept, Typed
    <3>2. QED
      BY <1>2, <3>1 DEF AcceptClient, Accept, Linked
  <2>3. QED
    BY <1>1, <2>1, <2>2 DEF Announced
<1>3. CASE Greet \/ TakeFrame \/ Lz4Send
  <2>1. /\ UNCHANGED <<cfg>>
        /\ \/ run \in Streaming /\ run' \in Streaming \cup {"leave"}
           \/ run \in Ungreeted /\ Greet /\ run' \in {"open", "clear", "close"}
    BY <1>3 DEF Greet, TakeFrame, Lz4Send, loopElse
  <2>2. CASE UNCHANGED linkVars /\ run' \notin {"open", "clear"}
    BY <1>1, <2>1, <2>2 DEF Announced
  <2>3. CASE UNCHANGED linkVars /\ run' \in {"open", "clear"}
    <3>1. served # "live"
      <4>1. ASSUME served = "live", NEW m \in Message, Transmit(m),
                   UNCHANGED linkVars
            PROVE  FALSE
        <5>1. Len(Append(inbox, m)) = Len(inbox) + 1 /\ Len(inbox) \in Nat
          BY DEF Typed
        <5>2. Append(inbox, m) = inbox
          BY <4>1 DEF Transmit
        <5>3. QED
          BY <5>1, <5>2
      <4>2. \A c \in {"none", "h264", "hevc"} : Hello(c) \in Message
        BY DEF Hello, Message, Mode, Typed
      <4>3. Greet /\ run' # "close"
        BY <1>3, <2>3 DEF TakeFrame, Lz4Send
      <4>4. \E c \in {"none", "h264", "hevc"} : Transmit(Hello(c))
        BY <4>3 DEF Greet
      <4>5. QED
        BY <2>3, <4>1, <4>2, <4>4
    <3>2. QED
      BY <1>1, <2>1, <2>3, <3>1 DEF Announced
  <2>4. ASSUME NEW m \in Message, SizeOf(m) = SizeOf(cfg), Transmit(m)
        PROVE  Announced'
    <3>1. served = "live" => Range(inbox') = Range(inbox) \cup {m}
      BY <2>4, RangeOfSeq DEF Transmit, Typed
    <3>2. served # "live" => inbox' = inbox
      BY <2>4 DEF Transmit
    <3>3. inbox = << >> => Range(inbox) = {}
      BY DEF Range
    <3>4. SizeOf(cfg') = SizeOf(cfg) /\ UNCHANGED served
      BY <2>1, <2>4 DEF Transmit, SizeOf
    <3>5. CASE served # "live"
      BY <1>1, <3>2, <3>4, <3>5 DEF Announced
    <3>6. CASE served = "live" /\ run \in Streaming
      BY <1>1, <2>1, <2>4, <3>1, <3>4, <3>6 DEF Announced, Fitted
    <3>7. CASE served = "live" /\ run \in Ungreeted
      BY <1>1, <2>1, <2>4, <3>1, <3>3, <3>4, <3>7 DEF Announced, Fitted
    <3>8. QED
      BY <2>1, <3>5, <3>6, <3>7
  <2>5. QED
    BY <1>3, <2>2, <2>3, <2>4, SenderSends
<1>4. CASE CloseClient
  BY <1>1, <1>4 DEF CloseClient, SenderCloses, Announced, runElse
<1>5. CASE TurnAway \/ ReadMode \/ BuildEncoder \/ ClearMailbox \/ OpenGate
           \/ TopDead \/ TopRenegotiates \/ TopGoesOn \/ TakeNothing
           \/ EncodeFails \/ Leave
  <2>1. UNCHANGED <<served, inbox>>
    BY <1>5 DEF TurnAway, AcceptSilent, ReadMode, BuildEncoder, ClearMailbox,
         OpenGate, TopDead, TopRenegotiates, TopGoesOn, TakeNothing,
         EncodeFails, Leave
  <2>2. \/ run \in Ungreeted /\ run' \in Ungreeted \cup {"close"}
        \/ run' \in {"leave", "close"}
        \/ run \in Streaming /\ run' \in Streaming /\ UNCHANGED cfg
    <3>1. CASE ReadMode
      BY <3>1, ModeIsRead
    <3>2. CASE ~ReadMode
      BY <1>5, <3>2 DEF TurnAway, BuildEncoder, ClearMailbox, OpenGate,
           TopDead, TopRenegotiates, TopGoesOn, TakeNothing, EncodeFails, Leave,
           runVars, loopElse
    <3>3. QED
      BY <3>1, <3>2
  <2>3. QED
    BY <1>1, <2>1, <2>2 DEF Announced
<1>6. QED
  BY <1>2, <1>3, <1>4, <1>5 DEF RunNext

(* Every step keeps pictures, textures and the announced size the same. *)
LEMMA AnnouncedKept ==
  ASSUME Typed, Kinds, Linked, Announced, [Next]_vars PROVE Announced'
<1> USE DEF linkVars
<1>1. CASE RunNext /\ UNCHANGED receiverVars
  BY <1>1, RunKeepsAnnounced
<1>2. CASE (CaptureNext \/ ModeChanges \/ PixelsChange \/ Lz4Frame)
           /\ UNCHANGED receiverVars
  <2>1. UNCHANGED <<linkVars, run, cfg>>
    BY <1>2 DEF CaptureNext, SeeGate, Unpark, Reinit, ReinitFails, Acquire,
         AcquireTimesOut, Publish, CopyFrame, PoolFails, Push, captureElse,
         ModeChanges, PixelsChange, Lz4Frame, runElse, runVars
  <2>2. QED
    BY <1>2, <2>1 DEF Announced, receiverVars
<1>3. CASE (Notice \/ Breaks \/ Dies \/ StrangerConnects) /\ UNCHANGED receiverVars
  <2>1. /\ UNCHANGED <<run, cfg>> /\ inbox' \in {inbox, << >>}
        /\ served' = "live" => served = "live" /\ inbox' = inbox
    BY <1>3 DEF Notice, NoticeGone, Breaks, LinkBreaks, Dies, SenderDies,
         StrangerConnects, Stranger, senderVars, runVars
  <2>2. inbox' = << >> => Range(inbox') = {}
    BY DEF Range
  <2>3. QED
    BY <1>3, <2>1, <2>2 DEF Announced, receiverVars
<1>4. CASE Restart /\ UNCHANGED receiverVars
  <2>1. served' # "live" /\ UNCHANGED inbox
    BY <1>4 DEF Restart, Linked
  <2>2. QED
    BY <1>4, <2>1 DEF Announced, receiverVars
<1>5. CASE (ReceiverNext \/ HelloOverdue \/ UserCloses) /\ UNCHANGED senderVars
  <2>1. UNCHANGED <<run, cfg>>
    BY <1>5 DEF senderVars, runVars
  <2>2. CASE Dial
    <3>1. rx = "connect" /\ rx' = "shake" /\ inbox' = << >> /\ UNCHANGED served
      BY <2>2 DEF Dial, Connect
    <3>2. served' # "live"
      BY <3>1 DEF Linked
    <3>3. Range(inbox') = {}
      BY <3>1 DEF Range
    <3>4. QED
      BY <3>1, <3>2, <3>3 DEF Announced, Fitted
  <2>3. CASE TakeHello
    <3>1. /\ rx = "shake" /\ rx' = "window" /\ hello' = Head(inbox)
          /\ inbox # << >> /\ inbox' = Tail(inbox) /\ UNCHANGED served
      BY <2>3 DEF TakeHello
    <3>2. Head(inbox) \in Range(inbox) /\ Range(Tail(inbox)) \subseteq Range(inbox)
      BY <3>1, RangeOfSeq DEF Typed
    <3>3. QED
      BY <2>1, <3>1, <3>2 DEF Announced, Fitted, SizeOf
  <2>4. CASE Paint
    <3>1. /\ rx = "show" /\ inbox # << >> /\ inbox' = Tail(inbox)
          /\ UNCHANGED <<rx, served, hello, texture>>
      BY <2>4 DEF Paint
    <3>2. Range(Tail(inbox)) \subseteq Range(inbox)
      BY <3>1, RangeOfSeq DEF Typed
    <3>3. QED
      BY <2>1, <3>1, <3>2 DEF Announced, Fitted, SizeOf
  <2>5. CASE ShakeFails \/ HelloOverdue \/ WindowFails \/ DecoderFails
             \/ CloseConnection
    <3>1. served' # "live" /\ rx' \in {"retry", "exited", "connect"}
      BY <2>5 DEF ShakeFails, HelloOverdue, ShakeTimesOut, WindowFails,
           DecoderFails, CloseConnection, End, ReceiverCloses
    <3>2. QED
      BY <3>1 DEF Announced, Fitted
  <2>6. CASE DialFails \/ GiveUp \/ QuitWaiting \/ RetryOver
    <3>1. /\ rx \in {"connect", "retry"} /\ rx' \in {"connect", "retry", "exited"}
          /\ UNCHANGED served
      BY <2>6 DEF DialFails, GiveUp, QuitWaiting, RetryOver, End
    <3>2. QED
      BY <3>1 DEF Announced, Linked, Fitted
  <2>7. CASE FitWindow
    <3>1. /\ rx = "window" /\ rx' \in {"decoder", "show"}
          /\ UNCHANGED <<served, inbox, hello>> /\ texture' = HelloSize
      BY <2>7 DEF FitWindow, FitPresenter, NewPresenter, SetFrameSize
    <3>2. QED
      BY <2>1, <3>1 DEF Announced, Fitted, SizeOf, HelloSize
  <2>8. CASE BuildDecoder \/ QuitSession \/ ConnectionEnds \/ UserCloses
    <3>1. /\ \/ rx = "decoder" /\ rx' = "show"
             \/ rx = "show" /\ rx' = "close"
             \/ UNCHANGED rx
          /\ UNCHANGED <<served, inbox, hello, texture>>
      BY <2>8 DEF BuildDecoder, QuitSession, ConnectionEnds, UserCloses,
           connectElse
    <3>2. QED
      BY <2>1, <3>1 DEF Announced, Fitted, SizeOf
  <2>9. QED
    BY <1>5, <2>2, <2>3, <2>4, <2>5, <2>6, <2>7, <2>8 DEF ReceiverNext
<1>6. CASE UNCHANGED vars
  BY <1>6 DEF vars, senderVars, runVars, receiverVars, Announced
<1>7. QED
  BY <1>1, <1>2, <1>3, <1>4, <1>5, <1>6 DEF Next, SenderNext
-----------------------------------------------------------------------------
(* Codecs and outcomes. *)
LEMMA CodedInit == Init => Coded
  BY DEF Init, LinkInit, SenderInit, ReceiverInit, NoHello, Coded, Range

(* The accepting thread announces a codec only if it can be decoded. *)
LEMMA RunKeepsCoded ==
  ASSUME Typed, Kinds, Coded, RunNext, UNCHANGED receiverVars PROVE Coded'
<1>1. UNCHANGED <<rx, hello, outcome, connected_before>>
  BY DEF receiverVars
<1>2. /\ run' = "greet h264" => "h264" \in Decodable
      /\ run' = "greet hevc" => "hevc" \in Decodable
  <2>1. CASE BuildEncoder
    BY <2>1, Codecs DEF BuildEncoder, Acceptable
  <2>2. CASE ReadMode
    BY <2>2, ModeIsRead
  <2>3. CASE AcceptClient \/ TurnAway \/ Greet \/ ClearMailbox \/ OpenGate
             \/ TopDead \/ TopRenegotiates \/ TopGoesOn \/ TakeFrame
             \/ TakeNothing \/ EncodeFails \/ Lz4Send \/ Leave \/ CloseClient
    BY <2>3 DEF Coded, AcceptClient, TurnAway, Greet, ClearMailbox, OpenGate,
         TopDead, TopRenegotiates, TopGoesOn, TakeFrame, TakeNothing,
         EncodeFails, Lz4Send, Leave, CloseClient, runVars, loopElse
  <2>4. QED
    BY <2>1, <2>2, <2>3 DEF RunNext
<1>3. \A m \in Range(inbox') : m.codec \in Decodable \cup {"none"}
  <2>1. CASE UNCHANGED inbox
    BY <2>1 DEF Coded
  <2>2. ASSUME NEW m \in Message, Transmit(m), m.codec \in Decodable \cup {"none"}
        PROVE  \A n \in Range(inbox') : n.codec \in Decodable \cup {"none"}
    <3>1. Range(inbox') \subseteq Range(inbox) \cup {m}
      BY <2>2, RangeOfSeq DEF Transmit, Typed
    <3>2. QED
      BY <2>2, <3>1 DEF Coded
  <2>3. CASE Greet
    <3>1. \/ UNCHANGED linkVars
          \/ run = "greet" /\ Transmit(Hello("none"))
          \/ run = "greet h264" /\ Transmit(Hello("h264"))
          \/ run = "greet hevc" /\ Transmit(Hello("hevc"))
      BY <2>3 DEF Greet
    <3>2. \A c \in {"none", "h264", "hevc"} :
            Hello(c) \in Message /\ Hello(c).codec = c
      BY DEF Hello, Message, Mode, Typed
    <3>3. QED
      BY <2>1, <2>2, <3>1, <3>2 DEF Coded, linkVars
  <2>4. QED
    BY <2>1, <2>2, <2>3, SenderSends DEF linkVars
<1>4. QED
  BY <1>1, <1>2, <1>3 DEF Coded

(* Every step keeps the codec decodable and the outcome deserved. *)
LEMMA CodedKept ==
  ASSUME Typed, Kinds, Coded, [Next]_vars PROVE Coded'
<1> USE DEF linkVars
<1>1. CASE RunNext /\ UNCHANGED receiverVars
  BY <1>1, RunKeepsCoded
<1>2. CASE (CaptureNext \/ ModeChanges \/ PixelsChange \/ Lz4Frame)
           /\ UNCHANGED receiverVars
  <2>1. UNCHANGED <<inbox, run>>
    BY <1>2 DEF CaptureNext, SeeGate, Unpark, Reinit, ReinitFails, Acquire,
         AcquireTimesOut, Publish, CopyFrame, PoolFails, Push, captureElse,
         ModeChanges, PixelsChange, Lz4Frame, runElse, runVars
  <2>2. QED
    BY <1>2, <2>1 DEF Coded, receiverVars
<1>3. CASE (Notice \/ Breaks \/ Dies \/ StrangerConnects \/ Restart)
           /\ UNCHANGED receiverVars
  <2>1. run' \in {run, "accept"} /\ inbox' \in {inbox, << >>}
    BY <1>3 DEF Notice, NoticeGone, Breaks, LinkBreaks, Dies, SenderDies,
         StrangerConnects, Stranger, Restart, SenderStart, senderVars, runVars
  <2>2. inbox' = << >> => Range(inbox') = {}
    BY DEF Range
  <2>3. QED
    BY <1>3, <2>1, <2>2 DEF Coded, receiverVars
<1>4. CASE (ReceiverNext \/ HelloOverdue \/ UserCloses) /\ UNCHANGED senderVars
  <2>1. UNCHANGED run
    BY <1>4 DEF senderVars, runVars
  <2>2. << >> \in Seq(Message) /\ Range(<< >>) = {}
    BY DEF Range
  <2>3. CASE Dial \/ ShakeFails \/ HelloOverdue
    <3>1. /\ inbox' = << >> /\ UNCHANGED <<hello, outcome, connected_before>>
          /\ rx # "exited" /\ rx' \in {"shake", "retry"}
      BY <2>3 DEF Dial, Connect, ShakeFails, HelloOverdue, ShakeTimesOut,
           ReceiverCloses, connectElse
    <3>2. QED
      BY <2>1, <2>2, <3>1 DEF Coded
  <2>4. CASE WindowFails \/ DecoderFails
    <3>1. /\ inbox' = << >> /\ UNCHANGED <<hello, connected_before>>
          /\ rx' = "exited"
      BY <2>4 DEF WindowFails, DecoderFails, ReceiverCloses, End, connectElse
    <3>2. outcome' = "fault"
      BY <2>4 DEF WindowFails, DecoderFails, End, Coded
    <3>3. QED
      BY <2>1, <2>2, <3>1, <3>2 DEF Coded
  <2>5. CASE CloseConnection
    BY <2>1, <2>2, <2>5 DEF CloseConnection, ReceiverCloses, NoHello, Coded
  <2>6. CASE TakeHello
    <3>1. Head(inbox) \in Range(inbox) /\ Range(Tail(inbox)) \subseteq Range(inbox)
      BY <2>6, RangeOfSeq DEF TakeHello, Typed
    <3>2. QED
      BY <2>1, <2>6, <3>1 DEF TakeHello, Coded
  <2>7. CASE Paint
    <3>1. Range(Tail(inbox)) \subseteq Range(inbox)
      BY <2>7, RangeOfSeq DEF Paint, Typed
    <3>2. QED
      BY <2>1, <2>7, <3>1 DEF Paint, Coded
  <2>8. CASE FitWindow
    BY <2>1, <2>8 DEF FitWindow, HelloKind, Coded
  <2>9. CASE DialFails \/ GiveUp \/ QuitWaiting \/ RetryOver \/ BuildDecoder
             \/ QuitSession \/ ConnectionEnds \/ UserCloses
    <3>1. UNCHANGED <<inbox, hello, connected_before>>
      BY <2>9 DEF DialFails, GiveUp, QuitWaiting, RetryOver, BuildDecoder,
           QuitSession, ConnectionEnds, UserCloses, connectElse
    <3>2. \/ rx # "exited" /\ rx' # "decoder" /\ outcome' \in {outcome, "user"}
          \/ rx' = "exited" /\ outcome' = "deadline" /\ ~connected_before
          \/ UNCHANGED <<rx, outcome>>
      BY <2>9 DEF DialFails, GiveUp, DeadlineApplies, QuitWaiting, RetryOver,
           BuildDecoder, QuitSession, ConnectionEnds, UserCloses, End,
           connectElse
    <3>3. QED
      BY <2>1, <3>1, <3>2 DEF Coded
  <2>10. QED
    BY <1>4, <2>3, <2>4, <2>5, <2>6, <2>7, <2>8, <2>9 DEF ReceiverNext
<1>5. CASE UNCHANGED vars
  BY <1>5 DEF vars, senderVars, runVars, receiverVars, Coded
<1>6. QED
  BY <1>1, <1>2, <1>3, <1>4, <1>5 DEF Next, SenderNext
-----------------------------------------------------------------------------
IInv == Typed /\ Kinds /\ Copies /\ ReadSoFar /\ Linked /\ Announced /\ Coded

(* Both programs fresh: every part of the invariant holds. *)
LEMMA InitIInv == Init => IInv
  BY TypedInit, KindsInit, CopiesInit, ReadInit, LinkedInit, AnnouncedInit,
     CodedInit DEF IInv

(* Every step keeps every part; each rests on the parts before it. *)
LEMMA NextIInv == IInv /\ [Next]_vars => IInv'
  BY TypedKept, KindsKept, CopiesKept, ReadKept, LinkedKept, AnnouncedKept,
     CodedKept DEF IInv

(* The inductive invariant of the two programs. *)
THEOREM SessionIInv == Spec => []IInv
  BY InitIInv, NextIInv, PTL DEF Spec

(* A connection whose mode is not the display's is going to be ended: no   *)
(* interleaving of adopt_mode's stores with run_h264's loads hides one     *)
(* (dxgi_capture.cpp:189-199, sender/main.cpp:381-397).                    *)
THEOREM StaleModesEnd == Spec => []StaleModeEnds
<1>1. ASSUME IInv, codec_kind = "video", run \in Settling \cup {"top", "take"},
             cfg # published
      PROVE  FlagToCome
  <2>1. cfg \in Mode /\ published \in Mode
    BY <1>1 DEF IInv, Typed
  <2>2. \/ cfg.width # published.width \/ cfg.height # published.height
        \/ cfg.format # published.format \/ cfg.hz # published.hz
    BY <1>1, <2>1 DEF Mode
  <2>3. /\ run \in WidthRead /\ run \in HeightRead /\ run \in FormatRead
        /\ run \in HzRead
    BY <1>1 DEF WidthRead, HeightRead, FormatRead, HzRead
  <2>4. ReadSoFar
    BY <1>1 DEF IInv
  <2>5. QED
    BY <1>1, <2>2, <2>3, <2>4 DEF ReadSoFar
<1>2. IInv => StaleModeEnds
  BY <1>1 DEF StaleModeEnds
<1>3. QED
  BY <1>2, SessionIInv, PTL

(* No frame is passed on that the silent CopyResource left empty           *)
(* (dxgi_capture.cpp:371-375).                                             *)
THEOREM CopiesMatch == Spec => []CopyMatches
<1>1. IInv => CopyMatches
  BY DEF IInv, Copies
<1>2. QED
  BY <1>1, SessionIInv, PTL

(* Every picture on its way is of the size of the textures it will be      *)
(* copied into (sender/main.cpp:651-659, presenter.cpp:578-584).           *)
THEOREM FramesFit == Spec => []FrameFits
<1>1. IInv => FrameFits
  BY DEF IInv, Announced, Fitted, SizeOf, FrameFits, Range
<1>2. QED
  BY <1>1, SessionIInv, PTL

(* A receiver that has worked once goes on trying until its user or its    *)
(* own machine ends it (receiver/main.cpp:43-47, 252-257).                 *)
THEOREM NobodyGivesUp == Spec => []NeverGivesUp
<1>1. IInv => NeverGivesUp
  BY DEF IInv, Coded, NeverGivesUp
<1>2. QED
  BY <1>1, SessionIInv, PTL

(* With a display whose description tells the truth, a connection is       *)
(* dropped to renegotiate only for a change of mode of its own             *)
(* (sender/main.cpp:377-380); SeedFormat says what happens otherwise.      *)
THEOREM DropsAreChanges ==
  ASSUME SeedFormat = "same" PROVE Spec => []EachDropIsAChange
<1>1. Init => Called
  BY CalledInit
<1>2. IInv /\ Called /\ [Next]_vars => Called'
  BY CalledKept DEF IInv, Copies
<1>3. IInv /\ Called => EachDropIsAChange
  BY DEF IInv, Typed, Called, EachDropIsAChange
<1>4. QED
  BY <1>1, <1>2, <1>3, SessionIInv, PTL DEF Spec

(* A sender that has parked on a format it cannot convert goes on refusing *)
(* clients until it is started again (mf_encoder.cpp:610-619,              *)
(* sender/main.cpp:322-331, 438-441).                                      *)
THEOREM RefusalsStick == Spec => RefusalSticks
<1>1. ASSUME IInv, Refusing, [Next]_vars PROVE Refusing' \/ ~up'
  <2> USE DEF Refusing, linkVars
  <2>1. CASE RunNext
    <3>1. UNCHANGED <<up, codec_kind, cap, published>>
      BY <2>1 DEF RunNext, AcceptClient, Accept, TurnAway, AcceptSilent, ReadMode,
           BuildEncoder, Greet, ClearMailbox, OpenGate, TopDead, TopRenegotiates,
           TopGoesOn, TakeFrame, TakeNothing, EncodeFails, Lz4Send, Leave,
           CloseClient, SenderCloses, Transmit, runElse, loopElse, captureVars
    <3>2. AcceptClient \/ TurnAway \/ ReadMode \/ BuildEncoder \/ CloseClient
      BY <2>1, <1>1 DEF RunNext, Greet, ClearMailbox, OpenGate, TopDead,
           TopRenegotiates, TopGoesOn, TakeFrame, TakeNothing, EncodeFails,
           Lz4Send, Leave
    <3>3. CASE AcceptClient \/ TurnAway \/ CloseClient
      BY <1>1, <3>1, <3>3 DEF AcceptClient, TurnAway, CloseClient, runVars
    <3>4. CASE ReadMode
      <4>1. UNCHANGED gate
        BY <3>4 DEF ReadMode
      <4>2. cfg \in Mode /\ Typed
        BY <1>1 DEF IInv, Typed
      <4>3. run' = "hz" => cfg'.format = published.format
        BY <3>4, <4>2, ModeIsRead DEF Mode
      <4>4. run' = "build" => run = "hz" /\ cfg'.format = cfg.format
        BY <3>4, <4>2, ModeIsRead DEF Mode
      <4>5. run' \in {"height", "format", "hz", "build"}
        BY <3>4, <4>2, ModeIsRead
      <4>6. QED
        BY <1>1, <3>1, <4>1, <4>3, <4>4, <4>5
    <3>5. CASE BuildEncoder
      BY <1>1, <3>1, <3>5 DEF BuildEncoder, FormatTaken
    <3>6. QED
      BY <3>2, <3>3, <3>4, <3>5
  <2>2. CASE CaptureNext
    BY <1>1, <2>2 DEF CaptureNext, SeeGate, Unpark, Reinit, ReinitFails, Acquire,
         AcquireTimesOut, Publish, CopyFrame, PoolFails, Push
  <2>3. CASE ModeChanges \/ PixelsChange \/ Lz4Frame
    BY <1>1, <2>3 DEF ModeChanges, PixelsChange, Lz4Frame, runVars
  <2>4. CASE Notice \/ Breaks \/ StrangerConnects \/ Dies
    BY <1>1, <2>4 DEF Notice, NoticeGone, Breaks, LinkBreaks, StrangerConnects,
         Stranger, Dies, SenderDies, senderVars, captureVars, runVars
  <2>5. CASE Restart
    BY <1>1, <2>5 DEF Restart
  <2>6. CASE (ReceiverNext \/ HelloOverdue \/ UserCloses) /\ UNCHANGED senderVars
    <3>1. UNCHANGED <<codec_kind, cap, gate, published, run, cfg>>
      BY <2>6 DEF senderVars, captureVars, runVars
    <3>2. UNCHANGED up
      BY <2>6 DEF ReceiverNext, Dial, Connect, DialFails, TakeHello, ShakeFails,
           GiveUp, QuitWaiting, RetryOver, FitWindow, WindowFails, BuildDecoder,
           DecoderFails, QuitSession, Paint, ConnectionEnds, CloseConnection,
           HelloOverdue, ShakeTimesOut, UserCloses, ReceiverCloses
    <3>3. QED
      BY <1>1, <3>1, <3>2
  <2>7. CASE UNCHANGED vars
    BY <1>1, <2>7 DEF vars, senderVars, captureVars, runVars
  <2>8. QED
    BY <1>1, <2>1, <2>2, <2>3, <2>4, <2>5, <2>6, <2>7 DEF Next, SenderNext
<1>2. IInv /\ [Next]_vars => [Refusing => Refusing' \/ ~up']_vars
  BY <1>1
<1>3. QED
  BY <1>2, SessionIInv, PTL DEF Spec, RefusalSticks
=============================================================================
