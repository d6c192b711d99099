-------------------------- MODULE ReceivePathProofs --------------------------
(***************************************************************************)
(* The safety of the cursor's way through the receiver's two threads, for  *)
(* any number of moments, failures, packets and pictures.                  *)
(***************************************************************************)
EXTENDS ReceivePath, TLAPS

Shapes == [look : Nat, place : Nat]
Packets == [type : {"cursor", "frame"}, pos : Nat, shape : Shapes]
Reports == [pos : Nat, shape : Shapes, news : SUBSET {"pos", "shape"}]

SourceTyped ==
  /\ moment \in Nat /\ place \in Nat /\ look \in Nat
  /\ unseen \in SUBSET {"pos", "shape"}
  /\ cap \in {"acquire", "pos", "shape"} /\ info \in Reports
  /\ cursor_pos_ \in Nat /\ cursor_shape_ \in Shapes
  /\ loop \in {"shape", "pos"} /\ cursor_pos \in Nat /\ shape \in Shapes
  /\ wire \in Seq(Packets)

(* The past reaches the future through four hands in order: what the       *)
(* packets and the loop have is no newer than what is published, that no   *)
(* newer than the report in hand, and that no newer than the cursor.       *)
Dated ==
  /\ place <= moment
  /\ cap # "acquire" => info.pos <= place /\ info.shape.place = info.pos
  /\ cap = "pos" => cursor_pos_ <= info.pos
  /\ cap = "shape" => cursor_pos_ = info.pos
  /\ cursor_pos_ <= place
  /\ cursor_shape_.place <= cursor_pos_
  /\ shape.place <= cursor_pos_

(* What is not news is known already: to the sender's capture thread, to   *)
(* its run loop.                                                           *)
Known ==
  /\ "pos" \notin unseen => place = IF cap = "acquire" THEN cursor_pos_ ELSE info.pos
  /\ cap = "pos" /\ "pos" \notin info.news => cursor_pos_ = info.pos
  /\ ~pos_news => cursor_pos = cursor_pos_

IInv == SourceTyped /\ Dated /\ Known /\ PacketCoherent
-----------------------------------------------------------------------------
(* Before the first report nothing is published, polled or queued. *)
LEMMA InitIInv == Init => IInv
<1> SUFFICES ASSUME Init PROVE IInv
  OBVIOUS
<1>1. SourceTyped
  BY DEF Init, SourceInit, SourceTyped, Reports, Shapes, Nothing, NoShape, Hidden
<1>2. Dated /\ Known
  BY DEF Init, SourceInit, Dated, Known, NoShape, Hidden
<1>3. PacketCoherent
  BY DEF Init, SourceInit, PacketCoherent
<1> QED
  BY <1>1, <1>2, <1>3 DEF IInv

(* A queue of coherent packets stays one: a coherent packet is appended,   *)
(* the first is taken, or all are gone.                                    *)
LEMMA WireGrows ==
  ASSUME IInv, NEW p \in Packets, p.pos >= p.shape.place, wire' = Append(wire, p)
  PROVE  wire' \in Seq(Packets) /\ PacketCoherent'
BY DEF IInv, SourceTyped, PacketCoherent

(* A packet read leaves the others as they were. *)
LEMMA WireShrinks ==
  ASSUME IInv, wire # << >>, wire' = Tail(wire)
  PROVE  wire' \in Seq(Packets) /\ PacketCoherent'
<1>1. wire \in Seq(Packets) /\ wire' \in Seq(Packets)
  BY DEF IInv, SourceTyped
<1>2. \A i \in 1 .. Len(wire) - 1 : Tail(wire)[i] = wire[i + 1]
  BY <1>1
<1>3. Len(Tail(wire)) = Len(wire) - 1
  BY <1>1
<1>4. DOMAIN wire' = 1 .. Len(wire) - 1 /\ DOMAIN wire = 1 .. Len(wire) /\ Len(wire) \in Nat
  BY <1>1, <1>3
<1>5. \A i \in DOMAIN wire' : wire'[i] = wire[i + 1] /\ i + 1 \in DOMAIN wire
  BY <1>2, <1>4
<1>6. PacketCoherent'
  BY <1>5 DEF IInv, PacketCoherent
<1> QED
  BY <1>1, <1>6

(* A connection that has gone takes its packets along. *)
LEMMA WireGone ==
  ASSUME wire' = << >>
  PROVE  wire' \in Seq(Packets) /\ PacketCoherent'
BY DEF PacketCoherent
-----------------------------------------------------------------------------
(* The capture thread's steps. *)
LEMMA ChangeStep ==
  ASSUME IInv, CursorChanges
  PROVE  IInv'
<1> USE DEF IInv
<1>1. PICK what \in {{"pos"}, {"shape"}, {"pos", "shape"}} :
        /\ place' = IF "pos" \in what THEN moment' ELSE place
        /\ look' = IF "shape" \in what THEN moment' ELSE look
        /\ unseen' = unseen \cup what
  BY DEF CursorChanges
<1>2. SourceTyped'
  BY <1>1 DEF CursorChanges, SourceTyped, newsVars, loopVars
<1>3. place <= place' /\ place' <= moment'
  BY <1>1 DEF CursorChanges, SourceTyped, Dated
<1>4. Dated'
  BY <1>3, <1>2 DEF CursorChanges, SourceTyped, Dated, newsVars, loopVars, Reports, Shapes
<1>5. Known'
  BY <1>1 DEF CursorChanges, SourceTyped, Known, newsVars, loopVars
<1>6. PacketCoherent'
  BY DEF CursorChanges, PacketCoherent
<1> QED
  BY <1>2, <1>4, <1>5, <1>6

(* The capture thread publishes a position before the shape seen with it. *)
LEMMA CaptureStep ==
  ASSUME IInv, CaptureNext
  PROVE  IInv'
<1> USE DEF IInv, worldVars, newsVars, loopVars
<1>1. CASE Acquire
  <2>1. SourceTyped'
    BY <1>1 DEF Acquire, SourceTyped, Reports, Shapes
  <2>2. Dated'
    BY <1>1 DEF Acquire, SourceTyped, Dated
  <2>3. Known'
    BY <1>1 DEF Acquire, SourceTyped, Known
  <2>4. PacketCoherent'
    BY <1>1 DEF Acquire, PacketCoherent
  <2> QED
    BY <2>1, <2>2, <2>3, <2>4
<1>2. CASE PublishPos
  <2>1. SourceTyped'
    BY <1>2 DEF PublishPos, SourceTyped, Reports, Shapes, Nothing, NoShape, Hidden
  <2>2. cursor_pos_ <= cursor_pos_' /\ cursor_pos_' = info.pos
    BY <1>2 DEF PublishPos, SourceTyped, Dated, Known, Reports
  <2>3. Dated'
    BY <1>2, <2>2, <2>1 DEF PublishPos, SourceTyped, Dated, Reports, Shapes
  <2>4. Known'
    BY <1>2, <2>2 DEF PublishPos, SourceTyped, Known
  <2>5. PacketCoherent'
    BY <1>2 DEF PublishPos, PacketCoherent
  <2> QED
    BY <2>1, <2>3, <2>4, <2>5
<1>3. CASE PublishShape
  <2>1. SourceTyped'
    BY <1>3 DEF PublishShape, SourceTyped, Reports, Shapes, Nothing, NoShape, Hidden
  <2>2. Dated' /\ Known'
    BY <1>3 DEF PublishShape, SourceTyped, Dated, Known, Reports, Shapes
  <2>3. PacketCoherent'
    BY <1>3 DEF PublishShape, PacketCoherent
  <2> QED
    BY <2>1, <2>2, <2>3
<1>4. CASE ShapeFails
  <2>1. SourceTyped'
    BY <1>4 DEF ShapeFails, SourceTyped, Reports, Shapes, Nothing, NoShape, Hidden
  <2>2. Dated' /\ Known'
    BY <1>4 DEF ShapeFails, SourceTyped, Dated, Known
  <2>3. PacketCoherent'
    BY <1>4 DEF ShapeFails, PacketCoherent
  <2> QED
    BY <2>1, <2>2, <2>3
<1> QED
  BY <1>1, <1>2, <1>3, <1>4 DEF CaptureNext
-----------------------------------------------------------------------------
(* The run loop's: the packet it makes takes the newest position there is. *)
LEMMA LoopStep ==
  ASSUME IInv, LoopNext
  PROVE  IInv'
<1> USE DEF IInv, worldVars, captureVars
<1>1. CASE PollShape
  <2>1. SourceTyped'
    BY <1>1 DEF PollShape, SourceTyped, Shapes, NoShape
  <2>2. Dated' /\ Known'
    BY <1>1 DEF PollShape, SourceTyped, Dated, Known, NoShape
  <2>3. PacketCoherent'
    BY <1>1 DEF PollShape, PacketCoherent
  <2> QED
    BY <2>1, <2>2, <2>3
<1>2. CASE PollPos
  <2>1. cursor_pos' = cursor_pos_ /\ cursor_pos_' = cursor_pos_ /\ cursor_pos_ \in Nat
    BY <1>2 DEF PollPos, Known, SourceTyped
  <2>2. DEFINE p == Packet("cursor", cursor_pos', shape)
  <2>3. p \in Packets /\ p.pos >= p.shape.place
    BY <2>1 DEF Packet, Packets, SourceTyped, Dated, Shapes
  <2>4. wire' \in Seq(Packets) /\ PacketCoherent'
    <3>1. CASE wire' = Append(wire, p)
      BY <2>3, <3>1, WireGrows
    <3>2. CASE wire' = wire
      BY <3>2 DEF SourceTyped, PacketCoherent
    <3> QED
      BY <1>2, <3>1, <3>2 DEF PollPos
  <2>5. SourceTyped'
    BY <1>2, <2>1, <2>4 DEF PollPos, SourceTyped, Shapes, NoShape
  <2>6. Dated' /\ Known'
    BY <1>2, <2>1 DEF PollPos, SourceTyped, Dated, Known, NoShape
  <2> QED
    BY <2>4, <2>5, <2>6
<1> QED
  BY <1>1, <1>2 DEF LoopNext

(* The link's, and those of the receiver that touch what the sender has. *)
LEMMA SameSource ==
  ASSUME IInv, wire' \in Seq(Packets) /\ PacketCoherent',
         UNCHANGED <<worldVars, captureVars, newsVars, loopVars>>
  PROVE  IInv'
BY DEF IInv, worldVars, captureVars, newsVars, loopVars, SourceTyped, Dated, Known

(* Frames carry no cursor, and reading or cutting only takes packets away. *)
LEMMA LinkStep ==
  ASSUME IInv, SendFrame \/ Cut \/ Read
  PROVE  IInv'
<1>1. wire' \in Seq(Packets) /\ PacketCoherent'
  <2>1. CASE SendFrame
    <3>1. Picture \in Packets /\ Picture.pos >= Picture.shape.place
      BY DEF Picture, Packet, Packets, Shapes, NoShape, Hidden
    <3> QED
      BY <2>1, <3>1, WireGrows DEF SendFrame
  <2>2. CASE Cut
    <3>1. CASE wire' = << >>
      BY <3>1, WireGone
    <3>2. CASE wire' = wire
      BY <3>2 DEF IInv, SourceTyped, PacketCoherent
    <3> QED
      BY <2>2, <3>1, <3>2 DEF Cut
  <2>3. CASE Read
    BY <2>3, WireShrinks DEF Read
  <2> QED
    BY <2>1, <2>2, <2>3
<1>2. UNCHANGED <<worldVars, captureVars, newsVars, loopVars>>
  BY DEF SendFrame, Cut, Read, rxElse
<1> QED
  BY <1>1, <1>2, SameSource

(* A new connection begins with an empty wire and everything as news. *)
LEMMA ConnectStep ==
  ASSUME IInv, Connect
  PROVE  IInv'
<1> USE DEF IInv, worldVars, Connect, FreshConnection
<1>1. wire' \in Seq(Packets) /\ PacketCoherent'
  BY WireGone
<1>2. SourceTyped'
  BY <1>1 DEF SourceTyped, Shapes, NoShape, Hidden
<1>3. ~pos_news' => cursor_pos_ = Hidden
  BY Zenon
<1>4. Dated' /\ Known'
  BY <1>3 DEF SourceTyped, Dated, Known, NoShape, Hidden
<1> QED
  BY <1>1, <1>2, <1>4

(* Every step, of either program, keeps the dates in order. *)
LEMMA NextIInv == IInv /\ [Next]_vars => IInv'
<1> SUFFICES ASSUME IInv, [Next]_vars PROVE IInv'
  OBVIOUS
<1>1. CASE SourceNext
  BY <1>1, ChangeStep, CaptureStep, LoopStep, LinkStep DEF SourceNext
<1>2. CASE Read
  BY <1>2, LinkStep
<1>3. CASE Connect
  BY <1>3, ConnectStep
<1>4. CASE ~(SourceNext \/ Read \/ Connect)
  <2>1. UNCHANGED <<worldVars, captureVars, newsVars, loopVars>> /\ wire' = wire
    BY <1>4
    DEF Next, vars, sourceVars, RxNext, MainNext, rxElse, mainElse, SetCursorShape,
        CursorTexFails, SetCursorPos, Decode, CopyVideoFrame, Push, Stop, TopQuits,
        TopResizes, TopDead, TopGoesOn, PopToken, DrawFrame, DrawCursor, Shutdown,
        CloseSocket
  <2>2. wire' \in Seq(Packets) /\ PacketCoherent'
    BY <2>1 DEF IInv, SourceTyped, PacketCoherent
  <2> QED
    BY <2>1, <2>2, SameSource
<1> QED
  BY <1>1, <1>2, <1>3, <1>4

(* The sender's versions, positions and shapes keep their dates in order.  *)
THEOREM CursorIInv == Spec => []IInv
BY InitIInv, NextIInv, PTL DEF Spec

(* No shape travels with a position older than its own, however the two    *)
(* critical sections and the two polls interleave.                         *)
THEOREM CursorIsCoherent == Spec => []PacketCoherent
<1>1. IInv => PacketCoherent
  BY DEF IInv
<1> QED
  BY CursorIInv, <1>1, PTL
-----------------------------------------------------------------------------
Screen == behind \subseteq {"frame", "cursor"} /\ NoLostRepaint

(* A fresh receiver has nothing to repaint. *)
LEMMA InitScreen == Init => Screen
BY DEF Init, Screen, NoLostRepaint

(* The receive thread has pushed a token for what it changed, or will. *)
LEMMA RxScreen ==
  ASSUME Screen, RxNext
  PROVE  Screen'
<1>1. main' = main
  BY DEF RxNext, Read, SetCursorShape, CursorTexFails, SetCursorPos, Decode,
         CopyVideoFrame, Push, Stop, rxElse, mainVars
<1>2. CASE Read \/ Decode \/ Stop
  <2>1. behind' = behind /\ rx \notin {"push", "pos"}
    BY <1>2 DEF Read, Decode, Stop, screenVars
  <2>2. frame_ready' = frame_ready
    BY <1>2 DEF Read, Decode, Stop
  <2>3. frame_ready' <=> frame_ready
    BY ONLY <2>2, Zenon
  <2> QED
    BY <1>1, <2>1, <2>3 DEF Screen, NoLostRepaint, WillDraw
<1>3. CASE SetCursorShape \/ CursorTexFails \/ SetCursorPos \/ CopyVideoFrame
  BY <1>3
  DEF Screen, NoLostRepaint, WillDraw, SetCursorShape, CursorTexFails, SetCursorPos,
      CopyVideoFrame
<1>4. CASE Push
  BY <1>4 DEF Screen, NoLostRepaint, WillDraw, Push, screenVars
<1> QED
  BY <1>2, <1>3, <1>4 DEF RxNext

(* The present loop draws what the token it took stood for. *)
LEMMA MainScreen ==
  ASSUME Screen, MainNext
  PROVE  Screen'
<1>1. CASE Connect
  BY <1>1 DEF Connect, Screen, NoLostRepaint
<1>2. CASE ~Connect /\ ~PopToken
  <2>0. rx' = rx /\ frame_ready' = frame_ready
    BY <1>2
    DEF MainNext, TopQuits, TopResizes, TopDead, TopGoesOn, DrawFrame, DrawCursor,
        Shutdown, CloseSocket, mainElse, rxVars
  <2>1. rx' = rx /\ (frame_ready' <=> frame_ready)
    BY ONLY <2>0, Zenon
  <2>2. CASE DrawFrame \/ DrawCursor
    BY <2>1, <2>2 DEF Screen, NoLostRepaint, WillDraw, DrawFrame, DrawCursor
  <2>3. CASE ~DrawFrame /\ ~DrawCursor
    <3>1. behind' = behind /\ main \notin {"frame", "cursor"}
      BY <1>2, <2>3
      DEF MainNext, TopQuits, TopResizes, TopDead, TopGoesOn, Shutdown, CloseSocket,
          screenVars
    <3> QED
      BY <2>1, <3>1 DEF Screen, NoLostRepaint, WillDraw
  <2> QED
    BY <2>2, <2>3
<1>3. CASE PopToken
  BY <1>3 DEF Screen, NoLostRepaint, WillDraw, PopToken, mainElse, rxVars, screenVars
<1> QED
  BY <1>1, <1>2, <1>3

(* Every step keeps a repaint for what has changed. *)
LEMMA NextScreen == Screen /\ [Next]_vars => Screen'
<1> SUFFICES ASSUME Screen, [Next]_vars PROVE Screen'
  OBVIOUS
<1>1. CASE UNCHANGED pathVars
  BY <1>1
  DEF pathVars, rxVars, mainVars, screenVars, Screen, NoLostRepaint, WillDraw
<1> QED
  BY <1>1, RxScreen, MainScreen DEF Next, vars

(* Everything the receive thread hands over is drawn or about to be.       *)
THEOREM RepaintIsNeverLost == Spec => []NoLostRepaint
<1>1. Screen => NoLostRepaint
  BY DEF Screen
<1> QED
  BY InitScreen, NextScreen, <1>1, PTL DEF Spec
=============================================================================
