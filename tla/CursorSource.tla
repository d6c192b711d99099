---------------------------- MODULE CursorSource ----------------------------
(***************************************************************************)
(* The sender's half of the cursor: what DXGI reports to the capture       *)
(* thread, the position and the shape it publishes in two critical         *)
(* sections with a version each, and the run loop that polls them and      *)
(* queues packets.  A version is only compared with the one the loop saw   *)
(* last: whether they differ is what is kept of it here.  The send queue   *)
(* and the socket are one sequence (PacketSender has them apart): cursor   *)
(* packets are never flushed from it.                                      *)
(*                                                                         *)
(* Moments number the changes of the cursor.  A position is the moment it  *)
(* dates from, a shape the moment it appeared and the position it was seen *)
(* with: DXGI reports the top left corner of the shape, so a shape drawn   *)
(* at a position older than its own is drawn off its hot spot.             *)
(***************************************************************************)
EXTENDS Naturals, Sequences

CONSTANTS
  Moments,   (* bound: changes of the cursor, for TLC                        *)
  Trouble,   (* bound: failures, for TLC                                     *)
  MaxWire    (* bound: packets on their way, for TLC                         *)

ASSUME CursorAssumption == Moments \in Nat /\ Trouble \in Nat /\ MaxWire \in Nat

VARIABLES
  moment, place, look,    (* the cursor on the sender's screen               *)
  unseen,                 (* "pos", "shape": what DXGI has not reported yet  *)
  cap, info,              (* update_cursor's place, and what it was given    *)
  cursor_pos_, cursor_shape_,
  pos_news, shape_news,   (* their versions are not the run loop's last      *)
  loop,                   (* the run loop's place in its polls               *)
  cursor_pos, shape,      (* its locals                                      *)
  wire,                   (* packets on their way to the receiver            *)
  conn,                   (* the connection: "up" or "cut"                   *)
  (* history, never read by the code: *)
  lost,                   (* the shape could not be had                      *)
  trouble

worldVars == <<moment, place, look>>
captureVars == <<unseen, cap, info, cursor_pos_, cursor_shape_>>
newsVars == <<pos_news, shape_news>>
loopVars == <<loop, cursor_pos, shape>>
sourceVars == <<worldVars, captureVars, newsVars, loopVars, wire, conn, lost, trouble>>
-----------------------------------------------------------------------------
Hidden == 0                                  (* CursorPos{}: not visible     *)
NoShape == [look |-> 0, place |-> 0]
Nothing == [pos |-> Hidden, shape |-> NoShape, news |-> {}]

Packet(type, pos, sh) == [type |-> type, pos |-> pos, shape |-> sh]
Picture == Packet("frame", Hidden, NoShape)

Disturb == trouble < Trouble /\ trouble' = trouble + 1

SourceInit ==
  /\ moment = 1 /\ place = 1 /\ look = 1
  /\ unseen = {"pos", "shape"} /\ cap = "acquire" /\ info = Nothing
  /\ cursor_pos_ = Hidden /\ cursor_shape_ = NoShape
  /\ pos_news = FALSE /\ shape_news = FALSE
  /\ loop = "shape" /\ cursor_pos = Hidden /\ shape = NoShape
  /\ wire = << >> /\ conn = "up"
  /\ lost = FALSE /\ trouble = 0
-----------------------------------------------------------------------------
(* The user: the cursor moves, changes its shape, or both at once (another *)
(* shape with its hot spot elsewhere).                                     *)
CursorChanges ==
  /\ moment < Moments
  /\ moment' = moment + 1
  /\ \E what \in {{"pos"}, {"shape"}, {"pos", "shape"}} :
       /\ place' = IF "pos" \in what THEN moment' ELSE place
       /\ look' = IF "shape" \in what THEN moment' ELSE look
       /\ unseen' = unseen \cup what
       /\ lost' = (lost /\ "shape" \notin what)
  /\ UNCHANGED <<cap, info, cursor_pos_, cursor_shape_, newsVars,
                 loopVars, wire, conn, trouble>>

(* AcquireNextFrame: all that is new since the last one. *)
Acquire ==
  /\ cap = "acquire" /\ unseen # {}
  /\ info' = [pos |-> place, shape |-> [look |-> look, place |-> place],
              news |-> unseen]
  /\ unseen' = {}
  /\ cap' = "pos"
  /\ UNCHANGED <<worldVars, cursor_pos_, cursor_shape_, newsVars,
                 loopVars, wire, conn, lost, trouble>>

(* update_cursor: the position first, then, under the lock again, the      *)
(* shape, if DXGI gives it and it is of a kind that can be converted.      *)
(* Faulty: a report of a shape is not taken for one of a position too.     *)
PublishPosOrShape ==
  /\ cap = "pos"
  /\ IF info.news = {"pos"}
     THEN cursor_pos_' = info.pos /\ pos_news' = TRUE
     ELSE UNCHANGED <<cursor_pos_, pos_news>>
  /\ IF "shape" \in info.news
     THEN cap' = "shape" /\ UNCHANGED info
     ELSE cap' = "acquire" /\ info' = Nothing
  /\ UNCHANGED <<worldVars, unseen, cursor_shape_, shape_news, loopVars, wire, conn, lost, trouble>>

PublishPos ==
  /\ cap = "pos"
  /\ IF "pos" \in info.news
     THEN cursor_pos_' = info.pos /\ pos_news' = TRUE
     ELSE UNCHANGED <<cursor_pos_, pos_news>>
  /\ IF "shape" \in info.news
     THEN cap' = "shape" /\ UNCHANGED info
     ELSE cap' = "acquire" /\ info' = Nothing
  /\ UNCHANGED <<worldVars, unseen, cursor_shape_, shape_news, loopVars, wire, conn, lost, trouble>>

PublishShape ==
  /\ cap = "shape"
  /\ cursor_shape_' = info.shape /\ shape_news' = TRUE
  /\ cap' = "acquire" /\ info' = Nothing
  /\ UNCHANGED <<worldVars, unseen, cursor_pos_, pos_news, loopVars, wire, conn, lost, trouble>>

ShapeFails ==
  /\ cap = "shape"
  /\ Disturb
  /\ lost' = TRUE
  /\ cap' = "acquire" /\ info' = Nothing
  /\ UNCHANGED <<worldVars, unseen, cursor_pos_, cursor_shape_, newsVars,
                 loopVars, wire, conn>>

CaptureNext == Acquire \/ PublishPos \/ PublishShape \/ ShapeFails
-----------------------------------------------------------------------------
(* The run loop: both polls, and one packet if either has news. *)
PollShape ==
  /\ loop = "shape" /\ conn = "up"
  /\ shape' = IF shape_news THEN cursor_shape_ ELSE NoShape
  /\ shape_news' = FALSE
  /\ loop' = "pos"
  /\ UNCHANGED <<worldVars, captureVars, pos_news, cursor_pos, wire, conn, lost,
                 trouble>>

PollPos ==
  /\ loop = "pos" /\ conn = "up" /\ Len(wire) < MaxWire
  /\ cursor_pos' = IF pos_news THEN cursor_pos_ ELSE cursor_pos
  /\ pos_news' = FALSE
  /\ wire' = IF pos_news \/ shape # NoShape
             THEN Append(wire, Packet("cursor", cursor_pos', shape))
             ELSE wire
  /\ loop' = "shape" /\ shape' = NoShape
  /\ UNCHANGED <<worldVars, captureVars, shape_news, conn, lost,
                 trouble>>

(* The encoder's thread queues a picture (with the link idle: the bound). *)
SendFrame ==
  /\ conn = "up" /\ wire = << >>
  /\ wire' = Append(wire, Picture)
  /\ UNCHANGED <<worldVars, captureVars, newsVars, loopVars, conn, lost, trouble>>

(* The connection ends, by the sender or under both; what was on its way   *)
(* arrives or does not.                                                    *)
Cut ==
  /\ conn = "up"
  /\ Disturb
  /\ conn' = "cut"
  /\ wire' \in {wire, << >>}
  /\ UNCHANGED <<worldVars, captureVars, newsVars, loopVars, lost>>

(* A connection begins with version 0, "never sent": what was published at *)
(* any time is news.  (A duplication made anew for it reports the cursor   *)
(* once more; that repeats what is published, and is left out.)            *)
FreshConnection ==
  /\ conn' = "up" /\ wire' = << >>
  /\ loop' = "shape" /\ cursor_pos' = Hidden /\ shape' = NoShape
  /\ pos_news' = (cursor_pos_ # Hidden) /\ shape_news' = (cursor_shape_ # NoShape)
  /\ UNCHANGED <<worldVars, unseen, cap, info, cursor_pos_, cursor_shape_, lost, trouble>>

LoopNext == PollShape \/ PollPos
SourceNext == CursorChanges \/ CaptureNext \/ LoopNext \/ SendFrame \/ Cut
=============================================================================
