---------------------------- MODULE ReceivePath ----------------------------
(***************************************************************************)
(* The receiver's two threads on one connection after another (run_video): *)
(* the receive thread reads packets, decodes, gives pictures and cursors   *)
(* to the presenter and then a token to the present loop; the present loop *)
(* pumps the window, draws when it has a token, and in the end shuts the   *)
(* socket down, joins the receive thread and closes.  Packets come from    *)
(* CursorSource; what a request for a keyframe does is VideoStream's.      *)
(***************************************************************************)
EXTENDS CursorSource

CONSTANTS
  MftRoom    (* pictures the decoder may keep back                           *)

ASSUME PathAssumption == MftRoom \in Nat

VARIABLES
  socket,                  (* the handle: "open", "shut" or "closed"         *)
  rx, ph,                  (* the receive thread's place and packet          *)
  pictures,             (* packets in the decoder; ph has gone in         *)
  net_dead,
  frame_ready,             (* the Mailbox of tokens: one waits               *)
  main, quit,              (* the present loop's place; the user has left    *)
  cursor_at, cursor_tex,   (* the presenter's cursor_x_, _y_; its textures:  *)
                           (* the moment their shape is of, 0 for none       *)
  (* history, never read by the code: *)
  behind                   (* "frame", "cursor": given to the presenter and  *)
                           (* not drawn since                                *)

rxVars == <<rx, ph, pictures, net_dead>>
mainVars == <<main, quit, socket>>
screenVars == <<cursor_at, cursor_tex, behind>>
pathVars == <<rxVars, frame_ready, mainVars, screenVars>>
vars == <<sourceVars, pathVars>>
-----------------------------------------------------------------------------
Init ==
  /\ SourceInit
  /\ socket = "open" /\ rx = "read" /\ ph = Picture
  /\ pictures = 0 /\ net_dead = FALSE /\ frame_ready = FALSE
  /\ main = "top" /\ quit = FALSE
  /\ cursor_at = Hidden /\ cursor_tex = 0
  /\ behind = {}
-----------------------------------------------------------------------------
(* The receive thread. *)
rxElse == <<worldVars, captureVars, newsVars, loopVars, conn, lost, mainVars>>

Read ==
  /\ rx = "read" /\ socket = "open" /\ wire # << >>
  /\ ph' = Head(wire) /\ wire' = Tail(wire)
  /\ rx' = IF ph'.type = "frame" THEN "decode"
           ELSE IF ph'.shape # NoShape THEN "shape" ELSE "pos"
  /\ UNCHANGED <<rxElse, trouble, pictures, net_dead, frame_ready, screenVars>>

SetCursorShape ==
  /\ rx = "shape"
  /\ cursor_tex' = ph.shape.look
  /\ behind' = behind \cup {"cursor"}
  /\ rx' = "pos"
  /\ UNCHANGED <<rxElse, wire, trouble, ph, pictures, net_dead, frame_ready,
                 cursor_at>>

(* The textures of another size cannot be made: there is no cursor.  (The  *)
(* next shape tries again.)                                                *)
CursorTexFails ==
  /\ rx = "shape"
  /\ Disturb
  /\ cursor_tex' = 0 /\ lost' = TRUE
  /\ behind' = behind \cup {"cursor"}
  /\ rx' = "pos"
  /\ UNCHANGED <<worldVars, captureVars, newsVars, loopVars, conn, mainVars, wire,
                 ph, pictures, net_dead, frame_ready, cursor_at>>

(* Faulty: only a picture is worth a repaint. *)
SetCursorPosQuietly ==
  /\ rx = "pos"
  /\ cursor_at' = ph.pos
  /\ behind' = behind \cup {"cursor"}
  /\ ph' = Picture
  /\ rx' = "read"
  /\ UNCHANGED <<rxElse, wire, trouble, pictures, net_dead, frame_ready,
                 cursor_tex>>

SetCursorPos ==
  /\ rx = "pos"
  /\ cursor_at' = ph.pos
  /\ behind' = behind \cup {"cursor"}
  /\ ph' = Picture
  /\ rx' = "push"
  /\ UNCHANGED <<rxElse, wire, trouble, pictures, net_dead, frame_ready,
                 cursor_tex>>

(* decode: the pictures that come of one packet.  A decoder that will not  *)
(* take it is drained first and offered it again; one that fails gives     *)
(* none, or none after the first, and a keyframe may be asked for.         *)
Decode ==
  /\ rx = "decode"
  /\ pictures' \in 0 .. MftRoom + 1
  /\ rx' = IF pictures' = 0 THEN "read" ELSE "copy"
  /\ UNCHANGED <<rxElse, wire, trouble, ph, net_dead, frame_ready, screenVars>>

CopyVideoFrame ==
  /\ rx = "copy"
  /\ pictures' = pictures - 1
  /\ behind' = behind \cup {"frame"}
  /\ rx' = "push"
  /\ UNCHANGED <<rxElse, wire, trouble, ph, net_dead, frame_ready, cursor_at,
                 cursor_tex>>

(* The token, after what it announces. *)
Push ==
  /\ rx = "push"
  /\ frame_ready' = TRUE
  /\ rx' = IF pictures > 0 THEN "copy" ELSE "read"
  /\ UNCHANGED <<rxElse, wire, trouble, ph, pictures, net_dead, screenVars>>

(* recv fails: the other end is gone and everything read, or the present   *)
(* loop has shut the socket down. *)
Stop ==
  /\ rx = "read"
  /\ socket # "open" \/ (conn = "cut" /\ wire = << >>)
  /\ net_dead' = TRUE
  /\ rx' = "off"
  /\ UNCHANGED <<rxElse, wire, trouble, ph, pictures, frame_ready, screenVars>>

RxNext ==
  \/ Read \/ SetCursorShape \/ CursorTexFails \/ SetCursorPos \/ Decode
  \/ CopyVideoFrame \/ Push \/ Stop
-----------------------------------------------------------------------------
(* The present loop: messages first, then the connection, then a token.    *)
mainElse == <<sourceVars, rxVars>>

TopQuits ==
  /\ main = "top"
  /\ quit' = TRUE
  /\ main' = "shutdown"
  /\ UNCHANGED <<mainElse, frame_ready, socket, screenVars>>

(* handle_resize draws at once, whatever the loop has been told. *)
TopResizes ==
  /\ main = "top"
  /\ main' = "frame"
  /\ UNCHANGED <<mainElse, frame_ready, quit, socket, cursor_at, cursor_tex,
                 behind>>

TopDead ==
  /\ main = "top"
  /\ net_dead
  /\ main' = "shutdown"
  /\ UNCHANGED <<mainElse, frame_ready, quit, socket, screenVars>>

TopGoesOn ==
  /\ main = "top" /\ ~net_dead
  /\ main' = "pop"
  /\ UNCHANGED <<mainElse, frame_ready, quit, socket, screenVars>>

PopToken ==
  /\ main = "pop"
  /\ frame_ready' = FALSE
  /\ main' = IF frame_ready THEN "frame" ELSE "top"
  /\ UNCHANGED <<mainElse, quit, socket, screenVars>>

(* present: the picture, and over it the cursor. *)
DrawFrame ==
  /\ main = "frame"
  /\ behind' = behind \ {"frame"}
  /\ main' = "cursor"
  /\ UNCHANGED <<mainElse, frame_ready, quit, socket, cursor_at, cursor_tex>>

DrawCursor ==
  /\ main = "cursor"
  /\ behind' = behind \ {"cursor"}
  /\ main' = "top"
  /\ UNCHANGED <<mainElse, frame_ready, quit, socket, cursor_at, cursor_tex>>

(* The way out: shut down, wait for the other thread, close.  The wait     *)
(* keeps the handle from being another socket's while it is used, and the  *)
(* shutdown lets the wait end.                                             *)
Shutdown ==
  /\ main = "shutdown"
  /\ socket' = "shut"
  /\ main' = "join"
  /\ UNCHANGED <<mainElse, frame_ready, quit, screenVars>>

CloseSocket ==
  /\ main = "join" /\ rx = "off"
  /\ socket' = "closed"
  /\ main' = IF quit THEN "exited" ELSE "connect"
  /\ UNCHANGED <<mainElse, frame_ready, quit, screenVars>>

(* The next connection, with the cursor's textures of the last one.        *)
Connect ==
  /\ main = "connect"
  /\ FreshConnection
  /\ socket' = "open" /\ main' = "top"
  /\ cursor_at' = Hidden /\ behind' = {}
  /\ net_dead' = FALSE /\ frame_ready' = FALSE
  /\ rx' = "read"
  /\ UNCHANGED <<ph, pictures, quit, cursor_tex>>

MainNext ==
  \/ TopQuits \/ TopResizes \/ TopDead \/ TopGoesOn \/ PopToken \/ DrawFrame \/ DrawCursor
  \/ Shutdown \/ CloseSocket \/ Connect
-----------------------------------------------------------------------------
Next ==
  \/ main # "exited" /\ SourceNext /\ UNCHANGED pathVars
  \/ RxNext \/ MainNext

Spec == Init /\ [][Next]_vars

(* Every thread goes on; a receiver that lost its connection gets another; *)
(* the run loop is not kept from polling by the pictures (SF: the room on  *)
(* the wire is a bound of the model), nor pump from returning by a window  *)
(* that is resized for ever.                                               *)
FairSpec ==
  /\ Spec
  /\ WF_vars(CaptureNext /\ UNCHANGED pathVars)
  /\ SF_vars(LoopNext /\ UNCHANGED pathVars)
  /\ WF_vars(RxNext) /\ WF_vars(MainNext) /\ SF_vars(TopDead \/ TopGoesOn)
-----------------------------------------------------------------------------
(* A shape never travels with a position older than the one it was seen    *)
(* with, although the two are published and polled apart                   *)
(* (dxgi_capture.cpp:217-260, sender/main.cpp:641-648).                    *)
PacketCoherent ==
  \A i \in DOMAIN wire : wire[i].pos >= wire[i].shape.place

(* What the receive thread gave the presenter and the present loop has not *)
(* drawn, it will draw: a token waits, is about to be pushed, or it is     *)
(* drawing (receiver/main.cpp:306-324, 366-373, presenter.cpp:509-521).    *)
WillDraw(what) ==
  \/ frame_ready
  \/ rx \in {"push", "pos"}
  \/ main = "frame" \/ (what = "cursor" /\ main = "cursor")

NoLostRepaint == \A what \in behind : WillDraw(what)

(* Once the cursor rests, the receiver shows it where it is and as it is,  *)
(* on this connection or the next, also when nothing else on the screen    *)
(* moves (receiver/main.cpp:261-263, sender/main.cpp:538-540), unless its  *)
(* shape could not be had.                                                 *)
CursorShown ==
  /\ cursor_at = place
  /\ lost \/ cursor_tex = look
  /\ "cursor" \notin behind

CursorCatchesUp == <>[](main = "exited" \/ CursorShown)
=============================================================================
