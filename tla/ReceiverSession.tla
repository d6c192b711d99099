-------------------------- MODULE ReceiverSession --------------------------
(***************************************************************************)
(* The receiver's process: run()'s loop of connecting, greeting, fitting   *)
(* the window to the hello and showing what comes until the connection or  *)
(* the user ends it.  The receive thread and the present loop are one step *)
(* here (ReceivePath has them apart), and how long a retry waits is left   *)
(* open.                                                                   *)
(***************************************************************************)
EXTENDS Link

VARIABLES
  rx,                (* run()'s place                                        *)
  connected_before,
  presenter,         (* "none", or the kind of stream its window was made for *)
  texture,           (* its frame_w_ and frame_h_                            *)
  hello,             (* the hello of this connection                         *)
  closing,           (* the user has closed the window: a message waits      *)
  outcome,           (* "running", or why the process ended                  *)
  (* history, never read by the code: *)
  painted            (* the size of this connection's last picture           *)

receiverVars == <<rx, connected_before, presenter, texture, hello, closing,
                  outcome, painted>>
-----------------------------------------------------------------------------
NoHello == [type |-> "none", width |-> 0, height |-> 0, codec |-> "none"]

ReceiverInit ==
  /\ rx = "connect" /\ connected_before = FALSE
  /\ presenter = "none" /\ texture = <<0, 0>>
  /\ hello = NoHello
  /\ closing = FALSE /\ outcome = "running" /\ painted = <<0, 0>>

UserCloses ==
  /\ presenter # "none" /\ ~closing /\ outcome = "running"
  /\ closing' = TRUE
  /\ UNCHANGED <<linkVars, rx, connected_before, presenter, texture, hello,
                 outcome, painted, trouble>>

(* pump has found nothing to end for. *)
(* Faulty: it is not called while the program is busy. *)
Unpumped == TRUE

Pumped == ~closing

End(why) == outcome' = why /\ rx' = "exited"
-----------------------------------------------------------------------------
(* connect_and_handshake *)
connectElse == <<connected_before, presenter, texture, hello, closing, painted>>

Dial ==
  /\ rx = "connect"
  /\ Connect
  /\ rx' = "shake"
  /\ UNCHANGED <<connectElse, outcome, trouble>>

DialFails ==
  /\ rx = "connect"
  /\ ~up \/ Len(queue) = Backlog
  /\ rx' = "retry"
  /\ UNCHANGED <<linkVars, connectElse, outcome, trouble>>

TakeHello ==
  /\ rx = "shake" /\ inbox # << >>
  /\ hello' = Head(inbox) /\ inbox' = Tail(inbox)
  /\ connected_before' = TRUE
  /\ rx' = "window"
  /\ UNCHANGED <<up, queue, mine, served, presenter, texture, closing, outcome,
                 painted, trouble>>

ShakeFails ==
  /\ rx = "shake" /\ inbox = << >> /\ mine = "dropped"
  /\ ReceiverCloses
  /\ rx' = "retry"
  /\ UNCHANGED <<connectElse, outcome, trouble>>

ShakeTimesOut ==
  /\ rx = "shake" /\ inbox = << >> /\ mine # "dropped"
  /\ ReceiverCloses
  /\ rx' = "retry"
  /\ UNCHANGED <<connectElse, outcome>>

(* Only before anything has ever worked is there a deadline. *)
(* Faulty: the deadline counts for every connection. *)
DeadlineAlways == TRUE

DeadlineApplies == ~connected_before

GiveUp ==
  /\ rx = "retry" /\ DeadlineApplies
  /\ End("deadline")
  /\ UNCHANGED <<linkVars, connectElse, trouble>>

(* wait_before_retry pumps; without a window it sleeps. *)
QuitWaiting ==
  /\ rx = "retry" /\ closing
  /\ End("user")
  /\ UNCHANGED <<linkVars, connectElse, trouble>>

RetryOver ==
  /\ rx = "retry" /\ Pumped
  /\ rx' = "connect"
  /\ UNCHANGED <<linkVars, connectElse, outcome, trouble>>
-----------------------------------------------------------------------------
HelloKind == IF hello.codec = "none" THEN "lz4" ELSE "video"
HelloSize == <<hello.width, hello.height>>

(* Another kind of stream needs another window, and what was waiting for   *)
(* the old one goes with it; another size needs only textures.             *)
NewPresenter ==
  /\ presenter' = HelloKind
  /\ closing' = FALSE
  /\ texture' = HelloSize

SetFrameSize == texture' = HelloSize /\ UNCHANGED <<presenter, closing>>

(* Faulty: the textures are made once, with the window. *)
KeepTextures ==
  IF presenter = HelloKind
  THEN UNCHANGED <<presenter, closing, texture>>
  ELSE NewPresenter

FitPresenter == IF presenter = HelloKind THEN SetFrameSize ELSE NewPresenter

FitWindow ==
  /\ rx = "window"
  /\ FitPresenter
  /\ painted' = <<0, 0>>
  /\ rx' = IF HelloKind = "video" THEN "decoder" ELSE "show"
  /\ UNCHANGED <<linkVars, connected_before, hello, outcome, trouble>>

(* Neither a window nor textures that cannot be had are worth a retry. *)
WindowFails ==
  /\ rx = "window"
  /\ Disturb
  /\ ReceiverCloses
  /\ End("fault")
  /\ UNCHANGED connectElse

BuildDecoder ==
  /\ rx = "decoder"
  /\ hello.codec \in Decodable
  /\ rx' = "show"
  /\ UNCHANGED <<linkVars, connectElse, outcome, trouble>>

DecoderFails ==
  /\ rx = "decoder"
  /\ IF hello.codec \in Decodable
     THEN Disturb /\ End("fault")
     ELSE UNCHANGED trouble /\ End("no decoder")
  /\ ReceiverCloses
  /\ UNCHANGED connectElse
-----------------------------------------------------------------------------
(* The session: the window's messages come first. *)
QuitSession ==
  /\ rx = "show" /\ closing
  /\ rx' = "close" /\ outcome' = "user"
  /\ UNCHANGED <<linkVars, connectElse, trouble>>

Paint ==
  /\ rx = "show" /\ Pumped /\ inbox # << >>
  /\ painted' = <<Head(inbox).width, Head(inbox).height>>
  /\ inbox' = Tail(inbox)
  /\ UNCHANGED <<up, queue, mine, served, rx, connected_before, presenter,
                 texture, hello, closing, outcome, trouble>>

ConnectionEnds ==
  /\ rx = "show" /\ Pumped /\ inbox = << >> /\ mine = "dropped"
  /\ rx' = "close"
  /\ UNCHANGED <<linkVars, connectElse, outcome, trouble>>

(* A connection that lasted is replaced at once, another after a wait; the *)
(* next pass starts from an empty hello.                                   *)
CloseConnection ==
  /\ rx = "close"
  /\ ReceiverCloses
  /\ hello' = NoHello
  /\ IF outcome = "user" THEN rx' = "exited" ELSE rx' \in {"connect", "retry"}
  /\ UNCHANGED <<connected_before, presenter, texture, closing, painted, outcome,
                 trouble>>

ReceiverNext ==
  \/ Dial \/ DialFails \/ TakeHello \/ ShakeFails \/ GiveUp
  \/ QuitWaiting \/ RetryOver \/ FitWindow \/ WindowFails \/ BuildDecoder
  \/ DecoderFails \/ QuitSession \/ Paint \/ ConnectionEnds \/ CloseConnection
=============================================================================
