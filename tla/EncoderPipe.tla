---------------------------- MODULE EncoderPipe ----------------------------
(***************************************************************************)
(* What MfVideoEncoder promises the run loop: a pipe of frames, first in   *)
(* first out, with room for one more frame in front of it while the MFT    *)
(* has asked for none.  A frame that waits goes in at the MFT's next       *)
(* request, before any later one and instead of a credit; any call of the  *)
(* MFT may fail and lose the frame it was about.  Threads, locks, counters *)
(* and the sink's lifetime are not part of the promise; Encoder has them   *)
(* and is shown to keep it.                                                *)
(*                                                                         *)
(* What a frame is the user of the promise decides: f, here, is whatever   *)
(* the frame has become when ProcessInput takes it.                        *)
(***************************************************************************)
EXTENDS Naturals, Sequences

CONSTANTS
  Delay,       (* frames the MFT keeps until it is given another             *)
  MftRoom      (* frames and input credits the MFT has out at a time         *)

VARIABLES
  pending,     (* MfVideoEncoder::pending_ # nullptr                         *)
  credits,     (* input_credits_                                             *)
  mft          (* the frames given to the MFT that the sink has not had,     *)
               (* oldest first                                               *)

pipeVars == <<pending, credits, mft>>

PipeInit == pending = FALSE /\ credits = 0 /\ mft = << >>

Enter(f) == mft' = Append(mft, f)

(* encode(): in, if there is credit; else in place of whatever waits. *)
Encode(f) ==
  \/ credits > 0 /\ credits' = credits - 1 /\ Enter(f) /\ UNCHANGED pending
  \/ credits = 0 /\ pending' = TRUE /\ UNCHANGED <<credits, mft>>

(* ... or the MFT refuses the frame, the credit is gone, and the caller is *)
(* told so.                                                                *)
EncodeFails == credits > 0 /\ credits' = credits - 1 /\ UNCHANGED <<pending, mft>>

(* METransformNeedInput, with a frame waiting that the MFT takes, or       *)
(* refuses, or with none.                                                  *)
Needed == Len(mft) + credits < MftRoom

Admit(f) == Needed /\ pending /\ pending' = FALSE /\ Enter(f) /\ UNCHANGED credits
Refuse == Needed /\ pending /\ pending' = FALSE /\ UNCHANGED <<credits, mft>>
Owe == Needed /\ ~pending /\ credits' = credits + 1 /\ UNCHANGED <<pending, mft>>

AnswerNeed(f) == Admit(f) \/ Refuse \/ Owe

(* METransformHaveOutput: the oldest frame leaves, for the sink or lost. *)
Leave ==
  /\ Len(mft) > Delay
  /\ mft' = Tail(mft)
  /\ UNCHANGED <<pending, credits>>

(* One step of the pipe, with frames of some set. The promise is           *)
(* PipeInit /\ [][PipeNext(Frames)]_pipeVars.                              *)
PipeNext(Frames) ==
  \/ \E f \in Frames : Encode(f) \/ Admit(f)
  \/ Refuse \/ Owe
  \/ EncodeFails
  \/ Leave
=============================================================================
