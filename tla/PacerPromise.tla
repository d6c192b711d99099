---------------------------- MODULE PacerPromise ----------------------------
(***************************************************************************)
(* What the mailbox and FramePacer promise run_h264's loop, with the time  *)
(* left out: the latest frame captured is kept until the loop takes it, a  *)
(* frame in hand until it is granted a slot, and a slot without one is     *)
(* granted only from a budget that nothing but a frame restores.           *)
(*                                                                         *)
(* A pass of the loop first takes the waiting frame or finds none (popped) *)
(* and is then granted a slot or not.  FramePacer, which has the clocks    *)
(* and lets a frame arrive between the two, is shown to keep it.           *)
(***************************************************************************)
EXTENDS Integers

CONSTANT Resubmits     (* kMaxFlushResubmits                                 *)

VARIABLES
  mailbox,             (* a captured frame is waiting                        *)
  held,                (* FramePacer::held_                                  *)
  resubmits_left

pacerVars == <<mailbox, held, resubmits_left>>

PacerInit == mailbox = FALSE /\ held = FALSE /\ resubmits_left = 0

(* Latest frame wins. *)
Arrive == mailbox' = TRUE /\ UNCHANGED <<held, resubmits_left>>

(* What is in hand after mailbox.pop_for: a new frame, or still the old. *)
HeldNow(popped) == popped \/ held
BudgetNow(popped) == IF popped THEN Resubmits ELSE resubmits_left

(* A pass without a slot: it has not come round, the grace is not over, or *)
(* there is nothing to send.                                               *)
Pass(popped) ==
  /\ mailbox' = (mailbox /\ ~popped)
  /\ held' = HeldNow(popped)
  /\ resubmits_left' = BudgetNow(popped)

(* ... and with one, for a new frame, or for a duplicate that shakes loose *)
(* what the encoder is still holding (there is a frame to repeat if there  *)
(* is a budget for it: only a frame grants one).  pipeline_depth() may     *)
(* read high, never low: a duplicate may go out with nothing to shake      *)
(* loose, and one that is needed is not refused.                           *)
MayTakeSlot(popped) == HeldNow(popped) \/ BudgetNow(popped) > 0

Grant(popped) ==
  /\ MayTakeSlot(popped)
  /\ mailbox' = (mailbox /\ ~popped)
  /\ held' = FALSE
  /\ resubmits_left' = IF HeldNow(popped) THEN BudgetNow(popped) ELSE BudgetNow(popped) - 1

(* The promise is PacerInit /\ [][PacerNext]_pacerVars. *)
PacerNext ==
  \/ Arrive
  \/ \E popped \in {FALSE, mailbox} : Pass(popped) \/ Grant(popped)
=============================================================================
