----------------------------- MODULE FramePacer -----------------------------
(***************************************************************************)
(* src/sender/frame_pacer.h and the part of run_h264's loop that drives it *)
(* (main.cpp:649-673): when a frame goes to the encoder, how long the loop *)
(* waits for the next one, and when the frame in hand is sent again only   *)
(* to shake loose what the encoder is holding.                             *)
(*                                                                         *)
(* Time is an integer; it may pass between any two steps, since every step *)
(* reads the clock for itself and the loop has other work in between.      *)
(***************************************************************************)
EXTENDS Integers

CONSTANTS
  Interval,            (* interval_                                          *)
  QuietPoll,           (* kQuietPoll                                         *)
  FlushGrace,          (* kFlushGrace                                        *)
  MaxFlushResubmits,   (* kMaxFlushResubmits                                 *)
  Horizon              (* bound on the clock, for TLC                        *)

ASSUME PacerAssumption ==
  /\ Interval \in Nat \ {0} /\ QuietPoll \in Nat \ {0} /\ FlushGrace \in Nat
  /\ MaxFlushResubmits \in Nat /\ Horizon \in Nat

VARIABLES
  now,
  next_submit, last_submit, held, resubmits_left,
  have,        (* last_tex # nullptr                                         *)
  mailbox,     (* capture has a frame ready                                  *)
  pc,          (* "top", "wait" in pop_for, "ask" before take_slot           *)
  deadline,    (* when pop_for gives up                                      *)
  (* history, never read by the code: *)
  anchor,      (* a submission picked to count from: its time ...            *)
  granted,     (* ... and the slots granted since                            *)
  duplicates   (* re-submissions since the last frame arrived                *)

pacerVars == <<next_submit, last_submit, held, resubmits_left>>
history == <<anchor, granted, duplicates>>
vars == <<now, pacerVars, have, mailbox, pc, deadline, history>>

Init ==
  /\ now = 0
  /\ next_submit = now /\ last_submit = now
  /\ held = FALSE /\ resubmits_left = 0
  /\ have = FALSE /\ mailbox = FALSE
  /\ pc = "top" /\ deadline = now
  /\ anchor = now /\ granted = 0 /\ duplicates = 0
-----------------------------------------------------------------------------
Tick ==
  /\ now < Horizon
  /\ now' = now + 1
  /\ UNCHANGED <<pacerVars, have, mailbox, pc, deadline, history>>

FrameCaptured ==
  /\ ~mailbox
  /\ mailbox' = TRUE
  /\ UNCHANGED <<now, pacerVars, have, pc, deadline, history>>

WaitFor ==
  IF held /\ next_submit > now /\ next_submit - now < QuietPoll
  THEN next_submit - now ELSE QuietPoll

StartWait ==
  /\ pc = "top"
  /\ deadline' = now + WaitFor
  /\ pc' = "wait"
  /\ UNCHANGED <<now, pacerVars, have, mailbox, history>>

(* pop_for has a frame: on_frame, and it becomes the one in hand. *)
OnFrame ==
  /\ pc = "wait"
  /\ mailbox
  /\ mailbox' = FALSE
  /\ held' = TRUE
  /\ have' = TRUE
  /\ resubmits_left' = MaxFlushResubmits
  /\ duplicates' = 0
  /\ pc' = "ask"
  /\ UNCHANGED <<now, next_submit, last_submit, deadline, anchor, granted>>

OnTimeout ==
  /\ pc = "wait"
  /\ ~mailbox
  /\ now >= deadline
  /\ pc' = "ask"
  /\ UNCHANGED <<now, pacerVars, have, mailbox, deadline, history>>
-----------------------------------------------------------------------------
(* take_slot's conditions. depth is what the encoder has not given back.   *)
(* (Faulty: the grace is not awaited nor the budget looked at.)            *)
UnboundedDuplicate(depth) == have /\ depth > 0
DuplicateAllowed(depth) ==
  /\ resubmits_left > 0
  /\ have
  /\ depth > 0
  /\ now - last_submit >= FlushGrace

SlotOpen(depth) == now >= next_submit /\ (held \/ DuplicateAllowed(depth))

(* The next slot: one interval on, or counted afresh if a whole interval   *)
(* was missed. (Faulty: missed slots are made up for; the clock is let     *)
(* drift ahead of the submissions; the time is always counted from now.)   *)
SlotAfterCatchingUp == next_submit + Interval
SlotAfterTwice ==
  IF next_submit + Interval <= now THEN now + 2 * Interval ELSE next_submit + Interval
SlotAfter ==
  IF next_submit + Interval < now THEN now + Interval ELSE next_submit + Interval

(* A slot is granted and the frame submitted; the submission may be picked *)
(* to count the following ones from.                                       *)
TakeSlot ==
  /\ pc = "ask"
  /\ \E depth \in 0 .. 1 : SlotOpen(depth)
  /\ resubmits_left' = IF held THEN resubmits_left ELSE resubmits_left - 1
  /\ duplicates' = IF held THEN duplicates ELSE duplicates + 1
  /\ held' = FALSE
  /\ last_submit' = now
  /\ next_submit' = SlotAfter
  /\ pc' = "top"
  /\ \/ anchor' = now /\ granted' = 0
     \/ anchor' = anchor /\ granted' = granted + 1
  /\ UNCHANGED <<now, have, mailbox, deadline>>

NoSlot ==
  /\ pc = "ask"
  /\ \E depth \in 0 .. 1 : ~SlotOpen(depth)
  /\ pc' = "top"
  /\ UNCHANGED <<now, pacerVars, have, mailbox, deadline, history>>

Next ==
  Tick \/ FrameCaptured \/ StartWait \/ OnFrame \/ OnTimeout \/ TakeSlot \/ NoSlot

Spec == Init /\ [][Next]_vars
-----------------------------------------------------------------------------
TypeOK ==
  /\ now \in Nat /\ next_submit \in Nat /\ last_submit \in Nat /\ deadline \in Nat
  /\ held \in BOOLEAN /\ have \in BOOLEAN /\ mailbox \in BOOLEAN
  /\ resubmits_left \in 0 .. MaxFlushResubmits
  /\ pc \in {"top", "wait", "ask"}
  /\ anchor \in Nat /\ granted \in Nat /\ duplicates \in Nat

(* Counted from any submission on, n more take at least n - 1 intervals:   *)
(* the encoder is never fed faster than the rate it divides its bits by,   *)
(* and no stall is followed by a burst that catches up on it.              *)
NoBurst == granted > 0 => last_submit >= anchor + (granted - 1) * Interval

(* Nor is a frame ever made to wait for more than one interval after the   *)
(* last submission, however late that one was.                             *)
SlotIsNear == next_submit <= last_submit + Interval

(* Duplicates are bounded by the budget for each stretch of quiet, however *)
(* wrong the encoder's depth reads; and there is never one before the      *)
(* first frame.                                                            *)
FlushIsBounded ==
  /\ duplicates <= MaxFlushResubmits
  /\ held \/ resubmits_left > 0 => have
=============================================================================
