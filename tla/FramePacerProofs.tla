-------------------------- MODULE FramePacerProofs --------------------------
(***************************************************************************)
(* The pacer's bounds for every rate, poll, grace and duplicate budget.    *)
(* NoBurst is not inductive: a submission is late or early by where the    *)
(* slot was, so what is carried from one to the next is Schedule, that the *)
(* slot itself never comes earlier than its turn counted from the anchor.  *)
(* FlushIsBounded needs Budget, which ties the duplicates already sent to  *)
(* those left.                                                             *)
(* Last, the pacer and the mailbox in front of it keep PacerPromise, the   *)
(* contract VideoStream is written with: taking a frame is a pass of the   *)
(* contract, the slot granted after it one that takes no frame, whatever   *)
(* has arrived in between.                                                 *)
(***************************************************************************)
EXTENDS FramePacer, TLAPS

Schedule == next_submit >= anchor + granted * Interval
Budget == duplicates + resubmits_left <= MaxFlushResubmits
IInv == TypeOK /\ Schedule /\ Budget /\ NoBurst /\ SlotIsNear /\ FlushIsBounded

(* One more turn is one more interval (all the multiplication there is). *)
LEMMA OneMore ==
  ASSUME NEW n \in Nat
  PROVE  /\ n * Interval \in Nat
         /\ (n + 1) * Interval = n * Interval + Interval
         /\ 0 * Interval = 0
         /\ (n + 1) - 1 = n
BY PacerAssumption

(* A fresh pacer. *)
LEMMA InitIInv == Init => IInv
<1> SUFFICES ASSUME Init PROVE IInv
  OBVIOUS
<1>1. TypeOK
  <2>1. held \in BOOLEAN /\ have \in BOOLEAN /\ mailbox \in BOOLEAN
    BY DEF Init
  <2> QED
    BY <2>1, PacerAssumption DEF Init, TypeOK
<1>2. Schedule
  BY OneMore, PacerAssumption DEF Init, Schedule
<1> QED
  BY <1>1, <1>2, PacerAssumption
  DEF Init, IInv, Budget, NoBurst, SlotIsNear, FlushIsBounded

(* A granted slot: the next one is an interval on, or counted from now. *)
LEMMA TakeSlotStep == IInv /\ TakeSlot => IInv'
<1> SUFFICES ASSUME IInv, TakeSlot PROVE IInv'
  OBVIOUS
<1>1. /\ now \in Nat /\ next_submit \in Nat /\ last_submit \in Nat /\ deadline \in Nat
      /\ anchor \in Nat /\ granted \in Nat /\ duplicates \in Nat
      /\ resubmits_left \in 0 .. MaxFlushResubmits
      /\ Interval \in Nat /\ Interval > 0 /\ MaxFlushResubmits \in Nat
      /\ held \in BOOLEAN /\ have \in BOOLEAN /\ mailbox \in BOOLEAN
  BY PacerAssumption DEF IInv, TypeOK
<1>2. now >= next_submit /\ (held \/ (resubmits_left > 0 /\ have))
  <2>1. PICK depth \in 0 .. 1 : SlotOpen(depth)
    BY DEF TakeSlot
  <2> QED
    BY <2>1 DEF SlotOpen, DuplicateAllowed
<1>3. /\ last_submit' = now /\ now' = now /\ next_submit' = SlotAfter
      /\ held' = FALSE /\ pc' = "top" /\ UNCHANGED <<have, mailbox, deadline>>
  BY DEF TakeSlot
<1>4. \/ held /\ resubmits_left' = resubmits_left /\ duplicates' = duplicates
      \/ /\ resubmits_left > 0
         /\ resubmits_left' = resubmits_left - 1 /\ duplicates' = duplicates + 1
  BY <1>2 DEF TakeSlot
<1>5. \/ anchor' = now /\ granted' = 0
      \/ anchor' = anchor /\ granted' = granted + 1
  BY DEF TakeSlot
<1>6. /\ SlotAfter \in Nat /\ SlotAfter >= next_submit + Interval
      /\ SlotAfter <= now + Interval /\ SlotAfter >= now
  BY <1>1, <1>2 DEF SlotAfter
<1>7. TypeOK'
  <2>1. held' \in BOOLEAN
    BY <1>3
  <2>2. /\ resubmits_left' \in 0 .. MaxFlushResubmits
        /\ duplicates' \in Nat /\ anchor' \in Nat /\ granted' \in Nat
    BY <1>1, <1>4, <1>5
  <2> QED
    BY <1>1, <1>3, <1>6, <2>1, <2>2 DEF TypeOK
<1>8. Budget' /\ FlushIsBounded'
  BY <1>1, <1>2, <1>3, <1>4 DEF IInv, Budget, FlushIsBounded
<1>9. SlotIsNear'
  BY <1>1, <1>3, <1>6 DEF SlotIsNear
<1>10. Schedule' /\ NoBurst'
  <2>1. CASE anchor' = now /\ granted' = 0
    <3>1. next_submit' >= anchor' + 0
      BY <1>1, <1>3, <1>6, <2>1
    <3> QED
      BY <1>1, <2>1, <3>1, OneMore DEF Schedule, NoBurst
  <2>2. CASE anchor' = anchor /\ granted' = granted + 1
    <3>1. /\ granted * Interval \in Nat
          /\ granted' * Interval = granted * Interval + Interval
          /\ granted' - 1 = granted
      BY <1>1, <2>2, OneMore
    <3>2. next_submit >= anchor + granted * Interval
      BY DEF IInv, Schedule
    <3>3. next_submit' >= anchor' + granted' * Interval
      BY <1>1, <1>3, <1>6, <2>2, <3>1, <3>2
    <3>4. last_submit' >= anchor' + (granted' - 1) * Interval
      BY <1>1, <1>2, <1>3, <2>2, <3>1, <3>2
    <3> QED
      BY <3>3, <3>4 DEF Schedule, NoBurst
  <2> QED
    BY <1>5, <2>1, <2>2
<1> QED
  BY <1>7, <1>8, <1>9, <1>10 DEF IInv

(* No other step moves the schedule. *)
LEMMA OtherSteps ==
  IInv /\ (Tick \/ FrameCaptured \/ StartWait \/ OnFrame \/ OnTimeout \/ NoSlot
           \/ UNCHANGED vars) => IInv'
<1> SUFFICES ASSUME IInv,
                    \/ Tick \/ FrameCaptured \/ StartWait \/ OnFrame
                    \/ OnTimeout \/ NoSlot \/ UNCHANGED vars
             PROVE  IInv'
  OBVIOUS
<1> USE DEF pacerVars, history
<1>1. UNCHANGED <<next_submit, last_submit, anchor, granted>>
  BY DEF Tick, FrameCaptured, StartWait, OnFrame, OnTimeout, NoSlot, vars
<1>2. Schedule' /\ NoBurst' /\ SlotIsNear'
  BY <1>1 DEF IInv, Schedule, NoBurst, SlotIsNear
<1>3. TypeOK'
  <2>1. WaitFor \in Nat
    BY PacerAssumption DEF WaitFor, IInv, TypeOK
  <2>2. CASE Tick
    BY <2>2 DEF Tick, IInv, TypeOK
  <2>7. CASE FrameCaptured
    <3>1. mailbox' \in BOOLEAN
      BY <2>7 DEF FrameCaptured
    <3>2. UNCHANGED <<now, pacerVars, have, pc, deadline, history>>
      BY <2>7 DEF FrameCaptured
    <3> QED
      BY <3>1, <3>2 DEF IInv, TypeOK
  <2>3. CASE StartWait
    BY <2>1, <2>3 DEF StartWait, IInv, TypeOK
  <2>4. CASE OnFrame
    <3>1. mailbox' \in BOOLEAN /\ held' \in BOOLEAN /\ have' \in BOOLEAN
      BY <2>4 DEF OnFrame
    <3> QED
      BY <2>4, <3>1, PacerAssumption DEF OnFrame, IInv, TypeOK
  <2>5. CASE OnTimeout \/ NoSlot
    BY <2>5 DEF OnTimeout, NoSlot, IInv, TypeOK
  <2>6. CASE UNCHANGED vars
    BY <2>6 DEF vars, IInv, TypeOK
  <2> QED
    BY <2>2, <2>3, <2>4, <2>5, <2>6, <2>7
<1>4. Budget' /\ FlushIsBounded'
  <2>1. CASE OnFrame
    BY <2>1, PacerAssumption DEF OnFrame, Budget, FlushIsBounded
  <2>2. CASE UNCHANGED <<held, have, resubmits_left, duplicates>>
    BY <2>2 DEF IInv, Budget, FlushIsBounded
  <2> QED
    BY <2>1, <2>2 DEF Tick, FrameCaptured, StartWait, OnTimeout, NoSlot, vars
<1> QED
  BY <1>2, <1>3, <1>4 DEF IInv

(* The parts of the invariant hold together in every reachable state. *)
THEOREM PacerIInv == Spec => []IInv
<1>1. IInv /\ [Next]_vars => IInv'
  BY TakeSlotStep, OtherSteps DEF Next
<1> QED
  BY InitIInv, <1>1, PTL DEF Spec

(* For every frame rate: no run of submissions is denser than the interval *)
(* allows, give or take the one it is counted from.                        *)
THEOREM PacerNeverBursts == Spec => []NoBurst
  BY PacerIInv, PTL DEF IInv

(* For every frame rate: a frame's slot is at most one interval away.      *)
THEOREM PacerSlotIsNear == Spec => []SlotIsNear
  BY PacerIInv, PTL DEF IInv

(* For every budget: quiet ends the duplicates, whatever depth is read.    *)
THEOREM PacerFlushIsBounded == Spec => []FlushIsBounded
  BY PacerIInv, PTL DEF IInv
-----------------------------------------------------------------------------
Promise == INSTANCE PacerPromise WITH Resubmits <- MaxFlushResubmits

(* The frame taken is a pass of the promise of its own. *)
LEMMA OnFrameKeeps == IInv /\ OnFrame => Promise!Pass(TRUE) /\ mailbox
BY DEF IInv, TypeOK, OnFrame, Promise!Pass, Promise!HeldNow, Promise!BudgetNow

(* The slot granted after it is one granted without a frame taken. *)
LEMMA TakeSlotKeeps == IInv /\ TakeSlot => Promise!Grant(FALSE)
<1> SUFFICES ASSUME IInv, TakeSlot PROVE Promise!Grant(FALSE)
  OBVIOUS
<1>1. mailbox' = mailbox /\ mailbox \in BOOLEAN /\ held' = FALSE
  BY DEF IInv, TypeOK, TakeSlot
<1>2. Promise!MayTakeSlot(FALSE)
  <2>1. PICK depth \in 0 .. 1 : SlotOpen(depth)
    BY DEF TakeSlot
  <2> QED
    BY <2>1 DEF SlotOpen, DuplicateAllowed, Promise!MayTakeSlot, Promise!HeldNow,
                Promise!BudgetNow
<1>3. resubmits_left' = IF Promise!HeldNow(FALSE) THEN Promise!BudgetNow(FALSE)
                        ELSE Promise!BudgetNow(FALSE) - 1
  BY DEF TakeSlot, Promise!HeldNow, Promise!BudgetNow
<1> QED
  BY <1>1, <1>2, <1>3 DEF Promise!Grant

(* Every step of the pacer is one of the promise's, or none. *)
LEMMA PacerStep == IInv /\ [Next]_vars => [Promise!PacerNext]_(Promise!pacerVars)
<1> SUFFICES ASSUME IInv, [Next]_vars PROVE [Promise!PacerNext]_(Promise!pacerVars)
  OBVIOUS
<1> USE DEF Promise!pacerVars
<1>1. CASE OnFrame
  <2>1. TRUE \in {FALSE, mailbox} /\ Promise!Pass(TRUE)
    BY <1>1, OnFrameKeeps DEF IInv, TypeOK
  <2> QED
    BY <2>1 DEF Promise!PacerNext
<1>2. CASE TakeSlot
  <2>1. FALSE \in {FALSE, mailbox} /\ Promise!Grant(FALSE)
    BY <1>2, TakeSlotKeeps
  <2> QED
    BY <2>1 DEF Promise!PacerNext
<1>3. CASE FrameCaptured
  BY <1>3 DEF FrameCaptured, pacerVars, Promise!PacerNext, Promise!Arrive
<1>4. CASE Tick \/ StartWait \/ OnTimeout \/ NoSlot \/ UNCHANGED vars
  BY <1>4 DEF Tick, StartWait, OnTimeout, NoSlot, vars, pacerVars
<1> QED
  BY <1>1, <1>2, <1>3, <1>4 DEF Next

(* FramePacer and the mailbox implement the contract the stream is built   *)
(* on, for every rate, poll, grace and budget and any stalls: a frame      *)
(* taken stays in hand until it has its slot, and only frames grant        *)
(* duplicates (frame_pacer.h:97-132).                                      *)
THEOREM PacerPromiseIsKept ==
  Spec => Promise!PacerInit /\ [][Promise!PacerNext]_(Promise!pacerVars)
<1>1. Init => Promise!PacerInit
  BY DEF Init, Promise!PacerInit
<1> QED
  BY <1>1, PacerStep, PacerIInv, PTL DEF Spec
=============================================================================
