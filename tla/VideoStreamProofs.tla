------------------------- MODULE VideoStreamProofs -------------------------
(***************************************************************************)
(* No keyframe request is lost, for every encoder delay, resubmission      *)
(* budget and bound of VideoStream.                                        *)
(* TypeOK, NoSilentGap and RequestNeverLost are inductive together: a step *)
(* either leaves what the encoded stream will do to the picture as it is   *)
(* (a mark moves from one stage to the next), mends it, or tears it and    *)
(* records a request in the same step.  So the proof is about what Append, *)
(* Head and Tail do to Torn and NoKey, and the rest is propositional.      *)
(* Last, the stream stays within the contracts of its three components.    *)
(***************************************************************************)
EXTENDS VideoStream, SequenceTheorems, TLAPS

(* A mark at the end of a stretch decides; else the stretch before does. *)
LEMMA MarkAppended ==
  ASSUME NEW s \in Seq(Marks), NEW m \in Marks
  PROVE  /\ NoKey(Append(s, m)) <=> m # "I" /\ NoKey(s)
         /\ Torn(Append(s, m)) <=> m = "G" \/ (m # "I" /\ Torn(s))
<1>1. /\ DOMAIN Append(s, m) = 1 .. Len(s) + 1 /\ DOMAIN s = 1 .. Len(s)
      /\ Len(s) \in Nat /\ Append(s, m)[Len(s) + 1] = m
      /\ \A i \in 1 .. Len(s) : Append(s, m)[i] = s[i]
  OBVIOUS
<1> DEFINE t == Append(s, m)
<1> HIDE DEF t
<1>2. /\ DOMAIN t = 1 .. Len(s) + 1 /\ t[Len(s) + 1] = m
      /\ \A i \in 1 .. Len(s) : t[i] = s[i]
  BY <1>1 DEF t
<1>3. NoKey(t) <=> m # "I" /\ NoKey(s)
  BY <1>1, <1>2 DEF NoKey
<1>4. ASSUME Torn(t) PROVE m = "G" \/ (m # "I" /\ Torn(s))
  <2>1. PICK i \in 1 .. Len(s) + 1 : t[i] = "G" /\ \A j \in 1 .. Len(s) + 1 : j > i => t[j] # "I"
    BY <1>2, <1>4 DEF Torn
  <2>2. CASE i = Len(s) + 1
    BY <1>2, <2>1, <2>2
  <2>3. CASE i \in 1 .. Len(s)
    <3>1. m # "I"
      BY <1>1, <1>2, <2>1, <2>3
    <3>2. s[i] = "G" /\ \A j \in 1 .. Len(s) : j > i => s[j] # "I"
      BY <1>1, <1>2, <2>1, <2>3
    <3> QED
      BY <1>1, <2>3, <3>1, <3>2 DEF Torn
  <2> QED
    BY <1>1, <2>1, <2>2, <2>3
<1>5. ASSUME m = "G" PROVE Torn(t)
  BY <1>1, <1>2, <1>5 DEF Torn
<1>6. ASSUME m # "I", Torn(s) PROVE Torn(t)
  BY <1>1, <1>2, <1>6 DEF Torn
<1> QED
  BY <1>3, <1>4, <1>5, <1>6 DEF t

(* The first mark of a stretch matters only if no keyframe follows it. *)
LEMMA MarkTaken ==
  ASSUME NEW s \in Seq(Marks), s # << >>
  PROVE  /\ Head(s) \in Marks /\ Tail(s) \in Seq(Marks)
         /\ NoKey(s) <=> Head(s) # "I" /\ NoKey(Tail(s))
         /\ Torn(s) <=> Torn(Tail(s)) \/ (Head(s) = "G" /\ NoKey(Tail(s)))
<1>1. /\ Len(s) \in Nat /\ Len(s) > 0 /\ DOMAIN s = 1 .. Len(s)
      /\ Head(s) = s[1] /\ Tail(s) \in Seq(Marks) /\ Head(s) \in Marks
      /\ DOMAIN Tail(s) = 1 .. Len(s) - 1
      /\ \A i \in 1 .. Len(s) - 1 : Tail(s)[i] = s[i + 1]
  OBVIOUS
<1> DEFINE t == Tail(s)
<1> HIDE DEF t
<1>2. /\ DOMAIN t = 1 .. Len(s) - 1
      /\ \A i \in 1 .. Len(s) - 1 : t[i] = s[i + 1]
  BY <1>1 DEF t
<1>3. \A i \in 2 .. Len(s) : i - 1 \in 1 .. Len(s) - 1 /\ t[i - 1] = s[i]
  BY <1>1, <1>2
<1>4. NoKey(s) <=> s[1] # "I" /\ NoKey(t)
  <2>1. ASSUME NoKey(s) PROVE s[1] # "I" /\ NoKey(t)
    BY <1>1, <1>2, <2>1 DEF NoKey
  <2>2. ASSUME s[1] # "I", NoKey(t), NEW i \in 1 .. Len(s) PROVE s[i] # "I"
    <3>1. CASE i = 1
      BY <2>2, <3>1
    <3>2. CASE i \in 2 .. Len(s)
      BY <1>2, <1>3, <2>2, <3>2 DEF NoKey
    <3> QED
      BY <1>1, <3>1, <3>2
  <2> QED
    BY <1>1, <2>1, <2>2 DEF NoKey
<1>5. ASSUME Torn(s) PROVE Torn(t) \/ (s[1] = "G" /\ NoKey(t))
  <2>1. PICK i \in 1 .. Len(s) : s[i] = "G" /\ \A j \in 1 .. Len(s) : j > i => s[j] # "I"
    BY <1>1, <1>5 DEF Torn
  <2>2. CASE i = 1
    BY <1>1, <1>2, <2>1, <2>2 DEF NoKey
  <2>3. CASE i \in 2 .. Len(s)
    <3>1. i - 1 \in 1 .. Len(s) - 1 /\ t[i - 1] = "G"
      BY <1>3, <2>1, <2>3
    <3>2. \A j \in 1 .. Len(s) - 1 : j > i - 1 => t[j] # "I"
      BY <1>1, <1>2, <2>1, <2>3
    <3> QED
      BY <1>2, <3>1, <3>2 DEF Torn
  <2> QED
    BY <1>1, <2>1, <2>2, <2>3
<1>6. ASSUME Torn(t) PROVE Torn(s)
  <2>1. PICK i \in 1 .. Len(s) - 1 : t[i] = "G" /\ \A j \in 1 .. Len(s) - 1 : j > i => t[j] # "I"
    BY <1>2, <1>6 DEF Torn
  <2>2. i + 1 \in 1 .. Len(s) /\ s[i + 1] = "G"
    BY <1>1, <1>2, <2>1
  <2>3. ASSUME NEW j \in 1 .. Len(s), j > i + 1 PROVE s[j] # "I"
    <3>1. j - 1 \in 1 .. Len(s) - 1 /\ j - 1 > i /\ t[j - 1] = s[j]
      BY <1>1, <1>3, <2>1, <2>3
    <3> QED
      BY <2>1, <3>1
  <2> QED
    BY <1>1, <2>2, <2>3 DEF Torn
<1>7. ASSUME s[1] = "G", NoKey(t) PROVE Torn(s)
  <2>1. ASSUME NEW j \in 1 .. Len(s), j > 1 PROVE s[j] # "I"
    BY <1>1, <1>2, <1>3, <1>7, <2>1 DEF NoKey
  <2> QED
    BY <1>1, <1>7, <2>1 DEF Torn
<1> QED
  BY <1>1, <1>4, <1>5, <1>6, <1>7 DEF t

(* The empty stretch changes nothing; a lone keyframe mends everything; no *)
(* frame inside the MFT is a gap.                                          *)
LEMMA ShortStretches ==
  /\ NoKey(<< >>) /\ ~Torn(<< >>)
  /\ ~NoKey(<<"I">>) /\ ~Torn(<<"I">>)
  /\ \A s \in Seq({"I", "P"}) : ~Torn(s)
<1>1. NoKey(<< >>) /\ ~Torn(<< >>)
  BY DEF NoKey, Torn
<1>2. ~NoKey(<<"I">>) /\ ~Torn(<<"I">>)
  BY DEF NoKey, Torn
<1>3. ASSUME NEW s \in Seq({"I", "P"}) PROVE ~Torn(s)
  <2>1. \A i \in DOMAIN s : s[i] \in {"I", "P"}
    OBVIOUS
  <2> QED
    BY <2>1 DEF Torn
<1> QED
  BY <1>1, <1>2, <1>3
-----------------------------------------------------------------------------
(* A fresh connection is of its type. *)
LEMMA InitType == Init => TypeOK
<1> SUFFICES ASSUME Init PROVE TypeOK
  OBVIOUS
<1>1. << >> \in Seq(Marks) /\ << >> \in Seq({"I", "P"})
  BY EmptySeq
<1> USE DEF PipeInit
<1>2. QueueTypeOK
  BY <1>1 DEF Init, QueueInit, QueueTypeOK
<1>3. mft \in Seq({"I", "P"}) /\ wire \in Seq(Marks) /\ resubmits_left \in 0 .. Resubmits
  BY <1>1, BoundsAssumption DEF Init, PacerInit
<1> QED
  BY <1>2, <1>3 DEF Init, PacerInit, TypeOK

(* What a call of encode() or a request of the MFT does to the pipe: one   *)
(* frame goes in, a keyframe if one was asked for, or none does.           *)
Fed == mft' = Append(mft, Frame) /\ force' = FALSE

LEMMA PipeFed ==
  ASSUME TypeOK, Encode(Frame) \/ AnswerNeed(Frame), UsedUp
  PROVE  /\ Fed \/ UNCHANGED <<mft, force>>
         /\ mft' \in Seq({"I", "P"}) /\ force' \in BOOLEAN
         /\ pending' \in BOOLEAN /\ credits' \in Nat
<1>1. /\ mft \in Seq({"I", "P"}) /\ pending \in BOOLEAN /\ credits \in Nat /\ force \in BOOLEAN
      /\ Frame \in {"I", "P"}
  BY DEF TypeOK, Frame
<1>2. /\ mft' = mft \/ mft' = Append(mft, Frame)
      /\ pending' = pending \/ pending' = TRUE \/ pending' = FALSE
      /\ credits' = credits \/ credits' = credits + 1 \/ (credits > 0 /\ credits' = credits - 1)
  <2>1. CASE Encode(Frame)
    BY <2>1, Zenon DEF Encode, Enter
  <2>2. CASE AnswerNeed(Frame)
    BY <2>2, Zenon DEF AnswerNeed, Admit, Refuse, Owe, Enter
  <2> QED
    BY <2>1, <2>2
<1>3. pending' \in BOOLEAN /\ credits' \in Nat
  <2>1. pending' \in BOOLEAN
    BY <1>1, <1>2, Zenon
  <2>2. credits' \in Nat
    BY <1>1, <1>2
  <2> QED
    BY <2>1, <2>2
<1>4. Append(mft, Frame) # mft /\ Append(mft, Frame) \in Seq({"I", "P"})
  <2>1. \A m \in {"I", "P"} : /\ Len(Append(mft, m)) = Len(mft) + 1
                               /\ Append(mft, m) \in Seq({"I", "P"})
    BY <1>1
  <2>2. Len(mft) \in Nat
    BY <1>1, LenProperties
  <2> QED
    BY <1>1, <2>1, <2>2
<1>5. CASE mft' = mft
  <2>1. force' = force
    BY <1>1, <1>5 DEF UsedUp
  <2> QED
    BY <1>1, <1>3, <1>5, <2>1
<1>6. CASE mft' = Append(mft, Frame)
  <2>1. force' = FALSE
    BY <1>4, <1>6 DEF UsedUp
  <2> QED
    BY <1>3, <1>4, <1>6, <2>1 DEF Fed
<1> QED
  BY <1>2, <1>5, <1>6

(* A pass with or without a slot leaves the budget in range. *)
LEMMA SlotType ==
  ASSUME TypeOK, pc' = "top", Pass(mailbox) \/ Grant(mailbox)
  PROVE  /\ pc' \in {"top", "frame"} /\ mailbox' \in BOOLEAN /\ held' \in BOOLEAN
         /\ resubmits_left' \in 0 .. Resubmits
<1>1. BudgetNow(mailbox) \in 0 .. Resubmits
  BY BoundsAssumption DEF TypeOK, BudgetNow
<1>2. MayTakeSlot(mailbox) /\ ~HeldNow(mailbox) => BudgetNow(mailbox) - 1 \in 0 .. Resubmits
  BY <1>1, BoundsAssumption DEF MayTakeSlot
<1>3. HeldNow(mailbox) \in BOOLEAN
  BY DEF HeldNow, TypeOK
<1>4. resubmits_left' \in 0 .. Resubmits
  BY <1>1, <1>2 DEF Pass, Grant
<1>5. held' \in BOOLEAN /\ mailbox' \in BOOLEAN
  BY <1>3 DEF Pass, Grant
<1> QED
  BY <1>4, <1>5

(* Every action keeps the types. *)
LEMMA TypeStep == TypeOK /\ [Next]_vars => TypeOK'
<1> SUFFICES ASSUME TypeOK, [Next]_vars PROVE TypeOK'
  OBVIOUS
<1> USE DEF queueVars, loopVars, pacerVars, mftVars, pipeVars, rxVars, QueueTypeOK
<1>1. CASE NewFrame
  BY <1>1 DEF NewFrame, Arrive, TypeOK
<1>2. CASE LoopTop
  <2>1. /\ resync' \in BOOLEAN /\ keyframe_requested' \in BOOLEAN
        /\ keyframe_pending' \in BOOLEAN /\ force' \in BOOLEAN /\ throttled' \in BOOLEAN
    BY <1>2 DEF LoopTop, CollectRequests, Collect, TypeOK
  <2> QED
    BY <1>2, <2>1 DEF LoopTop, TypeOK
<1>3. CASE NoSlot
  <2>1. /\ pc' \in {"top", "frame"} /\ mailbox' \in BOOLEAN /\ held' \in BOOLEAN
        /\ resubmits_left' \in 0 .. Resubmits
    BY <1>3, SlotType DEF NoSlot
  <2> QED
    BY <1>3, <2>1 DEF NoSlot, TypeOK
<1>4. CASE Submit
  <2>1. /\ mft' \in Seq({"I", "P"}) /\ force' \in BOOLEAN
        /\ pending' \in BOOLEAN /\ credits' \in Nat
    BY <1>4, PipeFed DEF Submit
  <2>2. /\ pc' \in {"top", "frame"} /\ mailbox' \in BOOLEAN /\ held' \in BOOLEAN
        /\ resubmits_left' \in 0 .. Resubmits
    BY <1>4, SlotType DEF Submit, TakeSlot
  <2> QED
    BY <1>4, <2>1, <2>2 DEF Submit, TakeSlot, TypeOK
<1>5. CASE DroppedPreEncode
  <2>1. /\ pc' \in {"top", "frame"} /\ mailbox' \in BOOLEAN /\ held' \in BOOLEAN
        /\ resubmits_left' \in 0 .. Resubmits
    BY <1>5, SlotType DEF DroppedPreEncode, TakeSlot
  <2> QED
    BY <1>5, <2>1 DEF DroppedPreEncode, TakeSlot, TypeOK
<1>6. CASE NeedInput
  <2>1. /\ mft' \in Seq({"I", "P"}) /\ force' \in BOOLEAN
        /\ pending' \in BOOLEAN /\ credits' \in Nat
    BY <1>6, PipeFed DEF NeedInput
  <2>2. UNCHANGED <<queueVars, loopVars, pacerVars, wire, rxVars, asks,
                    keyframe_requested, slipped, trouble>>
    BY <1>6 DEF NeedInput
  <2> QED
    BY <2>1, <2>2 DEF TypeOK
<1>7. CASE HaveOutput
  <2>1. mft' \in Seq({"I", "P"})
    BY <1>7, BoundsAssumption DEF HaveOutput, Leave, TypeOK
  <2>2. /\ backlog' \in Seq(Marks) /\ gap' \in BOOLEAN /\ resync' \in BOOLEAN
        /\ dead' \in BOOLEAN /\ trouble' \in Nat /\ slipped' \in BOOLEAN
    <3> DEFINE key == Head(mft) = "I"
    <3>1. CASE Keep(key) /\ UNCHANGED trouble
      <4>1. MarkOf(key) \in Marks
        BY DEF MarkOf, Marks
      <4>2. backlog' \in Seq(Marks)
        BY <3>1, <4>1 DEF Keep, TypeOK
      <4> QED
        BY <1>7, <3>1, <4>2 DEF HaveOutput, Keep, TypeOK
    <3>2. CASE Overflow(key) /\ Disturb
      <4>1. << >> \in Seq(Marks) /\ <<"I">> \in Seq(Marks)
        BY EmptySeq DEF Marks
      <4>2. backlog' \in Seq(Marks)
        BY <3>2, <4>1 DEF Overflow
      <4> QED
        BY <1>7, <3>2, <4>2 DEF HaveOutput, Overflow, Disturb, TypeOK
    <3> QED
      BY <1>7, <3>1, <3>2 DEF HaveOutput
  <2> QED
    BY <1>7, <2>1, <2>2 DEF HaveOutput, Leave, TypeOK
<1>8. CASE OutputLost
  <2>1. mft' \in Seq({"I", "P"})
    BY <1>8, BoundsAssumption DEF OutputLost, Leave, TypeOK
  <2> QED
    BY <1>8, <2>1 DEF OutputLost, Leave, Disturb, TypeOK
<1>9. CASE SendPacket
  <2>1. wire' \in Seq(Marks) /\ backlog' \in Seq(Marks)
    BY <1>9 DEF SendPacket, Send, TypeOK
  <2> QED
    BY <1>9, <2>1 DEF SendPacket, Send, TypeOK
<1>10. CASE Receive
  <2>1. wire' \in Seq(Marks) /\ Head(wire) \in Marks
    BY <1>10 DEF Receive, TypeOK
  <2>2. \A m \in Marks : Decoded(m) \in {"good", "torn", "lost"}
    BY DEF Decoded, Marks, TypeOK
  <2>3. picture' \in {"good", "torn", "lost"} /\ trouble' \in Nat
    BY <1>10, <2>1, <2>2 DEF Receive, Disturb, TypeOK
  <2>4. awaiting' \in BOOLEAN /\ suppressed' \in BOOLEAN /\ asks' \in Nat
    <3>1. \A m \in Marks : AskOrNot(m) =>
            awaiting' \in BOOLEAN /\ suppressed' \in BOOLEAN /\ asks' \in Nat
      <4>1. SUFFICES ASSUME NEW m \in Marks, AskOrNot(m)
                     PROVE  awaiting' \in BOOLEAN /\ suppressed' \in BOOLEAN /\ asks' \in Nat
        OBVIOUS
      <4>2. CASE asks' = asks + 1 /\ suppressed' = TRUE /\ awaiting' = TRUE
        BY <4>2 DEF TypeOK
      <4>3. CASE awaiting' = (awaiting /\ m # "I") /\ UNCHANGED <<asks, suppressed>>
        BY <4>3 DEF TypeOK
      <4> QED
        BY <4>1, <4>2, <4>3 DEF AskOrNot
    <3>2. CASE UNCHANGED <<asks, suppressed>> /\ awaiting' = (awaiting /\ Head(wire) # "I")
      BY <3>2 DEF TypeOK
    <3> QED
      BY <1>10, <2>1, <3>1, <3>2 DEF Receive
  <2> QED
    BY <1>10, <2>1, <2>3, <2>4 DEF Receive, TypeOK
<1>11. CASE AskArrives
  BY <1>11 DEF AskArrives, TypeOK
<1>12. CASE ConnectionFails
  BY <1>12 DEF ConnectionFails, Fail, TypeOK
<1>13. CASE KeyframeIntervalPasses
  <2>1. throttled' \in BOOLEAN
    BY <1>13 DEF KeyframeIntervalPasses
  <2>2. UNCHANGED <<queueVars, pc, keyframe_pending, pacerVars, mftVars, wire,
                    rxVars, asks, keyframe_requested, slipped, trouble>>
    BY <1>13 DEF KeyframeIntervalPasses
  <2> QED
    BY <2>1, <2>2 DEF TypeOK
<1>14. CASE ResyncWindowPasses
  <2>1. suppressed' \in BOOLEAN
    BY <1>14 DEF ResyncWindowPasses
  <2>2. UNCHANGED <<queueVars, loopVars, pacerVars, mftVars, wire, picture,
                    awaiting, asks, keyframe_requested, slipped, trouble>>
    BY <1>14 DEF ResyncWindowPasses
  <2> QED
    BY <2>1, <2>2 DEF TypeOK
<1>15. CASE UNCHANGED vars
  BY <1>15 DEF vars, TypeOK
<1> QED
  BY <1>1, <1>2, <1>3, <1>4, <1>5, <1>6, <1>7, <1>8, <1>9, <1>10, <1>11, <1>12,
     <1>13, <1>14, <1>15 DEF Next, Loop, Encoder, Link, Time
-----------------------------------------------------------------------------
Promises == TypeOK /\ NoSilentGap /\ RequestNeverLost

(* A step that leaves the stream, the picture and the asking alone, and no *)
(* fewer requests outstanding.                                             *)
LEMMA StreamUntouched ==
  ASSUME Promises,
         UNCHANGED <<mft, backlog, gap, wire, picture, awaiting, slipped, dead>>,
         resync \/ keyframe_pending \/ force =>
           resync' \/ keyframe_pending' \/ force',
         asks > 0 \/ keyframe_requested =>
           asks' > 0 \/ keyframe_requested' \/ resync' \/ keyframe_pending' \/ force'
  PROVE  NoSilentGap' /\ RequestNeverLost'
<1>1. \A b \in BOOLEAN : StaysTorn(b)' <=> StaysTorn(b)
  BY DEF StaysTorn
<1>2. StaysTorn(TRUE)' <=> StaysTorn(TRUE)
  BY DEF StaysTorn
<1>3. StaysTorn(picture = "torn")' <=> StaysTorn(picture = "torn")
  BY DEF StaysTorn
<1> QED
  BY <1>2, <1>3 DEF Promises, NoSilentGap, RequestNeverLost

(* A frame enters the MFT: a keyframe there mends whatever came before. *)
LEMMA FeedStep ==
  ASSUME Promises, Fed,
         UNCHANGED <<backlog, gap, wire, picture, awaiting, slipped, dead, resync,
                     keyframe_pending, asks, keyframe_requested>>
  PROVE  NoSilentGap' /\ RequestNeverLost'
<1> DEFINE m == Frame
<1>1. mft' = Append(mft, m) /\ mft \in Seq(Marks) /\ m \in Marks /\ m # "G" /\ (force <=> m = "I")
  BY DEF Fed, Frame, Promises, TypeOK, Marks
<1>2. (NoKey(mft)' <=> m # "I" /\ NoKey(mft)) /\ (Torn(mft)' <=> m # "I" /\ Torn(mft))
  BY <1>1, MarkAppended
<1>3. StaysTorn(TRUE)' => ~force /\ StaysTorn(TRUE)
  BY <1>1, <1>2 DEF StaysTorn, TornAfter
<1>4. StaysTorn(picture = "torn")' => ~force /\ StaysTorn(picture = "torn")
  BY <1>1, <1>2 DEF StaysTorn, TornAfter
<1> QED
  BY <1>3, <1>4 DEF Promises, NoSilentGap, RequestNeverLost, Fed

(* A frame leaves the MFT: it is queued, or given up together with a wish. *)
LEMMA OutputStep == Promises /\ HaveOutput => NoSilentGap' /\ RequestNeverLost'
<1> SUFFICES ASSUME Promises, HaveOutput PROVE NoSilentGap' /\ RequestNeverLost'
  OBVIOUS
<1> DEFINE key == Head(mft) = "I"
<1>1. /\ mft' = Tail(mft) /\ mft # << >> /\ mft \in Seq(Marks) /\ backlog \in Seq(Marks)
      /\ mft \in Seq({"I", "P"}) /\ mft' \in Seq({"I", "P"})
      /\ Head(mft) \in {"I", "P"} /\ gap \in BOOLEAN
  BY BoundsAssumption DEF HaveOutput, Leave, Promises, TypeOK, QueueTypeOK, Marks
<1>2. /\ ~Torn(mft) /\ ~Torn(mft')
      /\ NoKey(mft) <=> ~key /\ NoKey(mft')
  BY <1>1, MarkTaken, ShortStretches
<1>3. /\ UNCHANGED <<wire, picture, awaiting, dead, keyframe_pending, force, asks,
                     keyframe_requested>>
      /\ slipped' = (slipped /\ ~key)
      /\ ~dead
  BY DEF HaveOutput, loopVars, rxVars, Keep, Overflow
<1>4. CASE Overflow(key) /\ ~key
  BY <1>4 DEF Overflow, NoSilentGap, RequestNeverLost
<1>5. ASSUME key, Keep(key) \/ Overflow(key)
      PROVE  ~StaysTorn(TRUE)' /\ ~StaysTorn(picture = "torn")'
  <2>1. ~gap' /\ ~NoKey(backlog') /\ ~Torn(backlog')
    <3>1. CASE Keep(key)
      <4>1. backlog' = Append(backlog, "I") /\ ~gap'
        BY <1>5, <3>1 DEF Keep, MarkOf
      <4> QED
        BY <1>1, <4>1, MarkAppended DEF Marks
    <3>2. CASE Overflow(key)
      BY <1>5, <3>2, ShortStretches DEF Overflow
    <3> QED
      BY <1>5, <3>1, <3>2
  <2> QED
    BY <1>2, <2>1 DEF StaysTorn, TornAfter
<1>6. ASSUME ~key, Keep(key)
      PROVE  /\ StaysTorn(TRUE)' => StaysTorn(TRUE)
             /\ StaysTorn(picture = "torn")' => StaysTorn(picture = "torn")
             /\ UNCHANGED resync
  <2>1. /\ backlog' = Append(backlog, IF gap THEN "G" ELSE "P") /\ ~gap'
        /\ UNCHANGED resync
    BY <1>6 DEF Keep, MarkOf
  <2>2. /\ NoKey(backlog') <=> NoKey(backlog)
        /\ Torn(backlog') <=> gap \/ Torn(backlog)
    BY <1>1, <2>1, MarkAppended DEF Marks
  <2> QED
    BY <1>2, <1>3, <1>6, <2>1, <2>2 DEF StaysTorn, TornAfter
<1>7. Keep(key) \/ Overflow(key)
  BY DEF HaveOutput
<1> QED
  BY <1>3, <1>4, <1>5, <1>6, <1>7 DEF Promises, NoSilentGap, RequestNeverLost

(* A mark moves from the queue to the socket. *)
LEMMA SendStep == Promises /\ SendPacket => NoSilentGap' /\ RequestNeverLost'
<1> SUFFICES ASSUME Promises, SendPacket PROVE NoSilentGap' /\ RequestNeverLost'
  OBVIOUS
<1> DEFINE m == Head(backlog)
<1>1. /\ backlog \in Seq(Marks) /\ backlog # << >> /\ wire \in Seq(Marks)
      /\ backlog' = Tail(backlog) /\ wire' = Append(wire, m)
      /\ UNCHANGED <<mft, gap, resync, dead, picture, awaiting, slipped, asks,
                     keyframe_pending, force, keyframe_requested>>
  BY DEF SendPacket, Send, Promises, TypeOK, QueueTypeOK, loopVars, mftVars, pipeVars, rxVars
<1>2. /\ m \in Marks
      /\ NoKey(backlog) <=> m # "I" /\ NoKey(backlog')
      /\ Torn(backlog) <=> Torn(backlog') \/ (m = "G" /\ NoKey(backlog'))
  BY <1>1, MarkTaken
<1>3. /\ NoKey(wire') <=> m # "I" /\ NoKey(wire)
      /\ Torn(wire') <=> m = "G" \/ (m # "I" /\ Torn(wire))
  BY <1>1, <1>2, MarkAppended
<1>4. StaysTorn(TRUE)' <=> StaysTorn(TRUE)
  BY <1>1, <1>2, <1>3 DEF StaysTorn, TornAfter
<1>5. StaysTorn(picture = "torn")' <=> StaysTorn(picture = "torn")
  BY <1>1, <1>2, <1>3 DEF StaysTorn, TornAfter
<1> QED
  BY <1>1, <1>4, <1>5 DEF Promises, NoSilentGap, RequestNeverLost

(* A mark leaves the socket and acts on the picture. *)
LEMMA ReceiveStep == Promises /\ Receive => NoSilentGap' /\ RequestNeverLost'
<1> SUFFICES ASSUME Promises, Receive PROVE NoSilentGap' /\ RequestNeverLost'
  OBVIOUS
<1> DEFINE m == Head(wire)
<1>1. /\ wire \in Seq(Marks) /\ wire # << >> /\ wire' = Tail(wire)
      /\ UNCHANGED <<mft, backlog, gap, resync, dead, slipped, keyframe_pending,
                     force, keyframe_requested>>
      /\ asks \in Nat
  BY DEF Receive, Promises, TypeOK, queueVars, loopVars, mftVars, pipeVars
<1>2. /\ m \in Marks
      /\ NoKey(wire) <=> m # "I" /\ NoKey(wire')
      /\ Torn(wire) <=> Torn(wire') \/ (m = "G" /\ NoKey(wire'))
  BY <1>1, MarkTaken
<1>3. picture' = "torn" => m # "I" /\ (m = "G" \/ picture = "torn")
  BY <1>2 DEF Receive, Decoded, Marks
<1>4. \/ awaiting' /\ asks' > 0
      \/ awaiting' = (awaiting /\ m # "I") /\ asks' = asks
  BY <1>1 DEF Receive, AskOrNot
<1>5. StaysTorn(picture = "torn")' => StaysTorn(picture = "torn")
  BY <1>1, <1>2, <1>3 DEF StaysTorn, TornAfter
<1>6. m # "I" /\ StaysTorn(TRUE)' => StaysTorn(TRUE)
  BY <1>1, <1>2 DEF StaysTorn, TornAfter
<1> QED
  BY <1>1, <1>4, <1>5, <1>6 DEF Promises, NoSilentGap, RequestNeverLost

(* Every action keeps the two promises. *)
LEMMA PromisesStep == Promises /\ [Next]_vars => NoSilentGap' /\ RequestNeverLost'
<1> SUFFICES ASSUME Promises, [Next]_vars PROVE NoSilentGap' /\ RequestNeverLost'
  OBVIOUS
<1> USE DEF queueVars, loopVars, pacerVars, mftVars, pipeVars, rxVars
<1>1. CASE NewFrame
  BY <1>1, StreamUntouched DEF NewFrame
<1>2. CASE LoopTop
  <2>1. resync \/ keyframe_pending \/ force \/ keyframe_requested =>
          keyframe_pending' \/ force'
    BY <1>2 DEF LoopTop, CollectRequests, Collect
  <2>2. UNCHANGED <<mft, backlog, gap, wire, picture, awaiting, slipped, dead, asks>>
    BY <1>2 DEF LoopTop
  <2> QED
    BY <2>1, <2>2, StreamUntouched
<1>3. CASE NoSlot
  BY <1>3, StreamUntouched DEF NoSlot
<1>4. CASE Submit
  <2>1. UNCHANGED <<backlog, gap, wire, picture, awaiting, slipped, dead, resync,
                    keyframe_pending, asks, keyframe_requested>>
    BY <1>4 DEF Submit, TakeSlot
  <2>2. Fed \/ UNCHANGED <<mft, force>>
    BY <1>4, PipeFed DEF Submit, Promises
  <2> QED
    BY <2>1, <2>2, FeedStep, StreamUntouched
<1>5. CASE DroppedPreEncode
  BY <1>5, StreamUntouched DEF DroppedPreEncode, TakeSlot
<1>6. CASE NeedInput
  <2>1. UNCHANGED <<backlog, gap, wire, picture, awaiting, slipped, dead, resync,
                    keyframe_pending, asks, keyframe_requested>>
    BY <1>6 DEF NeedInput
  <2>2. Fed \/ UNCHANGED <<mft, force>>
    BY <1>6, PipeFed DEF NeedInput, Promises
  <2> QED
    BY <2>1, <2>2, FeedStep, StreamUntouched
<1>7. CASE OutputLost
  BY <1>7 DEF OutputLost, NoSilentGap, RequestNeverLost
<1>8. CASE AskArrives
  BY <1>8, StreamUntouched DEF AskArrives
<1>9. CASE ConnectionFails
  BY <1>9 DEF ConnectionFails, Fail, NoSilentGap, RequestNeverLost
<1>10. CASE KeyframeIntervalPasses
  BY <1>10, StreamUntouched DEF KeyframeIntervalPasses
<1>11. CASE ResyncWindowPasses
  BY <1>11, StreamUntouched DEF ResyncWindowPasses
<1>12. CASE UNCHANGED vars
  BY <1>12, StreamUntouched DEF vars
<1> QED
  BY <1>1, <1>2, <1>3, <1>4, <1>5, <1>6, <1>7, <1>8, <1>9, <1>10, <1>11, <1>12,
     OutputStep, SendStep, ReceiveStep DEF Next, Loop, Encoder, Link, Time

(* A fresh connection has its first keyframe asked for. *)
LEMMA InitPromises == Init => Promises
  BY InitType DEF Init, PipeInit, Promises, NoSilentGap, RequestNeverLost
-----------------------------------------------------------------------------
(* The three hold in every reachable state. *)
THEOREM PromisesHold == Spec => []Promises
<1>1. Promises /\ [Next]_vars => Promises'
  BY TypeStep, PromisesStep DEF Promises
<1> QED
  BY InitPromises, <1>1, PTL DEF Spec

(* Every variable keeps its type; the duplicate budget in particular stays *)
(* within kMaxFlushResubmits.                                              *)
THEOREM StreamTyped == Spec => []TypeOK
  BY PromisesHold, PTL DEF Promises

(* However the queue overflows against the encoder, the throttle and the   *)
(* run loop's two request flags, a gap it leaves is never silent: the      *)
(* sender holds a request until a keyframe is encoded behind the gap.      *)
THEOREM NoGapIsSilent == Spec => []NoSilentGap
  BY PromisesHold, PTL DEF Promises

(* From the receiver's side of the same: once it has asked, its request    *)
(* exists somewhere until the keyframe that answers it is on its way.      *)
THEOREM NoRequestIsLost == Spec => []RequestNeverLost
  BY PromisesHold, PTL DEF Promises
-----------------------------------------------------------------------------
(* Where the pipe moves, it moves as it promises. *)
LEMMA StreamMovesPipe == [Next]_vars => [PipeNext({"I", "P"})]_pipeVars
<1> SUFFICES ASSUME [Next]_vars PROVE [PipeNext({"I", "P"})]_pipeVars
  OBVIOUS
<1> USE DEF mftVars
<1>1. Frame \in {"I", "P"}
  BY DEF Frame
<1>2. CASE Submit
  BY <1>1, <1>2 DEF Submit, PipeNext
<1>3. CASE NeedInput
  BY <1>1, <1>3 DEF NeedInput, AnswerNeed, PipeNext
<1>4. CASE HaveOutput \/ OutputLost
  BY <1>4 DEF HaveOutput, OutputLost, PipeNext
<1>5. CASE LoopTop
  BY <1>5 DEF LoopTop, pipeVars
<1>6. CASE \/ NewFrame \/ NoSlot \/ DroppedPreEncode \/ Link \/ Time \/ UNCHANGED vars
  BY <1>6 DEF NewFrame, NoSlot, DroppedPreEncode, TakeSlot, Link, SendPacket, Receive,
              AskArrives, ConnectionFails, Time, KeyframeIntervalPasses,
              ResyncWindowPasses, vars
<1> QED
  BY <1>2, <1>3, <1>4, <1>5, <1>6 DEF Next, Loop, Encoder

(* Where the queue, its wish or its end move, they move as it promises. *)
LEMMA StreamMovesQueue == TypeOK /\ [Next]_vars => [QueueNext]_<<backlog, resync, dead>>
<1> SUFFICES ASSUME TypeOK, [Next]_vars PROVE [QueueNext]_<<backlog, resync, dead>>
  OBVIOUS
<1> USE DEF queueVars
<1>1. CASE HaveOutput
  <2>1. PICK key \in BOOLEAN : Keep(key) \/ Overflow(key)
    BY <1>1 DEF HaveOutput
  <2> QED
    BY <2>1 DEF Offer, QueueNext
<1>2. CASE SendPacket
  BY <1>2 DEF SendPacket, QueueNext
<1>3. CASE LoopTop
  BY <1>3 DEF LoopTop, CollectRequests, TakeResync, QueueNext
<1>4. CASE ConnectionFails
  BY <1>4 DEF ConnectionFails, QueueNext
<1>5. CASE OutputLost
  BY <1>5 DEF OutputLost
<1>6. CASE \/ NewFrame \/ NoSlot \/ Submit \/ DroppedPreEncode \/ NeedInput \/ Receive
           \/ AskArrives \/ Time \/ UNCHANGED vars
  BY <1>6 DEF NewFrame, NoSlot, Submit, DroppedPreEncode, TakeSlot, NeedInput, Receive,
              AskArrives, Time, KeyframeIntervalPasses, ResyncWindowPasses, vars
<1> QED
  BY <1>1, <1>2, <1>3, <1>4, <1>5, <1>6 DEF Next, Loop, Encoder, Link

(* Where the mailbox, the frame in hand or the budget move, they move as   *)
(* the pacer promises; a pass of the loop takes whatever is waiting.       *)
LEMMA StreamMovesPacer == TypeOK /\ [Next]_vars => [PacerNext]_pacerVars
<1> SUFFICES ASSUME TypeOK, [Next]_vars PROVE [PacerNext]_pacerVars
  OBVIOUS
<1>1. CASE NewFrame
  BY <1>1 DEF NewFrame, PacerNext
<1>2. CASE NoSlot \/ Submit \/ DroppedPreEncode
  <2>1. Pass(mailbox) \/ Grant(mailbox)
    BY <1>2 DEF NoSlot, Submit, DroppedPreEncode, TakeSlot
  <2> QED
    BY <2>1 DEF PacerNext
<1>3. CASE LoopTop \/ Encoder \/ Link \/ Time \/ UNCHANGED vars
  BY <1>3 DEF LoopTop, Encoder, NeedInput, HaveOutput, OutputLost, Link, SendPacket,
              Receive, AskArrives, ConnectionFails, Time, KeyframeIntervalPasses,
              ResyncWindowPasses, vars
<1> QED
  BY <1>1, <1>2, <1>3 DEF Next, Loop

(* The stream leaves its three components to their promises: everything    *)
(* main.cpp's loop sees of the pacer, the encoder and the queue is a step  *)
(* their promises allow (FramePacerProofs, EncoderProofs and               *)
(* PacketSenderProofs show that the code keeps them), except that the      *)
(* stream also knows of a gap before the queue, when on_have_output loses  *)
(* a frame.                                                                *)
THEOREM StreamWithinPromises ==
  Spec => /\ PacerInit /\ [][PacerNext]_pacerVars
          /\ PipeInit /\ [][PipeNext({"I", "P"})]_pipeVars
          /\ QueueInit /\ [][QueueNext]_<<backlog, resync, dead>>
<1>1. Init => PacerInit /\ PipeInit /\ QueueInit
  BY DEF Init
<1> QED
  BY <1>1, StreamMovesPacer, StreamMovesPipe, StreamMovesQueue, StreamTyped, PTL DEF Spec
=============================================================================
