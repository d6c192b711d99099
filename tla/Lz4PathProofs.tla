---------------------------- MODULE Lz4PathProofs ----------------------------
(***************************************************************************)
(* The lossless path forgets nothing, for any set of regions and any       *)
(* number of changes and failures.                                         *)
(***************************************************************************)
EXTENDS Lz4Path, TLAPS

Image == [Regions -> Nat]
Frames == [pixels : Image, rects : SUBSET Regions]

TypeOK ==
  /\ screen \in [Regions -> Nat \ {0}]
  /\ dirty \in SUBSET Regions /\ forgotten \in SUBSET Regions
  /\ hand \in Frames /\ mailbox \in Frames /\ last \in Frames
  /\ wire \in Image /\ batch \in Image /\ image \in Image

(* A region is owed by a stage as long as an earlier one still has to      *)
(* bring it.                                                               *)
Unseen == Pending \cup forgotten
Unqueued == Unseen \cup hand.rects
Untaken == Unqueued \cup mailbox.rects

(* Outside what is owed to it, each stage has the screen. *)
HandRight == cap = "push" => \A r \in Regions \ Pending : hand.pixels[r] = screen[r]

MailboxRight ==
  mailbox # NoFrame => \A r \in Regions \ Unqueued : mailbox.pixels[r] = screen[r]

LastRight == last # NoFrame => \A r \in Regions \ Untaken : last.pixels[r] = screen[r]

Sending(r) == run = "send" /\ r \in last.rects

WireRight ==
  link = "up" /\ ~need_keyframe =>
    \A r \in Regions \ Untaken :
      ~Sending(r) => Over(wire, Over(batch, image))[r] = screen[r]

(* Before there is a last frame everything is owed to it. *)
Places ==
  /\ cap # "push" => hand = NoFrame
  /\ run = "send" => last # NoFrame
  /\ last = NoFrame => Regions \subseteq Untaken

IInv == TypeOK /\ Places /\ HandRight /\ MailboxRight /\ LastRight /\ WireRight
-----------------------------------------------------------------------------
(* Nothing at all is an image, and a frame without rectangles. *)
LEMMA Blanks == Blank \in Image /\ NoFrame \in Frames /\ NoFrame.rects = {}
BY DEF Blank, Image, NoFrame, Frames

(* Over is what it says, region by region. *)
LEMMA OverIs ==
  ASSUME NEW a \in Image, NEW b \in Image
  PROVE  /\ Over(a, b) \in Image
         /\ \A r \in Regions : Over(a, b)[r] = IF a[r] # 0 THEN a[r] ELSE b[r]
BY DEF Over, Image

(* Before the first frame everything is owed to everybody. *)
LEMMA InitIInv == Init => IInv
<1> SUFFICES ASSUME Init PROVE IInv
  OBVIOUS
<1>1. TypeOK
  BY Blanks DEF Init, TypeOK
<1>2. Places
  BY DEF Init, Places, Untaken, Unqueued, Unseen, Pending
<1>3. HandRight /\ MailboxRight /\ LastRight /\ WireRight
  BY DEF Init, HandRight, MailboxRight, LastRight, WireRight
<1> QED
  BY <1>1, <1>2, <1>3 DEF IInv
-----------------------------------------------------------------------------
(* A change is owed to everything that has the old pixels. *)
LEMMA ChangeStep ==
  ASSUME IInv, NEW c \in Regions, Change(c)
  PROVE  IInv'
<1> USE DEF runVars, receiverVars
<1>1. TypeOK'
  BY DEF IInv, Change, TypeOK
<1>2. /\ screen \in [Regions -> Nat \ {0}]
      /\ \A r \in Regions \ {c} : screen'[r] = screen[r]
  BY DEF IInv, Change, TypeOK
<1>3. Pending' = Pending \cup {c}
  BY DEF IInv, Change, Pending, TypeOK
<1>4. /\ Unseen' = Unseen \cup {c} /\ Unqueued' = Unqueued \cup {c}
      /\ Untaken' = Untaken \cup {c}
  BY <1>3 DEF Change, Unseen, Unqueued, Untaken
<1>5. Places'
  BY <1>4 DEF IInv, Change, Places
<1>6. HandRight' /\ MailboxRight' /\ LastRight'
  BY <1>2, <1>3, <1>4 DEF IInv, Change, HandRight, MailboxRight, LastRight
<1>7. WireRight'
  <2>1. UNCHANGED <<link, need_keyframe, run, last, wire, batch, image>>
    BY DEF Change
  <2>2. Over(wire, Over(batch, image))' = Over(wire, Over(batch, image))
    BY <2>1 DEF Over
  <2> QED
    BY <1>2, <1>4, <2>1, <2>2 DEF IInv, WireRight, Sending
<1> QED
  BY <1>1, <1>5, <1>6, <1>7 DEF IInv
-----------------------------------------------------------------------------
(* The capture thread passes on what it owes; nothing else changes hands.  *)
LEMMA Elsewhere ==
  ASSUME IInv, UNCHANGED <<screen, runVars, link, wire, receiverVars>>,
         Untaken \subseteq Untaken'
  PROVE  LastRight' /\ WireRight'
<1> USE DEF runVars, receiverVars
<1>1. Over(wire, Over(batch, image))' = Over(wire, Over(batch, image))
  BY DEF Over
<1> QED
  BY <1>1 DEF IInv, LastRight, WireRight, Sending

(* Looking at the gate, and an acquire without news, move no pixels. *)
LEMMA PassStep ==
  ASSUME IInv, PassGate \/ NothingNew
  PROVE  IInv'
<1>1. UNCHANGED <<screen, dirty, first_frame, hand, forgotten, mailbox, runVars, link,
                  wire, receiverVars>> /\ cap # "push" /\ cap' # "push"
  BY DEF PassGate, NothingNew
<1>2. Pending' = Pending /\ Unqueued' = Unqueued /\ Untaken' = Untaken
  BY <1>1 DEF Pending, Unseen, Unqueued, Untaken
<1>3. TypeOK' /\ Places' /\ HandRight' /\ MailboxRight'
  BY <1>1, <1>2
  DEF IInv, TypeOK, Places, HandRight, MailboxRight, runVars, receiverVars
<1> QED
  BY <1>1, <1>2, <1>3, Elsewhere DEF IInv

(* A frame from DXGI: what was owed by it is in its rectangles now. *)
LEMMA NextFrameStep ==
  ASSUME IInv, NextFrame
  PROVE  IInv'
<1> USE DEF runVars, receiverVars
<1>1. hand = NoFrame /\ hand.rects = {}
  BY Blanks DEF IInv, Places, NextFrame
<1>2. Pending \subseteq Regions
  BY DEF IInv, TypeOK, Pending
<1>3. TypeOK'
  BY <1>2 DEF IInv, TypeOK, NextFrame, Report, Frames, Image
<1>4. hand'.pixels = screen /\ hand'.rects = Pending /\ Pending' = {}
  BY DEF NextFrame, Report, Pending
<1>5. Unqueued' = Unqueued /\ Untaken' = Untaken
  BY <1>1, <1>4 DEF Unseen, Unqueued, Untaken, NextFrame
<1>6. Places'
  BY <1>5 DEF IInv, Places, NextFrame
<1>7. HandRight' /\ MailboxRight'
  BY <1>4, <1>5 DEF IInv, HandRight, MailboxRight, NextFrame
<1> QED
  BY <1>3, <1>5, <1>6, <1>7, Elsewhere DEF IInv, NextFrame

(* A readback or a duplication lost: what it owed is forgotten or owed again. *)
LEMMA LossStep ==
  ASSUME IInv, ReadbackFails \/ AccessLost
  PROVE  IInv'
<1> USE DEF runVars, receiverVars, ReadbackFails, AccessLost
<1>1. cap = "acquire" /\ cap' = "gate"
  OBVIOUS
<1>2. TypeOK'
  BY DEF IInv, TypeOK
<1>3. Unseen \subseteq Unseen'
  BY DEF IInv, TypeOK, Unseen, Pending
<1>4. Unqueued \subseteq Unqueued' /\ Untaken \subseteq Untaken'
  BY <1>3 DEF Unqueued, Untaken
<1>5. Places' /\ HandRight' /\ MailboxRight'
  BY <1>1, <1>4 DEF IInv, Places, HandRight, MailboxRight
<1> QED
  BY <1>2, <1>4, <1>5, Elsewhere DEF IInv

(* The merge takes over the rectangles of the frame it replaces. *)
LEMMA PushStep ==
  ASSUME IInv, Push
  PROVE  IInv'
<1> USE DEF runVars, receiverVars
<1>1. PICK rects \in MergedRects(hand.rects, mailbox.rects) :
        mailbox' = [pixels |-> hand.pixels, rects |-> rects]
  BY DEF Push
<1>2. rects \subseteq Regions /\ hand.rects \cup mailbox.rects \subseteq rects
  BY DEF MergedRects, IInv, TypeOK, Frames
<1>3. TypeOK'
  BY <1>1, <1>2, Blanks DEF IInv, TypeOK, Push, Frames
<1>4. hand'.rects = {} /\ mailbox'.rects = rects /\ mailbox'.pixels = hand.pixels
  BY <1>1, Blanks DEF Push
<1>5. Pending' = Pending /\ Unseen' = Unseen
  BY DEF Push, Pending, Unseen
<1>6. Unqueued' = Unseen /\ Untaken \subseteq Untaken'
  BY <1>2, <1>4, <1>5 DEF Unqueued, Untaken
<1>7. Places' /\ HandRight'
  BY <1>6 DEF IInv, Places, HandRight, Push
<1>8. MailboxRight'
  BY <1>4, <1>6 DEF IInv, HandRight, MailboxRight, Push, Unseen
<1> QED
  BY <1>3, <1>6, <1>7, <1>8, Elsewhere DEF IInv, Push
-----------------------------------------------------------------------------
(* The sending thread's steps leave the capture thread's alone. *)
LEMMA CaptureElsewhere ==
  ASSUME IInv, UNCHANGED <<screen, captureVars, mailbox>>
  PROVE  /\ HandRight' /\ MailboxRight'
         /\ Pending' = Pending /\ Unqueued' = Unqueued /\ Untaken' = Untaken
<1>1. Pending' = Pending /\ Unqueued' = Unqueued /\ Untaken' = Untaken
  BY DEF captureVars, Pending, Unseen, Unqueued, Untaken
<1> QED
  BY <1>1 DEF IInv, HandRight, MailboxRight, captureVars

(* The loop takes what is in the mailbox; it adds to the rectangles owed. *)
LEMMA PopStep ==
  ASSUME IInv, Pop
  PROVE  IInv'
<1> USE DEF runElse, captureVars, receiverVars
<1>1. TypeOK'
  BY Blanks DEF IInv, TypeOK, Pop
<1>2. last' = mailbox /\ mailbox # NoFrame /\ mailbox'.rects = {} /\ mailbox' = NoFrame
  BY Blanks DEF Pop
<1>3. Pending' = Pending /\ Unqueued' = Unqueued /\ Untaken' = Unqueued
  BY <1>2 DEF Pop, Pending, Unseen, Unqueued, Untaken
<1>4. Places' /\ HandRight' /\ MailboxRight'
  BY <1>2, <1>3 DEF IInv, Places, HandRight, MailboxRight, Pop
<1>5. LastRight'
  BY <1>2, <1>3 DEF IInv, MailboxRight, LastRight, Pop
<1>6. WireRight'
  <2>1. Over(wire, Over(batch, image))' = Over(wire, Over(batch, image))
    BY DEF Over, Pop
  <2>2. \A r \in Regions : ~Sending(r)' /\ r \notin Untaken' => r \notin Untaken /\ ~Sending(r)
    BY <1>2, <1>3 DEF Sending, Untaken, Pop
  <2> QED
    BY <2>1, <2>2 DEF IInv, WireRight, Pop
<1> QED
  BY <1>1, <1>4, <1>5, <1>6 DEF IInv

(* A frame sent: its rectangles, or all of it, are on the wire. *)
LEMMA SendStep ==
  ASSUME IInv, Send
  PROVE  IInv'
<1> USE DEF runElse, captureVars, receiverVars
<1>1. UNCHANGED <<screen, captureVars, mailbox, last, link, batch, image>>
  BY DEF Send
<1>2. /\ HandRight' /\ MailboxRight'
      /\ Pending' = Pending /\ Unqueued' = Unqueued /\ Untaken' = Untaken
  BY <1>1, CaptureElsewhere
<1>3. TypeOK'
  BY DEF IInv, TypeOK, Send, Image, Frames
<1>4. Places' /\ LastRight'
  BY <1>1, <1>2 DEF IInv, Places, LastRight, Send
<1>5. WireRight'
  <2> SUFFICES ASSUME link = "up", NEW r \in Regions \ Untaken
               PROVE  Over(wire', Over(batch, image))[r] = screen[r]
    BY <1>1, <1>2 DEF WireRight, Over
  <2>1. wire = Blank /\ wire'[r] = IF r \in SendRects THEN last.pixels[r] ELSE 0
    BY DEF Send
  <2>2. Over(batch, image) \in Image /\ wire \in Image /\ wire' \in Image
    BY <1>3, OverIs DEF IInv, TypeOK
  <2>3. Over(wire', Over(batch, image))[r] =
          IF wire'[r] # 0 THEN wire'[r] ELSE Over(batch, image)[r]
    BY <2>2, OverIs
  <2>4. Over(wire, Over(batch, image))[r] = Over(batch, image)[r]
    BY <2>1, <2>2, OverIs DEF Blank
  <2>5. CASE r \in SendRects
    <3>1. last.pixels[r] = screen[r] /\ screen[r] # 0
      BY DEF IInv, LastRight, Places, TypeOK, Send
    <3> QED
      BY <2>1, <2>3, <2>5, <3>1
  <2>6. CASE r \notin SendRects
    <3>1. ~need_keyframe /\ ~Sending(r)
      BY <2>6 DEF SendRects, Sending
    <3>2. Over(batch, image)[r] = screen[r]
      BY <2>4, <3>1 DEF IInv, WireRight
    <3> QED
      BY <2>1, <2>3, <2>6, <3>2
  <2> QED
    BY <2>5, <2>6
<1> QED
  BY <1>2, <1>3, <1>4, <1>5 DEF IInv

(* Clients come and go: a new one is owed everything (need_keyframe). *)
LEMMA ClientStep ==
  ASSUME IInv, Accept \/ OpenGate \/ SendFails \/ Cut \/ ReceiverLeaves
  PROVE  IInv'
<1> USE DEF runElse, captureVars, runVars, receiverVars, Accept, OpenGate, SendFails,
            Cut, ReceiverLeaves
<1>1. UNCHANGED <<screen, captureVars, mailbox, last>>
  OBVIOUS
<1>2. /\ HandRight' /\ MailboxRight'
      /\ Pending' = Pending /\ Unqueued' = Unqueued /\ Untaken' = Untaken
  BY <1>1, CaptureElsewhere
<1>3. TypeOK'
  BY Blanks DEF IInv, TypeOK
<1>4. Places' /\ LastRight'
  BY <1>1, <1>2 DEF IInv, Places, LastRight
<1>5. WireRight'
  <2>1. CASE OpenGate
    <3>1. Over(wire, Over(batch, image))' = Over(wire, Over(batch, image))
      BY <2>1 DEF Over
    <3> QED
      BY <1>1, <1>2, <2>1, <3>1 DEF IInv, WireRight, Sending
  <2>2. CASE link' # "up" \/ need_keyframe'
    BY <2>2 DEF WireRight
  <2> QED
    BY <2>1, <2>2
<1> QED
  BY <1>2, <1>3, <1>4, <1>5 DEF IInv

(* To merge and to apply change where the newest pixels are, not which.    *)
LEMMA ReceiveStep ==
  ASSUME IInv, Receive \/ Apply
  PROVE  IInv'
<1> USE DEF runElse, captureVars, runVars, receiverVars
<1>1. UNCHANGED <<screen, captureVars, mailbox, runVars, link>>
  BY DEF Receive, Apply
<1>2. /\ HandRight' /\ MailboxRight'
      /\ Pending' = Pending /\ Unqueued' = Unqueued /\ Untaken' = Untaken
  BY <1>1, CaptureElsewhere
<1>3. wire \in Image /\ batch \in Image /\ image \in Image
  BY DEF IInv, TypeOK
<1>4. wire' \in Image /\ batch' \in Image /\ image' \in Image
  BY <1>3, OverIs, Blanks DEF Receive, Apply, Merged
<1>5. TypeOK'
  BY <1>1, <1>4 DEF IInv, TypeOK
<1>6. Places' /\ LastRight'
  BY <1>1, <1>2 DEF IInv, Places, LastRight
<1>7. \A r \in Regions : Over(wire', Over(batch', image'))[r] =
                           Over(wire, Over(batch, image))[r]
  <2> TAKE r \in Regions
  <2>1. Over(batch, image) \in Image /\ Over(batch', image') \in Image
    BY <1>3, <1>4, OverIs
  <2>2. Over(wire', Over(batch', image'))[r] =
          IF wire'[r] # 0 THEN wire'[r]
          ELSE IF batch'[r] # 0 THEN batch'[r] ELSE image'[r]
    BY <1>4, <2>1, OverIs
  <2>3. Over(wire, Over(batch, image))[r] =
          IF wire[r] # 0 THEN wire[r]
          ELSE IF batch[r] # 0 THEN batch[r] ELSE image[r]
    BY <1>3, <2>1, OverIs
  <2>4. CASE Receive
    <3>1. /\ wire'[r] = 0 /\ image' = image
          /\ batch'[r] = IF wire[r] # 0 THEN wire[r] ELSE batch[r]
      BY <1>3, <2>4, OverIs DEF Receive, Merged, Blank
    <3> QED
      BY <2>2, <2>3, <3>1
  <2>5. CASE Apply
    <3>1. /\ batch'[r] = 0 /\ wire' = wire
          /\ image'[r] = IF batch[r] # 0 THEN batch[r] ELSE image[r]
      BY <1>3, <2>5, OverIs DEF Apply, Blank
    <3> QED
      BY <2>2, <2>3, <3>1
  <2> QED
    BY <2>4, <2>5
<1>8. WireRight'
  BY <1>1, <1>2, <1>7 DEF IInv, WireRight, Sending, Over
<1> QED
  BY <1>2, <1>5, <1>6, <1>8 DEF IInv
-----------------------------------------------------------------------------
(* Every step keeps the stages in agreement. *)
LEMMA NextIInv == IInv /\ [Next]_vars => IInv'
<1> SUFFICES ASSUME IInv, [Next]_vars PROVE IInv'
  OBVIOUS
<1>1. CASE UNCHANGED vars
  <2>1. UNCHANGED <<screen, captureVars, mailbox, runVars, link, wire, receiverVars>>
    BY <1>1 DEF vars
  <2>2. HandRight' /\ MailboxRight' /\ Untaken' = Untaken
    BY <2>1, CaptureElsewhere
  <2>3. LastRight' /\ WireRight'
    BY <2>1, <2>2, Elsewhere
  <2>4. TypeOK' /\ Places'
    BY <2>1, <2>2 DEF IInv, TypeOK, Places, captureVars, runVars, receiverVars
  <2> QED
    BY <2>2, <2>3, <2>4 DEF IInv
<1>2. CASE Next
  BY <1>2, ChangeStep, PassStep, NextFrameStep, LossStep, PushStep, PopStep, SendStep,
     ClientStep, ReceiveStep
  DEF Next, CaptureNext, RunNext, ReceiverNext
<1> QED
  BY <1>1, <1>2

(* Every stage of the path has the screen in it but for what it is owed. *)
THEOREM Lz4IInv == Spec => []IInv
BY InitIInv, NextIInv, PTL DEF Spec

(* What is on its way adds up to the screen: nothing is forgotten, for any *)
(* number of regions, whatever is merged, skipped or cut off.              *)
THEOREM NothingIsForgotten == Spec => []NothingForgotten
<1>1. IInv => NothingForgotten
  <2> SUFFICES ASSUME IInv, NEW r \in Regions \ (Pending \cup forgotten)
               PROVE  Coming(r) = screen[r]
    BY DEF NothingForgotten
  <2>1. CASE r \in hand.rects
    BY <2>1, Blanks DEF IInv, Places, HandRight, Coming
  <2>2. CASE r \notin hand.rects /\ r \in mailbox.rects
    BY <2>2, Blanks DEF IInv, MailboxRight, Coming, Unqueued, Unseen
  <2>3. CASE r \notin hand.rects /\ r \notin mailbox.rects
    <3>1. r \in Regions \ Untaken
      BY <2>3 DEF Untaken, Unqueued, Unseen
    <3>2. last.pixels[r] = screen[r]
      BY <3>1 DEF IInv, Places, LastRight
    <3>3. link = "up" /\ ~need_keyframe /\ ~Sending(r) =>
            Over(wire, Over(batch, image))[r] = screen[r]
      BY <3>1 DEF IInv, WireRight
    <3> QED
      BY <2>3, <3>2, <3>3 DEF Coming, Sending
  <2> QED
    BY <2>1, <2>2, <2>3
<1> QED
  BY Lz4IInv, <1>1, PTL
=============================================================================
