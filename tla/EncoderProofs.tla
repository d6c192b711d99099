--------------------------- MODULE EncoderProofs ---------------------------
(***************************************************************************)
(* Theorems about Encoder, for every MFT (any delay, any room), any number *)
(* of frames and any pattern of failing calls.                             *)
(* The last part shows that the two threads together are the pipe that     *)
(* EncoderPipe promises: the frames on their way to the sink are, at every *)
(* step, the old ones, one more at the end or one less at the front.       *)
(***************************************************************************)
EXTENDS Encoder, SequenceTheorems, TLAPS

(* While the event thread hands a frame over it is still in pending_, and  *)
(* unless the call failed it is the last one in.                           *)
HandingOver ==
  event = "handing" => pending # 0 /\ (mishaps = 0 => fed = pending)

(* The sink goes before the encoder, the encoder before the sender.        *)
Lifetimes ==
  /\ loop \in {"detached", "stopping", "joining", "done"} => ~sink
  /\ sink => sender

(* What pipeline_depth() has read is not below what those counters say     *)
(* now: queued_ only falls and emitted_ only rises while it reads.         *)
DepthBound ==
  /\ loop = "one" => depth >= queued
  /\ loop = "two" => depth >= queued - emitted

IInv ==
  /\ TypeOK /\ CountersExact /\ HandingOver /\ NoFrameWaitsOnCredit
  /\ NewestWins /\ SenderOutlivesSink /\ Lifetimes /\ DepthBound
-----------------------------------------------------------------------------
(* A fresh encoder. *)
LEMMA InitIInv == Init => IInv
<1> SUFFICES ASSUME Init PROVE IInv
  OBVIOUS
<1>1. inside = << >> /\ inside \in Seq(Nat) /\ DOMAIN inside = {}
  BY EmptySeq DEF Init
<1>2. TypeOK
  BY <1>1, EncoderAssumption DEF Init, TypeOK
<1>3. CountersExact /\ HandingOver /\ NoFrameWaitsOnCredit /\ NewestWins
  BY <1>1 DEF Init, CountersExact, HandingOver, NoFrameWaitsOnCredit, NewestWins
<1>4. SenderOutlivesSink /\ Lifetimes /\ DepthBound
  BY DEF Init, SenderOutlivesSink, Lifetimes, DepthBound
<1> QED
  BY <1>2, <1>3, <1>4 DEF IInv

(* What a frame at the end of the MFT's queue does to the order in it.     *)
LEMMA AppendInOrder ==
  ASSUME NEW s \in Seq(Nat), NEW f \in Nat, NEW low \in Nat, NEW high \in Nat,
         \A i \in DOMAIN s : low <= s[i] /\ s[i] <= high,
         \A i, j \in DOMAIN s : i < j => s[i] <= s[j],
         low <= high, high <= f
  PROVE  /\ Append(s, f) \in Seq(Nat) /\ Len(Append(s, f)) = Len(s) + 1
         /\ \A i \in DOMAIN Append(s, f) : low <= Append(s, f)[i] /\ Append(s, f)[i] <= f
         /\ \A i, j \in DOMAIN Append(s, f) :
              i < j => Append(s, f)[i] <= Append(s, f)[j]
  OBVIOUS

(* ... and taking the oldest one out.                                      *)
LEMMA TailInOrder ==
  ASSUME NEW s \in Seq(Nat), s # << >>, NEW high \in Nat,
         \A i \in DOMAIN s : s[i] <= high,
         \A i, j \in DOMAIN s : i < j => s[i] <= s[j]
  PROVE  /\ Tail(s) \in Seq(Nat) /\ Len(Tail(s)) = Len(s) - 1
         /\ Head(s) \in Nat /\ Head(s) <= high
         /\ \A i \in DOMAIN Tail(s) :
              Head(s) <= Tail(s)[i] /\ Tail(s)[i] <= high /\ Tail(s)[i] \in Nat
         /\ \A i, j \in DOMAIN Tail(s) : i < j => Tail(s)[i] <= Tail(s)[j]
<1>1. Head(s) = s[1] /\ 1 \in DOMAIN s /\ Tail(s) \in Seq(Nat) /\ Len(Tail(s)) = Len(s) - 1
  OBVIOUS
<1>2. \A i \in DOMAIN Tail(s) : Tail(s)[i] = s[i + 1] /\ i + 1 \in DOMAIN s /\ 1 < i + 1
  OBVIOUS
<1>3. ASSUME NEW i \in DOMAIN Tail(s)
      PROVE  s[1] <= s[i + 1] /\ s[i + 1] <= high /\ s[i + 1] \in Nat
  <2>1. i + 1 \in DOMAIN s /\ 1 < i + 1 /\ 1 \in DOMAIN s
    BY <1>1, <1>2
  <2>2. s[i + 1] <= high
    BY <2>1
  <2>3. s[1] <= s[i + 1]
    BY <2>1
  <2>4. s[i + 1] \in Nat
    BY <2>1
  <2> QED
    BY <2>2, <2>3, <2>4
<1>4. \A i, j \in DOMAIN Tail(s) : i < j => s[i + 1] <= s[j + 1]
  BY <1>1, <1>2
<1> QED
  BY <1>1, <1>2, <1>3, <1>4
-----------------------------------------------------------------------------
(* encode(), of a frame no older than the newest.                          *)
LEMMA EncodeStep ==
  ASSUME IInv, NEW f \in Nat \ {0}, Encode(f),
         last_tex <= f, last_tex' = f, loop \in {"idle", "read"},
         resubmits_left' \in 0 .. Resubmits,
         UNCHANGED <<depth, eventVars, teardown, lost>>
  PROVE  IInv'
<1> USE DEF mftVars, counters, eventVars, teardown, IInv
<1>1. CASE event # "handing" /\ Feed(f) /\ loop' = "idle" /\ UNCHANGED mishaps
  <2>1. /\ inside' = Append(inside, f) /\ fed' = f /\ pending = 0 /\ pending' = 0
        /\ credits > 0 /\ credits' = credits - 1 /\ submitted' = submitted + 1
        /\ UNCHANGED <<queued, emitted, out, shown, event, mishaps>>
    BY <1>1 DEF Feed, NoFrameWaitsOnCredit, TypeOK
  <2>2. /\ inside' \in Seq(Nat) /\ Len(inside') = Len(inside) + 1
        /\ \A i \in DOMAIN inside' : out <= inside'[i] /\ inside'[i] <= f
        /\ \A i, j \in DOMAIN inside' : i < j => inside'[i] <= inside'[j]
    <3>1. /\ inside \in Seq(Nat) /\ f \in Nat /\ out \in Nat /\ fed \in Nat
          /\ out <= fed /\ fed <= f
      BY DEF NewestWins, TypeOK
    <3>2. /\ \A i \in DOMAIN inside : out <= inside[i] /\ inside[i] <= fed
          /\ \A i, j \in DOMAIN inside : i < j => inside[i] <= inside[j]
      BY DEF NewestWins
    <3>3. /\ Append(inside, f) \in Seq(Nat) /\ Len(Append(inside, f)) = Len(inside) + 1
          /\ \A i \in DOMAIN Append(inside, f) :
               out <= Append(inside, f)[i] /\ Append(inside, f)[i] <= f
          /\ \A i, j \in DOMAIN Append(inside, f) :
               i < j => Append(inside, f)[i] <= Append(inside, f)[j]
      BY ONLY <3>1, <3>2, AppendInOrder, Zenon
    <3> QED
      BY ONLY <2>1, <3>3, Zenon
  <2>3. TypeOK'
    BY <1>1, <2>1, <2>2 DEF TypeOK
  <2>4. CountersExact'
    <3>1. Len(inside') = Len(inside) + 1 /\ Len(inside) \in Nat
      BY <2>2, LenProperties DEF TypeOK
    <3>2. /\ submitted' = submitted + 1 /\ emitted' = emitted /\ lost' = lost
          /\ event' = event /\ queued' = queued /\ pending = 0 /\ pending' = 0
      BY <2>1
    <3>3. submitted \in Nat /\ emitted \in Nat /\ lost \in Nat
      BY DEF TypeOK
    <3>4. submitted' - emitted' = Len(inside') + (IF event' = "took" THEN 1 ELSE 0) + lost'
      BY <3>1, <3>2, <3>3 DEF CountersExact
    <3>5. queued' = IF pending' # 0 THEN 1 ELSE 0
      BY <3>2 DEF CountersExact
    <3> QED
      BY <3>4, <3>5 DEF CountersExact
  <2>5. NewestWins'
    BY <2>1, <2>2 DEF NewestWins, TypeOK
  <2> QED
    BY <1>1, <2>1, <2>3, <2>4, <2>5
    DEF HandingOver, NoFrameWaitsOnCredit, SenderOutlivesSink, Lifetimes, DepthBound
<1>2. CASE event # "handing" /\ Wait(f) /\ loop' = "idle" /\ UNCHANGED mishaps
  <2>1. TypeOK'
    BY <1>2 DEF Wait, TypeOK
  <2>2. CountersExact' /\ NoFrameWaitsOnCredit'
    BY <1>2 DEF Wait, CountersExact, NoFrameWaitsOnCredit, TypeOK
  <2>3. NewestWins'
    BY <1>2 DEF Wait, NewestWins, TypeOK
  <2> QED
    BY <1>2, <2>1, <2>2, <2>3
    DEF Wait, HandingOver, SenderOutlivesSink, Lifetimes, DepthBound
<1>3. CASE (event # "handing" /\ FeedFails) \/ ConversionFails
  <2>1. /\ UNCHANGED <<counters, pending, inside, fed>> /\ loop' \in {"idle", "leaving"}
        /\ mishaps' = mishaps + 1 /\ credits' \in Nat /\ (credits' > 0 => credits > 0)
    BY <1>3 DEF FeedFails, ConversionFails, Mishap, TypeOK
  <2>2. TypeOK'
    BY <2>1 DEF TypeOK
  <2>3. CountersExact' /\ NoFrameWaitsOnCredit'
    BY <2>1 DEF CountersExact, NoFrameWaitsOnCredit
  <2>4. NewestWins'
    BY <2>1 DEF NewestWins, TypeOK
  <2> QED
    BY <2>1, <2>2, <2>3, <2>4
    DEF HandingOver, SenderOutlivesSink, Lifetimes, DepthBound, TypeOK
<1> QED
  BY <1>1, <1>2, <1>3 DEF Encode

(* The run loop submits a new frame, or the last one again. *)
LEMMA SubmitStep ==
  ASSUME IInv, SubmitNew \/ SubmitAgain
  PROVE  IInv'
<1> USE EncoderAssumption
<1>1. CASE SubmitNew
  <2>1. last_tex + 1 \in Nat \ {0} /\ last_tex <= last_tex + 1 /\ Resubmits \in 0 .. Resubmits
    BY DEF IInv, TypeOK
  <2> QED
    BY <1>1, <2>1, EncodeStep DEF SubmitNew
<1>2. CASE SubmitAgain
  <2>1. /\ last_tex \in Nat \ {0} /\ last_tex <= last_tex
        /\ resubmits_left - 1 \in 0 .. Resubmits
    BY <1>2 DEF SubmitAgain, MayResubmit, IInv, TypeOK
  <2> QED
    BY <1>2, <2>1, EncodeStep DEF SubmitAgain
<1> QED
  BY <1>1, <1>2

(* The rest of the run loop touches none of what the encoder holds.        *)
LEMMA LoopStep ==
  ASSUME IInv,
         ReadDepth \/ NothingToFlush \/ Detach \/ StopEncoder \/ DestroySender
  PROVE  IInv'
<1> USE DEF mftVars, counters, eventVars, teardown, IInv
<1>1. UNCHANGED <<counters, mftVars, eventVars, last_tex, resubmits_left, lost, mishaps>>
  BY DEF ReadDepth, NothingToFlush, Detach, StopEncoder, DestroySender, loopVars
<1>2. CountersExact' /\ HandingOver' /\ NoFrameWaitsOnCredit' /\ NewestWins'
  BY <1>1 DEF CountersExact, HandingOver, NoFrameWaitsOnCredit, NewestWins
<1>3. CASE ReadDepth
  <2>1. /\ queued \in Nat /\ emitted \in Nat /\ submitted \in Nat /\ depth \in Int
        /\ UNCHANGED <<queued, emitted, sink, sender>>
    BY <1>1, <1>3 DEF TypeOK, ReadDepth
  <2>2. \/ loop = "idle" /\ depth' = queued /\ loop' = "one"
        \/ loop = "one" /\ depth' = depth - emitted /\ loop' = "two"
        \/ loop = "two" /\ depth' = depth + submitted /\ loop' = "read"
    BY <1>3, <2>1 DEF ReadDepth, Term
  <2>3. depth' \in Int /\ loop' \in {"one", "two", "read"}
    BY <2>1, <2>2
  <2>4. TypeOK'
    BY <1>1, <2>1, <2>3 DEF TypeOK
  <2>5. DepthBound'
    BY <2>1, <2>2 DEF DepthBound
  <2> QED
    BY <1>1, <1>2, <1>3, <2>4, <2>5 DEF ReadDepth, SenderOutlivesSink, Lifetimes
<1>4. CASE NothingToFlush \/ StopEncoder
  <2>1. TypeOK' /\ DepthBound'
    BY <1>1, <1>4 DEF NothingToFlush, StopEncoder, TypeOK, DepthBound
  <2> QED
    BY <1>1, <1>2, <1>4, <2>1 DEF NothingToFlush, StopEncoder, SenderOutlivesSink, Lifetimes
<1>5. CASE Detach
  <2>1. sink' \in BOOLEAN
    BY <1>5 DEF Detach
  <2>2. TypeOK'
    BY <1>1, <1>5, <2>1 DEF Detach, TypeOK
  <2> QED
    BY <1>1, <1>2, <1>5, <2>2
    DEF Detach, SinkFree, SenderOutlivesSink, Lifetimes, DepthBound
<1>6. CASE DestroySender
  <2>1. sender' \in BOOLEAN
    BY <1>6 DEF DestroySender
  <2>2. TypeOK'
    BY <1>1, <1>6, <2>1 DEF DestroySender, TypeOK
  <2> QED
    BY <1>1, <1>2, <1>6, <2>2
    DEF DestroySender, Joined, SenderOutlivesSink, Lifetimes, DepthBound
<1> QED
  BY <1>3, <1>4, <1>5, <1>6
-----------------------------------------------------------------------------
(* The event thread: a request for input is answered from pending_ ...     *)
LEMMA HandOverStep ==
  ASSUME IInv, HandOver
  PROVE  IInv'
<1> USE DEF mftVars, counters, eventVars, loopVars, teardown, IInv
<1>1. /\ UNCHANGED <<credits, pending, emitted, queued, out, shown, loopVars, teardown, lost>>
      /\ event = "idle" /\ event' = "handing" /\ pending # 0
  BY DEF HandOver
<1>2. CASE inside' = Append(inside, pending) /\ fed' = pending
           /\ submitted' = submitted + 1 /\ UNCHANGED mishaps
  <2>1. /\ inside \in Seq(Nat) /\ pending \in Nat /\ out \in Nat /\ fed \in Nat
        /\ out <= fed /\ fed <= pending
    BY <1>1 DEF NewestWins, TypeOK
  <2>2. /\ \A i \in DOMAIN inside : out <= inside[i] /\ inside[i] <= fed
        /\ \A i, j \in DOMAIN inside : i < j => inside[i] <= inside[j]
    BY DEF NewestWins
  <2>3. /\ Append(inside, pending) \in Seq(Nat)
        /\ Len(Append(inside, pending)) = Len(inside) + 1
        /\ \A i \in DOMAIN Append(inside, pending) :
             out <= Append(inside, pending)[i] /\ Append(inside, pending)[i] <= pending
        /\ \A i, j \in DOMAIN Append(inside, pending) :
             i < j => Append(inside, pending)[i] <= Append(inside, pending)[j]
    BY ONLY <2>1, <2>2, AppendInOrder, Zenon
  <2>4. TypeOK'
    BY <1>1, <1>2, <2>3 DEF TypeOK
  <2>5. NewestWins'
    BY <1>1, <1>2, <2>1, <2>3 DEF NewestWins, TypeOK
  <2>6. CountersExact'
    <3>1. Len(inside') = Len(inside) + 1 /\ Len(inside) \in Nat
      BY <1>2, <2>1, <2>3, LenProperties
    <3>2. submitted \in Nat /\ emitted \in Nat /\ lost \in Nat
      BY DEF TypeOK
    <3>3. submitted' - emitted' = Len(inside') + (IF event' = "took" THEN 1 ELSE 0) + lost'
      BY <1>1, <1>2, <3>1, <3>2 DEF CountersExact
    <3> QED
      BY <1>1, <3>3 DEF CountersExact
  <2> QED
    BY <1>1, <1>2, <2>4, <2>5, <2>6
    DEF HandingOver, NoFrameWaitsOnCredit, SenderOutlivesSink, Lifetimes, DepthBound
<1>3. CASE Mishap /\ UNCHANGED <<inside, fed, submitted>>
  <2>1. mishaps' = mishaps + 1 /\ mishaps \in Nat
    BY <1>3 DEF Mishap, TypeOK
  <2>2. TypeOK' /\ CountersExact'
    BY <1>1, <1>3, <2>1 DEF TypeOK, CountersExact
  <2>3. NewestWins'
    BY <1>1, <1>3, <2>1 DEF NewestWins
  <2> QED
    BY <1>1, <1>3, <2>1, <2>2, <2>3
    DEF HandingOver, NoFrameWaitsOnCredit, SenderOutlivesSink, Lifetimes, DepthBound
<1> QED
  BY <1>2, <1>3 DEF HandOver

(* ... or kept as a credit ...                                             *)
LEMMA CreditStep ==
  ASSUME IInv, HandedOver \/ GainCredit
  PROVE  IInv'
<1> USE DEF mftVars, counters, eventVars, loopVars, teardown, IInv
<1>1. /\ UNCHANGED <<inside, fed, submitted, emitted, out, shown, loopVars, teardown,
                     lost, mishaps>>
  BY DEF HandedOver, GainCredit
<1>2. CASE HandedOver
  <2>1. /\ event = "handing" /\ event' = "idle" /\ pending' = 0 /\ pending # 0
        /\ queued = 1 /\ queued' = 0 /\ credits' = credits
    BY <1>2 DEF HandedOver, HandingOver, CountersExact
  <2>2. TypeOK' /\ CountersExact' /\ NewestWins'
    BY <1>1, <2>1 DEF TypeOK, CountersExact, NewestWins, HandingOver
  <2>3. DepthBound'
    BY <1>1, <2>1 DEF DepthBound, TypeOK
  <2> QED
    BY <1>1, <2>1, <2>2, <2>3
    DEF HandingOver, NoFrameWaitsOnCredit, SenderOutlivesSink, Lifetimes
<1>3. CASE GainCredit
  <2>1. /\ event = "idle" /\ pending = 0 /\ UNCHANGED <<pending, queued, event>>
        /\ credits' = credits + 1
    BY <1>3 DEF GainCredit, CreditDue
  <2>2. TypeOK' /\ CountersExact' /\ NewestWins'
    BY <1>1, <2>1 DEF TypeOK, CountersExact, NewestWins
  <2> QED
    BY <1>1, <2>1, <2>2
    DEF HandingOver, NoFrameWaitsOnCredit, SenderOutlivesSink, Lifetimes, DepthBound
<1> QED
  BY <1>2, <1>3

(* ... an output is taken ...                                              *)
LEMMA TakeOutputStep ==
  ASSUME IInv, TakeOutput
  PROVE  IInv'
<1> USE DEF mftVars, counters, eventVars, loopVars, teardown, IInv
<1>1. /\ UNCHANGED <<credits, pending, fed, counters, shown, loopVars, teardown>>
      /\ event = "idle" /\ inside' = Tail(inside) /\ inside # << >>
  <2>1. Len(inside) > 0
    BY EncoderAssumption, LenProperties DEF TakeOutput, TypeOK
  <2> QED
    BY <2>1 DEF TakeOutput
<1>2. /\ inside \in Seq(Nat) /\ fed \in Nat /\ out \in Nat /\ shown \in Nat
      /\ \A i \in DOMAIN inside : inside[i] <= fed
      /\ \A i, j \in DOMAIN inside : i < j => inside[i] <= inside[j]
  BY DEF NewestWins, TypeOK
<1>3. /\ Tail(inside) \in Seq(Nat) /\ Len(Tail(inside)) = Len(inside) - 1
      /\ Head(inside) \in Nat /\ Head(inside) <= fed
      /\ \A i \in DOMAIN Tail(inside) :
           Head(inside) <= Tail(inside)[i] /\ Tail(inside)[i] <= fed
           /\ Tail(inside)[i] \in Nat
      /\ \A i, j \in DOMAIN Tail(inside) : i < j => Tail(inside)[i] <= Tail(inside)[j]
  BY ONLY <1>1, <1>2, TailInOrder, Zenon
<1>4. out <= Head(inside)
  <2>1. 1 \in DOMAIN inside /\ Head(inside) = inside[1]
    BY <1>1, <1>2
  <2> QED
    BY <2>1 DEF NewestWins
<1>5. Len(inside) \in Nat /\ submitted \in Nat /\ emitted \in Nat /\ lost \in Nat
  BY <1>2, LenProperties DEF TypeOK
<1>6. CASE event' = "took" /\ out' = Head(inside) /\ UNCHANGED <<lost, mishaps>>
  <2>1. TypeOK'
    BY <1>1, <1>3, <1>6 DEF TypeOK
  <2>2. CountersExact'
    BY <1>1, <1>3, <1>5, <1>6 DEF CountersExact
  <2>3. NewestWins'
    BY <1>1, <1>2, <1>3, <1>4, <1>6 DEF NewestWins
  <2> QED
    BY <1>1, <1>6, <2>1, <2>2, <2>3
    DEF HandingOver, NoFrameWaitsOnCredit, SenderOutlivesSink, Lifetimes, DepthBound
<1>7. CASE Mishap /\ lost' = lost + 1 /\ UNCHANGED <<event, out>>
  <2>1. mishaps' = mishaps + 1 /\ mishaps \in Nat
    BY <1>7 DEF Mishap, TypeOK
  <2>2. TypeOK'
    BY <1>1, <1>3, <1>7, <2>1 DEF TypeOK
  <2>3. CountersExact'
    BY <1>1, <1>3, <1>5, <1>7 DEF CountersExact
  <2>4. \A i \in DOMAIN inside' : out <= inside'[i] /\ inside'[i] <= fed
    BY <1>1, <1>2, <1>3, <1>4
  <2>5. NewestWins'
    BY <1>1, <1>3, <1>7, <2>1, <2>4 DEF NewestWins
  <2> QED
    BY <1>1, <1>7, <2>1, <2>2, <2>3, <2>5
    DEF HandingOver, NoFrameWaitsOnCredit, SenderOutlivesSink, Lifetimes, DepthBound
<1> QED
  BY <1>6, <1>7 DEF TakeOutput

(* ... counted and handed to the sink, or the thread ends.                 *)
LEMMA SinkStep ==
  ASSUME IInv, CountOutput \/ CallSink \/ SinkReturns \/ EventThreadExits
  PROVE  IInv'
<1> USE DEF mftVars, counters, eventVars, loopVars, teardown, IInv
<1>1. /\ UNCHANGED <<submitted, queued, mftVars, out, loopVars, teardown, lost>>
      /\ event \in {"took", "counted", "calling", "idle"}
      /\ event' \in {"counted", "calling", "idle", "exited"}
      /\ mishaps' \in Nat /\ (mishaps' = 0 => mishaps = 0)
      /\ shown' \in {shown, out}
  <2>1. mishaps \in Nat
    BY DEF TypeOK
  <2>2. CASE CountOutput
    BY <2>1, <2>2 DEF CountOutput
  <2>3. CASE CallSink
    <3>1. mishaps' \in {mishaps, mishaps + 1}
      BY <2>3 DEF CallSink, Mishap
    <3> QED
      BY <2>1, <2>3, <3>1 DEF CallSink
  <2>4. CASE SinkReturns \/ EventThreadExits
    BY <2>1, <2>4 DEF SinkReturns, EventThreadExits
  <2> QED
    BY <2>2, <2>3, <2>4
<1>2. CASE CountOutput
  <2>1. event = "took" /\ emitted' = emitted + 1 /\ event' = "counted"
    BY <1>2 DEF CountOutput
  <2>2. CountersExact' /\ DepthBound'
    <3>1. /\ Len(inside) \in Nat /\ submitted \in Nat /\ emitted \in Nat /\ lost \in Nat
          /\ queued \in Nat /\ depth \in Int
      BY LenProperties DEF TypeOK
    <3> QED
      BY <1>1, <2>1, <3>1 DEF CountersExact, DepthBound
  <2> QED
    BY <1>1, <2>1, <2>2
    DEF TypeOK, NewestWins, HandingOver, NoFrameWaitsOnCredit, SenderOutlivesSink, Lifetimes
<1>3. CASE CallSink \/ SinkReturns \/ EventThreadExits
  <2>1. UNCHANGED emitted /\ event # "took" /\ (event' = "calling" => sink)
    BY <1>3 DEF CallSink, SinkReturns, EventThreadExits
  <2>2. CountersExact' /\ DepthBound'
    BY <1>1, <2>1 DEF CountersExact, DepthBound
  <2>3. TypeOK' /\ NewestWins'
    BY <1>1, <2>1 DEF TypeOK, NewestWins
  <2> QED
    BY <1>1, <2>1, <2>2, <2>3
    DEF HandingOver, NoFrameWaitsOnCredit, SenderOutlivesSink, Lifetimes
<1> QED
  BY <1>2, <1>3
-----------------------------------------------------------------------------
(* The parts of the invariant hold together in every reachable state. *)
THEOREM EncoderIInv == Spec => []IInv
<1>1. IInv /\ [Next]_vars => IInv'
  <2>1. IInv /\ Next => IInv'
    BY SubmitStep, LoopStep, HandOverStep, CreditStep, TakeOutputStep, SinkStep
    DEF Next, RunLoop, EventThread
  <2>2. IInv /\ UNCHANGED vars => IInv'
    BY DEF IInv, TypeOK, CountersExact, HandingOver, NoFrameWaitsOnCredit, NewestWins,
           SenderOutlivesSink, Lifetimes, DepthBound, vars, counters, mftVars,
           eventVars, loopVars, teardown
  <2> QED
    BY <2>1, <2>2
<1> QED
  BY InitIInv, <1>1, PTL DEF Spec

(* The atomics never drift from what they count, and no request of the MFT *)
(* is left unanswered while a frame waits.                                 *)
THEOREM CountersNeverDrift == Spec => [](CountersExact /\ NoFrameWaitsOnCredit)
  BY EncoderIInv, PTL DEF IInv

(* Frames enter and leave the encoder in the order they were captured, and *)
(* the newest is the one that is waiting.                                  *)
THEOREM NewestAlwaysWins == Spec => []NewestWins
  BY EncoderIInv, PTL DEF IInv

(* No sink call outlives set_sink(nullptr), nor the sender a sink call.    *)
THEOREM SinkIsSafe == Spec => []SenderOutlivesSink
  BY EncoderIInv, PTL DEF IInv

(* pipeline_depth(), read without a lock, is never below what is held.     *)
THEOREM DepthNeverRoundsDown == Spec => DepthNeverShort
<1>1. IInv => [loop = "two" => depth + Term(3) >= Holding]_loop
  <2> SUFFICES ASSUME IInv, loop = "two" PROVE depth + Term(3) >= Holding
    OBVIOUS
  <2>1. /\ Len(inside) \in Nat /\ submitted \in Nat /\ emitted \in Nat /\ lost \in Nat
        /\ queued \in Nat /\ depth \in Int
    BY LenProperties DEF IInv, TypeOK
  <2>2. depth >= queued - emitted
    BY DEF IInv, DepthBound
  <2>3. submitted - emitted >= Len(inside)
    BY <2>1 DEF IInv, CountersExact
  <2>4. queued >= IF pending # 0 /\ event # "handing" THEN 1 ELSE 0
    BY DEF IInv, CountersExact
  <2> QED
    BY <2>1, <2>2, <2>3, <2>4 DEF Term, Holding
<1> QED
  BY <1>1, EncoderIInv, PTL DEF DepthNeverShort
-----------------------------------------------------------------------------
(* The encoder against its promise.  What has to be known besides IInv: a  *)
(* frame on its way to the sink has left an MFT that holds what it keeps,  *)
(* so with that frame the pipe holds more; and captures are numbered.      *)
StillFull ==
  /\ event \in {"took", "counted", "calling"} => Len(inside) >= Delay
  /\ last_tex <= MaxFrames

(* Every action keeps that: only the event thread takes frames out, and    *)
(* not while it is busy with one.                                          *)
LEMMA NextStillFull == IInv /\ StillFull /\ [Next]_vars => StillFull'
<1> SUFFICES ASSUME IInv, StillFull, [Next]_vars PROVE StillFull'
  OBVIOUS
<1> USE EncoderAssumption
    DEF StillFull, counters, mftVars, eventVars, loopVars, teardown
<1>1. /\ inside \in Seq(Nat) /\ Len(inside) \in Nat /\ last_tex \in Nat
      /\ \A f \in Nat : Len(Append(inside, f)) = Len(inside) + 1
  BY LenProperties DEF IInv, TypeOK
<1>2. CASE SubmitNew \/ SubmitAgain
  <2>1. PICK f \in Nat : Encode(f) /\ f <= MaxFrames /\ last_tex' = f /\ UNCHANGED eventVars
    BY <1>1, <1>2 DEF SubmitNew, SubmitAgain
  <2>2. inside' = inside \/ inside' = Append(inside, f)
    BY <2>1 DEF Encode, Feed, Wait, FeedFails, ConversionFails
  <2> QED
    BY <1>1, <2>1, <2>2
<1>3. CASE ReadDepth \/ NothingToFlush \/ Detach \/ StopEncoder \/ DestroySender
  BY <1>3 DEF ReadDepth, NothingToFlush, Detach, StopEncoder, DestroySender
<1>4. CASE HandOver \/ HandedOver \/ GainCredit \/ EventThreadExits
  BY <1>4 DEF HandOver, HandedOver, GainCredit, EventThreadExits
<1>5. CASE TakeOutput
  <2>1. inside # << >>
    BY <1>1, <1>5, EmptySeq DEF TakeOutput
  <2>2. Len(inside') = Len(inside) - 1 /\ Len(inside) > Delay /\ last_tex' = last_tex
    BY <1>1, <1>5, <2>1, HeadTailProperties DEF TakeOutput
  <2> QED
    BY <1>1, <2>2
<1>6. CASE CountOutput \/ CallSink \/ SinkReturns
  BY <1>6 DEF CountOutput, CallSink, SinkReturns
<1>7. CASE UNCHANGED vars
  BY <1>7 DEF vars
<1> QED
  BY <1>2, <1>3, <1>4, <1>5, <1>6, <1>7 DEF Next, RunLoop, EventThread

(* The mapping, by name: what is in the pipe, and whether a frame waits.   *)
Line == OnItsWay \o inside
Waits == pending # 0 /\ event # "handing"

(* The promise's steps, in these names. *)
LEMMA PipeMoves ==
  /\ UNCHANGED <<credits, Line, Waits>> => UNCHANGED Pipe!pipeVars
  /\ \A f \in 1 .. MaxFrames :
       /\ credits > 0 /\ credits' = credits - 1 /\ Line' = Append(Line, f) /\ Waits' = Waits
            => Pipe!PipeNext(1 .. MaxFrames)
       /\ credits = 0 /\ Waits' = TRUE /\ UNCHANGED <<credits, Line>>
            => Pipe!PipeNext(1 .. MaxFrames)
       /\ Len(Line) + credits < Room /\ Waits /\ Waits' = FALSE /\ credits' = credits
          /\ Line' = Append(Line, f)
            => Pipe!PipeNext(1 .. MaxFrames)
  /\ Len(Line) + credits < Room /\ Waits /\ Waits' = FALSE /\ UNCHANGED <<credits, Line>>
       => Pipe!PipeNext(1 .. MaxFrames)
  /\ Len(Line) + credits < Room /\ Waits = FALSE /\ credits' = credits + 1
     /\ UNCHANGED <<Waits, Line>>
       => Pipe!PipeNext(1 .. MaxFrames)
  /\ credits > 0 /\ credits' = credits - 1 /\ UNCHANGED <<Line, Waits>>
       => Pipe!PipeNext(1 .. MaxFrames)
  /\ Len(Line) > Delay /\ Line' = Tail(Line) /\ UNCHANGED <<credits, Waits>>
       => Pipe!PipeNext(1 .. MaxFrames)
<1> USE DEF Line, Waits
<1>1. UNCHANGED <<credits, Line, Waits>> => UNCHANGED Pipe!pipeVars
  BY DEF Pipe!pipeVars
<1>2. ASSUME NEW f \in 1 .. MaxFrames, Pipe!Encode(f) \/ Pipe!Admit(f)
      PROVE  Pipe!PipeNext(1 .. MaxFrames)
  BY <1>2 DEF Pipe!PipeNext
<1>3. ASSUME NEW f \in 1 .. MaxFrames
      PROVE  /\ credits > 0 /\ credits' = credits - 1 /\ Line' = Append(Line, f) /\ Waits' = Waits
                  => Pipe!Encode(f)
             /\ credits = 0 /\ Waits' = TRUE /\ UNCHANGED <<credits, Line>> => Pipe!Encode(f)
  BY Zenon DEF Pipe!Encode, Pipe!Enter
<1>4. ASSUME NEW f \in 1 .. MaxFrames, Len(Line) + credits < Room, Waits, Waits' = FALSE,
             credits' = credits, Line' = Append(Line, f)
      PROVE  Pipe!Admit(f)
  BY <1>4, Zenon DEF Pipe!Admit, Pipe!Needed, Pipe!Enter
<1>5. Len(Line) + credits < Room /\ Waits /\ Waits' = FALSE /\ UNCHANGED <<credits, Line>>
        => Pipe!Refuse
  BY Zenon DEF Pipe!Refuse, Pipe!Needed
<1>6. Len(Line) + credits < Room /\ Waits = FALSE /\ credits' = credits + 1
      /\ UNCHANGED <<Waits, Line>>
        => Pipe!Owe
  BY Zenon DEF Pipe!Owe, Pipe!Needed
<1>7. credits > 0 /\ credits' = credits - 1 /\ UNCHANGED <<Line, Waits>> => Pipe!EncodeFails
  BY Zenon DEF Pipe!EncodeFails
<1>8. Len(Line) > Delay /\ Line' = Tail(Line) /\ UNCHANGED <<credits, Waits>> => Pipe!Leave
  BY Zenon DEF Pipe!Leave
<1>9. Pipe!Refuse \/ Pipe!Owe \/ Pipe!EncodeFails \/ Pipe!Leave => Pipe!PipeNext(1 .. MaxFrames)
  BY DEF Pipe!PipeNext
<1> HIDE DEF Line, Waits
<1> QED
  BY <1>1, <1>2, <1>3, <1>4, <1>5, <1>6, <1>7, <1>8, <1>9, Zenon

(* What an append, a frame in front and a frame taken do to a line.        *)
LEMMA LineAlgebra ==
  ASSUME NEW s \in Seq(Nat)
  PROVE  /\ << >> \o s = s
         /\ \A o \in Nat : /\ Len(<<o>> \o s) = Len(s) + 1
                           /\ Tail(<<o>> \o s) = s
                           /\ <<o>> \o s # << >>
         /\ s # << >> => <<Head(s)>> \o Tail(s) = s
         /\ \A a \in Seq(Nat), f \in Nat : a \o Append(s, f) = Append(a \o s, f)
<1>1. << >> \o s = s
  BY ConcatEmptySeq
<1>2. ASSUME NEW o \in Nat
      PROVE  /\ Len(<<o>> \o s) = Len(s) + 1 /\ Tail(<<o>> \o s) = s
             /\ <<o>> \o s # << >>
  <2>1. <<o>> \in Seq(Nat) /\ Len(<<o>>) = 1 /\ <<o>>[1] = o
    OBVIOUS
  <2> DEFINE t == <<o>> \o s
  <2>2. /\ t \in Seq(Nat) /\ Len(t) = 1 + Len(s) /\ Len(s) \in Nat
        /\ \A i \in 1 .. 1 + Len(s) : t[i] = IF i <= 1 THEN o ELSE s[i - 1]
    BY <2>1, ConcatProperties, LenProperties
  <2> HIDE DEF t
  <2>3. t # << >>
    BY <2>2, EmptySeq
  <2>4. /\ Tail(t) \in Seq(Nat) /\ Len(Tail(t)) = Len(s)
        /\ \A i \in 1 .. Len(s) : Tail(t)[i] = t[i + 1]
    BY <2>2, <2>3, HeadTailProperties
  <2>5. ASSUME NEW i \in 1 .. Len(s)
        PROVE  Tail(t)[i] = s[i]
    <3>1. Tail(t)[i] = t[i + 1]
      BY <2>4
    <3>2. i + 1 \in 1 .. 1 + Len(s) /\ ~(i + 1 <= 1) /\ (i + 1) - 1 = i
      BY <2>2
    <3> QED
      BY <2>2, <3>1, <3>2
  <2>6. Tail(t) = s
    BY <2>4, <2>5, SeqEqual
  <2> QED
    BY <2>2, <2>3, <2>6 DEF t
<1>3. ASSUME s # << >> PROVE <<Head(s)>> \o Tail(s) = s
  <2> DEFINE o == Head(s)
             r == Tail(s)
  <2>1. /\ o \in Nat /\ r \in Seq(Nat) /\ Len(r) = Len(s) - 1 /\ Len(s) \in Nat
        /\ \A i \in 1 .. Len(s) - 1 : r[i] = s[i + 1]
        /\ o = s[1]
    BY <1>3, HeadTailProperties, LenProperties
  <2> HIDE DEF o, r
  <2>2. <<o>> \in Seq(Nat) /\ Len(<<o>>) = 1 /\ <<o>>[1] = o
    BY <2>1
  <2>3. /\ <<o>> \o r \in Seq(Nat) /\ Len(<<o>> \o r) = Len(s)
        /\ \A i \in 1 .. Len(s) : (<<o>> \o r)[i] = IF i <= 1 THEN o ELSE r[i - 1]
    BY <2>1, <2>2, ConcatProperties
  <2>4. \A i \in 1 .. Len(s) : (<<o>> \o r)[i] = s[i]
    BY <2>1, <2>3
  <2>5. <<o>> \o r = s
    BY <2>3, <2>4, SeqEqual
  <2> QED
    BY <2>5 DEF o, r
<1>4. ASSUME NEW a \in Seq(Nat), NEW f \in Nat
      PROVE  a \o Append(s, f) = Append(a \o s, f)
  OBVIOUS
<1> QED
  BY <1>1, <1>2, <1>3, <1>4

(* A call of encode() is one step of the pipe, or drops the frame before.  *)
LEMMA EncodePipes ==
  ASSUME IInv, NEW f \in 1 .. MaxFrames, Encode(f), UNCHANGED eventVars
  PROVE  [Pipe!PipeNext(1 .. MaxFrames)]_(Pipe!pipeVars)
<1> USE DEF counters, mftVars, eventVars
<1>1. inside \in Seq(Nat) /\ OnItsWay \in Seq(Nat) /\ OnItsWay' = OnItsWay /\ f \in Nat \ {0}
  <2>1. out \in Nat /\ inside \in Seq(Nat)
    BY DEF IInv, TypeOK
  <2>2. OnItsWay \in Seq(Nat)
    BY <2>1, EmptySeq DEF OnItsWay
  <2> QED
    BY <2>1, <2>2, EncoderAssumption DEF OnItsWay
<1>2. CASE event # "handing" /\ Feed(f)
  <2>1. /\ credits > 0 /\ credits' = credits - 1 /\ inside' = Append(inside, f)
        /\ pending' = pending
    BY <1>2 DEF Feed
  <2>2. OnItsWay \o Append(inside, f) = Append(Line, f)
    BY <1>1, LineAlgebra DEF Line
  <2>3. Line' = Append(Line, f) /\ Waits' = Waits
    BY <1>1, <2>1, <2>2 DEF Line, Waits
  <2> QED
    BY <2>1, <2>3, PipeMoves
<1>3. CASE event # "handing" /\ Wait(f)
  <2>1. credits = 0 /\ pending' = f /\ UNCHANGED <<credits, inside>>
    BY <1>3 DEF Wait
  <2>2. Line' = Line /\ Waits' = TRUE
    BY <1>1, <1>3, <2>1 DEF Line, Waits
  <2> QED
    BY <2>1, <2>2, PipeMoves
<1>4. CASE event # "handing" /\ FeedFails
  <2>1. credits > 0 /\ credits' = credits - 1 /\ UNCHANGED <<pending, inside>>
    BY <1>4 DEF FeedFails
  <2>2. Line' = Line /\ Waits' = Waits
    BY <1>1, <2>1 DEF Line, Waits
  <2> QED
    BY <2>1, <2>2, PipeMoves
<1>5. CASE ConversionFails
  <2>1. credits' = credits /\ Line' = Line /\ Waits' = Waits
    BY <1>1, <1>5 DEF ConversionFails, Line, Waits
  <2> QED
    BY <2>1, PipeMoves
<1> QED
  BY <1>2, <1>3, <1>4, <1>5 DEF Encode

(* The event thread answers the MFT's request for input. *)
LEMMA NeedPipes ==
  ASSUME IInv, StillFull, HandOver \/ HandedOver \/ GainCredit
  PROVE  [Pipe!PipeNext(1 .. MaxFrames)]_(Pipe!pipeVars)
<1> USE DEF counters, mftVars, eventVars
<1>1. /\ inside \in Seq(Nat) /\ pending \in Nat /\ pending <= MaxFrames /\ << >> \o inside = inside
  <2>1. inside \in Seq(Nat) /\ pending \in Nat /\ last_tex \in Nat /\ pending <= last_tex
    BY DEF IInv, TypeOK, NewestWins
  <2> QED
    BY <2>1, EncoderAssumption, LineAlgebra DEF StillFull
<1>2. CASE HandOver
  <2>1. /\ event = "idle" /\ event' = "handing" /\ pending # 0 /\ credits' = credits
        /\ Len(inside) + credits < Room
        /\ inside' = inside \/ inside' = Append(inside, pending)
    BY <1>2 DEF HandOver
  <2>2. pending \in 1 .. MaxFrames /\ Append(inside, pending) \in Seq(Nat)
    BY <1>1, <2>1, EncoderAssumption
  <2>3. Line = inside /\ Waits /\ Waits' = FALSE
    BY <1>1, <2>1 DEF Line, OnItsWay, Waits
  <2>4. << >> \o Append(inside, pending) = Append(inside, pending)
    BY <2>2, ConcatEmptySeq
  <2>5. Line' = Line \/ Line' = Append(Line, pending)
    BY <1>1, <2>1, <2>3, <2>4 DEF Line, OnItsWay
  <2> QED
    BY <2>1, <2>2, <2>3, <2>5, PipeMoves
<1>3. CASE HandedOver
  <2>1. /\ event = "handing" /\ event' = "idle" /\ pending' = 0
        /\ UNCHANGED <<credits, inside>>
    BY <1>3 DEF HandedOver
  <2>2. Line' = Line /\ Waits = FALSE /\ Waits' = FALSE
    BY <2>1 DEF Line, OnItsWay, Waits
  <2> QED
    BY <2>1, <2>2, PipeMoves
<1>4. CASE GainCredit
  <2>1. /\ event = "idle" /\ event' = event /\ pending = 0 /\ credits' = credits + 1
        /\ Len(inside) + credits < Room /\ UNCHANGED <<pending, inside, out>>
    BY <1>4 DEF GainCredit, CreditDue
  <2>2. Line = inside /\ Line' = Line /\ Waits = FALSE /\ Waits' = Waits
    BY <1>1, <2>1 DEF Line, OnItsWay, Waits
  <2> QED
    BY <2>1, <2>2, PipeMoves
<1> QED
  BY <1>2, <1>3, <1>4

(* The event thread takes the oldest frame out and hands it on, or loses   *)
(* it at any point.                                                        *)
LEMMA OutputPipes ==
  ASSUME IInv, StillFull, TakeOutput \/ CountOutput \/ CallSink \/ SinkReturns
  PROVE  [Pipe!PipeNext(1 .. MaxFrames)]_(Pipe!pipeVars)
<1> USE DEF counters, mftVars, eventVars
<1>1. /\ inside \in Seq(Nat) /\ out \in Nat /\ Len(inside) \in Nat /\ Delay \in Nat
      /\ << >> \o inside = inside
      /\ Len(<<out>> \o inside) = Len(inside) + 1 /\ Tail(<<out>> \o inside) = inside
      /\ inside # << >> => <<Head(inside)>> \o Tail(inside) = inside
  BY EncoderAssumption, LenProperties, LineAlgebra DEF IInv, TypeOK
<1>2. CASE TakeOutput
  <2>1. /\ event = "idle" /\ Len(inside) > Delay /\ inside' = Tail(inside)
        /\ UNCHANGED <<credits, pending>> /\ inside # << >>
        /\ \/ event' = "took" /\ out' = Head(inside)
           \/ UNCHANGED <<event, out>>
    BY <1>1, <1>2, EmptySeq DEF TakeOutput
  <2>2. Line = inside /\ Waits' = Waits
    BY <1>1, <2>1 DEF Line, OnItsWay, Waits
  <2>3. CASE event' = "took" /\ out' = Head(inside)
    <3>1. Line' = Line
      BY <1>1, <2>1, <2>2, <2>3 DEF Line, OnItsWay
    <3> QED
      BY <2>1, <2>2, <3>1, PipeMoves
  <2>4. CASE UNCHANGED <<event, out>>
    <3>1. Tail(inside) \in Seq(Nat)
      BY <1>1, <2>1, HeadTailProperties
    <3>2. << >> \o Tail(inside) = Tail(inside)
      BY <3>1, ConcatEmptySeq
    <3>3. Line' = Tail(Line)
      BY <2>1, <2>2, <2>4, <3>2 DEF Line, OnItsWay
    <3> QED
      BY <2>1, <2>2, <3>3, PipeMoves
  <2> QED
    BY <2>1, <2>3, <2>4
<1>3. CASE CountOutput \/ (CallSink /\ event' = "calling")
  <2>1. /\ event \in {"took", "counted"} /\ event' \in {"counted", "calling"}
        /\ UNCHANGED <<credits, pending, inside, out>>
    BY <1>3 DEF CountOutput, CallSink
  <2>2. Line' = Line /\ Waits' = Waits
    BY <2>1 DEF Line, OnItsWay, Waits
  <2> QED
    BY <2>1, <2>2, PipeMoves
<1>4. CASE SinkReturns \/ (CallSink /\ event' # "calling")
  <2>1. /\ event \in {"counted", "calling"} /\ event' = "idle"
        /\ UNCHANGED <<credits, pending, inside, out>>
    BY <1>4 DEF SinkReturns, CallSink
  <2>2. Line = <<out>> \o inside /\ Line' = inside /\ Waits' = Waits
    BY <1>1, <2>1 DEF Line, OnItsWay, Waits
  <2>3. Len(inside) >= Delay
    BY <2>1 DEF StillFull
  <2>4. Len(Line) > Delay
    BY <1>1, <2>2, <2>3
  <2>5. Line' = Tail(Line)
    BY <1>1, <2>2
  <2> QED
    BY <2>1, <2>2, <2>4, <2>5, PipeMoves
<1> QED
  BY <1>2, <1>3, <1>4

(* Everything else is none of the pipe's business. *)
LEMMA OthersPipe ==
  ASSUME \/ ReadDepth \/ NothingToFlush \/ Detach \/ StopEncoder \/ DestroySender
         \/ EventThreadExits \/ UNCHANGED vars
  PROVE  UNCHANGED Pipe!pipeVars
<1>1. /\ UNCHANGED <<credits, pending, inside, out>>
      /\ UNCHANGED event \/ (event = "idle" /\ event' = "exited")
  BY DEF ReadDepth, NothingToFlush, Detach, StopEncoder, DestroySender, EventThreadExits,
         vars, counters, mftVars, eventVars, loopVars, teardown
<1>2. Line' = Line /\ Waits' = Waits
  BY <1>1 DEF Line, OnItsWay, Waits
<1> QED
  BY <1>1, <1>2, PipeMoves

(* A step of the two threads is a step of the pipe, or none. *)
LEMMA PipeStep ==
  IInv /\ StillFull /\ [Next]_vars => [Pipe!PipeNext(1 .. MaxFrames)]_(Pipe!pipeVars)
<1> SUFFICES ASSUME IInv, StillFull, [Next]_vars
             PROVE  [Pipe!PipeNext(1 .. MaxFrames)]_(Pipe!pipeVars)
  OBVIOUS
<1>1. CASE SubmitNew \/ SubmitAgain
  <2>1. PICK f \in 1 .. MaxFrames : Encode(f) /\ UNCHANGED eventVars
    <3>1. last_tex \in Nat
      BY DEF IInv, TypeOK
    <3>2. CASE SubmitNew
      BY <3>1, <3>2, EncoderAssumption DEF SubmitNew
    <3>3. CASE SubmitAgain
      BY <3>1, <3>3, EncoderAssumption DEF SubmitAgain, MayResubmit, StillFull
    <3> QED
      BY <1>1, <3>2, <3>3
  <2> QED
    BY <2>1, EncodePipes
<1>2. CASE HandOver \/ HandedOver \/ GainCredit
  BY <1>2, NeedPipes
<1>3. CASE TakeOutput \/ CountOutput \/ CallSink \/ SinkReturns
  BY <1>3, OutputPipes
<1> QED
  BY <1>1, <1>2, <1>3, OthersPipe DEF Next, RunLoop, EventThread

(* A fresh encoder is an empty pipe. *)
LEMMA PipeStarts == Init => Pipe!PipeInit /\ StillFull
<1> SUFFICES ASSUME Init PROVE Pipe!PipeInit /\ StillFull
  OBVIOUS
<1>1. OnItsWay = << >> /\ inside = << >> /\ pending = 0 /\ credits = 0
  BY DEF Init, OnItsWay
<1>2. << >> \o << >> = << >>
  BY EmptySeq, ConcatEmptySeq
<1>3. OnItsWay \o inside = << >>
  BY <1>1, <1>2
<1> QED
  BY <1>1, <1>3, EncoderAssumption DEF Init, Pipe!PipeInit, StillFull

(* mf_encoder.cpp, whole, implements what VideoStream assumes of it: two   *)
(* threads, two locks and any failing call of Media Foundation are, to the *)
(* run loop, one pipe with a place in front.                               *)
THEOREM PipeIsKept == Spec => KeepsPipe
<1>1. IInv /\ StillFull /\ IInv' /\ [Next]_vars => StillFull'
  BY NextStillFull
<1>2. Spec => []StillFull
  BY PipeStarts, <1>1, EncoderIInv, PTL DEF Spec
<1> QED
  BY PipeStarts, PipeStep, <1>2, EncoderIInv, PTL DEF Spec, KeepsPipe
=============================================================================
