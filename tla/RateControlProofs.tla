------------------------- MODULE RateControlProofs -------------------------
(***************************************************************************)
(* The controller's promises for every ceiling, floor, step, link and      *)
(* content. Range bounds what is remembered and asked for as well as what  *)
(* is in force. CalmCounts ties the controller's own count of clean        *)
(* samples to the history. DeepHasCause and SampleHasCause say what a deep *)
(* reading stands for before and after it is looked at: a backlog, or one  *)
(* burst that no second can follow.                                        *)
(***************************************************************************)
EXTENDS RateControl, TLAPS

Range == asked <= Headroom /\ memory <= Ceiling
CalmCounts == clean <= calm
DeepHasCause == phase = "wire" /\ live /\ deep > 0 => queue > 0 \/ sample.burst
SampleHasCause ==
  phase = "control" =>
    /\ sample.flushed => sample.behind /\ sample.queued = 0
    /\ sample.queued > 0 => queue > 0 \/ sample.burst
    /\ live /\ deep > 0 /\ ~sample.behind => sample.queued = 0

BudgetOfTarget == queue_capacity = Budget(target)

IInv ==
  /\ TypeOK /\ StaysInRange /\ Range
  /\ CalmCounts /\ DeepHasCause /\ SampleHasCause /\ BudgetOfTarget /\ CommandTracks

(* The bounds that hold for any values of the parameters. *)
LEMMA Bounds ==
  /\ LowEnd \in Nat /\ LowEnd <= Ceiling /\ LowEnd > 0
  /\ Step \in Nat /\ Headroom \in Nat /\ Ceiling \in Nat /\ Ceiling <= Headroom
  /\ Unit = 12 /\ MaxMultiplier = 36 /\ Climb = 3
  /\ Cooldown = 4 /\ Probing = 5 /\ DeepBefore = 2
BY RateAssumption
DEF LowEnd, Step, Headroom, Least, Most, Unit, MaxMultiplier, Climb, Cooldown, Probing,
    DeepBefore

(* queue_budget_bytes of a rate. *)
LEMMA BudgetIsNat == ASSUME NEW r \in Nat PROVE Budget(r) \in Nat /\ Budget(r) > 0
BY RateAssumption DEF Budget, Most

(* What is asked for, at the largest correction of the largest target.     *)
LEMMA WantBounded ==
  ASSUME NEW t \in Nat, t <= Ceiling, NEW m \in 0 .. 36
  PROVE  (t * m) \div 12 \in Nat /\ (t * m) \div 12 <= Headroom
<1>1. Ceiling \in Nat
  BY RateAssumption
<1>2. t * m \in Nat
  OBVIOUS
<1>3. t * m <= 36 * t
  <2>1. (36 - m) * t >= 0
    OBVIOUS
  <2>2. (36 - m) * t = 36 * t - t * m
    OBVIOUS
  <2> QED
    BY <1>2, <2>1, <2>2
<1>4. t * m <= 36 * Ceiling
  BY <1>1, <1>2, <1>3
<1> DEFINE p == t * m
<1>5. p \in Nat /\ p <= 36 * Ceiling
  BY <1>2, <1>4
<1> HIDE DEF p
<1>6. p \div 12 \in Nat /\ p \div 12 <= 3 * Ceiling
  BY <1>1, <1>5
<1> QED
  BY <1>6 DEF p, Headroom

(* The first connection. *)
LEMMA InitIInv == Init => IInv
<1> SUFFICES ASSUME Init PROVE IInv
  OBVIOUS
<1>1. TypeOK
  <2>1. sample \in [sent : Nat, flushed : BOOLEAN, queued : Nat, behind : BOOLEAN,
                    burst : BOOLEAN]
    BY DEF Init, NoSample
  <2>2. live \in BOOLEAN
    BY DEF Init
  <2> QED
    BY <2>1, <2>2, Bounds, BudgetIsNat, RateAssumption DEF Init, TypeOK
<1>2. StaysInRange /\ Range
  BY Bounds DEF Init, StaysInRange, Range
<1>3. CalmCounts /\ DeepHasCause /\ SampleHasCause /\ BudgetOfTarget /\ CommandTracks
  BY DEF Init, CalmCounts, DeepHasCause, SampleHasCause, BudgetOfTarget, CommandTracks
<1> QED
  BY <1>1, <1>2, <1>3 DEF IInv

(* The rate a client comes back to. *)
LEMMA ConnectStep == IInv /\ Connect => IInv'
<1> SUFFICES ASSUME IInv, Connect PROVE IInv'
  OBVIOUS
<1>1. PICK rate \in Recalled : StartAt(Most(LowEnd, rate))
  BY DEF Connect
<1> DEFINE start == Most(LowEnd, rate)
<1>2. rate \in Nat /\ rate <= Ceiling
  <2>1. memory \in Nat
    BY DEF IInv, TypeOK
  <2> QED
    BY <1>1, <2>1, Bounds DEF Recalled, Least
<1>3. start \in Nat /\ LowEnd <= start /\ start <= Ceiling
  BY <1>2, Bounds DEF Most
<1>4. UNCHANGED <<memory, world>>
  BY DEF Connect
<1> HIDE DEF start
<1>5. StartAt(start)
  BY <1>1 DEF start
<1>6. TypeOK'
  <2>1. sample' \in [sent : Nat, flushed : BOOLEAN, queued : Nat, behind : BOOLEAN,
                     burst : BOOLEAN]
    BY <1>5 DEF StartAt, NoSample
  <2>2. live' \in BOOLEAN
    BY <1>5 DEF StartAt
  <2>3. queue_capacity' \in Nat
    BY <1>3, <1>5, BudgetIsNat DEF StartAt
  <2> QED
    BY <1>3, <1>4, <1>5, <2>1, <2>2, <2>3, Bounds DEF StartAt, IInv, TypeOK, world
<1>7. StaysInRange' /\ Range'
  BY <1>3, <1>4, <1>5, Bounds DEF StartAt, StaysInRange, Range, IInv
<1>8. CalmCounts' /\ DeepHasCause' /\ SampleHasCause' /\ BudgetOfTarget' /\ CommandTracks'
  BY <1>5
  DEF StartAt, CalmCounts, DeepHasCause, SampleHasCause, BudgetOfTarget, CommandTracks
<1> QED
  BY <1>6, <1>7, <1>8 DEF IInv

(* The client goes, or the world changes. *)
LEMMA MoveStep == IInv /\ (Disconnect \/ WorldMoves \/ ControlIsOff) => IInv'
<1> SUFFICES ASSUME IInv, Disconnect \/ WorldMoves \/ ControlIsOff PROVE IInv'
  OBVIOUS
<1>1. /\ UNCHANGED <<target, since_cut, clean, deep, multiplier, asked, commanded, live>>
      /\ UNCHANGED <<queue_capacity, queue, sample, calm>>
  BY DEF Disconnect, WorldMoves, ControlIsOff, controller, encoder
<1>2. /\ memory' \in {memory, target}
      /\ link' \in Nat /\ content' \in 0 .. 4 /\ moves' \in Nat
      /\ phase' \in {"off", "wire"}
      /\ phase' = "wire" => phase = "wire" \/ ~live
  <2>1. link \in Nat /\ content \in 0 .. 4 /\ moves \in Nat
    BY DEF IInv, TypeOK
  <2>2. CASE Disconnect
    BY <2>1, <2>2 DEF Disconnect
  <2>3. CASE WorldMoves
    <3>1. link' \in Nat /\ content' \in 0 .. 4 /\ moves' \in Nat
      BY <2>1, <2>3, RateAssumption DEF WorldMoves
    <3> QED
      BY <2>3, <3>1 DEF WorldMoves
  <2>4. CASE ControlIsOff
    BY <2>1, <2>4 DEF ControlIsOff, world
  <2> QED
    BY <2>2, <2>3, <2>4
<1>3. TypeOK'
  <2>1. live' \in BOOLEAN /\ sample' = sample
    BY <1>1 DEF IInv, TypeOK
  <2> QED
    BY <1>1, <1>2, <2>1 DEF IInv, TypeOK
<1>4. StaysInRange' /\ Range'
  BY <1>1, <1>2 DEF IInv, StaysInRange, Range
<1>5. CalmCounts' /\ DeepHasCause' /\ SampleHasCause' /\ BudgetOfTarget'
  BY <1>1, <1>2 DEF IInv, CalmCounts, DeepHasCause, SampleHasCause, BudgetOfTarget
<1>6. CommandTracks'
  BY <1>1, <1>2 DEF IInv, CommandTracks
<1> QED
  BY <1>3, <1>4, <1>5, <1>6 DEF IInv

(* The least of two rates, and the larger. *)
LEMMA LeastMost ==
  ASSUME NEW a \in Nat, NEW b \in Nat
  PROVE  /\ Least(a, b) \in Nat /\ Least(a, b) <= a /\ Least(a, b) <= b
         /\ Most(a, b) \in Nat /\ Most(a, b) >= a /\ Most(a, b) >= b
         /\ a > 0 => Most(a, b) > 0
BY DEF Least, Most

(* A quarter, two or three of what was commanded. *)
LEMMA SpentIsNat == TypeOK => Spent \in Nat
<1> SUFFICES ASSUME TypeOK PROVE Spent \in Nat
  OBVIOUS
<1> DEFINE rate == Least(commanded, Headroom)
<1>1. rate \in Nat /\ content \in 0 .. 4
  BY Bounds, LeastMost DEF TypeOK
<1> HIDE DEF rate
<1>2. rate * content \in Nat
  BY <1>1
<1> DEFINE product == rate * content
<1>3. product \in Nat
  BY <1>2
<1> HIDE DEF product
<1>4. product \div 4 \in Nat
  BY <1>3
<1> QED
  BY <1>4 DEF Spent, rate, product

(* An interval on the wire: a reading above zero is a backlog or a burst,  *)
(* a flush is always a backlog, and a burst does not follow a burst.       *)
LEMMA WireStep == IInv /\ Wire => IInv'
<1> SUFFICES ASSUME IInv, Wire PROVE IInv'
  OBVIOUS
<1>1. PICK burst \in IF sample.burst THEN {FALSE} ELSE BOOLEAN : Interval(burst)
  BY DEF Wire
<1>2. /\ phase = "wire" /\ phase' = "control"
      /\ UNCHANGED <<target, since_cut, clean, deep, multiplier, asked, commanded, live>>
      /\ UNCHANGED <<queue_capacity, memory, link, content, moves, calm>>
  BY DEF Wire, controller, encoder, world
<1>3. queue \in Nat /\ queue_capacity \in Nat /\ link \in Nat /\ Spent \in Nat
  BY SpentIsNat DEF IInv, TypeOK
<1> DEFINE due == queue + Spent
           sent == Least(link, due)
           left == due - sent
           most == (3 * queue_capacity) \div 4
           seen == IF burst THEN left + most ELSE left
           over == seen > queue_capacity
<1>4. /\ queue' = IF over THEN 0 ELSE left
      /\ sample' = [sent |-> sent, flushed |-> over, queued |-> IF over THEN 0 ELSE seen,
                    behind |-> queue + left > 0, burst |-> burst]
  BY <1>1 DEF Interval
<1>5. /\ sent \in Nat /\ left \in Nat /\ most \in Nat /\ most <= queue_capacity
      /\ seen \in Nat
  <2>1. due \in Nat
    BY <1>3
  <2>2. sent \in Nat /\ sent <= due
    BY <1>3, <2>1, LeastMost
  <2>3. left \in Nat
    BY <2>1, <2>2
  <2>4. most \in Nat /\ most <= queue_capacity
    BY <1>3
  <2> QED
    BY <2>2, <2>3, <2>4
<1>6. /\ over => left > 0
      /\ ~over /\ seen > 0 => left > 0 \/ burst
      /\ queue + left = 0 /\ ~burst => seen = 0
  BY <1>3, <1>5
<1>7. /\ sample'.sent = sent /\ sample'.flushed = over /\ sample'.burst = burst
      /\ sample'.queued = (IF over THEN 0 ELSE seen)
      /\ sample'.behind = (queue + left > 0)
  BY <1>4
<1>12. (sample'.flushed <=> over) /\ (sample'.burst <=> burst)
       /\ (sample'.behind <=> queue + left > 0)
  BY ONLY <1>7, Zenon
<1> HIDE DEF due, sent, left, most, seen, over
<1>8. TypeOK'
  <2>1. burst \in BOOLEAN /\ over \in BOOLEAN
    <3>1. burst \in BOOLEAN
      BY ONLY <1>1, Zenon
    <3>2. over \in BOOLEAN
      BY DEF over
    <3> QED
      BY <3>1, <3>2
  <2>2. sample' \in [sent : Nat, flushed : BOOLEAN, queued : Nat, behind : BOOLEAN,
                     burst : BOOLEAN]
    BY <1>4, <1>5, <2>1
  <2>3. queue' \in Nat
    BY <1>4, <1>5
  <2>4. live' \in BOOLEAN
    BY <1>2 DEF IInv, TypeOK
  <2> QED
    BY <1>2, <2>2, <2>3, <2>4 DEF IInv, TypeOK
<1>9. StaysInRange' /\ Range' /\ CalmCounts' /\ BudgetOfTarget'
  BY <1>2 DEF IInv, StaysInRange, Range, CalmCounts, BudgetOfTarget
<1>10. DeepHasCause' /\ CommandTracks'
  BY <1>2 DEF DeepHasCause, CommandTracks
<1>11. SampleHasCause'
  <2>1. sample'.flushed => sample'.behind /\ sample'.queued = 0
    BY <1>3, <1>5, <1>6, <1>7, <1>12
  <2>2. sample'.queued > 0 => queue' > 0 \/ sample'.burst
    BY <1>4, <1>5, <1>6, <1>7, <1>12
  <2>3. ASSUME live', deep' > 0, ~sample'.behind PROVE sample'.queued = 0
    <3>1. queue = 0 /\ left = 0
      BY <1>3, <1>5, <1>12, <2>3
    <3>2. sample.burst
      BY <1>2, <2>3, <3>1 DEF IInv, DeepHasCause
    <3>3. ~burst
      BY <1>1, <3>2
    <3> QED
      BY <1>6, <1>7, <3>1, <3>3
  <2> QED
    BY <2>1, <2>2, <2>3 DEF SampleHasCause
<1> QED
  BY <1>8, <1>9, <1>10, <1>11 DEF IInv

(* What update starts from. *)
LEMMA SampleFacts ==
  IInv => /\ sample.sent \in Nat /\ sample.queued \in Nat /\ sample.flushed \in BOOLEAN
          /\ target \in Nat /\ since_cut \in 0 .. 4 /\ clean \in 0 .. 4
          /\ deep \in 0 .. 2 /\ calm \in 0 .. 5 /\ clean <= calm
          /\ LowEnd <= target /\ target <= Ceiling
          /\ queue_capacity \in Nat
BY Bounds DEF IInv, TypeOK, StaysInRange, CalmCounts

(* The counts a sample leaves behind. *)
LEMMA Counts ==
  IInv => /\ Since \in 0 .. 4 /\ DeepNow \in 0 .. 2
          /\ CleanNow \in 0 .. 4 /\ CleanNow <= calm
          /\ sample.flushed => CleanNow = 0
          /\ sample.flushed => Alarm
          /\ DeepNow > 0 => 2 * sample.queued > queue_capacity
<1> SUFFICES ASSUME IInv
    PROVE  /\ Since \in 0 .. 4 /\ DeepNow \in 0 .. 2
           /\ CleanNow \in 0 .. 4 /\ CleanNow <= calm
           /\ sample.flushed => CleanNow = 0
           /\ sample.flushed => Alarm
           /\ DeepNow > 0 => 2 * sample.queued > queue_capacity
  OBVIOUS
<1>1. Since \in 0 .. 4
  BY SampleFacts, Bounds DEF Since, Least
<1>2. DeepNow \in 0 .. 2 /\ (DeepNow > 0 => 2 * sample.queued > queue_capacity)
  BY SampleFacts, Bounds DEF DeepNow, IsDeep, Least
<1>3. CleanNow \in 0 .. 4 /\ CleanNow <= calm /\ (sample.flushed => CleanNow = 0)
  BY SampleFacts DEF CleanNow
<1>4. sample.flushed => Alarm
  BY DEF Alarm
<1> QED
  BY <1>1, <1>2, <1>3, <1>4

(* A cut goes no lower than the floor. *)
LEMMA LowerBounded ==
  IInv => Lower \in Nat /\ Lower >= LowEnd
<1> SUFFICES ASSUME IInv PROVE Lower \in Nat /\ Lower >= LowEnd
  OBVIOUS
<1>1. StepDown \in Nat
  BY SampleFacts DEF StepDown
<1>2. (sample.sent * 9) \div 10 \in Nat
  BY SampleFacts
<1> DEFINE measured == (sample.sent * 9) \div 10
           next == IF sample.flushed /\ sample.sent > 0
                   THEN Least(StepDown, measured) ELSE StepDown
<1>3. next \in Nat
  BY <1>1, <1>2, LeastMost
<1>4. Lower = Most(LowEnd, next)
  BY DEF Lower
<1> HIDE DEF next
<1> QED
  BY <1>3, <1>4, Bounds, LeastMost

(* A sample that changes nothing but the counts. *)
LEMMA KeepFacts ==
  ASSUME IInv, NEW n \in 0 .. 4, Keep(n), n = CleanNow \/ (~Alarm /\ n <= CleanNow + 1) \/ n = 0
  PROVE  /\ target' = target /\ since_cut' \in 0 .. 4 /\ deep' = DeepNow
         /\ clean' \in 0 .. 4 /\ calm' \in 0 .. 5 /\ clean' <= calm'
<1>1. /\ target' = target /\ since_cut' \in 0 .. 4 /\ deep' = DeepNow /\ clean' = n
      /\ calm' = IF sample.flushed THEN 0 ELSE Least(Probing, calm + 1)
  BY Counts DEF Keep
<1>2. CASE sample.flushed
  <2>1. n = 0 /\ calm' = 0
    BY <1>1, <1>2, Counts
  <2> QED
    BY <1>1, <2>1
<1>3. CASE ~sample.flushed
  <2>1. calm' = Least(5, calm + 1)
    BY <1>1, <1>3, Bounds
  <2>2. n <= CleanNow + 1 /\ CleanNow <= calm /\ CleanNow \in 0 .. 4 /\ calm \in 0 .. 5
    BY Counts, SampleFacts
  <2>3. calm' \in 0 .. 5 /\ n <= calm'
    BY <2>1, <2>2 DEF Least
  <2> QED
    BY <1>1, <2>3
<1> QED
  BY <1>2, <1>3

(* RateControl::update as a whole. *)
LEMMA UpdateFacts ==
  IInv /\ Update =>
    /\ target' \in Nat /\ LowEnd <= target' /\ target' <= Ceiling
    /\ since_cut' \in 0 .. 4 /\ deep' \in 0 .. 2
    /\ clean' \in 0 .. 4 /\ calm' \in 0 .. 5 /\ clean' <= calm'
    /\ target' < target => Alarm
    /\ target' > target => calm' >= 5
    /\ deep' > 0 => 2 * sample.queued > queue_capacity
<1> DEFINE Goal ==
      /\ target' \in Nat /\ LowEnd <= target' /\ target' <= Ceiling
      /\ since_cut' \in 0 .. 4 /\ deep' \in 0 .. 2
      /\ clean' \in 0 .. 4 /\ calm' \in 0 .. 5 /\ clean' <= calm'
      /\ target' < target => Alarm
      /\ target' > target => calm' >= 5
      /\ deep' > 0 => 2 * sample.queued > queue_capacity
<1> SUFFICES ASSUME IInv, Update PROVE Goal
  OBVIOUS
<1>1. CASE Cut
  <2>1. target' = Lower /\ Lower < target /\ Alarm
    BY <1>1 DEF Cut, MayCut
  <2>2. since_cut' = 0 /\ deep' = 0 /\ clean' = CleanNow /\ calm' = 0
    BY <1>1 DEF Cut
  <2>3. CleanNow = 0
    BY <1>1, SampleFacts, Bounds DEF Cut, Alarm, CleanNow, DeepNow
  <2> QED
    BY <2>1, <2>2, <2>3, LowerBounded, SampleFacts, Bounds
<1>2. ASSUME NEW n \in 0 .. 4, Keep(n),
             n = CleanNow \/ (~Alarm /\ n <= CleanNow + 1) \/ n = 0
      PROVE  Goal
  <2>1. /\ target' = target /\ since_cut' \in 0 .. 4 /\ deep' = DeepNow
        /\ clean' \in 0 .. 4 /\ calm' \in 0 .. 5 /\ clean' <= calm'
    BY <1>2, KeepFacts
  <2> QED
    BY <2>1, Counts, SampleFacts
<1>3. CASE SitOut
  BY <1>2, <1>3, Counts DEF SitOut
<1>4. CASE HoldStation
  <2>1. CASE SaysNothing /\ Keep(CleanNow)
    BY <1>2, <2>1, Counts
  <2>2. CASE Keep(0)
    BY <1>2, <2>2
  <2>3. CASE Clean /\ CleanNow + 1 < Probing /\ Keep(CleanNow + 1)
    <3>1. CleanNow + 1 \in 0 .. 4 /\ ~Alarm
      BY <2>3, Counts, Bounds DEF Clean
    <3> QED
      BY <1>2, <2>3, <3>1, Counts
  <2> QED
    BY <1>4, <2>1, <2>2, <2>3 DEF HoldStation
<1>5. CASE Probe
  <2>1. target' = Least(Ceiling, target + Step) /\ target < Ceiling /\ CleanNow + 1 >= 5
    BY <1>5, Bounds DEF Probe
  <2>2. since_cut' = Since /\ deep' = DeepNow /\ clean' = 0 /\ calm' = Least(5, calm + 1)
    BY <1>5, Bounds DEF Probe
  <2>3. target' \in Nat /\ target <= target' /\ target' <= Ceiling
    BY <2>1, SampleFacts, Bounds DEF Least
  <2>4. calm' = 5
    BY <2>1, <2>2, Counts, SampleFacts DEF Least
  <2> QED
    BY <2>2, <2>3, <2>4, Counts, SampleFacts, Bounds
<1> QED
  BY <1>1, <1>3, <1>4, <1>5 DEF Update

(* FrameBudget::command never leaves its range. *)
LEMMA CorrectedFacts == IInv => Corrected \in 12 .. 36
<1> SUFFICES ASSUME IInv PROVE Corrected \in 12 .. 36
  OBVIOUS
<1>1. content \in 0 .. 4 /\ multiplier \in 12 .. 36
  BY Bounds DEF IInv, TypeOK
<1>2. CASE content = 0 \/ content = 4
  BY <1>1, <1>2, Bounds DEF Corrected
<1>3. CASE content \in 1 .. 3
  <2>1. content = 1 \/ content = 2 \/ content = 3
    BY <1>3
  <2>2. Wanted \in 12 .. 36
    BY <2>1, Bounds DEF Wanted, Least
  <2> QED
    BY <1>1, <1>3, <2>2, Bounds DEF Corrected, Least
<1> QED
  BY <1>1, <1>2, <1>3

(* After a command that was taken, what the encoder was told is within the *)
(* hysteresis of what is wanted now.                                       *)
LEMMA CommandFacts ==
  ASSUME IInv, Command, target' \in Nat, target' <= Ceiling
  PROVE  /\ multiplier' \in 12 .. 36
         /\ asked' \in Nat /\ asked' <= Headroom
         /\ commanded' \in Nat /\ commanded' <= Headroom
         /\ live' \in BOOLEAN
         /\ live' => commanded' = asked'
         /\ live' => live
         /\ asked' > 0 =>
              100 * Distance((target' * multiplier') \div Unit, asked') < 8 * asked'
<1> DEFINE want == (target' * multiplier') \div Unit
<1>1. multiplier' \in 12 .. 36
  BY CorrectedFacts DEF Command
<1>2. want \in Nat /\ want <= Headroom
  <2>1. multiplier' \in 0 .. 36
    BY <1>1
  <2>2. /\ (target' * multiplier') \div 12 \in Nat
        /\ (target' * multiplier') \div 12 <= Headroom
    BY <2>1, WantBounded
  <2> QED
    BY <2>2 DEF Unit
<1>3. asked' = IF Worth(want) THEN want ELSE asked
  BY DEF Command
<1>4. asked \in Nat /\ asked <= Headroom /\ commanded \in Nat /\ commanded <= Headroom
  BY DEF IInv, TypeOK, StaysInRange, Range
<1> HIDE DEF want
<1>5. asked' \in Nat /\ asked' <= Headroom
  BY <1>2, <1>3, <1>4
<1>6. asked' > 0 => 100 * Distance(want, asked') < 8 * asked'
  <2>1. CASE Worth(want)
    BY <1>2, <1>3, <2>1 DEF Distance
  <2>2. CASE ~Worth(want)
    BY <1>2, <1>3, <1>4, <2>2 DEF Worth, Distance
  <2> QED
    BY <2>1, <2>2
<1>7. \/ commanded' = asked' /\ live' = live
      \/ commanded' = commanded /\ live' = FALSE
  BY DEF Command, SetBitrate
<1>8. live' \in BOOLEAN /\ (live' => commanded' = asked') /\ (live' => live)
  <2>1. live \in BOOLEAN
    BY DEF IInv, TypeOK
  <2>2. CASE commanded' = asked' /\ live' = live
    <3>1. live' \in BOOLEAN
      BY ONLY <2>1, <2>2, Zenon
    <3>2. live' => live
      BY ONLY <2>2, Zenon
    <3> QED
      BY ONLY <2>2, <3>1, <3>2, Zenon
  <2>3. CASE commanded' = commanded /\ live' = FALSE
    BY <2>3
  <2> QED
    BY <1>7, <2>2, <2>3
<1>9. commanded' \in Nat /\ commanded' <= Headroom
  BY <1>4, <1>5, <1>7
<1> QED
  BY <1>1, <1>5, <1>6, <1>8, <1>9 DEF want

(* The control interval. *)
LEMMA ControlStep == IInv /\ Control => IInv'
<1> SUFFICES ASSUME IInv, Control PROVE IInv'
  OBVIOUS
<1>1. /\ phase = "control" /\ phase' = "wire" /\ live
      /\ Update /\ Command
      /\ queue_capacity' = IF target' = target THEN queue_capacity ELSE Budget(target')
      /\ UNCHANGED <<memory, queue, sample, link, content, moves>>
  BY DEF Control, world
<1>2. /\ target' \in Nat /\ LowEnd <= target' /\ target' <= Ceiling
      /\ since_cut' \in 0 .. 4 /\ deep' \in 0 .. 2
      /\ clean' \in 0 .. 4 /\ calm' \in 0 .. 5 /\ clean' <= calm'
      /\ deep' > 0 => 2 * sample.queued > queue_capacity
  BY <1>1, UpdateFacts
<1>3. /\ multiplier' \in 12 .. 36 /\ asked' \in Nat /\ asked' <= Headroom
      /\ commanded' \in Nat /\ commanded' <= Headroom
      /\ live' \in BOOLEAN /\ (live' => commanded' = asked')
      /\ asked' > 0 =>
           100 * Distance((target' * multiplier') \div Unit, asked') < 8 * asked'
  BY <1>1, <1>2, CommandFacts
<1>4. queue_capacity' = Budget(target') /\ queue_capacity' \in Nat
  BY <1>1, <1>2, BudgetIsNat DEF IInv, BudgetOfTarget
<1>5. TypeOK'
  <2>1. sample' = sample /\ queue' = queue /\ memory' = memory /\ link' = link
        /\ content' = content /\ moves' = moves
    BY <1>1
  <2> QED
    BY <1>1, <1>2, <1>3, <1>4, <2>1, Bounds DEF IInv, TypeOK
<1>6. StaysInRange' /\ Range'
  BY <1>1, <1>2, <1>3, Bounds DEF IInv, StaysInRange, Range
<1>7. CalmCounts' /\ SampleHasCause'
  BY <1>1, <1>2 DEF CalmCounts, SampleHasCause
<1>8. DeepHasCause'
  <2>1. ASSUME deep' > 0 PROVE queue' > 0 \/ sample'.burst
    <3>1. sample.queued > 0
      BY <1>2, <2>1, SampleFacts
    <3>2. queue > 0 \/ sample.burst
      BY <1>1, <3>1 DEF IInv, SampleHasCause
    <3> QED
      BY <1>1, <3>2
  <2> QED
    BY <2>1 DEF DeepHasCause
<1>9. BudgetOfTarget'
  BY <1>4 DEF BudgetOfTarget
<1>10. CommandTracks'
  BY <1>3, <1>4 DEF CommandTracks
<1> QED
  BY <1>5, <1>6, <1>7, <1>8, <1>9, <1>10 DEF IInv

(* Every step. *)
LEMMA NextIInv == IInv /\ [Next]_vars => IInv'
<1> SUFFICES ASSUME IInv, [Next]_vars PROVE IInv'
  OBVIOUS
<1>1. CASE UNCHANGED vars
  BY <1>1 DEF vars, controller, encoder, world, IInv, TypeOK, StaysInRange, Range,
    CalmCounts, DeepHasCause, SampleHasCause, BudgetOfTarget, CommandTracks
<1> QED
  BY <1>1, ConnectStep, MoveStep, WireStep, ControlStep DEF Next

(* The controller's inductive invariant. *)
THEOREM RateIInv == Spec => []IInv
BY InitIInv, NextIInv, PTL DEF Spec

(* The rate stays between floor and ceiling, and what the encoder is told  *)
(* stays within what it was built for.                                     *)
THEOREM RateStaysInRange == Spec => []StaysInRange
<1>1. IInv => StaysInRange
  BY DEF IInv
<1> QED
  BY RateIInv, <1>1, PTL

(* Encoder and queue follow the rate in force as long as orders are taken. *)
THEOREM RateCommandTracks == Spec => []CommandTracks
<1>1. IInv => CommandTracks
  BY DEF IInv
<1> QED
  BY RateIInv, <1>1, PTL

(* A rate that falls while a sample is looked at has a backlog behind it.  *)
LEMMA CutHasCause ==
  ASSUME IInv, [Next]_vars, phase = "control", target' < target
  PROVE  sample.behind
<1>1. Control
  <2>1. target' # target
    BY SampleFacts
  <2> QED
    BY <2>1
    DEF Next, vars, Connect, Disconnect, WorldMoves, Wire, ControlIsOff, controller
<1>2. live /\ Alarm
  BY <1>1, UpdateFacts DEF Control
<1>3. CASE sample.flushed
  BY <1>3 DEF IInv, SampleHasCause
<1>4. CASE ~sample.flushed
  <2>1. DeepNow >= 2
    BY <1>2, <1>4, Bounds DEF Alarm
  <2>2. deep > 0 /\ sample.queued > 0
    BY <2>1, SampleFacts, Bounds DEF DeepNow, IsDeep, Least
  <2> QED
    BY <1>2, <2>2 DEF IInv, SampleHasCause
<1> QED
  BY <1>3, <1>4

(* Only a link that leaves something behind is answered with a cut. *)
THEOREM RateCutHasCause == Spec => BurstAloneNeverCuts
<1>1. IInv /\ [Next]_vars => [phase = "control" /\ target' < target => sample.behind]_vars
  BY CutHasCause
<1> QED
  BY RateIInv, <1>1, PTL DEF Spec, BurstAloneNeverCuts

(* No probe comes within five samples of a flush or a cut. *)
THEOREM RateProbesLate == Spec => NoProbeIntoTrouble
<1>1. IInv /\ [Next]_vars => [Control /\ target' > target => calm' >= Probing]_vars
  BY UpdateFacts, Bounds DEF Control
<1> QED
  BY RateIInv, <1>1, PTL DEF Spec, NoProbeIntoTrouble
=============================================================================
