---------------------------- MODULE RateControl ----------------------------
(***************************************************************************)
(* How fast the picture is sent: RateControl::update, FrameBudget::command *)
(* and RateMemory (src/sender/rate_control.cpp, rate_memory.h), with the   *)
(* control interval of run_h264 that runs them one after another           *)
(* (main.cpp:568-610) and what they act on: an encoder that spends the     *)
(* rate it was commanded on the frames it gets, a send queue with a        *)
(* budget, and a link that carries so much per interval.                   *)
(*                                                                         *)
(* Rates are integers in a unit of choice and queue levels are rate times  *)
(* interval in the same unit, so that what is sent in an interval reads as *)
(* the rate measured over it. An interval is 200 ms (kControlInterval);    *)
(* kCutCooldownSecs, 0.75 s, is four of them. Products are truncated as    *)
(* the code's casts do. --no-adapt, which leaves all this out, is not      *)
(* modelled.                                                               *)
(***************************************************************************)
EXTENDS Integers

CONSTANTS
  Ceiling,     (* --bitrate                                                  *)
  Floor,       (* --min-bitrate, which may be above the ceiling              *)
  MinStep,     (* the least probe, 500 kbit/s                                *)
  BudgetFloor, (* the queue's least budget, 512 KiB                          *)
  Links,       (* rates the link may have                                    *)
  Contents,    (* quarters of the configured frame rate content may run at   *)
  MaxMoves     (* bound on changes of link, content and connection, for TLC  *)

ASSUME RateAssumption ==
  /\ Ceiling \in Nat \ {0} /\ Floor \in Nat \ {0} /\ MinStep \in Nat \ {0}
  /\ BudgetFloor \in Nat \ {0}
  /\ Links \subseteq Nat /\ Contents \subseteq 0 .. 4
  /\ MaxMoves \in Nat

VARIABLES
  phase,           (* "wire": the interval runs; "control": it is looked at;
                      "off": nobody is connected                             *)
  target, since_cut, clean, deep,          (* RateControl                    *)
  multiplier, asked,                       (* FrameBudget, in twelfths; its
                                              commanded_bps_                 *)
  commanded, live, queue_capacity,         (* run_h264's own                 *)
  memory,                                  (* RateMemory, for this client    *)
  queue, sample,                           (* the send queue; what is read   *)
  link, content, moves,                    (* the world                      *)
  (* history, never read by the code: *)
  calm         (* samples since one with a flush or a cut, up to Probing     *)

controller == <<target, since_cut, clean, deep>>
encoder == <<multiplier, asked, commanded, live>>
world == <<link, content, moves>>
vars == <<phase, controller, encoder, queue_capacity, memory, queue, sample, world, calm>>

Cooldown == 4    (* intervals in kCutCooldownSecs                            *)
Probing == 5     (* kCleanIntervalsBeforeProbe                               *)
DeepBefore == 2  (* kDeepIntervalsBeforeCut                                  *)
Unit == 12       (* a multiplier of 1                                        *)
MaxMultiplier == 3 * Unit
Climb == 3       (* kClimbPerInterval                                        *)

Least(a, b) == IF a < b THEN a ELSE b
Most(a, b) == IF a > b THEN a ELSE b
Distance(a, b) == IF a < b THEN b - a ELSE a - b

LowEnd == Least(Floor, Ceiling)
Step == Most(MinStep, Ceiling \div 16)
Budget(rate) == Most(BudgetFloor, (rate * 5) \div 4)
Headroom == 3 * Ceiling

NoSample == [sent |-> 0, flushed |-> FALSE, queued |-> 0, behind |-> FALSE, burst |-> FALSE]
-----------------------------------------------------------------------------
(* A connection whose controller starts at rate: everything is built anew. *)
StartAt(rate) ==
  /\ phase' = "wire"
  /\ target' = rate /\ since_cut' = Cooldown /\ clean' = 0 /\ deep' = 0
  /\ multiplier' = Unit /\ asked' = 0
  /\ commanded' = rate /\ live' = TRUE
  /\ queue_capacity' = Budget(rate)
  /\ queue' = 0 /\ sample' = NoSample
  /\ calm' = 0

Init ==
  /\ phase = "wire"
  /\ target = Ceiling /\ since_cut = Cooldown /\ clean = 0 /\ deep = 0
  /\ multiplier = Unit /\ asked = 0
  /\ commanded = Ceiling /\ live = TRUE
  /\ queue_capacity = Budget(Ceiling)
  /\ memory = 0
  /\ queue = 0 /\ sample = NoSample
  /\ link \in Links /\ content \in Contents /\ moves = 0
  /\ calm = 0

(* RateMemory::recall: the rate as it was, relaxed towards the ceiling by  *)
(* any share, or forgotten. Clamped by the constructor.                    *)
Recalled ==
  {Ceiling} \cup (IF memory = 0 THEN {} ELSE Least(memory, Ceiling) .. Ceiling)

Connect ==
  /\ phase = "off"
  /\ \E rate \in Recalled : StartAt(Most(LowEnd, rate))
  /\ UNCHANGED <<memory, world>>

Disconnect ==
  /\ phase = "wire"
  /\ moves < MaxMoves
  /\ moves' = moves + 1
  /\ phase' = "off"
  /\ memory' = IF live THEN target ELSE memory
  /\ UNCHANGED <<controller, encoder, queue_capacity, queue, sample, link, content, calm>>

WorldMoves ==
  /\ phase = "wire"
  /\ moves < MaxMoves
  /\ moves' = moves + 1
  /\ link' \in Links
  /\ content' \in Contents
  /\ UNCHANGED <<phase, controller, encoder, queue_capacity, memory, queue, sample, calm>>
-----------------------------------------------------------------------------
(* One interval on the wire. The encoder divides the rate it was given by  *)
(* the configured frame rate and spends that on each frame it gets; what   *)
(* the link does not carry stays in the queue, which is thrown away when   *)
(* it overflows. The sample may catch a frame only just handed over, up to *)
(* three quarters of the budget, but not twice in a row.                   *)
Spent == (Least(commanded, Headroom) * content) \div 4

Interval(burst) ==
  LET due == queue + Spent
      sent == Least(link, due)
      left == due - sent
      seen == IF burst THEN left + (3 * queue_capacity) \div 4 ELSE left
      over == seen > queue_capacity
  IN  /\ queue' = IF over THEN 0 ELSE left
      /\ sample' = [sent |-> sent, flushed |-> over, queued |-> IF over THEN 0 ELSE seen,
                    behind |-> queue + left > 0, burst |-> burst]

Wire ==
  /\ phase = "wire"
  /\ \E burst \in IF sample.burst THEN {FALSE} ELSE BOOLEAN : Interval(burst)
  /\ phase' = "control"
  /\ UNCHANGED <<controller, encoder, queue_capacity, memory, world, calm>>
-----------------------------------------------------------------------------
(* RateControl::update, condition by condition. *)
(* (Faulty: the time since a cut is not added up; one deep sample will do; *)
(* trouble leaves the clean count alone; the floor is forgotten.)          *)
SinceNever == since_cut
Since == Least(Cooldown, since_cut + 1)
IsDeep == 2 * sample.queued > queue_capacity
DeepNow == IF IsDeep THEN Least(DeepBefore, deep + 1) ELSE 0
CleanAnyway == clean
CleanNow == IF sample.flushed \/ IsDeep THEN 0 ELSE clean
AlarmAtOnce == sample.flushed \/ DeepNow >= 1
Alarm == sample.flushed \/ DeepNow >= DeepBefore

(* What a cut would come down to. *)
StepDown == IF sample.flushed THEN (target * 3) \div 4 ELSE (target * 17) \div 20
Lower ==
  LET measured == (sample.sent * 9) \div 10
  IN  Most(LowEnd, IF sample.flushed /\ sample.sent > 0
                   THEN Least(StepDown, measured) ELSE StepDown)

MayCut == Since >= Cooldown /\ sample.sent < target /\ Lower < target

Cut ==
  /\ Alarm /\ MayCut
  /\ target' = Lower /\ since_cut' = 0 /\ deep' = 0 /\ clean' = CleanNow
  /\ calm' = 0

Keep(cleanNext) ==
  /\ target' = target /\ since_cut' = Since /\ deep' = DeepNow /\ clean' = cleanNext
  /\ calm' = IF sample.flushed THEN 0 ELSE Least(Probing, calm + 1)

SitOut == Alarm /\ ~MayCut /\ Keep(CleanNow)

(* (Faulty: short of the target instead of short of half of it.)           *)
SaysNothingYet == ~Alarm /\ sample.sent < target
SaysNothing == ~Alarm /\ 2 * sample.sent < target
Draining == ~Alarm /\ ~SaysNothing /\ 8 * sample.queued > queue_capacity
Clean == ~Alarm /\ ~SaysNothing /\ ~Draining

HoldStation ==
  \/ SaysNothing /\ Keep(CleanNow)
  \/ Draining /\ Keep(0)
  \/ Clean /\ CleanNow + 1 < Probing /\ Keep(CleanNow + 1)
  \/ Clean /\ CleanNow + 1 >= Probing /\ target >= Ceiling /\ Keep(0)

Probe ==
  /\ Clean /\ CleanNow + 1 >= Probing /\ target < Ceiling
  /\ target' = Least(Ceiling, target + Step)
  /\ since_cut' = Since /\ deep' = DeepNow /\ clean' = 0
  /\ calm' = Least(Probing, calm + 1)

Update == Cut \/ SitOut \/ HoldStation \/ Probe
-----------------------------------------------------------------------------
(* FrameBudget::command. A share of at least nine tenths needs no          *)
(* correction; below a tenth the last one is kept.                         *)
(* (Faulty: the correction has no limit.) *)
WantedUnlimited == (4 * Unit) \div content
Wanted == Least(MaxMultiplier, (4 * Unit) \div content)
Corrected ==
  IF content = 4 THEN Unit
  ELSE IF content = 0 THEN multiplier
  ELSE IF Wanted < multiplier THEN Wanted ELSE Least(Wanted, multiplier + Climb)

(* Eight percent from the last command is worth another call. (Faulty: the *)
(* target's last change is looked at instead.)                             *)
WorthByChange(want) == asked = 0 \/ 100 * Distance(target', target) >= 8 * target
Worth(want) == asked = 0 \/ 100 * Distance(want, asked) >= 8 * asked

(* set_bitrate: the encoder takes the rate, or refuses once and for all.   *)
SetBitrate ==
  \/ commanded' = asked' /\ live' = live
  \/ commanded' = commanded /\ live' = FALSE

Command ==
  /\ multiplier' = Corrected
  /\ LET want == (target' * multiplier') \div Unit
     IN  asked' = IF Worth(want) THEN want ELSE asked
  /\ IF asked' = commanded THEN UNCHANGED <<commanded, live>> ELSE SetBitrate

(* The control interval of run_h264. *)
Control ==
  /\ phase = "control"
  /\ live
  /\ Update
  /\ queue_capacity' = IF target' = target THEN queue_capacity ELSE Budget(target')
  /\ Command
  /\ phase' = "wire"
  /\ UNCHANGED <<memory, queue, sample, world>>

ControlIsOff ==
  /\ phase = "control"
  /\ ~live
  /\ phase' = "wire"
  /\ UNCHANGED <<controller, encoder, queue_capacity, memory, queue, sample, world, calm>>

Next == Connect \/ Disconnect \/ WorldMoves \/ Wire \/ Control \/ ControlIsOff

Spec == Init /\ [][Next]_vars

(* The loop runs while there is a connection, and the receiver reconnects. *)
Progress == Wire \/ Control \/ ControlIsOff \/ Connect
FairSpec == Spec /\ WF_vars(Progress)
-----------------------------------------------------------------------------
TypeOK ==
  /\ phase \in {"wire", "control", "off"}
  /\ target \in Nat /\ since_cut \in 0 .. Cooldown
  /\ clean \in 0 .. Probing - 1 /\ deep \in 0 .. DeepBefore
  /\ multiplier \in Unit .. MaxMultiplier /\ asked \in Nat /\ commanded \in Nat
  /\ live \in BOOLEAN
  /\ queue_capacity \in Nat /\ memory \in Nat /\ queue \in Nat
  /\ sample \in [sent : Nat, flushed : BOOLEAN, queued : Nat, behind : BOOLEAN,
                 burst : BOOLEAN]
  /\ link \in Nat /\ content \in 0 .. 4 /\ moves \in Nat
  /\ calm \in 0 .. Probing

(* The rate stays between the floor and the ceiling whatever is measured   *)
(* and however often the client comes back, and what the encoder is told   *)
(* never exceeds what it was built for (rate_control.h:166-169).           *)
StaysInRange ==
  /\ LowEnd <= target /\ target <= Ceiling
  /\ commanded <= Headroom

(* Between samples an encoder that takes its orders is within the          *)
(* hysteresis of what the controller wants, and the queue's budget is the  *)
(* one for the rate in force: small changes do not add up to a drift.      *)
CommandTracks ==
  phase = "wire" /\ live /\ asked > 0 =>
    /\ commanded = asked
    /\ 100 * Distance((target * multiplier) \div Unit, commanded) < 8 * commanded
    /\ queue_capacity = Budget(target)

(* The rate is cut only if the link left something behind in this interval *)
(* or the one before: a frame caught on its way never costs quality alone. *)
BurstAloneNeverCuts ==
  [][phase = "control" /\ target' < target => sample.behind]_vars

(* The rate is raised only after five samples in a row without a flush or  *)
(* a cut.                                                                  *)
NoProbeIntoTrouble == [][Control /\ target' > target => calm' >= Probing]_vars

Overloaded == Spent > link /\ target > link /\ target > LowEnd

(* A link that carries neither the target nor what is sent is answered:    *)
(* the rate comes down until it does, or is the least allowed. (Between    *)
(* the two, where the hysteresis lets what is sent exceed the target by    *)
(* less than 8%, it is not: update takes the target for all that was asked *)
(* of the link, rate_control.cpp:68-71, and the queue may overflow again   *)
(* and again without a cut.)                                               *)
OverloadAnswered == Overloaded ~> ~Overloaded \/ ~live

ClearLink == phase # "off" /\ live /\ link >= Headroom /\ content = 4

(* A link that carries everything is used to the full again.               *)
ClearLinkUsed ==
  <>[]~sample.burst => (ClearLink ~> target = Ceiling \/ ~ClearLink)

(* main.cpp:598-600: an encoder that refuses leaves the rate where it is,  *)
(* "so the queue keeps the budget that matches it".                        *)
RefusalKeepsBudget ==
  [][phase = "control" /\ live /\ ~live' => queue_capacity' = queue_capacity]_vars
==============================================================================
