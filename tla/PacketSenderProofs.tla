------------------------- MODULE PacketSenderProofs -------------------------
(***************************************************************************)
(* The send queue, for every choice of packet sizes, budgets and number of *)
(* packets, in three layers.                                               *)
(*                                                                         *)
(* IInv: where packets are and in what order.  Its parts are proved        *)
(* together: none is inductive alone, since what the drain thread leaves   *)
(* behind depends on where it stopped, and where packets are depends on    *)
(* the stamps being used up in order.                                      *)
(*                                                                         *)
(* Ledger, over IInv: what is counted.  That the sum of the sizes changes  *)
(* by the size of what joins or leaves a finite set would be an induction; *)
(* it is shown by a smallest set for which it fails, which strict          *)
(* inclusion on finite sets, being well founded, would have.               *)
(*                                                                         *)
(* The refinement of SendQueue, over both: what a push, a pop or an exit   *)
(* does to the sorted sequence of marks that QueuePromise makes of a set.  *)
(***************************************************************************)
EXTENDS QueuePromise, FiniteSetTheorems, SequenceTheorems, WellFoundedInduction, TLAPS

(* Where the drain thread is, against what the flags and its local say. *)
ThreadState ==
  /\ packet # None <=> thread \in {"sending", "sent"}
  /\ thread = "sending" => packet \notin sent
  /\ thread = "sent" => packet \in sent
  /\ thread = "failed" => dead
  /\ dead => thread \in {"failed", "exited"}
  /\ thread = "exited" => stop \/ dead
  /\ stop <=> owner # "live"
  /\ stop => queue = {}

(* Stamps are handed out in order and never reused. *)
StampsUsedUp == \A p \in Everything : p.seq \in 1 .. pushed

IInv ==
  /\ ShapeOK
  /\ ThreadState
  /\ StampsUsedUp
  /\ NoLostWakeup
  /\ NothingStranded
  /\ NothingVanishes
  /\ InOrder
-----------------------------------------------------------------------------
(* The front of a non-empty queue of stamped packets exists and is its     *)
(* oldest packet.                                                          *)
LEMMA LeastStamp ==
  ASSUME NEW Q \in SUBSET Packet, IsFiniteSet(Q), Q # {}
  PROVE  \E p \in Q : \A q \in Q : p.seq <= q.seq
<1> DEFINE Before(p) == {q \in Q : q.seq <= p.seq}
           T == {Before(p) : p \in Q}
<1>1. T \subseteq FiniteSubsetsOf(Q)
  BY FS_Subset DEF FiniteSubsetsOf
<1>2. T # {}
  OBVIOUS
<1>3. IsWellFoundedOn(StrictSubsetOrdering(Q), FiniteSubsetsOf(Q))
  BY FS_StrictSubsetOrderingWellFounded
<1> HIDE DEF T
<1>4. PICK x \in T : \A y \in T : <<y, x>> \notin StrictSubsetOrdering(Q)
  BY <1>1, <1>2, <1>3, WFMin
<1>5. PICK p \in Q : x = Before(p)
  BY <1>4 DEF T
<1>6. ASSUME NEW q \in Q, ~(p.seq <= q.seq)
      PROVE  FALSE
  <2>1. q.seq \in Nat /\ p.seq \in Nat
    BY DEF Packet
  <2>2. Before(q) \subseteq Before(p)
    BY <1>6, <2>1 DEF Packet
  <2>3. p \in Before(p) /\ p \notin Before(q)
    BY <1>6, <2>1
  <2>4. Before(q) \in T
    BY DEF T
  <2>5. <<Before(q), x>> \in StrictSubsetOrdering(Q)
    BY <1>5, <2>2, <2>3 DEF StrictSubsetOrdering
  <2> QED
    BY <1>4, <2>4, <2>5
<1> QED
  BY <1>6

(* So Oldest, the front of queue_, is in the queue and no packet is older. *)
LEMMA OldestIsLeast ==
  ASSUME queue \subseteq Packet, queue # {}, IsFiniteSet(queue)
  PROVE  Oldest \in queue /\ \A q \in queue : Oldest.seq <= q.seq
BY LeastStamp DEF Oldest
-----------------------------------------------------------------------------
(* The bytes of a set of packets one by one: the pairs of a packet and a   *)
(* position in it.  Counting them is another way to add up the sizes.      *)
Strip(p) == {p} \X (1 .. p.size)
Units(S) == UNION {Strip(p) : p \in S}

(* One packet's bytes are as many as its size. *)
LEMMA StripSize ==
  ASSUME NEW p \in Packet
  PROVE  IsFiniteSet(Strip(p)) /\ Cardinality(Strip(p)) = p.size
<1>1. p.size \in Nat /\ p.size > 0
  BY DEF Packet
<1>2. IsFiniteSet({p}) /\ Cardinality({p}) = 1
  BY FS_Singleton
<1>3. IsFiniteSet(1 .. p.size) /\ Cardinality(1 .. p.size) = p.size
  BY <1>1, FS_Interval
<1>4. 1 * p.size = p.size
  BY <1>1
<1> QED
  <2> DEFINE one == {p}
             places == 1 .. p.size
  <2> HIDE DEF one, places
  <2>1. IsFiniteSet(one \X places) /\ Cardinality(one \X places) = 1 * p.size
    <3>1. /\ IsFiniteSet(one) /\ Cardinality(one) = 1
          /\ IsFiniteSet(places) /\ Cardinality(places) = p.size
      BY <1>2, <1>3 DEF one, places
    <3>2. /\ IsFiniteSet(one \X places)
          /\ Cardinality(one \X places) = Cardinality(one) * Cardinality(places)
      BY <3>1, FS_Product
    <3> QED
      BY <3>1, <3>2
  <2> QED
    BY <1>4, <2>1 DEF Strip, one, places

(* A finite set of packets has finitely many bytes. *)
LEMMA UnitsFinite ==
  ASSUME NEW S \in SUBSET Packet, IsFiniteSet(S)
  PROVE  IsFiniteSet(Units(S)) /\ Cardinality(Units(S)) \in Nat
<1> DEFINE strips == {Strip(p) : p \in S}
           f == [p \in S |-> Strip(p)]
<1>1. f \in Surjection(S, strips)
  BY DEF Surjection
<1>2. IsFiniteSet(strips)
  BY <1>1, FS_Surjection
<1>3. \A T \in strips : IsFiniteSet(T)
  BY StripSize
<1> HIDE DEF strips
<1>4. IsFiniteSet(UNION strips)
  BY <1>2, <1>3, FS_UNION
<1> QED
  BY <1>4, FS_CardinalityType DEF Units, strips

(* Packets of two disjoint sets share no byte. *)
LEMMA UnitsUnion ==
  ASSUME NEW S \in SUBSET Packet, IsFiniteSet(S),
         NEW T \in SUBSET Packet, IsFiniteSet(T), S \cap T = {}
  PROVE  Cardinality(Units(S \cup T)) = Cardinality(Units(S)) + Cardinality(Units(T))
<1>1. Units(S \cup T) = Units(S) \cup Units(T)
  BY DEF Units
<1>2. Units(S) \cap Units(T) = {}
  BY DEF Units, Strip
<1>3. Cardinality({}) = 0
  BY FS_EmptySet
<1>4. /\ IsFiniteSet(Units(S)) /\ Cardinality(Units(S)) \in Nat
      /\ IsFiniteSet(Units(T)) /\ Cardinality(Units(T)) \in Nat
  BY UnitsFinite
<1>5. Cardinality(Units(S) \cup Units(T)) =
        Cardinality(Units(S)) + Cardinality(Units(T)) - Cardinality(Units(S) \cap Units(T))
  BY ONLY <1>4, FS_Union
<1>6. Cardinality(Units(S) \cap Units(T)) = 0
  BY <1>2, <1>3
<1>7. Cardinality(Units(S) \cup Units(T)) = Cardinality(Units(S)) + Cardinality(Units(T))
  BY ONLY <1>4, <1>5, <1>6
<1> QED
  BY <1>1, <1>7

(* The bytes of one packet alone. *)
LEMMA UnitsOne ==
  ASSUME NEW p \in Packet
  PROVE  Units({p}) = Strip(p)
BY DEF Units

(* Any packet of a set can be the one counted first. *)
LEMMA UnitsRest ==
  ASSUME NEW S \in SUBSET Packet, IsFiniteSet(S), NEW p \in S
  PROVE  Cardinality(Units(S)) = p.size + Cardinality(Units(S \ {p}))
<1>1. /\ IsFiniteSet({p}) /\ {p} \in SUBSET Packet
      /\ IsFiniteSet(S \ {p}) /\ S \ {p} \in SUBSET Packet
      /\ (S \ {p}) \cap {p} = {}
  BY FS_Singleton, FS_RemoveElement
<1>2. Cardinality(Units((S \ {p}) \cup {p})) = Cardinality(Units(S \ {p})) + Cardinality(Units({p}))
  BY <1>1, UnitsUnion
<1>3. Cardinality(Units({p})) = p.size /\ p.size \in Nat
  BY UnitsOne, StripSize DEF Packet
<1>4. Cardinality(Units(S \ {p})) \in Nat
  BY <1>1, UnitsFinite
<1>5. (S \ {p}) \cup {p} = S
  OBVIOUS
<1>6. Cardinality(Units(S)) = Cardinality(Units(S \ {p})) + Cardinality(Units({p}))
  BY <1>2, <1>5
<1> QED
  BY ONLY <1>3, <1>4, <1>6

(* The recursion by which Bytes adds up the sizes, over the subsets of S.  *)
AnyOf(s) == CHOOSE x \in s : TRUE
AddsUp(f, S) ==
  f = [s \in SUBSET S |-> IF s = {} THEN 0 ELSE AnyOf(s).size + f[s \ {AnyOf(s)}]]

(* Bytes is the community modules' fold: some function adds up by AddsUp. *)
LEMMA BytesRecursion ==
  ASSUME NEW S
  PROVE  Bytes(S) = (CHOOSE f : AddsUp(f, S))[S]
BY DEF Bytes, MapThenSumSet, MapThenFoldSet, AddsUp, AnyOf

(* Such a function exists: counting the bytes one by one adds up. *)
LEMMA AddsUpExists ==
  ASSUME NEW S \in SUBSET Packet, IsFiniteSet(S)
  PROVE  AddsUp([s \in SUBSET S |-> Cardinality(Units(s))], S)
<1> DEFINE f == [s \in SUBSET S |-> Cardinality(Units(s))]
<1>1. ASSUME NEW s \in SUBSET S
      PROVE  f[s] = IF s = {} THEN 0 ELSE AnyOf(s).size + f[s \ {AnyOf(s)}]
  <2>1. CASE s = {}
    <3>1. Units({}) = {}
      BY DEF Units
    <3> QED
      BY <2>1, <3>1, FS_EmptySet
  <2>2. CASE s # {}
    <3>1. AnyOf(s) \in s
      BY <2>2 DEF AnyOf
    <3>2. IsFiniteSet(s) /\ s \in SUBSET Packet
      BY FS_Subset
    <3>3. Cardinality(Units(s)) = AnyOf(s).size + Cardinality(Units(s \ {AnyOf(s)}))
      BY <3>1, <3>2, UnitsRest
    <3> QED
      BY <2>2, <3>3
  <2> QED
    BY <2>1, <2>2
<1>2. f = [s \in SUBSET S |-> f[s]]
  OBVIOUS
<1> HIDE DEF f
<1>3. f = [s \in SUBSET S |-> IF s = {} THEN 0 ELSE AnyOf(s).size + f[s \ {AnyOf(s)}]]
  BY <1>1, <1>2
<1>4. AddsUp(f, S)
  BY <1>3 DEF AddsUp
<1> QED
  BY <1>4 DEF f

(* And it is the only one: take a smallest subset on which another function*)
(* that adds up differs from the count; taking a packet out of it leaves a *)
(* smaller one.  So the order in which Bytes adds the sizes is immaterial. *)
LEMMA BytesCountsUnits ==
  ASSUME NEW S \in SUBSET Packet, IsFiniteSet(S)
  PROVE  Bytes(S) = Cardinality(Units(S))
<1> DEFINE f == CHOOSE g : AddsUp(g, S)
<1>1. AddsUp(f, S)
  BY AddsUpExists
<1> HIDE DEF f
<1> DEFINE Wrong == {s \in SUBSET S : f[s] # Cardinality(Units(s))}
<1>2. Wrong = {}
  <2> SUFFICES ASSUME Wrong # {} PROVE FALSE
    OBVIOUS
  <2>1. Wrong \subseteq FiniteSubsetsOf(S)
    BY FS_Subset DEF FiniteSubsetsOf
  <2> HIDE DEF Wrong
  <2>2. IsWellFoundedOn(StrictSubsetOrdering(S), FiniteSubsetsOf(S))
    BY FS_StrictSubsetOrderingWellFounded
  <2>3. PICK s \in Wrong : \A y \in Wrong : <<y, s>> \notin StrictSubsetOrdering(S)
    BY <2>1, <2>2, WFMin
  <2>4. s \in SUBSET S /\ IsFiniteSet(s) /\ s \in SUBSET Packet /\ f[s] # Cardinality(Units(s))
    BY <2>1, <2>3 DEF Wrong, FiniteSubsetsOf
  <2>5. CASE s = {}
    <3>1. Units({}) = {}
      BY DEF Units
    <3> QED
      BY <1>1, <2>4, <2>5, <3>1, FS_EmptySet DEF AddsUp
  <2>6. CASE s # {}
    <3> DEFINE x == AnyOf(s)
    <3>1. x \in s
      BY <2>6 DEF AnyOf
    <3>2. f[s] = x.size + f[s \ {x}]
      BY <1>1, <2>4, <2>6 DEF AddsUp
    <3> HIDE DEF x
    <3>3. <<s \ {x}, s>> \in StrictSubsetOrdering(S)
      BY <2>4, <3>1 DEF StrictSubsetOrdering
    <3>4. f[s \ {x}] = Cardinality(Units(s \ {x}))
      BY <2>3, <2>4, <3>3 DEF Wrong
    <3> QED
      BY <2>4, <3>1, <3>2, <3>4, UnitsRest
  <2> QED
    BY <2>5, <2>6
<1> QED
  BY <1>2, BytesRecursion DEF f

(* queued_bytes can be compared with a budget: a sum of sizes is a number. *)
LEMMA BytesType ==
  ASSUME NEW S \in SUBSET Packet, IsFiniteSet(S)
  PROVE  Bytes(S) \in Nat
BY BytesCountsUnits, UnitsFinite

(* Nothing queued weighs nothing. *)
LEMMA BytesNone == Bytes({}) = 0
<1>1. Units({}) = {} /\ {} \in SUBSET Packet
  BY DEF Units
<1> QED
  BY <1>1, BytesCountsUnits, FS_EmptySet

(* What two disjoint sets of packets weigh together. *)
LEMMA BytesUnion ==
  ASSUME NEW S \in SUBSET Packet, IsFiniteSet(S),
         NEW T \in SUBSET Packet, IsFiniteSet(T), S \cap T = {}
  PROVE  Bytes(S \cup T) = Bytes(S) + Bytes(T)
<1>1. IsFiniteSet(S \cup T) /\ S \cup T \in SUBSET Packet
  BY FS_Union
<1> QED
  BY <1>1, BytesCountsUnits, UnitsUnion

(* One packet weighs its size. *)
LEMMA BytesOne ==
  ASSUME NEW p \in Packet
  PROVE  Bytes({p}) = p.size
BY FS_Singleton, BytesCountsUnits, UnitsOne, StripSize

(* push(): the newcomer adds its own size. *)
LEMMA BytesAdd ==
  ASSUME NEW S \in SUBSET Packet, IsFiniteSet(S), NEW p \in Packet, p \notin S
  PROVE  Bytes(S \cup {p}) = Bytes(S) + p.size
<1>1. IsFiniteSet({p}) /\ S \cap {p} = {}
  BY FS_Singleton
<1> QED
  BY <1>1, BytesOne, BytesUnion

(* A pop or a flush takes away exactly what leaves, and a part of the queue*)
(* never weighs more than the whole.                                       *)
LEMMA BytesLess ==
  ASSUME NEW S \in SUBSET Packet, IsFiniteSet(S), NEW T \in SUBSET S
  PROVE  Bytes(S \ T) = Bytes(S) - Bytes(T) /\ Bytes(T) <= Bytes(S)
<1>1. IsFiniteSet(T) /\ IsFiniteSet(S \ T) /\ T \in SUBSET Packet /\ S \ T \in SUBSET Packet
  BY FS_Subset
<1>2. S = T \cup (S \ T) /\ T \cap (S \ T) = {}
  OBVIOUS
<1>3. Bytes(S) = Bytes(T) + Bytes(S \ T)
  BY <1>1, <1>2, BytesUnion
<1> QED
  BY <1>1, <1>3, BytesType
-----------------------------------------------------------------------------
(* A fresh queue and its thread. *)
LEMMA InitIInv == Init => IInv
<1> SUFFICES ASSUME Init PROVE IInv
  OBVIOUS
<1> USE DEF Init, NoCount, Counters
<1>1. Everything = {}
  BY DEF Everything, Flight
<1>2. ShapeOK
  BY FS_EmptySet DEF ShapeOK
<1>3. ThreadState /\ StampsUsedUp /\ NoLostWakeup /\ NothingStranded
  BY <1>1 DEF ThreadState, StampsUsedUp, NoLostWakeup, NothingStranded
<1>4. NothingVanishes /\ InOrder
  BY <1>1 DEF NothingVanishes, InOrder, Flight
<1> QED
  BY <1>2, <1>3, <1>4 DEF IInv

(* A step that changes neither the packets nor the thread nor the flags    *)
(* keeps every part of the invariant that is not about types.              *)
LEMMA PacketsUntouched ==
  ASSUME IInv, ShapeOK',
         UNCHANGED <<queue, stop, dead, packet, history>>,
         (owner = "live") <=> (owner' = "live"),
         \/ UNCHANGED thread
         \/ thread = "awake" /\ thread' = "parked" /\ ~stop /\ queue = {}
         \/ thread = "awake" /\ thread' = "exited" /\ stop
  PROVE  IInv'
<1> USE DEF history
<1>1. ThreadState' /\ NoLostWakeup' /\ NothingStranded'
  BY DEF IInv, ThreadState, NoLostWakeup, NothingStranded
<1>2. Everything' = Everything /\ Flight' = Flight
  BY DEF Everything, Flight
<1>3. StampsUsedUp' /\ InOrder'
  BY <1>2 DEF IInv, StampsUsedUp, InOrder
<1>4. NothingVanishes'
  BY <1>2 DEF IInv, NothingVanishes, Video, IsVideo
<1> QED
  BY <1>1, <1>3, <1>4 DEF IInv

(* push(): the stamp is new, whichever of its three outcomes it meets. *)
LEMMA PushStep ==
  ASSUME IInv, NEW k \in Kinds, NEW n \in SizeOf[k], Push(k, n)
  PROVE  IInv'
<1> DEFINE p == Stamped(k, n)
<1>1. /\ p \in Packet /\ p.seq = pushed + 1 /\ p.kind = k
      /\ pushed \in Nat /\ IsVideo(p) = (k # "control")
  BY SizeAssumption DEF Stamped, Packet, Kinds, IInv, ShapeOK, IsVideo
<1>2. /\ ~stop /\ ~dead /\ owner = "live" /\ pushed' = pushed + 1
      /\ UNCHANGED <<max_queued_bytes, stop, dead, packet, owner, totals, sent, cleared>>
  BY DEF Push, Refusing
<1>3. \/ /\ queue' = queue \cup {p}
         /\ UNCHANGED <<stats, dropped, resync_requested>> /\ thread' = Notified
      \/ /\ queue' = (queue \ Victims) \cup {p}
         /\ dropped' = dropped \cup Victims
         /\ stats' = Flushed(Victims)
         /\ UNCHANGED resync_requested /\ thread' = Notified
      \/ /\ queue' = queue \ Victims
         /\ dropped' = dropped \cup Victims \cup {p}
         /\ stats' = Flushed(Victims \cup {p})
         /\ resync_requested' = TRUE /\ UNCHANGED thread
         /\ IsVideo(p)
  <2>1. Enqueue(p) \/ FlushAndKeep(p) \/ FlushAndDrop(p)
    BY DEF Push
  <2> QED
    BY <2>1, <1>1 DEF Enqueue, FlushAndKeep, FlushAndDrop, Fits
<1> HIDE DEF p
<1>4. /\ Victims \subseteq queue /\ IsFiniteSet(Victims) /\ IsFiniteSet(queue)
      /\ \A v \in Victims : IsVideo(v)
  BY FS_Subset DEF Victims, Video, IInv, ShapeOK
<1>5. IsFiniteSet(Victims \cup {p}) /\ IsFiniteSet(queue \cup {p})
      /\ IsFiniteSet(queue \ Victims) /\ IsFiniteSet((queue \ Victims) \cup {p})
  BY <1>4, FS_AddElement, FS_Subset
<1>6. Everything' = Everything \cup {p} /\ Flight' = Flight
  BY <1>2, <1>3, <1>4 DEF Everything, Flight
<1>7. \A q \in Everything : q \in Packet /\ q.seq \in Nat /\ q.seq < p.seq
  BY <1>1 DEF IInv, StampsUsedUp, ShapeOK, Everything, Flight, Packet
<1>8. p \notin Everything
  BY <1>1, <1>7
<1>9. thread # "exited" /\ thread # "failed"
  BY <1>2 DEF IInv, ThreadState
<1>10. ShapeOK'
  <2>1. stats' \in Counters
    <3>1. stats \in Counters
      BY DEF IInv, ShapeOK
    <3>2. ASSUME NEW lost, IsFiniteSet(lost) PROVE Flushed(lost) \in Counters
      <4>1. Cardinality(lost) \in Nat
        BY <3>2, FS_CardinalityType
      <4>2. stats.dropped + Cardinality(lost) \in Nat /\ stats.flushes + 1 \in Nat
        BY <3>1, <4>1 DEF Counters
      <4> QED
        BY <3>1, <4>2 DEF Flushed, Counters
    <3> QED
      BY <1>3, <1>4, <1>5, <3>1, <3>2
  <2>2. queue' \subseteq Packet /\ IsFiniteSet(queue') /\ dropped' \subseteq Packet
    BY <1>1, <1>3, <1>4, <1>5 DEF IInv, ShapeOK
  <2>3. thread' \in {"awake", "parked", "sending", "sent", "failed", "exited"}
    BY <1>3 DEF IInv, ShapeOK, Notified
  <2>4. resync_requested' \in BOOLEAN
    BY <1>3 DEF IInv, ShapeOK
  <2> QED
    BY <1>1, <1>2, <2>1, <2>2, <2>3, <2>4 DEF IInv, ShapeOK
<1>11. ThreadState' /\ NoLostWakeup' /\ NothingStranded'
  BY <1>2, <1>3, <1>4, <1>9 DEF IInv, ThreadState, NoLostWakeup, NothingStranded, Notified
<1>12. StampsUsedUp'
  BY <1>1, <1>2, <1>6 DEF IInv, StampsUsedUp
<1>13. InOrder'
  BY <1>2, <1>3, <1>6, <1>7 DEF IInv, InOrder, Everything
<1>14. NothingVanishes'
  <2>1. \A m \in 1 .. pushed' : \E q \in Everything' : q.seq = m
    BY <1>1, <1>2, <1>6 DEF IInv, NothingVanishes
  <2>2. \A q, r \in Everything' : q.seq = r.seq => q = r
    BY <1>1, <1>6, <1>7 DEF IInv, NothingVanishes
  <2>3. \A q \in dropped' : IsVideo(q)
    BY <1>3, <1>4 DEF IInv, NothingVanishes
  <2>4. /\ queue' \cap (Flight \cup sent \cup dropped' \cup cleared) = {}
        /\ dropped' \cap (Flight \cup sent \cup cleared) = {}
    BY <1>3, <1>4, <1>8 DEF IInv, NothingVanishes, Everything
  <2> QED
    BY <1>2, <1>6, <2>1, <2>2, <2>3, <2>4 DEF IInv, NothingVanishes, Video, IsVideo
<1> QED
  BY <1>10, <1>11, <1>12, <1>13, <1>14 DEF IInv

(* run() takes the front: everything left is younger. *)
LEMMA PopStep == IInv /\ Pop => IInv'
<1> SUFFICES ASSUME IInv, Pop PROVE IInv'
  OBVIOUS
<1> DEFINE p == Oldest
<1>1. p \in queue /\ \A q \in queue : p.seq <= q.seq
  BY OldestIsLeast DEF Pop, IInv, ShapeOK
<1>2. /\ packet' = p /\ queue' = queue \ {p}
      /\ thread = "awake" /\ thread' = "sending"
      /\ ~stop /\ UNCHANGED <<resync_requested, stats, max_queued_bytes, stop,
                              dead, owner, totals, pushed, sent, dropped, cleared>>
  BY DEF Pop, history
<1> HIDE DEF p
<1>3. p \in Packet /\ p # None /\ packet = None /\ p \in Everything
  BY <1>1, <1>2, SizeAssumption DEF IInv, ThreadState, ShapeOK, Packet, Everything
<1>4. Flight = {} /\ Flight' = {p} /\ Everything' = Everything
  BY <1>1, <1>2, <1>3 DEF Flight, Everything
<1>5. ShapeOK'
  BY <1>2, <1>3, FS_RemoveElement DEF IInv, ShapeOK
<1>6. p \notin sent
  BY <1>1 DEF IInv, NothingVanishes
<1>7. ThreadState' /\ NoLostWakeup' /\ NothingStranded'
  BY <1>2, <1>3, <1>6 DEF IInv, ThreadState, NoLostWakeup, NothingStranded
<1>8. StampsUsedUp'
  BY <1>2, <1>4 DEF IInv, StampsUsedUp
<1>9. \A q \in queue' : p.seq < q.seq
  <2>1. ASSUME NEW q \in queue' PROVE p.seq < q.seq
    <3>1. q \in queue /\ q # p /\ p.seq <= q.seq
      BY <1>1, <1>2
    <3>2. p.seq # q.seq
      BY <1>1, <3>1 DEF IInv, NothingVanishes, Everything
    <3>3. p.seq \in Nat /\ q.seq \in Nat
      BY <1>1, <3>1 DEF IInv, ShapeOK, Packet
    <3> QED
      BY <3>1, <3>2, <3>3
  <2> QED
    BY <2>1
<1>10. InOrder'
  <2>1. \A q \in sent' : q.seq <= p.seq
    BY <1>1, <1>2 DEF IInv, InOrder, ShapeOK, Packet
  <2> QED
    BY <1>2, <1>4, <1>9, <2>1 DEF IInv, InOrder
<1>11. NothingVanishes'
  BY <1>1, <1>2, <1>4 DEF IInv, NothingVanishes, IsVideo
<1> QED
  BY <1>5, <1>7, <1>8, <1>10, <1>11 DEF IInv

(* The send returned: the packet stays in flight until counted. *)
LEMMA SendDoneStep == IInv /\ SendDone => IInv'
<1> SUFFICES ASSUME IInv, SendDone PROVE IInv'
  OBVIOUS
<1>1. /\ thread = "sending" /\ thread' = "sent" /\ sent' = sent \cup {packet}
      /\ UNCHANGED <<lockVars, max_queued_bytes, stop, dead, packet, owner,
                     totals, pushed, dropped, cleared>>
  BY DEF SendDone
<1>2. packet # None /\ Flight = {packet} /\ Flight' = Flight /\ queue' = queue
  BY <1>1 DEF IInv, ThreadState, Flight, lockVars
<1>3. Everything' = Everything
  BY <1>1, <1>2 DEF Everything
<1>4. ShapeOK'
  BY <1>1, <1>2 DEF IInv, ShapeOK, lockVars
<1>5. ThreadState' /\ NoLostWakeup' /\ NothingStranded'
  BY <1>1, <1>2 DEF IInv, ThreadState, NoLostWakeup, NothingStranded
<1>6. StampsUsedUp'
  BY <1>1, <1>3 DEF IInv, StampsUsedUp
<1>7. InOrder'
  BY <1>1, <1>2 DEF IInv, InOrder, ShapeOK, Packet
<1>8. NothingVanishes'
  BY <1>1, <1>2, <1>3 DEF IInv, NothingVanishes, IsVideo
<1> QED
  BY <1>4, <1>5, <1>6, <1>7, <1>8 DEF IInv

(* The sent packet is counted. *)
LEMMA CountStep == IInv /\ Count => IInv'
<1> SUFFICES ASSUME IInv, Count PROVE IInv'
  OBVIOUS
<1>1. /\ thread = "sent" /\ thread' = "awake" /\ packet' = None
      /\ UNCHANGED <<queue, resync_requested, max_queued_bytes, stop, dead, owner,
                     totals, pushed, sent, dropped, cleared>>
  BY DEF Count, history
<1>2. packet \in sent /\ packet \in Packet /\ Flight = {packet} /\ Flight' = {}
  BY <1>1, SizeAssumption DEF IInv, ThreadState, ShapeOK, Flight
<1>3. Everything' = Everything
  BY <1>1, <1>2 DEF Everything
<1>4. ShapeOK'
  <2>1. stats' \in Counters
    <3>1. stats \in Counters /\ packet.size \in Nat
      BY <1>2 DEF IInv, ShapeOK, Packet
    <3>2. /\ stats.bytes + packet.size \in Nat
          /\ (IF IsVideo(packet) THEN stats.video + 1 ELSE stats.video) \in Nat
      BY <3>1 DEF Counters
    <3> QED
      BY <3>1, <3>2 DEF Count, Counters
  <2> QED
    BY <1>1, <2>1 DEF IInv, ShapeOK
<1>5. ThreadState' /\ NoLostWakeup' /\ NothingStranded'
  BY <1>1, <1>2 DEF IInv, ThreadState, NoLostWakeup, NothingStranded
<1>6. StampsUsedUp'
  BY <1>1, <1>3 DEF IInv, StampsUsedUp
<1>7. InOrder'
  BY <1>1, <1>2 DEF IInv, InOrder
<1>8. NothingVanishes'
  BY <1>1, <1>2, <1>3 DEF IInv, NothingVanishes, IsVideo
<1> QED
  BY <1>4, <1>5, <1>6, <1>7, <1>8 DEF IInv

(* The send failed: the packet goes with the connection. *)
LEMMA SendFailedStep == IInv /\ SendFailed => IInv'
<1> SUFFICES ASSUME IInv, SendFailed PROVE IInv'
  OBVIOUS
<1>1. /\ thread = "sending" /\ thread' = "failed" /\ packet' = None /\ dead'
      /\ dead' \in BOOLEAN
      /\ cleared' = cleared \cup {packet}
      /\ UNCHANGED <<lockVars, max_queued_bytes, stop, owner, totals, pushed,
                     sent, dropped>>
  BY DEF SendFailed
<1>2. /\ packet \notin sent /\ packet \in Packet /\ Flight = {packet}
      /\ Flight' = {} /\ queue' = queue
  BY <1>1, SizeAssumption DEF IInv, ThreadState, ShapeOK, Flight, lockVars
<1>3. Everything' = Everything
  BY <1>1, <1>2 DEF Everything
<1>4. ShapeOK'
  BY <1>1, <1>2 DEF IInv, ShapeOK, lockVars
<1>5. ThreadState' /\ NoLostWakeup' /\ NothingStranded'
  BY <1>1, <1>2 DEF IInv, ThreadState, NoLostWakeup, NothingStranded
<1>6. StampsUsedUp'
  BY <1>1, <1>3 DEF IInv, StampsUsedUp
<1>7. InOrder'
  BY <1>1, <1>2 DEF IInv, InOrder
<1>8. NothingVanishes'
  BY <1>1, <1>2, <1>3 DEF IInv, NothingVanishes, IsVideo
<1> QED
  BY <1>4, <1>5, <1>6, <1>7, <1>8 DEF IInv

(* The two steps that discard the whole queue because the connection is    *)
(* over: the drain thread's after a failure, and the destructor's.         *)
LEMMA ClearStep ==
  ASSUME IInv, queue' = {}, cleared' = cleared \cup queue,
         UNCHANGED <<resync_requested, stats, max_queued_bytes, dead, packet,
                     totals, pushed, sent, dropped>>,
         \/ thread = "failed" /\ thread' = "exited" /\ UNCHANGED <<stop, owner>>
         \/ /\ owner = "live" /\ owner' = "stopping" /\ stop' = TRUE
            /\ thread' = Notified
  PROVE  IInv'
<1>1. Everything' = Everything /\ Flight' = Flight
  BY DEF Everything, Flight
<1>2. ShapeOK'
  BY FS_EmptySet DEF IInv, ShapeOK, Notified
<1>3. ThreadState' /\ NoLostWakeup' /\ NothingStranded'
  BY DEF IInv, ThreadState, NoLostWakeup, NothingStranded, Notified
<1>4. StampsUsedUp' /\ InOrder'
  BY <1>1 DEF IInv, StampsUsedUp, InOrder
<1>5. dead' \/ stop'
  BY DEF IInv, ThreadState
<1>6. NothingVanishes'
  BY <1>1, <1>5 DEF IInv, NothingVanishes, IsVideo
<1> QED
  BY <1>2, <1>3, <1>4, <1>6 DEF IInv

(* Any step of run(). *)
LEMMA DrainStep == IInv /\ Drain => IInv'
<1> SUFFICES ASSUME IInv, Drain PROVE IInv'
  OBVIOUS
<1>1. CASE Park
  <2>1. ShapeOK'
    BY <1>1 DEF Park, IInv, ShapeOK, lockVars, history
  <2> QED
    BY <1>1, <2>1, PacketsUntouched DEF Park, lockVars
<1>2. CASE StopSeen
  <2>1. ShapeOK'
    BY <1>2 DEF StopSeen, IInv, ShapeOK, lockVars, history
  <2> QED
    BY <1>2, <2>1, PacketsUntouched DEF StopSeen, lockVars
<1>3. CASE ClearAndExit
  BY <1>3, ClearStep DEF ClearAndExit
<1> QED
  BY <1>1, <1>2, <1>3, PopStep, SendDoneStep, CountStep, SendFailedStep DEF Drain

(* Any call of the owner, destructor included. *)
LEMMA RunLoopStep == IInv /\ RunLoop => IInv'
<1> SUFFICES ASSUME IInv, RunLoop PROVE IInv'
  OBVIOUS
<1> USE DEF lockVars
<1>1. CASE SetMaxQueuedBytes
  <2>1. ShapeOK'
    BY <1>1 DEF SetMaxQueuedBytes, IInv, ShapeOK, history
  <2> QED
    BY <1>1, <2>1, PacketsUntouched DEF SetMaxQueuedBytes
<1>2. CASE TakeResyncRequest
  <2>1. ShapeOK'
    BY <1>2 DEF TakeResyncRequest, IInv, ShapeOK, history
  <2> QED
    BY <1>2, <2>1, PacketsUntouched DEF TakeResyncRequest
<1>3. CASE TakeStats
  <2>1. totals' \in Counters /\ stats' \in Counters
    BY <1>3 DEF TakeStats, IInv, ShapeOK, Plus, NoCount, Counters
  <2>2. ShapeOK'
    BY <1>3, <2>1 DEF TakeStats, IInv, ShapeOK, history
  <2> QED
    BY <1>3, <2>2, PacketsUntouched DEF TakeStats
<1>4. CASE Stop
  BY <1>4, ClearStep DEF Stop
<1>5. CASE Shutdown
  <2>1. ShapeOK'
    BY <1>5 DEF Shutdown, IInv, ShapeOK, history
  <2> QED
    BY <1>5, <2>1, PacketsUntouched DEF Shutdown
<1>6. CASE JoinAndClose
  <2>1. ShapeOK'
    BY <1>6 DEF JoinAndClose, IInv, ShapeOK, history
  <2> QED
    BY <1>6, <2>1, PacketsUntouched DEF JoinAndClose
<1> QED
  BY <1>1, <1>2, <1>3, <1>4, <1>5, <1>6 DEF RunLoop

(* Any step. *)
LEMMA NextIInv == IInv /\ [Next]_vars => IInv'
<1> SUFFICES ASSUME IInv, [Next]_vars PROVE IInv'
  OBVIOUS
<1>1. CASE UNCHANGED vars
  <2>1. ShapeOK'
    BY <1>1 DEF vars, lockVars, history, IInv, ShapeOK
  <2> QED
    BY <1>1, <2>1, PacketsUntouched DEF vars, lockVars, history
<1>2. ASSUME NEW k \in Kinds, NEW n \in SizeOf[k], Push(k, n)
      PROVE  IInv'
  BY <1>2, PushStep
<1> QED
  BY <1>1, <1>2, DrainStep, RunLoopStep DEF Next
-----------------------------------------------------------------------------
(* The byte count, the latency bound it stands for, and the counters.      *)
Ledger ==
  /\ BytesAccounted
  /\ BacklogBounded
  /\ StatsExact
  /\ IsFiniteSet(sent) /\ IsFiniteSet(dropped)

(* What the queue Q holds up to and including v is within the budgets, or  *)
(* v is a keyframe with no video before it: BacklogBounded, packet by packet.*)
Within(Q, v) ==
  LET ahead == {q \in Q : q.seq <= v.seq}
  IN  \/ Bytes(ahead) <= Max(Budgets)
      \/ v.kind = "key" /\ Video(ahead) = {v}

(* Some budget is the largest, and every budget is at most that. *)
LEMMA LargestBudget ==
  Max(Budgets) \in Nat /\ \A b \in Budgets : b <= Max(Budgets)
<1> DEFINE Above(b) == {c \in Budgets : b <= c}
           T == {Above(b) : b \in Budgets}
<1>1. Budgets \subseteq Nat /\ Budgets # {} /\ IsFiniteSet(Budgets)
  BY SizeAssumption
<1>2. T \subseteq FiniteSubsetsOf(Budgets) /\ T # {}
  <2>1. \A b \in Budgets : Above(b) \in SUBSET Budgets
    OBVIOUS
  <2>2. \A b \in Budgets : IsFiniteSet(Above(b))
    BY <1>1, <2>1, FS_Subset
  <2> QED
    BY <1>1, <2>1, <2>2 DEF FiniteSubsetsOf
<1>3. IsWellFoundedOn(StrictSubsetOrdering(Budgets), FiniteSubsetsOf(Budgets))
  BY FS_StrictSubsetOrderingWellFounded
<1> HIDE DEF T
<1>4. PICK x \in T : \A y \in T : <<y, x>> \notin StrictSubsetOrdering(Budgets)
  BY <1>2, <1>3, WFMin
<1>5. PICK b \in Budgets : x = Above(b)
  BY <1>4 DEF T
<1>6. ASSUME NEW c \in Budgets, ~(b >= c)
      PROVE  FALSE
  <2>0. b \in Nat /\ c \in Nat /\ b < c
    BY <1>1, <1>6
  <2>1. Above(c) \subseteq Above(b) /\ b \in Above(b) /\ b \notin Above(c)
    <3>1. \A d \in Budgets : c <= d => b <= d
      BY <1>1, <2>0
    <3>2. b <= b /\ ~(c <= b)
      BY <2>0
    <3> QED
      BY <3>1, <3>2, Zenon
  <2>2. <<Above(c), x>> \in StrictSubsetOrdering(Budgets)
    BY <1>5, <2>1 DEF StrictSubsetOrdering
  <2> QED
    BY <1>4, <2>2 DEF T
<1>7. \E m \in Budgets : \A c \in Budgets : m >= c
  BY <1>6
<1>8. Max(Budgets) \in Budgets /\ \A c \in Budgets : Max(Budgets) >= c
  BY <1>7 DEF Max
<1> QED
  BY <1>1, <1>8

(* Taking packets out of the queue cannot push one that stays over. *)
LEMMA WithinShrinks ==
  ASSUME NEW Q \in SUBSET Packet, IsFiniteSet(Q), NEW R \in SUBSET Q,
         NEW v \in Video(R), Within(Q, v)
  PROVE  Within(R, v)
<1> DEFINE all == {q \in Q : q.seq <= v.seq}
           left == {q \in R : q.seq <= v.seq}
<1>1. /\ left \in SUBSET all /\ all \in SUBSET Packet
      /\ IsFiniteSet(all) /\ IsFiniteSet(left) /\ left \in SUBSET Packet
  BY FS_Subset
<1>2. v \in left /\ IsVideo(v)
  BY DEF Video, Packet
<1>3. CASE Bytes(all) <= Max(Budgets)
  <2>1. Bytes(left) <= Bytes(all) /\ Bytes(left) \in Nat /\ Bytes(all) \in Nat
    BY <1>1, BytesLess, BytesType
  <2>2. Bytes(left) <= Max(Budgets)
    BY <1>3, <2>1, LargestBudget
  <2> QED
    BY <2>2 DEF Within
<1>4. CASE v.kind = "key" /\ Video(all) = {v}
  <2>1. Video(left) = {v}
    BY <1>1, <1>2, <1>4 DEF Video
  <2> QED
    BY <1>4, <2>1 DEF Within
<1> QED
  BY <1>3, <1>4 DEF Within

(* A newer packet behind v changes nothing for v. *)
LEMMA WithinIgnoresNewer ==
  ASSUME NEW Q, NEW v \in Q, NEW p, v.seq \in Nat, p.seq \in Nat, v.seq < p.seq,
         Within(Q, v)
  PROVE  Within(Q \cup {p}, v)
<1>1. {q \in Q \cup {p} : q.seq <= v.seq} = {q \in Q : q.seq <= v.seq}
  OBVIOUS
<1> QED
  BY <1>1 DEF Within

(* The three ways of push(), as the ledger sees them: a newcomer that fits *)
(* joins; a keyframe replaces the queued video; or all of it goes.         *)
LEMMA PushOutcomes ==
  ASSUME IInv, NEW k \in Kinds, NEW n \in SizeOf[k], Push(k, n)
  PROVE  LET p == Stamped(k, n)
         IN  /\ p \in Packet /\ p \notin Everything
             /\ \A q \in Everything : q \in Packet /\ q.seq < p.seq
             /\ \/ /\ Fits(p) /\ queue' = queue \cup {p}
                   /\ queued_bytes' = queued_bytes + p.size
                   /\ UNCHANGED <<stats, dropped, resync_requested>>
                \/ /\ p.kind = "key"
                   /\ queue' = (queue \ Victims) \cup {p}
                   /\ queued_bytes' = BytesLeft + p.size
                   /\ stats' = Flushed(Victims) /\ dropped' = dropped \cup Victims
                   /\ UNCHANGED resync_requested
                \/ /\ p.kind = "delta"
                   /\ queue' = queue \ Victims
                   /\ queued_bytes' = BytesLeft
                   /\ stats' = Flushed(Victims \cup {p})
                   /\ dropped' = dropped \cup Victims \cup {p}
                   /\ resync_requested' = TRUE
             /\ ~stop /\ ~dead
             /\ UNCHANGED <<stop, dead, packet, owner, max_queued_bytes, totals, sent, cleared>>
             /\ thread' = "sent" <=> thread = "sent"
<1> DEFINE p == Stamped(k, n)
<1>1. p \in Packet /\ p.seq = pushed + 1 /\ p.kind = k /\ pushed \in Nat
  BY SizeAssumption DEF Stamped, Packet, Kinds, IInv, ShapeOK
<1>2. Enqueue(p) \/ FlushAndKeep(p) \/ FlushAndDrop(p)
  BY DEF Push
<1>3. /\ ~stop /\ ~dead
      /\ UNCHANGED <<stop, dead, packet, owner, max_queued_bytes, totals, sent, cleared>>
  BY DEF Push, Refusing
<1> HIDE DEF p
<1>4. \A q \in Everything : q \in Packet /\ q.seq \in Nat /\ q.seq < p.seq
  BY <1>1 DEF IInv, StampsUsedUp, ShapeOK, Everything, Flight, Packet
<1>5. p \notin Everything
  BY <1>1, <1>4
<1>6. thread' = "sent" <=> thread = "sent"
  BY <1>2 DEF Enqueue, FlushAndKeep, FlushAndDrop, Notified
<1>7. p.kind \in {"key", "delta", "control"}
  BY <1>1 DEF Kinds
<1>8. CASE Enqueue(p)
  BY <1>1, <1>3, <1>4, <1>5, <1>6, <1>8 DEF Enqueue, p
<1>9. CASE FlushAndKeep(p)
  BY <1>1, <1>3, <1>4, <1>5, <1>6, <1>9 DEF FlushAndKeep, p
<1>10. CASE FlushAndDrop(p)
  <2>1. p.kind = "delta"
    BY <1>7, <1>10 DEF FlushAndDrop, Fits, IsVideo
  <2> QED
    BY <1>1, <1>3, <1>4, <1>5, <1>6, <1>10, <2>1 DEF FlushAndDrop, p
<1> QED
  BY <1>2, <1>8, <1>9, <1>10

(* The bound, packet by packet. *)
LEMMA BoundedPacketwise ==
  BacklogBounded <=> \A v \in Video(queue) : Within(queue, v)
BY DEF BacklogBounded, Within

(* The same of the next state. *)
LEMMA BoundedPacketwiseNext ==
  BacklogBounded' <=> \A v \in Video(queue') : Within(queue', v)
BY DEF BacklogBounded, Within, Video, IsVideo

(* push() keeps the byte count and the latency bound: what joins was       *)
(* judged to fit by the very count that is kept, and what does not fit     *)
(* leaves no video before it.                                              *)
LEMMA PushWeighs ==
  ASSUME IInv, Ledger, NEW k \in Kinds, NEW n \in SizeOf[k], Push(k, n)
  PROVE  BytesAccounted' /\ BacklogBounded'
<1> DEFINE p == Stamped(k, n)
<1>1. /\ p \in Packet /\ p \notin Everything
      /\ \A q \in Everything : q \in Packet /\ q.seq < p.seq
      /\ \/ /\ Fits(p) /\ queue' = queue \cup {p}
            /\ queued_bytes' = queued_bytes + p.size
         \/ /\ p.kind = "key"
            /\ queue' = (queue \ Victims) \cup {p}
            /\ queued_bytes' = BytesLeft + p.size
         \/ /\ queue' = queue \ Victims
            /\ queued_bytes' = BytesLeft
  BY PushOutcomes
<1> HIDE DEF p
<1>2. /\ queue \subseteq Everything /\ queue \in SUBSET Packet /\ IsFiniteSet(queue)
      /\ queued_bytes = Bytes(queue) /\ max_queued_bytes \in Budgets
      /\ p \notin queue /\ p.size \in Nat
  BY <1>1 DEF IInv, ShapeOK, Ledger, BytesAccounted, Everything, Packet
<1>3. /\ Victims \in SUBSET queue
      /\ queue \ Victims \in SUBSET Packet /\ IsFiniteSet(queue \ Victims)
      /\ Bytes(queue \ Victims) = Bytes(queue) - Bytes(Victims)
  <2>1. Victims \in SUBSET queue
    BY DEF Victims, Video
  <2> QED
    BY <1>2, <2>1, FS_Subset, BytesLess
<1>4. /\ Bytes(queue) \in Nat /\ Bytes(queue \ Victims) \in Nat
      /\ BytesLeft = Bytes(queue \ Victims)
  BY <1>2, <1>3, BytesType DEF BytesLeft
<1>5. BytesAccounted'
  <2>1. Bytes(queue \cup {p}) = Bytes(queue) + p.size
    BY <1>1, <1>2, BytesAdd
  <2>2. Bytes((queue \ Victims) \cup {p}) = Bytes(queue \ Victims) + p.size
    BY <1>1, <1>2, <1>3, BytesAdd
  <2>3. queued_bytes' = Bytes(queue')
    BY <1>1, <1>2, <1>4, <2>1, <2>2
  <2> QED
    BY <2>3 DEF BytesAccounted
<1>6. ASSUME NEW v \in Video(queue') PROVE Within(queue', v)
  <2>1. CASE Fits(p) /\ queue' = queue \cup {p} /\ v # p
    <3>1. v \in Video(queue) /\ v \in queue
      BY <2>1 DEF Video
    <3>2. Within(queue, v)
      BY <3>1, BoundedPacketwise DEF Ledger
    <3>3. v.seq \in Nat /\ p.seq \in Nat /\ v.seq < p.seq
      BY <1>1, <1>2, <3>1 DEF Packet
    <3> QED
      BY <2>1, <3>1, <3>2, <3>3, WithinIgnoresNewer
  <2>2. CASE Fits(p) /\ queue' = queue \cup {p} /\ v = p
    <3> DEFINE ahead == {q \in queue' : q.seq <= v.seq}
    <3>1. IsFiniteSet(queue') /\ queue' \in SUBSET Packet /\ ahead \in SUBSET queue'
      BY <1>1, <1>2, <2>2, FS_AddElement
    <3>2. Bytes(ahead) <= Bytes(queue') /\ Bytes(queue') \in Nat /\ Bytes(ahead) \in Nat
      <4>1. IsFiniteSet(ahead) /\ ahead \in SUBSET Packet
        BY <3>1, FS_Subset
      <4> HIDE DEF ahead
      <4> QED
        BY <3>1, <4>1, BytesLess, BytesType
    <3>3. Bytes(queue') = queued_bytes + p.size
      BY <1>1, <1>2, <2>2, BytesAdd
    <3>4. queued_bytes + p.size <= max_queued_bytes
      BY <2>2 DEF Fits, Video
    <3>5. max_queued_bytes <= Max(Budgets) /\ max_queued_bytes \in Nat /\ Max(Budgets) \in Nat
      BY <1>2, LargestBudget, SizeAssumption
    <3> HIDE DEF ahead
    <3>6. Bytes(ahead) <= Max(Budgets)
      BY <1>2, <3>2, <3>3, <3>4, <3>5
    <3> QED
      BY <3>6 DEF Within, ahead
  <2>3. CASE p.kind = "key" /\ queue' = (queue \ Victims) \cup {p}
    <3>1. v = p /\ Video(queue') = {p}
      BY <2>3 DEF Video, Victims, IsVideo
    <3>2. Video({q \in queue' : q.seq <= p.seq}) = {p}
      BY <1>1, <3>1 DEF Video, Packet
    <3> QED
      BY <2>3, <3>1, <3>2 DEF Within
  <2>4. CASE queue' = queue \ Victims
    BY <2>4 DEF Video, Victims
  <2> QED
    BY <1>1, <2>1, <2>2, <2>3, <2>4
<1> QED
  BY <1>5, <1>6, BoundedPacketwiseNext

(* A step that leaves the queue and its count alone, or empties both. *)
LEMMA QueueUntouched ==
  ASSUME Ledger,
         \/ UNCHANGED <<queue, queued_bytes>>
         \/ queue' = {} /\ queued_bytes' = 0
  PROVE  BytesAccounted' /\ BacklogBounded'
<1>1. CASE UNCHANGED <<queue, queued_bytes>>
  <2>1. queued_bytes' = Bytes(queue')
    BY <1>1 DEF Ledger, BytesAccounted
  <2>2. \A v \in Video(queue') : Within(queue', v)
    BY <1>1, BoundedPacketwise DEF Ledger
  <2> QED
    BY <2>1, <2>2, BoundedPacketwiseNext DEF BytesAccounted
<1>2. CASE queue' = {} /\ queued_bytes' = 0
  <2>1. queued_bytes' = Bytes(queue') /\ Video(queue') = {}
    BY <1>2, BytesNone DEF Video
  <2> QED
    BY <2>1, BoundedPacketwiseNext DEF BytesAccounted
<1> QED
  BY <1>1, <1>2

(* run() takes the front: the count goes down by its size, and what is     *)
(* still queued is no further behind than it was.                          *)
LEMMA PopWeighs ==
  ASSUME IInv, Ledger, Pop
  PROVE  BytesAccounted' /\ BacklogBounded'
<1> DEFINE p == Oldest
<1>1. /\ queue \in SUBSET Packet /\ IsFiniteSet(queue) /\ p \in queue
      /\ queue' = queue \ {p} /\ queued_bytes' = queued_bytes - p.size
      /\ queued_bytes = Bytes(queue)
  BY OldestIsLeast DEF Pop, IInv, ShapeOK, Ledger, BytesAccounted
<1> HIDE DEF p
<1>2. {p} \in SUBSET queue /\ Bytes({p}) = p.size
  BY <1>1, BytesOne
<1>3. queued_bytes' = Bytes(queue')
  BY <1>1, <1>2, BytesLess
<1>4. ASSUME NEW v \in Video(queue') PROVE Within(queue', v)
  <2>1. queue' \in SUBSET queue /\ v \in Video(queue)
    BY <1>1 DEF Video
  <2>2. Within(queue, v)
    BY <2>1, BoundedPacketwise DEF Ledger
  <2> QED
    BY <1>1, <2>1, <2>2, WithinShrinks
<1> QED
  BY <1>3, <1>4, BoundedPacketwiseNext DEF BytesAccounted
-----------------------------------------------------------------------------
(* The packets whose sending has been counted: a packet is sent a step     *)
(* before run() counts it.                                                 *)
Counted == IF thread = "sent" THEN sent \ Flight ELSE sent

(* StatsExact with the two sets of counters added up field by field. *)
Tally ==
  /\ totals.video + stats.video = Cardinality(Video(Counted))
  /\ totals.bytes + stats.bytes = Bytes(Counted)
  /\ totals.dropped + stats.dropped = Cardinality(dropped)
  /\ dropped # {} => totals.flushes + stats.flushes > 0

(* The two say the same of a state. *)
LEMMA TallyIsStats == ShapeOK => (StatsExact <=> Tally)
<1> SUFFICES ASSUME totals \in Counters PROVE StatsExact <=> Tally
  BY DEF ShapeOK
<1>1. /\ Plus(totals, stats).video = totals.video + stats.video
      /\ Plus(totals, stats).bytes = totals.bytes + stats.bytes
      /\ Plus(totals, stats).dropped = totals.dropped + stats.dropped
      /\ Plus(totals, stats).flushes = totals.flushes + stats.flushes
  BY DEF Plus, Counters
<1> QED
  BY <1>1 DEF StatsExact, Tally, Counted

(* And of the next one. *)
LEMMA TallyIsStatsNext == ShapeOK' => (StatsExact' <=> Tally')
<1> SUFFICES ASSUME totals' \in Counters PROVE StatsExact' <=> Tally'
  BY DEF ShapeOK, Counters
<1>1. /\ Plus(totals, stats)'.video = totals'.video + stats'.video
      /\ Plus(totals, stats)'.bytes = totals'.bytes + stats'.bytes
      /\ Plus(totals, stats)'.dropped = totals'.dropped + stats'.dropped
      /\ Plus(totals, stats)'.flushes = totals'.flushes + stats'.flushes
  BY DEF Plus, Counters
<1> QED
  BY <1>1 DEF StatsExact, Tally, Counted

(* The counters and what they count, as natural numbers and finite sets. *)
LEMMA TallyTypes ==
  ASSUME IInv, Ledger
  PROVE  /\ stats \in Counters /\ totals \in Counters
         /\ sent \in SUBSET Packet /\ IsFiniteSet(sent)
         /\ Counted \in SUBSET sent /\ IsFiniteSet(Counted) /\ Counted \in SUBSET Packet
         /\ IsFiniteSet(Video(Counted))
         /\ Cardinality(Video(Counted)) \in Nat /\ Bytes(Counted) \in Nat
         /\ IsFiniteSet(dropped) /\ Cardinality(dropped) \in Nat
         /\ Tally
<1>1. /\ stats \in Counters /\ totals \in Counters /\ Tally
      /\ sent \in SUBSET Packet /\ IsFiniteSet(sent) /\ IsFiniteSet(dropped)
  BY TallyIsStats DEF IInv, ShapeOK, Ledger
<1>2. Counted \in SUBSET sent
  BY DEF Counted
<1>3. IsFiniteSet(Counted) /\ Counted \in SUBSET Packet
  BY <1>1, <1>2, FS_Subset
<1>4. Video(Counted) \in SUBSET Counted
  BY DEF Video
<1>5. IsFiniteSet(Video(Counted))
  BY <1>3, <1>4, FS_Subset
<1> QED
  BY <1>1, <1>2, <1>3, <1>5, BytesType, FS_CardinalityType

(* A step that neither counts nor collects. *)
LEMMA TallyUntouched ==
  ASSUME IInv, Ledger, IInv', UNCHANGED <<stats, totals, dropped>>, Counted' = Counted
  PROVE  StatsExact'
<1>1. Tally'
  BY TallyTypes DEF Tally, Video, IsVideo
<1> QED
  BY <1>1, TallyIsStatsNext DEF IInv

(* A flush counts each victim once, and the newcomer if it goes with them. *)
LEMMA TallyFlush ==
  ASSUME IInv, Ledger, IInv', UNCHANGED totals, Counted' = Counted,
         NEW lost, IsFiniteSet(lost), lost \cap dropped = {},
         stats' = Flushed(lost), dropped' = dropped \cup lost
  PROVE  StatsExact' /\ IsFiniteSet(dropped')
<1>1. /\ stats'.video = stats.video /\ stats'.bytes = stats.bytes
      /\ stats'.dropped = stats.dropped + Cardinality(lost)
      /\ stats'.flushes = stats.flushes + 1
  BY TallyTypes DEF Flushed, Counters
<1>2. /\ IsFiniteSet(dropped) /\ Cardinality(dropped) \in Nat
      /\ Cardinality(lost) \in Nat /\ Cardinality(lost \cap dropped) = 0
  BY TallyTypes, FS_CardinalityType, FS_EmptySet
<1>3. /\ IsFiniteSet(dropped \cup lost)
      /\ Cardinality(dropped \cup lost) = Cardinality(dropped) + Cardinality(lost)
  <2>1. dropped \cap lost = lost \cap dropped
    OBVIOUS
  <2>2. Cardinality(dropped \cap lost) = 0
    BY <1>2, <2>1
  <2>3. /\ IsFiniteSet(dropped \cup lost)
        /\ Cardinality(dropped \cup lost) =
             Cardinality(dropped) + Cardinality(lost) - Cardinality(dropped \cap lost)
    BY ONLY <1>2, IsFiniteSet(lost), FS_Union
  <2> QED
    BY ONLY <1>2, <2>2, <2>3
<1>4. /\ totals.dropped \in Nat /\ stats.dropped \in Nat
      /\ totals.flushes \in Nat /\ stats.flushes \in Nat
      /\ totals.dropped + stats.dropped = Cardinality(dropped)
  BY TallyTypes DEF Counters, Tally
<1>5. totals'.dropped + stats'.dropped = Cardinality(dropped')
  BY <1>1, <1>2, <1>3, <1>4
<1>6. totals'.flushes + stats'.flushes > 0
  BY <1>1, <1>4
<1>7. /\ totals'.video + stats'.video = Cardinality(Video(Counted'))
      /\ totals'.bytes + stats'.bytes = Bytes(Counted')
  BY <1>1, TallyTypes DEF Tally
<1>8. Tally'
  BY <1>5, <1>6, <1>7 DEF Tally, Video, IsVideo
<1> QED
  BY <1>3, <1>8, TallyIsStatsNext DEF IInv

(* push(): nothing is counted unless something is flushed. *)
LEMMA PushTally ==
  ASSUME IInv, Ledger, IInv', NEW k \in Kinds, NEW n \in SizeOf[k], Push(k, n)
  PROVE  StatsExact' /\ IsFiniteSet(dropped')
<1> DEFINE p == Stamped(k, n)
<1>1. /\ p \notin Everything
      /\ \/ UNCHANGED <<stats, dropped>>
         \/ stats' = Flushed(Victims) /\ dropped' = dropped \cup Victims
         \/ stats' = Flushed(Victims \cup {p}) /\ dropped' = dropped \cup Victims \cup {p}
      /\ UNCHANGED <<packet, totals, sent>>
      /\ thread' = "sent" <=> thread = "sent"
  BY PushOutcomes
<1> HIDE DEF p
<1>2. Counted' = Counted
  BY <1>1 DEF Counted, Flight
<1>3. /\ IsFiniteSet(Victims) /\ IsFiniteSet(Victims \cup {p})
      /\ Victims \cap dropped = {} /\ (Victims \cup {p}) \cap dropped = {}
  <2>1. Victims \in SUBSET queue /\ IsFiniteSet(queue)
    BY DEF Victims, Video, IInv, ShapeOK
  <2>2. IsFiniteSet(Victims)
    BY <2>1, FS_Subset
  <2>3. Victims \cap dropped = {} /\ p \notin dropped
    BY <1>1, <2>1 DEF IInv, NothingVanishes, Everything
  <2> QED
    BY <2>2, <2>3, FS_AddElement
<1>4. CASE UNCHANGED <<stats, dropped>>
  BY <1>1, <1>2, <1>4, TallyUntouched DEF Ledger
<1>5. CASE stats' = Flushed(Victims) /\ dropped' = dropped \cup Victims
  BY <1>1, <1>2, <1>3, <1>5, TallyFlush
<1>6. CASE /\ stats' = Flushed(Victims \cup {p})
           /\ dropped' = dropped \cup Victims \cup {p}
  <2>1. dropped' = dropped \cup (Victims \cup {p})
    BY <1>6
  <2> QED
    BY <1>1, <1>2, <1>3, <1>6, <2>1, TallyFlush
<1> QED
  BY <1>1, <1>4, <1>5, <1>6

(* The send returned: the packet is not counted yet. *)
LEMMA SendDoneTally ==
  ASSUME IInv, Ledger, IInv', SendDone
  PROVE  StatsExact' /\ IsFiniteSet(sent')
<1>1. /\ thread = "sending" /\ thread' = "sent" /\ sent' = sent \cup {packet}
      /\ UNCHANGED <<stats, totals, dropped, packet>>
  BY DEF SendDone, lockVars
<1>2. packet # None /\ packet \notin sent
  BY <1>1 DEF IInv, ThreadState
<1>3. Counted' = Counted
  BY <1>1, <1>2 DEF Counted, Flight
<1>4. IsFiniteSet(sent')
  BY <1>1, FS_AddElement DEF Ledger
<1> QED
  BY <1>1, <1>3, <1>4, TallyUntouched

(* The sent packet is counted, under the lock: once, with its bytes. *)
LEMMA CountTally ==
  ASSUME IInv, Ledger, IInv', Count
  PROVE  StatsExact'
<1>1. /\ thread = "sent" /\ thread' = "awake" /\ packet' = None
      /\ stats' = [stats EXCEPT !.video = IF IsVideo(packet) THEN @ + 1 ELSE @,
                                !.bytes = @ + packet.size]
      /\ UNCHANGED <<totals, sent, dropped>>
  BY DEF Count, history
<1>2. packet \in sent /\ packet \in Packet /\ Flight = {packet}
  BY <1>1, SizeAssumption DEF IInv, ThreadState, ShapeOK, Flight
<1>3. Counted = sent \ {packet} /\ Counted' = Counted \cup {packet} /\ packet \notin Counted
  BY <1>1, <1>2 DEF Counted
<1>4. Bytes(Counted') = Bytes(Counted) + packet.size
  BY <1>2, <1>3, TallyTypes, BytesAdd
<1>5. Cardinality(Video(Counted')) = Cardinality(Video(Counted)) + (IF IsVideo(packet) THEN 1 ELSE 0)
  <2>1. CASE IsVideo(packet)
    <3>1. Video(Counted') = Video(Counted) \cup {packet} /\ packet \notin Video(Counted)
      BY <1>3, <2>1 DEF Video
    <3> QED
      BY <2>1, <3>1, TallyTypes, FS_AddElement
  <2>2. CASE ~IsVideo(packet)
    <3>1. Video(Counted') = Video(Counted)
      BY <1>3, <2>2 DEF Video
    <3> QED
      BY <2>2, <3>1, TallyTypes
  <2> QED
    BY <2>1, <2>2
<1>6. /\ stats'.video = stats.video + (IF IsVideo(packet) THEN 1 ELSE 0)
      /\ stats'.bytes = stats.bytes + packet.size
      /\ stats'.dropped = stats.dropped /\ stats'.flushes = stats.flushes
      /\ packet.size \in Nat
  BY <1>1, <1>2, TallyTypes DEF Counters, Packet
<1>7. /\ totals.video \in Nat /\ totals.bytes \in Nat
      /\ stats.video \in Nat /\ stats.bytes \in Nat
      /\ Tally
  BY TallyTypes DEF Counters
<1>8. totals'.video + stats'.video = Cardinality(Video(Counted'))
  BY <1>1, <1>5, <1>6, <1>7, TallyTypes DEF Tally
<1>9. totals'.bytes + stats'.bytes = Bytes(Counted')
  BY <1>1, <1>4, <1>6, <1>7, TallyTypes DEF Tally
<1>10. Tally'
  BY <1>1, <1>6, <1>7, <1>8, <1>9 DEF Tally, Video, IsVideo
<1> QED
  BY <1>10, TallyIsStatsNext DEF IInv

(* take_stats(): what moves to the totals leaves the counters. *)
LEMMA TakeStatsTally ==
  ASSUME IInv, Ledger, IInv', TakeStats
  PROVE  StatsExact'
<1>1. /\ totals' = Plus(totals, stats) /\ stats' = NoCount
      /\ UNCHANGED <<thread, packet, sent, dropped>>
  BY DEF TakeStats, history
<1>2. Counted' = Counted
  BY <1>1 DEF Counted, Flight
<1>3. /\ stats \in Counters /\ totals \in Counters
  BY TallyTypes
<1>4. /\ totals'.video + stats'.video = totals.video + stats.video
      /\ totals'.bytes + stats'.bytes = totals.bytes + stats.bytes
      /\ totals'.dropped + stats'.dropped = totals.dropped + stats.dropped
      /\ totals'.flushes + stats'.flushes = totals.flushes + stats.flushes
  BY <1>1, <1>3 DEF Plus, NoCount, Counters
<1>5. Tally'
  BY <1>1, <1>2, <1>4, TallyTypes DEF Tally, Video, IsVideo
<1> QED
  BY <1>5, TallyIsStatsNext DEF IInv

(* A fresh queue owes nothing. *)
LEMMA InitLedger == Init => Ledger
<1> SUFFICES ASSUME Init PROVE Ledger
  OBVIOUS
<1>1. queue = {} /\ queued_bytes = 0 /\ sent = {} /\ dropped = {} /\ thread = "awake"
  BY DEF Init
<1>2. BytesAccounted /\ BacklogBounded
  BY <1>1, BytesNone DEF BytesAccounted, BacklogBounded, Video
<1>3. IsFiniteSet(sent) /\ IsFiniteSet(dropped) /\ Cardinality({}) = 0
  BY <1>1, FS_EmptySet
<1>4. Tally
  <2>1. /\ totals.video = 0 /\ totals.bytes = 0 /\ totals.dropped = 0
        /\ stats.video = 0 /\ stats.bytes = 0 /\ stats.dropped = 0
    BY DEF Init, NoCount
  <2>2. Counted = {} /\ Video(Counted) = {}
    BY <1>1 DEF Counted, Video
  <2> QED
    BY <1>1, <1>3, <2>1, <2>2, BytesNone DEF Tally
<1>5. StatsExact
  BY <1>4, InitIInv, TallyIsStats DEF IInv
<1> QED
  BY <1>2, <1>3, <1>5 DEF Ledger

(* Any step of run(). *)
LEMMA DrainLedger ==
  ASSUME IInv, Ledger, IInv', Drain
  PROVE  Ledger'
<1>1. CASE Park \/ StopSeen
  <2>1. /\ UNCHANGED <<queue, queued_bytes, stats, totals, sent, dropped, packet>>
        /\ thread # "sent" /\ thread' # "sent"
    BY <1>1 DEF Park, StopSeen, lockVars, history
  <2>2. Counted' = Counted
    BY <2>1 DEF Counted, Flight
  <2> QED
    BY <2>1, <2>2, QueueUntouched, TallyUntouched DEF Ledger
<1>2. CASE Pop
  <2>1. /\ UNCHANGED <<stats, totals, sent, dropped>>
        /\ thread # "sent" /\ thread' # "sent"
    BY <1>2 DEF Pop, history
  <2>2. Counted' = Counted
    BY <2>1 DEF Counted
  <2> QED
    BY <1>2, <2>1, <2>2, PopWeighs, TallyUntouched DEF Ledger
<1>3. CASE SendDone
  <2>1. UNCHANGED <<queue, queued_bytes, dropped>>
    BY <1>3 DEF SendDone, lockVars
  <2> QED
    BY <1>3, <2>1, QueueUntouched, SendDoneTally DEF Ledger
<1>4. CASE Count
  <2>1. UNCHANGED <<queue, queued_bytes, sent, dropped>>
    BY <1>4 DEF Count, history
  <2> QED
    BY <1>4, <2>1, QueueUntouched, CountTally DEF Ledger
<1>5. CASE SendFailed
  <2>1. /\ UNCHANGED <<queue, queued_bytes, stats, totals, sent, dropped>>
        /\ thread # "sent" /\ thread' # "sent"
    BY <1>5 DEF SendFailed, lockVars
  <2>2. Counted' = Counted
    BY <2>1 DEF Counted
  <2> QED
    BY <2>1, <2>2, QueueUntouched, TallyUntouched DEF Ledger
<1>6. CASE ClearAndExit
  <2>1. /\ queue' = {} /\ queued_bytes' = 0
        /\ UNCHANGED <<stats, totals, sent, dropped>>
        /\ thread # "sent" /\ thread' # "sent"
    BY <1>6 DEF ClearAndExit
  <2>2. Counted' = Counted
    BY <2>1 DEF Counted
  <2> QED
    BY <2>1, <2>2, QueueUntouched, TallyUntouched DEF Ledger
<1> QED
  BY <1>1, <1>2, <1>3, <1>4, <1>5, <1>6 DEF Drain

(* Any call of the owner, destructor included. *)
LEMMA RunLoopLedger ==
  ASSUME IInv, Ledger, IInv', RunLoop
  PROVE  Ledger'
<1>1. CASE SetMaxQueuedBytes \/ TakeResyncRequest \/ Shutdown \/ JoinAndClose
  <2>1. UNCHANGED <<queue, queued_bytes, stats, totals, sent, dropped, packet, thread>>
    BY <1>1 DEF SetMaxQueuedBytes, TakeResyncRequest, Shutdown, JoinAndClose, lockVars, history
  <2>2. Counted' = Counted
    BY <2>1 DEF Counted, Flight
  <2> QED
    BY <2>1, <2>2, QueueUntouched, TallyUntouched DEF Ledger
<1>2. CASE TakeStats
  <2>1. UNCHANGED <<queue, queued_bytes, sent, dropped>>
    BY <1>2 DEF TakeStats, history
  <2> QED
    BY <1>2, <2>1, QueueUntouched, TakeStatsTally DEF Ledger
<1>3. CASE Stop
  <2>1. /\ queue' = {} /\ queued_bytes' = 0 /\ thread' = Notified
        /\ UNCHANGED <<stats, totals, sent, dropped, packet>>
    BY <1>3 DEF Stop
  <2>2. Counted' = Counted
    BY <2>1 DEF Counted, Flight, Notified
  <2> QED
    BY <2>1, <2>2, QueueUntouched, TallyUntouched DEF Ledger
<1> QED
  BY <1>1, <1>2, <1>3 DEF RunLoop

(* Any step. *)
LEMMA NextLedger == IInv /\ IInv' /\ Ledger /\ [Next]_vars => Ledger'
<1> SUFFICES ASSUME IInv, IInv', Ledger, [Next]_vars PROVE Ledger'
  OBVIOUS
<1>1. CASE UNCHANGED vars
  <2>1. UNCHANGED <<queue, queued_bytes, stats, totals, sent, dropped, packet, thread>>
    BY <1>1 DEF vars, lockVars, history
  <2>2. Counted' = Counted
    BY <2>1 DEF Counted, Flight
  <2> QED
    BY <2>1, <2>2, QueueUntouched, TallyUntouched DEF Ledger
<1>2. ASSUME NEW k \in Kinds, NEW n \in SizeOf[k], Push(k, n)
      PROVE  Ledger'
  <2>1. UNCHANGED sent
    BY <1>2 DEF Push
  <2> QED
    BY <1>2, <2>1, PushWeighs, PushTally DEF Ledger
<1> QED
  BY <1>1, <1>2, DrainLedger, RunLoopLedger DEF Next
-----------------------------------------------------------------------------
(* The refinement SendQueue.  First the backlog as a sequence: the packets *)
(* of a set whose stamps tell them apart, in the order of their stamps.    *)
Line(S) ==
  /\ S \in SUBSET Packet /\ IsFiniteSet(S)
  /\ \A p, q \in S : p.seq = q.seq => p = q

(* A packet's place is one of as many as there are packets. *)
LEMMA PlaceRange ==
  ASSUME NEW S, Line(S), NEW p \in S
  PROVE  Place(S, p) \in 1 .. Cardinality(S) /\ Cardinality(S) \in Nat
<1> DEFINE upTo == {q \in S : q.seq <= p.seq}
<1>1. upTo \in SUBSET S /\ p \in upTo
  BY DEF Line, Packet
<1>2. /\ IsFiniteSet(upTo) /\ Cardinality(upTo) <= Cardinality(S)
      /\ Cardinality(upTo) \in Nat /\ Cardinality(S) \in Nat
  BY <1>1, FS_Subset, FS_CardinalityType DEF Line
<1>3. Cardinality(upTo) # 0
  BY <1>1, <1>2, FS_EmptySet
<1> QED
  BY <1>2, <1>3 DEF Place

(* An older packet has an earlier place. *)
LEMMA PlaceOrder ==
  ASSUME NEW S, Line(S), NEW p \in S, NEW q \in S, p.seq < q.seq
  PROVE  Place(S, p) < Place(S, q)
<1> DEFINE a == {r \in S : r.seq <= p.seq}
           b == {r \in S : r.seq <= q.seq}
<1>1. a \in SUBSET b /\ q \in b /\ q \notin a /\ b \in SUBSET S
  BY DEF Line, Packet
<1>2. IsFiniteSet(b)
  BY <1>1, FS_Subset DEF Line
<1>3. /\ Cardinality(a) <= Cardinality(b) /\ Cardinality(a) # Cardinality(b)
      /\ Cardinality(a) \in Nat /\ Cardinality(b) \in Nat
  BY <1>1, <1>2, FS_Subset, FS_CardinalityType
<1> QED
  BY <1>3 DEF Place

(* Every place is taken, by one packet. *)
LEMMA NthHasPlace ==
  ASSUME NEW S, Line(S), NEW i \in 1 .. Cardinality(S)
  PROVE  /\ Nth(S, i) \in S /\ Place(S, Nth(S, i)) = i
         /\ \A p \in S : Place(S, p) = i => p = Nth(S, i)
<1> DEFINE n == Cardinality(S)
           place == [p \in S |-> Place(S, p)]
<1>1. n \in Nat /\ IsFiniteSet(1 .. n) /\ Cardinality(1 .. n) = n
  BY FS_CardinalityType, FS_Interval DEF Line
<1>2. place \in [S -> 1 .. n]
  BY PlaceRange
<1>3. ASSUME NEW p \in S, NEW q \in S, Place(S, p) = Place(S, q)
      PROVE  p = q
  <2>1. p.seq \in Nat /\ q.seq \in Nat
    BY DEF Line, Packet
  <2>2. Place(S, p) \in Nat /\ Place(S, q) \in Nat
    BY PlaceRange
  <2>3. ~(p.seq < q.seq) /\ ~(q.seq < p.seq)
    BY <1>3, <2>2, PlaceOrder
  <2> QED
    BY <2>1, <2>3 DEF Line
<1>4. place \in Injection(S, 1 .. n)
  BY <1>2, <1>3 DEF Injection, IsInjective
<1>5. place \in Surjection(S, 1 .. n)
  BY <1>1, <1>4, FS_Injection DEF Line
<1>6. \E p \in S : Place(S, p) = i
  BY <1>5 DEF Surjection
<1>7. Nth(S, i) \in S /\ Place(S, Nth(S, i)) = i
  BY <1>6 DEF Nth
<1> QED
  BY <1>3, <1>7

(* A newer packet takes the last place and leaves the others. *)
LEMMA PlaceNewest ==
  ASSUME NEW S, Line(S), NEW p \in Packet, p \notin S, \A q \in S : q.seq < p.seq
  PROVE  /\ Line(S \cup {p}) /\ Cardinality(S \cup {p}) = Cardinality(S) + 1
         /\ \A i \in 1 .. Cardinality(S) : Nth(S \cup {p}, i) = Nth(S, i)
         /\ Nth(S \cup {p}, Cardinality(S) + 1) = p
<1> DEFINE T == S \cup {p}
<1>1. /\ Line(T) /\ Cardinality(T) = Cardinality(S) + 1 /\ Cardinality(S) \in Nat
      /\ IsFiniteSet(S)
  BY FS_AddElement, FS_CardinalityType DEF Line, Packet
<1>2. \A q \in S : Place(T, q) = Place(S, q)
  <2>1. ASSUME NEW q \in S PROVE {r \in T : r.seq <= q.seq} = {r \in S : r.seq <= q.seq}
    BY DEF Line, Packet
  <2> QED
    BY <2>1 DEF Place
<1>3. Place(T, p) = Cardinality(S) + 1
  <2>1. {r \in T : r.seq <= p.seq} = T
    BY DEF Line, Packet
  <2> QED
    BY <1>1, <2>1 DEF Place
<1> HIDE DEF T
<1>4. p \in T /\ \A q \in S : q \in T
  BY DEF T
<1>5. ASSUME NEW i \in 1 .. Cardinality(S) PROVE Nth(T, i) = Nth(S, i)
  <2>1. i \in 1 .. Cardinality(T)
    BY <1>1
  <2>2. Nth(S, i) \in T /\ Place(T, Nth(S, i)) = i
    BY <1>2, <1>4, NthHasPlace
  <2> QED
    BY <1>1, <2>1, <2>2, NthHasPlace
<1>6. Nth(T, Cardinality(S) + 1) = p
  <2>1. Cardinality(S) + 1 \in 1 .. Cardinality(T)
    BY <1>1
  <2> QED
    BY <1>1, <1>3, <1>4, <2>1, NthHasPlace
<1> QED
  BY <1>1, <1>5, <1>6 DEF T

(* When the oldest packet goes, everyone moves up by one. *)
LEMMA PlaceOldest ==
  ASSUME NEW S, Line(S), NEW p \in S, \A q \in S : p.seq <= q.seq
  PROVE  /\ Line(S \ {p}) /\ Cardinality(S \ {p}) = Cardinality(S) - 1
         /\ Cardinality(S) \in Nat \ {0}
         /\ \A i \in 1 .. Cardinality(S) - 1 : Nth(S \ {p}, i) = Nth(S, i + 1)
<1> DEFINE T == S \ {p}
<1>1. /\ Line(T) /\ Cardinality(T) = Cardinality(S) - 1
      /\ IsFiniteSet(S) /\ Cardinality(S) \in Nat /\ Cardinality(S) # 0
  BY FS_RemoveElement, FS_CardinalityType, FS_EmptySet DEF Line
<1>2. ASSUME NEW q \in T PROVE Place(S, q) = Place(T, q) + 1
  <2> DEFINE a == {r \in T : r.seq <= q.seq}
             b == {r \in S : r.seq <= q.seq}
  <2>1. b = a \cup {p} /\ p \notin a /\ a \in SUBSET T
    BY DEF Line, Packet
  <2>2. IsFiniteSet(a)
    BY <1>1, <2>1, FS_Subset DEF Line
  <2>3. Cardinality(b) = Cardinality(a) + 1
    BY <2>1, <2>2, FS_AddElement
  <2> QED
    BY <2>3 DEF Place
<1> HIDE DEF T
<1>3. T \subseteq S
  BY DEF T
<1>4. ASSUME NEW i \in 1 .. Cardinality(S) - 1 PROVE Nth(T, i) = Nth(S, i + 1)
  <2>1. i \in 1 .. Cardinality(T) /\ i + 1 \in 1 .. Cardinality(S)
    BY <1>1
  <2>2. Nth(T, i) \in T /\ Place(T, Nth(T, i)) = i
    BY <1>1, <2>1, NthHasPlace
  <2>3. Nth(T, i) \in S /\ Place(S, Nth(T, i)) = i + 1
    BY <1>2, <1>3, <2>2
  <2> QED
    BY <2>1, <2>3, NthHasPlace
<1> QED
  BY <1>1, <1>4 DEF T
-----------------------------------------------------------------------------
(* The mapping as functions of the sets it depends on: a step is then the  *)
(* same functions of two states' sets.  all is every packet pushed, lost   *)
(* those dropped, Q the queued video.                                      *)
MarkIn(all, lost, p) ==
  LET before == {q \in Video(all) : q.seq < p.seq}
      last == {q \in before : \A r \in before : r.seq <= q.seq}
  IN  IF p.kind = "key" THEN "I"
      ELSE IF last \cap lost # {} THEN "G" ELSE "P"

MarksOf(Q, all, lost) == [i \in 1 .. Cardinality(Q) |-> MarkIn(all, lost, Nth(Q, i))]

GapIn(all, lost) == \E p \in lost : \A q \in Video(all) : q.seq <= p.seq

(* That is the mapping, in a state and in the next. *)
LEMMA MappingIs ==
  /\ Backlog = IF Over THEN << >> ELSE MarksOf(Video(queue), Everything, dropped)
  /\ Gap = GapIn(Everything, dropped)
BY DEF Backlog, MarksOf, Mark, MarkIn, Predecessor, Gap, GapIn

(* ... and in the next state, from the primed variables alone. *)
LEMMA MappingIsNext ==
  /\ Backlog' = IF Over' THEN << >> ELSE MarksOf(Video(queue'), Everything', dropped')
  /\ Gap' = GapIn(Everything', dropped')
<1>1. /\ Video(queue)' = Video(queue')
      /\ Video(Everything)' = Video(Everything')
  BY DEF Video, IsVideo
<1>2. ASSUME NEW i
      PROVE  Mark(Nth(Video(queue), i))' = MarkIn(Everything', dropped', Nth(Video(queue'), i))
  BY <1>1 DEF Mark, MarkIn, Predecessor, Video, IsVideo, Nth, Place
<1>3. Backlog' = IF Over' THEN << >>
                 ELSE [i \in 1 .. Cardinality(Video(queue')) |-> Mark(Nth(Video(queue), i))']
  BY <1>1 DEF Backlog
<1> QED
  BY <1>1, <1>2, <1>3 DEF MarksOf, Gap, GapIn

(* The queued video, told apart by its stamps. *)
LEMMA VideoLine ==
  ASSUME IInv
  PROVE  Line(Video(queue)) /\ Video(queue) \subseteq Everything
<1>1. Video(queue) \in SUBSET queue /\ IsFiniteSet(queue) /\ queue \subseteq Packet
  BY DEF Video, IInv, ShapeOK
<1>2. IsFiniteSet(Video(queue))
  BY <1>1, FS_Subset
<1> QED
  BY <1>1, <1>2 DEF Line, IInv, NothingVanishes, Everything

(* The marks of a line of packets are a sequence as long as the line. *)
LEMMA MarksType ==
  ASSUME NEW Q, Line(Q), NEW all, NEW lost
  PROVE  /\ MarksOf(Q, all, lost) \in Seq({"I", "P", "G"})
         /\ Len(MarksOf(Q, all, lost)) = Cardinality(Q) /\ Cardinality(Q) \in Nat
         /\ \A i \in 1 .. Cardinality(Q) :
              MarksOf(Q, all, lost)[i] = MarkIn(all, lost, Nth(Q, i))
<1> DEFINE n == Cardinality(Q)
           s == MarksOf(Q, all, lost)
<1>1. n \in Nat
  BY FS_CardinalityType DEF Line
<1>2. \A p : MarkIn(all, lost, p) \in {"I", "P", "G"}
  BY DEF MarkIn
<1>3. s = [i \in 1 .. n |-> MarkIn(all, lost, Nth(Q, i))]
  BY DEF MarksOf
<1> HIDE DEF n, s
<1>4. s \in [1 .. n -> {"I", "P", "G"}]
  BY <1>2, <1>3
<1>5. s \in Seq({"I", "P", "G"}) /\ Len(s) = n
  BY <1>1, <1>4
<1> QED
  BY <1>1, <1>3, <1>5 DEF n, s

(* An empty line has no marks, a line of one has one. *)
LEMMA MarksFew ==
  ASSUME NEW all, NEW lost
  PROVE  /\ MarksOf({}, all, lost) = << >>
         /\ \A p \in Packet : MarksOf({p}, all, lost) = <<MarkIn(all, lost, p)>>
<1>1. Line({}) /\ Cardinality({}) = 0
  BY FS_EmptySet DEF Line
<1>2. MarksOf({}, all, lost) = << >>
  BY <1>1, MarksType, EmptySeq
<1>3. ASSUME NEW p \in Packet PROVE MarksOf({p}, all, lost) = <<MarkIn(all, lost, p)>>
  <2>1. Line({p}) /\ Cardinality({p}) = 1
    BY FS_Singleton DEF Line
  <2>2. Nth({p}, 1) = p
    <3>1. 1 \in 1 .. Cardinality({p})
      BY <2>1
    <3>2. Nth({p}, 1) \in {p}
      BY <2>1, <3>1, NthHasPlace
    <3> QED
      BY <3>2
  <2> DEFINE s == MarksOf({p}, all, lost)
             t == <<MarkIn(all, lost, p)>>
  <2>3. s \in Seq({"I", "P", "G"}) /\ Len(s) = 1 /\ s[1] = MarkIn(all, lost, p)
    BY <2>1, <2>2, MarksType
  <2>4. t \in Seq({"I", "P", "G"}) /\ Len(t) = 1 /\ t[1] = MarkIn(all, lost, p)
    BY DEF MarkIn
  <2> HIDE DEF s, t
  <2>5. s = t
    BY <2>3, <2>4, SeqEqual
  <2> QED
    BY <2>5 DEF s, t
<1> QED
  BY <1>2, <1>3

(* Append, as one symbol for the provers. *)
Longer(s, m) == Append(s, m)

(* A newer packet adds its mark at the end, and leaves the others' marks:  *)
(* they look only at packets before them.                                  *)
LEMMA MarksAppend ==
  ASSUME NEW Q, Line(Q), NEW all \in SUBSET Packet, Q \subseteq all, NEW lost,
         NEW p \in Packet, p \notin Q, \A q \in all : q.seq < p.seq
  PROVE  MarksOf(Q \cup {p}, all \cup {p}, lost) =
           Longer(MarksOf(Q, all, lost), MarkIn(all \cup {p}, lost, p))
<1> DEFINE R == Q \cup {p}
           s == MarksOf(Q, all, lost)
           t == MarksOf(R, all \cup {p}, lost)
           m == MarkIn(all \cup {p}, lost, p)
           n == Cardinality(Q)
<1>1. /\ Line(R) /\ Cardinality(R) = n + 1
      /\ \A i \in 1 .. n : Nth(R, i) = Nth(Q, i)
      /\ Nth(R, n + 1) = p
  BY PlaceNewest
<1>2. ASSUME NEW v \in Q PROVE MarkIn(all \cup {p}, lost, v) = MarkIn(all, lost, v)
  <2>1. {q \in Video(all \cup {p}) : q.seq < v.seq} = {q \in Video(all) : q.seq < v.seq}
    BY DEF Video, Packet
  <2> QED
    BY <2>1 DEF MarkIn
<1>3. n \in Nat
  BY MarksType
<1>4. /\ s \in Seq({"I", "P", "G"}) /\ Len(s) = n
      /\ \A i \in 1 .. n : s[i] = MarkIn(all, lost, Nth(Q, i))
  BY MarksType
<1>5. /\ t \in Seq({"I", "P", "G"}) /\ Len(t) = n + 1
      /\ \A i \in 1 .. n + 1 : t[i] = MarkIn(all \cup {p}, lost, Nth(R, i))
  <2> HIDE DEF R
  <2>1. /\ t \in Seq({"I", "P", "G"}) /\ Len(t) = Cardinality(R)
        /\ \A i \in 1 .. Cardinality(R) : t[i] = MarkIn(all \cup {p}, lost, Nth(R, i))
    BY <1>1, MarksType
  <2> QED
    BY <1>1, <2>1
<1>6. m \in {"I", "P", "G"}
  BY DEF MarkIn
<1>7. \A i \in 1 .. n : Nth(Q, i) \in Q
  BY NthHasPlace
<1>8. \A i \in 1 .. n : t[i] = s[i]
  <2> SUFFICES ASSUME NEW i \in 1 .. n PROVE t[i] = s[i]
    OBVIOUS
  <2>1. i \in 1 .. n + 1
    BY <1>3
  <2> QED
    BY <1>1, <1>2, <1>4, <1>5, <1>7, <2>1
<1>9. t[n + 1] = m
  <2>1. n + 1 \in 1 .. n + 1
    BY <1>3
  <2> QED
    BY <1>1, <1>5, <2>1
<1> HIDE DEF s, t, m, n, R
<1>10. /\ Append(s, m) \in Seq({"I", "P", "G"}) /\ Len(Append(s, m)) = n + 1
       /\ \A i \in 1 .. n : Append(s, m)[i] = s[i]
       /\ Append(s, m)[n + 1] = m
  BY <1>3, <1>4, <1>6
<1>11. \A i \in 1 .. n + 1 : t[i] = Append(s, m)[i]
  <2> SUFFICES ASSUME NEW i \in 1 .. n + 1 PROVE t[i] = Append(s, m)[i]
    OBVIOUS
  <2>1. i \in 1 .. n \/ i = n + 1
    BY <1>3
  <2> QED
    BY <1>8, <1>9, <1>10, <2>1
<1>12. t = Append(s, m)
  BY <1>5, <1>10, <1>11, SeqEqual
<1> QED
  BY <1>12 DEF s, t, m, R, Longer

(* When the oldest packet goes, so does the first mark. *)
LEMMA MarksTail ==
  ASSUME NEW Q, Line(Q), NEW all, NEW lost, NEW p \in Q, \A q \in Q : p.seq <= q.seq
  PROVE  /\ MarksOf(Q, all, lost) # << >>
         /\ MarksOf(Q \ {p}, all, lost) = Tail(MarksOf(Q, all, lost))
<1> DEFINE R == Q \ {p}
           s == MarksOf(Q, all, lost)
           t == MarksOf(R, all, lost)
           n == Cardinality(Q)
<1>1. /\ Line(R) /\ Cardinality(R) = n - 1 /\ n \in Nat /\ n # 0
      /\ \A i \in 1 .. n - 1 : Nth(R, i) = Nth(Q, i + 1)
  BY PlaceOldest
<1>2. /\ s \in Seq({"I", "P", "G"}) /\ Len(s) = n
      /\ \A i \in 1 .. n : s[i] = MarkIn(all, lost, Nth(Q, i))
  BY MarksType
<1>3. /\ t \in Seq({"I", "P", "G"}) /\ Len(t) = n - 1
      /\ \A i \in 1 .. n - 1 : t[i] = MarkIn(all, lost, Nth(R, i))
  BY <1>1, MarksType
<1> HIDE DEF s, t, n, R
<1>4. s # << >>
  BY <1>1, <1>2
<1>5. /\ Tail(s) \in Seq({"I", "P", "G"}) /\ Len(Tail(s)) = n - 1
      /\ \A i \in 1 .. n - 1 : Tail(s)[i] = s[i + 1]
  BY <1>1, <1>2, <1>4, HeadTailProperties
<1>6. \A i \in 1 .. n - 1 : t[i] = Tail(s)[i]
  <2> SUFFICES ASSUME NEW i \in 1 .. n - 1 PROVE t[i] = Tail(s)[i]
    OBVIOUS
  <2>1. i + 1 \in 1 .. n
    BY <1>1
  <2> QED
    BY <1>1, <1>2, <1>3, <1>5, <2>1
<1>7. t = Tail(s)
  BY <1>3, <1>5, <1>6, SeqEqual
<1> QED
  BY <1>4, <1>7 DEF s, t, R
-----------------------------------------------------------------------------
(* A fresh queue maps to a fresh promise. *)
LEMMA PromiseInit == Init => Promise!QueueInit
<1> SUFFICES ASSUME Init PROVE Promise!QueueInit
  OBVIOUS
<1>1. Video(queue) = {} /\ ~Over /\ (Over <=> FALSE)
  BY DEF Init, Video, Over
<1>2. Backlog = << >>
  BY <1>1, MappingIs, MarksFew
<1>3. Gap <=> FALSE
  BY DEF Gap, Init
<1> QED
  BY <1>1, <1>2, <1>3 DEF Promise!QueueInit, Init

(* A step on which the mapping's sets stay as they are. *)
LEMMA PromiseStutter ==
  ASSUME IInv, IInv', UNCHANGED <<resync_requested, dropped>>,
         Everything' = Everything, Over' <=> Over, Over \/ Video(queue') = Video(queue)
  PROVE  UNCHANGED Promise!queueVars
<1>1. Backlog' = Backlog
  BY MappingIs, MappingIsNext
<1>2. Gap' = Gap
  BY MappingIs, MappingIsNext
<1>3. Over' = Over
  BY DEF Over, IInv, ShapeOK
<1> QED
  BY <1>1, <1>2, <1>3 DEF Promise!queueVars

(* What a push makes of the newest packet. *)
LEMMA NewestMark ==
  ASSUME NEW all \in SUBSET Packet, NEW p \in Packet, IsVideo(p),
         \A q \in all : q.seq < p.seq, NEW lost, lost \subseteq Video(all)
  PROVE  /\ p.kind # "key" =>
              MarkIn(all \cup {p}, lost, p) = IF GapIn(all, lost) THEN "G" ELSE "P"
         /\ p.kind = "key" => MarkIn(all \cup {p}, lost, p) = "I"
         /\ ~GapIn(all \cup {p}, lost)
<1>1. {q \in Video(all \cup {p}) : q.seq < p.seq} = Video(all)
  BY DEF Video, Packet
<1>2. p.kind # "key" =>
        MarkIn(all \cup {p}, lost, p) = IF GapIn(all, lost) THEN "G" ELSE "P"
  <2> DEFINE last == {q \in Video(all) : \A r \in Video(all) : r.seq <= q.seq}
  <2>1. last \cap lost # {} <=> GapIn(all, lost)
    BY DEF GapIn
  <2> QED
    BY <1>1, <2>1 DEF MarkIn
<1>3. ~GapIn(all \cup {p}, lost)
  <2>1. p \in Video(all \cup {p})
    BY DEF Video
  <2>2. \A q \in lost : ~(p.seq <= q.seq)
    BY DEF Video, Packet
  <2> QED
    BY <2>1, <2>2 DEF GapIn
<1> QED
  BY <1>2, <1>3 DEF MarkIn

(* push() is Keep, Overflow, or, for a cursor packet or a pong, nothing    *)
(* the promise can see.                                                    *)
LEMMA PromisePush ==
  ASSUME IInv, IInv', NEW k \in Kinds, NEW n \in SizeOf[k], Push(k, n)
  PROVE  [Promise!QueueNext]_(Promise!queueVars)
<1> DEFINE p == Stamped(k, n)
<1>1. /\ p \in Packet /\ p \notin Everything
      /\ \A q \in Everything : q \in Packet /\ q.seq < p.seq
      /\ \/ /\ Fits(p) /\ queue' = queue \cup {p}
            /\ UNCHANGED <<dropped, resync_requested>>
         \/ /\ p.kind = "key"
            /\ queue' = (queue \ Victims) \cup {p}
            /\ dropped' = dropped \cup Victims
            /\ UNCHANGED resync_requested
         \/ /\ p.kind = "delta"
            /\ queue' = queue \ Victims
            /\ dropped' = dropped \cup Victims \cup {p}
            /\ resync_requested' = TRUE
      /\ ~stop /\ ~dead
      /\ UNCHANGED <<stop, dead, packet, sent, cleared>>
  BY PushOutcomes
<1> HIDE DEF p
<1>2. ~Over /\ ~Over' /\ Over' = Over
  BY <1>1 DEF Over, IInv, ShapeOK
<1>3. /\ Line(Video(queue)) /\ Video(queue) \subseteq Everything
      /\ Everything \in SUBSET Packet /\ p \notin Video(queue)
      /\ Victims = Video(queue) /\ Victims \subseteq queue
  BY <1>1, VideoLine DEF Victims, Video
<1>4. Everything' = Everything \cup {p}
  BY <1>1, <1>3 DEF Everything, Flight
<1>5. dropped \subseteq Video(Everything)
  BY DEF IInv, NothingVanishes, Video, Everything
<1>6. /\ Backlog = MarksOf(Video(queue), Everything, dropped)
      /\ Backlog' = MarksOf(Video(queue'), Everything', dropped')
      /\ Gap = GapIn(Everything, dropped) /\ Gap' = GapIn(Everything', dropped')
  BY <1>2, MappingIs, MappingIsNext
<1>7. CASE queue' = queue \cup {p} /\ ~IsVideo(p) /\ UNCHANGED <<dropped, resync_requested>>
  <2>1. Video(queue') = Video(queue) /\ Video(Everything') = Video(Everything)
    BY <1>4, <1>7 DEF Video
  <2>2. Backlog' = Backlog /\ Gap' = Gap
    BY <1>6, <1>7, <2>1 DEF MarksOf, MarkIn, GapIn
  <2> QED
    BY <1>2, <1>7, <2>2 DEF Promise!queueVars
<1>8. CASE queue' = queue \cup {p} /\ IsVideo(p) /\ UNCHANGED <<dropped, resync_requested>>
  <2> DEFINE m == MarkIn(Everything \cup {p}, dropped, p)
  <2>1. Video(queue') = Video(queue) \cup {p}
    BY <1>8 DEF Video
  <2>2. Backlog' = Append(Backlog, m)
    <3>1. MarksOf(Video(queue) \cup {p}, Everything \cup {p}, dropped) =
            Append(MarksOf(Video(queue), Everything, dropped), m)
      <4> DEFINE Q == Video(queue)
                 all == Everything
      <4>1. /\ Line(Q) /\ all \in SUBSET Packet /\ Q \subseteq all
            /\ p \in Packet /\ p \notin Q /\ \A q \in all : q.seq < p.seq
        BY <1>1, <1>3
      <4> HIDE DEF Q, all
      <4>2. MarksOf(Q \cup {p}, all \cup {p}, dropped) =
              Longer(MarksOf(Q, all, dropped), MarkIn(all \cup {p}, dropped, p))
        BY <4>1, MarksAppend
      <4> QED
        BY <4>2 DEF Q, all, Longer
    <3> HIDE DEF m
    <3> QED
      BY <1>4, <1>6, <1>8, <2>1, <3>1
  <2>3. Gap' = FALSE /\ m = Promise!MarkOf(p.kind = "key")
    BY <1>1, <1>3, <1>4, <1>5, <1>6, <1>8, NewestMark DEF Promise!MarkOf
  <2> HIDE DEF m
  <2>4. Promise!Keep(p.kind = "key")
    BY <1>2, <1>8, <2>2, <2>3 DEF Promise!Keep
  <2> QED
    BY <2>4 DEF Promise!QueueNext, Promise!Offer
<1>9. CASE /\ p.kind = "key" /\ queue' = (queue \ Victims) \cup {p}
           /\ dropped' = dropped \cup Victims /\ UNCHANGED resync_requested
  <2>1. Video(queue') = {p} /\ IsVideo(p)
    BY <1>3, <1>9 DEF Video, IsVideo
  <2>2. dropped' \subseteq Video(Everything)
    BY <1>3, <1>5, <1>9 DEF Video, Everything
  <2>3. MarkIn(Everything', dropped', p) = "I" /\ Gap' = FALSE
    <3> DEFINE all == Everything
    <3>1. /\ Everything' = all \cup {p} /\ all \in SUBSET Packet /\ p \in Packet
          /\ \A q \in all : q.seq < p.seq
          /\ dropped' \subseteq Video(all) /\ Gap' = GapIn(Everything', dropped')
      BY <1>1, <1>3, <1>4, <1>6, <2>2
    <3> HIDE DEF all
    <3>2. MarkIn(all \cup {p}, dropped', p) = "I" /\ ~GapIn(all \cup {p}, dropped')
      BY <1>9, <2>1, <3>1, NewestMark
    <3> QED
      BY <3>1, <3>2 DEF GapIn
  <2>4. Backlog' = <<"I">>
    <3>1. MarksOf({p}, Everything', dropped') = <<MarkIn(Everything', dropped', p)>>
      BY <1>1, MarksFew
    <3> QED
      BY <1>6, <2>1, <2>3, <3>1
  <2>5. Promise!Overflow(TRUE)
    BY <1>2, <1>9, <2>3, <2>4 DEF Promise!Overflow, IInv, ShapeOK
  <2> QED
    BY <2>5 DEF Promise!QueueNext, Promise!Offer
<1>10. CASE /\ p.kind = "delta" /\ queue' = queue \ Victims
            /\ dropped' = dropped \cup Victims \cup {p} /\ resync_requested' = TRUE
  <2>1. Video(queue') = {}
    BY <1>3, <1>10 DEF Video
  <2>2. Backlog' = << >>
    BY <1>6, <2>1, MarksFew
  <2>3. \A q \in Video(Everything') : q.seq <= p.seq
    BY <1>1, <1>4 DEF Video, Packet
  <2>4. Gap' = TRUE
    BY <1>6, <1>10, <2>3 DEF GapIn
  <2>5. Promise!Overflow(FALSE)
    BY <1>2, <1>10, <2>2, <2>4 DEF Promise!Overflow, IInv, ShapeOK
  <2> QED
    BY <2>5 DEF Promise!QueueNext, Promise!Offer
<1> QED
  BY <1>1, <1>7, <1>8, <1>9, <1>10

(* run() takes the front: a video packet is the promise's Send, any other  *)
(* is invisible to it.                                                     *)
LEMMA PromisePop ==
  ASSUME IInv, IInv', Pop
  PROVE  [Promise!QueueNext]_(Promise!queueVars)
<1> DEFINE p == Oldest
<1>1. p \in queue /\ \A q \in queue : p.seq <= q.seq
  BY OldestIsLeast DEF Pop, IInv, ShapeOK
<1>2. /\ queue' = queue \ {p} /\ packet' = p /\ thread = "awake" /\ ~stop
      /\ UNCHANGED <<stop, dead, sent, dropped, cleared, resync_requested>>
  BY DEF Pop, history
<1> HIDE DEF p
<1>3. ~Over /\ ~Over' /\ Over' = Over
  BY <1>2 DEF Over, IInv, ShapeOK, ThreadState
<1>4. Everything' = Everything
  <2>1. packet = None /\ p # None
    BY <1>1, <1>2, SizeAssumption DEF IInv, ThreadState, ShapeOK, Packet
  <2> QED
    BY <1>1, <1>2, <2>1 DEF Everything, Flight
<1>5. /\ Backlog = MarksOf(Video(queue), Everything, dropped)
      /\ Backlog' = MarksOf(Video(queue'), Everything, dropped)
      /\ Gap' = Gap
  BY <1>2, <1>3, <1>4, MappingIs, MappingIsNext
<1>6. CASE IsVideo(p)
  <2>1. /\ Video(queue') = Video(queue) \ {p} /\ p \in Video(queue)
        /\ \A q \in Video(queue) : p.seq <= q.seq
    BY <1>1, <1>2, <1>6 DEF Video
  <2>2. Backlog # << >> /\ Backlog' = Tail(Backlog)
    BY <1>5, <2>1, VideoLine, MarksTail
  <2>3. Promise!Send
    BY <1>2, <1>3, <1>5, <2>2 DEF Promise!Send
  <2> QED
    BY <2>3 DEF Promise!QueueNext
<1>7. CASE ~IsVideo(p)
  <2>1. Video(queue') = Video(queue)
    BY <1>2, <1>7 DEF Video
  <2> QED
    BY <1>2, <1>3, <1>5, <2>1 DEF Promise!queueVars
<1> QED
  BY <1>6, <1>7

(* The connection ends, by a failed send or by the destructor: Fail. *)
LEMMA PromiseFail ==
  ASSUME IInv, IInv', Over', UNCHANGED <<resync_requested, dropped>>,
         Everything' = Everything
  PROVE  [Promise!QueueNext]_(Promise!queueVars)
<1>1. Over' = TRUE
  BY DEF Over, IInv, ShapeOK
<1>2. Backlog' = << >> /\ Gap' = Gap
  BY MappingIs, MappingIsNext
<1>3. Promise!Fail
  BY <1>1, <1>2 DEF Promise!Fail
<1> QED
  BY <1>3 DEF Promise!QueueNext

(* Any step of run(). *)
LEMMA PromiseDrain ==
  ASSUME IInv, IInv', Drain
  PROVE  [Promise!QueueNext]_(Promise!queueVars)
<1>1. CASE Park \/ StopSeen
  <2>1. UNCHANGED <<queue, stop, dead, packet, sent, dropped, cleared, resync_requested>>
    BY <1>1 DEF Park, StopSeen, lockVars, history
  <2>2. Everything' = Everything /\ (Over' <=> Over) /\ Video(queue') = Video(queue)
    BY <2>1 DEF Everything, Flight, Over
  <2> QED
    BY <2>1, <2>2, PromiseStutter
<1>2. CASE SendDone \/ Count
  <2>1. /\ UNCHANGED <<queue, stop, dead, dropped, cleared, resync_requested>>
        /\ \/ thread = "sending" /\ sent' = sent \cup {packet} /\ UNCHANGED packet
           \/ thread = "sent" /\ UNCHANGED sent /\ packet' = None
    BY <1>2 DEF SendDone, Count, lockVars, history
  <2>2. Everything' = Everything
    BY <2>1 DEF Everything, Flight, IInv, ThreadState
  <2>3. (Over' <=> Over) /\ Video(queue') = Video(queue)
    BY <2>1 DEF Over
  <2> QED
    BY <2>1, <2>2, <2>3, PromiseStutter
<1>3. CASE SendFailed
  <2>1. /\ thread = "sending" /\ dead' = TRUE /\ cleared' = cleared \cup {packet} /\ packet' = None
        /\ UNCHANGED <<queue, sent, dropped, resync_requested>>
    BY <1>3 DEF SendFailed, lockVars
  <2>2. Everything' = Everything /\ Over'
    BY <2>1 DEF Everything, Flight, Over, IInv, ThreadState
  <2> QED
    BY <2>1, <2>2, PromiseFail
<1>4. CASE ClearAndExit
  <2>1. /\ thread = "failed" /\ cleared' = cleared \cup queue /\ queue' = {}
        /\ UNCHANGED <<dead, packet, sent, dropped, resync_requested>>
    BY <1>4 DEF ClearAndExit
  <2>2. Everything' = Everything /\ Over'
    BY <2>1 DEF Everything, Flight, Over, IInv, ThreadState
  <2> QED
    BY <2>1, <2>2, PromiseFail
<1> QED
  BY <1>1, <1>2, <1>3, <1>4, PromisePop DEF Drain

(* Any call of the owner, destructor included. *)
LEMMA PromiseRunLoop ==
  ASSUME IInv, IInv', RunLoop
  PROVE  [Promise!QueueNext]_(Promise!queueVars)
<1>1. CASE SetMaxQueuedBytes \/ TakeStats \/ Shutdown \/ JoinAndClose
  <2>1. UNCHANGED <<queue, stop, dead, packet, sent, dropped, cleared, resync_requested>>
    BY <1>1 DEF SetMaxQueuedBytes, TakeStats, Shutdown, JoinAndClose, lockVars, history
  <2>2. Everything' = Everything /\ (Over' <=> Over) /\ Video(queue') = Video(queue)
    BY <2>1 DEF Everything, Flight, Over
  <2> QED
    BY <2>1, <2>2, PromiseStutter
<1>2. CASE TakeResyncRequest
  <2>1. /\ UNCHANGED <<queue, stop, dead, packet, sent, dropped, cleared>>
        /\ resync_requested' = FALSE
    BY <1>2 DEF TakeResyncRequest, history
  <2>2. Everything' = Everything /\ Over' = Over
    BY <2>1 DEF Everything, Flight, Over
  <2>3. Backlog' = Backlog /\ Gap' = Gap
    BY <2>1, <2>2, MappingIs, MappingIsNext
  <2>4. Promise!TakeResync
    BY <2>1, <2>2, <2>3 DEF Promise!TakeResync
  <2> QED
    BY <2>4 DEF Promise!QueueNext
<1>3. CASE Stop
  <2>1. /\ cleared' = cleared \cup queue /\ queue' = {} /\ stop' = TRUE
        /\ UNCHANGED <<packet, sent, dropped, resync_requested>>
    BY <1>3 DEF Stop
  <2>2. Everything' = Everything /\ Over'
    BY <2>1 DEF Everything, Flight, Over
  <2> QED
    BY <2>1, <2>2, PromiseFail
<1> QED
  BY <1>1, <1>2, <1>3 DEF RunLoop

(* Every step of the detailed queue is a step of the promise or none. *)
LEMMA PromiseStep == IInv /\ IInv' /\ [Next]_vars => [Promise!QueueNext]_(Promise!queueVars)
<1> SUFFICES ASSUME IInv, IInv', [Next]_vars
             PROVE  [Promise!QueueNext]_(Promise!queueVars)
  OBVIOUS
<1>1. CASE UNCHANGED vars
  <2>1. UNCHANGED <<queue, stop, dead, packet, sent, dropped, cleared, resync_requested>>
    BY <1>1 DEF vars, lockVars, history
  <2>2. Everything' = Everything /\ (Over' <=> Over) /\ Video(queue') = Video(queue)
    BY <2>1 DEF Everything, Flight, Over
  <2> QED
    BY <2>1, <2>2, PromiseStutter
<1>2. ASSUME NEW k \in Kinds, NEW n \in SizeOf[k], Push(k, n)
      PROVE  [Promise!QueueNext]_(Promise!queueVars)
  BY <1>2, PromisePush
<1> QED
  BY <1>1, <1>2, PromiseDrain, PromiseRunLoop DEF Next
-----------------------------------------------------------------------------
(* The inductive invariant holds in every reachable state. *)
THEOREM SenderIInv == Spec => []IInv
  BY InitIInv, NextIInv, PTL DEF Spec

(* packet_sender.cpp: every path that queues a packet, and the destructor, *)
(* wakes a parked drain thread; it never sleeps on work or on a stop.      *)
THEOREM WakeupIsNeverLost == Spec => []NoLostWakeup
  BY SenderIInv, PTL DEF IInv

(* The re-test of dead_ under mutex_ (packet_sender.cpp:74) is enough: no  *)
(* packet is queued once the drain thread has cleared the queue and left.  *)
THEOREM NothingIsStranded == Spec => []NothingStranded
  BY SenderIInv, PTL DEF IInv

(* Every packet push() accepted is in exactly one place, and what a        *)
(* backlog flush throws away is video only.                                *)
THEOREM NothingEverVanishes == Spec => []NothingVanishes
  BY SenderIInv, PTL DEF IInv

(* The socket is given packets in push order, however flushes and pushes   *)
(* interleave with the drain thread.                                       *)
THEOREM WireIsInOrder == Spec => []InOrder
  BY SenderIInv, PTL DEF IInv

(* The byte count, the bound and the counters go on holding together. *)
THEOREM SenderLedger == Spec => []Ledger
  BY SenderIInv, InitLedger, NextLedger, PTL DEF Spec

(* The variables keep their types; queued_bytes_, which the code keeps in  *)
(* an unsigned size_t and only ever subtracts from, never goes below zero. *)
THEOREM SenderTypes == Spec => []TypeOK
<1>1. IInv /\ Ledger => TypeOK
  BY BytesType DEF IInv, ShapeOK, Ledger, BytesAccounted, TypeOK
<1> QED
  BY <1>1, SenderIInv, SenderLedger, PTL

(* packet_sender.cpp: push, pop, flush and clear keep queued_bytes_ equal  *)
(* to the bytes queued, so an overflow is judged by the truth.             *)
THEOREM BytesAreAccounted == Spec => []BytesAccounted
  BY SenderLedger, PTL DEF Ledger

(* No video packet waits behind more bytes than the largest budget, unless *)
(* it is a keyframe queued with no video before it.                        *)
THEOREM BacklogIsBounded == Spec => []BacklogBounded
  BY SenderLedger, PTL DEF Ledger

(* take_stats() may be called between any two steps of the drain thread    *)
(* and the producers: nothing is counted twice or lost.                    *)
THEOREM StatsAreExact == Spec => []StatsExact
  BY SenderLedger, PTL DEF Ledger

(* The detailed queue, with its threads, bytes and teardown, implements    *)
(* the contract the rest of the sender is checked against.                 *)
THEOREM PromiseIsKept == Spec => KeepsPromise
  BY PromiseInit, PromiseStep, SenderIInv, PTL DEF Spec, KeepsPromise, Promise!QueueSpec
=============================================================================
