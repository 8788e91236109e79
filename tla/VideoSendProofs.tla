-------------------------- MODULE VideoSendProofs ----------------------------
(***************************************************************************)
(* Proofs about VideoSend, for every set of codecs, queue limit and bound. *)
(***************************************************************************)
EXTENDS VideoSendInv, SequenceTheorems, TLAPS

\* The constants the type proof computes with.
LEMMA ConstantTypes ==
    /\ MaxQueue \in Nat /\ MaxQueue >= 1
    /\ MaxUnits \in Nat /\ IdMod \in Nat /\ IdMod > 1
    /\ 4 * MaxUnits < IdMod
    /\ MaxRestarts \in Nat /\ EpochMod \in Nat /\ EpochMod > 1
    /\ MaxOpens \in Nat
    /\ FirstId \in Ids /\ FirstEpoch \in Epochs
  BY QueueAssumption, IdAssumption, EpochAssumption, OpensAssumption DEF Ids, Epochs

LEMMA NextIdType == ASSUME NEW i \in Ids PROVE NextId(i) \in Ids
  BY ConstantTypes DEF NextId, Ids

LEMMA NextEpochType == ASSUME NEW e \in Epochs PROVE NextEpoch(e) \in Epochs
  BY ConstantTypes DEF NextEpoch, Epochs

\* The suffix of a queue is a queue.
LEMMA SuffixType ==
    ASSUME NEW q \in Seq(Frame), NEW i \in 1..(Len(q) + 1)
    PROVE  /\ SubSeq(q, i, Len(q)) \in Seq(Frame)
           /\ Len(SubSeq(q, i, Len(q))) = Len(q) + 1 - i
           /\ \A j \in 1..(Len(q) + 1 - i) : SubSeq(q, i, Len(q))[j] = q[i + j - 1]
<1>1. \A j \in i..Len(q) : q[j] \in Frame
  BY ElementOfSeq
<1>2. i \in Int /\ Len(q) \in Int
  OBVIOUS
<1> QED
  BY <1>1, <1>2, SubSeqProperties

LEMMA EnqueueType ==
    ASSUME TypeOK, NEW base \in Seq(Frame), Len(base) < MaxQueue, NEW key \in BOOLEAN,
           Enqueue(base, key)
    PROVE  TypeOK'
<1> DEFINE f == [id |-> next_id, unit |-> unit, key |-> key]
<1>1. f \in Frame
  BY ConstantTypes DEF TypeOK, QueueType, HistoryType, Enqueue, Produce, Frame
<1>2. queue' \in Seq(Frame) /\ Len(queue') = Len(base) + 1
  BY <1>1, AppendProperties DEF Enqueue
<1>3. Len(queue') <= MaxQueue
  BY <1>2, ConstantTypes
<1>4. next_id' \in Ids /\ need_keyframe' \in BOOLEAN /\ max_queue' \in 1..MaxQueue
  BY NextIdType DEF TypeOK, QueueType, Enqueue
<1>5. QueueType'
  BY <1>2, <1>3, <1>4 DEF QueueType
<1>6. BridgeType'
  BY DEF TypeOK, BridgeType, Enqueue, evars, bvars
<1>7. CodecType'
  BY DEF TypeOK, CodecType, Enqueue, cvars
<1>8. HistoryType'
  BY ConstantTypes DEF TypeOK, HistoryType, Enqueue, Produce, rstvars, hvars
<1> QED
  BY <1>5, <1>6, <1>7, <1>8 DEF TypeOK

\* The actions that leave a group of variables alone keep its type.
LEMMA QueueKept == ASSUME QueueType, UNCHANGED <<qvars, max_queue>> PROVE QueueType'
  BY DEF QueueType, qvars

LEMMA BridgeKept == ASSUME BridgeType, UNCHANGED <<evars, bvars, keyreq>> PROVE BridgeType'
  BY DEF BridgeType, evars, bvars

LEMMA CodecKept == ASSUME CodecType, UNCHANGED cvars PROVE CodecType'
  BY DEF CodecType, cvars

LEMMA HistoryKept ==
    ASSUME HistoryType, UNCHANGED <<srcvars, rstvars, hvars>> PROVE HistoryType'
  BY DEF HistoryType, srcvars, rstvars, hvars

LEMMA InitType == Init => TypeOK
<1> SUFFICES ASSUME Init PROVE TypeOK
  OBVIOUS
<1>1. QueueType
  <2>1. <<>> \in Seq(Frame) /\ Len(<<>>) = 0
    BY EmptySeq
  <2>2. queue \in Seq(Frame) /\ Len(queue) <= MaxQueue
    BY <2>1, ConstantTypes DEF Init
  <2>3. next_id \in Ids /\ need_keyframe \in BOOLEAN /\ max_queue \in 1..MaxQueue
    BY ConstantTypes DEF Init
  <2> QED
    BY <2>2, <2>3 DEF QueueType
<1>2. BridgeType
  BY ConstantTypes DEF Init, BridgeType
<1>3. CodecType
  BY DEF Init, CodecType
<1>4. HistoryType
  <2>1. /\ unit \in 1..(MaxUnits + 1) /\ refused \in SUBSET (1..MaxUnits)
        /\ restarts \in 0..MaxRestarts /\ restartAt \in 1..(MaxUnits + 1)
    BY ConstantTypes DEF Init
  <2>2. /\ taken \in 0..MaxUnits /\ gateAt \in 0..MaxRestarts /\ opens \in 0..MaxOpens
        /\ keyedAt \in -1..MaxRestarts /\ staleAt \in -1..MaxRestarts
    BY ConstantTypes DEF Init
  <2>3. remote \in [Codecs -> 0..MaxUnits] /\ handled \in [Codecs -> 0..MaxUnits]
    BY ConstantTypes DEF Init
  <2>4. joined \in [Codecs -> BOOLEAN] /\ takenKey \in BOOLEAN
    BY DEF Init
  <2> QED
    BY <2>1, <2>2, <2>3, <2>4 DEF HistoryType
<1> QED
  BY <1>1, <1>2, <1>3, <1>4 DEF TypeOK

LEMMA PushType == ASSUME TypeOK, PushFrame PROVE TypeOK'
<1> USE DEF TypeOK
<1>1. CASE PushRefused
  <2>1. QueueType' /\ BridgeType' /\ CodecType'
    BY <1>1, QueueKept, BridgeKept, CodecKept DEF PushRefused
  <2>2. HistoryType'
    BY <1>1, ConstantTypes DEF PushRefused, Produce, HistoryType, rstvars, hvars
  <2> QED
    BY <2>1, <2>2
<1>2. CASE PushAwaitsKeyframe
  <2>1. QueueType' /\ BridgeType' /\ CodecType'
    BY <1>2, QueueKept, BridgeKept, CodecKept DEF PushAwaitsKeyframe
  <2>2. HistoryType'
    BY <1>2, ConstantTypes DEF PushAwaitsKeyframe, Produce, HistoryType, rstvars, hvars
  <2> QED
    BY <2>1, <2>2
<1>3. ASSUME NEW key \in BOOLEAN, PushRoom(key) PROVE TypeOK'
  <2>1. Enqueue(queue, key) /\ Len(queue) < max_queue
    BY <1>3 DEF PushRoom
  <2>2. queue \in Seq(Frame) /\ Len(queue) < MaxQueue
    BY <2>1, ConstantTypes DEF QueueType
  <2> QED
    BY <2>1, <2>2, EnqueueType
<1>4. CASE PushTrim
  <2>1. PICK i \in 2..Len(queue) : Enqueue(SubSeq(queue, i, Len(queue)), FALSE)
    BY <1>4 DEF PushTrim
  <2>2. /\ SubSeq(queue, i, Len(queue)) \in Seq(Frame)
        /\ Len(SubSeq(queue, i, Len(queue))) < MaxQueue
    BY SuffixType, ConstantTypes DEF QueueType
  <2> QED
    BY <2>1, <2>2, EnqueueType
<1>5. CASE PushOverflowKey
  <2>1. Enqueue(<<>>, TRUE)
    BY <1>5 DEF PushOverflowKey
  <2>2. <<>> \in Seq(Frame) /\ Len(<<>>) < MaxQueue
    BY EmptySeq, ConstantTypes
  <2> QED
    BY <2>1, <2>2, EnqueueType
<1>6. CASE PushFlush
  <2>1. QueueType'
    BY <1>6, ConstantTypes DEF PushFlush, QueueType
  <2>2. BridgeType'
    BY <1>6 DEF PushFlush, BridgeType, evars, bvars, RequestKeyframe
  <2>3. CodecType'
    BY <1>6, CodecKept DEF PushFlush
  <2>4. HistoryType'
    BY <1>6, ConstantTypes DEF PushFlush, Produce, HistoryType, rstvars, hvars
  <2> QED
    BY <2>1, <2>2, <2>3, <2>4
<1> QED
  BY <1>1, <1>2, <1>3, <1>4, <1>5, <1>6 DEF PushFrame

\* What every step of vc_encode_begin after the gate, and vc_encode_more, keeps.
LEMMA OutputType == ASSUME TypeOK, NEW c \in Codecs, EncodeOutput(c) PROVE TypeOK'
<1> USE DEF TypeOK
<1>1. QueueType'
  BY QueueKept DEF EncodeOutput
<1>2. CodecType'
  BY DEF EncodeOutput, EncodeWide, EncodeFinish, EncodeMore, EncodeRefused, DropOversized, CodecType
<1>3. BridgeType'
  <2>1. CASE EncodeWide(c) \/ EncodeRefused(c)
    BY <2>1 DEF EncodeOutput, EncodeWide, EncodeRefused, DropOversized, RequestKeyframe, Return,
                BridgeType
  <2>2. CASE EncodeFinish(c)
    BY <2>2 DEF EncodeOutput, EncodeFinish, BridgeType, CodecType
  <2>3. CASE EncodeMore(c)
    BY <2>3 DEF EncodeOutput, EncodeMore, Return, BridgeType
  <2> QED
    BY <2>1, <2>2, <2>3 DEF EncodeOutput
<1>4. HistoryType'
  BY ConstantTypes DEF EncodeOutput, EncodeWide, EncodeFinish, EncodeMore, EncodeRefused,
        DropOversized, HistoryType, BridgeType, Frame, NoFrame, srcvars, rstvars
<1> QED
  BY <1>1, <1>2, <1>3, <1>4

LEMMA EncodeType == ASSUME TypeOK, NEW c \in Codecs, Encode(c) PROVE TypeOK'
<1> USE DEF TypeOK
<1>1. ASSUME NEW force \in BOOLEAN, EncodeSkip(c, force) PROVE TypeOK'
  <2>1. QueueType' /\ CodecType' /\ HistoryType'
    BY <1>1, QueueKept, CodecKept, HistoryKept DEF EncodeSkip
  <2>2. BridgeType'
    BY <1>1 DEF EncodeSkip, Return, BridgeType, evars
  <2> QED
    BY <2>1, <2>2
<1>2. ASSUME NEW force \in BOOLEAN, EncodeTake(c, force) PROVE TypeOK'
  <2>1. QueueType'
    <3>1. PICK n \in 0..Len(queue) : queue' = SubSeq(queue, n + 1, Len(queue))
      BY <1>2 DEF EncodeTake
    <3>2. queue' \in Seq(Frame) /\ Len(queue') <= MaxQueue
      BY <3>1, SuffixType, ConstantTypes DEF QueueType
    <3> QED
      BY <1>2, <3>2 DEF EncodeTake, QueueType
  <2>2. BridgeType'
    BY <1>2 DEF EncodeTake, BridgeType, evars
  <2>3. CodecType'
    BY <1>2 DEF EncodeTake, CodecType, BridgeType, Frame, Ids
  <2>4. HistoryType'
    BY <1>2, ConstantTypes DEF EncodeTake, HistoryType, BridgeType, Frame, srcvars, rstvars
  <2> QED
    BY <2>1, <2>2, <2>3, <2>4
<1>3. CASE EncodeGate(c)
  <2>1. QueueType'
    BY <1>3, QueueKept DEF EncodeGate
  <2>2. BridgeType'
    BY <1>3 DEF EncodeGate, Return, BridgeType, evars
  <2>3. CodecType'
    BY <1>3 DEF EncodeGate, HasKey, CodecType, BridgeType
  <2>4. HistoryType'
    BY <1>3, ConstantTypes DEF EncodeGate, HistoryType, srcvars, rstvars
  <2> QED
    BY <2>1, <2>2, <2>3, <2>4
<1>4. CASE EncodeOutput(c)
  BY <1>4, OutputType
<1> QED
  BY <1>1, <1>2, <1>3, <1>4 DEF Encode

LEMMA ControlType ==
    ASSUME TypeOK, NEW c \in Codecs,
           \/ \E on \in BOOLEAN : SetTransmit(c, on)
           \/ \E single \in BOOLEAN : Open(c, single)
           \/ Close(c)
    PROVE  TypeOK'
<1> USE DEF TypeOK
<1>1. ASSUME NEW on \in BOOLEAN, SetTransmit(c, on) PROVE TypeOK'
  <2>1. QueueType'
    BY <1>1, QueueKept DEF SetTransmit
  <2>4. HistoryType'
    BY <1>1 DEF SetTransmit, HistoryType, srcvars, rstvars
  <2>2. BridgeType'
    BY <1>1 DEF SetTransmit, BridgeType, evars
  <2>3. CodecType'
    BY <1>1 DEF SetTransmit, CodecType
  <2> QED
    BY <2>1, <2>2, <2>3, <2>4
<1>2. ASSUME NEW single \in BOOLEAN, Open(c, single) PROVE TypeOK'
  <2>1. QueueType'
    BY <1>2, QueueKept DEF Open
  <2>2. BridgeType'
    BY <1>2 DEF Open, RequestKeyframe, BridgeType, evars, bvars
  <2>3. CodecType'
    BY <1>2 DEF Open, ResetEncoder, CodecType
  <2>4. HistoryType'
    BY <1>2, ConstantTypes DEF Open, HistoryType, srcvars, rstvars
  <2> QED
    BY <2>1, <2>2, <2>3, <2>4
<1>3. CASE Close(c)
  <2>1. QueueType'
    BY <1>3, QueueKept DEF Close
  <2>4. HistoryType'
    BY <1>3 DEF Close, HistoryType, srcvars, rstvars
  <2>2. BridgeType'
    BY <1>3 DEF Close, BridgeType, evars
  <2>3. CodecType'
    BY <1>3 DEF Close, ResetEncoder, CodecType
  <2> QED
    BY <2>1, <2>2, <2>3, <2>4
<1> QED
  BY <1>1, <1>2, <1>3

LEMMA NextType == TypeOK /\ [Next]_vars => TypeOK'
<1> SUFFICES ASSUME TypeOK, [Next]_vars PROVE TypeOK'
  OBVIOUS
<1> USE DEF TypeOK
<1>1. CASE PushFrame
  BY <1>1, PushType
<1>2. CASE Clear
  <2>1. QueueType'
    <3>1. queue' \in Seq(Frame) /\ Len(queue') <= MaxQueue
      BY <1>2, ConstantTypes, EmptySeq DEF Clear
    <3> QED
      BY <1>2, <3>1 DEF Clear, QueueType
  <2>2. BridgeType'
    BY <1>2, NextEpochType DEF Clear, BridgeType, bvars
  <2>3. CodecType'
    BY <1>2, CodecKept DEF Clear
  <2>4. HistoryType'
    BY <1>2, ConstantTypes DEF Clear, HistoryType, srcvars, hvars
  <2> QED
    BY <2>1, <2>2, <2>3, <2>4
<1>3. ASSUME NEW n \in 1..MaxQueue, Reconfigure(n) PROVE TypeOK'
  <2>1. QueueType'
    BY <1>3 DEF Reconfigure, QueueType, qvars
  <2>2. BridgeType' /\ CodecType' /\ HistoryType'
    BY <1>3, BridgeKept, CodecKept, HistoryKept DEF Reconfigure
  <2> QED
    BY <2>1, <2>2
<1>4. CASE Poll
  <2>1. QueueType' /\ CodecType' /\ HistoryType'
    BY <1>4, QueueKept, CodecKept, HistoryKept DEF Poll
  <2>2. queue # <<>> => Head(queue) \in Frame
    BY HeadTailProperties DEF QueueType
  <2>3. BridgeType'
    BY <1>4, <2>2 DEF Poll, BridgeType, evars
  <2> QED
    BY <2>1, <2>3
<1>5. CASE BridgeTick
  <2>1. QueueType' /\ CodecType' /\ HistoryType'
    BY <1>5, QueueKept, CodecKept, HistoryKept DEF BridgeTick
  <2>2. BridgeType'
    BY <1>5 DEF BridgeTick, BridgeType, evars
  <2> QED
    BY <2>1, <2>2
<1>6. CASE UNCHANGED vars
  BY <1>6, QueueKept, BridgeKept, CodecKept, HistoryKept DEF vars
<1> QED
  BY <1>1, <1>2, <1>3, <1>4, <1>5, <1>6, EncodeType, ControlType DEF Next

\* In every behaviour of the send path every variable has its type: the queue
\* never outgrows the largest max_queue configured (push_frame's overflow arms,
\* reconfigure's shrinking) and no id is ever 0.
THEOREM TypeCorrect == Spec => []TypeOK
<1> QED
  BY InitType, NextType, PTL DEF Spec

-----------------------------------------------------------------------------
\* The order of units, ids and references (SendInv).

\* One accepted push advances an id's distance by one, or by two over 0.
LEMMA NextIdDistance ==
    ASSUME NEW i \in Ids, NEW f \in Ids, NEW n \in Nat, 2 * (n + 1) < IdMod,
           WrappingSub(i, f) \in 1..(2 * n)
    PROVE  WrappingSub(NextId(i), f) \in 1..(2 * (n + 1))
  BY ConstantTypes DEF NextId, WrappingSub, Ids

LEMMA AtOrBeforeItself == ASSUME NEW f \in Ids PROVE AtOrBefore(f, f)
  BY ConstantTypes DEF AtOrBefore, WrappingSub, Ids

\* An id ahead by less than half the circle is not at or before.
LEMMA AheadIsNotBefore ==
    ASSUME NEW g \in Ids, NEW f \in Ids, NEW n \in 1..MaxUnits,
           WrappingSub(g, f) \in 1..(2 * n)
    PROVE  ~AtOrBefore(g, f)
  BY ConstantTypes DEF AtOrBefore, WrappingSub, Ids

LEMMA QueueElement == ASSUME QueueType, NEW i \in 1..Len(queue) PROVE queue[i] \in Frame
  BY ElementOfSeq DEF QueueType

LEMMA BufferedType ==
    ASSUME TypeOK
    PROVE  Buffered \subseteq Frame /\ Buffers \subseteq Frame
<1>1. Buffers \subseteq Frame
  BY DEF TypeOK, BridgeType, Buffers
<1>2. Buffered \subseteq Frame
  BY <1>1, QueueElement DEF TypeOK, Buffered
<1> QED
  BY <1>1, <1>2

LEMMA FrameFields ==
    ASSUME NEW f \in Frame
    PROVE  f.id \in Ids /\ f.unit \in 1..MaxUnits /\ f.key \in BOOLEAN /\ f # NoFrame
  BY ConstantTypes DEF Frame, NoFrame, Ids

\* No new unit enters a buffer.
LEMMA IdKept ==
    ASSUME TypeOK, IdInv, Buffered' \subseteq Buffered, next_id' = next_id,
           unit' = unit \/ unit' = unit + 1
    PROVE  IdInv'
<1>1. unit \in Nat /\ unit' \in Nat /\ unit <= unit'
  BY ConstantTypes DEF TypeOK, HistoryType
<1>2. ASSUME NEW f \in Buffered', NEW g \in Buffered'
      PROVE  /\ f.unit = g.unit => f = g
             /\ f.unit < g.unit => WrappingSub(g.id, f.id) \in 1..(2 * (g.unit - f.unit))
  BY DEF IdInv
<1>3. ASSUME NEW f \in Buffered'
      PROVE  WrappingSub(next_id', f.id) \in 1..(2 * (unit' - f.unit))
  <2>1. WrappingSub(next_id, f.id) \in 1..(2 * (unit - f.unit)) /\ f.unit \in 1..MaxUnits
    BY BufferedType, FrameFields DEF IdInv
  <2> QED
    BY <2>1, <1>1, ConstantTypes
<1> QED
  BY <1>2, <1>3 DEF IdInv

\* consume_through(hand.id) removes the unit in hand if it is at the front, and
\* nothing else.
LEMMA TakePops ==
    ASSUME TypeOK, OrderInv, IdInv, hand # NoFrame, NEW n \in 0..Len(queue),
           Pops(queue, hand.id, n)
    PROVE  \/ n = 0 /\ (queue # <<>> => hand.unit < queue[1].unit)
           \/ n = 1 /\ queue # <<>> /\ queue[1] = hand
<1>1. hand \in Frame /\ hand \in Buffers /\ hand \in Buffered
  BY DEF TypeOK, BridgeType, Buffers, Buffered
<1>2. Len(queue) \in Nat /\ queue \in Seq(Frame) /\ (queue # <<>> => Len(queue) >= 1)
  BY EmptySeq, LenProperties DEF TypeOK, QueueType
<1>3. ASSUME NEW i \in 1..Len(queue), hand.unit < queue[i].unit
      PROVE  ~AtOrBefore(queue[i].id, hand.id)
  <2>1. queue[i] \in Frame /\ queue[i] \in Buffered
    BY QueueElement DEF TypeOK, Buffered
  <2>2. WrappingSub(queue[i].id, hand.id) \in 1..(2 * (queue[i].unit - hand.unit))
    BY <1>1, <1>3, <2>1 DEF IdInv
  <2>3. queue[i].unit - hand.unit \in 1..MaxUnits
    BY <1>1, <1>3, <2>1, FrameFields, ConstantTypes
  <2> QED
    BY <1>1, <2>1, <2>2, <2>3, FrameFields, AheadIsNotBefore
<1>4. CASE queue = <<>>
  BY <1>2, <1>4
<1>5. CASE queue # <<>> /\ hand.unit < queue[1].unit
  BY <1>2, <1>3, <1>5 DEF Pops
<1>6. CASE queue # <<>> /\ ~(hand.unit < queue[1].unit)
  <2>1. queue[1] \in Frame /\ queue[1] \in Buffered
    BY <1>2, <1>6, QueueElement DEF TypeOK, Buffered
  <2>2. queue[1] = hand
    BY <1>1, <1>2, <1>6, <2>1, FrameFields DEF OrderInv, IdInv
  <2>3. n # 0
    BY <1>2, <1>6, <1>1, <2>2, AtOrBeforeItself, FrameFields DEF Pops
  <2>4. \A i \in 2..Len(queue) : ~AtOrBefore(queue[i].id, hand.id)
    BY <1>2, <1>3, <2>2 DEF OrderInv
  <2>5. n < 2
    BY <1>2, <2>4 DEF Pops
  <2> QED
    BY <1>2, <1>6, <2>2, <2>3, <2>5
<1> QED
  BY <1>4, <1>5, <1>6

\* What the properties read of the send path.
flow == <<queue, next_id, need_keyframe, slot, hand, taken, unit, refused, restartAt>>

LEMMA FlowKept == ASSUME SendInv, UNCHANGED flow PROVE SendInv'
<1> USE DEF flow
<1>1. OrderInv'
  BY DEF SendInv, OrderInv, Buffers
<1>2. IdInv'
  BY DEF SendInv, IdInv, Buffered, Buffers
<1>3. ChainInv'
  BY DEF SendInv, ChainInv, QueueChain, Buffers, Points, Link, Follows
<1> QED
  BY <1>1, <1>2, <1>3 DEF SendInv

LEMMA InitSendInv == Init => SendInv
<1> SUFFICES ASSUME Init PROVE SendInv
  OBVIOUS
<1>1. Buffers = {} /\ Buffered = {} /\ Points = {0} /\ Len(queue) = 0
  BY EmptySeq DEF Init, Buffers, Buffered, Points
<1>2. OrderInv
  BY <1>1 DEF Init, OrderInv
<1>3. IdInv
  BY <1>1 DEF IdInv
<1>4. ChainInv
  BY <1>1 DEF Init, ChainInv, QueueChain
<1> QED
  BY <1>2, <1>3, <1>4 DEF SendInv

\* More units refused, or a later restart, break no link.
LEMMA LinkKept ==
    ASSUME TypeOK, refused \subseteq refused', restartAt <= restartAt',
           restartAt' \in Nat, NEW x \in Nat, NEW f \in Frame, Link(x, f)
    PROVE  (Link(x, f))'
  BY FrameFields DEF Link, Follows, TypeOK, HistoryType

LEMMA PointsType == ASSUME TypeOK PROVE Points \subseteq Nat
  BY BufferedType, FrameFields, ConstantTypes DEF Points, TypeOK, HistoryType

LEMMA PollInv == ASSUME TypeOK, SendInv, Poll PROVE SendInv'
<1> USE DEF Poll, qvars, evars, srcvars, rstvars, hvars, SendInv
<1>1. CASE queue = <<>>
  <2>1. slot' = NoFrame /\ queue' = queue /\ hand' = hand
    BY <1>1
  <2>2. Buffers' \subseteq Buffers /\ Buffered' \subseteq Buffered /\ Points' \subseteq Points
    BY <2>1 DEF Buffers, Buffered, Points
  <2>3. OrderInv'
    BY <2>1, <2>2 DEF OrderInv
  <2>4. IdInv'
    BY <2>2, IdKept
  <2>5. ChainInv'
    BY <2>1, <2>2, <1>1 DEF ChainInv, QueueChain, Link, Follows
  <2> QED
    BY <2>3, <2>4, <2>5
<1>2. CASE queue # <<>>
  <2>1. slot' = queue[1] /\ queue' = queue /\ hand' = hand /\ 1 \in 1..Len(queue)
    BY <1>2, HeadTailProperties, EmptySeq DEF TypeOK, QueueType
  <2>2. slot' \in Frame
    BY <2>1, QueueElement DEF TypeOK
  <2>3. /\ Buffers' \subseteq Buffers \cup {queue[1]}
        /\ Buffered' \subseteq Buffered
        /\ Points' \subseteq Points \cup {queue[1].unit}
        /\ hand # NoFrame => hand \in Buffers /\ hand.unit \in Points
        /\ taken \in Points
    BY <2>1 DEF Buffers, Buffered, Points
  <2>4. OrderInv'
    <3>1. \A i \in 1..Len(queue) : queue[1].unit <= queue[i].unit
      BY <2>1, QueueElement, FrameFields DEF OrderInv, TypeOK
    <3> QED
      BY <3>1, <2>1, <2>3, <2>2, FrameFields, ConstantTypes DEF OrderInv, TypeOK, HistoryType
  <2>5. IdInv'
    BY <2>3, IdKept
  <2>6. ChainInv'
    BY <2>1, <2>3, <1>2 DEF ChainInv, QueueChain, Link, Follows
  <2> QED
    BY <2>4, <2>5, <2>6
<1> QED
  BY <1>1, <1>2

LEMMA TickInv == ASSUME TypeOK, SendInv, BridgeTick PROVE SendInv'
<1> USE DEF BridgeTick, qvars, evars, srcvars, rstvars, hvars, SendInv
<1>1. hand' = slot /\ slot' = slot /\ queue' = queue
  OBVIOUS
<1>2. /\ Buffers' \subseteq Buffers /\ Buffered' \subseteq Buffered /\ Points' \subseteq Points
      /\ slot # NoFrame => slot \in Buffers
  BY <1>1 DEF Buffers, Buffered, Points
<1>3. OrderInv'
  BY <1>1, <1>2, BufferedType, FrameFields DEF OrderInv
<1>4. IdInv'
  BY <1>2, IdKept
<1>5. ChainInv'
  BY <1>1, <1>2 DEF ChainInv, QueueChain, Link, Follows
<1> QED
  BY <1>3, <1>4, <1>5

LEMMA TakeInv ==
    ASSUME TypeOK, SendInv, NEW c \in Codecs, NEW force \in BOOLEAN, EncodeTake(c, force)
    PROVE  SendInv'
<1> USE DEF SendInv
<1>1. /\ hand # NoFrame /\ taken' = hand.unit
      /\ UNCHANGED <<hand, slot, next_id, need_keyframe, unit, refused, restartAt>>
  BY DEF EncodeTake, srcvars, rstvars
<1>2. hand \in Frame /\ hand \in Buffers /\ hand.unit \in Points
  BY <1>1 DEF TypeOK, BridgeType, Buffers, Points
<1>3. PICK n \in 0..Len(queue) :
          Pops(queue, hand.id, n) /\ queue' = SubSeq(queue, n + 1, Len(queue))
  BY DEF EncodeTake
<1>4. queue \in Seq(Frame) /\ Len(queue) \in Nat /\ (queue # <<>> => Len(queue) >= 1)
  BY EmptySeq, LenProperties DEF TypeOK, QueueType
<1>5. Buffers' = Buffers /\ Points' \subseteq Points
  BY <1>1, <1>2 DEF Buffers, Points
<1>6. CASE queue' = queue /\ (queue # <<>> => hand.unit < queue[1].unit)
  <2>1. Buffered' = Buffered
    BY <1>5, <1>6 DEF Buffered
  <2>2. OrderInv'
    <3>1. \A i \in 1..Len(queue) : hand.unit < queue[i].unit
      BY <1>2, <1>4, <1>6, QueueElement, FrameFields DEF OrderInv, TypeOK
    <3> QED
      BY <1>1, <1>2, <1>5, <1>6, <3>1, BufferedType, FrameFields DEF OrderInv, Buffers
  <2>3. IdInv'
    BY <1>1, <2>1, IdKept
  <2>4. ChainInv'
    BY <1>1, <1>2, <1>5, <1>6 DEF ChainInv, QueueChain, Link, Follows, Buffers
  <2> QED
    BY <2>2, <2>3, <2>4
<1>7. CASE queue # <<>> /\ queue[1] = hand /\ queue' = SubSeq(queue, 2, Len(queue))
  <2>0. ASSUME NEW f \in Buffers PROVE f.unit = hand.unit
    <3>1. f.unit \in Nat /\ hand.unit \in Nat
      BY <1>2, BufferedType, FrameFields
    <3>2. 1 \in 1..Len(queue) /\ queue[1].unit = hand.unit
      BY <1>4, <1>7
    <3>3. f.unit <= hand.unit
      BY <3>2 DEF OrderInv
    <3>4. f = hand \/ (f = slot /\ hand.unit <= slot.unit)
      BY <1>1 DEF OrderInv, Buffers
    <3> QED
      BY <3>1, <3>3, <3>4
  <2>1. /\ Len(queue') = Len(queue) - 1
        /\ \A j \in 1..Len(queue') : j + 1 \in 1..Len(queue) /\ queue'[j] = queue[j + 1]
    <3>1. 2 \in 1..(Len(queue) + 1)
      BY <1>4, <1>7
    <3>2. /\ Len(queue') = Len(queue) + 1 - 2
          /\ \A j \in 1..(Len(queue) + 1 - 2) : queue'[j] = queue[2 + j - 1]
      BY <1>4, <1>7, <3>1, SuffixType
    <3> QED
      BY <1>4, <3>2
  <2>2. Buffered' \subseteq Buffered
    BY <1>5, <2>1 DEF Buffered
  <2>3. OrderInv'
    <3>0. \A i, j \in 1..Len(queue) : i < j => queue[i].unit < queue[j].unit
      BY DEF OrderInv
    <3>1. \A i \in 1..Len(queue') : hand.unit < queue'[i].unit
      <4>1. \A i \in 1..Len(queue') : 1 \in 1..Len(queue) /\ i + 1 \in 1..Len(queue) /\ 1 < i + 1
        BY <1>4, <2>1
      <4> QED
        BY <1>7, <2>1, <3>0, <4>1
    <3> QED
      <4>1. \A i \in 1..Len(queue') : queue'[i].unit < unit
        BY <2>1 DEF OrderInv
      <4>2. \A i, j \in 1..Len(queue') : i < j => queue'[i].unit < queue'[j].unit
        <5>1. \A i, j \in 1..Len(queue') : i < j =>
                 i + 1 \in 1..Len(queue) /\ j + 1 \in 1..Len(queue) /\ i + 1 < j + 1
          BY <2>1
        <5> QED
          BY <2>1, <3>0, <5>1
      <4>3. \A f \in Buffers' : hand.unit <= f.unit /\ f.unit < unit
        BY <1>2, <1>5, <2>0, FrameFields DEF OrderInv
      <4>4. \A f \in Buffers' : \A i \in 1..Len(queue') : f.unit <= queue'[i].unit
        <5>1. ASSUME NEW i \in 1..Len(queue') PROVE hand.unit <= queue'[i].unit
          <6>1. queue'[i] \in Frame
            BY <2>1, QueueElement DEF TypeOK
          <6> QED
            BY <1>2, <3>1, <6>1, FrameFields
        <5> QED
          BY <1>5, <2>0, <5>1
      <4> QED
        BY <1>1, <1>2, <3>1, <4>1, <4>2, <4>3, <4>4 DEF OrderInv
  <2>4. IdInv'
    BY <1>1, <2>2, IdKept
  <2>5. ChainInv'
    <3>1. \A x \in Points' : x = hand.unit
      BY <1>1, <1>5, <2>0 DEF Points
    <3>2. QueueChain'
      <4>1. SUFFICES ASSUME NEW i \in 1..(Len(queue') - 1)
                     PROVE  \/ queue'[i + 1].key
                            \/ Follows(queue'[i].unit, queue'[i + 1].unit)
        BY <1>1 DEF QueueChain, Follows
      <4>2. i \in 1..Len(queue') /\ i + 1 \in 1..Len(queue') /\ i + 1 \in 1..(Len(queue) - 1)
        BY <1>4, <2>1
      <4>3. queue'[i] = queue[i + 1] /\ queue'[i + 1] = queue[(i + 1) + 1]
        BY <2>1, <4>2
      <4> QED
        BY <4>2, <4>3 DEF ChainInv, QueueChain
    <3>3. queue' # <<>> => Link(hand.unit, queue'[1])
      BY <1>4, <1>7, <2>1, EmptySeq DEF ChainInv, QueueChain, Link
    <3>a. Follows(queue[Len(queue)].unit, unit)
      BY <1>7 DEF ChainInv
    <3>b. queue' \in Seq(Frame) /\ Len(queue') \in Nat /\ (queue' # <<>> => Len(queue') >= 1)
      BY <1>4, <1>7, SuffixType, EmptySeq, LenProperties
    <3>4. queue' = <<>> => Follows(hand.unit, unit)
      <4>1. queue' = <<>> => Len(queue) = 1
        <5>1. queue' = <<>> => Len(queue') = 0
          BY EmptySeq
        <5>2. Len(queue') = Len(queue) - 1 /\ Len(queue) \in Nat
          BY <1>4, <2>1
        <5> QED
          BY <5>1, <5>2
      <4> QED
        BY <1>7, <3>a, <4>1
    <3>5. queue' # <<>> => Follows(queue'[Len(queue')].unit, unit)
      <4>1. queue' # <<>> => queue'[Len(queue')] = queue[Len(queue)]
        <5>1. queue' # <<>> => Len(queue') \in 1..Len(queue') /\ Len(queue') + 1 = Len(queue)
          BY <1>4, <2>1, <3>b
        <5> QED
          BY <2>1, <5>1
      <4> QED
        BY <3>a, <4>1
    <3>6. \A f \in Buffers : Link(hand.unit, f)
      BY <1>1, <1>2 DEF ChainInv, Buffers, Link
    <3> QED
      BY <1>1, <1>2, <1>5, <1>7, <3>1, <3>2, <3>3, <3>4, <3>5, <3>6
      DEF ChainInv, Link, Follows, Buffers
  <2> QED
    BY <2>3, <2>4, <2>5
<1> QED
  <2>1. CASE n = 0
    BY <1>1, <1>3, <1>4, <1>6, <2>1, TakePops, SubSeqFull
  <2>2. CASE n = 1
    BY <1>1, <1>3, <1>4, <1>7, <2>2, TakePops
  <2> QED
    BY <1>1, <1>3, <2>1, <2>2, TakePops

LEMMA ClearInv == ASSUME TypeOK, SendInv, Clear PROVE SendInv'
<1> USE DEF Clear, bvars, srcvars, hvars, SendInv
<1>1. /\ queue' = <<>> /\ Len(queue') = 0 /\ restartAt' = unit
      /\ unit \in Nat /\ restartAt \in Nat
  BY EmptySeq, ConstantTypes DEF TypeOK, HistoryType
<1>2. Buffers' = Buffers /\ Buffered' \subseteq Buffered /\ Points' = Points
  BY <1>1 DEF Buffers, Buffered, Points
<1>3. \A x \in Points : x < unit
  BY DEF Points, OrderInv
<1>4. OrderInv'
  BY <1>1, <1>2 DEF OrderInv
<1>5. IdInv'
  BY <1>2, IdKept
<1>6. ChainInv'
  <2>1. \A f \in Buffers : taken < unit
    BY DEF OrderInv
  <2> QED
    BY <1>1, <1>2, <1>3, <2>1 DEF ChainInv, QueueChain, Link, OrderInv, Buffers, Points
<1> QED
  BY <1>4, <1>5, <1>6

\* A unit that does not reach the queue, with the queue as it was.
LEMMA PassedOverInv ==
    ASSUME TypeOK, SendInv, Produce, UNCHANGED <<qvars, bvars, rstvars, hvars>>,
           \/ refused' = refused \cup {unit}
           \/ refused' = refused /\ need_keyframe
    PROVE  SendInv'
<1> USE DEF Produce, qvars, bvars, rstvars, hvars, SendInv
<1>1. Buffers' = Buffers /\ Buffered' = Buffered /\ Points' = Points
  BY DEF Buffers, Buffered, Points
<1>2. unit \in Nat /\ unit' = unit + 1 /\ Points \subseteq Nat
  BY ConstantTypes, PointsType DEF TypeOK, HistoryType
<1>3. OrderInv'
  BY <1>1, <1>2, BufferedType, FrameFields, QueueElement, ConstantTypes
  DEF OrderInv, TypeOK, HistoryType
<1>4. IdInv'
  BY <1>1, IdKept
<1>5. CASE refused' = refused \cup {unit}
  <2>1. \A x \in Nat : Follows(x, unit) => (Follows(x, unit))'
    BY <1>2, <1>5 DEF Follows
  <2>2. \A x, y \in Nat : Follows(x, y) => \A v \in (x + 1)..(y - 1) : v \in refused'
    BY <1>5 DEF Follows
  <2>3. \A f \in Buffered : f.unit \in Nat
    BY BufferedType, FrameFields
  <2>4. \A i \in 1..Len(queue) : queue[i] \in Buffered
    BY DEF Buffered
  <2>5. Buffers \subseteq Buffered /\ taken \in Nat
    BY ConstantTypes DEF Buffered, TypeOK, HistoryType
  <2>6. ASSUME NEW x \in Nat, NEW f \in Buffered, Link(x, f) PROVE (Link(x, f))'
    BY <1>5, <2>6 DEF Link, Follows
  <2>7. QueueChain'
    BY <1>5 DEF ChainInv, QueueChain, Follows
  <2>8. \A f \in Buffers : (Link(taken, f))'
    BY <2>5, <2>6 DEF ChainInv
  <2>9. hand # NoFrame /\ slot # NoFrame => (Link(hand.unit, slot))'
    BY <2>3, <2>5, <2>6 DEF ChainInv, Buffers
  <2>10. queue # <<>> => \A x \in Points : (Link(x, queue[1]))'
    BY <1>2, <2>4, <2>6, EmptySeq DEF ChainInv, TypeOK, QueueType
  <2>11. queue = <<>> /\ ~need_keyframe =>
            \A x \in Points : x < restartAt \/ (Follows(x, unit))'
    BY <1>2, <2>1 DEF ChainInv
  <2>12. queue # <<>> => (Follows(queue[Len(queue)].unit, unit))'
    <3>1. queue # <<>> => queue[Len(queue)].unit \in Nat
      BY <2>3, <2>4, EmptySeq DEF TypeOK, QueueType
    <3> QED
      BY <2>1, <3>1 DEF ChainInv
  <2> QED
    BY <1>1, <1>3, <1>4, <2>7, <2>8, <2>9, <2>10, <2>11, <2>12 DEF ChainInv
<1>6. CASE refused' = refused /\ need_keyframe
  <2>1. ChainInv'
    BY <1>1, <1>6 DEF ChainInv, QueueChain, Link, Follows
  <2> QED
    BY <1>3, <1>4, <2>1
<1> QED
  BY <1>5, <1>6

LEMMA FlushInv == ASSUME TypeOK, SendInv, PushFlush PROVE SendInv'
<1> USE DEF PushFlush, Produce, bvars, rstvars, hvars, SendInv
<1>1. /\ queue' = <<>> /\ Len(queue') = 0 /\ unit' = unit + 1 /\ unit \in Nat
      /\ restartAt \in Nat /\ taken \in Nat
  BY EmptySeq, ConstantTypes DEF TypeOK, HistoryType
<1>2. Buffers' = Buffers /\ Buffered' \subseteq Buffered
  BY <1>1 DEF Buffers, Buffered
<1>3. OrderInv'
  BY <1>1, <1>2, BufferedType, FrameFields DEF OrderInv
<1>4. IdInv'
  BY <1>2, IdKept
<1>5. ChainInv'
  BY <1>1, <1>2 DEF ChainInv, QueueChain, Link, Follows
<1> QED
  BY <1>3, <1>4, <1>5

\* Every accepted push appends to a suffix of the queue that starts with a
\* keyframe, unless it is the whole queue.
LEMMA EnqueueInv ==
    ASSUME TypeOK, SendInv, NEW key \in BOOLEAN, NEW i \in 1..(Len(queue) + 1),
           Enqueue(SubSeq(queue, i, Len(queue)), key),
           \/ i = 1
           \/ i <= Len(queue) /\ queue[i].key
           \/ i = Len(queue) + 1 /\ key
    PROVE  SendInv'
<1> USE DEF SendInv
<1> DEFINE base == SubSeq(queue, i, Len(queue))
<1> DEFINE m == Len(queue) + 1 - i
<1> DEFINE g == [id |-> next_id, unit |-> unit, key |-> key]
<1>1. queue \in Seq(Frame) /\ Len(queue) \in Nat /\ (Len(queue) = 0 <=> queue = <<>>)
  BY EmptySeq, LenProperties DEF TypeOK, QueueType
<1>2. g \in Frame /\ g.id = next_id /\ g.unit = unit /\ g.key = key
  BY ConstantTypes DEF TypeOK, QueueType, HistoryType, Enqueue, Produce, Frame
<1>3. /\ m \in Nat /\ base \in Seq(Frame) /\ Len(base) = m
      /\ \A j \in 1..m : i + j - 1 \in 1..Len(queue) /\ base[j] = queue[i + j - 1]
  <2>1. m \in Nat /\ \A j \in 1..m : i + j - 1 \in 1..Len(queue)
    BY <1>1
  <2>2. /\ base \in Seq(Frame) /\ Len(base) = m
        /\ \A j \in 1..m : base[j] = queue[i + j - 1]
    BY <1>1, SuffixType
  <2> QED
    BY <2>1, <2>2
<1>4. queue' = Append(base, g)
  BY DEF Enqueue
<1>5. /\ queue' \in Seq(Frame) /\ Len(queue') = m + 1 /\ queue'[m + 1] = g
      /\ \A j \in 1..m : i + j - 1 \in 1..Len(queue) /\ queue'[j] = queue[i + j - 1]
  BY <1>2, <1>3, <1>4, AppendProperties
<1>6. /\ unit' = unit + 1 /\ next_id' = NextId(next_id) /\ need_keyframe' = FALSE
      /\ slot' = slot /\ hand' = hand /\ taken' = taken
      /\ refused' = refused /\ restartAt' = restartAt
  BY DEF Enqueue, Produce, bvars, rstvars, hvars
<1>7. /\ unit \in 1..MaxUnits /\ restartAt \in Nat /\ taken \in Nat /\ next_id \in Ids
      /\ Points \subseteq Nat
  BY ConstantTypes, PointsType DEF TypeOK, QueueType, HistoryType, Enqueue, Produce
<1>8. /\ Buffers' = Buffers /\ Points' = Points
      /\ Buffered' \subseteq Buffered \cup {g}
  <2>1. \A j \in 1..(m + 1) : j \in 1..m \/ j = m + 1
    BY <1>3
  <2> QED
    BY <1>5, <1>6, <2>1 DEF Buffers, Buffered, Points
<1>9. \A f \in Buffered : f \in Frame /\ f.unit < unit
  BY BufferedType DEF OrderInv, Buffered
<1>10. m # 0 => queue # <<>> /\ queue'[m] = queue[Len(queue)] /\ m \in 1..m
  BY <1>1, <1>3, <1>5
<1> HIDE DEF base, m, g
<1>11. \A j \in 1..(m + 1) : j \in 1..m \/ j = m + 1
  BY <1>3
<1>12. OrderInv'
  <2>1. \A j \in 1..m : taken < queue'[j].unit /\ queue'[j].unit < unit
    BY <1>5 DEF OrderInv
  <2>2. \A j \in 1..(m + 1) : taken < queue'[j].unit /\ queue'[j].unit < unit + 1
    BY <1>2, <1>5, <1>7, <1>11, <2>1, ElementOfSeq, FrameFields DEF OrderInv
  <2>3. \A j, k \in 1..m : j < k => queue'[j].unit < queue'[k].unit
    <3>1. \A j, k \in 1..m : j < k => i + j - 1 < i + k - 1
      OBVIOUS
    <3> QED
      BY <1>5, <3>1 DEF OrderInv
  <2>4. \A j, k \in 1..(m + 1) : j < k => queue'[j].unit < queue'[k].unit
    <3>1. \A j, k \in 1..(m + 1) : j < k => j \in 1..m
      BY <1>3
    <3> QED
      BY <1>2, <1>5, <1>11, <2>1, <2>3, <3>1
  <2>5. \A f \in Buffers : \A j \in 1..(m + 1) : f.unit <= queue'[j].unit
    <3>1. \A f \in Buffers : f.unit \in Nat /\ f.unit < unit
      BY BufferedType, FrameFields DEF OrderInv
    <3>2. \A f \in Buffers : \A j \in 1..m : f.unit <= queue'[j].unit
      BY <1>5 DEF OrderInv
    <3> QED
      BY <1>2, <1>5, <1>7, <1>11, <3>1, <3>2
  <2>6. \A f \in Buffers : taken <= f.unit /\ f.unit < unit + 1
    BY <1>7, BufferedType, FrameFields DEF OrderInv
  <2> QED
    BY <1>5, <1>6, <1>7, <1>8, <2>2, <2>4, <2>5, <2>6 DEF OrderInv
<1>13. IdInv'
  <2>1. \A f \in Buffered : WrappingSub(next_id, f.id) \in 1..(2 * (unit - f.unit))
    BY DEF IdInv
  <2>2. \A f \in Buffered : WrappingSub(next_id', f.id) \in 1..(2 * (unit + 1 - f.unit))
    <3>1. ASSUME NEW f \in Buffered
          PROVE  WrappingSub(NextId(next_id), f.id) \in 1..(2 * ((unit - f.unit) + 1))
      <4>1. unit - f.unit \in Nat /\ 2 * ((unit - f.unit) + 1) < IdMod /\ f.id \in Ids
        BY <1>7, <1>9, FrameFields, ConstantTypes
      <4> QED
        BY <1>7, <2>1, <4>1, NextIdDistance
    <3>2. \A f \in Buffered : f.unit \in Nat
      BY <1>9, FrameFields
    <3> QED
      BY <1>6, <1>7, <3>1, <3>2
  <2>3. WrappingSub(next_id', g.id) \in 1..(2 * (unit + 1 - g.unit))
    BY <1>2, <1>6, <1>7, ConstantTypes DEF NextId, WrappingSub, Ids
  <2>4. \A e, f \in Buffered \cup {g} :
            /\ e.unit = f.unit => e = f
            /\ e.unit < f.unit => WrappingSub(f.id, e.id) \in 1..(2 * (f.unit - e.unit))
    <3>1. \A f \in Buffered : f.unit \in Nat /\ unit \in Nat /\ f.unit < unit
      BY <1>7, <1>9, FrameFields
    <3>2. \A e, f \in Buffered :
            /\ e.unit = f.unit => e = f
            /\ e.unit < f.unit => WrappingSub(f.id, e.id) \in 1..(2 * (f.unit - e.unit))
      BY DEF IdInv
    <3>3. \A e \in Buffered : WrappingSub(g.id, e.id) \in 1..(2 * (g.unit - e.unit))
      BY <1>2, <2>1
    <3>4. g.unit = unit /\ unit \in Nat
      BY <1>2, <1>7
    <3> SUFFICES ASSUME NEW e \in Buffered \cup {g}, NEW f \in Buffered \cup {g}
                 PROVE  /\ e.unit = f.unit => e = f
                        /\ e.unit < f.unit =>
                              WrappingSub(f.id, e.id) \in 1..(2 * (f.unit - e.unit))
      OBVIOUS
    <3>5. CASE e \in Buffered /\ f \in Buffered
      BY <3>2, <3>5
    <3>6. CASE e \in Buffered /\ f = g
      BY <3>1, <3>3, <3>4, <3>6
    <3>7. CASE e = g
      BY <3>1, <3>4, <3>7
    <3> QED
      BY <3>5, <3>6, <3>7
  <2>5. \A f \in Buffered \cup {g} :
            WrappingSub(next_id', f.id) \in 1..(2 * (unit' - f.unit))
    <3>1. unit \in Int /\ unit' \in Int /\ unit' = unit + 1
      BY <1>6, <1>7, ConstantTypes
    <3>2. \A f \in Buffered : WrappingSub(next_id', f.id) \in 1..(2 * (unit' - f.unit))
      BY <1>9, <2>2, <3>1, FrameFields
    <3>3. WrappingSub(next_id', g.id) \in 1..(2 * (unit' - g.unit))
      BY <1>2, <2>3, <3>1
    <3> QED
      BY <3>2, <3>3
  <2> QED
    BY <1>8, <2>4, <2>5 DEF IdInv
<1>14. ChainInv'
  <2>1. QueueChain'
    <3>1. ASSUME NEW j \in 1..m, j < m
          PROVE  queue'[j + 1].key \/ Follows(queue'[j].unit, queue'[j + 1].unit)
      <4>1. /\ j + 1 \in 1..m /\ i + (j + 1) - 1 = (i + j - 1) + 1
            /\ i + j - 1 \in 1..(Len(queue) - 1)
        BY <1>1, <1>3, <1>5, <3>1
      <4> QED
        BY <1>5, <4>1 DEF ChainInv, QueueChain
    <3>2. m # 0 => Follows(queue'[m].unit, queue'[m + 1].unit)
      BY <1>2, <1>5, <1>10 DEF ChainInv
    <3>3. \A j \in 1..(Len(queue') - 1) : j \in 1..m /\ (j < m \/ (j = m /\ m # 0))
      BY <1>3, <1>5
    <3>4. \A j \in 1..(Len(queue') - 1) :
              queue'[j + 1].key \/ Follows(queue'[j].unit, queue'[j + 1].unit)
      BY <3>1, <3>2, <3>3
    <3> QED
      BY <1>6, <3>4 DEF QueueChain, Follows
  <2>2. \A x \in Points : Link(x, queue'[1])
    <3>1. CASE m # 0
      <4>1. queue'[1] = queue[i] /\ i <= Len(queue)
        BY <1>1, <1>3, <1>5, <3>1 DEF m
      <4> QED
        BY <1>1, <1>10, <3>1, <4>1 DEF ChainInv, Link
    <3>2. CASE m = 0
      <4>1. queue'[1] = g /\ i = Len(queue) + 1
        BY <1>1, <1>5, <3>2 DEF m
      <4>2. key \/ (queue = <<>> /\ ~need_keyframe)
        <5>1. need_keyframe => key
          BY DEF Enqueue
        <5>2. ~key => i = 1 /\ i = Len(queue) + 1
          BY <1>1, <4>1
        <5> QED
          BY <1>1, <5>1, <5>2
      <4> QED
        BY <1>2, <4>1, <4>2 DEF ChainInv, Link
    <3> QED
      BY <3>1, <3>2
  <2>3. Follows(queue'[Len(queue')].unit, unit')
    BY <1>2, <1>5, <1>6, <1>7 DEF Follows
  <2>4. Len(queue') # 0 /\ queue' # <<>>
    BY <1>3, <1>5, EmptySeq
  <2> QED
    BY <1>6, <1>8, <2>1, <2>2, <2>3, <2>4 DEF ChainInv, Link, Follows, Buffers
<1> QED
  BY <1>12, <1>13, <1>14

LEMMA PushInv == ASSUME TypeOK, SendInv, PushFrame PROVE SendInv'
<1>1. queue \in Seq(Frame) /\ Len(queue) \in Nat
  BY DEF TypeOK, QueueType
<1>2. CASE PushRefused
  BY <1>2, PassedOverInv DEF PushRefused
<1>3. CASE PushAwaitsKeyframe
  BY <1>3, PassedOverInv DEF PushAwaitsKeyframe
<1>4. ASSUME NEW key \in BOOLEAN, PushRoom(key) PROVE SendInv'
  <2>1. Enqueue(SubSeq(queue, 1, Len(queue)), key) /\ 1 \in 1..(Len(queue) + 1)
    <3>1. SubSeq(queue, 1, Len(queue)) = queue
      BY <1>1, SubSeqFull
    <3>2. Enqueue(queue, key)
      BY <1>4 DEF PushRoom
    <3>3. 1 \in 1..(Len(queue) + 1)
      BY <1>1
    <3>4. Enqueue(SubSeq(queue, 1, Len(queue)), key)
      BY <3>1, <3>2, Zenon
    <3> QED
      BY <3>3, <3>4
  <2> QED
    BY <2>1, EnqueueInv
<1>5. CASE PushTrim
  <2>1. PICK i \in 2..Len(queue) :
            NewestKey(queue, i) /\ Enqueue(SubSeq(queue, i, Len(queue)), FALSE)
    BY <1>5 DEF PushTrim
  <2>2. i \in 1..(Len(queue) + 1) /\ i <= Len(queue) /\ queue[i].key
    BY <1>1, <2>1 DEF NewestKey
  <2> QED
    BY <2>1, <2>2, EnqueueInv
<1>6. CASE PushOverflowKey
  <2>1. /\ Enqueue(SubSeq(queue, Len(queue) + 1, Len(queue)), TRUE)
        /\ Len(queue) + 1 \in 1..(Len(queue) + 1)
    <3>1. SubSeq(queue, Len(queue) + 1, Len(queue)) = <<>>
      BY <1>1, SubSeqEmpty
    <3>2. Enqueue(<<>>, TRUE)
      BY <1>6 DEF PushOverflowKey
    <3>3. Len(queue) + 1 \in 1..(Len(queue) + 1)
      BY <1>1
    <3>4. Enqueue(SubSeq(queue, Len(queue) + 1, Len(queue)), TRUE)
      BY <3>1, <3>2, Zenon
    <3> QED
      BY <3>3, <3>4
  <2> QED
    BY <2>1, EnqueueInv
<1>7. CASE PushFlush
  BY <1>7, FlushInv
<1> QED
  BY <1>2, <1>3, <1>4, <1>5, <1>6, <1>7 DEF PushFrame

LEMMA NextSendInv == TypeOK /\ SendInv /\ [Next]_vars => SendInv'
<1> SUFFICES ASSUME TypeOK, SendInv, [Next]_vars PROVE SendInv'
  OBVIOUS
<1>1. CASE PushFrame
  BY <1>1, PushInv
<1>2. CASE Clear
  BY <1>2, ClearInv
<1>3. ASSUME NEW n \in 1..MaxQueue, Reconfigure(n) PROVE SendInv'
  BY <1>3, FlowKept DEF Reconfigure, flow, qvars, bvars, srcvars, rstvars, hvars
<1>4. CASE Poll
  BY <1>4, PollInv
<1>5. CASE BridgeTick
  BY <1>5, TickInv
<1>6. ASSUME NEW c \in Codecs, NEW on \in BOOLEAN, SetTransmit(c, on) PROVE SendInv'
  BY <1>6, FlowKept DEF SetTransmit, flow, qvars, srcvars, rstvars, hvars
<1>7. ASSUME NEW c \in Codecs, NEW single \in BOOLEAN, Open(c, single) PROVE SendInv'
  BY <1>7, FlowKept DEF Open, flow, qvars, bvars, srcvars, rstvars
<1>8. ASSUME NEW c \in Codecs, Close(c) PROVE SendInv'
  BY <1>8, FlowKept DEF Close, flow, qvars, srcvars, rstvars, hvars
<1>9. ASSUME NEW c \in Codecs, NEW force \in BOOLEAN, EncodeSkip(c, force) PROVE SendInv'
  BY <1>9, FlowKept DEF EncodeSkip, flow, qvars, srcvars, rstvars, hvars
<1>10. ASSUME NEW c \in Codecs, NEW force \in BOOLEAN, EncodeTake(c, force) PROVE SendInv'
  BY <1>10, TakeInv
<1>11. ASSUME NEW c \in Codecs, EncodeGate(c) PROVE SendInv'
  BY <1>11, FlowKept DEF EncodeGate, flow, qvars, srcvars, rstvars
<1>12. ASSUME NEW c \in Codecs, EncodeOutput(c) PROVE SendInv'
  BY <1>12, FlowKept DEF EncodeOutput, flow, qvars, srcvars, rstvars
<1>13. CASE UNCHANGED vars
  BY <1>13, FlowKept DEF vars, flow, qvars, bvars, srcvars, rstvars, hvars
<1> QED
  BY <1>1, <1>2, <1>3, <1>4, <1>5, <1>6, <1>7, <1>8, <1>9, <1>10, <1>11, <1>12, <1>13
  DEF Next, Encode

\* The queue, the capture buffer, the bridge's copy and the last unit taken stay
\* in the order the source produced the units, with ids that keep that order
\* across the wrap, and each can be decoded after the one before it: the
\* inductive invariant of push_frame, clear, capture_peek and consume_through.
THEOREM SendInvariant == Spec => []SendInv
<1> QED
  BY TypeCorrect, InitSendInv, NextSendInv, PTL DEF Spec

\* push_frame's overflow arms never leave a unit in the queue that references one
\* they dropped (video.rs:376-399).
THEOREM QueueChainHolds == Spec => []QueueChain
<1>1. SendInv => QueueChain
  BY DEF SendInv, ChainInv
<1> QED
  BY <1>1, SendInvariant, PTL

\* The bridge always picks up where it left off: the front of the queue can be
\* decoded after the last unit an encoder took, whatever the stale buffers held.
THEOREM FrontChainHolds == Spec => []FrontChain
<1>1. TypeOK /\ SendInv => FrontChain
  <2> SUFFICES ASSUME TypeOK, SendInv, queue # <<>>
               PROVE  queue[1].key \/ Follows(taken, queue[1].unit) \/ taken < restartAt
    BY DEF FrontChain
  <2>1. 1 \in 1..Len(queue) /\ taken \in Points
    BY EmptySeq DEF TypeOK, QueueType, Points
  <2>2. Link(taken, queue[1]) /\ taken < queue[1].unit
    BY <2>1 DEF SendInv, ChainInv, OrderInv
  <2>3. taken \in Int /\ queue[1].unit \in Int
    BY <2>1, QueueElement, FrameFields, ConstantTypes DEF TypeOK, HistoryType
  <2> QED
    BY <2>2, <2>3 DEF Link
<1> QED
  BY <1>1, TypeCorrect, SendInvariant, PTL

\* consume_through leaves nothing queued that an encoder already took, on either
\* side of the point where ids wrap.
THEOREM ConsumedLeavesHolds == Spec => []ConsumedLeaves
<1>1. SendInv => ConsumedLeaves
  BY DEF SendInv, OrderInv, ConsumedLeaves
<1> QED
  BY <1>1, SendInvariant, PTL

-----------------------------------------------------------------------------
\* Epochs and restarts (KeyInv, KeyedSound).

\* Restarts are told apart by their epochs, and 0 is none of them.
LEMMA EpochAfterType ==
    ASSUME NEW r \in 0..MaxRestarts
    PROVE  /\ EpochAfter(r) \in Epochs /\ EpochAfter(r) # 0
           /\ \A s \in 0..MaxRestarts : EpochAfter(r) = EpochAfter(s) => r = s
           /\ r + 1 \in 0..MaxRestarts => EpochAfter(r + 1) = NextEpoch(EpochAfter(r))
  BY EpochAssumption DEF EpochAfter, Epochs, NextEpoch

LEMMA FeedKept ==
    ASSUME FeedInv, UNCHANGED <<open, linked, todo, pc>>
    PROVE  FeedInv'
  BY DEF FeedInv

LEMMA EpochKept ==
    ASSUME EpochInv, UNCHANGED <<source_epoch, keyed_epoch, restarts, keyedAt, gateAt>>,
           \A c \in Codecs : pc'[c] \in {"finish", "more"} =>
               pc[c] \in {"finish", "more"} /\ enc_epoch'[c] = enc_epoch[c]
    PROVE  EpochInv'
  BY DEF EpochInv, EpochAfter

LEMMA InitKeyInv == Init => KeyInv
<1> SUFFICES ASSUME Init PROVE KeyInv
  OBVIOUS
<1>1. FeedInv
  BY DEF Init, FeedInv
<1>2. EpochInv
  BY EpochAssumption DEF Init, EpochInv, EpochAfter
<1> QED
  BY <1>1, <1>2 DEF KeyInv

LEMMA EncodeKeyInv ==
    ASSUME TypeOK, KeyInv, NEW c \in Codecs, Encode(c) PROVE KeyInv'
<1> USE DEF KeyInv
<1>1. pc \in [Codecs -> {"idle", "gate", "finish", "more"}] /\ todo \subseteq Codecs
  BY DEF TypeOK, BridgeType
<1>2. ASSUME NEW force \in BOOLEAN, EncodeSkip(c, force) PROVE KeyInv'
  <2>1. FeedInv'
    BY <1>1, <1>2 DEF EncodeSkip, BridgeFree, Return, cvars, FeedInv
  <2>2. EpochInv'
    BY <1>1, <1>2, EpochKept DEF EncodeSkip, Return, cvars, evars, rstvars, hvars
  <2> QED
    BY <2>1, <2>2
<1>3. ASSUME NEW force \in BOOLEAN, EncodeTake(c, force) PROVE KeyInv'
  <2>1. FeedInv'
    BY <1>1, <1>3 DEF EncodeTake, BridgeFree, FeedInv
  <2>2. EpochInv'
    BY <1>1, <1>3, EpochKept DEF EncodeTake, evars, rstvars
  <2> QED
    BY <2>1, <2>2
<1>4. CASE EncodeGate(c)
  <2>1. FeedInv'
    BY <1>1, <1>4 DEF EncodeGate, Return, FeedInv
  <2>2. \A d \in Codecs : pc'[d] \in {"finish", "more"} => d = c
    BY <1>1, <1>4 DEF EncodeGate, Return, FeedInv
  <2>3. enc_epoch'[c] = source_epoch
    BY <1>4 DEF EncodeGate, TypeOK, CodecType
  <2>4. /\ UNCHANGED <<source_epoch, keyed_epoch, restarts, keyedAt>>
        /\ gateAt' = restarts /\ restarts \in Nat
    BY <1>4, ConstantTypes DEF EncodeGate, evars, rstvars, TypeOK, HistoryType
  <2>5. EpochInv'
    BY <2>2, <2>3, <2>4 DEF EpochInv, EpochAfter
  <2> QED
    BY <2>1, <2>5
<1>5. CASE EncodeOutput(c)
  <2>1. UNCHANGED <<source_epoch, open, linked, enc_epoch, restarts, gateAt>>
    BY <1>5 DEF EncodeOutput, rstvars
  <2>2. FeedInv'
    BY <1>1, <1>5, <2>1 DEF EncodeOutput, EncodeWide, EncodeFinish, EncodeMore, EncodeRefused,
          DropOversized, Return, FeedInv
  <2>3. \A d \in Codecs : pc'[d] \in {"finish", "more"} => pc[d] \in {"finish", "more"}
    BY <1>1, <1>5 DEF EncodeOutput, EncodeWide, EncodeFinish, EncodeMore, EncodeRefused,
          DropOversized, Return
  <2>4. /\ keyed_epoch' = IF keyedAt' = -1 THEN 0 ELSE EpochAfter(keyedAt')
        /\ keyedAt' <= restarts
    <3>1. CASE EncodeWide(c) \/ EncodeRefused(c)
      BY <3>1, ConstantTypes DEF EncodeWide, EncodeRefused, DropOversized, TypeOK, HistoryType
    <3>2. CASE EncodeFinish(c)
      <4>1. pc[c] = "finish" /\ enc_epoch[c] = EpochAfter(gateAt) /\ gateAt <= restarts
            /\ gateAt # -1
        BY <3>2, ConstantTypes DEF EncodeFinish, EpochInv, TypeOK, HistoryType
      <4>2. CASE hand.key
        BY <3>2, <4>1, <4>2 DEF EncodeFinish
      <4>3. CASE ~hand.key
        BY <3>2, <4>3 DEF EncodeFinish, EpochInv
      <4> QED
        BY <4>2, <4>3
    <3>3. CASE EncodeMore(c)
      BY <3>3 DEF EncodeMore, EpochInv
    <3> QED
      BY <1>5, <3>1, <3>2, <3>3 DEF EncodeOutput
  <2>5. EpochInv'
    BY <2>1, <2>3, <2>4 DEF EpochInv, EpochAfter
  <2> QED
    BY <2>2, <2>5
<1> QED
  BY <1>2, <1>3, <1>4, <1>5 DEF Encode

LEMMA ControlKeyInv ==
    ASSUME TypeOK, KeyInv, NEW c \in Codecs,
           \/ \E on \in BOOLEAN : SetTransmit(c, on)
           \/ \E single \in BOOLEAN : Open(c, single)
           \/ Close(c)
    PROVE  KeyInv'
<1> USE DEF KeyInv
<1>1. ASSUME NEW on \in BOOLEAN, SetTransmit(c, on) PROVE KeyInv'
  <2>1. FeedInv'
    BY <1>1 DEF SetTransmit, FeedInv, TypeOK, CodecType
  <2>2. EpochInv'
    BY <1>1, EpochKept DEF SetTransmit, evars, rstvars, hvars
  <2> QED
    BY <2>1, <2>2
<1>2. ASSUME NEW single \in BOOLEAN, Open(c, single) PROVE KeyInv'
  <2>1. FeedInv'
    BY <1>2 DEF Open, bvars, FeedInv, TypeOK, CodecType
  <2>2. \A d \in Codecs : pc[d] \in {"finish", "more"} => enc_epoch'[d] = enc_epoch[d]
    BY <1>2 DEF Open, ResetEncoder, FeedInv, TypeOK, CodecType
  <2>3. EpochInv'
    BY <1>2, <2>2, EpochKept DEF Open, bvars, evars, rstvars
  <2> QED
    BY <2>1, <2>3
<1>3. CASE Close(c)
  <2>1. FeedInv'
    BY <1>3 DEF Close, FeedInv, TypeOK, CodecType
  <2>2. \A d \in Codecs : pc[d] \in {"finish", "more"} => enc_epoch'[d] = enc_epoch[d]
    BY <1>3 DEF Close, ResetEncoder, TypeOK, CodecType
  <2>3. EpochInv'
    BY <1>3, <2>2, EpochKept DEF Close, evars, rstvars, hvars
  <2> QED
    BY <2>1, <2>3
<1> QED
  BY <1>1, <1>2, <1>3

LEMMA NextKeyInv == TypeOK /\ KeyInv /\ [Next]_vars => KeyInv'
<1> SUFFICES ASSUME TypeOK, KeyInv, [Next]_vars PROVE KeyInv'
  OBVIOUS
<1> USE DEF KeyInv
<1>1. CASE PushFrame
  <2>1. UNCHANGED <<evars, bvars, cvars, rstvars, hvars>>
    BY <1>1 DEF PushFrame, PushRefused, PushAwaitsKeyframe, PushRoom, PushTrim, PushOverflowKey,
          PushFlush, Enqueue
  <2> QED
    BY <2>1, FeedKept, EpochKept DEF evars, bvars, cvars, rstvars, hvars
<1>2. CASE Clear
  <2>1. FeedInv'
    BY <1>2, FeedKept DEF Clear, bvars, cvars
  <2>2. /\ restarts \in 0..MaxRestarts /\ restarts + 1 \in 0..MaxRestarts
        /\ keyedAt \in Int /\ gateAt \in Int
    BY <1>2, ConstantTypes DEF Clear, TypeOK, HistoryType
  <2>3. source_epoch' = EpochAfter(restarts')
    BY <1>2, <2>2, EpochAfterType DEF Clear, EpochInv
  <2>4. EpochInv'
    BY <1>2, <2>2, <2>3 DEF Clear, bvars, cvars, hvars, EpochInv, EpochAfter
  <2> QED
    BY <2>1, <2>4
<1>3. ASSUME NEW n \in 1..MaxQueue, Reconfigure(n) PROVE KeyInv'
  BY <1>3, FeedKept, EpochKept DEF Reconfigure, evars, bvars, cvars, rstvars, hvars
<1>4. CASE Poll
  BY <1>4, FeedKept, EpochKept DEF Poll, evars, cvars, rstvars, hvars
<1>5. CASE BridgeTick
  <2>1. FeedInv'
    BY <1>5 DEF BridgeTick, cvars, FeedInv
  <2>2. EpochInv'
    BY <1>5, EpochKept DEF BridgeTick, evars, cvars, rstvars, hvars
  <2> QED
    BY <2>1, <2>2
<1>6. CASE UNCHANGED vars
  BY <1>6, FeedKept, EpochKept DEF vars, evars, bvars, cvars, rstvars, hvars
<1> QED
  BY <1>1, <1>2, <1>3, <1>4, <1>5, <1>6, EncodeKeyInv, ControlKeyInv DEF Next

\* Whatever the interleaving, an epoch in vpt or in a codec names the restart the
\* history variables say, and the bridge feeds one open codec at a time.
THEOREM KeyInvariant == Spec => []KeyInv
  BY TypeCorrect, InitKeyInv, NextKeyInv, PTL DEF Spec

\* While calls open, close and hold and the source restarts under the encoders,
\* keyed_epoch matches source_epoch only if a keyframe passed the gate after the
\* last clear() (video_passthrough.c:571-602 against 1197-1206).
THEOREM KeyedSoundHolds == Spec => []KeyedSound
<1>1. TypeOK /\ KeyInv => KeyedSound
  <2> SUFFICES ASSUME TypeOK, KeyInv, keyed_epoch = source_epoch PROVE keyedAt = restarts
    BY DEF KeyedSound
  <2>1. restarts \in 0..MaxRestarts /\ keyedAt \in -1..MaxRestarts
    BY DEF TypeOK, HistoryType
  <2>2. keyedAt # -1
    BY <2>1, EpochAfterType DEF KeyInv, EpochInv
  <2>3. keyedAt \in 0..MaxRestarts /\ EpochAfter(keyedAt) = EpochAfter(restarts)
    BY <2>1, <2>2, ConstantTypes DEF KeyInv, EpochInv
  <2> QED
    BY <2>1, <2>3, EpochAfterType
<1> QED
  BY <1>1, KeyInvariant, TypeCorrect, PTL
=============================================================================
