-------------------------- MODULE VideoRemoteProofs ---------------------------
(***************************************************************************)
(* Proofs about what the remotes receive: with one codec (RemoteInv), with *)
(* any number of them (EachCallInv), and that VideoSend implements         *)
(* UnitStream, for every queue limit and bound.                            *)
(***************************************************************************)
EXTENDS VideoSendProofs

\* The types the proofs about c compute with.
LEMMA CallTypes ==
    ASSUME TypeOK, NEW c \in Codecs
    PROVE  /\ handled[c] \in Nat /\ remote[c] \in Nat /\ taken \in Nat /\ unit \in Nat
           /\ restarts \in Nat /\ restartAt \in Nat /\ source_epoch # 0
           /\ enc_last_seq[c] \in Ids \cup {0} /\ next_id \in Ids
           /\ joined \in [Codecs -> BOOLEAN] /\ enc_sent_key \in [Codecs -> BOOLEAN]
           /\ enc_have_seq \in [Codecs -> BOOLEAN]
  BY ConstantTypes DEF TypeOK, QueueType, BridgeType, CodecType, HistoryType, Epochs

LEMMA HandType ==
    ASSUME TypeOK, hand # NoFrame
    PROVE  hand \in Buffers /\ hand \in Buffered /\ hand.unit \in Nat /\ hand.id \in Ids
  BY BufferedType, FrameFields DEF Buffers, Buffered

LEMMA InitRemoteInv == Init => RemoteInv
  BY EpochAssumption DEF Init, RemoteInv, GateInv, SoleInv, Ready, Epochs

\* What the invariant reads besides hand, taken and refused.
gates == <<source_epoch, keyed_epoch, pc, enc_epoch, enc_sent_key, restarts, restartAt,
           gateAt, staleAt, remote>>

LEMMA RemoteKept ==
    ASSUME RemoteInv, UNCHANGED gates, UNCHANGED taken, refused \subseteq refused',
           \A c \in Codecs : hand' = hand \/ pc[c] = "idle"
    PROVE  RemoteInv'
<1> SUFFICES ASSUME NEW c \in Codecs PROVE GateInv(c)' /\ SoleInv(c)'
  BY DEF RemoteInv
<1>1. GateInv(c) /\ SoleInv(c) /\ (hand' = hand \/ pc[c] = "idle")
  BY DEF RemoteInv
<1>2. GateInv(c)'
  BY <1>1 DEF GateInv, EpochAfter, gates
<1>3. hand' = hand /\ Decodable(c) => Decodable(c)'
  BY DEF Decodable, Follows, gates
<1>4. Ready(c)' = Ready(c)
  BY DEF Ready, gates
<1>5. SoleInv(c)'
  BY <1>1, <1>3, <1>4 DEF SoleInv, gates
<1> QED
  BY <1>2, <1>5

\* The epoch clear() moves to is no restart's before it: not keyed_epoch's, nor any
\* codec's.
LEMMA ClearEpoch ==
    ASSUME TypeOK, KeyInv, Clear
    PROVE  /\ restarts' = restarts + 1 /\ 0..restarts \subseteq 0..restarts'
           /\ source_epoch' # 0 /\ \A r \in 0..restarts : source_epoch' # EpochAfter(r)
           /\ keyed_epoch' # source_epoch'
<1> USE DEF Clear, bvars, cvars, srcvars, hvars
<1>1. /\ restarts \in 0..MaxRestarts /\ restarts + 1 \in 0..MaxRestarts
      /\ keyedAt \in -1..MaxRestarts /\ restarts' = restarts + 1
  BY ConstantTypes DEF TypeOK, HistoryType
<1>2. source_epoch' = EpochAfter(restarts + 1)
  BY <1>1, EpochAfterType DEF KeyInv, EpochInv
<1>3. source_epoch' # 0
  BY <1>1, <1>2, EpochAfterType
<1>4. ASSUME NEW r \in 0..restarts PROVE source_epoch' # EpochAfter(r)
  <2>1. r \in 0..MaxRestarts /\ r # restarts + 1
    BY <1>1, ConstantTypes
  <2> QED
    BY <1>1, <1>2, <2>1, EpochAfterType
<1>5. keyed_epoch' # source_epoch'
  <2>1. keyed_epoch = 0 \/ (keyedAt \in 0..restarts /\ keyed_epoch = EpochAfter(keyedAt))
    BY <1>1 DEF KeyInv, EpochInv
  <2> QED
    BY <1>3, <1>4, <2>1
<1> QED
  BY <1>1, <1>3, <1>4, <1>5

LEMMA ClearRemote ==
    ASSUME TypeOK, OrderInv, KeyInv, RemoteInv, Clear PROVE RemoteInv'
<1> SUFFICES ASSUME NEW c \in Codecs PROVE GateInv(c)' /\ SoleInv(c)'
  BY DEF RemoteInv
<1> USE DEF Clear, bvars, cvars, srcvars, hvars
<1>1. GateInv(c) /\ SoleInv(c)
  BY DEF RemoteInv
<1>2. keyed_epoch' # source_epoch' /\ enc_epoch'[c] # source_epoch'
  BY <1>1, ClearEpoch DEF GateInv
<1>3. GateInv(c)'
  BY <1>1, <1>2, ClearEpoch DEF GateInv, EpochAfter
<1>5. remote[c] < restartAt'
  BY <1>1, CallTypes DEF SoleInv, OrderInv
<1>4. SoleInv(c)'
  BY <1>1, <1>2, <1>5 DEF SoleInv, Ready, Decodable, Follows
<1> QED
  BY <1>3, <1>4

LEMMA OpenCloseRemote ==
    ASSUME TypeOK, KeyInv, RemoteInv, NEW d \in Codecs,
           (\E single \in BOOLEAN : Open(d, single)) \/ Close(d)
    PROVE  RemoteInv'
<1> SUFFICES ASSUME NEW c \in Codecs PROVE GateInv(c)' /\ SoleInv(c)'
  BY DEF RemoteInv
<1>1. GateInv(c) /\ SoleInv(c)
  BY DEF RemoteInv
<1>2. /\ UNCHANGED <<source_epoch, keyed_epoch, pc, hand, taken, gateAt, staleAt, remote,
                     restarts, restartAt, refused>>
      /\ pc[d] = "idle"
  BY DEF Open, Close, evars, bvars, srcvars, rstvars, hvars, KeyInv, FeedInv
<1>3. /\ enc_epoch' = [enc_epoch EXCEPT ![d] = 0]
      /\ enc_sent_key' = [enc_sent_key EXCEPT ![d] = FALSE]
  BY DEF Open, Close, ResetEncoder
<1>4. source_epoch # 0
  BY ConstantTypes DEF TypeOK, BridgeType, Epochs
<1>5. GateInv(c)'
  BY <1>1, <1>2, <1>3, <1>4 DEF GateInv, EpochAfter, TypeOK, CodecType
<1>6. SoleInv(c)'
  BY <1>1, <1>2, <1>3, <1>4
  DEF SoleInv, Ready, Decodable, Follows, TypeOK, CodecType
<1> QED
  BY <1>5, <1>6

LEMMA EncodeRemote ==
    ASSUME TypeOK, SendInv, KeyInv, RemoteInv, NEW c, Codecs = {c}, Encode(c)
    PROVE  RemoteInv'
<1>1. GateInv(c) /\ SoleInv(c) /\ c \in Codecs
  BY DEF RemoteInv
<1>2. /\ pc \in [Codecs -> {"idle", "gate", "finish", "more"}]
      /\ enc_epoch \in [Codecs -> Epochs \cup {0}] /\ enc_sent_key \in [Codecs -> BOOLEAN]
      /\ remote \in [Codecs -> 0..MaxUnits] /\ source_epoch # 0
      /\ taken \in Nat /\ restartAt \in Nat /\ restarts \in Nat
  BY ConstantTypes DEF TypeOK, BridgeType, CodecType, HistoryType, Epochs
<1> SUFFICES GateInv(c)' /\ SoleInv(c)'
  BY DEF RemoteInv
<1>3. ASSUME NEW force \in BOOLEAN, EncodeSkip(c, force) PROVE GateInv(c)' /\ SoleInv(c)'
  <2>1. UNCHANGED gates /\ UNCHANGED <<taken, refused, hand>>
    BY <1>1, <1>2, <1>3 DEF EncodeSkip, BridgeFree, Return, gates, evars, cvars, srcvars,
          rstvars, hvars
  <2> QED
    BY <2>1, RemoteKept DEF RemoteInv
<1>4. ASSUME NEW force \in BOOLEAN, EncodeTake(c, force) PROVE GateInv(c)' /\ SoleInv(c)'
  <2>1. /\ UNCHANGED <<source_epoch, keyed_epoch, hand, enc_sent_key, enc_epoch, restarts,
                       restartAt, refused, staleAt, remote>>
        /\ pc[c] = "idle" /\ pc'[c] = "gate" /\ taken' = hand.unit /\ hand # NoFrame
    BY <1>1, <1>2, <1>4 DEF EncodeTake, BridgeFree, evars, srcvars, rstvars
  <2>2. Link(taken, hand) /\ taken <= hand.unit /\ hand.unit \in Nat
    BY <2>1, BufferedType, FrameFields DEF SendInv, ChainInv, OrderInv, Buffers
  <2>3. GateInv(c)'
    BY <1>1, <2>1 DEF GateInv, EpochAfter
  <2>4. Ready(c) => \/ staleAt = restarts /\ remote[c] < restartAt
                    \/ Decodable(c) /\ restartAt <= hand.unit
    BY <1>1, <1>2, <2>1, <2>2 DEF SoleInv, Link, Decodable
  <2>5. Ready(c)' = Ready(c) /\ Decodable(c)' = Decodable(c)
    BY <2>1 DEF Ready, Decodable, Follows
  <2>6. remote[c] <= taken'
    BY <1>1, <1>2, <2>1, <2>2 DEF SoleInv
  <2>7. SoleInv(c)'
    BY <2>1, <2>4, <2>5, <2>6 DEF SoleInv
  <2> QED
    BY <2>3, <2>7
<1>5. CASE EncodeGate(c)
  <2> DEFINE pass == HasKey(c) \/ hand.key
  <2>1. /\ UNCHANGED <<source_epoch, keyed_epoch, hand, restarts, restartAt, refused, taken,
                       remote>>
        /\ pc[c] = "gate" /\ gateAt' = restarts /\ enc_epoch'[c] = source_epoch
        /\ staleAt' = restarts \/ staleAt' = staleAt
        /\ hand.key /\ hand.unit < restartAt => staleAt' = restarts
    BY <1>1, <1>2, <1>5 DEF EncodeGate, evars, srcvars, rstvars
  <2>2. enc_sent_key'[c] = pass
    BY <1>1, <1>2, <1>5 DEF EncodeGate
  <2>3. hand # NoFrame /\ taken = hand.unit /\ hand.key \in BOOLEAN /\ remote[c] <= taken
    BY <1>1, <2>1, FrameFields DEF GateInv, SoleInv, TypeOK, BridgeType
  <2>4. CASE pass
    <3>1. pc'[c] = "finish" /\ enc_sent_key'[c]
      BY <1>1, <1>2, <1>5, <2>2, <2>4 DEF EncodeGate
    <3>2. GateInv(c)'
      <4>1. source_epoch' = EpochAfter(restarts) /\ restarts \in 0..restarts
        BY <1>2, <2>1 DEF KeyInv, EpochInv
      <4> QED
        BY <2>1, <2>3, <3>1, <4>1 DEF GateInv, EpochAfter
    <3>3. ~hand.key => Ready(c)
      BY <2>4 DEF HasKey, Ready
    <3>4. /\ (staleAt' = restarts /\ remote[c] < restartAt) \/ Decodable(c)
          /\ staleAt' = restarts \/ restartAt <= taken
      BY <1>1, <1>2, <2>1, <2>3, <3>3 DEF SoleInv, Decodable
    <3>5. Decodable(c)' = Decodable(c)
      BY <2>1 DEF Decodable, Follows
    <3>6. SoleInv(c)'
      BY <1>1, <2>1, <2>3, <3>1, <3>4, <3>5 DEF SoleInv
    <3> QED
      BY <3>2, <3>6
  <2>5. CASE ~pass
    <3>1. pc'[c] = "idle" /\ ~enc_sent_key'[c]
      BY <1>1, <1>2, <1>5, <2>2, <2>5 DEF EncodeGate, Return
    <3>2. keyed_epoch # source_epoch
      BY <1>1, <2>5 DEF HasKey, GateInv
    <3>3. GateInv(c)'
      <4>1. source_epoch' = EpochAfter(restarts) /\ restarts \in 0..restarts
        BY <1>2, <2>1 DEF KeyInv, EpochInv
      <4> QED
        BY <2>1, <3>1, <3>2, <4>1 DEF GateInv, EpochAfter
    <3>4. SoleInv(c)'
      BY <2>1, <2>3, <3>1, <3>2 DEF SoleInv, Ready
    <3> QED
      BY <3>3, <3>4
  <2> QED
    BY <2>4, <2>5
<1>6. CASE EncodeOutput(c)
  <2>1. UNCHANGED <<source_epoch, hand, restarts, restartAt, refused, taken, gateAt, staleAt,
                    enc_epoch>>
    BY <1>6 DEF EncodeOutput, srcvars, rstvars
  <2>2. CASE EncodeWide(c) \/ EncodeRefused(c)
    <3>1. pc'[c] = "idle" /\ ~enc_sent_key'[c] /\ keyed_epoch' = 0 /\ remote' = remote
      BY <1>1, <1>2, <2>2 DEF EncodeWide, EncodeRefused, DropOversized, Return
    <3>2. GateInv(c)'
      BY <1>1, <1>2, <2>1, <3>1 DEF GateInv, EpochAfter
    <3>3. SoleInv(c)'
      BY <1>1, <1>2, <2>1, <3>1 DEF SoleInv, Ready
    <3> QED
      BY <3>2, <3>3
  <2>3. CASE EncodeFinish(c)
    <3>1. /\ pc[c] = "finish" /\ pc'[c] = "more" /\ enc_sent_key' = enc_sent_key
          /\ keyed_epoch' = keyed_epoch \/ keyed_epoch' = enc_epoch[c]
          /\ remote' = remote
      BY <1>1, <1>2, <2>3 DEF EncodeFinish
    <3>2. enc_sent_key[c] /\ (Ready(c)' => Ready(c)) /\ Decodable(c)' = Decodable(c)
      BY <1>1, <2>1, <3>1 DEF GateInv, Ready, Decodable, Follows
    <3>3. GateInv(c)'
      BY <1>1, <2>1, <3>1, <3>2 DEF GateInv, EpochAfter
    <3>4. SoleInv(c)'
      BY <1>1, <2>1, <3>1, <3>2 DEF SoleInv
    <3> QED
      BY <3>3, <3>4
  <2>4. CASE EncodeMore(c)
    <3>1. /\ pc[c] = "more" /\ pc'[c] = "idle" /\ enc_sent_key' = enc_sent_key
          /\ keyed_epoch' = keyed_epoch /\ remote'[c] = hand.unit
      BY <1>1, <1>2, <2>4 DEF EncodeMore, Return
    <3>2. taken = hand.unit /\ Ready(c)' = Ready(c)
      BY <1>1, <2>1, <3>1 DEF GateInv, Ready
    <3>3. GateInv(c)'
      BY <1>1, <2>1, <3>1 DEF GateInv, EpochAfter
    <3>4. SoleInv(c)'
      BY <1>1, <1>2, <2>1, <3>1, <3>2 DEF SoleInv
    <3> QED
      BY <3>3, <3>4
  <2> QED
    BY <1>6, <2>2, <2>3, <2>4 DEF EncodeOutput
<1> QED
  BY <1>3, <1>4, <1>5, <1>6 DEF Encode

LEMMA NextRemoteInv ==
    ASSUME NEW c, Codecs = {c}
    PROVE  TypeOK /\ SendInv /\ KeyInv /\ RemoteInv /\ [Next]_vars => RemoteInv'
<1> SUFFICES ASSUME TypeOK, SendInv, KeyInv, RemoteInv, [Next]_vars PROVE RemoteInv'
  OBVIOUS
<1>1. CASE PushFrame
  <2>1. UNCHANGED <<evars, bvars, cvars, rstvars, hvars>> /\ refused \subseteq refused'
    BY <1>1 DEF PushFrame, PushRefused, PushAwaitsKeyframe, PushRoom, PushTrim, PushOverflowKey,
          PushFlush, Enqueue
  <2> QED
    BY <2>1, RemoteKept DEF gates, evars, bvars, cvars, rstvars, hvars
<1>2. CASE Clear
  BY <1>2, ClearRemote DEF SendInv
<1>3. ASSUME NEW n \in 1..MaxQueue, Reconfigure(n) PROVE RemoteInv'
  BY <1>3, RemoteKept DEF Reconfigure, gates, evars, bvars, cvars, srcvars, rstvars, hvars
<1>4. CASE Poll
  BY <1>4, RemoteKept DEF Poll, gates, evars, cvars, srcvars, rstvars, hvars
<1>5. CASE BridgeTick
  <2>1. \A d \in Codecs : pc[d] = "idle"
    BY <1>5 DEF BridgeTick, KeyInv, FeedInv
  <2> QED
    BY <1>5, <2>1, RemoteKept DEF BridgeTick, gates, evars, cvars, srcvars, rstvars, hvars
<1>6. ASSUME NEW d \in Codecs, NEW on \in BOOLEAN, SetTransmit(d, on) PROVE RemoteInv'
  BY <1>6, RemoteKept DEF SetTransmit, gates, evars, srcvars, rstvars, hvars
<1>7. ASSUME NEW d \in Codecs, (\E single \in BOOLEAN : Open(d, single)) \/ Close(d)
      PROVE RemoteInv'
  BY <1>7, OpenCloseRemote
<1>8. ASSUME NEW d \in Codecs, Encode(d) PROVE RemoteInv'
  <2>1. d = c
    BY <1>8
  <2> QED
    BY <1>8, <2>1, EncodeRemote
<1>9. CASE UNCHANGED vars
  BY <1>9, RemoteKept DEF vars, gates, evars, bvars, cvars, srcvars, rstvars, hvars
<1> QED
  BY <1>1, <1>2, <1>3, <1>4, <1>5, <1>6, <1>7, <1>8, <1>9 DEF Next

\* With one call: what the gate, drop_oversized and vc_open preserve together, so
\* that a unit the gate would let through can be decoded.
THEOREM RemoteInvariant == (\E c : Codecs = {c}) => (Spec => []RemoteInv)
<1>1. ASSUME NEW c, Codecs = {c} PROVE Spec => []RemoteInv
  <2>1. TypeOK /\ SendInv /\ KeyInv /\ RemoteInv /\ [Next]_vars => RemoteInv'
    BY <1>1, NextRemoteInv
  <2> QED
    BY <2>1, TypeCorrect, SendInvariant, KeyInvariant, InitRemoteInv, PTL DEF Spec
<1> QED
  BY <1>1

\* With one call, whatever the interleaving of clocks, application and call
\* control: what vc_encode_more sends that is no keyframe directly follows what
\* the remote has or repeats it, except the first unit of a restarted source,
\* behind a keyframe of the old one let through after the clear().
THEOREM RemoteChainHolds == (\E c : Codecs = {c}) => (Spec => []RemoteChain)
<1>1. RemoteInv => RemoteChain
  BY DEF RemoteInv, SoleInv, Decodable, RemoteChain
<1> QED
  BY <1>1, RemoteInvariant, PTL

-----------------------------------------------------------------------------
\* Any number of calls (EachCallInv).

LEMMA InitEachCall == Init => EachCallInv
  BY DEF Init, EachCallInv, HandledInv, FedInv, PassInv, JoinedInv

\* A unit is skipped just when it is the one the codec handled last.
LEMMA SkipsRepeat ==
    ASSUME TypeOK, SendInv, NEW c \in Codecs, HandledInv(c), handled[c] <= taken,
           hand # NoFrame, enc_have_seq[c]
    PROVE  AlreadyHandled(c) <=> handled[c] = hand.unit
<1>1. hand.unit \in Nat /\ handled[c] <= hand.unit
  BY CallTypes, HandType DEF SendInv, OrderInv
<1>2. CASE handled[c] = hand.unit
  BY <1>2, HandType DEF HandledInv, AlreadyHandled
<1>3. CASE handled[c] < hand.unit
  <2>1. WrappingSub(hand.id, enc_last_seq[c]) \in 1..(2 * (hand.unit - handled[c]))
    BY <1>3, HandType DEF HandledInv
  <2>2. WrappingSub(hand.id, hand.id) = 0
    BY HandType DEF WrappingSub, Ids
  <2> QED
    BY <1>3, <2>1, <2>2, CallTypes DEF AlreadyHandled
<1> QED
  BY <1>1, <1>2, <1>3, CallTypes

\* No new unit enters a buffer, and c takes none.
LEMMA HandledKept ==
    ASSUME TypeOK, SendInv, NEW c \in Codecs, HandledInv(c), handled[c] <= taken,
           Buffered' \subseteq Buffered, next_id' = next_id, unit' = unit \/ unit' = unit + 1,
           UNCHANGED <<enc_have_seq[c], enc_last_seq[c], handled[c]>>
    PROVE  HandledInv(c)'
<1>1. handled[c] < unit
  BY CallTypes DEF SendInv, OrderInv
<1>2. enc_have_seq[c] => WrappingSub(next_id', enc_last_seq'[c]) \in 1..(2 * (unit' - handled'[c]))
  BY <1>1, CallTypes DEF HandledInv
<1> QED
  BY <1>2 DEF HandledInv

LEMMA EnqueueBuffered ==
    ASSUME TypeOK, NEW base \in Seq(Frame), NEW key \in BOOLEAN, Enqueue(base, key),
           \A i \in 1..Len(base) : base[i] \in Buffered
    PROVE  /\ \E f : f.unit = unit /\ f.id = next_id /\ Buffered' \subseteq Buffered \cup {f}
           /\ next_id' = NextId(next_id) /\ refused' = refused
           /\ unit' = unit + 1 /\ unit <= MaxUnits
<1> DEFINE f == [id |-> next_id, unit |-> unit, key |-> key]
<1>1. /\ queue' = Append(base, f) /\ next_id' = NextId(next_id) /\ unit' = unit + 1
      /\ UNCHANGED <<slot, hand, refused>> /\ unit <= MaxUnits
  BY DEF Enqueue, Produce, bvars
<1>2. Buffers' = Buffers
  BY <1>1 DEF Buffers
<1>3. ASSUME NEW i \in 1..Len(queue') PROVE queue'[i] \in Buffered \cup {f}
  <2>1. f \in Frame
    BY <1>1, ConstantTypes DEF TypeOK, QueueType, HistoryType, Frame
  <2>2. Len(base) \in Nat /\ Len(queue') = Len(base) + 1
    BY <1>1, <2>1, AppendProperties, LenProperties
  <2>3. i \in 1..Len(base) \/ i = Len(base) + 1
    BY <2>2
  <2> QED
    BY <1>1, <2>1, <2>3, AppendProperties
<1>4. f.unit = unit /\ f.id = next_id
  OBVIOUS
<1> HIDE DEF f
<1>5. Buffered' \subseteq Buffered \cup {f}
  BY <1>2, <1>3 DEF Buffered
<1> QED
  BY <1>1, <1>4, <1>5

\* push_frame brings at most the unit pushed, under the next id.
LEMMA PushBuffered ==
    ASSUME TypeOK, PushFrame
    PROVE  /\ unit' = unit + 1
           /\ \/ /\ Buffered' \subseteq Buffered /\ next_id' = next_id
                 /\ refused' \subseteq refused \cup {unit}
              \/ /\ \E f : f.unit = unit /\ f.id = next_id /\ Buffered' \subseteq Buffered \cup {f}
                 /\ next_id' = NextId(next_id) /\ unit <= MaxUnits /\ refused' = refused
<1>1. CASE PushRefused \/ PushAwaitsKeyframe
  <2>1. UNCHANGED <<queue, slot, hand, next_id>> /\ refused' \subseteq refused \cup {unit}
        /\ unit' = unit + 1
    BY <1>1 DEF PushRefused, PushAwaitsKeyframe, Produce, qvars, bvars
  <2> QED
    BY <2>1 DEF Buffered, Buffers
<1>2. queue \in Seq(Frame) /\ \A i \in 1..Len(queue) : queue[i] \in Buffered
  BY DEF TypeOK, QueueType, Buffered
<1>3. ASSUME NEW key \in BOOLEAN, PushRoom(key)
      PROVE \E base \in Seq(Frame) : Enqueue(base, key) /\ \A i \in 1..Len(base) : base[i] \in Buffered
  BY <1>2, <1>3 DEF PushRoom
<1>4. ASSUME PushTrim
      PROVE \E base \in Seq(Frame) :
                Enqueue(base, FALSE) /\ \A i \in 1..Len(base) : base[i] \in Buffered
  <2>1. PICK i \in 2..Len(queue) : Enqueue(SubSeq(queue, i, Len(queue)), FALSE)
    BY <1>4 DEF PushTrim
  <2> DEFINE base == SubSeq(queue, i, Len(queue))
  <2>2. /\ base \in Seq(Frame) /\ Len(base) = Len(queue) + 1 - i
        /\ \A j \in 1..(Len(queue) + 1 - i) : base[j] = queue[i + j - 1]
    BY <1>2, SuffixType
  <2>3. \A j \in 1..Len(base) : base[j] \in Buffered
    BY <1>2, <2>2
  <2> QED
    BY <2>1, <2>2, <2>3
<1>5. ASSUME PushOverflowKey
      PROVE \E base \in Seq(Frame) :
                Enqueue(base, TRUE) /\ \A i \in 1..Len(base) : base[i] \in Buffered
  <2>1. <<>> \in Seq(Frame) /\ \A i \in 1..Len(<<>>) : <<>>[i] \in Buffered
    BY EmptySeq
  <2> QED
    BY <1>5, <2>1 DEF PushOverflowKey
<1>6. CASE PushFlush
  <2>1. UNCHANGED <<slot, hand, next_id, refused>> /\ unit' = unit + 1 /\ Len(queue') = 0
    BY <1>6, EmptySeq DEF PushFlush, Produce, bvars
  <2>2. Buffered' \subseteq Buffered
    BY <2>1 DEF Buffered, Buffers
  <2> QED
    BY <2>1, <2>2
<1> QED
  BY <1>1, <1>3, <1>4, <1>5, <1>6, EnqueueBuffered DEF PushFrame

\* No other step brings a unit or an id.
LEMMA OthersBuffered ==
    ASSUME TypeOK, [Next]_vars, ~PushFrame
    PROVE  Buffered' \subseteq Buffered /\ UNCHANGED <<next_id, unit, refused>>
<1>1. CASE Clear
  <2>1. UNCHANGED <<slot, hand, next_id, unit, refused>> /\ Len(queue') = 0
    BY <1>1, EmptySeq DEF Clear, bvars, srcvars
  <2> QED
    BY <2>1 DEF Buffered, Buffers
<1>2. ASSUME UNCHANGED <<queue, slot, hand, next_id, unit, refused>>
      PROVE  Buffered' \subseteq Buffered
  BY <1>2 DEF Buffered, Buffers
<1>3. ASSUME NEW n \in 1..MaxQueue, Reconfigure(n)
      PROVE  UNCHANGED <<queue, slot, hand, next_id, unit, refused>>
  BY <1>3 DEF Reconfigure, qvars, bvars, srcvars
<1>4. CASE Poll
  <2>1. /\ UNCHANGED <<queue, hand, next_id, unit, refused>>
        /\ slot' = NoFrame \/ (1 \in 1..Len(queue) /\ slot' = queue[1])
    BY <1>4, HeadTailProperties, EmptySeq, LenProperties
    DEF Poll, qvars, srcvars, TypeOK, QueueType
  <2> QED
    BY <2>1 DEF Buffered, Buffers
<1>5. CASE BridgeTick
  <2>1. UNCHANGED <<queue, slot, next_id, unit, refused>> /\ hand' = slot
    BY <1>5 DEF BridgeTick, qvars, srcvars
  <2> QED
    BY <2>1 DEF Buffered, Buffers
<1>6. ASSUME NEW d \in Codecs,
             \/ \E on \in BOOLEAN : SetTransmit(d, on)
             \/ \E single \in BOOLEAN : Open(d, single)
             \/ Close(d)
             \/ \E force \in BOOLEAN : EncodeSkip(d, force)
             \/ EncodeGate(d) \/ EncodeOutput(d)
      PROVE  UNCHANGED <<queue, slot, hand, next_id, unit, refused>>
  BY <1>6 DEF SetTransmit, Open, Close, EncodeSkip, EncodeGate, EncodeOutput, qvars, bvars, srcvars
<1>7. ASSUME NEW d \in Codecs, NEW force \in BOOLEAN, EncodeTake(d, force)
      PROVE  Buffered' \subseteq Buffered /\ UNCHANGED <<next_id, unit, refused>>
  <2>1. UNCHANGED <<slot, hand, next_id, unit, refused>>
    BY <1>7 DEF EncodeTake, srcvars
  <2>2. PICK n \in 0..Len(queue) :
            Pops(queue, hand.id, n) /\ queue' = SubSeq(queue, n + 1, Len(queue))
    BY <1>7 DEF EncodeTake
  <2>3. \A i \in 1..Len(queue') : \E j \in 1..Len(queue) : queue'[i] = queue[j]
    <3>1. queue \in Seq(Frame) /\ Len(queue) \in Nat
      BY LenProperties DEF TypeOK, QueueType
    <3>2. n + 1 \in 1..(Len(queue) + 1)
      BY <3>1
    <3>3. /\ Len(queue') = Len(queue) + 1 - (n + 1)
          /\ \A i \in 1..(Len(queue) + 1 - (n + 1)) : queue'[i] = queue[(n + 1) + i - 1]
      BY <2>2, <3>1, <3>2, SuffixType
    <3>4. \A i \in 1..Len(queue') : (n + 1) + i - 1 \in 1..Len(queue)
      BY <3>1, <3>3
    <3> QED
      BY <3>3, <3>4
  <2> QED
    BY <2>1, <2>3 DEF Buffered, Buffers
<1>8. UNCHANGED vars => UNCHANGED <<queue, slot, hand, next_id, unit, refused>>
  BY DEF vars, qvars, bvars, srcvars
<1> QED
  BY <1>1, <1>2, <1>3, <1>4, <1>5, <1>6, <1>7, <1>8 DEF Next, Encode, Clear, Poll, BridgeTick,
     qvars, srcvars

\* push_frame leaves what c handled behind every id to come.
LEMMA PushHandled ==
    ASSUME TypeOK, SendInv, NEW c \in Codecs, HandledInv(c), handled[c] <= taken, PushFrame
    PROVE  HandledInv(c)'
<1>1. UNCHANGED <<enc_have_seq[c], enc_last_seq[c], handled[c]>>
  BY DEF PushFrame, PushRefused, PushAwaitsKeyframe, PushRoom, PushTrim, PushOverflowKey,
         PushFlush, Enqueue, cvars, hvars
<1>2. CASE Buffered' \subseteq Buffered /\ next_id' = next_id
  BY <1>1, <1>2, PushBuffered, HandledKept
<1>3. ASSUME NEW f, f.unit = unit, f.id = next_id, Buffered' \subseteq Buffered \cup {f},
             next_id' = NextId(next_id), unit' = unit + 1, unit <= MaxUnits
      PROVE  HandledInv(c)'
  <2>1. SUFFICES ASSUME enc_have_seq[c] PROVE HandledInv(c)'
    BY <1>1 DEF HandledInv
  <2>2. /\ WrappingSub(next_id, enc_last_seq[c]) \in 1..(2 * (unit - handled[c]))
        /\ handled[c] < unit /\ enc_last_seq[c] \in Ids
    BY <2>1, CallTypes DEF HandledInv, SendInv, OrderInv
  <2>3. ASSUME NEW g \in Buffered'
        PROVE  /\ g.unit = handled[c] => g.id = enc_last_seq[c]
               /\ g.unit > handled[c] =>
                     WrappingSub(g.id, enc_last_seq[c]) \in 1..(2 * (g.unit - handled[c]))
    <3>1. CASE g = f
      BY <1>3, <2>2, <3>1, CallTypes
    <3>2. CASE g \in Buffered
      BY <2>1, <3>2 DEF HandledInv
    <3> QED
      BY <1>3, <3>1, <3>2
  <2>4. WrappingSub(next_id', enc_last_seq[c]) \in 1..(2 * (unit' - handled[c]))
    <3> DEFINE n == unit - handled[c]
    <3>1. unit \in Nat /\ handled[c] \in Nat
      BY CallTypes, ConstantTypes
    <3>2. n \in Nat /\ 2 * (n + 1) < IdMod
      <4>1. \A u, h, m, k \in Nat : h < u /\ u <= m /\ 4 * m < k =>
                u - h \in Nat /\ 2 * ((u - h) + 1) < k
        OBVIOUS
      <4> QED
        BY <1>3, <2>2, <3>1, <4>1, ConstantTypes
    <3>3. WrappingSub(next_id, enc_last_seq[c]) \in 1..(2 * n)
      BY <2>2
    <3>4. WrappingSub(NextId(next_id), enc_last_seq[c]) \in 1..(2 * (n + 1))
      <4> HIDE DEF n
      <4> QED
        BY <2>2, <3>2, <3>3, CallTypes, NextIdDistance
    <3>5. 2 * (n + 1) = 2 * (unit' - handled[c])
      BY <1>3, <3>1
    <3> QED
      BY <1>3, <3>4, <3>5
  <2> QED
    BY <1>1, <2>2, <2>3, <2>4, CallTypes DEF HandledInv
<1> QED
  BY <1>2, <1>3, PushBuffered

\* What the invariants read about one call besides HasKey, and about the bridge.
LEMMA FedKept ==
    ASSUME NEW c \in Codecs, FedInv(c), UNCHANGED <<taken, hand>>, c \in todo' <=> c \in todo,
           UNCHANGED <<linked[c], joined[c], enc_have_seq[c], handled[c], pc[c], remote[c]>>
    PROVE  FedInv(c)'
  BY DEF FedInv, Pending

LEMMA PassKept ==
    ASSUME NEW c \in Codecs, PassInv(c), UNCHANGED <<source_epoch, restarts, restartAt, hand>>,
           UNCHANGED <<joined[c], handled[c], pc[c], enc_epoch[c], enc_sent_key[c]>>,
           staleAt' = staleAt \/ pc[c] = "idle"
    PROVE  PassInv(c)'
  BY DEF PassInv, EpochAfter

LEMMA JoinedKept ==
    ASSUME NEW c \in Codecs, joined[c], JoinedInv(c), HasKey(c)' => HasKey(c),
           UNCHANGED <<restarts, restartAt, taken, hand>>, refused \subseteq refused',
           UNCHANGED <<handled[c], pc[c], remote[c]>>, c \in todo' <=> c \in todo,
           \/ UNCHANGED <<staleAt, gateAt>>
           \/ pc[c] = "idle" /\ (staleAt' = staleAt \/ staleAt' = restarts)
    PROVE  JoinedInv(c)'
<1>1. Decodable(c) => Decodable(c)'
  BY DEF Decodable, Follows
<1>2. Pending(c)' <=> Pending(c)
  BY DEF Pending
<1> QED
  BY <1>1, <1>2 DEF JoinedInv

\* What the invariant says of one call, and what one step leaves of it.
CallsInv(c) == HandledInv(c) /\ FedInv(c) /\ PassInv(c) /\ (joined[c] => JoinedInv(c))

CallKept(c) == FedInv(c)' /\ PassInv(c)' /\ (joined'[c] => JoinedInv(c)')

\* The steps of the application and the poll clock.
calls == <<todo, linked, joined, enc_have_seq, handled, taken, hand, gates>>

LEMMA QuietCall ==
    ASSUME NEW c \in Codecs, CallsInv(c),
           UNCHANGED calls, refused \subseteq refused'
    PROVE  CallKept(c)
<1>0. FedInv(c) /\ PassInv(c) /\ (joined[c] => JoinedInv(c))
  BY DEF CallsInv
<1>1. HasKey(c)' = HasKey(c)
  BY DEF HasKey, calls, gates
<1>2. FedInv(c)' /\ PassInv(c)'
  BY <1>0, FedKept, PassKept DEF calls, gates
<1>3. joined[c] => JoinedInv(c)'
  BY <1>0, <1>1, JoinedKept DEF calls, gates
<1> QED
  BY <1>2, <1>3 DEF CallKept, calls

LEMMA ClearCall ==
    ASSUME TypeOK, SendInv, KeyInv, Clear,
           NEW c \in Codecs, CallsInv(c)
    PROVE  CallKept(c)
<1>0. FedInv(c) /\ PassInv(c) /\ (joined[c] => JoinedInv(c))
  BY DEF CallsInv
<1> USE DEF Clear, bvars, cvars, srcvars, hvars
<1>1. keyed_epoch' # source_epoch' /\ enc_epoch'[c] # source_epoch'
  BY <1>0, ClearEpoch DEF PassInv
<1>2. ~HasKey(c)'
  BY <1>1 DEF HasKey
<1>3. handled[c] < restartAt' /\ remote[c] < restartAt'
  BY <1>0, CallTypes DEF FedInv, SendInv, OrderInv
<1>4. FedInv(c)'
  BY <1>0 DEF FedInv, Pending
<1>5. PassInv(c)'
  BY <1>0, <1>1, <1>3, ClearEpoch DEF PassInv, EpochAfter
<1>6. joined[c] => JoinedInv(c)'
  BY <1>0, <1>2, <1>3 DEF JoinedInv, Decodable, Follows
<1> QED
  BY <1>4, <1>5, <1>6 DEF CallKept

LEMMA TickCall ==
    ASSUME TypeOK, SendInv, KeyInv, BridgeTick,
           NEW c \in Codecs, CallsInv(c)
    PROVE  CallKept(c)
<1>0. FedInv(c) /\ PassInv(c) /\ (joined[c] => JoinedInv(c))
  BY DEF CallsInv
<1> USE DEF BridgeTick, qvars, evars, cvars, srcvars, rstvars, hvars
<1>1. pc[c] = "idle" /\ c \notin todo /\ ~Pending(c)
  BY DEF KeyInv, FeedInv, Pending
<1>2. FedInv(c)'
  BY <1>0, <1>1 DEF FedInv, Pending
<1>3. PassInv(c)'
  BY <1>0, <1>1 DEF PassInv, EpochAfter
<1>4. ASSUME joined[c] PROVE JoinedInv(c)'
  <2>1. SUFFICES ASSUME HasKey(c)', ~(staleAt = restarts /\ remote[c] < restartAt)
                 PROVE  restartAt <= taken /\ IF Pending(c)' THEN Decodable(c)'
                                                             ELSE remote[c] = taken
    BY <1>0, <1>1 DEF JoinedInv
  <2>2. HasKey(c)
    BY <2>1 DEF HasKey
  <2>3. restartAt <= taken /\ remote[c] = taken
    BY <1>0, <1>1, <1>4, <2>1, <2>2 DEF JoinedInv
  <2>4. Pending(c)' => Decodable(c)'
    <3>1. ASSUME slot # NoFrame PROVE Link(taken, slot)
      BY <3>1 DEF SendInv, ChainInv, Buffers
    <3> QED
      BY <2>3, <3>1, CallTypes DEF Pending, Decodable, Link, Follows
  <2> QED
    BY <2>3, <2>4
<1> QED
  BY <1>2, <1>3, <1>4 DEF CallKept

LEMMA ControlCall ==
    ASSUME TypeOK, SendInv, KeyInv, NEW d \in Codecs,
           \/ \E on \in BOOLEAN : SetTransmit(d, on)
           \/ \E single \in BOOLEAN : Open(d, single)
           \/ Close(d),
           NEW c \in Codecs, CallsInv(c)
    PROVE  CallKept(c)
<1>0. FedInv(c) /\ PassInv(c) /\ (joined[c] => JoinedInv(c))
  BY DEF CallsInv
<1> USE DEF evars, bvars, srcvars, rstvars
<1>1. /\ UNCHANGED <<source_epoch, keyed_epoch, pc, hand, taken, gateAt, staleAt, remote,
                     restarts, restartAt, refused, handled>>
      /\ pc[d] = "idle"
  BY DEF SetTransmit, Open, Close, KeyInv, FeedInv
<1>2. CASE c # d
  <2>1. /\ UNCHANGED <<linked[c], joined[c], enc_have_seq[c], enc_epoch[c], enc_sent_key[c]>>
        /\ c \in todo' <=> c \in todo
    BY <1>2 DEF SetTransmit, Open, Close, ResetEncoder, TypeOK, CodecType, HistoryType
  <2>2. HasKey(c)' = HasKey(c)
    BY <1>1, <2>1 DEF HasKey
  <2>3. FedInv(c)' /\ PassInv(c)' /\ (joined[c] => JoinedInv(c)')
    BY <1>0, <1>1, <2>1, <2>2, FedKept, PassKept, JoinedKept
  <2> QED
    BY <2>1, <2>3 DEF CallKept
<1>3. ASSUME c = d, NEW on \in BOOLEAN, SetTransmit(d, on) PROVE CallKept(c)
  <2>1. /\ UNCHANGED <<enc_have_seq, enc_epoch, enc_sent_key>>
        /\ linked'[c] = on /\ joined'[c] = (joined[c] /\ on)
        /\ todo' = IF on THEN todo ELSE todo \ {c}
    BY <1>3 DEF SetTransmit, TypeOK, CodecType, HistoryType
  <2>2. CASE on
    <3>1. FedInv(c)'
      BY <1>0, <1>1, <2>1, <2>2 DEF FedInv, Pending
    <3>2. joined'[c] = joined[c]
      BY <2>1, <2>2, CallTypes
    <3>3. PassInv(c)'
      BY <1>0, <1>1, <2>1, <3>2, PassKept
    <3>4. HasKey(c)' = HasKey(c)
      BY <1>1, <2>1 DEF HasKey
    <3>5. joined[c] => JoinedInv(c)'
      BY <1>0, <1>1, <2>1, <2>2, <3>4, JoinedKept
    <3> QED
      BY <3>1, <3>2, <3>3, <3>5 DEF CallKept
  <2>3. CASE ~on
    <3>1. ~joined'[c] /\ c \notin todo' /\ pc'[c] = "idle"
      BY <1>1, <1>3, <2>1, <2>3
    <3> QED
      BY <1>0, <1>1, <2>1, <3>1 DEF CallKept, FedInv, PassInv, EpochAfter
  <2> QED
    BY <2>2, <2>3
<1>4. ASSUME c = d, (\E single \in BOOLEAN : Open(d, single)) \/ Close(d) PROVE CallKept(c)
  <2>1. ~joined'[c]
    <3>1. ASSUME NEW single \in BOOLEAN, Open(d, single) PROVE ~joined'[c]
      BY <1>0, <1>4, <3>1 DEF Open, KeyInv, FeedInv, FedInv
    <3>2. CASE Close(d)
      BY <1>4, <3>2 DEF Close, TypeOK, HistoryType
    <3> QED
      BY <1>4, <3>1, <3>2
  <2>2. c \notin todo' /\ pc'[c] = "idle" /\ enc_epoch'[c] = 0
    BY <1>1, <1>4 DEF Open, Close, ResetEncoder, KeyInv, FeedInv, TypeOK, CodecType
  <2> QED
    BY <1>0, <1>1, <2>1, <2>2 DEF CallKept, FedInv, PassInv
<1> QED
  BY <1>2, <1>3, <1>4

LEMMA SkipCall ==
    ASSUME TypeOK, SendInv, NEW d \in Codecs, NEW force \in BOOLEAN, EncodeSkip(d, force),
           NEW c \in Codecs, CallsInv(c)
    PROVE  CallKept(c)
<1>1. /\ UNCHANGED <<source_epoch, keyed_epoch, hand, taken, gateAt, staleAt, remote, restarts,
                     restartAt, refused, handled, linked, joined, enc_have_seq, enc_epoch,
                     enc_sent_key>>
      /\ pc[c] = "idle" /\ pc'[c] = "idle" /\ todo' = todo \ {d} /\ d \in todo
      /\ hand = NoFrame \/ AlreadyHandled(d)
  BY DEF EncodeSkip, BridgeFree, Return, evars, cvars, srcvars, rstvars, hvars, TypeOK, BridgeType
<1>2. HasKey(c)' = HasKey(c)
  BY <1>1 DEF HasKey
<1>3. PassInv(c)'
  BY <1>1, PassKept DEF CallsInv
<1>4. CASE c # d
  <2>1. FedInv(c)' /\ (joined[c] => JoinedInv(c)')
    BY <1>1, <1>2, <1>4, FedKept, JoinedKept DEF CallsInv
  <2> QED
    BY <1>1, <1>3, <2>1 DEF CallKept
<1>5. CASE c = d
  <2>1. ~Pending(c) /\ (hand # NoFrame => handled[c] = hand.unit)
    <3>1. ASSUME hand # NoFrame PROVE handled[c] = hand.unit
      BY <1>1, <1>5, <3>1, SkipsRepeat DEF CallsInv, FedInv, AlreadyHandled
    <3> QED
      BY <3>1 DEF Pending
  <2>2. ~Pending(c)'
    BY <1>1, <1>5 DEF Pending
  <2>3. FedInv(c)'
    BY <1>1, <1>5, <2>1, <2>2 DEF CallsInv, FedInv
  <2>4. joined[c] => JoinedInv(c)'
    BY <1>1, <1>2, <2>1, <2>2 DEF CallsInv, JoinedInv
  <2> QED
    BY <1>1, <1>3, <2>3, <2>4 DEF CallKept
<1> QED
  BY <1>4, <1>5

LEMMA TakeCall ==
    ASSUME TypeOK, SendInv, NEW d \in Codecs, NEW force \in BOOLEAN, EncodeTake(d, force),
           NEW c \in Codecs, CallsInv(c)
    PROVE  CallKept(c)
<1>1. /\ UNCHANGED <<source_epoch, keyed_epoch, hand, gateAt, staleAt, remote, restarts,
                     restartAt, refused, linked, joined, enc_epoch, enc_sent_key, todo>>
      /\ pc[c] = "idle" /\ hand # NoFrame /\ taken' = hand.unit /\ d \in todo
      /\ ~AlreadyHandled(d)
  BY DEF EncodeTake, BridgeFree, evars, srcvars, rstvars
<1>2. /\ pc'[c] = IF c = d THEN "gate" ELSE pc[c]
      /\ handled'[c] = IF c = d THEN hand.unit ELSE handled[c]
      /\ enc_have_seq'[c] = IF c = d THEN TRUE ELSE enc_have_seq[c]
  BY DEF EncodeTake, TypeOK, BridgeType, CodecType, HistoryType
<1>3. HasKey(c)' = HasKey(c) /\ (Decodable(c)' <=> Decodable(c))
  BY <1>1 DEF HasKey, Decodable, Follows
<1>4. taken <= hand.unit /\ handled[c] <= taken /\ remote[c] <= taken
  BY <1>1, HandType DEF SendInv, OrderInv, CallsInv, FedInv
<1>5. hand.unit \in Nat /\ taken \in Nat /\ handled[c] \in Nat /\ remote[c] \in Nat /\ restartAt \in Nat
  BY <1>1, HandType, CallTypes
<1>6. CASE c # d
  <2>1. pc'[c] = "idle" /\ handled'[c] = handled[c] /\ enc_have_seq'[c] = enc_have_seq[c]
        /\ (Pending(c)' <=> Pending(c))
    BY <1>1, <1>2, <1>6 DEF Pending
  <2>2. joined[c] /\ ~Pending(c) => handled[c] = taken /\ taken = hand.unit
    BY <1>1, <1>4, <1>5 DEF CallsInv, FedInv, Pending
  <2>3. FedInv(c)'
    BY <1>1, <1>4, <1>5, <2>1, <2>2 DEF CallsInv, FedInv, Pending
  <2>4. PassInv(c)'
    BY <1>1, <2>1, PassKept DEF CallsInv
  <2>5. joined[c] => JoinedInv(c)'
    BY <1>1, <1>3, <1>4, <1>5, <2>1, <2>2 DEF CallsInv, JoinedInv
  <2> QED
    BY <1>1, <2>3, <2>4, <2>5 DEF CallKept
<1>7. CASE c = d
  <2>1. pc'[c] = "gate" /\ handled'[c] = hand.unit /\ enc_have_seq'[c]
    BY <1>2, <1>7
  <2>2. FedInv(c)'
    BY <1>1, <1>4, <1>5, <1>7, <2>1 DEF CallsInv, FedInv
  <2>3. PassInv(c)'
    BY <1>1, <2>1 DEF CallsInv, PassInv, EpochAfter
  <2>4. ASSUME joined[c] PROVE JoinedInv(c)'
    <3>1. Pending(c)
      <4>1. enc_have_seq[c]
        BY <2>4 DEF CallsInv, FedInv
      <4>2. handled[c] # hand.unit
        BY <1>1, <1>4, <1>7, <4>1, SkipsRepeat DEF CallsInv
      <4> QED
        BY <1>1, <1>7, <4>2 DEF Pending
    <3>2. HasKey(c) => \/ staleAt = restarts /\ remote[c] < restartAt
                       \/ restartAt <= taken /\ Decodable(c)
      BY <1>1, <2>4, <3>1 DEF CallsInv, JoinedInv
    <3> QED
      BY <1>1, <1>3, <1>4, <1>5, <2>1, <3>2 DEF JoinedInv
  <2> QED
    BY <1>1, <2>2, <2>3, <2>4 DEF CallKept
<1> QED
  BY <1>6, <1>7

LEMMA GateCall ==
    ASSUME TypeOK, SendInv, KeyInv, NEW d \in Codecs, EncodeGate(d), NEW c \in Codecs, CallsInv(c)
    PROVE  CallKept(c)
<1> DEFINE pass == HasKey(d) \/ hand.key
<1>1. /\ UNCHANGED <<source_epoch, keyed_epoch, hand, taken, remote, restarts, restartAt,
                     refused, handled, linked, enc_have_seq>>
      /\ pc[d] = "gate" /\ gateAt' = restarts
      /\ staleAt' = IF hand.key /\ hand.unit < restartAt THEN restarts ELSE staleAt
  BY DEF EncodeGate, evars, srcvars, rstvars
<1>2. /\ enc_epoch' = [enc_epoch EXCEPT ![d] = source_epoch]
      /\ enc_sent_key' = [enc_sent_key EXCEPT ![d] = pass]
      /\ joined' = [joined EXCEPT ![d] = @ \/ hand.key]
      /\ IF pass THEN pc' = [pc EXCEPT ![d] = "finish"] /\ todo' = todo
                 ELSE pc' = [pc EXCEPT ![d] = "idle"] /\ todo' = todo \ {d}
  BY DEF EncodeGate, Return
<1>3. c # d => pc[c] = "idle"
  BY <1>1 DEF KeyInv, FeedInv
<1>4. CASE c # d
  <2>1. /\ UNCHANGED <<joined[c], pc[c], enc_epoch[c], enc_sent_key[c]>>
        /\ c \in todo' <=> c \in todo
    BY <1>2, <1>4 DEF TypeOK, BridgeType, CodecType, HistoryType
  <2>2. HasKey(c)' = HasKey(c) /\ (staleAt' = staleAt \/ staleAt' = restarts)
    BY <1>1, <2>1 DEF HasKey
  <2>3. FedInv(c)' /\ PassInv(c)' /\ (joined[c] => JoinedInv(c)')
    BY <1>1, <1>3, <1>4, <2>1, <2>2, FedKept, PassKept, JoinedKept DEF CallsInv
  <2> QED
    BY <2>1, <2>3 DEF CallKept
<1>5. CASE c = d
  <2>1. /\ hand # NoFrame /\ taken = hand.unit /\ handled[c] = hand.unit /\ enc_have_seq[c]
        /\ linked[c] /\ c \in todo
    BY <1>1, <1>5 DEF CallsInv, FedInv, KeyInv, FeedInv
  <2>2. hand \in Frame /\ hand.unit \in Nat /\ hand.key \in BOOLEAN /\ restartAt \in Nat
    BY <2>1, HandType, CallTypes, FrameFields DEF TypeOK, BridgeType
  <2>3. enc_epoch'[c] = source_epoch /\ (enc_sent_key'[c] <=> pass)
        /\ (joined'[c] <=> joined[c] \/ hand.key)
    BY <1>2, <1>5 DEF TypeOK, CodecType, HistoryType
  <2>4. HasKey(c)' <=> pass
    BY <1>1, <2>3 DEF HasKey
  <2>5. enc_epoch'[c] = EpochAfter(restarts) /\ restarts \in 0..restarts
    BY <2>3, CallTypes DEF KeyInv, EpochInv
  <2>6. CASE pass
    <3>1. pc'[c] = "finish" /\ todo' = todo /\ enc_sent_key'[c]
      BY <1>2, <1>5, <2>3, <2>6 DEF TypeOK, BridgeType
    <3>2. FedInv(c)'
      BY <1>1, <2>1, <3>1 DEF CallsInv, FedInv
    <3>3. PassInv(c)'
      <4>1. hand.key => staleAt' = restarts \/ restartAt <= hand.unit
        BY <1>1, <2>2
      <4> QED
        BY <1>1, <2>3, <2>5, <3>1, <4>1 DEF PassInv, EpochAfter
    <3>4. ASSUME joined'[c] PROVE JoinedInv(c)'
      <4>1. /\ (staleAt' = restarts /\ remote[c] < restartAt) \/ Decodable(c)
            /\ staleAt' = restarts \/ restartAt <= taken
        <5>1. CASE hand.key
          BY <1>1, <2>1, <2>2, <5>1 DEF Decodable
        <5>2. CASE ~hand.key
          BY <1>1, <1>5, <2>3, <2>6, <3>4, <5>2 DEF CallsInv, JoinedInv
        <5> QED
          BY <5>1, <5>2
      <4>2. Decodable(c) => Decodable(c)'
        BY <1>1 DEF Decodable, Follows
      <4> QED
        BY <1>1, <3>1, <4>1, <4>2 DEF JoinedInv
    <3> QED
      BY <3>2, <3>3, <3>4 DEF CallKept
  <2>7. CASE ~pass
    <3>1. pc'[c] = "idle" /\ c \notin todo'
      BY <1>2, <1>5, <2>7 DEF TypeOK, BridgeType
    <3>2. FedInv(c)'
      BY <1>1, <2>1, <2>2, <3>1 DEF CallsInv, FedInv
    <3>3. PassInv(c)'
      BY <1>1, <2>3, <2>5, <3>1 DEF PassInv, EpochAfter
    <3>4. JoinedInv(c)'
      BY <2>4, <2>7, <3>1 DEF JoinedInv
    <3> QED
      BY <3>2, <3>3, <3>4 DEF CallKept
  <2> QED
    BY <2>6, <2>7
<1> QED
  BY <1>4, <1>5

LEMMA OutputCall ==
    ASSUME TypeOK, KeyInv, NEW d \in Codecs, CallsInv(d), EncodeOutput(d),
           NEW c \in Codecs, CallsInv(c)
    PROVE  CallKept(c)
<1>1. /\ UNCHANGED <<source_epoch, hand, restarts, restartAt, refused, taken, gateAt, staleAt,
                     linked, enc_have_seq, enc_epoch, handled, joined>>
      /\ pc[d] \in {"finish", "more"}
  BY DEF EncodeOutput, EncodeWide, EncodeFinish, EncodeMore, EncodeRefused, srcvars, rstvars
<1>2. c # d => pc[c] = "idle"
  BY <1>1 DEF KeyInv, FeedInv
<1>3. /\ hand # NoFrame /\ taken = hand.unit /\ handled[d] = hand.unit /\ enc_have_seq[d]
      /\ linked[d] /\ d \in todo /\ enc_sent_key[d]
  BY <1>1 DEF CallsInv, FedInv, PassInv, KeyInv, FeedInv
<1>4. hand.unit \in Nat /\ restartAt \in Nat /\ source_epoch # 0 /\ handled[c] \in Nat
      /\ remote[c] \in Nat /\ taken \in Nat
  BY <1>3, HandType, CallTypes
<1>5. CASE EncodeWide(d) \/ EncodeRefused(d)
  <2>1. /\ pc' = [pc EXCEPT ![d] = "idle"] /\ todo' = todo \ {d}
        /\ enc_sent_key' = [enc_sent_key EXCEPT ![d] = FALSE]
        /\ keyed_epoch' = 0 /\ remote' = remote
    BY <1>5 DEF EncodeWide, EncodeRefused, DropOversized, Return
  <2>2. CASE c # d
    <3>1. UNCHANGED <<pc[c], enc_sent_key[c]>> /\ (c \in todo' <=> c \in todo)
      BY <2>1, <2>2 DEF TypeOK, BridgeType, CodecType
    <3>2. HasKey(c)' => HasKey(c)
      BY <1>1, <1>4, <2>1, <3>1 DEF HasKey
    <3> QED
      BY <1>1, <2>1, <3>1, <3>2, FedKept, PassKept, JoinedKept DEF CallsInv, CallKept
  <2>3. CASE c = d
    <3>1. pc'[c] = "idle" /\ c \notin todo' /\ ~enc_sent_key'[c]
      BY <2>1, <2>3 DEF TypeOK, BridgeType, CodecType
    <3>2. ~HasKey(c)'
      BY <1>1, <1>4, <2>1, <3>1 DEF HasKey
    <3>3. FedInv(c)'
      BY <1>1, <1>3, <2>1, <2>3, <3>1 DEF CallsInv, FedInv
    <3>4. PassInv(c)'
      BY <1>1, <2>3, <3>1 DEF CallsInv, PassInv, EpochAfter
    <3>5. JoinedInv(c)'
      BY <3>1, <3>2 DEF JoinedInv
    <3> QED
      BY <3>3, <3>4, <3>5 DEF CallKept
  <2> QED
    BY <2>2, <2>3
<1>6. CASE EncodeFinish(d)
  <2>1. /\ pc' = [pc EXCEPT ![d] = "more"] /\ pc[d] = "finish" /\ todo' = todo
        /\ keyed_epoch' = IF hand.key THEN enc_epoch[d] ELSE keyed_epoch
        /\ enc_sent_key' = enc_sent_key /\ remote' = remote
    BY <1>6 DEF EncodeFinish
  <2>2. CASE c # d
    <3>1. pc'[c] = pc[c] /\ pc[c] = "idle"
      BY <1>2, <2>1, <2>2 DEF TypeOK, BridgeType
    <3>2. FedInv(c)' /\ PassInv(c)'
      BY <1>1, <2>1, <3>1, FedKept, PassKept DEF CallsInv
    <3>3. CASE HasKey(c)' => HasKey(c)
      BY <1>1, <2>1, <3>1, <3>2, <3>3, JoinedKept DEF CallsInv, CallKept
    <3>4. CASE HasKey(c)' /\ ~HasKey(c)
      <4>1. hand.key /\ enc_epoch[d] = source_epoch /\ enc_epoch[c] # source_epoch
        BY <1>1, <2>1, <3>4 DEF HasKey
      <4>2. staleAt = restarts \/ restartAt <= taken
        BY <1>3, <2>1, <4>1 DEF CallsInv, PassInv
      <4>3. joined[c] => handled[c] < restartAt
        BY <3>1, <4>1 DEF CallsInv, PassInv
      <4>4. joined[c] /\ restartAt <= taken => Pending(c)
        BY <1>3, <1>4, <4>3 DEF CallsInv, FedInv
      <4>5. Pending(c)' = Pending(c) /\ Decodable(c)'
        BY <1>1, <2>1, <4>1 DEF Pending, Decodable
      <4>6. joined[c] => JoinedInv(c)'
        BY <1>1, <1>4, <2>1, <3>1, <3>2, <4>2, <4>4, <4>5 DEF JoinedInv, CallsInv, FedInv
      <4> QED
        BY <1>1, <3>2, <4>6 DEF CallKept
    <3> QED
      BY <3>3, <3>4
  <2>3. CASE c = d
    <3>1. pc'[c] = "more" /\ pc[c] = "finish" /\ enc_sent_key'[c] = enc_sent_key[c]
      BY <2>1, <2>3 DEF TypeOK, BridgeType
    <3>2. (HasKey(c)' => HasKey(c)) /\ (Decodable(c)' <=> Decodable(c))
      BY <1>1, <2>1, <2>3 DEF HasKey, Decodable, Follows
    <3>3. FedInv(c)'
      BY <1>1, <1>3, <2>1, <2>3, <3>1 DEF CallsInv, FedInv, Pending
    <3>4. PassInv(c)'
      BY <1>1, <2>3, <3>1 DEF CallsInv, PassInv, EpochAfter
    <3>5. joined[c] => JoinedInv(c)'
      BY <1>1, <2>1, <3>1, <3>2 DEF CallsInv, JoinedInv
    <3> QED
      BY <1>1, <3>3, <3>4, <3>5 DEF CallKept
  <2> QED
    BY <2>2, <2>3
<1>7. CASE EncodeMore(d)
  <2>1. /\ pc' = [pc EXCEPT ![d] = "idle"] /\ pc[d] = "more" /\ todo' = todo \ {d}
        /\ remote' = [remote EXCEPT ![d] = hand.unit]
        /\ UNCHANGED <<keyed_epoch, enc_sent_key>>
    BY <1>7 DEF EncodeMore, Return
  <2>2. HasKey(c)' = HasKey(c)
    BY <1>1, <2>1 DEF HasKey
  <2>3. CASE c # d
    <3>1. UNCHANGED <<pc[c], remote[c]>> /\ (c \in todo' <=> c \in todo)
      BY <2>1, <2>3 DEF TypeOK, BridgeType, HistoryType
    <3> QED
      BY <1>1, <2>1, <2>2, <3>1, FedKept, PassKept, JoinedKept DEF CallsInv, CallKept
  <2>4. CASE c = d
    <3>1. pc'[c] = "idle" /\ c \notin todo' /\ remote'[c] = hand.unit
      BY <2>1, <2>4 DEF TypeOK, BridgeType, HistoryType
    <3>2. FedInv(c)'
      BY <1>1, <1>3, <1>4, <2>1, <2>4, <3>1 DEF CallsInv, FedInv
    <3>3. PassInv(c)'
      BY <1>1, <2>1, <2>4, <3>1 DEF CallsInv, PassInv, EpochAfter
    <3>4. joined[c] => JoinedInv(c)'
      BY <1>1, <1>3, <1>4, <2>1, <2>2, <2>4, <3>1 DEF CallsInv, JoinedInv, Pending
    <3> QED
      BY <1>1, <3>2, <3>3, <3>4 DEF CallKept
  <2> QED
    BY <2>3, <2>4
<1> QED
  BY <1>5, <1>6, <1>7 DEF EncodeOutput

\* The unit taken gives its id and number to the codec that takes it; no other
\* step touches what a codec handled, and none brings an old unit back.
LEMMA NextHandled ==
    ASSUME TypeOK, SendInv, KeyInv, [Next]_vars, NEW c \in Codecs, CallsInv(c)
    PROVE  HandledInv(c)'
<1>0. HandledInv(c) /\ handled[c] <= taken
  BY DEF CallsInv, FedInv
<1>1. CASE PushFrame
  BY <1>0, <1>1, PushHandled
<1>2. CASE ~PushFrame
  <2>1. Buffered' \subseteq Buffered /\ UNCHANGED <<next_id, unit>>
    BY <1>2, OthersBuffered
  <2>2. CASE UNCHANGED <<enc_have_seq[c], enc_last_seq[c], handled[c]>>
    BY <1>0, <2>1, <2>2, HandledKept
  <2>3. CASE ~enc_have_seq'[c]
    BY <2>3 DEF HandledInv
  <2>4. ASSUME NEW d \in Codecs,
               \/ \E on \in BOOLEAN : SetTransmit(d, on)
               \/ \E single \in BOOLEAN : Open(d, single)
               \/ Close(d)
        PROVE  UNCHANGED <<enc_have_seq[c], enc_last_seq[c], handled[c]>> \/ ~enc_have_seq'[c]
    BY <2>4 DEF SetTransmit, Open, Close, ResetEncoder, TypeOK, CodecType
  <2>5. ASSUME NEW force \in BOOLEAN, EncodeTake(c, force) PROVE HandledInv(c)'
    <3>1. hand # NoFrame /\ handled'[c] = hand.unit /\ enc_last_seq'[c] = hand.id
      BY <2>5 DEF EncodeTake, TypeOK, CodecType, HistoryType
    <3>2. hand.id # 0 /\ hand \in Buffered
      BY <3>1, HandType DEF Ids
    <3>3. /\ \A f \in Buffered : f.unit = hand.unit => f = hand
          /\ \A f \in Buffered : f.unit > hand.unit =>
                WrappingSub(f.id, hand.id) \in 1..(2 * (f.unit - hand.unit))
          /\ WrappingSub(next_id, hand.id) \in 1..(2 * (unit - hand.unit))
      <4>1. \A f \in Buffered : f.unit > hand.unit <=> hand.unit < f.unit
        OBVIOUS
      <4> QED
        BY <3>2, <4>1 DEF SendInv, IdInv
    <3> QED
      BY <2>1, <3>1, <3>2, <3>3 DEF HandledInv
  <2>6. ASSUME NEW d \in Codecs, NEW force \in BOOLEAN, EncodeTake(d, force), c # d
        PROVE  UNCHANGED <<enc_have_seq[c], enc_last_seq[c], handled[c]>>
    BY <2>6 DEF EncodeTake, TypeOK, CodecType, HistoryType
  <2>7. ASSUME \/ Clear \/ (\E n \in 1..MaxQueue : Reconfigure(n)) \/ Poll \/ BridgeTick
               \/ \E d \in Codecs :
                     (\E force \in BOOLEAN : EncodeSkip(d, force)) \/ EncodeGate(d) \/ EncodeOutput(d)
               \/ UNCHANGED vars
        PROVE  UNCHANGED <<enc_have_seq[c], enc_last_seq[c], handled[c]>>
    BY <2>7 DEF Clear, Reconfigure, Poll, BridgeTick, EncodeSkip, EncodeGate, EncodeOutput, vars,
                cvars, hvars
  <2> QED
    BY <1>2, <2>2, <2>3, <2>4, <2>5, <2>6, <2>7 DEF Next, Encode
<1> QED
  BY <1>1, <1>2

LEMMA NextEachCall ==
    TypeOK /\ SendInv /\ KeyInv /\ EachCallInv /\ [Next]_vars => EachCallInv'
<1> SUFFICES ASSUME TypeOK, SendInv, KeyInv, EachCallInv, [Next]_vars, NEW c \in Codecs
             PROVE  HandledInv(c)' /\ CallKept(c)
  BY DEF EachCallInv, CallKept
<1>1. \A d \in Codecs : CallsInv(d)
  BY DEF EachCallInv, CallsInv
<1>2. HandledInv(c)'
  BY <1>1, NextHandled
<1> SUFFICES CallKept(c)
  BY <1>2
<1>3. CallsInv(c)
  BY <1>1
<1>4. CASE PushFrame
  <2>1. UNCHANGED <<evars, bvars, cvars, rstvars, hvars>> /\ refused \subseteq refused'
    BY <1>4 DEF PushFrame, PushRefused, PushAwaitsKeyframe, PushRoom, PushTrim, PushOverflowKey,
          PushFlush, Enqueue
  <2> QED
    BY <1>3, <2>1, QuietCall DEF calls, gates, evars, bvars, cvars, rstvars, hvars
<1>5. CASE Clear
  BY <1>3, <1>5, ClearCall
<1>6. ASSUME NEW n \in 1..MaxQueue, Reconfigure(n) PROVE CallKept(c)
  BY <1>3, <1>6, QuietCall
  DEF Reconfigure, calls, gates, evars, bvars, cvars, srcvars, rstvars, hvars
<1>7. CASE Poll
  BY <1>3, <1>7, QuietCall DEF Poll, calls, gates, evars, cvars, srcvars, rstvars, hvars
<1>8. CASE BridgeTick
  BY <1>3, <1>8, TickCall
<1>9. ASSUME NEW d \in Codecs,
             \/ \E on \in BOOLEAN : SetTransmit(d, on)
             \/ \E single \in BOOLEAN : Open(d, single)
             \/ Close(d)
      PROVE  CallKept(c)
  BY <1>3, <1>9, ControlCall
<1>10. ASSUME NEW d \in Codecs, Encode(d) PROVE CallKept(c)
  BY <1>1, <1>10, SkipCall, TakeCall, GateCall, OutputCall DEF Encode
<1>11. CASE UNCHANGED vars
  BY <1>3, <1>11, QuietCall DEF vars, calls, gates, evars, bvars, cvars, srcvars, rstvars, hvars
<1> QED
  BY <1>4, <1>5, <1>6, <1>7, <1>8, <1>9, <1>10, <1>11 DEF Next

\* For any number of calls: what the bridge's round, the gate's epochs and
\* drop_oversized preserve together, so that neither a keyframe another call
\* let out nor one of another source opens a joined call's gate too early.
THEOREM EachCallInvariant == Spec => []EachCallInv
<1> QED
  BY InitEachCall, NextEachCall, TypeCorrect, SendInvariant, KeyInvariant, PTL DEF Spec

\* For any number of calls: from the first keyframe through its gate until its
\* sending is turned off, a call's remote never gets a unit without the one
\* before it, except the first of a restarted source, behind a keyframe of the
\* old one let through after the clear().
THEOREM CallChainHolds == Spec => []CallChain
<1>1. EachCallInv => CallChain
  BY DEF EachCallInv, JoinedInv, Decodable, CallChain
<1> QED
  BY <1>1, EachCallInvariant, PTL

-----------------------------------------------------------------------------
\* VideoSend implements UnitStream.

LEMMA InitStream == Init => StreamInv /\ Stream!Init
<1> SUFFICES ASSUME Init PROVE StreamInv /\ Stream!Init
  OBVIOUS
<1>1. queue = <<>> /\ slot = NoFrame /\ hand = NoFrame /\ refused = {}
  BY DEF Init
<1>2. Buffered = {}
  BY <1>1, EmptySeq DEF Buffered, Buffers
<1>3. StreamInv
  BY <1>1, <1>2 DEF StreamInv, Buffered
<1>4. Stream!Init
  BY DEF Init, Stream!Init
<1> QED
  BY <1>3, <1>4

LEMMA NextStreamInv == TypeOK /\ SendInv /\ StreamInv /\ [Next]_vars => StreamInv'
<1> SUFFICES ASSUME TypeOK, SendInv, StreamInv, [Next]_vars PROVE StreamInv'
  OBVIOUS
<1> DEFINE Known == \A f \in Buffers : f.unit = taken => f.key = takenKey
<1>0. Known /\ unit \in Nat /\ \A v \in refused : v \in Nat /\ v < unit
  BY ConstantTypes DEF StreamInv, TypeOK, HistoryType
<1>1. ASSUME UNCHANGED <<taken, takenKey>>, Buffers' \subseteq Buffers PROVE Known'
  BY <1>0, <1>1
<1>2. CASE PushFrame
  <2>1. UNCHANGED <<slot, hand, taken, takenKey>>
    BY <1>2 DEF PushFrame, PushRefused, PushAwaitsKeyframe, PushRoom, PushTrim, PushOverflowKey,
          PushFlush, Enqueue, bvars, hvars
  <2>2. Known'
    BY <1>1, <2>1 DEF Buffers
  <2>3. unit' = unit + 1 /\ refused' \subseteq refused \cup {unit}
    BY <1>2, PushBuffered
  <2>4. \A v \in refused' : v < unit'
    BY <1>0, <2>3
  <2>5. \A f \in Buffered : f.unit < unit
    BY DEF SendInv, OrderInv, Buffered
  <2>6. ASSUME NEW f \in Buffered' PROVE f.unit \notin refused'
    <3>1. CASE f \in Buffered
      BY <1>0, <2>3, <2>5, <3>1 DEF StreamInv
    <3>2. CASE f.unit = unit /\ refused' = refused
      BY <1>0, <3>2
    <3> QED
      BY <1>2, <2>6, <3>1, <3>2, PushBuffered
  <2> QED
    BY <2>2, <2>4, <2>6 DEF StreamInv
<1>3. CASE ~PushFrame
  <2>1. Buffered' \subseteq Buffered /\ UNCHANGED <<unit, refused>>
    BY <1>3, OthersBuffered
  <2>2. SUFFICES Known'
    BY <2>1 DEF StreamInv
  <2>3. CASE Poll
    <3>1. /\ UNCHANGED <<hand, taken, takenKey>>
          /\ slot' = NoFrame \/ (1 \in 1..Len(queue) /\ slot' = queue[1])
      BY <2>3, HeadTailProperties, EmptySeq, LenProperties DEF Poll, hvars, TypeOK, QueueType
    <3>2. 1 \in 1..Len(queue) => taken < queue[1].unit
      BY DEF SendInv, OrderInv
    <3>3. taken \in Nat
      BY ConstantTypes DEF TypeOK, HistoryType
    <3> QED
      BY <1>0, <3>1, <3>2, <3>3 DEF Buffers
  <2>4. CASE BridgeTick
    BY <1>1, <2>4 DEF BridgeTick, Buffers, hvars
  <2>5. ASSUME NEW d \in Codecs, NEW force \in BOOLEAN, EncodeTake(d, force) PROVE Known'
    <3>1. UNCHANGED <<slot, hand>> /\ hand # NoFrame /\ taken' = hand.unit /\ takenKey' = hand.key
      BY <2>5 DEF EncodeTake
    <3>2. \A f \in Buffers : f.unit = hand.unit => f = hand
      BY <3>1 DEF SendInv, IdInv, Buffered, Buffers
    <3> QED
      BY <3>1, <3>2 DEF Buffers
  <2>6. ASSUME \/ Clear \/ \E n \in 1..MaxQueue : Reconfigure(n)
               \/ \E d \in Codecs :
                     \/ \E on \in BOOLEAN : SetTransmit(d, on)
                     \/ \E single \in BOOLEAN : Open(d, single)
                     \/ Close(d)
                     \/ \E force \in BOOLEAN : EncodeSkip(d, force)
                     \/ EncodeGate(d) \/ EncodeOutput(d)
               \/ UNCHANGED vars
        PROVE  UNCHANGED <<slot, hand, taken, takenKey>>
    BY <2>6 DEF Clear, Reconfigure, SetTransmit, Open, Close, EncodeSkip, EncodeGate, EncodeOutput,
          vars, bvars, hvars
  <2> QED
    BY <1>1, <1>3, <2>3, <2>4, <2>5, <2>6 DEF Next, Encode, Buffers
<1> QED
  BY <1>2, <1>3

\* A unit leaves the queue for the calls.
LEMMA TakeIsTake ==
    ASSUME TypeOK, SendInv, StreamInv, NEW d \in Codecs, NEW force \in BOOLEAN,
           EncodeTake(d, force)
    PROVE  [Stream!Next]_(Stream!vars)
<1>1. /\ UNCHANGED <<unit, refused, restartAt, remote, joined>> /\ hand # NoFrame
      /\ taken' = hand.unit /\ takenKey' = hand.key
  BY DEF EncodeTake, srcvars, rstvars
<1>2. hand \in Buffers /\ hand \in Buffered /\ hand.unit \in Nat /\ hand.key \in BOOLEAN
  BY <1>1, HandType, FrameFields DEF TypeOK, BridgeType
<1>3. taken \in Nat /\ unit \in Nat
  BY ConstantTypes DEF TypeOK, HistoryType
<1>4. CASE hand.unit = taken
  BY <1>1, <1>2, <1>4 DEF StreamInv, Stream!vars
<1>5. CASE hand.unit # taken
  <2>1. hand.unit \in (taken + 1)..(unit - 1) /\ hand.unit \notin refused
    BY <1>2, <1>3, <1>5 DEF StreamInv, SendInv, OrderInv
  <2>2. Stream!Continues(taken, hand.unit, hand.key)
    BY <1>2, <1>5 DEF SendInv, ChainInv, Link, Follows, Stream!Continues, Stream!Follows
  <2>3. Stream!Take(hand.unit, hand.key)
    BY <1>1, <2>1, <2>2 DEF Stream!Take
  <2> QED
    BY <1>2, <2>1, <2>3 DEF Stream!Next
<1> QED
  BY <1>4, <1>5

\* What the bridge has done with the unit in hand, in UnitStream's terms.
LEMMA InHand ==
    ASSUME TypeOK, KeyInv, EachCallInv, StreamInv, NEW c \in Codecs, pc[c] # "idle"
    PROVE  hand # NoFrame /\ hand.unit = taken /\ hand.key = takenKey /\ taken \in Nat
<1>1. hand # NoFrame /\ hand.unit = taken
  BY DEF EachCallInv, FedInv
<1> QED
  BY <1>1, HandType DEF StreamInv

LEMMA MoreIsSend ==
    ASSUME TypeOK, KeyInv, EachCallInv, StreamInv, NEW c \in Codecs, EncodeMore(c),
           UNCHANGED <<unit, refused, restartAt, taken, takenKey, joined>>
    PROVE  [Stream!Next]_(Stream!vars)
<1>1. remote' = [remote EXCEPT ![c] = taken] /\ pc[c] = "more"
  BY InHand DEF EncodeMore
<1>2. /\ hand.unit = taken /\ hand.key = takenKey /\ taken \in Nat
      /\ remote[c] \in Nat /\ remote[c] <= taken /\ remote \in [Codecs -> 0..MaxUnits]
  BY <1>1, InHand, CallTypes DEF EachCallInv, FedInv, TypeOK, HistoryType
<1>3. CASE remote[c] = taken
  <2>1. remote' = remote
    BY <1>1, <1>2, <1>3
  <2> QED
    BY <2>1 DEF Stream!vars
<1>4. CASE remote[c] < taken
  <2>1. joined[c] => Stream!Continues(remote[c], taken, takenKey)
    BY <1>1, <1>2, <1>4 DEF EachCallInv, JoinedInv, Decodable, Follows, Stream!Continues,
          Stream!Follows
  <2>2. Stream!Send(c)
    BY <1>1, <1>4, <2>1 DEF Stream!Send
  <2> QED
    BY <2>2 DEF Stream!Next
<1> QED
  BY <1>2, <1>3, <1>4

LEMMA NextStream ==
    TypeOK /\ SendInv /\ KeyInv /\ EachCallInv /\ StreamInv /\ [Next]_vars
        => [Stream!Next]_(Stream!vars)
<1> SUFFICES ASSUME TypeOK, SendInv, KeyInv, EachCallInv, StreamInv, [Next]_vars
             PROVE  [Stream!Next]_(Stream!vars)
  OBVIOUS
<1> DEFINE quiet == UNCHANGED <<unit, refused, restartAt, taken, takenKey, remote, joined>>
<1>1. quiet => [Stream!Next]_(Stream!vars)
  BY DEF Stream!vars
<1>2. CASE PushFrame
  <2>1. /\ unit <= MaxUnits /\ unit' = unit + 1
        /\ refused' = refused \/ refused' = refused \cup {unit}
        /\ UNCHANGED <<restartAt, taken, takenKey, remote, joined>>
    BY <1>2 DEF PushFrame, PushRefused, PushAwaitsKeyframe, PushRoom, PushTrim, PushOverflowKey,
          PushFlush, Enqueue, Produce, rstvars, hvars
  <2> QED
    BY <2>1 DEF Stream!Next, Stream!Produce
<1>3. CASE Clear
  <2>1. restartAt' = unit /\ UNCHANGED <<unit, refused, taken, takenKey, remote, joined>>
    BY <1>3 DEF Clear, srcvars, hvars
  <2> QED
    BY <2>1 DEF Stream!Next, Stream!Restart
<1>4. ASSUME \/ \E n \in 1..MaxQueue : Reconfigure(n)
             \/ Poll \/ BridgeTick \/ UNCHANGED vars
             \/ \E d \in Codecs, single \in BOOLEAN : Open(d, single)
             \/ \E d \in Codecs, force \in BOOLEAN : EncodeSkip(d, force)
      PROVE  quiet
  BY <1>4 DEF Reconfigure, Poll, BridgeTick, Open, EncodeSkip, vars, srcvars, rstvars, hvars
<1>5. ASSUME NEW d \in Codecs, (\E on \in BOOLEAN : SetTransmit(d, on)) \/ Close(d)
      PROVE  [Stream!Next]_(Stream!vars)
  <2>0. /\ UNCHANGED <<unit, refused, restartAt, taken, takenKey, remote>>
        /\ joined' = [joined EXCEPT ![d] = @] \/ joined' = [joined EXCEPT ![d] = FALSE]
    <3>1. ASSUME NEW on \in BOOLEAN, SetTransmit(d, on)
          PROVE  joined' = [joined EXCEPT ![d] = @] \/ joined' = [joined EXCEPT ![d] = FALSE]
      <4>1. joined' = [joined EXCEPT ![d] = joined[d] /\ on]
        BY <3>1 DEF SetTransmit
      <4>2. (joined[d] /\ on) = joined[d] \/ (joined[d] /\ on) = FALSE
        BY DEF TypeOK, HistoryType
      <4> QED
        BY <4>1, <4>2
    <3> QED
      BY <1>5, <3>1 DEF SetTransmit, Close, srcvars, rstvars
  <2>1. joined' = joined \/ (joined[d] /\ joined' = [joined EXCEPT ![d] = FALSE])
    BY <2>0 DEF TypeOK, HistoryType
  <2>2. joined[d] /\ joined' = [joined EXCEPT ![d] = FALSE] => Stream!Leave(d)
    BY <2>0 DEF Stream!Leave
  <2> QED
    BY <1>1, <2>0, <2>1, <2>2 DEF Stream!Next
<1>6. ASSUME NEW d \in Codecs, NEW force \in BOOLEAN, EncodeTake(d, force)
      PROVE  [Stream!Next]_(Stream!vars)
  BY <1>6, TakeIsTake
<1>7. ASSUME NEW d \in Codecs, EncodeGate(d) PROVE [Stream!Next]_(Stream!vars)
  <2>1. /\ UNCHANGED <<unit, refused, restartAt, taken, takenKey, remote>> /\ pc[d] = "gate"
        /\ joined' = [joined EXCEPT ![d] = @ \/ hand.key]
    BY <1>7 DEF EncodeGate, srcvars, rstvars
  <2>2. hand.key = takenKey /\ takenKey \in BOOLEAN /\ joined \in [Codecs -> BOOLEAN]
    BY <2>1, InHand DEF TypeOK, HistoryType
  <2>3. CASE takenKey /\ ~joined[d]
    <3>1. joined' = [joined EXCEPT ![d] = TRUE]
      BY <2>1, <2>2, <2>3
    <3>2. Stream!Join(d)
      BY <2>1, <2>3, <3>1 DEF Stream!Join
    <3> QED
      BY <3>2 DEF Stream!Next
  <2>4. CASE ~takenKey \/ joined[d]
    <3>1. joined' = joined
      BY <2>1, <2>2, <2>4
    <3> QED
      BY <1>1, <2>1, <3>1
  <2> QED
    BY <2>3, <2>4
<1>8. ASSUME NEW d \in Codecs, EncodeOutput(d) PROVE [Stream!Next]_(Stream!vars)
  <2>1. UNCHANGED <<unit, refused, restartAt, taken, takenKey, joined>>
    BY <1>8 DEF EncodeOutput, srcvars, rstvars
  <2>2. CASE EncodeMore(d)
    BY <2>1, <2>2, MoreIsSend
  <2>3. CASE EncodeWide(d) \/ EncodeFinish(d) \/ EncodeRefused(d)
    BY <1>1, <2>1, <2>3 DEF EncodeWide, EncodeFinish, EncodeRefused
  <2> QED
    BY <1>8, <2>2, <2>3 DEF EncodeOutput
<1> QED
  BY <1>1, <1>2, <1>3, <1>4, <1>5, <1>6, <1>7, <1>8 DEF Next, Encode

\* Whatever the two clocks, the application and the calls do, the passthrough is
\* a UnitStream: the queue that overflows, the copies the clocks hold, the
\* wrapping ids and the epochs of the gate cannot be told from a source whose
\* units are taken once and in order.
THEOREM StreamRefined == Spec => StreamSpec
<1>1. Init => Stream!Init
  BY InitStream
<1>2. Spec => []StreamInv
  BY InitStream, NextStreamInv, TypeCorrect, SendInvariant, PTL DEF Spec
<1> QED
  BY <1>1, <1>2, NextStream, TypeCorrect, SendInvariant, KeyInvariant, EachCallInvariant, PTL
  DEF Spec, StreamSpec, Stream!Spec
=============================================================================
