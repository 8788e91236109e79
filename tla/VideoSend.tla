------------------------------ MODULE VideoSend ------------------------------
(***************************************************************************)
(* The sending half of the H.264 passthrough (video.rs and                 *)
(* video_passthrough.c): one source of access units, a bounded queue, the  *)
(* capture device that one clock polls, and the codec instances that a     *)
(* second clock (the video conference bridge) feeds, one per sending call. *)
(*                                                                         *)
(* Threads: the application pushes, clears and reconfigures; the poll      *)
(* clock copies the oldest unit to the capture buffer; the bridge clock    *)
(* hands a copy of that buffer to every encoding codec in turn; call       *)
(* control opens and closes codecs.  A step is what one thread does under  *)
(* one lock (the queue mutex, or vpt.lock).                                *)
(***************************************************************************)
EXTENDS Integers, Sequences, FiniteSets

CONSTANTS
    Codecs,       \* the calls that may send video, one codec instance each
    MaxQueue,     \* largest max_queue the application configures
    IdMod,        \* 2^32: ids are u32
    FirstId,      \* next_id when the behaviour starts (1 after install)
    EpochMod,     \* 2^32: source_epoch is a pj_uint32_t
    FirstEpoch,   \* source_epoch when the behaviour starts (1 after install)
    MaxUnits,     \* bound: access units the source produces
    MaxRestarts,  \* bound: calls of clear()
    MaxOpens      \* bound: codec opens

ASSUME CodecsAssumption == IsFiniteSet(Codecs)
ASSUME QueueAssumption  == MaxQueue \in Nat \ {0}
\* A unit still in some buffer is never 2^31 ids old: an accepted push
\* advances next_id by at most 2 (it skips 0).
ASSUME IdAssumption ==
    /\ MaxUnits \in Nat
    /\ IdMod \in Nat /\ 2 * (2 * MaxUnits) < IdMod
    /\ FirstId \in 1..(IdMod - 1)
\* The source restarts fewer than 2^32 - 1 times.
ASSUME EpochAssumption ==
    /\ MaxRestarts \in Nat
    /\ EpochMod \in Nat
    /\ MaxRestarts < EpochMod - 1
    /\ FirstEpoch \in 1..(EpochMod - 1)
ASSUME OpensAssumption == MaxOpens \in Nat

VARIABLES
    queue,          \* Queue.frames, oldest first
    next_id,        \* Queue.next_id
    need_keyframe,  \* Queue.need_keyframe
    max_queue,      \* Shared.max_queue
    source_epoch,   \* vpt.source_epoch
    keyed_epoch,    \* vpt.keyed_epoch
    slot,           \* the capture port's frame buffer, written by the poll clock
    hand,           \* the bridge's copy of it in this tick
    todo,           \* codecs the bridge has yet to feed in this tick
    pc,             \* where each codec is in vc_encode_begin / vc_encode_more
    open,           \* the codec is open
    linked,         \* the capture device is attached to the call's stream
    enc_have_seq, enc_last_seq, enc_sent_key, enc_epoch, enc_single_nal,
    keyreq          \* the source has a keyframe request it has not answered

\* History, read by no guard: only the properties look at it.
VARIABLES
    unit,           \* number of the source's next access unit
    refused,        \* units push_frame refused for their size
    restarts,       \* calls of clear() so far
    restartAt,      \* first unit produced after the last clear()
    taken,          \* last unit a codec reported consumed
    takenKey,       \* that unit is a keyframe
    gateAt,         \* restarts when the unit being encoded passed the gate
    keyedAt,        \* restarts when the keyframe behind keyed_epoch passed it
    staleAt,        \* restarts when a keyframe from before the last clear() did
    remote,         \* last unit sent to each call's remote
    opens,          \* codec opens so far
    handled,        \* last unit each codec took
    joined          \* a keyframe has passed the codec's gate since the call's
                    \* sending was last turned on

qvars   == <<queue, next_id, need_keyframe>>
evars   == <<source_epoch, keyed_epoch>>
bvars   == <<slot, hand, todo, pc>>
cvars   == <<open, linked, enc_have_seq, enc_last_seq, enc_sent_key, enc_epoch,
             enc_single_nal>>
srcvars == <<unit, refused>>
rstvars == <<restarts, restartAt>>
hvars   == <<taken, takenKey, gateAt, keyedAt, staleAt, remote, opens, handled, joined>>
vars    == <<qvars, max_queue, evars, bvars, cvars, keyreq, srcvars, rstvars, hvars>>

-----------------------------------------------------------------------------
Ids    == 1..(IdMod - 1)
Epochs == 1..(EpochMod - 1)
Frame  == [id : Ids, unit : 1..MaxUnits, key : BOOLEAN]

\* A capture buffer with no access unit in it: header length and seq 0.
NoFrame == [id |-> 0, unit |-> 0, key |-> FALSE]

\* A variant without max(1).
NextIdThroughZero(i) == (i + 1) % IdMod

\* next_id.wrapping_add(1).max(1)
NextId(i) == IF i + 1 = IdMod THEN 1 ELSE i + 1

\* A variant that lets the epoch become 0, which no codec's own epoch is.
NextEpochThroughZero(e) == (e + 1) % EpochMod

\* if (++source_epoch == 0) source_epoch = 1
NextEpoch(e) == IF e + 1 = EpochMod THEN 1 ELSE e + 1

\* u32 wrapping_sub
WrappingSub(a, b) == IF a >= b THEN a - b ELSE a - b + IdMod

\* A variant that compares ids as plain numbers.
AtOrBeforePlain(f, id) == f <= id

\* id.wrapping_sub(f) as i32 >= 0: f is at or before id.
AtOrBefore(f, id) == 2 * WrappingSub(id, f) < IdMod

\* A variant that stops short of id itself.
PopsBefore(q, id, n) ==
    /\ \A i \in 1..n : AtOrBefore(q[i].id, id) /\ q[i].id # id
    /\ n < Len(q) => ~AtOrBefore(q[n + 1].id, id) \/ q[n + 1].id = id

\* consume_through pops from the front while the front is at or before id: it
\* pops exactly n frames.
Pops(q, id, n) ==
    /\ \A i \in 1..n : AtOrBefore(q[i].id, id)
    /\ n < Len(q) => ~AtOrBefore(q[n + 1].id, id)

\* frames.iter().rposition(keyframe) is i (counted from 1).
NewestKey(q, i) == q[i].key /\ \A j \in (i + 1)..Len(q) : ~q[j].key

\* Some(i) if i > 0: a keyframe waits behind the front.
KeyBehindFront(q) == \E i \in 2..Len(q) : q[i].key

\* A request lost on its way to the source.
RequestKeyframeLost == keyreq' = keyreq

\* request_keyframe and on_keyframe_request.
RequestKeyframe == keyreq' = TRUE

Init ==
    /\ queue = <<>> /\ next_id = FirstId /\ need_keyframe = FALSE
    /\ max_queue \in 1..MaxQueue
    /\ source_epoch = FirstEpoch /\ keyed_epoch = 0
    /\ slot = NoFrame /\ hand = NoFrame /\ todo = {}
    /\ pc = [c \in Codecs |-> "idle"]
    /\ open = [c \in Codecs |-> FALSE] /\ linked = [c \in Codecs |-> FALSE]
    /\ enc_have_seq = [c \in Codecs |-> FALSE]
    /\ enc_last_seq = [c \in Codecs |-> 0]
    /\ enc_sent_key = [c \in Codecs |-> FALSE]
    /\ enc_epoch = [c \in Codecs |-> 0]
    /\ enc_single_nal = [c \in Codecs |-> FALSE]
    /\ keyreq = FALSE
    /\ unit = 1 /\ refused = {} /\ restarts = 0 /\ restartAt = 1
    /\ taken = 0 /\ takenKey = FALSE /\ gateAt = 0 /\ keyedAt = -1 /\ staleAt = -1
    /\ remote = [c \in Codecs |-> 0] /\ opens = 0
    /\ handled = [c \in Codecs |-> 0] /\ joined = [c \in Codecs |-> FALSE]

-----------------------------------------------------------------------------
\* The application: VideoPassthrough's methods (video.rs).

\* The source produces its next access unit and calls push_frame with it.
Produce == unit <= MaxUnits /\ unit' = unit + 1

\* Empty, or larger than max_frame_size: refused before the queue is looked at.
PushRefused ==
    /\ Produce
    /\ refused' = refused \cup {unit}
    /\ UNCHANGED <<qvars, max_queue, evars, bvars, cvars, keyreq, rstvars, hvars>>

\* After a flush only a keyframe starts the queue again.
PushAwaitsKeyframe ==
    /\ Produce
    /\ need_keyframe
    /\ UNCHANGED <<qvars, max_queue, evars, bvars, cvars, keyreq, refused, rstvars, hvars>>

\* A variant that starts again on any unit after a flush.
EnqueueAnyFrame(base, key) ==
    /\ Produce
    /\ need_keyframe' = FALSE
    /\ queue' = Append(base, [id |-> next_id, unit |-> unit, key |-> key])
    /\ next_id' = NextId(next_id)
    /\ keyreq' = IF key THEN FALSE ELSE keyreq
    /\ UNCHANGED <<max_queue, evars, bvars, cvars, refused, rstvars, hvars>>

\* The tail every accepted push shares: frames becomes base with the unit behind
\* it, and next_id advances.
Enqueue(base, key) ==
    /\ Produce
    /\ need_keyframe => key
    /\ need_keyframe' = FALSE
    /\ queue' = Append(base, [id |-> next_id, unit |-> unit, key |-> key])
    /\ next_id' = NextId(next_id)
    /\ keyreq' = IF key THEN FALSE ELSE keyreq
    /\ UNCHANGED <<max_queue, evars, bvars, cvars, refused, rstvars, hvars>>

PushRoom(key) ==
    /\ Len(queue) < max_queue
    /\ Enqueue(queue, key)

\* A variant of the drain with the bound off by one: the keyframe goes too.
PushTrimTooFar ==
    /\ Len(queue) >= max_queue
    /\ \E i \in 2..Len(queue) :
          /\ NewestKey(queue, i)
          /\ Enqueue(SubSeq(queue, i + 1, Len(queue)), FALSE)

\* Overflow with a keyframe waiting behind the front: what came before the
\* newest one goes.
PushTrim ==
    /\ Len(queue) >= max_queue
    /\ \E i \in 2..Len(queue) :
          /\ NewestKey(queue, i)
          /\ Enqueue(SubSeq(queue, i, Len(queue)), FALSE)

\* Overflow by a keyframe: it starts the queue again itself.
PushOverflowKey ==
    /\ Len(queue) >= max_queue
    /\ Enqueue(<<>>, TRUE)

\* A variant that drops the arriving unit and keeps the queue.
PushDropNewest ==
    /\ Produce
    /\ ~need_keyframe
    /\ Len(queue) >= max_queue
    /\ ~KeyBehindFront(queue)
    /\ RequestKeyframe
    /\ UNCHANGED <<qvars, max_queue, evars, bvars, cvars, refused, rstvars, hvars>>

\* Overflow with no keyframe to keep: flush, and request one.
PushFlush ==
    /\ Produce
    /\ ~need_keyframe
    /\ Len(queue) >= max_queue
    /\ ~KeyBehindFront(queue)
    /\ queue' = <<>>
    /\ need_keyframe' = TRUE
    /\ RequestKeyframe
    /\ UNCHANGED <<next_id, max_queue, evars, bvars, cvars, refused, rstvars, hvars>>

PushFrame ==
    \/ PushRefused
    \/ PushAwaitsKeyframe
    \/ \E key \in BOOLEAN : PushRoom(key)
    \/ PushTrim
    \/ PushOverflowKey
    \/ PushFlush

\* clear(): the queue lock is held until pjrs_vpt_source_restarted returns.
Clear ==
    /\ restarts < MaxRestarts
    /\ queue' = <<>>
    /\ need_keyframe' = FALSE
    /\ source_epoch' = NextEpoch(source_epoch)
    /\ restarts' = restarts + 1
    /\ restartAt' = unit
    /\ UNCHANGED <<next_id, max_queue, keyed_epoch, bvars, cvars, keyreq, srcvars, hvars>>

\* reconfigure(), for what the queue sees of it.
Reconfigure(n) ==
    /\ max_queue' = n
    /\ UNCHANGED <<qvars, evars, bvars, cvars, keyreq, srcvars, rstvars, hvars>>

\* set_transmit(): attach or detach the capture device.  PJSUA also detaches it
\* on local hold.
SetTransmit(c, on) ==
    /\ open[c]
    /\ pc[c] = "idle"
    /\ linked' = [linked EXCEPT ![c] = on]
    /\ todo' = IF on THEN todo ELSE todo \ {c}
    /\ joined' = [joined EXCEPT ![c] = @ /\ on]
    /\ UNCHANGED <<qvars, max_queue, evars, slot, hand, pc, open, enc_have_seq, enc_last_seq,
                   enc_sent_key, enc_epoch, enc_single_nal, keyreq, srcvars, rstvars, taken,
                   takenKey, gateAt, keyedAt, staleAt, remote, opens, handled>>

-----------------------------------------------------------------------------
\* The poll clock: vd_get_frame and capture_peek.

\* Copy the oldest queued unit, without removing it.
Poll ==
    /\ slot' = IF queue = <<>> THEN NoFrame ELSE Head(queue)
    /\ UNCHANGED <<qvars, max_queue, evars, hand, todo, pc, cvars, keyreq, srcvars, rstvars,
                   hvars>>

-----------------------------------------------------------------------------
\* Call control: vc_open and vc_close.

\* A zeroed instance: vc_alloc_codec's, and what vc_open sets.
ResetEncoder(c, single) ==
    /\ enc_have_seq' = [enc_have_seq EXCEPT ![c] = FALSE]
    /\ enc_last_seq' = [enc_last_seq EXCEPT ![c] = 0]
    /\ enc_sent_key' = [enc_sent_key EXCEPT ![c] = FALSE]
    /\ enc_epoch' = [enc_epoch EXCEPT ![c] = 0]
    /\ enc_single_nal' = [enc_single_nal EXCEPT ![c] = single]

\* A sending stream opens; single is the remote's packetization-mode.
Open(c, single) ==
    /\ ~open[c]
    /\ opens < MaxOpens
    /\ opens' = opens + 1
    /\ open' = [open EXCEPT ![c] = TRUE]
    /\ linked' = [linked EXCEPT ![c] = TRUE]
    /\ ResetEncoder(c, single)
    /\ RequestKeyframe
    /\ UNCHANGED <<qvars, max_queue, evars, bvars, srcvars, rstvars, taken, takenKey, gateAt,
                   keyedAt, staleAt, remote, handled, joined>>

\* The bridge has let go of the stream's port before the codec closes, and the
\* instance goes with the stream: a re-INVITE that reopens it allocates another.
Close(c) ==
    /\ open[c]
    /\ pc[c] = "idle"
    /\ open' = [open EXCEPT ![c] = FALSE]
    /\ linked' = [linked EXCEPT ![c] = FALSE]
    /\ todo' = todo \ {c}
    /\ ResetEncoder(c, FALSE)
    /\ joined' = [joined EXCEPT ![c] = FALSE]
    /\ UNCHANGED <<qvars, max_queue, evars, slot, hand, pc, keyreq, srcvars, rstvars, taken,
                   takenKey, gateAt, keyedAt, staleAt, remote, opens, handled>>

-----------------------------------------------------------------------------
\* The bridge clock: one copy of the capture buffer to every encoding codec,
\* one codec at a time.

BridgeTick ==
    /\ todo = {}
    /\ \E c \in Codecs : linked[c]
    /\ todo' = {c \in Codecs : linked[c]}
    /\ hand' = slot
    /\ UNCHANGED <<qvars, max_queue, evars, slot, pc, cvars, keyreq, srcvars, rstvars, hvars>>

BridgeFree == \A c \in Codecs : pc[c] = "idle"

\* The encode call returns; the bridge goes on to the next codec.
Return(c) ==
    /\ pc' = [pc EXCEPT ![c] = "idle"]
    /\ todo' = todo \ {c}

\* enc_have_seq && seq == enc_last_seq
AlreadyHandled(c) == enc_have_seq[c] /\ enc_last_seq[c] = hand.id

\* vc_encode_begin with nothing new in the buffer.  The remote's PLI/FIR arrives
\* as force, and goes to the source either way.
EncodeSkip(c, force) ==
    /\ c \in todo /\ BridgeFree
    /\ hand = NoFrame \/ AlreadyHandled(c)
    /\ Return(c)
    /\ keyreq' = IF force THEN TRUE ELSE keyreq
    /\ UNCHANGED <<qvars, max_queue, evars, slot, hand, cvars, srcvars, rstvars, hvars>>

\* A unit this codec has not handled: remember its id and report it consumed.
EncodeTake(c, force) ==
    /\ c \in todo /\ BridgeFree
    /\ hand # NoFrame /\ ~AlreadyHandled(c)
    /\ enc_last_seq' = [enc_last_seq EXCEPT ![c] = hand.id]
    /\ enc_have_seq' = [enc_have_seq EXCEPT ![c] = TRUE]
    /\ \E n \in 0..Len(queue) :
          /\ Pops(queue, hand.id, n)
          /\ queue' = SubSeq(queue, n + 1, Len(queue))
    /\ pc' = [pc EXCEPT ![c] = "gate"]
    /\ keyreq' = IF force THEN TRUE ELSE keyreq
    /\ taken' = hand.unit /\ takenKey' = hand.key
    /\ handled' = [handled EXCEPT ![c] = hand.unit]
    /\ UNCHANGED <<next_id, need_keyframe, max_queue, evars, slot, hand, todo, open, linked,
                   enc_sent_key, enc_epoch, enc_single_nal, srcvars, rstvars, gateAt, keyedAt,
                   staleAt, remote, opens, joined>>

\* A variant with one flag for all calls.
HasKeyShared(c) == keyed_epoch = source_epoch

\* Read the epochs under vpt.lock: has the remote a keyframe of this stream?
HasKey(c) ==
    IF enc_epoch[c] # source_epoch THEN keyed_epoch = source_epoch ELSE enc_sent_key[c]

\* Nothing is sent until it has, unless this is one.
EncodeGate(c) ==
    LET pass == HasKey(c) \/ hand.key IN
    /\ pc[c] = "gate"
    /\ enc_epoch' = [enc_epoch EXCEPT ![c] = source_epoch]
    /\ enc_sent_key' = [enc_sent_key EXCEPT ![c] = pass]
    /\ IF pass THEN pc' = [pc EXCEPT ![c] = "finish"] /\ todo' = todo ELSE Return(c)
    /\ gateAt' = restarts
    /\ staleAt' = IF hand.key /\ hand.unit < restartAt THEN restarts ELSE staleAt
    /\ joined' = [joined EXCEPT ![c] = @ \/ hand.key]
    /\ UNCHANGED <<qvars, max_queue, evars, slot, hand, open, linked, enc_have_seq,
                   enc_last_seq, enc_single_nal, keyreq, srcvars, rstvars, taken, takenKey,
                   keyedAt, remote, opens, handled>>

\* A variant that forgets set_keyed(0).
DropKeepsKeyed(c) ==
    /\ enc_sent_key' = [enc_sent_key EXCEPT ![c] = FALSE]
    /\ RequestKeyframe
    /\ Return(c)
    /\ UNCHANGED <<keyed_epoch, keyedAt>>

\* drop_oversized: what follows references what was dropped.
DropOversized(c) ==
    /\ enc_sent_key' = [enc_sent_key EXCEPT ![c] = FALSE]
    /\ keyed_epoch' = 0
    /\ keyedAt' = -1
    /\ RequestKeyframe
    /\ Return(c)

\* largest_nal() finds a NAL unit over the MTU: nothing of the unit goes out.
\* Which units that is depends on the unit and on the remote's MTU.
EncodeWide(c) ==
    /\ pc[c] = "finish"
    /\ enc_single_nal[c]
    /\ DropOversized(c)
    /\ UNCHANGED remote

\* A keyframe about to go out marks the epoch read at the gate as keyed.
EncodeFinish(c) ==
    /\ pc[c] = "finish"
    /\ keyed_epoch' = IF hand.key THEN enc_epoch[c] ELSE keyed_epoch
    /\ keyedAt' = IF hand.key THEN gateAt ELSE keyedAt
    /\ pc' = [pc EXCEPT ![c] = "more"]
    /\ UNCHANGED <<enc_sent_key, keyreq, todo, remote>>

\* vc_encode_more: the packets go out.
EncodeMore(c) ==
    /\ pc[c] = "more"
    /\ remote' = [remote EXCEPT ![c] = hand.unit]
    /\ Return(c)
    /\ UNCHANGED <<enc_sent_key, keyed_epoch, keyedAt, keyreq>>

\* The packetizer refuses what largest_nal() let through.
EncodeRefused(c) ==
    /\ pc[c] = "more"
    /\ enc_single_nal[c]
    /\ DropOversized(c)
    /\ UNCHANGED remote

\* The part of vc_encode_begin after the gate, and vc_encode_more.
EncodeOutput(c) ==
    /\ EncodeWide(c) \/ EncodeFinish(c) \/ EncodeMore(c) \/ EncodeRefused(c)
    /\ UNCHANGED <<qvars, max_queue, source_epoch, slot, hand, open, linked, enc_have_seq,
                   enc_last_seq, enc_epoch, enc_single_nal, srcvars, rstvars, taken, takenKey,
                   gateAt, staleAt, opens, handled, joined>>

Encode(c) ==
    \/ \E force \in BOOLEAN : EncodeSkip(c, force)
    \/ \E force \in BOOLEAN : EncodeTake(c, force)
    \/ EncodeGate(c)
    \/ EncodeOutput(c)

Next ==
    \/ PushFrame
    \/ Clear
    \/ \E n \in 1..MaxQueue : Reconfigure(n)
    \/ Poll
    \/ BridgeTick
    \/ \E c \in Codecs :
          \/ \E on \in BOOLEAN : SetTransmit(c, on)
          \/ \E single \in BOOLEAN : Open(c, single)
          \/ Close(c)
          \/ Encode(c)

Spec == Init /\ [][Next]_vars

\* The application answers on_keyframe_request by forcing an IDR (video.rs:17).
AnswerRequest == keyreq /\ (PushRoom(TRUE) \/ PushOverflowKey)

\* Both clocks keep ticking and an encode call returns.
Fairness ==
    /\ WF_vars(Poll) /\ WF_vars(BridgeTick)
    /\ \A c \in Codecs : WF_vars(Encode(c))
    /\ WF_vars(AnswerRequest)

FairSpec == Spec /\ Fairness

-----------------------------------------------------------------------------
\* Properties.

QueueType ==
    /\ queue \in Seq(Frame) /\ Len(queue) <= MaxQueue
    /\ next_id \in Ids
    /\ need_keyframe \in BOOLEAN
    /\ max_queue \in 1..MaxQueue

BridgeType ==
    /\ source_epoch \in Epochs /\ keyed_epoch \in Epochs \cup {0}
    /\ slot \in Frame \cup {NoFrame} /\ hand \in Frame \cup {NoFrame}
    /\ todo \in SUBSET Codecs
    /\ pc \in [Codecs -> {"idle", "gate", "finish", "more"}]
    /\ keyreq \in BOOLEAN

CodecType ==
    /\ open \in [Codecs -> BOOLEAN] /\ linked \in [Codecs -> BOOLEAN]
    /\ enc_have_seq \in [Codecs -> BOOLEAN]
    /\ enc_last_seq \in [Codecs -> Ids \cup {0}]
    /\ enc_sent_key \in [Codecs -> BOOLEAN]
    /\ enc_epoch \in [Codecs -> Epochs \cup {0}]
    /\ enc_single_nal \in [Codecs -> BOOLEAN]

HistoryType ==
    /\ unit \in 1..(MaxUnits + 1) /\ refused \in SUBSET (1..MaxUnits)
    /\ restarts \in 0..MaxRestarts /\ restartAt \in 1..(MaxUnits + 1)
    /\ taken \in 0..MaxUnits /\ takenKey \in BOOLEAN
    /\ gateAt \in 0..MaxRestarts
    /\ keyedAt \in -1..MaxRestarts /\ staleAt \in -1..MaxRestarts
    /\ remote \in [Codecs -> 0..MaxUnits]
    /\ opens \in 0..MaxOpens
    /\ handled \in [Codecs -> 0..MaxUnits] /\ joined \in [Codecs -> BOOLEAN]

\* Every variable has its type; the queue never outgrows the largest max_queue
\* configured, and no queued unit ever gets the id 0 that C reads as "none".
TypeOK == QueueType /\ BridgeType /\ CodecType /\ HistoryType

\* y is the next unit after x that could reach the queue at all.
Follows(x, y) == x < y /\ \A v \in (x + 1)..(y - 1) : v \in refused

\* No unit in the queue references one the queue dropped: behind the front,
\* a unit that is not a keyframe directly follows the one before it, whatever
\* overflows, trims and flushes happened (video.rs:376: "Dropping one frame
\* would break every frame after it until the next keyframe").
QueueChain ==
    \A i \in 1..(Len(queue) - 1) :
        queue[i + 1].key \/ Follows(queue[i].unit, queue[i + 1].unit)

\* Where the bridge picks up, after stale buffers, overflows behind its back and
\* codecs coming and going: the unit at the front is a keyframe or directly
\* follows the last one an encoder took, unless clear() came in between.
FrontChain ==
    queue # <<>> =>
        \/ queue[1].key
        \/ Follows(taken, queue[1].unit)
        \/ taken < restartAt

\* What an encoder took leaves the queue, on either side of the point where ids
\* wrap: every queued unit is newer than the last one taken.  With FrontChain,
\* consume_through drops exactly what was encoded.
ConsumedLeaves == \A i \in 1..Len(queue) : queue[i].unit > taken

\* keyed_epoch = source_epoch only when the keyframe behind it was let through
\* after the last clear(): a keyframe in the encoder while the source restarts
\* does not let the new source's units out.
KeyedSound == keyed_epoch = source_epoch => keyedAt = restarts

\* For one call, over holds, overflows, drops, restarts and re-INVITEs that
\* reopen the codec: what goes out that is no keyframe directly follows what
\* the remote already has, or repeats it.  The one exception is the first unit
\* of a restarted source, behind a keyframe of the old one let through after the
\* clear() (see NothingUntilKeyframe).
RemoteChain ==
    \A c \in Codecs :
        pc[c] = "more" /\ ~hand.key =>
            \/ remote[c] = hand.unit
            \/ Follows(remote[c], hand.unit)
            \/ staleAt = gateAt /\ remote[c] < restartAt

\* The same for any number of calls, each with packets, drops and codec of its
\* own, fed one after the other from one buffer and passing one keyed_epoch: what
\* goes to a call that has had a keyframe through its gate, and whose sending was
\* not turned off since, never lacks the unit before (with the same exception).
CallChain ==
    \A c \in Codecs :
        pc[c] = "more" /\ ~hand.key /\ joined[c] =>
            \/ remote[c] = hand.unit
            \/ Follows(remote[c], hand.unit)
            \/ staleAt = gateAt /\ remote[c] < restartAt

\* video.rs:429, "nothing more is sent until the source's next keyframe": a unit
\* of the restarted source that is no keyframe goes only to a remote that has a
\* unit of that source (the first of which was then a keyframe).
NothingUntilKeyframe ==
    \A c \in Codecs :
        pc[c] = "more" /\ ~hand.key /\ hand.unit >= restartAt /\ gateAt = restarts
            => remote[c] >= restartAt

\* video_passthrough.c:569, "Send nothing until the remote has a keyframe of this
\* source stream": the first unit any call's remote is sent is a keyframe.
RemoteStartsWithKeyframe ==
    \A c \in Codecs : pc[c] = "more" /\ remote[c] = 0 => hand.key

Queued(u) == \E i \in 1..Len(queue) : queue[i].unit = u

\* A queued unit does not wait forever while a call is attached to the capture
\* device: it is taken, or an overflow or clear() drops it (video.rs:364-409).
Drains ==
    \A u \in 1..MaxUnits : []<>(~Queued(u) \/ \A c \in Codecs : ~linked[c])

\* A codec that stays open lets something out, on a source that answers requests
\* (video.rs:231-232), unless it is detached, the source's bound is reached or the
\* source was restarted: clear() may drop the very keyframe that answered, and
\* requests no other (video.rs:429-439).  Not in single-NAL mode, where every
\* keyframe may be too large.
StartsAfterOpen ==
    \A c \in Codecs :
        []<>(~open[c] \/ enc_sent_key[c] \/ enc_single_nal[c] \/ ~linked[c]
                \/ unit > MaxUnits \/ restarts > 0)

=============================================================================
