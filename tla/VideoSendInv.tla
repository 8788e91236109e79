---------------------------- MODULE VideoSendInv ----------------------------
(***************************************************************************)
(* The inductive invariants behind VideoSend's safety properties: what the *)
(* queue, the capture buffer, the bridge's copy and the last unit taken    *)
(* have to do with each other at every step.  TLC checks them on the small *)
(* instances; VideoSendProofs proves them.                                 *)
(***************************************************************************)
EXTENDS VideoSend

\* The units copied out of the queue and not yet replaced.
Buffers == {slot, hand} \ {NoFrame}

Buffered == {queue[i] : i \in 1..Len(queue)} \cup Buffers

\* Where a decoder may stand when the next unit arrives.
Points == {taken} \cup {f.unit : f \in Buffers}

\* A decoder at x can go on with f, or the source restarted after x.
Link(x, f) == f.key \/ f.unit = x \/ Follows(x, f.unit) \/ x < restartAt

\* Units only move forward: taken, hand, slot, the queue from front to back,
\* and the source's next unit, in this order.
OrderInv ==
    /\ restartAt <= unit /\ taken < unit
    /\ \A i \in 1..Len(queue) : taken < queue[i].unit /\ queue[i].unit < unit
    /\ \A i, j \in 1..Len(queue) : i < j => queue[i].unit < queue[j].unit
    /\ \A f \in Buffers :
          /\ taken <= f.unit /\ f.unit < unit
          /\ \A i \in 1..Len(queue) : f.unit <= queue[i].unit
    /\ hand # NoFrame /\ slot # NoFrame => hand.unit <= slot.unit

\* Between two buffered units the ids advance, on the circle, by at least one
\* and at most two per unit (NextId skips 0), so AtOrBefore orders them.
IdInv ==
    /\ \A f, g \in Buffered :
          /\ f.unit = g.unit => f = g
          /\ f.unit < g.unit => WrappingSub(g.id, f.id) \in 1..(2 * (g.unit - f.unit))
    /\ \A f \in Buffered : WrappingSub(next_id, f.id) \in 1..(2 * (unit - f.unit))

\* Wherever a decoder stands, the next unit it is given can be decoded.
ChainInv ==
    /\ QueueChain
    /\ need_keyframe => queue = <<>>
    /\ \A f \in Buffers : Link(taken, f)
    /\ hand # NoFrame /\ slot # NoFrame => Link(hand.unit, slot)
    /\ queue # <<>> => \A x \in Points : Link(x, queue[1])
    /\ queue = <<>> /\ ~need_keyframe =>
          \A x \in Points : x < restartAt \/ Follows(x, unit)
    /\ queue # <<>> => Follows(queue[Len(queue)].unit, unit)

\* What push_frame, clear(), consume_through and the two clocks preserve together,
\* at any step of any of them: the order of the buffered units, the order of their
\* u32 ids, and that no reference is missing from one place to the next.
SendInv == OrderInv /\ IdInv /\ ChainInv

-----------------------------------------------------------------------------
\* source_epoch after r calls of clear(): it skips 0, and wraps at most once.
EpochAfter(r) ==
    IF FirstEpoch + r < EpochMod THEN FirstEpoch + r ELSE FirstEpoch + r - EpochMod + 1

\* The bridge feeds only open codecs, one at a time.
FeedInv ==
    \A c \in Codecs :
          /\ linked[c] \/ c \in todo \/ pc[c] # "idle" => open[c]
          /\ pc[c] # "idle" => c \in todo /\ \A d \in Codecs \ {c} : pc[d] = "idle"

\* Each epoch the C code compares is that of a known restart: the history
\* variables keyedAt and gateAt say which.
EpochInv ==
    /\ source_epoch = EpochAfter(restarts)
    /\ keyed_epoch = IF keyedAt = -1 THEN 0 ELSE EpochAfter(keyedAt)
    /\ keyedAt <= restarts /\ gateAt <= restarts
    /\ \A c \in Codecs :
          pc[c] \in {"finish", "more"} => enc_epoch[c] = EpochAfter(gateAt)

\* What the bridge and clear() preserve together: an epoch in vpt or in a codec is
\* never mistaken for another restart's, across the wrap that skips 0.
KeyInv == FeedInv /\ EpochInv

-----------------------------------------------------------------------------
\* With one codec.

\* The next unit through the gate needs not be a keyframe.
Ready(c) == keyed_epoch = source_epoch \/ (enc_epoch[c] = source_epoch /\ enc_sent_key[c])

\* The remote can go on with the unit in hand.
Decodable(c) == hand.key \/ remote[c] = hand.unit \/ Follows(remote[c], hand.unit)

\* What the gate has read, and what it knows of the codec's own instance.
GateInv(c) ==
    /\ enc_epoch[c] = 0 \/ \E r \in 0..restarts : enc_epoch[c] = EpochAfter(r)
    /\ enc_epoch[c] = source_epoch /\ ~enc_sent_key[c] => keyed_epoch # source_epoch
    /\ pc[c] # "idle" => hand # NoFrame /\ taken = hand.unit
    /\ pc[c] \in {"finish", "more"} => enc_sent_key[c]

\* The remote has what the encoder took last, unless a keyframe from before the
\* last clear() went through the gate after it and nothing newer has gone out.
SoleInv(c) ==
    /\ remote[c] <= taken
    /\ pc[c] = "idle" /\ Ready(c) =>
          \/ staleAt = restarts /\ remote[c] < restartAt
          \/ remote[c] = taken /\ restartAt <= taken
    /\ pc[c] = "gate" /\ Ready(c) =>
          \/ staleAt = restarts /\ remote[c] < restartAt
          \/ Decodable(c) /\ restartAt <= taken
    /\ pc[c] \in {"finish", "more"} => (staleAt = gateAt /\ remote[c] < restartAt) \/ Decodable(c)
    /\ pc[c] \in {"finish", "more"} /\ Ready(c) => staleAt = restarts \/ restartAt <= taken

\* What vc_encode_begin, drop_oversized and vc_open preserve together for a single
\* call: whenever the gate would let a non-keyframe through, the remote can
\* decode it.
RemoteInv == \A c \in Codecs : GateInv(c) /\ SoleInv(c)

-----------------------------------------------------------------------------
\* With any number of codecs.

\* enc_last_seq is the id of the unit handled, and the ids buffered or to come
\* lie ahead of it, so that a repeated seq is a repeated unit.
HandledInv(c) ==
    enc_have_seq[c] =>
        /\ enc_last_seq[c] # 0
        /\ \A f \in Buffered :
              /\ f.unit = handled[c] => f.id = enc_last_seq[c]
              /\ f.unit > handled[c] =>
                    WrappingSub(f.id, enc_last_seq[c]) \in 1..(2 * (f.unit - handled[c]))
        /\ WrappingSub(next_id, enc_last_seq[c]) \in 1..(2 * (unit - handled[c]))

\* The unit in hand has yet to be offered to c.
Pending(c) == c \in todo /\ hand # NoFrame /\ handled[c] # hand.unit

\* The bridge leaves no call out: until c is fed, its last unit is the last one
\* any codec took before this tick; after that it is the unit in hand.
FedInv(c) ==
    /\ c \in todo => linked[c]
    /\ joined[c] => linked[c] /\ enc_have_seq[c]
    /\ handled[c] <= taken /\ remote[c] <= taken
    /\ pc[c] # "idle" =>
          enc_have_seq[c] /\ hand # NoFrame /\ taken = hand.unit /\ handled[c] = hand.unit
    /\ joined[c] /\ ~Pending(c) => handled[c] = taken
    /\ joined[c] /\ c \notin todo /\ hand # NoFrame => taken = hand.unit

\* Every keyframe on its way to keyed_epoch, and every epoch a codec holds, is
\* that of a known restart.
PassInv(c) ==
    /\ enc_epoch[c] = 0 \/ \E r \in 0..restarts : enc_epoch[c] = EpochAfter(r)
    /\ pc[c] \in {"finish", "more"} => enc_sent_key[c]
    /\ pc[c] = "finish" /\ hand.key /\ enc_epoch[c] = source_epoch =>
          staleAt = restarts \/ restartAt <= hand.unit
    /\ joined[c] /\ pc[c] # "gate" /\ enc_epoch[c] # source_epoch => handled[c] < restartAt

\* The remote has what its call's codec took last and can go on with the unit in
\* hand, unless a keyframe from before the last clear() went through a gate
\* after it and nothing newer has gone out.
JoinedInv(c) ==
    /\ pc[c] = "idle" /\ HasKey(c) =>
          \/ staleAt = restarts /\ remote[c] < restartAt
          \/ restartAt <= taken /\ IF Pending(c) THEN Decodable(c) ELSE remote[c] = taken
    /\ pc[c] = "gate" /\ HasKey(c) =>
          \/ staleAt = restarts /\ remote[c] < restartAt
          \/ Decodable(c) /\ restartAt <= taken
    /\ pc[c] \in {"finish", "more"} => (staleAt = gateAt /\ remote[c] < restartAt) \/ Decodable(c)
    /\ pc[c] \in {"finish", "more"} /\ HasKey(c) => staleAt = restarts \/ restartAt <= taken

\* What the bridge, the gate and drop_oversized preserve together for all calls:
\* keyed_epoch never lets a unit out to a joined call whose remote lacks the one
\* before it, whichever call set it.
EachCallInv ==
    \A c \in Codecs : HandledInv(c) /\ FedInv(c) /\ PassInv(c) /\ (joined[c] => JoinedInv(c))

-----------------------------------------------------------------------------
\* What the passthrough promises of the units, with the queue, the buffers, the
\* ids and the epochs hidden.
Stream == INSTANCE UnitStream
    WITH Calls <- Codecs, key <- takenKey, sent <- remote

\* Between the source and the calls units are only copied and dropped: each is
\* taken once, in order, and a joined call gets none without the one before it.
StreamSpec == Stream!Spec

\* No refused unit is in a buffer, and takenKey is the key of the unit taken
\* wherever a copy of it is left.
StreamInv ==
    /\ \A v \in refused : v < unit
    /\ \A f \in Buffered : f.unit \notin refused
    /\ \A f \in Buffers : f.unit = taken => f.key = takenKey
=============================================================================
