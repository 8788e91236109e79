------------------------------ MODULE UnitStream ------------------------------
(***************************************************************************)
(* What video.rs promises of one source of H.264 access units: units go to *)
(* the calls in the order they were produced, some are left out, but no    *)
(* call that joined on a keyframe is given a unit whose predecessor it     *)
(* lacks.  The queue, the buffers, the u32 ids, the epochs and the gate of *)
(* video_passthrough.c do not appear.                                      *)
(***************************************************************************)
EXTENDS Integers

CONSTANTS
    Calls,
    MaxUnits      \* units the source produces

VARIABLES
    unit,         \* number of the next unit
    refused,      \* units too large to be passed on, and so referenced by none
    restartAt,    \* first unit after the source last restarted
    taken, key,   \* the unit on its way to the calls; it is a keyframe
    sent,         \* last unit each call got
    joined        \* calls that had a keyframe since they last began to send

vars == <<unit, refused, restartAt, taken, key, sent, joined>>

\* Nothing that reached the calls, or could have, lies between x and y.
Follows(x, y) == x < y /\ \A v \in (x + 1)..(y - 1) : v \in refused

\* Whoever has x can go on with y; a restarted source owes it a keyframe first.
Continues(x, y, isKey) == isKey \/ Follows(x, y) \/ x < restartAt

Init ==
    /\ unit = 1 /\ refused = {} /\ restartAt = 1
    /\ taken = 0 /\ key = FALSE
    /\ sent = [c \in Calls |-> 0] /\ joined = [c \in Calls |-> FALSE]

Produce ==
    /\ unit <= MaxUnits /\ unit' = unit + 1
    /\ refused' \in {refused, refused \cup {unit}}
    /\ UNCHANGED <<restartAt, taken, key, sent, joined>>

Restart ==
    /\ restartAt' = unit
    /\ UNCHANGED <<unit, refused, taken, key, sent, joined>>

\* Any later unit may be next, if what lies between was dropped up to a keyframe.
Take(u, isKey) ==
    /\ taken' = u /\ key' = isKey
    /\ u \notin refused /\ Continues(taken, u, isKey)
    /\ UNCHANGED <<unit, refused, restartAt, sent, joined>>

Join(c) ==
    /\ key /\ ~joined[c]
    /\ joined' = [joined EXCEPT ![c] = TRUE]
    /\ UNCHANGED <<unit, refused, restartAt, taken, key, sent>>

Leave(c) ==
    /\ joined[c]
    /\ joined' = [joined EXCEPT ![c] = FALSE]
    /\ UNCHANGED <<unit, refused, restartAt, taken, key, sent>>

\* Before it joined, a call may get a unit it cannot decode.
Send(c) ==
    /\ sent[c] < taken
    /\ joined[c] => Continues(sent[c], taken, key)
    /\ sent' = [sent EXCEPT ![c] = taken]
    /\ UNCHANGED <<unit, refused, restartAt, taken, key, joined>>

Next ==
    \/ Produce \/ Restart
    \/ \E u \in (taken + 1)..(unit - 1), isKey \in BOOLEAN : Take(u, isKey)
    \/ \E c \in Calls : Join(c) \/ Leave(c) \/ Send(c)

Spec == Init /\ [][Next]_vars
=============================================================================
