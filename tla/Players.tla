-------------------------------- MODULE Players --------------------------------
(***************************************************************************)
(* WAV players and their end-of-file callback (pjsua_app.rs).  Registering *)
(* a callback boxes a sender and hands PJMEDIA the raw pointer; the        *)
(* trampoline takes the box back, sends the PlayerId and frees it.         *)
(* PJMEDIA posts an event when a player reaches its end, and runs the      *)
(* trampoline on its event thread, later, with the pointer the player has  *)
(* by then.                                                                *)
(*                                                                         *)
(* A PlayerId is PJSUA's slot.  A box is the number of its registration.   *)
(***************************************************************************)
EXTENDS Naturals, Sequences, FiniteSets

CONSTANTS
    PlayerIds,     \* PJSUA's player slots
    LoopCallbacks, \* callbacks are registered on looping players too
    MaxCreates,    \* bound: players created
    MaxBoxes,      \* bound: registrations
    MaxPosted      \* bound: events posted and not yet delivered

ASSUME LoopAssumption == LoopCallbacks \in BOOLEAN

VARIABLES
    no_loop,  \* of each slot's player
    eof,      \* "free" slot; "no", "yes", or "posted" for good (no_loop)
    cb,       \* the box PJMEDIA has for it; 0: no callback registered
    posted,   \* end-of-file events on their way, per player
    running,  \* the box the trampoline was called with; 0 when it is not running
    boxes,    \* what became of each registration's box
    creates   \* players created so far

\* History: boxes registered on a player whose only event is behind it, and boxes
\* whose registration was replaced or whose player was destroyed.
VARIABLES late, dropped

playervars == <<no_loop, eof, cb, creates>>
boxvars    == <<boxes, late, dropped>>
pvars == <<playervars, posted, running, boxvars>>

PlayersInit ==
    /\ no_loop = [p \in PlayerIds |-> FALSE]
    /\ eof = [p \in PlayerIds |-> "free"] /\ cb = [p \in PlayerIds |-> 0]
    /\ posted = [p \in PlayerIds |-> 0] /\ running = 0
    /\ boxes = <<>> /\ late = {} /\ dropped = {}
    /\ creates = 0

-----------------------------------------------------------------------------
\* The application.

\* create_player.
CreatePlayer(p, once) ==
    /\ creates < MaxCreates /\ eof[p] = "free"
    /\ no_loop' = [no_loop EXCEPT ![p] = once]
    /\ eof' = [eof EXCEPT ![p] = "no"]
    /\ creates' = creates + 1
    /\ UNCHANGED <<cb, posted, running, boxvars>>

\* A variant that frees the box it finds.
DestroyPlayerFrees(p) ==
    /\ eof[p] # "free"
    /\ eof' = [eof EXCEPT ![p] = "free"]
    /\ cb' = [cb EXCEPT ![p] = 0]
    /\ no_loop' = [no_loop EXCEPT ![p] = FALSE]
    /\ posted' = [posted EXCEPT ![p] = 0]
    /\ boxes' = [b \in 1..Len(boxes) |-> IF b = cb[p] THEN "freed" ELSE boxes[b]]
    /\ dropped' = dropped \cup ({cb[p]} \ {0})
    /\ UNCHANGED <<creates, running, late>>

\* destroy_player: PJMEDIA drops the player's events, and nobody the box.
DestroyPlayer(p) ==
    /\ eof[p] # "free"
    /\ eof' = [eof EXCEPT ![p] = "free"]
    /\ cb' = [cb EXCEPT ![p] = 0]
    /\ no_loop' = [no_loop EXCEPT ![p] = FALSE]
    /\ posted' = [posted EXCEPT ![p] = 0]
    /\ dropped' = dropped \cup ({cb[p]} \ {0})
    /\ UNCHANGED <<creates, running, boxes, late>>

\* pjsua_destroy destroys the players that are left.
DestroyPlayers ==
    /\ eof' = [p \in PlayerIds |-> "free"]
    /\ cb' = [p \in PlayerIds |-> 0]
    /\ no_loop' = [p \in PlayerIds |-> FALSE]
    /\ posted' = [p \in PlayerIds |-> 0]
    /\ dropped' = dropped \cup ({cb[p] : p \in PlayerIds} \ {0})
    /\ UNCHANGED <<creates, running, boxes, late>>

\* A variant that keeps the first callback.
RegisterFirst(p) ==
    /\ Len(boxes) < MaxBoxes
    /\ eof[p] # "free" /\ (no_loop[p] \/ LoopCallbacks)
    /\ boxes' = Append(boxes, "held")
    /\ cb' = [cb EXCEPT ![p] = IF @ = 0 THEN Len(boxes) + 1 ELSE @]
    /\ UNCHANGED <<no_loop, eof, creates, posted, running, late, dropped>>

\* register_player_eof_callback: player_get_port fails on a free slot; the box
\* replaces the one the player has, which nobody frees.
Register(p) ==
    /\ Len(boxes) < MaxBoxes
    /\ eof[p] # "free" /\ (no_loop[p] \/ LoopCallbacks)
    /\ boxes' = Append(boxes, "held")
    /\ cb' = [cb EXCEPT ![p] = Len(boxes) + 1]
    /\ dropped' = dropped \cup ({cb[p]} \ {0})
    /\ late' = IF eof[p] = "posted" /\ posted[p] = 0
                 THEN late \cup {Len(boxes) + 1} ELSE late
    /\ UNCHANGED <<no_loop, eof, creates, posted, running>>

-----------------------------------------------------------------------------
\* PJMEDIA.

\* The bridge's clock reads the player to its end.
ReachEof(p) ==
    /\ eof[p] = "no"
    /\ eof' = [eof EXCEPT ![p] = "yes"]
    /\ UNCHANGED <<no_loop, cb, creates, posted, running, boxvars>>

\* At its end, a player with a callback posts an event: a no_loop player once, a
\* looping one starts over.  One without a callback posts nothing.
PostEof(p) ==
    /\ eof[p] = "yes" /\ (cb[p] # 0 \/ ~no_loop[p])
    /\ IF cb[p] = 0 THEN UNCHANGED posted
       ELSE posted[p] < MaxPosted /\ posted' = [posted EXCEPT ![p] = @ + 1]
    /\ eof' = [eof EXCEPT ![p] = IF no_loop[p] THEN "posted" ELSE "no"]
    /\ UNCHANGED <<no_loop, cb, creates, running, boxvars>>

\* The event thread calls player_eof_trampoline with the player's pointer.
Deliver(p) ==
    /\ running = 0 /\ posted[p] > 0
    /\ running' = cb[p]
    /\ posted' = [posted EXCEPT ![p] = @ - 1]
    /\ UNCHANGED <<playervars, boxvars>>

\* player_eof_trampoline: the PlayerId is sent, the box freed.
Trampoline ==
    /\ running # 0
    /\ boxes' = [boxes EXCEPT ![running] = "freed"]
    /\ running' = 0
    /\ UNCHANGED <<playervars, posted, late, dropped>>

PlayerCalls ==
    \E p \in PlayerIds :
        \/ \E once \in BOOLEAN : CreatePlayer(p, once)
        \/ DestroyPlayer(p) \/ Register(p)

PlayerEvents ==
    \/ \E p \in PlayerIds : ReachEof(p) \/ PostEof(p) \/ Deliver(p)
    \/ Trampoline

PlayersNext == PlayerCalls \/ DestroyPlayers \/ PlayerEvents

PlayersSpec == PlayersInit /\ [][PlayersNext]_pvars

\* The bridge reads a player that is connected, and PJMEDIA's event thread runs.
PlayersFairness ==
    /\ \A p \in PlayerIds : WF_pvars(ReachEof(p)) /\ WF_pvars(PostEof(p)) /\ WF_pvars(Deliver(p))
    /\ WF_pvars(Trampoline)

-----------------------------------------------------------------------------
\* Properties.

PlayersTypeOK ==
    /\ no_loop \in [PlayerIds -> BOOLEAN]
    /\ eof \in [PlayerIds -> {"free", "no", "yes", "posted"}]
    /\ cb \in [PlayerIds -> 0..Len(boxes)]
    /\ posted \in [PlayerIds -> Nat]
    /\ running \in 0..Len(boxes)
    /\ boxes \in Seq({"held", "freed"})
    /\ late \subseteq 1..Len(boxes) /\ dropped \subseteq 1..Len(boxes)
    /\ creates \in Nat

\* The trampoline is never called with a box that was freed, however players are
\* created, destroyed and registered again around events on their way
\* (pjsua_app.rs:1003, "it lives as long as the player").
BoxAlive == running # 0 => boxes[running] = "held"

-----------------------------------------------------------------------------
\* Why: the inductive invariant, for callbacks on no_loop players.

\* An event of p is still to be delivered, or to be posted.
Pending(p) == cb[p] # 0 /\ (eof[p] \in {"no", "yes"} \/ posted[p] > 0)

BoxInv ==
    /\ BoxAlive
    /\ \A p \in PlayerIds :
          /\ cb[p] # 0 => no_loop[p] /\ eof[p] # "free"
          /\ posted[p] > 0 => posted[p] = 1 /\ eof[p] = "posted" /\ cb[p] # 0
          /\ Pending(p) => boxes[cb[p]] = "held" /\ running # cb[p]
    /\ \A p, q \in PlayerIds : cb[p] # 0 /\ cb[p] = cb[q] => p = q

===============================================================================
