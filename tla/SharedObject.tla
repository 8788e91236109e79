----------------------------- MODULE SharedObject -----------------------------
(***************************************************************************)
(* What media_port.rs relies on the reference count of a CustomPort for:   *)
(* an object that several holders share lives as long as one of them has   *)
(* it, only an object someone has can get another holder, and the last one *)
(* to let go frees it, in the same step and for good.  The counter, the    *)
(* bridge's slots and the queue of removals do not appear.                 *)
(***************************************************************************)
CONSTANTS
    Objects,
    Holders,
    Maker         \* the holder an object is created by, one of Holders

VARIABLES
    holders,      \* who has the object
    life          \* "none", "held" or "freed"

Init ==
    /\ holders = [o \in Objects |-> {}]
    /\ life = [o \in Objects |-> "none"]

Create(o) ==
    /\ life[o] = "none"
    /\ life' = [life EXCEPT ![o] = "held"]
    /\ holders' = [holders EXCEPT ![o] = {Maker}]

\* The maker's hold cannot be regained: others join while the maker is there.
Acquire(o, h) ==
    /\ Maker \in holders[o] /\ h \notin holders[o]
    /\ holders' = [holders EXCEPT ![o] = @ \cup {h}]
    /\ UNCHANGED life

Release(o, h) ==
    /\ h \in holders[o]
    /\ holders' = [holders EXCEPT ![o] = @ \ {h}]
    /\ life' = [life EXCEPT ![o] = IF holders[o] = {h} THEN "freed" ELSE @]

Next ==
    \E o \in Objects :
        \/ Create(o)
        \/ \E h \in Holders : Acquire(o, h) \/ Release(o, h)

Spec == Init /\ [][Next]_<<holders, life>>

===============================================================================
