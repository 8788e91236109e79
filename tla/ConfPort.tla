------------------------------- MODULE ConfPort -------------------------------
(***************************************************************************)
(* The life of a CustomPort (media_port.rs): a pjmedia_port and its        *)
(* PortContext that the application owns through a CustomPort and the      *)
(* conference bridge reaches through its slots, its queue of removals and  *)
(* the trampolines, all three on the audio clock thread.  The group lock's *)
(* reference count decides which side frees them.                          *)
(*                                                                         *)
(* A CustomPort's methods take &mut self, so one thread at a time runs     *)
(* them; the clock thread, and the owners of other ports, run between any  *)
(* two calls into PJSIP.                                                   *)
(***************************************************************************)
EXTENDS Integers, Sequences, FiniteSets

CONSTANTS
    Ports,        \* the CustomPorts the application creates
    Slots,        \* slots of the conference bridge
    NoPort,
    MaxAdds       \* bound: calls of add_to_conference that succeed

ASSUME PortsAssumption == IsFiniteSet(Ports) /\ NoPort \notin Ports
ASSUME SlotsAssumption == IsFiniteSet(Slots) /\ 0 \notin Slots
ASSUME AddsAssumption  == MaxAdds \in Nat

VARIABLES
    pc,         \* where the owner of each port is in CustomPort's methods
    conf_port,  \* CustomPort.conf_port; 0 is None
    conf_pool,  \* CustomPort.conf_pool; 0 is None
    context,    \* the pjmedia_port and its PortContext, freed together
    grp_lock,   \* the port has a group lock, from its first add on
    refs,       \* the group lock's reference count
    slots,      \* the bridge's slots
    ops,        \* slots with a queued REMOVE_PORT, oldest first
    calling,    \* the port whose trampoline the clock thread is in
    pools,      \* conf-port pools allocated and not released
    adds        \* pools allocated so far; a pool is its number

\* History: on_destroy calls, and ports with a slot no one will ever remove.
VARIABLES destroyed, stranded

ownvars    == <<pc, conf_port, conf_pool>>
memvars    == <<context, grp_lock, refs, destroyed>>
bridgevars == <<slots, ops>>
poolvars   == <<pools, adds>>
vars == <<ownvars, memvars, bridgevars, calling, poolvars, stranded>>

Init ==
    /\ pc = [p \in Ports |-> "none"]
    /\ conf_port = [p \in Ports |-> 0] /\ conf_pool = [p \in Ports |-> 0]
    /\ context = [p \in Ports |-> "none"]
    /\ grp_lock = [p \in Ports |-> FALSE] /\ refs = [p \in Ports |-> 0]
    /\ slots = [s \in Slots |-> NoPort] /\ ops = <<>>
    /\ calling = NoPort
    /\ pools = {} /\ adds = 0
    /\ destroyed = [p \in Ports |-> 0] /\ stranded = {}

-----------------------------------------------------------------------------
\* trampoline_on_destroy: the PortContext and the pjmedia_port go.
Destroy(p) ==
    /\ context' = [context EXCEPT ![p] = "freed"]
    /\ destroyed' = [destroyed EXCEPT ![p] = @ + 1]

\* pj_grp_lock_dec_ref: the last reference runs the port's destroy handler.
DecRef(p) ==
    /\ refs' = [refs EXCEPT ![p] = @ - 1]
    /\ IF refs[p] = 1 THEN Destroy(p) ELSE UNCHANGED <<context, destroyed>>
    /\ UNCHANGED grp_lock

\* pjsua_conf_remove_port: the removal is queued, or the call fails.
QueueRemoval(p) ==
    \/ ops' = Append(ops, conf_port[p]) /\ UNCHANGED stranded
    \/ stranded' = stranded \cup {p} /\ UNCHANGED ops

-----------------------------------------------------------------------------
\* The owner.

New(p) ==
    /\ pc[p] = "none"
    /\ pc' = [pc EXCEPT ![p] = "live"]
    /\ context' = [context EXCEPT ![p] = "held"]
    /\ UNCHANGED <<conf_port, conf_pool, grp_lock, refs, destroyed, bridgevars, calling,
                   poolvars, stranded>>

\* add_to_conference: a free slot refers to the port, with a reference of its
\* own.  The first add creates the group lock, which counts the owner too.  An
\* add that fails releases the pool it allocated and changes nothing.
Add(p, s) ==
    /\ pc[p] = "live" /\ conf_port[p] = 0
    /\ slots[s] = NoPort /\ adds < MaxAdds
    /\ slots' = [slots EXCEPT ![s] = p]
    /\ refs' = [refs EXCEPT ![p] = IF grp_lock[p] THEN @ + 1 ELSE 2]
    /\ grp_lock' = [grp_lock EXCEPT ![p] = TRUE]
    /\ adds' = adds + 1 /\ pools' = pools \cup {adds + 1}
    /\ conf_port' = [conf_port EXCEPT ![p] = s]
    /\ conf_pool' = [conf_pool EXCEPT ![p] = adds + 1]
    /\ UNCHANGED <<pc, context, destroyed, ops, calling, stranded>>

\* A variant that reads conf_port and leaves it set.
RemoveKeeps(p) ==
    /\ pc[p] = "live" /\ conf_port[p] # 0
    /\ QueueRemoval(p)
    /\ pc' = [pc EXCEPT ![p] = IF ops' = ops THEN "live" ELSE "release"]
    /\ UNCHANGED <<conf_port, conf_pool, memvars, slots, calling, poolvars>>

\* The first half of remove_from_conference.  The field is taken before the
\* call, and an error returns at once, with the pool still held.
Remove(p) ==
    /\ pc[p] = "live"
    /\ conf_port' = [conf_port EXCEPT ![p] = 0]
    /\ IF conf_port[p] # 0 THEN QueueRemoval(p)
                           ELSE conf_pool[p] # 0 /\ UNCHANGED <<ops, stranded>>
    /\ pc' = [pc EXCEPT ![p] =
                    IF conf_port[p] # 0 /\ ops' = ops THEN "live" ELSE "release"]
    /\ UNCHANGED <<conf_pool, memvars, slots, calling, poolvars>>

\* pj_pool_release of the conf_pool, if there is one.
ReleasePool(p) ==
    /\ pools' = pools \ {conf_pool[p]}
    /\ conf_pool' = [conf_pool EXCEPT ![p] = 0]
    /\ UNCHANGED <<conf_port, memvars, bridgevars, calling, adds, stranded>>

\* The second half of remove_from_conference.
Release(p) ==
    /\ pc[p] = "release"
    /\ pc' = [pc EXCEPT ![p] = "live"]
    /\ ReleasePool(p)

\* A variant that leaves the port in the conference.
DropForgets(p) ==
    /\ pc[p] = "live"
    /\ pc' = [pc EXCEPT ![p] = "drop_pool"]
    /\ UNCHANGED <<conf_port, conf_pool, memvars, bridgevars, calling, poolvars, stranded>>

\* A variant that removes the port whether it is in the conference or not.
DropUnchecked(p) ==
    /\ pc[p] = "live"
    /\ QueueRemoval(p)
    /\ conf_port' = [conf_port EXCEPT ![p] = 0]
    /\ pc' = [pc EXCEPT ![p] = "drop_pool"]
    /\ UNCHANGED <<conf_pool, memvars, slots, calling, poolvars>>

\* Drop, its three steps: the status of the removal is ignored.
DropRemove(p) ==
    /\ pc[p] = "live"
    /\ IF conf_port[p] = 0 THEN UNCHANGED <<ops, stranded>> ELSE QueueRemoval(p)
    /\ conf_port' = [conf_port EXCEPT ![p] = 0]
    /\ pc' = [pc EXCEPT ![p] = "drop_pool"]
    /\ UNCHANGED <<conf_pool, memvars, slots, calling, poolvars>>

DropPool(p) ==
    /\ pc[p] = "drop_pool"
    /\ pc' = [pc EXCEPT ![p] = "drop_port"]
    /\ ReleasePool(p)

\* A variant that frees the port itself, as an earlier version did.
DropFrees(p) ==
    /\ pc[p] = "drop_port"
    /\ pc' = [pc EXCEPT ![p] = "gone"]
    /\ Destroy(p) /\ UNCHANGED <<refs, grp_lock>>
    /\ UNCHANGED <<conf_port, conf_pool, bridgevars, calling, poolvars, stranded>>

\* A variant that only gives up a reference, and so never frees a port that was
\* not added.
DropUncounted(p) ==
    /\ pc[p] = "drop_port"
    /\ pc' = [pc EXCEPT ![p] = "gone"]
    /\ IF grp_lock[p] THEN DecRef(p) ELSE UNCHANGED memvars
    /\ UNCHANGED <<conf_port, conf_pool, bridgevars, calling, poolvars, stranded>>

\* pjmedia_port_destroy gives up the owner's reference; a port that was never
\* added has no group lock and is destroyed at once.
DropPort(p) ==
    /\ pc[p] = "drop_port"
    /\ pc' = [pc EXCEPT ![p] = "gone"]
    /\ IF grp_lock[p] THEN DecRef(p) ELSE Destroy(p) /\ UNCHANGED <<refs, grp_lock>>
    /\ UNCHANGED <<conf_port, conf_pool, bridgevars, calling, poolvars, stranded>>

Owner(p) ==
    \/ New(p)
    \/ \E s \in Slots : Add(p, s)
    \/ Remove(p) \/ Release(p)
    \/ DropRemove(p) \/ DropPool(p) \/ DropPort(p)

-----------------------------------------------------------------------------
\* The audio clock thread.

\* op_remove_port: the slot is free again, and its reference to the port goes.
RunOp ==
    /\ calling = NoPort
    /\ ops # <<>>
    /\ ops' = Tail(ops)
    /\ slots' = [slots EXCEPT ![Head(ops)] = NoPort]
    /\ DecRef(slots[Head(ops)])
    /\ UNCHANGED <<ownvars, calling, poolvars, stranded>>

\* trampoline_get_frame or trampoline_put_frame of a port in a slot, one whose
\* removal is queued included.
Call(s) ==
    /\ calling = NoPort
    /\ slots[s] # NoPort
    /\ calling' = slots[s]
    /\ UNCHANGED <<ownvars, memvars, bridgevars, poolvars, stranded>>

Return ==
    /\ calling # NoPort
    /\ calling' = NoPort
    /\ UNCHANGED <<ownvars, memvars, bridgevars, poolvars, stranded>>

Next ==
    \/ \E p \in Ports : Owner(p)
    \/ RunOp
    \/ \E s \in Slots : Call(s)
    \/ Return

Spec == Init /\ [][Next]_vars

\* A callback returns, the clock gets to its queue, and a drop once begun is
\* carried through.
FairSpec ==
    /\ Spec
    /\ WF_vars(Return) /\ SF_vars(RunOp)
    /\ \A p \in Ports : WF_vars(DropPool(p)) /\ WF_vars(DropPort(p))

-----------------------------------------------------------------------------
\* Properties.

TypeOK ==
    /\ pc \in [Ports -> {"none", "live", "release", "drop_pool", "drop_port", "gone"}]
    /\ conf_port \in [Ports -> Slots \cup {0}]
    /\ conf_pool \in [Ports -> 0..MaxAdds]
    /\ context \in [Ports -> {"none", "held", "freed"}]
    /\ grp_lock \in [Ports -> BOOLEAN]
    /\ refs \in [Ports -> Nat]
    /\ slots \in [Slots -> Ports \cup {NoPort}]
    /\ ops \in Seq(Slots)
    /\ calling \in Ports \cup {NoPort}
    /\ pools \in SUBSET (1..MaxAdds) /\ adds \in 0..MaxAdds
    /\ destroyed \in [Ports -> Nat]
    /\ stranded \in SUBSET Ports

\* What the owner or the clock thread can still reach is not freed: the port of
\* a CustomPort that exists, of every slot (and so of every queued removal), and
\* the one a trampoline runs on (media_port.rs:48-52).
NoUseAfterFree ==
    /\ \A p \in Ports : pc[p] \notin {"none", "gone"} => context[p] = "held"
    /\ \A s \in Slots : slots[s] # NoPort => context[slots[s]] = "held"
    /\ calling # NoPort => context[calling] = "held"

\* A queued removal frees the slot it was queued for: the slot still holds a
\* port, one no CustomPort names any more, and no other removal is queued for
\* it.  So a slot is not taken from a port that reused it.
RemovalsOwned ==
    \A i \in 1..Len(ops) :
        /\ slots[ops[i]] # NoPort
        /\ \A p \in Ports : conf_port[p] # ops[i]
        /\ \A j \in 1..Len(ops) : ops[j] = ops[i] => j = i

\* A dropped port's memory goes, with one on_destroy call, unless the bridge
\* refused to remove it (media_port.rs:193-199).
Freed ==
    \A p \in Ports :
        pc[p] = "drop_pool" ~> (p \in stranded \/ (context[p] = "freed" /\ destroyed[p] = 1))

\* pjsua_app.rs:845-847, "The caller must release the returned pool after calling
\* conf_remove_port.  Failing to do so leaks memory.  CustomPort and
\* ToneGenerator handle this automatically": a pool not released is one some
\* CustomPort still knows.
PoolsHeld == \A k \in pools : \E p \in Ports : conf_pool[p] = k

-----------------------------------------------------------------------------
\* Why: the inductive invariants.

Held(p) == {s \in Slots : slots[s] = p}

\* The CustomPort exists, or its Drop has yet to reach pjmedia_port_destroy.
Owned(p) == pc[p] \notin {"none", "gone"}

Owners(p) == IF Owned(p) THEN 1 ELSE 0

\* The group lock counts the slots that hold the port and its owner; without one
\* the owner alone keeps the memory.
Counted(p) ==
    /\ pc[p] = "none" => context[p] = "none" /\ ~grp_lock[p]
    /\ destroyed[p] = IF context[p] = "freed" THEN 1 ELSE 0
    /\ grp_lock[p] =>
          /\ refs[p] = Cardinality(Held(p)) + Owners(p)
          /\ context[p] = "held" <=> refs[p] > 0
    /\ ~grp_lock[p] => Held(p) = {} /\ (context[p] = "held" <=> Owned(p))

RefInv ==
    /\ \A p \in Ports : Counted(p)
    /\ calling # NoPort => \E s \in Slots : slots[s] = calling

\* A CustomPort's conf_port is a slot that holds it, and is taken before Drop's
\* second step.
SlotInv ==
    \A p \in Ports :
        /\ conf_port[p] # 0 => slots[conf_port[p]] = p
        /\ pc[p] \in {"none", "drop_pool", "drop_port", "gone"} => conf_port[p] = 0

\* What add_to_conference, remove_from_conference, Drop and the clock thread
\* preserve together: the reference count is that of the references, and each
\* slot has one that may free it.
PortInv == RefInv /\ SlotInv /\ RemovalsOwned

-----------------------------------------------------------------------------
\* What the counter is for: the port is shared by its CustomPort, holder 0, and
\* the slots it is in.

HoldersOf(p) == Held(p) \cup (IF Owned(p) THEN {0} ELSE {})

Shared == INSTANCE SharedObject WITH
              Objects <- Ports, Holders <- Slots \cup {0}, Maker <- 0,
              holders <- [p \in Ports |-> HoldersOf(p)], life <- context

\* The port's memory is freed by the step that takes its last holder away, be it
\* Drop or a removal on the clock thread, never before it and never twice, and no
\* slot gets a port that is freed or whose CustomPort is gone
\* (media_port.rs:44-52, 193-199).
SharedSpec == Shared!Spec

===============================================================================
