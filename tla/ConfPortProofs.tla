---------------------------- MODULE ConfPortProofs ----------------------------
(***************************************************************************)
(* Proofs about ConfPort, for every set of ports and of slots: nothing the *)
(* owner, the bridge or a trampoline can reach is freed.                   *)
(***************************************************************************)
EXTENDS ConfPort, FiniteSetTheorems, SequenceTheorems, TLAPS

\* A port is held by finitely many slots.
LEMMA HeldFinite ==
    ASSUME NEW p \in Ports
    PROVE  /\ IsFiniteSet(Held(p)) /\ Cardinality(Held(p)) \in Nat
           /\ Cardinality(Held(p)) = 0 <=> Held(p) = {}
<1>1. Held(p) \in SUBSET Slots
  BY DEF Held
<1> QED
  BY <1>1, SlotsAssumption, FS_Subset, FS_CardinalityType, FS_EmptySet

\* A port in a slot is alive, and its group lock counts the slot.
LEMMA HeldAlive ==
    ASSUME TypeOK, RefInv, NEW s \in Slots, slots[s] # NoPort
    PROVE  /\ slots[s] \in Ports /\ grp_lock[slots[s]]
           /\ context[slots[s]] = "held" /\ refs[slots[s]] >= 1
<1> DEFINE p == slots[s]
<1>1. p \in Ports /\ s \in Held(p)
  BY DEF TypeOK, Held
<1>2. Counted(p)
  BY <1>1 DEF RefInv
<1>3. grp_lock[p] /\ Cardinality(Held(p)) >= 1
  BY <1>1, <1>2, HeldFinite DEF Counted
<1>4. refs[p] >= 1
  BY <1>1, <1>2, <1>3, HeldFinite DEF Counted, Owners
<1> QED
  BY <1>1, <1>2, <1>3, <1>4 DEF Counted, TypeOK

\* The port of a CustomPort is alive.
LEMMA OwnedAlive ==
    ASSUME TypeOK, RefInv, NEW p \in Ports, Owned(p)
    PROVE  context[p] = "held" /\ (grp_lock[p] => refs[p] >= 1)
<1>1. Counted(p)
  BY DEF RefInv
<1> QED
  BY <1>1, HeldFinite DEF Counted, Owners, TypeOK

\* What trampoline_on_destroy and a released reference do to the types.
LEMMA DecRefType ==
    ASSUME TypeOK, NEW p \in Ports, refs[p] >= 1, DecRef(p)
    PROVE  /\ context' \in [Ports -> {"none", "held", "freed"}]
           /\ refs' \in [Ports -> Nat] /\ destroyed' \in [Ports -> Nat]
           /\ grp_lock' \in [Ports -> BOOLEAN]
<1>1. refs[p] - 1 \in Nat /\ destroyed[p] + 1 \in Nat
  BY DEF TypeOK
<1> QED
  BY <1>1 DEF TypeOK, DecRef, Destroy

LEMMA QueueRemovalType ==
    ASSUME TypeOK, NEW p \in Ports, conf_port[p] # 0, QueueRemoval(p)
    PROVE  ops' \in Seq(Slots) /\ stranded' \in SUBSET Ports
<1>1. conf_port[p] \in Slots
  BY DEF TypeOK
<1>2. Append(ops, conf_port[p]) \in Seq(Slots)
  BY <1>1, AppendProperties DEF TypeOK
<1> QED
  BY <1>2 DEF TypeOK, QueueRemoval

LEMMA ReleasePoolType ==
    ASSUME TypeOK, NEW p \in Ports, ReleasePool(p)
    PROVE  conf_pool' \in [Ports -> 0..MaxAdds] /\ pools' \in SUBSET (1..MaxAdds)
<1>1. 0 \in 0..MaxAdds
  BY AddsAssumption
<1>2. conf_pool' \in [Ports -> 0..MaxAdds]
  BY <1>1 DEF TypeOK, ReleasePool
<1>3. pools' \in SUBSET (1..MaxAdds)
  BY DEF TypeOK, ReleasePool
<1> QED
  BY <1>2, <1>3

LEMMA InitOK == Init => TypeOK /\ PortInv
<1> SUFFICES ASSUME Init PROVE TypeOK /\ PortInv
  OBVIOUS
<1>1. TypeOK
  BY AddsAssumption DEF Init, TypeOK
<1>2. \A p \in Ports : Held(p) = {}
  BY PortsAssumption DEF Init, Held
<1>3. RefInv
  BY <1>2 DEF Init, RefInv, Counted, Owned
<1>4. SlotInv /\ RemovalsOwned
  BY DEF Init, SlotInv, RemovalsOwned
<1> QED
  BY <1>1, <1>3, <1>4 DEF PortInv

LEMMA OwnerType ==
    ASSUME TypeOK, RefInv, NEW p \in Ports, Owner(p)
    PROVE  TypeOK'
<1> USE DEF memvars, bridgevars, poolvars
<1>1. CASE New(p)
  BY <1>1 DEF TypeOK, New
<1>2. ASSUME NEW s \in Slots, Add(p, s) PROVE TypeOK'
  <2>1. adds + 1 \in 1..MaxAdds /\ refs[p] + 1 \in Nat
    BY <1>2, AddsAssumption DEF TypeOK, Add
  <2>2. pools' \in SUBSET (1..MaxAdds) /\ adds' \in 0..MaxAdds
    BY <1>2, <2>1 DEF TypeOK, Add
  <2> QED
    BY <1>2, <2>1, <2>2, AddsAssumption DEF TypeOK, Add
<1>3. CASE Remove(p)
  <2>1. ops' \in Seq(Slots) /\ stranded' \in SUBSET Ports
    BY <1>3, QueueRemovalType DEF Remove, TypeOK
  <2> QED
    BY <1>3, <2>1 DEF TypeOK, Remove
<1>4. CASE Release(p)
  BY <1>4, ReleasePoolType DEF TypeOK, Release, ReleasePool
<1>5. CASE DropRemove(p)
  <2>1. ops' \in Seq(Slots) /\ stranded' \in SUBSET Ports
    BY <1>5, QueueRemovalType DEF DropRemove, TypeOK
  <2> QED
    BY <1>5, <2>1 DEF TypeOK, DropRemove
<1>6. CASE DropPool(p)
  BY <1>6, ReleasePoolType DEF TypeOK, DropPool, ReleasePool
<1>7. CASE DropPort(p)
  <2>1. context[p] = "held" /\ (grp_lock[p] => refs[p] >= 1)
    BY <1>7, OwnedAlive DEF DropPort, Owned
  <2>2. destroyed[p] + 1 \in Nat
    BY DEF TypeOK
  <2>3. /\ context' \in [Ports -> {"none", "held", "freed"}]
        /\ refs' \in [Ports -> Nat] /\ destroyed' \in [Ports -> Nat]
        /\ grp_lock' \in [Ports -> BOOLEAN]
    <3>1. CASE grp_lock[p]
      BY <1>7, <2>1, <3>1, DecRefType DEF DropPort
    <3>2. CASE ~grp_lock[p]
      BY <1>7, <2>2, <3>2 DEF DropPort, Destroy, TypeOK
    <3> QED
      BY <3>1, <3>2
  <2> QED
    BY <1>7, <2>3 DEF TypeOK, DropPort
<1> QED
  BY <1>1, <1>2, <1>3, <1>4, <1>5, <1>6, <1>7 DEF Owner

\* The slot at the head of the queue of removals holds a port.
LEMMA HeadHeld ==
    ASSUME TypeOK, RemovalsOwned, ops # <<>>
    PROVE  /\ Head(ops) \in Slots /\ slots[Head(ops)] # NoPort
           /\ Head(ops) = ops[1] /\ Len(ops) \in Nat /\ Len(ops) >= 1
<1>1. Head(ops) \in Slots /\ Head(ops) = ops[1] /\ Len(ops) \in Nat /\ Len(ops) >= 1
  BY HeadTailProperties, EmptySeq, LenProperties DEF TypeOK
<1> QED
  BY <1>1 DEF RemovalsOwned

LEMMA ClockType ==
    ASSUME TypeOK, RefInv, RemovalsOwned, RunOp
    PROVE  TypeOK'
<1> DEFINE h == Head(ops)
           p == slots[h]
<1>1. h \in Slots /\ p \in Ports /\ refs[p] >= 1
  BY HeadHeld, HeldAlive DEF RunOp
<1>2. ops' \in Seq(Slots)
  BY HeadTailProperties DEF RunOp, TypeOK
<1>3. /\ context' \in [Ports -> {"none", "held", "freed"}]
      /\ refs' \in [Ports -> Nat] /\ destroyed' \in [Ports -> Nat]
      /\ grp_lock' \in [Ports -> BOOLEAN]
  BY <1>1, DecRefType DEF RunOp
<1> QED
  BY <1>1, <1>2, <1>3 DEF TypeOK, RunOp, ownvars, poolvars

-----------------------------------------------------------------------------
\* The reference count.

\* A port keeps its count when its slots, its owner and its own memory do.
LEMMA CountedKept ==
    ASSUME NEW p \in Ports, Counted(p), Held(p)' = Held(p), Owned(p)' = Owned(p),
           pc[p]' = "none" => pc[p] = "none",
           context[p]' = context[p], destroyed[p]' = destroyed[p],
           refs[p]' = refs[p], grp_lock[p]' = grp_lock[p]
    PROVE  Counted(p)'
  BY DEF Counted, Owners

\* The bridge's slots stay: so do the slots of each port.
LEMMA HeldKept == slots' = slots => \A p \in Ports : Held(p)' = Held(p)
  BY DEF Held

\* The owner's steps that neither touch the memory nor the reference.
LEMMA CountedQuiet ==
    ASSUME TypeOK, NEW p \in Ports, \A q \in Ports : Counted(q),
           UNCHANGED <<memvars, slots>>,
           NEW b \in {"live", "release", "drop_pool", "drop_port"},
           Owned(p), pc' = [pc EXCEPT ![p] = b]
    PROVE  \A q \in Ports : Counted(q)'
<1> TAKE q \in Ports
<1>1. Owned(q)' = Owned(q) /\ (pc[q]' = "none" => pc[q] = "none")
  BY DEF Owned, TypeOK
<1> QED
  BY <1>1, HeldKept, CountedKept DEF memvars

\* One reference less, from a slot or from the owner.
LEMMA CountedDecRef ==
    ASSUME TypeOK, NEW p \in Ports, Counted(p), grp_lock[p], refs[p] >= 1, DecRef(p),
           Cardinality(Held(p))' + Owners(p)' = Cardinality(Held(p)) + Owners(p) - 1,
           pc[p]' # "none"
    PROVE  Counted(p)'
<1>1. refs[p]' = refs[p] - 1 /\ refs[p] \in Nat /\ grp_lock[p]'
  BY DEF DecRef, TypeOK
<1>2. context[p] = "held" /\ destroyed[p] = 0
  BY DEF Counted, TypeOK
<1>5. refs[p]' = Cardinality(Held(p))' + Owners(p)'
  <2>1. Cardinality(Held(p)) \in Nat /\ Owners(p) \in Nat
    BY HeldFinite DEF Owners
  <2>2. refs[p] = Cardinality(Held(p)) + Owners(p)
    BY DEF Counted
  <2> QED
    BY <1>1, <2>1, <2>2
<1>3. CASE refs[p] = 1
  <2>1. context[p]' = "freed" /\ destroyed[p]' = 1
    BY <1>2, <1>3 DEF DecRef, Destroy, TypeOK
  <2> QED
    BY <1>1, <1>3, <1>5, <2>1 DEF Counted
<1>4. CASE refs[p] # 1
  <2>1. context[p]' = "held" /\ destroyed[p]' = 0
    BY <1>2, <1>4 DEF DecRef
  <2> QED
    BY <1>1, <1>4, <1>5, <2>1 DEF Counted
<1> QED
  BY <1>3, <1>4

\* Other ports are not touched.
LEMMA DecRefOthers ==
    ASSUME TypeOK, NEW p \in Ports, DecRef(p), NEW q \in Ports, q # p, Counted(q),
           Held(q)' = Held(q), pc[q]' = pc[q]
    PROVE  Counted(q)'
<1>1. /\ context[q]' = context[q] /\ destroyed[q]' = destroyed[q]
      /\ refs[q]' = refs[q] /\ grp_lock[q]' = grp_lock[q]
  BY DEF DecRef, Destroy, TypeOK
<1> QED
  BY <1>1, CountedKept DEF Owned

LEMMA OwnerCounted ==
    ASSUME TypeOK, PortInv, NEW p \in Ports, Owner(p), NEW q \in Ports
    PROVE  Counted(q)'
<1> USE DEF memvars, bridgevars
<1>0. /\ \A r \in Ports : Counted(r)
      /\ SlotInv
  BY DEF PortInv, RefInv
<1>1. CASE New(p)
  <2>1. Held(q)' = Held(q)
    BY <1>1, HeldKept DEF New
  <2>2. CASE q = p
    <3>1. context[p] = "none" /\ ~grp_lock[p] /\ destroyed[p] = 0 /\ Held(p) = {}
      BY <1>0, <1>1 DEF Counted, New
    <3>2. context[p]' = "held" /\ pc[p]' = "live" /\ ~grp_lock[p]' /\ destroyed[p]' = 0
      BY <1>1, <3>1 DEF New, TypeOK
    <3> QED
      BY <2>1, <2>2, <3>1, <3>2 DEF Counted, Owned
  <2>3. CASE q # p
    <3>1. pc[q]' = pc[q] /\ context[q]' = context[q]
      BY <1>1, <2>3 DEF New, TypeOK
    <3> QED
      BY <1>0, <1>1, <2>1, <3>1, CountedKept DEF New, Owned
  <2> QED
    BY <2>2, <2>3
<1>2. ASSUME NEW s \in Slots, Add(p, s) PROVE Counted(q)'
  <2>0. pc[p] = "live" /\ slots[s] = NoPort /\ p # NoPort
    BY <1>2, PortsAssumption DEF Add
  <2>1. CASE q = p
    <3>1. Held(p)' = Held(p) \cup {s} /\ s \notin Held(p)
      BY <1>2, <2>0 DEF Add, Held, TypeOK
    <3>2. Cardinality(Held(p))' = Cardinality(Held(p)) + 1
      BY <3>1, HeldFinite, FS_AddElement
    <3>3. Owned(p) /\ Owners(p) = 1 /\ Owned(p)' /\ Owners(p)' = 1
      BY <1>2, <2>0 DEF Add, Owned, Owners
    <3>4. context[p] = "held" /\ (grp_lock[p] => refs[p] >= 1)
      BY <3>3, OwnedAlive DEF PortInv
    <3>5. grp_lock[p]' /\ context[p]' = "held" /\ destroyed[p]' = 0
      BY <1>0, <1>2, <3>4 DEF Add, TypeOK, Counted
    <3>6. refs[p]' = Cardinality(Held(p))' + Owners(p)'
      <4>1. CASE grp_lock[p]
        <5>1. refs[p] = Cardinality(Held(p)) + 1
          BY <1>0, <3>3, <4>1 DEF Counted
        <5> QED
          BY <1>2, <3>2, <3>3, <4>1, <5>1, HeldFinite DEF Add, TypeOK
      <4>2. CASE ~grp_lock[p]
        <5>1. Cardinality(Held(p)) = 0
          BY <1>0, <4>2, HeldFinite DEF Counted
        <5> QED
          BY <1>2, <3>2, <3>3, <4>2, <5>1 DEF Add, TypeOK
      <4> QED
        BY <4>1, <4>2
    <3>7. refs[p]' > 0
      BY <3>2, <3>3, <3>6, HeldFinite
    <3> QED
      BY <1>2, <2>0, <2>1, <3>5, <3>6, <3>7 DEF Counted, Add
  <2>2. CASE q # p
    <3>1. Held(q)' = Held(q)
      BY <1>2, <2>0, <2>2, PortsAssumption DEF Add, Held, TypeOK
    <3>2. refs[q]' = refs[q] /\ grp_lock[q]' = grp_lock[q]
      BY <1>2, <2>2 DEF Add, TypeOK
    <3> QED
      BY <1>0, <1>2, <3>1, <3>2, CountedKept DEF Add, Owned
  <2> QED
    BY <2>1, <2>2
<1>3. CASE Remove(p)
  <2>1. Owned(p)
    BY <1>3 DEF Remove, Owned
  <2>2. CASE pc' = [pc EXCEPT ![p] = "live"]
    BY <1>0, <1>3, <2>1, <2>2, CountedQuiet DEF Remove
  <2>3. CASE pc' = [pc EXCEPT ![p] = "release"]
    BY <1>0, <1>3, <2>1, <2>3, CountedQuiet DEF Remove
  <2> QED
    BY <1>3, <2>2, <2>3 DEF Remove
<1>4. CASE Release(p)
  BY <1>0, <1>4, CountedQuiet DEF Release, ReleasePool, Owned
<1>5. CASE DropRemove(p)
  BY <1>0, <1>5, CountedQuiet DEF DropRemove, Owned
<1>6. CASE DropPool(p)
  BY <1>0, <1>6, CountedQuiet DEF DropPool, ReleasePool, Owned
<1>7. CASE DropPort(p)
  <2>0. /\ Held(q)' = Held(q) /\ Held(p)' = Held(p)
        /\ Owned(p) /\ Owners(p) = 1 /\ ~Owned(p)' /\ Owners(p)' = 0
        /\ pc[p]' = "gone" /\ (q # p => pc[q]' = pc[q])
    BY <1>7, HeldKept DEF DropPort, Owned, Owners, TypeOK
  <2>1. context[p] = "held" /\ (grp_lock[p] => refs[p] >= 1)
    BY <2>0, OwnedAlive DEF PortInv
  <2>2. CASE grp_lock[p]
    <3>1. DecRef(p)
      BY <1>7, <2>2 DEF DropPort
    <3>2. Cardinality(Held(p))' + Owners(p)' = Cardinality(Held(p)) + Owners(p) - 1
      BY <2>0, HeldFinite
    <3>3. Counted(p)'
      BY <1>0, <2>0, <2>1, <2>2, <3>1, <3>2, CountedDecRef
    <3> QED
      BY <1>0, <2>0, <3>1, <3>3, DecRefOthers
  <2>3. CASE ~grp_lock[p]
    <3>1. Destroy(p) /\ UNCHANGED <<refs, grp_lock>>
      BY <1>7, <2>3 DEF DropPort
    <3>2. CASE q = p
      <4>1. destroyed[p] = 0 /\ Held(p) = {}
        BY <1>0, <2>1, <2>3 DEF Counted
      <4>2. context[p]' = "freed" /\ destroyed[p]' = 1
        BY <3>1, <4>1 DEF Destroy, TypeOK
      <4> QED
        BY <2>0, <2>3, <3>1, <3>2, <4>1, <4>2 DEF Counted
    <3>3. CASE q # p
      <4>1. context[q]' = context[q] /\ destroyed[q]' = destroyed[q]
        BY <3>1, <3>3 DEF Destroy, TypeOK
      <4> QED
        BY <1>0, <2>0, <3>1, <3>3, <4>1, CountedKept DEF Owned
    <3> QED
      BY <3>2, <3>3
  <2> QED
    BY <2>2, <2>3
<1> QED
  BY <1>1, <1>2, <1>3, <1>4, <1>5, <1>6, <1>7 DEF Owner

LEMMA ClockCounted ==
    ASSUME TypeOK, PortInv, RunOp, NEW q \in Ports,
           NEW h \in Slots, h = Head(ops), NEW p \in Ports, p = slots[h]
    PROVE  Counted(q)'
<1>0. Counted(q) /\ Counted(p) /\ grp_lock[p] /\ refs[p] >= 1
  BY HeadHeld, HeldAlive DEF RunOp, PortInv, RefInv
<1>1. DecRef(p) /\ pc' = pc
  BY DEF RunOp, ownvars
<1>2. CASE q = p
  <2>1. Held(p)' = Held(p) \ {h} /\ h \in Held(p)
    <3>1. p # NoPort
      BY <1>0, PortsAssumption
    <3> QED
      BY <1>0, <3>1 DEF RunOp, Held, TypeOK
  <2>2. Cardinality(Held(p))' = Cardinality(Held(p)) - 1
    BY <1>0, <2>1, HeldFinite, FS_RemoveElement
  <2>3. Owners(p)' = Owners(p) /\ Owners(p) \in Nat
    BY <1>1 DEF Owners, Owned
  <2>4. Cardinality(Held(p))' + Owners(p)' = Cardinality(Held(p)) + Owners(p) - 1
    BY <1>0, <2>2, <2>3, HeldFinite
  <2>5. pc[p]' # "none"
    BY <1>0, <1>1 DEF Counted
  <2> QED
    BY <1>0, <1>1, <1>2, <2>4, <2>5, CountedDecRef
<1>3. CASE q # p
  <2>1. Held(q)' = Held(q)
    BY <1>0, <1>3, PortsAssumption DEF RunOp, Held, TypeOK
  <2> QED
    BY <1>0, <1>1, <1>3, <2>1, DecRefOthers
<1> QED
  BY <1>2, <1>3

\* A trampoline runs on a port in a slot: only the clock thread frees slots, and
\* not from within a trampoline.
LEMMA CallingHeld ==
    ASSUME TypeOK, PortInv, Next, calling' # NoPort
    PROVE  \E s \in Slots : slots'[s] = calling'
<1>1. ASSUME NEW p \in Ports, Owner(p) PROVE \E s \in Slots : slots'[s] = calling'
  <2>1. calling' = calling
    BY <1>1 DEF Owner, New, Add, Remove, Release, ReleasePool, DropRemove, DropPool, DropPort
  <2>2. PICK s \in Slots : slots[s] = calling
    BY <2>1 DEF PortInv, RefInv
  <2>3. slots'[s] = slots[s]
    BY <1>1, <2>1, <2>2 DEF Owner, New, Add, Remove, Release, ReleasePool, DropRemove, DropPool,
          DropPort, bridgevars, TypeOK
  <2> QED
    BY <2>1, <2>2, <2>3
<1>2. CASE RunOp
  BY <1>2 DEF RunOp
<1>3. ASSUME NEW s \in Slots, Call(s) PROVE slots'[s] = calling'
  BY <1>3 DEF Call, bridgevars
<1>4. CASE Return
  BY <1>4 DEF Return
<1> QED
  BY <1>1, <1>2, <1>3, <1>4 DEF Next

-----------------------------------------------------------------------------
\* Slots and queued removals.

LEMMA OwnerSlots ==
    ASSUME TypeOK, PortInv, NEW p \in Ports, Owner(p)
    PROVE  SlotInv' /\ RemovalsOwned'
<1> USE DEF memvars, bridgevars, PortInv, TypeOK
<1>1. CASE New(p)
  BY <1>1 DEF New, SlotInv, RemovalsOwned
<1>2. ASSUME NEW s \in Slots, Add(p, s) PROVE SlotInv' /\ RemovalsOwned'
  <2>1. s # 0 /\ p # NoPort /\ \A i \in 1..Len(ops) : ops[i] # s
    BY <1>2, SlotsAssumption, PortsAssumption DEF Add, RemovalsOwned
  <2>2. SlotInv'
    BY <1>2, <2>1, PortsAssumption DEF Add, SlotInv
  <2>3. RemovalsOwned'
    BY <1>2, <2>1 DEF Add, RemovalsOwned
  <2> QED
    BY <2>2, <2>3
<1>3. ASSUME pc[p] = "live", conf_port' = [conf_port EXCEPT ![p] = 0], slots' = slots,
             NEW b \in {"live", "release", "drop_pool"}, pc' = [pc EXCEPT ![p] = b],
             IF conf_port[p] # 0 THEN QueueRemoval(p) ELSE ops' = ops
      PROVE  SlotInv' /\ RemovalsOwned'
  <2>1. SlotInv'
    BY <1>3 DEF SlotInv
  <2>2. CASE ops' = ops
    BY <1>3, <2>2, SlotsAssumption DEF RemovalsOwned, SlotInv
  <2>3. CASE conf_port[p] # 0 /\ ops' = Append(ops, conf_port[p])
    <3>0. PICK s \in Slots : s = conf_port[p] /\ slots[s] = p /\ p # NoPort
      BY <2>3, PortsAssumption DEF SlotInv
    <3>1. s = conf_port[p] /\ slots[s] = p /\ p # NoPort /\ slots'[s] # NoPort
      BY <1>3, <3>0
    <3>a. ops \in Seq(Slots) /\ ops' = Append(ops, s) /\ Len(ops) \in Nat
      BY <2>3, <3>0, LenProperties
    <3>b. \A i \in 1..Len(ops) : ops[i] # s
      BY <3>1 DEF RemovalsOwned
    <3> HIDE DEF PortInv, TypeOK
    <3>2. /\ Len(ops') = Len(ops) + 1 /\ Len(ops) \in Nat
          /\ ops'[Len(ops) + 1] = s
          /\ \A i \in 1..Len(ops) : ops'[i] = ops[i] /\ ops[i] # s
      BY <3>a, <3>b, AppendProperties
    <3>3. \A q \in Ports : conf_port'[q] # s
      BY <1>3, <3>0, SlotsAssumption DEF SlotInv, PortInv, TypeOK
    <3>4. \A q \in Ports : conf_port'[q] = conf_port[q] \/ conf_port'[q] = 0
      BY <1>3
    <3>5. ASSUME NEW i \in 1..Len(ops')
          PROVE  /\ slots'[ops'[i]] # NoPort
                 /\ \A q \in Ports : conf_port'[q] # ops'[i]
                 /\ \A j \in 1..Len(ops') : ops'[j] = ops'[i] => j = i
      <4>1. CASE i = Len(ops) + 1
        <5>1. ops'[i] = s
          BY <3>2, <4>1
        <5>2. ASSUME NEW j \in 1..Len(ops'), ops'[j] = s PROVE j = i
          <6>1. j \notin 1..Len(ops)
            BY <3>2, <5>2
          <6> QED
            BY <3>2, <4>1, <6>1
        <5> QED
          BY <3>1, <3>3, <5>1, <5>2
      <4>2. CASE i \in 1..Len(ops)
        <5>1. ops'[i] = ops[i] /\ ops[i] \in Slots /\ ops[i] # 0 /\ ops[i] # s
          BY <3>a, <3>2, <4>2, SlotsAssumption, ElementOfSeq
        <5>2. /\ slots[ops[i]] # NoPort /\ \A q \in Ports : conf_port[q] # ops[i]
              /\ \A j \in 1..Len(ops) : ops[j] = ops[i] => j = i
          BY <4>2 DEF PortInv, RemovalsOwned
        <5>3. ASSUME NEW j \in 1..Len(ops'), ops'[j] = ops'[i] PROVE j = i
          <6>1. j # Len(ops) + 1
            BY <3>2, <5>1, <5>3
          <6>2. j \in 1..Len(ops) /\ ops[j] = ops[i]
            BY <3>2, <5>1, <5>3, <6>1
          <6> QED
            BY <5>2, <6>2
        <5> QED
          BY <1>3, <3>4, <5>1, <5>2, <5>3
      <4> QED
        BY <3>2, <4>1, <4>2
    <3> QED
      BY <2>1, <3>5 DEF RemovalsOwned
  <2> QED
    BY <1>3, <2>1, <2>2, <2>3 DEF QueueRemoval
<1>4. CASE Remove(p)
  <2>1. CASE pc' = [pc EXCEPT ![p] = "live"]
    BY <1>3, <1>4, <2>1 DEF Remove
  <2>2. CASE pc' = [pc EXCEPT ![p] = "release"]
    BY <1>3, <1>4, <2>2 DEF Remove
  <2> QED
    BY <1>4, <2>1, <2>2 DEF Remove
<1>5. CASE Release(p)
  BY <1>5 DEF Release, ReleasePool, SlotInv, RemovalsOwned
<1>6. CASE DropRemove(p)
  BY <1>3, <1>6 DEF DropRemove
<1>7. CASE DropPool(p)
  BY <1>7 DEF DropPool, ReleasePool, SlotInv, RemovalsOwned
<1>8. CASE DropPort(p)
  BY <1>8 DEF DropPort, SlotInv, RemovalsOwned
<1> QED
  BY <1>1, <1>2, <1>4, <1>5, <1>6, <1>7, <1>8 DEF Owner

LEMMA ClockSlots ==
    ASSUME TypeOK, PortInv, RunOp, NEW h \in Slots, h = Head(ops)
    PROVE  SlotInv' /\ RemovalsOwned'
<1> USE DEF PortInv, TypeOK, ownvars
<1>1. /\ h = ops[1] /\ Len(ops) \in Nat /\ Len(ops) >= 1
      /\ \A p \in Ports : conf_port[p] # h
      /\ \A j \in 1..Len(ops) : ops[j] = h => j = 1
  <2>1. h = ops[1] /\ Len(ops) \in Nat /\ Len(ops) >= 1
    BY HeadHeld DEF RunOp
  <2> QED
    BY <2>1 DEF RemovalsOwned
<1>2. SlotInv'
  BY <1>1 DEF RunOp, SlotInv
<1>3. /\ Len(ops') = Len(ops) - 1
      /\ \A i \in 1..(Len(ops) - 1) : ops'[i] = ops[i + 1]
  BY <1>1, HeadTailProperties DEF RunOp
<1>4. ASSUME NEW i \in 1..Len(ops')
      PROVE  /\ slots'[ops'[i]] # NoPort
             /\ \A q \in Ports : conf_port'[q] # ops'[i]
             /\ \A j \in 1..Len(ops') : ops'[j] = ops'[i] => j = i
  <2>1. i + 1 \in 2..Len(ops) /\ ops'[i] = ops[i + 1] /\ ops[i + 1] \in Slots
    BY <1>1, <1>3, ElementOfSeq
  <2>2. ops[i + 1] # h
    BY <1>1, <2>1
  <2>3. slots'[ops'[i]] # NoPort /\ \A q \in Ports : conf_port'[q] # ops'[i]
    BY <1>1, <2>1, <2>2 DEF RunOp, RemovalsOwned
  <2>4. ASSUME NEW j \in 1..Len(ops'), ops'[j] = ops'[i] PROVE j = i
    <3>1. j + 1 \in 2..Len(ops) /\ ops[j + 1] = ops[i + 1]
      BY <1>1, <1>3, <2>1, <2>4
    <3>2. j + 1 = i + 1
      BY <1>1, <2>1, <3>1 DEF RemovalsOwned
    <3> QED
      BY <3>2
  <2> QED
    BY <2>3, <2>4
<1> QED
  BY <1>2, <1>4 DEF RemovalsOwned

-----------------------------------------------------------------------------
LEMMA StepOK == TypeOK /\ PortInv /\ [Next]_vars => (TypeOK /\ PortInv)'
<1> SUFFICES ASSUME TypeOK, PortInv, [Next]_vars PROVE TypeOK' /\ PortInv'
  OBVIOUS
<1>0. RefInv /\ SlotInv /\ RemovalsOwned
  BY DEF PortInv
<1>1. ASSUME NEW p \in Ports, Owner(p) PROVE TypeOK' /\ PortInv'
  <2>1. TypeOK'
    BY <1>0, <1>1, OwnerType
  <2>2. RefInv'
    BY <1>1, OwnerCounted, CallingHeld DEF RefInv, Next
  <2> QED
    BY <1>1, <2>1, <2>2, OwnerSlots DEF PortInv
<1>2. CASE RunOp
  <2>1. TypeOK'
    BY <1>0, <1>2, ClockType
  <2>2. PICK h \in Slots : h = Head(ops)
    BY <1>0, <1>2, HeadHeld DEF RunOp
  <2>3. PICK p \in Ports : p = slots[h]
    BY <1>0, <1>2, <2>2, HeadHeld, HeldAlive DEF RunOp
  <2>4. RefInv'
    BY <1>2, <2>2, <2>3, ClockCounted, CallingHeld DEF RefInv, Next
  <2> QED
    BY <1>2, <2>1, <2>2, <2>4, ClockSlots DEF PortInv
<1>3. ASSUME UNCHANGED <<ownvars, memvars, bridgevars, poolvars, stranded>>,
             calling' \in Ports \cup {NoPort},
             calling' # NoPort => \E s \in Slots : slots'[s] = calling'
      PROVE  TypeOK' /\ PortInv'
  <2> USE DEF ownvars, memvars, bridgevars, poolvars
  <2>1. TypeOK'
    BY <1>3 DEF TypeOK
  <2>2. \A p \in Ports : Counted(p)'
    BY <1>0, <1>3, HeldKept, CountedKept DEF RefInv, Owned
  <2>3. RefInv' /\ SlotInv' /\ RemovalsOwned'
    BY <1>0, <1>3, <2>2 DEF RefInv, SlotInv, RemovalsOwned
  <2> QED
    BY <2>1, <2>3 DEF PortInv
<1>4. ASSUME NEW s \in Slots, Call(s) PROVE TypeOK' /\ PortInv'
  BY <1>3, <1>4 DEF Call, TypeOK, bridgevars
<1>5. CASE Return
  BY <1>3, <1>5 DEF Return
<1>6. CASE UNCHANGED vars
  BY <1>0, <1>3, <1>6 DEF vars, TypeOK, RefInv, bridgevars
<1> QED
  BY <1>1, <1>2, <1>4, <1>5, <1>6 DEF Next

LEMMA Invariance == Spec => [](TypeOK /\ PortInv)
  BY InitOK, StepOK, PTL DEF Spec

\* A CustomPort's state has its type: no queued removal is for "no slot", and the
\* reference count never goes below zero (media_port.rs).
THEOREM PortTypes == Spec => []TypeOK
  BY Invariance, PTL

\* The reference count is the number of references, and every slot has one party
\* that may free it (CustomPort's methods and Drop, and op_remove_port).
THEOREM PortInvariant == Spec => []PortInv
  BY Invariance, PTL

\* Nothing the owner, the bridge or a trampoline can reach is freed
\* (media_port.rs:48-52), whatever the number of ports, slots and re-adds.
THEOREM NoUseAfterFreeHolds == Spec => []NoUseAfterFree
<1>1. TypeOK /\ PortInv => NoUseAfterFree
  <2> SUFFICES ASSUME TypeOK, RefInv PROVE NoUseAfterFree
    BY DEF PortInv
  <2>1. \A p \in Ports : Owned(p) => context[p] = "held"
    BY OwnedAlive
  <2>2. \A s \in Slots : slots[s] # NoPort => context[slots[s]] = "held"
    BY HeldAlive
  <2>3. calling # NoPort => context[calling] = "held"
    BY <2>2 DEF RefInv
  <2> QED
    BY <2>1, <2>2, <2>3 DEF NoUseAfterFree, Owned
<1> QED
  BY <1>1, Invariance, PTL

\* A queued removal frees the slot it was queued for and no other port's
\* (conf_port.take() in remove_from_conference and Drop).
THEOREM RemovalsOwnedHolds == Spec => []RemovalsOwned
<1>1. PortInv => RemovalsOwned
  BY DEF PortInv
<1> QED
  BY <1>1, PortInvariant, PTL

===============================================================================
