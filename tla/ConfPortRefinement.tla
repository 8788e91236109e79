-------------------------- MODULE ConfPortRefinement --------------------------
(***************************************************************************)
(* ConfPort implements SharedObject: counting references in the group lock *)
(* frees a port in the step that takes its last holder away.               *)
(***************************************************************************)
EXTENDS ConfPortProofs

\* A step that changes the holders of one port changes the mapping there.
LEMMA HoldersUpdate ==
    ASSUME NEW p \in Ports, NEW H, HoldersOf(p)' = H,
           \A q \in Ports \ {p} : HoldersOf(q)' = HoldersOf(q)
    PROVE  [q \in Ports |-> HoldersOf(q)]' = [[q \in Ports |-> HoldersOf(q)] EXCEPT ![p] = H]
  OBVIOUS

\* A step that leaves the slots alone, and no CustomPort begin or end, is a
\* stutter when no memory is freed.
LEMMA Stutters ==
    ASSUME slots' = slots, context' = context, \A q \in Ports : Owned(q)' = Owned(q)
    PROVE  UNCHANGED <<[q \in Ports |-> HoldersOf(q)], context>>
<1>1. \A q \in Ports : HoldersOf(q)' = HoldersOf(q)
  BY HeldKept DEF HoldersOf
<1> QED
  BY <1>1

\* Within the methods that make no call that frees, the CustomPort stays.
LEMMA OwnedKept ==
    ASSUME TypeOK, NEW p \in Ports, Owned(p),
           NEW b \in {"live", "release", "drop_pool", "drop_port"},
           pc' = [pc EXCEPT ![p] = b]
    PROVE  \A q \in Ports : Owned(q)' = Owned(q)
  BY DEF Owned, TypeOK

\* CustomPort::new.
LEMMA NewCreates ==
    ASSUME TypeOK, PortInv, NEW p \in Ports, New(p)
    PROVE  Shared!Create(p)
<1>1. Counted(p) /\ context[p] = "none" /\ ~grp_lock[p] /\ Held(p) = {}
  BY DEF PortInv, RefInv, Counted, New
<1>2. slots' = slots
  BY DEF New, bridgevars
<1>3. HoldersOf(p)' = {0}
  <2>1. Owned(p)' /\ Held(p)' = {}
    BY <1>1, <1>2, HeldKept DEF New, Owned, TypeOK
  <2> QED
    BY <2>1 DEF HoldersOf
<1>4. \A q \in Ports \ {p} : HoldersOf(q)' = HoldersOf(q)
  BY <1>2, HeldKept DEF New, Owned, HoldersOf, TypeOK
<1>5. [q \in Ports |-> HoldersOf(q)]' = [[q \in Ports |-> HoldersOf(q)] EXCEPT ![p] = {0}]
  BY <1>3, <1>4, HoldersUpdate
<1> QED
  BY <1>1, <1>5 DEF Shared!Create, New

\* add_to_conference, whatever it finds in the group lock.
LEMMA AddAcquires ==
    ASSUME TypeOK, PortInv, NEW p \in Ports, NEW s \in Slots, Add(p, s)
    PROVE  Shared!Acquire(p, s)
<1>1. p # NoPort /\ s # 0 /\ Owned(p) /\ s \notin Held(p)
  BY PortsAssumption, SlotsAssumption DEF Add, Owned, Held
<1>2. \A q \in Ports : Owned(q)' = Owned(q)
  BY DEF Add, Owned
<1>3. HoldersOf(p)' = HoldersOf(p) \cup {s}
  <2>1. Held(p)' = Held(p) \cup {s}
    BY DEF Add, Held, TypeOK
  <2> QED
    BY <1>1, <1>2, <2>1 DEF HoldersOf
<1>4. ASSUME NEW q \in Ports \ {p} PROVE HoldersOf(q)' = HoldersOf(q)
  <2>1. q # NoPort
    BY PortsAssumption
  <2>2. Held(q)' = Held(q)
    BY <2>1 DEF Add, Held, TypeOK
  <2> QED
    BY <1>2, <2>2 DEF HoldersOf
<1>5. [q \in Ports |-> HoldersOf(q)]'
        = [[q \in Ports |-> HoldersOf(q)] EXCEPT ![p] = HoldersOf(p) \cup {s}]
  BY <1>3, <1>4, HoldersUpdate
<1>6. 0 \in HoldersOf(p) /\ s \notin HoldersOf(p)
  BY <1>1 DEF HoldersOf
<1> QED
  BY <1>5, <1>6 DEF Shared!Acquire, Add

\* The counter and the holders agree on who is the last.
LEMMA LastHolder ==
    ASSUME TypeOK, PortInv, NEW p \in Ports, grp_lock[p],
           NEW h \in HoldersOf(p)
    PROVE  refs[p] = 1 <=> HoldersOf(p) = {h}
<1>1. refs[p] = Cardinality(Held(p)) + Owners(p)
  BY DEF PortInv, RefInv, Counted
<1>2. 0 \notin Held(p)
  BY SlotsAssumption DEF Held
<1>3. CASE Owned(p)
  <2>1. HoldersOf(p) = Held(p) \cup {0} /\ Owners(p) = 1
    BY <1>3 DEF HoldersOf, Owners
  <2>2. refs[p] = 1 <=> Held(p) = {}
    BY <1>1, <2>1, HeldFinite
  <2> QED
    BY <1>2, <2>1, <2>2
<1>4. CASE ~Owned(p)
  <2>1. HoldersOf(p) = Held(p) /\ Owners(p) = 0
    BY <1>4 DEF HoldersOf, Owners
  <2>2. refs[p] = 1 <=> Cardinality(Held(p) \ {h}) = 0
    <3>1. h \in Held(p) /\ IsFiniteSet(Held(p)) /\ Cardinality(Held(p)) \in Nat
      BY <2>1, HeldFinite
    <3>2. Cardinality(Held(p) \ {h}) = Cardinality(Held(p)) - 1
      BY <3>1, FS_RemoveElement
    <3> QED
      BY <1>1, <2>1, <3>1, <3>2
  <2>3. Cardinality(Held(p) \ {h}) = 0 <=> Held(p) \ {h} = {}
    BY HeldFinite, FS_Difference, FS_EmptySet
  <2> QED
    BY <2>1, <2>2, <2>3
<1> QED
  BY <1>3, <1>4

\* A reference given up with a holder is a release.
LEMMA DecRefReleases ==
    ASSUME TypeOK, PortInv, NEW p \in Ports, grp_lock[p], DecRef(p),
           NEW h \in HoldersOf(p), HoldersOf(p)' = HoldersOf(p) \ {h},
           \A q \in Ports \ {p} : HoldersOf(q)' = HoldersOf(q)
    PROVE  Shared!Release(p, h)
<1>1. [q \in Ports |-> HoldersOf(q)]'
        = [[q \in Ports |-> HoldersOf(q)] EXCEPT ![p] = HoldersOf(p) \ {h}]
  BY HoldersUpdate
<1>2. context' = [context EXCEPT ![p] = IF HoldersOf(p) = {h} THEN "freed" ELSE @]
  <2>1. CASE refs[p] = 1
    BY <2>1, LastHolder DEF DecRef, Destroy
  <2>2. CASE refs[p] # 1
    BY <2>2, LastHolder DEF DecRef, TypeOK
  <2> QED
    BY <2>1, <2>2
<1> QED
  BY <1>1, <1>2 DEF Shared!Release

\* pjmedia_port_destroy in Drop.
LEMMA DropReleases ==
    ASSUME TypeOK, PortInv, NEW p \in Ports, DropPort(p)
    PROVE  Shared!Release(p, 0)
<1>1. Owned(p) /\ ~Owned(p)' /\ slots' = slots /\ 0 \notin Held(p)
  BY SlotsAssumption DEF DropPort, Owned, bridgevars, TypeOK, Held
<1>2. 0 \in HoldersOf(p) /\ HoldersOf(p)' = HoldersOf(p) \ {0}
  BY <1>1, HeldKept DEF HoldersOf
<1>3. \A q \in Ports \ {p} : HoldersOf(q)' = HoldersOf(q)
  BY <1>1, HeldKept DEF DropPort, HoldersOf, Owned, TypeOK
<1>4. CASE grp_lock[p]
  BY <1>2, <1>3, <1>4, DecRefReleases DEF DropPort
<1>5. CASE ~grp_lock[p]
  <2>1. HoldersOf(p) = {0}
    BY <1>1, <1>5 DEF PortInv, RefInv, Counted, HoldersOf
  <2>2. [q \in Ports |-> HoldersOf(q)]'
          = [[q \in Ports |-> HoldersOf(q)] EXCEPT ![p] = HoldersOf(p) \ {0}]
    BY <1>2, <1>3, HoldersUpdate
  <2> QED
    BY <1>2, <1>5, <2>1, <2>2 DEF Shared!Release, DropPort, Destroy
<1> QED
  BY <1>4, <1>5

\* A removal the clock thread gets to.
LEMMA RemovalReleases ==
    ASSUME TypeOK, PortInv, RunOp
    PROVE  \E p \in Ports, s \in Slots : Shared!Release(p, s)
<1>1. PICK s \in Slots : s = Head(ops) /\ slots[s] # NoPort
  BY HeadHeld DEF PortInv, RunOp
<1>2. PICK p \in Ports : p = slots[s] /\ grp_lock[p]
  BY <1>1, HeldAlive DEF PortInv
<1>3. DecRef(p) /\ slots' = [slots EXCEPT ![s] = NoPort] /\ pc' = pc
  BY <1>1, <1>2 DEF RunOp, ownvars
<1>4. s \in HoldersOf(p) /\ s # 0
  BY <1>2, SlotsAssumption DEF HoldersOf, Held
<1>5. HoldersOf(p)' = HoldersOf(p) \ {s}
  <2>1. Held(p)' = Held(p) \ {s}
    BY <1>2, <1>3, PortsAssumption DEF Held, TypeOK
  <2> QED
    BY <1>3, <1>4, <2>1 DEF HoldersOf, Owned
<1>6. ASSUME NEW q \in Ports \ {p} PROVE HoldersOf(q)' = HoldersOf(q)
  <2>1. Held(q)' = Held(q)
    BY <1>2, <1>3, PortsAssumption DEF Held, TypeOK
  <2> QED
    BY <1>3, <2>1 DEF HoldersOf, Owned
<1> QED
  BY <1>2, <1>3, <1>4, <1>5, <1>6, DecRefReleases

-----------------------------------------------------------------------------
LEMMA InitMaps == Init => Shared!Init
<1> SUFFICES ASSUME Init PROVE Shared!Init
  OBVIOUS
<1>1. \A p \in Ports : HoldersOf(p) = {}
  BY PortsAssumption DEF Init, HoldersOf, Held, Owned
<1> QED
  BY <1>1 DEF Init, Shared!Init

LEMMA StepMaps ==
    TypeOK /\ PortInv /\ [Next]_vars
        => [Shared!Next]_<<[p \in Ports |-> HoldersOf(p)], context>>
<1> DEFINE Stutter == UNCHANGED <<[p \in Ports |-> HoldersOf(p)], context>>
<1> SUFFICES ASSUME TypeOK, PortInv, [Next]_vars PROVE Shared!Next \/ Stutter
  OBVIOUS
<1>1. ASSUME NEW p \in Ports, Owner(p) PROVE Shared!Next \/ Stutter
  <2>1. CASE New(p)
    BY <2>1, NewCreates DEF Shared!Next
  <2>2. ASSUME NEW s \in Slots, Add(p, s) PROVE Shared!Next
    BY <2>2, AddAcquires DEF Shared!Next
  <2>3. CASE DropPort(p)
    BY <2>3, DropReleases DEF Shared!Next
  <2>4. ASSUME NEW b \in {"live", "release", "drop_pool", "drop_port"},
               pc' = [pc EXCEPT ![p] = b], Owned(p), slots' = slots, context' = context
        PROVE  Stutter
    BY <2>4, OwnedKept, Stutters
  <2>5. CASE Remove(p)
    <3>1. Owned(p) /\ slots' = slots /\ context' = context
      BY <2>5 DEF Remove, memvars, Owned
    <3>2. PICK b \in {"live", "release"} : pc' = [pc EXCEPT ![p] = b]
      BY <2>5 DEF Remove
    <3> QED
      BY <2>4, <3>1, <3>2
  <2>6. CASE Release(p)
    BY <2>4, <2>6 DEF Release, ReleasePool, memvars, bridgevars, Owned
  <2>7. CASE DropRemove(p)
    BY <2>4, <2>7 DEF DropRemove, memvars, Owned
  <2>8. CASE DropPool(p)
    BY <2>4, <2>8 DEF DropPool, ReleasePool, memvars, bridgevars, Owned
  <2> QED
    BY <1>1, <2>1, <2>2, <2>3, <2>5, <2>6, <2>7, <2>8 DEF Owner
<1>2. CASE RunOp
  BY <1>2, RemovalReleases DEF Shared!Next
<1>3. ASSUME UNCHANGED <<ownvars, memvars, bridgevars>> PROVE Stutter
  <2>1. slots' = slots /\ context' = context /\ \A q \in Ports : Owned(q)' = Owned(q)
    BY <1>3 DEF ownvars, memvars, bridgevars, Owned
  <2> QED
    BY <2>1, Stutters
<1>4. ASSUME NEW s \in Slots, Call(s) PROVE Stutter
  BY <1>3, <1>4 DEF Call
<1>5. CASE Return
  BY <1>3, <1>5 DEF Return
<1>6. CASE UNCHANGED vars
  BY <1>3, <1>6 DEF vars
<1> QED
  BY <1>1, <1>2, <1>4, <1>5, <1>6 DEF Next

\* A CustomPort is an object shared by its owner and the bridge's slots, which
\* the step that takes the last holder away frees (media_port.rs:44-52, 193-199).
THEOREM SharedSpecHolds == Spec => SharedSpec
<1>1. Init => Shared!Init
  BY InitMaps
<1>2. TypeOK /\ PortInv /\ [Next]_vars
        => [Shared!Next]_<<[p \in Ports |-> HoldersOf(p)], context>>
  BY StepMaps
<1> QED
  BY <1>1, <1>2, Invariance, PTL DEF Spec, SharedSpec, Shared!Spec

===============================================================================
