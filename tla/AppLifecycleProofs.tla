-------------------------- MODULE AppLifecycleProofs --------------------------
(***************************************************************************)
(* Proofs about AppLifecycle, for every set of application threads and any *)
(* number of instances and of callbacks.                                   *)
(***************************************************************************)
EXTENDS AppLifecycle, TLAPS

LEMMA InitOK == Init => TypeOK /\ AppInv
<1> SUFFICES ASSUME Init PROVE TypeOK /\ AppInv
  OBVIOUS
<1>1. TypeOK
  <2>1. 0 \in 0..MaxInstances /\ 0 \in 0..MaxCallbacks
    BY InstancesAssumption, CallbacksAssumption
  <2>2. Idle \in Callbacks
    BY <2>1 DEF Idle, Callbacks
  <2> QED
    BY <2>1, <2>2 DEF Init, TypeOK, Steps
<1>2. AppInv
  BY DEF Init, AppInv, Singleton, HolderInv, CallbackInv, OwnReceiver, WithStack, WithSender, Idle
<1> QED
  BY <1>1, <1>2

\* Every step keeps the types.
LEMMA NewType == ASSUME TypeOK, AppInv, NEW t \in Threads, New(t) PROVE TypeOK'
<1> USE InstancesAssumption DEF TypeOK, Goto, Steps, pjvars, cbvars
<1>1. CASE Swap(t)
  BY <1>1 DEF Swap
<1>2. CASE SetEventSender(t)
  <2>1. mine[t] \in 1..MaxInstances
    BY <1>2 DEF SetEventSender, AppInv, HolderInv
  <2> QED
    BY <1>2, <2>1 DEF SetEventSender
<1>3. CASE Create(t)
  BY <1>3 DEF Create
<1>4. CASE InitStack(t)
  BY <1>4 DEF InitStack
<1>5. CASE Start(t)
  BY <1>5 DEF Start
<1>6. CASE RegisterTrace(t)
  BY <1>6 DEF RegisterTrace
<1> QED
  BY <1>1, <1>2, <1>3, <1>4, <1>5, <1>6 DEF New

LEMMA FinishType ==
    ASSUME TypeOK, NEW t \in Threads, StopWorkers(t) \/ Finish(t)
    PROVE  TypeOK'
<1> USE InstancesAssumption DEF TypeOK, Goto, Steps, pjvars, cbvars
<1>1. CASE StopWorkers(t)
  BY <1>1 DEF StopWorkers
<1>2. CASE JoinWorkers(t)
  BY <1>2 DEF JoinWorkers
<1>3. CASE UnregisterTrace(t)
  BY <1>3 DEF UnregisterTrace
<1>4. CASE ClearEventSender(t)
  BY <1>4 DEF ClearEventSender
<1>0. 0 \in 0..MaxInstances
  OBVIOUS
<1>5. CASE Destroy(t)
  <2>1. pc' \in [Threads -> Steps]
    BY <1>5 DEF Destroy
  <2> QED
    BY <1>0, <1>5, <2>1 DEF Destroy
<1>6. CASE Reset(t)
  <2>1. mine' \in [Threads -> 0..MaxInstances] /\ pc' \in [Threads -> Steps]
    BY <1>0, <1>6 DEF Reset
  <2>2. receivers' \in SUBSET (1..MaxInstances)
    BY <1>6 DEF Reset
  <2> QED
    BY <1>6, <2>1, <2>2 DEF Reset
<1> QED
  BY <1>1, <1>2, <1>3, <1>4, <1>5, <1>6 DEF Finish

\* What a callback may do.
LEMMA BodyType ==
    ASSUME NEW k \in Callers, NEW body \in Bodies(k)
    PROVE  /\ body.info \in BOOLEAN /\ body.sends \in 0..2 /\ body.traced \in BOOLEAN
           /\ body.traced => trace /\ k # "media"
<1>1. CASE body \in Traced /\ k # "media"
  <2>1. trace /\ body = [Sends EXCEPT !.traced = TRUE]
    BY <1>1 DEF Traced
  <2>2. body = [info |-> FALSE, sends |-> 1, traced |-> TRUE]
    BY <2>1 DEF Sends, Body
  <2>3. body.info = FALSE /\ body.sends = 1 /\ body.traced = TRUE
    BY <2>2
  <2>4. body.sends \in 0..2
    BY <2>3
  <2> QED
    BY <1>1, <2>1, <2>3, <2>4, Zenon
<1>2. CASE body \in {ReadsAndSends, Sends} \cup MediaState
  <2>1. \E i \in BOOLEAN, n \in {1, 2} : body = [info |-> i, sends |-> n, traced |-> FALSE]
    BY <1>2 DEF ReadsAndSends, Sends, MediaState, Body
  <2>2. body.info \in BOOLEAN /\ body.sends \in {1, 2} /\ body.traced = FALSE
    BY <2>1
  <2>3. body.sends \in 0..2
    BY <2>2
  <2> QED
    BY <2>2, <2>3, Zenon
<1> QED
  BY <1>1, <1>2 DEF Bodies

LEMMA CallbackType ==
    ASSUME TypeOK, AppInv, NEW k \in Callers, Callback(k) \/ RunCallback(k)
    PROVE  TypeOK'
<1> USE DEF TypeOK, tvars, pjvars
<1>1. CASE Callback(k)
  <2>1. calls + 1 \in 0..MaxCallbacks
    BY <1>1, CallbacksAssumption DEF Callback
  <2>2. PICK body \in Bodies(k) :
           cb' = [cb EXCEPT ![k] = [inst |-> stack, info |-> body.info, sends |-> body.sends,
                                    traced |-> body.traced]]
    BY <1>1 DEF Callback
  <2>3. body.info \in BOOLEAN /\ body.sends \in 0..2 /\ body.traced \in BOOLEAN
    BY BodyType, <2>2
  <2>4. [inst |-> stack, info |-> body.info, sends |-> body.sends, traced |-> body.traced] \in Callbacks
    BY <2>3 DEF Callbacks
  <2>5. cb' \in [Callers -> Callbacks]
    BY <2>2, <2>4
  <2> QED
    BY <1>1, <2>1, <2>5 DEF Callback
<1>2. CASE GetInfo(k)
  <2>1. Idle \in Callbacks
    BY InstancesAssumption DEF Idle, Callbacks
  <2>2. [cb[k] EXCEPT !.info = FALSE] \in Callbacks
    BY DEF Callbacks
  <2>3. cb' \in [Callers -> Callbacks]
    BY <1>2, <2>1, <2>2 DEF GetInfo
  <2> QED
    BY <1>2, <2>3 DEF GetInfo
<1>3. CASE SendEvent(k)
  <2>1. Idle \in Callbacks /\ [cb[k] EXCEPT !.sends = 1] \in Callbacks
    BY InstancesAssumption DEF Idle, Callbacks
  <2>2. cb' \in [Callers -> Callbacks]
    BY <1>3, <2>1 DEF SendEvent
  <2>3. cb[k].inst \in 1..MaxInstances
    BY <1>3 DEF SendEvent, AppInv, CallbackInv
  <2>4. delivered' \in SUBSET ((1..MaxInstances) \X (1..MaxInstances))
    BY <1>3, <2>3 DEF SendEvent
  <2> QED
    BY <1>3, <2>2, <2>4 DEF SendEvent
<1> QED
  BY <1>1, <1>2, <1>3 DEF RunCallback

-----------------------------------------------------------------------------
LEMMA NewInv == ASSUME TypeOK, AppInv, NEW t \in Threads, New(t) PROVE AppInv'
<1> USE DEF AppInv, TypeOK, Goto, pjvars, cbvars, Singleton, HolderInv, CallbackInv,
        OwnReceiver, WithStack, WithSender
<1>1. CASE Swap(t)
  BY <1>1 DEF Swap
<1>2. CASE SetEventSender(t)
  BY <1>2 DEF SetEventSender
<1>3. CASE Create(t)
  BY <1>3 DEF Create
<1>4. CASE InitStack(t)
  BY <1>4 DEF InitStack
<1>5. CASE Start(t)
  BY <1>5 DEF Start
<1>6. CASE RegisterTrace(t)
  BY <1>6 DEF RegisterTrace
<1> QED
  BY <1>1, <1>2, <1>3, <1>4, <1>5, <1>6 DEF New

LEMMA FinishInv ==
    ASSUME TypeOK, AppInv, NEW t \in Threads, StopWorkers(t) \/ Finish(t)
    PROVE  AppInv'
<1> USE DEF AppInv, TypeOK, Goto, pjvars, cbvars, Singleton, HolderInv, CallbackInv,
        OwnReceiver, WithStack, WithSender
<1>1. CASE StopWorkers(t)
  BY <1>1 DEF StopWorkers
<1>2. CASE JoinWorkers(t)
  BY <1>2 DEF JoinWorkers
<1>3. CASE UnregisterTrace(t)
  <2>1. \A k \in Callers : ~cb[k].traced
    BY <1>3 DEF UnregisterTrace, Callers, Idle
  <2> QED
    BY <1>3, <2>1 DEF UnregisterTrace
<1>4. CASE ClearEventSender(t)
  BY <1>4 DEF ClearEventSender
<1>5. CASE Destroy(t)
  BY <1>5 DEF Destroy
<1>6. CASE Reset(t)
  BY <1>6 DEF Reset
<1> QED
  BY <1>1, <1>2, <1>3, <1>4, <1>5, <1>6 DEF Finish

LEMMA CallbackStep ==
    ASSUME TypeOK, AppInv, NEW k \in Callers, Callback(k) \/ RunCallback(k)
    PROVE  AppInv'
<1> USE DEF AppInv, tvars, pjvars
<1>0. (Singleton /\ HolderInv)'
  BY DEF Callback, RunCallback, GetInfo, SendEvent, Singleton, HolderInv
<1>1. CASE Callback(k)
  <2>1. PICK body \in Bodies(k) :
           cb' = [cb EXCEPT ![k] = [inst |-> stack, info |-> body.info, sends |-> body.sends,
                                    traced |-> body.traced]]
    BY <1>1 DEF Callback
  <2>2. body.traced => trace /\ k # "media"
    BY BodyType, <2>1
  <2>3. \A t \in Threads :
          /\ pc[t] \in {"join", "untrace"} => k # "caller"
          /\ pc[t] = "untrace" => k # "worker"
    BY <1>1 DEF Callback, Running, CallbackInv, Singleton
  <2>4. stack # 0
    BY <1>1 DEF Callback
  <2>5. CallbackInv'
    BY <1>1, <2>1, <2>2, <2>3, <2>4 DEF Callback, CallbackInv, TypeOK
  <2> QED
    BY <1>0, <1>1, <2>5 DEF Callback, OwnReceiver
<1>2. CASE GetInfo(k)
  <2>1. cb[k] # Idle
    BY <1>2 DEF GetInfo, Idle
  <2>2. \A j \in Callers :
           cb'[j] = Idle \/ (cb[j] # Idle /\ cb'[j].inst = cb[j].inst /\ cb'[j].traced = cb[j].traced)
    BY <1>2, <2>1 DEF GetInfo, TypeOK, Callbacks
  <2>3. CallbackInv'
    <3>1. UNCHANGED <<pc, stack, polling, trace>>
      BY <1>2 DEF GetInfo
    <3>2. ~Idle.traced
      BY DEF Idle
    <3> QED
      BY <2>2, <3>1, <3>2 DEF CallbackInv, Callers
  <2> QED
    BY <1>0, <1>2, <2>3 DEF GetInfo, OwnReceiver
<1>3. CASE SendEvent(k)
  <2>1. cb[k].inst = stack /\ stack # 0
    BY <1>3 DEF SendEvent, CallbackInv
  <2>2. event_tx \in {0, stack}
    BY <2>1 DEF HolderInv, WithSender
  <2>3. OwnReceiver'
    BY <1>3, <2>1, <2>2 DEF SendEvent, OwnReceiver, TypeOK
  <2>4. CallbackInv'
    <3>1. \A j \in Callers :
             cb'[j] = Idle \/ (cb[j] # Idle /\ cb'[j].inst = cb[j].inst /\ cb'[j].traced = cb[j].traced)
      BY <1>3 DEF SendEvent, TypeOK, Callbacks
    <3> QED
      BY <1>3, <3>1 DEF SendEvent, CallbackInv, Idle
  <2> QED
    BY <1>0, <2>3, <2>4
<1> QED
  BY <1>1, <1>2, <1>3 DEF RunCallback

-----------------------------------------------------------------------------
LEMMA StepOK == TypeOK /\ AppInv /\ [Next]_vars => (TypeOK /\ AppInv)'
<1> SUFFICES ASSUME TypeOK, AppInv, [Next]_vars PROVE TypeOK' /\ AppInv'
  OBVIOUS
<1>1. ASSUME NEW t \in Threads, New(t) PROVE TypeOK' /\ AppInv'
  BY <1>1, NewType, NewInv
<1>2. ASSUME NEW t \in Threads, StopWorkers(t) \/ Finish(t) PROVE TypeOK' /\ AppInv'
  BY <1>2, FinishType, FinishInv
<1>3. ASSUME NEW i \in 1..MaxInstances, DropReceiver(i) PROVE TypeOK' /\ AppInv'
  BY <1>3 DEF DropReceiver, TypeOK, AppInv, Singleton, HolderInv, CallbackInv, OwnReceiver,
        tvars, pjvars, cbvars
<1>4. ASSUME NEW k \in Callers, Callback(k) \/ RunCallback(k) PROVE TypeOK' /\ AppInv'
  BY <1>4, CallbackType, CallbackStep
<1>5. CASE UNCHANGED vars
  BY <1>5 DEF vars, TypeOK, AppInv, Singleton, HolderInv, CallbackInv, OwnReceiver,
        tvars, pjvars, cbvars
<1> QED
  BY <1>1, <1>2, <1>3, <1>4, <1>5 DEF Next

LEMMA Invariance == Spec => [](TypeOK /\ AppInv)
  BY InitOK, StepOK, PTL DEF Spec

\* The process-wide state of pjsua_app.rs and event.rs has its types, and no event
\* is ever sent to "no channel".
THEOREM AppTypes == Spec => []TypeOK
  BY Invariance, PTL

\* What new() and Drop keep at each of their steps, whoever interleaves.
THEOREM AppInvariant == Spec => []AppInv
  BY Invariance, PTL

\* One PjsuaApp at a time uses PJSUA, however many threads call new() at once and
\* whichever of its steps fail (pjsua_app.rs:160, 1380-1396).
THEOREM SingletonHolds == Spec => []Singleton
<1>1. AppInv => Singleton
  BY DEF AppInv
<1> QED
  BY <1>1, Invariance, PTL

\* Events of one PjsuaApp never reach the receiver of another, callbacks in flight
\* during Drop included (pjsua_app.rs:1383-1389).
THEOREM OwnReceiverHolds == Spec => []OwnReceiver
<1>1. AppInv => OwnReceiver
  BY DEF AppInv
<1> QED
  BY <1>1, Invariance, PTL

\* A PjsuaApp that is up keeps its sender: no other new() takes its events.
THEOREM SenderHeldHolds == Spec => []SenderHeld
<1>1. AppInv => SenderHeld
  BY DEF AppInv, HolderInv, SenderHeld, WithSender, WithStack
<1> QED
  BY <1>1, Invariance, PTL

\* The trace module is never registered without a PJSUA (event.rs:452), nor taken
\* out under a thread that is tracing.
THEOREM TraceInsideHolds == Spec => []TraceInside
<1>1. TypeOK /\ AppInv => TraceInside
  BY DEF AppInv, HolderInv, CallbackInv, TraceInside, WithStack
<1> QED
  BY <1>1, Invariance, PTL

===============================================================================
