------------------------------ MODULE DevicesProofs ------------------------------
(***************************************************************************)
(* MediaDevices: the end-of-file callback never runs on a freed box, and   *)
(* the H.264 passthrough is registered once, with the right handler and    *)
(* parameters, or not at all.                                              *)
(***************************************************************************)
EXTENDS MediaDevices, FiniteSetTheorems, TLAPS

DevicesStep == InstallStep \/ ReconfigureStep \/ DestroyCodecs \/ DestroyDevices

\* A step of the composition is one of the players or one of the passthrough.
LEMMA ComposedStep == [Next]_mvars => [PlayersNext]_pvars /\ [DevicesStep]_ivars
<1> SUFFICES ASSUME [Next]_mvars PROVE [PlayersNext]_pvars /\ [DevicesStep]_ivars  OBVIOUS
<1>1. CASE New  BY <1>1, Zenon DEF New
<1>2. CASE Methods  BY <1>2, Zenon DEF Methods, PlayersNext, DevicesStep
<1>3. CASE HandleMethods  BY <1>3, Zenon DEF HandleMethods, DevicesStep
<1>4. CASE Pjmedia  BY <1>4, Zenon DEF Pjmedia, EventStep, PlayersNext
<1>5. CASE Destroy  BY <1>5, Zenon DEF Destroy, PlayersNext, DevicesStep
<1>6. CASE UNCHANGED mvars  BY <1>6, Zenon DEF mvars
<1> QED  BY <1>1, <1>2, <1>3, <1>4, <1>5, <1>6, Zenon DEF Next

-----------------------------------------------------------------------------
\* Players.

LEMMA PlayersTypes == PlayersTypeOK /\ [PlayersNext]_pvars => PlayersTypeOK'
<1> SUFFICES ASSUME PlayersTypeOK, [PlayersNext]_pvars PROVE PlayersTypeOK'  OBVIOUS
<1>0. \A p \in PlayerIds : cb[p] # 0 => cb[p] \in 1..Len(boxes)
  BY DEF PlayersTypeOK
<1> USE DEF PlayersTypeOK, playervars, boxvars
<1>1. ASSUME NEW p \in PlayerIds, NEW once \in BOOLEAN, CreatePlayer(p, once)
      PROVE  PlayersTypeOK'
  BY <1>1 DEF CreatePlayer
<1>2. ASSUME NEW p \in PlayerIds, DestroyPlayer(p) PROVE PlayersTypeOK'
  <2>1. dropped' \subseteq 1..Len(boxes)
    BY <1>0, <1>2 DEF DestroyPlayer
  <2> QED  BY <1>2, <2>1 DEF DestroyPlayer
<1>3. ASSUME NEW p \in PlayerIds, Register(p) PROVE PlayersTypeOK'
  <2>1. boxes' \in Seq({"held", "freed"}) /\ Len(boxes') = Len(boxes) + 1 /\ Len(boxes) \in Nat
    BY <1>3 DEF Register
  <2>2. cb' \in [PlayerIds -> 0..Len(boxes')]
    BY <1>3, <2>1 DEF Register
  <2>0. 1..Len(boxes) \subseteq 1..Len(boxes') /\ Len(boxes) + 1 \in 1..Len(boxes')
    BY <2>1
  <2>3. dropped' \subseteq 1..Len(boxes')
    <3>1. dropped' = dropped \cup ({cb[p]} \ {0})
      BY <1>3 DEF Register
    <3> QED  BY <1>0, <2>0, <3>1
  <2>4. late' \subseteq 1..Len(boxes')
    <3>1. late' \subseteq late \cup {Len(boxes) + 1}
      BY <1>3 DEF Register
    <3> QED  BY <2>0, <3>1
  <2> QED  BY <1>3, <2>1, <2>2, <2>3, <2>4 DEF Register
<1>4. ASSUME NEW p \in PlayerIds, ReachEof(p) PROVE PlayersTypeOK'
  BY <1>4 DEF ReachEof
<1>5. ASSUME NEW p \in PlayerIds, PostEof(p) PROVE PlayersTypeOK'
  BY <1>5 DEF PostEof
<1>6. ASSUME NEW p \in PlayerIds, Deliver(p) PROVE PlayersTypeOK'
  BY <1>6 DEF Deliver
<1>7. ASSUME Trampoline PROVE PlayersTypeOK'
  <2>1. boxes' \in Seq({"held", "freed"}) /\ Len(boxes') = Len(boxes)
    BY <1>7 DEF Trampoline
  <2> QED  BY <1>7, <2>1 DEF Trampoline
<1>8. ASSUME DestroyPlayers PROVE PlayersTypeOK'
  <2>1. dropped' \subseteq 1..Len(boxes)
    BY <1>0, <1>8 DEF DestroyPlayers
  <2> QED  BY <1>8, <2>1 DEF DestroyPlayers
<1>9. ASSUME UNCHANGED pvars PROVE PlayersTypeOK'
  BY <1>9 DEF pvars
<1> QED  BY <1>1, <1>2, <1>3, <1>4, <1>5, <1>6, <1>7, <1>8, <1>9
          DEF PlayersNext, PlayerCalls, PlayerEvents

\* With callbacks on no_loop players alone, a box is freed only behind its
\* player's one event.
LEMMA BoxInvStep ==
    ASSUME ~LoopCallbacks
    PROVE  PlayersTypeOK /\ BoxInv /\ [PlayersNext]_pvars => BoxInv'
<1> SUFFICES ASSUME PlayersTypeOK, BoxInv, [PlayersNext]_pvars PROVE BoxInv'  OBVIOUS
<1>0. Len(boxes) \in Nat /\ \A p \in PlayerIds : cb[p] \in 0..Len(boxes)
  BY DEF PlayersTypeOK
<1> USE DEF PlayersTypeOK, BoxInv, BoxAlive, Pending, playervars, boxvars
<1>1. ASSUME NEW p \in PlayerIds, NEW once \in BOOLEAN, CreatePlayer(p, once)
      PROVE  BoxInv'
  BY <1>1 DEF CreatePlayer
<1>2. ASSUME NEW p \in PlayerIds, DestroyPlayer(p) PROVE BoxInv'
  BY <1>2 DEF DestroyPlayer
<1>3. ASSUME NEW p \in PlayerIds, Register(p) PROVE BoxInv'
  <2> DEFINE b == Len(boxes) + 1
  <2>1. /\ boxes' = Append(boxes, "held") /\ cb' = [cb EXCEPT ![p] = b]
        /\ UNCHANGED <<no_loop, eof, creates, posted, running>>
        /\ eof[p] # "free" /\ no_loop[p]
    BY <1>3 DEF Register
  <2>2. boxes'[b] = "held" /\ \A k \in 1..Len(boxes) : boxes'[k] = boxes[k]
    BY <2>1
  <2>3. \A q \in PlayerIds : cb'[q] = IF q = p THEN b ELSE cb[q]
    BY <2>1
  <2>4. BoxAlive'
    BY <2>1, <2>2
  <2>5. \A q \in PlayerIds :
           /\ cb'[q] # 0 => no_loop'[q] /\ eof'[q] # "free"
           /\ posted'[q] > 0 => posted'[q] = 1 /\ eof'[q] = "posted" /\ cb'[q] # 0
           /\ Pending(q)' => boxes'[cb'[q]] = "held" /\ running' # cb'[q]
    BY <1>0, <2>1, <2>2, <2>3
  <2>6. \A q, r \in PlayerIds : cb'[q] # 0 /\ cb'[q] = cb'[r] => q = r
    BY <1>0, <2>3
  <2> QED  BY <2>4, <2>5, <2>6
<1>4. ASSUME NEW p \in PlayerIds, ReachEof(p) PROVE BoxInv'
  BY <1>4 DEF ReachEof
<1>5. ASSUME NEW p \in PlayerIds, PostEof(p) PROVE BoxInv'
  BY <1>5 DEF PostEof
<1>6. ASSUME NEW p \in PlayerIds, Deliver(p) PROVE BoxInv'
  BY <1>6 DEF Deliver
<1>7. ASSUME Trampoline PROVE BoxInv'
  <2>1. running' = 0 /\ UNCHANGED playervars /\ UNCHANGED posted
        /\ \A k \in 1..Len(boxes) : k # running => boxes'[k] = boxes[k]
    BY <1>7 DEF Trampoline
  <2>2. \A q \in PlayerIds : Pending(q)' => boxes'[cb'[q]] = "held" /\ running' # cb'[q]
    BY <1>0, <2>1
  <2> QED  BY <2>1, <2>2
<1>8. ASSUME DestroyPlayers PROVE BoxInv'
  BY <1>8 DEF DestroyPlayers
<1>9. ASSUME UNCHANGED pvars PROVE BoxInv'
  BY <1>9 DEF pvars
<1> QED  BY <1>1, <1>2, <1>3, <1>4, <1>5, <1>6, <1>7, <1>8, <1>9
          DEF PlayersNext, PlayerCalls, PlayerEvents

-----------------------------------------------------------------------------
\* The H.264 passthrough.

LEMMA ModType == ASSUME NEW x \in Nat PROVE x % CUintMod \in CUint
<1>1. \A m \in Nat \ {0}, y \in Nat : y % m \in 0..(m - 1)
  OBVIOUS
<1> QED  BY <1>1, CUintAssumption DEF CUint

LEMMA CConfigType == ASSUME NEW c \in PassthroughConfig PROVE CConfig(c) \in VptConfig
<1>1. c.fps \in CUint /\ c.poll_fps \in CUint \cup {None} /\ c.max_frame_size \in Nat
      /\ c.payload_type \in CUint
  BY DEF PassthroughConfig
<1>2. 2 * c.fps \in Nat
  BY <1>1, CUintAssumption DEF CUint
<1>3. (2 * c.fps) % CUintMod \in CUint /\ c.max_frame_size % CUintMod \in CUint
  BY <1>1, <1>2, ModType
<1> QED  BY <1>1, <1>3 DEF CConfig, VptConfig

\* What the reset makes of the newest handle's config.
LEMMA ResetTypes ==
    ASSUME InstallTypeOK, InstallInv, phase = "entered", Reset
    PROVE  /\ cfg' \in VptConfig /\ framebytes' \in CUint
           /\ format' \in {"none", "blank"}
           /\ cfg'.max_frame_size = limits[Len(limits)].max_frame_size % CUintMod
           /\ framebytes' = (AuHdrSize + cfg'.max_frame_size) % CUintMod
<1> DEFINE v == CConfig(limits[Len(limits)])
<1>1. limits[Len(limits)] \in PassthroughConfig
  BY DEF InstallInv, InstallTypeOK
<1>2. v \in VptConfig /\ v.max_frame_size = limits[Len(limits)].max_frame_size % CUintMod
  <2>1. v \in VptConfig
    BY <1>1, CConfigType
  <2> QED  BY <2>1 DEF CConfig
<1>3. v.max_frame_size \in Nat
  BY <1>2, CUintAssumption DEF VptConfig, CUint
<1>4. AuHdrSize + v.max_frame_size \in Nat
  BY <1>3, CUintAssumption
<1>5. cfg' = v /\ framebytes' = (AuHdrSize + v.max_frame_size) % CUintMod /\ format' = Blanked
  BY DEF Reset
<1>6. framebytes' \in CUint
  BY <1>4, <1>5, ModType
<1> HIDE DEF v
<1> QED  BY <1>2, <1>5, <1>6 DEF Blanked

\* A handle's config, with the max_queue that install or reconfigure stores.
LEMMA LimitType ==
    ASSUME NEW c \in PassthroughConfig, NEW n \in Nat, NEW d,
           d = [c EXCEPT !.max_queue = AtLeastOne(n)]
    PROVE  /\ d \in PassthroughConfig /\ d.max_queue > 0
           /\ d.max_frame_size = c.max_frame_size
<1>1. AtLeastOne(n) \in Nat /\ AtLeastOne(n) > 0
  BY DEF AtLeastOne
<1> QED  BY <1>1 DEF PassthroughConfig

\* The configs stay what they were, the queue limit aside.
StoredLimits(u) ==
    /\ limits' \in Seq(PassthroughConfig) /\ Len(limits') = Len(limits)
    /\ \A h \in 1..Len(limits) :
          limits'[h].max_queue > 0 /\ limits'[h].max_frame_size = limits[h].max_frame_size

LEMMA StoreLimitLemma ==
    ASSUME InstallTypeOK, NEW u \in Users, StoreLimit(u)
    PROVE  StoredLimits(u)
<1>1. pc[u] \in [step : {"write", "register", "store"}, h : 1..Len(limits), c : Configs]
  BY DEF InstallTypeOK, StoreLimit, Outside, Steps
<1> DEFINE k == pc[u].h
           d == [limits[k] EXCEPT !.max_queue = AtLeastOne(pc[u].c.max_queue)]
<1>2. k \in 1..Len(limits) /\ pc[u].c \in PassthroughConfig /\ pc[u].c.max_queue \in Nat
  BY <1>1, ConfigsAssumption DEF PassthroughConfig
<1>3. limits \in Seq(PassthroughConfig) /\ limits[k] \in PassthroughConfig
  BY <1>2 DEF InstallTypeOK
<1>4. d \in PassthroughConfig /\ d.max_queue > 0 /\ d.max_frame_size = limits[k].max_frame_size
  BY <1>2, <1>3, LimitType
<1>5. limits' = [limits EXCEPT ![k] = d]
  BY DEF StoreLimit
<1>6. \A h \in 1..Len(limits) : limits[h].max_queue > 0
  BY DEF InstallTypeOK
<1> HIDE DEF d, k
<1> QED  BY <1>2, <1>3, <1>4, <1>5, <1>6 DEF StoredLimits

LEMMA InstallTypes == InstallTypeOK /\ InstallInv /\ [DevicesStep]_ivars => InstallTypeOK'
<1> SUFFICES ASSUME InstallTypeOK, InstallInv, [DevicesStep]_ivars PROVE InstallTypeOK'  OBVIOUS
<1>0. Len(limits) \in Nat /\ MaxInstalls \in Nat /\ codec \in {0, 1}
  BY InstallsAssumption DEF InstallTypeOK, InstallInv
<1> USE DEF InstallTypeOK, handlevars, params, formats, listed, vptvars
<1>1. ASSUME NEW c \in Configs, Install(c) PROVE InstallTypeOK'
  <2> DEFINE d == [c EXCEPT !.max_queue = AtLeastOne(c.max_queue)]
  <2>0. c \in PassthroughConfig /\ c.max_queue \in Nat
    BY ConfigsAssumption DEF PassthroughConfig
  <2>1. d \in PassthroughConfig /\ d.max_queue > 0
    BY <2>0, LimitType
  <2>2. limits' = Append(limits, d) /\ Len(limits) < MaxInstalls
    BY <1>1 DEF Install
  <2> HIDE DEF d
  <2>3. limits' \in Seq(PassthroughConfig) /\ Len(limits') = Len(limits) + 1 /\ Len(limits') <= MaxInstalls
    BY <1>0, <2>1, <2>2
  <2>4. \A h \in 1..Len(limits') : limits'[h].max_queue > 0
    BY <1>0, <2>1, <2>2
  <2>5. Steps(Len(limits)) \subseteq Steps(Len(limits'))
    BY <1>0, <2>3 DEF Steps
  <2> QED  BY <1>0, <1>1, <2>3, <2>4, <2>5 DEF Install
<1>2. ASSUME CreatePool \/ NoPool PROVE InstallTypeOK'
  <2>1. cfg' \in VptConfig /\ framebytes' \in CUint /\ format' \in {"none", "blank"}
    BY <1>2, ResetTypes DEF CreatePool, NoPool
  <2>2. CASE CreatePool  BY <2>1, <2>2 DEF CreatePool
  <2>3. CASE NoPool  BY <2>1, <2>3 DEF NoPool
  <2> QED  BY <1>2, <2>2, <2>3
<1>3. ASSUME InitRefused \/ RegisterFormat \/ RegisterMatch \/ RegisterCodec \/ CodecRefused
             \/ RegisterDevice
      PROVE  InstallTypeOK'
  <2>1. CASE InitRefused  BY <2>1 DEF InitRefused
  <2>2. CASE RegisterCodec  BY <1>0, <2>2 DEF RegisterCodec
  <2>3. CASE CodecRefused
    <3>1. format' \in {"none", "AUH4", "blank"}
      BY <2>3 DEF CodecRefused, Filled
    <3> QED  BY <2>3, <3>1 DEF CodecRefused
  <2>4. CASE RegisterDevice  BY <2>4 DEF RegisterDevice
  <2>5. CASE RegisterFormat  BY <2>5 DEF RegisterFormat
  <2>6. CASE RegisterMatch  BY <2>6 DEF RegisterMatch
  <2> QED  BY <1>3, <2>1, <2>2, <2>3, <2>4, <2>5, <2>6
<1>4. ASSUME DeviceRefused \/ LookupFails PROVE InstallTypeOK'
  <2>1. codec = 1
    BY <1>4 DEF DeviceRefused, LookupFails, Building, InstallInv
  <2>2. codec' \in Nat
    BY <1>4, <2>1 DEF DeviceRefused, LookupFails
  <2>3. UNCHANGED <<handlevars, inited, params, formats, device, pc>>
        /\ enumerated' = None /\ pool' = FALSE /\ phase' \in {"failed", "crashed"}
    BY <1>4 DEF DeviceRefused, LookupFails
  <2> QED  BY <2>2, <2>3, Zenon
<1>5. ASSUME InstallReturns PROVE InstallTypeOK'
  <2>1. Len(limits) \in 1..Len(limits)
    BY <1>0, <1>5 DEF InstallReturns, InstallInv
  <2>2. shared' \in 0..Len(limits) /\ mine' \in 0..Len(limits) /\ returned' \subseteq 1..Len(limits)
    <3>0. 0 \in 0..Len(limits) /\ Len(limits) \in 0..Len(limits)
      BY <1>0
    <3>1. CASE phase = "failed"
      BY <1>5, <3>0, <3>1, Zenon DEF InstallReturns
    <3>2. CASE phase = "done"
      BY <1>5, <2>1, <3>0, <3>2, Zenon DEF InstallReturns
    <3> QED  BY <1>5, <3>1, <3>2 DEF InstallReturns
  <2>3. UNCHANGED <<limits, vptvars, pc>> /\ phase' = "idle"
    BY <1>5 DEF InstallReturns
  <2> QED  BY <2>2, <2>3, Zenon
<1>6. ASSUME NEW u \in Users, NEW h \in returned, NEW c \in Configs, Reconfigure(u, h, c)
      PROVE  InstallTypeOK'
  <2>1. pc' = [pc EXCEPT ![u] = [step |-> "write", h |-> h, c |-> c]] /\ h \in 1..Len(limits)
    BY <1>6 DEF Reconfigure
  <2>2. [step |-> "write", h |-> h, c |-> c] \in Steps(Len(limits))
    BY <2>1 DEF Steps
  <2> QED  BY <1>0, <1>6, <2>1, <2>2 DEF Reconfigure
<1>7. ASSUME NEW u \in Users, WriteConfig(u) \/ Reregister(u) \/ ReregisterFails(u) \/ StoreLimit(u)
      PROVE  InstallTypeOK'
  <2>1. pc[u] \in [step : {"write", "register", "store"}, h : 1..Len(limits), c : Configs]
    BY <1>7 DEF WriteConfig, Reregister, ReregisterFails, StoreLimit, Outside, Steps
  <2>2. CASE WriteConfig(u)
    <3>1. [pc[u] EXCEPT !.step = "register"] \in Steps(Len(limits))
      BY <2>1 DEF Steps
    <3>2. pc' = [pc EXCEPT ![u] = [pc[u] EXCEPT !.step = "register"]]
      BY <2>2 DEF WriteConfig
    <3>3. cfg' \in VptConfig
      BY <2>1, <2>2, CConfigType, ConfigsAssumption DEF WriteConfig
    <3> QED  BY <2>1, <2>2, <3>1, <3>2, <3>3 DEF WriteConfig
  <2>3. CASE Reregister(u)
    <3>1. [pc[u] EXCEPT !.step = "store"] \in Steps(Len(limits))
      BY <2>1 DEF Steps
    <3>2. pc' = [pc EXCEPT ![u] = [pc[u] EXCEPT !.step = "store"]]
      BY <2>3 DEF Reregister
    <3> QED  BY <1>0, <2>1, <2>3, <3>1, <3>2 DEF Reregister
  <2>4. CASE ReregisterFails(u)
    BY <2>4 DEF ReregisterFails, Steps
  <2>5. CASE StoreLimit(u)
    <3>1. StoredLimits(u)
      BY <2>1, <2>5, StoreLimitLemma
    <3> QED  BY <2>5, <3>1 DEF StoreLimit, Steps, StoredLimits
  <2> QED  BY <1>7, <2>2, <2>3, <2>4, <2>5
<1>8. ASSUME DestroyCodecs \/ DestroyDevices PROVE InstallTypeOK'
  <2>1. CASE DestroyCodecs  BY <2>1 DEF DestroyCodecs
  <2>2. CASE DestroyDevices
    <3>1. mine' \in 0..Len(limits)
      BY <1>0, <2>2 DEF DestroyDevices
    <3>2. inited' \in BOOLEAN /\ pool' \in BOOLEAN /\ device' \in BOOLEAN
      BY <2>2, Zenon DEF DestroyDevices
    <3>3. UNCHANGED <<shared, limits, returned, params, fmt_match, listed, pc>> /\ phase' = "idle"
      BY <2>2, Zenon DEF DestroyDevices
    <3>4. format' \in {"none", "AUH4", "blank"}
      BY <2>2 DEF DestroyDevices
    <3> QED  BY <3>1, <3>2, <3>3, <3>4, Zenon
  <2> QED  BY <1>8, <2>1, <2>2
<1>9. ASSUME UNCHANGED ivars PROVE InstallTypeOK'
  BY <1>9 DEF ivars
<1> QED  BY <1>1, <1>2, <1>3, <1>4, <1>5, <1>6, <1>7, <1>8, <1>9
          DEF DevicesStep, InstallStep, ReconfigureStep

\* Whoever finds the codec listed and takes it out is alone until it is back.
LEMMA InstallInvStep == InstallTypeOK /\ InstallInv /\ [DevicesStep]_ivars => InstallInv'
<1> SUFFICES ASSUME InstallTypeOK, InstallInv, [DevicesStep]_ivars PROVE InstallInv'  OBVIOUS
<1>0. /\ Len(limits) \in Nat /\ (limits # <<>> => Len(limits) > 0)
      /\ phase \in {"idle", "entered", "pool", "format", "match", "codec", "done", "failed",
                    "destroying", "crashed"}
      /\ \A u \in Users : pc[u] = Outside \/ pc[u].step \in {"write", "register", "store"}
      /\ Outside.step = "outside"
  BY DEF InstallTypeOK, Outside, Steps
<1> USE DEF InstallInv, Building, Clear, Offered, OffersCurrent, Reconfiguring,
            handlevars, params, formats, listed, vptvars
<1>1. ASSUME NEW c \in Configs, Install(c) PROVE InstallInv'
  BY <1>0, <1>1 DEF Install, InstallTypeOK
<1>2. ASSUME CreatePool \/ NoPool \/ InitRefused \/ RegisterFormat \/ RegisterMatch
             \/ RegisterCodec \/ CodecRefused \/ RegisterDevice \/ DeviceRefused \/ LookupFails
      PROVE  InstallInv'
  <2>1. CASE CreatePool \/ NoPool
    <3>1. /\ cfg'.max_frame_size = limits[Len(limits)].max_frame_size % CUintMod
          /\ framebytes' = (AuHdrSize + cfg'.max_frame_size) % CUintMod
      BY <2>1, ResetTypes DEF CreatePool, NoPool
    <3>2. CASE CreatePool  BY <1>0, <3>1, <3>2 DEF CreatePool
    <3>3. CASE NoPool  BY <1>0, <3>1, <3>3 DEF NoPool
    <3> QED  BY <2>1, <3>2, <3>3
  <2>2. CASE InitRefused  BY <1>0, <2>2 DEF InitRefused
  <2>3. CASE RegisterFormat  BY <1>0, <2>3 DEF RegisterFormat
  <2>4. CASE RegisterMatch  BY <1>0, <2>4 DEF RegisterMatch
  <2>5. CASE RegisterCodec  BY <1>0, <2>5 DEF RegisterCodec
  <2>6. CASE CodecRefused  BY <1>0, <2>6 DEF CodecRefused
  <2>7. CASE RegisterDevice  BY <1>0, <2>7 DEF RegisterDevice
  <2>8. CASE DeviceRefused  BY <1>0, <2>8 DEF DeviceRefused
  <2>9. CASE LookupFails  BY <1>0, <2>9 DEF LookupFails
  <2> QED  BY <1>2, <2>1, <2>2, <2>3, <2>4, <2>5, <2>6, <2>7, <2>8, <2>9
<1>3. ASSUME InstallReturns PROVE InstallInv'
  BY <1>0, <1>3 DEF InstallReturns
<1>4. ASSUME NEW u \in Users, NEW h \in returned, NEW c \in Configs, Reconfigure(u, h, c)
      PROVE  InstallInv'
  <2>1. \A v \in Users : v # u => pc'[v] = pc[v]
    BY <1>4 DEF Reconfigure, InstallTypeOK
  <2>2. Reconfiguring = {} /\ codec' = 0
    BY <1>4 DEF Reconfigure
  <2>3. \A v \in Reconfiguring' : v = u
    BY <2>1, <2>2
  <2>4. pc'[u] = [step |-> "write", h |-> h, c |-> c] /\ pc'[u].step = "write" /\ pc'[u].c = c
    BY <1>4 DEF Reconfigure, InstallTypeOK
  <2>5. CConfig(c).max_frame_size = cfg.max_frame_size /\ UNCHANGED <<cfg, limits>>
    BY <1>4 DEF Reconfigure, SameBuffers
  <2>6. \A v \in Users :
           pc'[v].step = "write" => CConfig(pc'[v].c).max_frame_size = cfg'.max_frame_size
    BY <2>1, <2>4, <2>5
  <2> QED  BY <1>0, <1>4, <2>1, <2>2, <2>3, <2>6 DEF Reconfigure
<1>5. ASSUME NEW u \in Users, WriteConfig(u) PROVE InstallInv'
  <2>1. /\ \A v \in Users : v # u => pc'[v] = pc[v]
        /\ pc'[u].step = "register"
    BY <1>5, <1>0 DEF WriteConfig, InstallTypeOK
  <2>2. u \in Reconfiguring /\ Reconfiguring' = Reconfiguring
    BY <1>5, <2>1 DEF WriteConfig
  <2>3. pc[u] # Outside
    BY <1>0, <1>5 DEF WriteConfig
  <2>4. cfg'.max_frame_size = cfg.max_frame_size
    BY <1>5 DEF WriteConfig
  <2> QED  BY <1>0, <1>5, <2>1, <2>2, <2>3, <2>4 DEF WriteConfig
<1>6. ASSUME NEW u \in Users, Reregister(u) PROVE InstallInv'
  <2>1. /\ \A v \in Users : v # u => pc'[v] = pc[v]
        /\ pc'[u].step = "store"
    BY <1>6, <1>0 DEF Reregister, InstallTypeOK
  <2>2. codec = 0 /\ Reconfiguring' = {}
    BY <1>6, <2>1 DEF Reregister
  <2>3. pc[u] # Outside
    BY <1>0, <1>6 DEF Reregister
  <2> QED  BY <1>0, <1>6, <2>1, <2>2, <2>3 DEF Reregister
<1>7. ASSUME NEW u \in Users, ReregisterFails(u) \/ StoreLimit(u) PROVE InstallInv'
  <2>1. /\ \A v \in Users : v # u => pc'[v] = pc[v]
        /\ pc'[u] = Outside
    BY <1>7 DEF ReregisterFails, StoreLimit, InstallTypeOK
  <2>2. /\ Len(limits') = Len(limits)
        /\ \A n \in 1..Len(limits) : limits'[n].max_frame_size = limits[n].max_frame_size
    BY <1>7, StoreLimitLemma DEF ReregisterFails, StoredLimits
  <2>3. Reconfiguring' \subseteq Reconfiguring
    BY <1>0, <2>1
  <2> QED  BY <1>0, <1>7, <2>1, <2>2, <2>3 DEF ReregisterFails, StoreLimit
<1>8. ASSUME DestroyCodecs PROVE InstallInv'
  BY <1>0, <1>8 DEF DestroyCodecs
<1>9. ASSUME DestroyDevices PROVE InstallInv'
  BY <1>0, <1>9 DEF DestroyDevices
<1>10. ASSUME UNCHANGED ivars PROVE InstallInv'
  BY <1>10 DEF ivars
<1> QED  BY <1>1, <1>2, <1>3, <1>4, <1>5, <1>6, <1>7, <1>8, <1>9, <1>10
          DEF DevicesStep, InstallStep, ReconfigureStep

-----------------------------------------------------------------------------
\* The theorems.

LEMMA InitHolds == Init => TypeOK /\ BoxInv /\ InstallInv
<1> SUFFICES ASSUME Init PROVE TypeOK /\ BoxInv /\ InstallInv  OBVIOUS
<1>1. Len(boxes) = 0 /\ Len(limits) = 0
  BY DEF Init, PlayersInit, InstallInit
<1>2. TypeOK
  <2>1. PlayersTypeOK
    BY <1>1 DEF Init, PlayersInit, PlayersTypeOK
  <2>2. InstallTypeOK
    <3>1. InstallInit
      BY DEF Init
    <3>2. limits \in Seq(PassthroughConfig) /\ Len(limits) <= MaxInstalls
      BY <3>1, <1>1, InstallsAssumption DEF InstallInit
    <3>3. 0 \in 0..Len(limits)
      BY <1>1
    <3>4. pc \in [Users -> Steps(Len(limits))]
      BY <3>1 DEF InstallInit, Steps
    <3>5. 0 \in Nat /\ \A h \in 1..Len(limits) : limits[h].max_queue > 0
      BY <1>1
    <3>6. cfg \in VptConfig /\ enumerated = None
      BY <3>1, CConfigType, ConfigsAssumption DEF InstallInit
    <3>7. framebytes \in CUint
      BY <3>1, CUintAssumption DEF InstallInit, CUint
    <3> QED  BY <3>1, <3>2, <3>3, <3>4, <3>5, <3>6, <3>7, Zenon DEF InstallInit, InstallTypeOK
  <2> QED  BY <2>1, <2>2, AppsAssumption DEF Init, TypeOK
<1>3. BoxInv
  BY DEF Init, PlayersInit, BoxInv, BoxAlive, Pending
<1>4. InstallInv
  BY <1>1 DEF Init, InstallInit, InstallInv, Building, Clear, Offered, OffersCurrent,
              Reconfiguring, Outside
<1> QED  BY <1>2, <1>3, <1>4

LEMMA NextTypes == TypeOK /\ InstallInv /\ [Next]_mvars => TypeOK' /\ InstallInv'
<1> SUFFICES ASSUME TypeOK, InstallInv, [Next]_mvars PROVE TypeOK' /\ InstallInv'  OBVIOUS
<1>1. PlayersTypeOK' /\ InstallTypeOK' /\ InstallInv'
  BY ComposedStep, PlayersTypes, InstallTypes, InstallInvStep DEF TypeOK
<1>2. up' \in {"yes", "no", "video", "devices"}
  BY DEF Next, New, Methods, HandleMethods, Pjmedia, EventStep, Destroy, mvars, TypeOK
<1>3. apps' \in 0..MaxApps
  BY AppsAssumption DEF Next, New, Methods, HandleMethods, Pjmedia, EventStep, mvars, TypeOK
<1> QED  BY <1>1, <1>2, <1>3 DEF TypeOK

\* The players' and the passthrough's variables keep their types.
THEOREM DevicesTypes == Spec => []TypeOK
<1> QED  BY InitHolds, NextTypes, PTL DEF Spec

\* The passthrough's inductive invariant.
THEOREM InstallInvariant == Spec => []InstallInv
<1> QED  BY InitHolds, NextTypes, PTL DEF Spec

\* An install that failed and pjsua_destroy leave no factory and no pool.
THEOREM CleanedHolds == Spec => []Cleaned
<1>1. InstallInv => Cleaned
  BY DEF InstallInv, Cleaned, Clear
<1> QED  BY <1>1, InstallInvariant, PTL

\* PJSIP's callbacks find the handler of the install in this PjsuaApp.
THEOREM ServedHolds == Spec => []Served
<1>1. TypeOK /\ InstallInv => Served
  BY DEF TypeOK, InstallTypeOK, InstallInv, Building, Served, Clear
<1> QED  BY <1>1, DevicesTypes, InstallInvariant, PTL

\* While the passthrough is registered, no handle's config is missing.
LEMMA RegisteredHandle ==
    ASSUME TypeOK, InstallInv, codec > 0 \/ device
    PROVE  /\ shared = Len(limits) /\ limits[shared] \in PassthroughConfig
           /\ cfg.max_frame_size = limits[shared].max_frame_size % CUintMod
           /\ framebytes = (AuHdrSize + cfg.max_frame_size) % CUintMod
<1> USE DEF TypeOK, InstallTypeOK, InstallInv, Building, Clear
<1>1. /\ shared = Len(limits)
      /\ cfg.max_frame_size = limits[Len(limits)].max_frame_size % CUintMod
      /\ framebytes = (AuHdrSize + cfg.max_frame_size) % CUintMod
  OBVIOUS
<1>2. limits # <<>>
  OBVIOUS
<1>3. limits[Len(limits)] \in PassthroughConfig
  BY <1>2
<1> QED  BY <1>1, <1>3

\* Whatever is installed and reconfigured, a unit that the queue accepts fits the
\* buffers, as long as the largest does with its header in 32 bits.
THEOREM FitsHolds == Spec => []Fits
<1>1. ASSUME TypeOK, InstallInv, codec > 0 \/ device,
             AuHdrSize + limits[shared].max_frame_size < CUintMod
      PROVE  /\ limits[shared].max_frame_size <= cfg.max_frame_size
             /\ AuHdrSize + limits[shared].max_frame_size <= framebytes
  <2> DEFINE size == limits[shared].max_frame_size
  <2>1. size \in Nat /\ AuHdrSize \in Nat /\ CUintMod \in Nat
    BY <1>1, RegisteredHandle, CUintAssumption DEF PassthroughConfig
  <2>2. cfg.max_frame_size = size % CUintMod /\ framebytes = (AuHdrSize + cfg.max_frame_size) % CUintMod
    BY <1>1, RegisteredHandle
  <2>3. \A m, n \in Nat : n < m => n % m = n
    OBVIOUS
  <2> HIDE DEF size
  <2>4. AuHdrSize + size < CUintMod
    BY <1>1 DEF size
  <2>5. cfg.max_frame_size = size
    BY <2>1, <2>2, <2>3, <2>4
  <2>6. framebytes = AuHdrSize + size
    BY <2>1, <2>2, <2>3, <2>4, <2>5
  <2>7. size <= cfg.max_frame_size /\ AuHdrSize + size <= framebytes
    BY <2>1, <2>5, <2>6
  <2> QED  BY <2>7 DEF size
<1>2. TypeOK /\ InstallInv => Fits
  BY <1>1 DEF Fits
<1> QED  BY <1>2, DevicesTypes, InstallInvariant, PTL

\* No codec and no device are registered with PJMEDIA without the format and the
\* fmtp callback, whatever earlier installs left there.
THEOREM OfferedHolds == Spec => []Offered
<1>1. InstallInv => Offered
  BY DEF InstallInv
<1> QED  BY <1>1, InstallInvariant, PTL

\* Any number of threads that reconfigure list the codec factory once.
THEOREM RegisteredOnceHolds == Spec => []RegisteredOnce
<1>1. ASSUME TypeOK, InstallInv PROVE RegisteredOnce
  <2>1. CASE Reconfiguring = {}
    BY <1>1, <2>1, FS_EmptySet DEF InstallInv, RegisteredOnce
  <2>2. CASE Reconfiguring # {}
    <3>1. PICK u \in Reconfiguring : Reconfiguring = {u}
      BY <1>1, <2>2 DEF InstallInv
    <3>2. codec = 0 /\ Cardinality(Reconfiguring) = 1
      BY <1>1, <3>1, FS_Singleton DEF InstallInv
    <3> QED  BY <3>2 DEF RegisteredOnce
  <2> QED  BY <2>1, <2>2
<1>2. TypeOK /\ InstallInv => RegisteredOnce
  BY <1>1
<1> QED  BY <1>2, DevicesTypes, InstallInvariant, PTL

\* PJMEDIA offers the parameters in force.
THEOREM OffersCurrentHolds == Spec => []OffersCurrent
<1>1. InstallInv => OffersCurrent
  BY DEF InstallInv
<1> QED  BY <1>1, InstallInvariant, PTL

\* Why no box is freed twice: its player has no event left that could reach it.
THEOREM BoxInvariant ==
    ASSUME ~LoopCallbacks
    PROVE  Spec => []BoxInv
<1>1. Init => BoxInv
  BY InitHolds
<1>2. TypeOK /\ BoxInv /\ [Next]_mvars => BoxInv'
  BY ComposedStep, BoxInvStep DEF TypeOK
<1> QED  BY <1>1, <1>2, DevicesTypes, PTL DEF Spec

\* With callbacks on no_loop players only, the trampoline gets a live box,
\* whatever is created, destroyed and registered around it.
THEOREM BoxAliveHolds ==
    ASSUME ~LoopCallbacks
    PROVE  Spec => []BoxAlive
<1>1. BoxInv => BoxAlive
  BY DEF BoxInv
<1> QED  BY <1>1, BoxInvariant, PTL

================================================================================
