------------------------------ MODULE VideoInstall ------------------------------
(***************************************************************************)
(* Installing the H.264 passthrough in a PjsuaApp, changing its parameters *)
(* and taking it down (video.rs, video_passthrough.c).  install() sets     *)
(* SHARED, through which PJSIP calls back, then registers a format, an     *)
(* fmtp callback, a codec factory and a device factory, any of which may   *)
(* fail; reconfigure() takes the codec out and puts it back, on any        *)
(* thread; pjsua_destroy ends what PJMEDIA runs.                           *)
(*                                                                         *)
(* A handle is the number of the install() that made it.                   *)
(***************************************************************************)
EXTENDS Naturals, Sequences, FiniteSets

CONSTANTS
    Configs,     \* PassthroughConfigs the application uses
    Users,       \* threads that hold a VideoPassthrough
    None,        \* an Option that is not set
    CUintMod,    \* 2^32, the values of a u32 and of a c_uint
    AuHdrSize,   \* AU_HDR_SIZE, the header before a unit in PJSIP's buffers
    MaxInstalls  \* bound: calls of install

ASSUME InstallsAssumption == MaxInstalls \in Nat
ASSUME CUintAssumption == CUintMod \in Nat \ {0} /\ AuHdrSize \in Nat

CUint == 0..(CUintMod - 1)

\* A PassthroughConfig, as far as install and reconfigure look at it.  The size and
\* the bitrates are like fps; max_frame_size is a usize.
PassthroughConfig ==
    [fps : CUint, poll_fps : CUint \cup {None}, max_frame_size : Nat,
     payload_type : CUint, max_queue : Nat]

ASSUME ConfigsAssumption == Configs # {} /\ Configs \subseteq PassthroughConfig

VARIABLES
    shared,      \* SHARED: a handle's state; 0 is None
    limits,      \* per handle, its config, with the max_queue that is in force
    returned,    \* handles install() returned; the application keeps them
    mine,        \* the one of the PjsuaApp that is up; 0: none
    inited,      \* vpt.inited
    pool,        \* vpt.pool and vpt.lock exist
    cfg,         \* vpt.cfg
    framebytes,  \* vpt.framebytes, the size of PJSIP's buffers for units
    format,      \* the id PJMEDIA's list of formats has for vpt.vfi: "AUH4", "blank"
                 \* while that is zeroed, "none" when vpt.vfi is not in the list
    fmt_match,   \* PJMEDIA has the callback that compares H.264 fmtps
    codec,       \* times the codec factory is in PJMEDIA's list
    enumerated,  \* the config PJMEDIA's list of formats was made from; None: no list
    device,      \* the device factory is registered
    phase,       \* what of install or destroy is done
    pc           \* each user's step of reconfigure

handlevars == <<shared, limits, returned, mine>>
params     == <<cfg, framebytes>>
formats    == <<format, fmt_match>>
listed     == <<codec, enumerated>>
vptvars    == <<inited, pool, params, formats, listed, device>>
ivars      == <<handlevars, vptvars, phase, pc>>

\* c_config: what PJSIP is given; it polls twice per frame if nothing is said.
CConfig(c) ==
    [fps            |-> c.fps,
     poll_fps       |-> IF c.poll_fps = None THEN (2 * c.fps) % CUintMod ELSE c.poll_fps,
     max_frame_size |-> c.max_frame_size % CUintMod,
     pt             |-> c.payload_type]

CfgValid(v) == v.fps # 0 /\ v.poll_fps # 0 /\ v.max_frame_size # 0

\* max_queue.max(1)
AtLeastOne(n) == IF n = 0 THEN 1 ELSE n

\* A variant that compares the payload types alone.
SamePayload(v, w) == v.pt = w.pt

\* What buffers and open streams were made for stays as installed.
SameBuffers(v, w) == v.max_frame_size = w.max_frame_size /\ v.pt = w.pt

-----------------------------------------------------------------------------
Outside == [step |-> "outside"]

InstallInit ==
    /\ shared = 0 /\ limits = <<>> /\ returned = {} /\ mine = 0
    /\ inited = FALSE /\ pool = FALSE
    /\ cfg = CConfig(CHOOSE c \in Configs : TRUE) /\ framebytes = 0
    /\ format = "none" /\ fmt_match = FALSE /\ enumerated = None
    /\ codec = 0 /\ device = FALSE
    /\ phase = "idle"
    /\ pc = [u \in Users |-> Outside]

-----------------------------------------------------------------------------
\* install(), on one thread, once for a PjsuaApp unless it failed.

\* A variant that leaves SHARED for later.
InstallSharesLast(c) ==
    /\ phase = "idle" /\ mine = 0 /\ Len(limits) < MaxInstalls
    /\ limits' = Append(limits, [c EXCEPT !.max_queue = AtLeastOne(@)])
    /\ phase' = "entered"
    /\ UNCHANGED <<shared, returned, mine, vptvars, pc>>

Install(c) ==
    /\ phase = "idle" /\ mine = 0 /\ Len(limits) < MaxInstalls
    /\ limits' = Append(limits, [c EXCEPT !.max_queue = AtLeastOne(@)])
    /\ shared' = Len(limits) + 1
    /\ phase' = "entered"
    /\ UNCHANGED <<returned, mine, vptvars, pc>>

\* The memory of vpt.vfi, which PJMEDIA's list points to once it has it.
Blanked == IF format = "none" THEN "none" ELSE "blank"
Filled  == IF format = "none" THEN "none" ELSE "AUH4"

\* pjrs_vpt_init resets vpt and takes the configuration over.
Reset ==
    LET v == CConfig(limits[Len(limits)])
    IN  /\ CfgValid(v)
        /\ cfg' = v
        /\ framebytes' = (AuHdrSize + v.max_frame_size) % CUintMod
        /\ format' = Blanked

\* The pool; the lock comes with the next step.
CreatePool ==
    /\ phase = "entered"
    /\ Reset
    /\ pool' = TRUE
    /\ phase' = "pool"
    /\ UNCHANGED <<handlevars, inited, fmt_match, listed, device, pc>>

NoPool ==
    /\ phase = "entered"
    /\ Reset
    /\ phase' = "failed"
    /\ UNCHANGED <<handlevars, inited, pool, fmt_match, listed, device, pc>>

\* It refuses the configuration or finds no codec manager.
InitRefused ==
    /\ phase = "entered"
    /\ phase' = "failed"
    /\ UNCHANGED <<handlevars, vptvars, pc>>

\* A variant that takes an entry of the list for granted.
RegisterFormatOnce ==
    /\ phase = "pool"
    /\ format' = IF format = "none" THEN "AUH4" ELSE format
    /\ phase' = "format"
    /\ UNCHANGED <<handlevars, inited, pool, params, fmt_match, listed, device, pc>>

RegisterFormat ==
    /\ phase = "pool"
    /\ format' = "AUH4"
    /\ phase' = "format"
    /\ UNCHANGED <<handlevars, inited, pool, params, fmt_match, listed, device, pc>>

\* The fmtp callback; one that another H.264 codec registered does as well.
RegisterMatch ==
    /\ phase = "format"
    /\ fmt_match' = TRUE
    /\ phase' = "match"
    /\ UNCHANGED <<handlevars, inited, pool, params, format, listed, device, pc>>

\* PJMEDIA lists the codec's formats as it registers it.
RegisterCodec ==
    /\ phase = "match"
    /\ codec' = codec + 1
    /\ enumerated' = cfg
    /\ phase' = "codec"
    /\ UNCHANGED <<handlevars, inited, pool, params, formats, device, pc>>

\* The lock, the format, the fmtp callback or the codec is refused: on_error
\* releases the pool and takes no registration back.
CodecRefused ==
    /\ phase \in {"pool", "format", "match"}
    /\ format' \in IF phase = "pool" THEN {format, Filled} ELSE {format}
    /\ pool' = FALSE
    /\ phase' = "failed"
    /\ UNCHANGED <<handlevars, inited, params, fmt_match, listed, device, pc>>

RegisterDevice ==
    /\ phase = "codec"
    /\ device' = TRUE
    /\ inited' = TRUE
    /\ phase' = "done"
    /\ UNCHANGED <<handlevars, pool, params, formats, listed, pc>>

\* A variant that leaves the codec registered.
DeviceRefusedKeeps ==
    /\ phase = "codec"
    /\ pool' = FALSE
    /\ phase' = "failed"
    /\ UNCHANGED <<handlevars, inited, params, formats, listed, device, pc>>

\* The codec is taken out again.
DeviceRefused ==
    /\ phase = "codec"
    /\ codec' = codec - 1
    /\ enumerated' = None
    /\ pool' = FALSE
    /\ phase' = "failed"
    /\ UNCHANGED <<handlevars, inited, params, formats, device, pc>>

\* The device factory is registered and PJMEDIA does not find the devices: taking
\* the factory out has vd_factory_destroy release the pool and clear vpt.pool,
\* which on_error then releases.  PJLIB reads through the NULL pool: the process
\* ends.
LookupFails ==
    /\ phase = "codec"
    /\ codec' = codec - 1
    /\ enumerated' = None
    /\ pool' = FALSE
    /\ phase' = "crashed"
    /\ UNCHANGED <<handlevars, inited, params, formats, device, pc>>

InstallReturns ==
    /\ phase' = "idle"
    /\ \/ /\ phase = "failed"
          /\ shared' = 0
          /\ UNCHANGED <<returned, mine>>
       \/ /\ phase = "done"
          /\ mine' = Len(limits)
          /\ returned' = returned \cup {Len(limits)}
          /\ UNCHANGED shared
    /\ UNCHANGED <<limits, vptvars, pc>>

-----------------------------------------------------------------------------
\* reconfigure(), on any thread and any handle.

\* A variant that goes on whatever the codec manager says.
ReconfigureBlind(u, h, c) ==
    /\ pc[u] = Outside /\ phase \notin {"destroying", "crashed"}
    /\ h \in returned /\ inited
    /\ CfgValid(CConfig(c)) /\ SameBuffers(CConfig(c), cfg)
    /\ codec' = IF codec = 0 THEN 0 ELSE codec - 1
    /\ enumerated' = None
    /\ pc' = [pc EXCEPT ![u] = [step |-> "write", h |-> h, c |-> c]]
    /\ UNCHANGED <<handlevars, inited, pool, params, formats, device, phase>>

\* A variant that takes it for granted that the codec is listed.
ReconfigureListed(u, h, c) ==
    /\ pc[u] = Outside /\ phase \notin {"destroying", "crashed"}
    /\ h \in returned /\ inited
    /\ CfgValid(CConfig(c)) /\ SameBuffers(CConfig(c), cfg)
    /\ codec' = codec - 1
    /\ enumerated' = None
    /\ pc' = [pc EXCEPT ![u] = [step |-> "write", h |-> h, c |-> c]]
    /\ UNCHANGED <<handlevars, inited, pool, params, formats, device, phase>>

\* The codec leaves the list; when it is not there, PJMEDIA says so, and the call
\* ends.
Reconfigure(u, h, c) ==
    /\ pc[u] = Outside /\ phase \notin {"destroying", "crashed"}
    /\ h \in returned /\ inited
    /\ CfgValid(CConfig(c)) /\ SameBuffers(CConfig(c), cfg)
    /\ codec > 0
    /\ codec' = codec - 1
    /\ enumerated' = None
    /\ pc' = [pc EXCEPT ![u] = [step |-> "write", h |-> h, c |-> c]]
    /\ UNCHANGED <<handlevars, inited, pool, params, formats, device, phase>>

\* The parameters, the fmtp strings and the devices' formats, under the lock.
WriteConfig(u) ==
    /\ pc[u].step = "write"
    /\ cfg' = CConfig(pc[u].c)
    /\ pc' = [pc EXCEPT ![u].step = "register"]
    /\ UNCHANGED <<handlevars, inited, pool, framebytes, formats, listed, device, phase>>

Reregister(u) ==
    /\ pc[u].step = "register"
    /\ codec' = codec + 1
    /\ enumerated' = cfg
    /\ pc' = [pc EXCEPT ![u].step = "store"]
    /\ UNCHANGED <<handlevars, inited, pool, params, formats, device, phase>>

\* "Video is unavailable", for the rest of the PjsuaApp.
ReregisterFails(u) ==
    /\ pc[u].step = "register"
    /\ pc' = [pc EXCEPT ![u] = Outside]
    /\ UNCHANGED <<handlevars, vptvars, phase>>

\* The handle's max_queue comes last.
StoreLimit(u) ==
    /\ pc[u].step = "store"
    /\ limits' = [limits EXCEPT ![pc[u].h].max_queue = AtLeastOne(pc[u].c.max_queue)]
    /\ pc' = [pc EXCEPT ![u] = Outside]
    /\ UNCHANGED <<shared, returned, mine, vptvars, phase>>

-----------------------------------------------------------------------------
\* pjsua_destroy, with no method of a handle running.

\* The codec manager goes first.
DestroyCodecs ==
    /\ phase = "idle" /\ \A u \in Users : pc[u] = Outside
    /\ codec' = 0
    /\ enumerated' = None
    /\ phase' = "destroying"
    /\ UNCHANGED <<handlevars, inited, pool, params, formats, device, pc>>

\* vd_factory_destroy, if the device factory is registered: the module resets, all
\* but the format info and the fmtp callback.  PJMEDIA's list of formats may go with
\* the rest of its video.
DestroyDevices ==
    /\ phase = "destroying"
    /\ device' = FALSE
    /\ IF device THEN pool' = FALSE /\ inited' = FALSE ELSE UNCHANGED <<pool, inited>>
    /\ format' \in {format, "none"}
    /\ mine' = 0
    /\ phase' = "idle"
    /\ UNCHANGED <<shared, limits, returned, params, fmt_match, listed, pc>>

InstallStep ==
    \/ \E c \in Configs : Install(c)
    \/ CreatePool \/ NoPool \/ InitRefused
    \/ RegisterFormat \/ RegisterMatch \/ RegisterCodec \/ CodecRefused
    \/ RegisterDevice \/ DeviceRefused \/ LookupFails
    \/ InstallReturns

ReconfigureStep ==
    \E u \in Users :
        \/ \E h \in returned, c \in Configs : Reconfigure(u, h, c)
        \/ WriteConfig(u) \/ Reregister(u) \/ ReregisterFails(u) \/ StoreLimit(u)

-----------------------------------------------------------------------------
\* Properties.

\* Where a user of one of the first n handles is in reconfigure.
Steps(n) == {Outside} \cup [step : {"write", "register", "store"}, h : 1..n, c : Configs]

VptConfig == [fps : CUint, poll_fps : CUint, max_frame_size : CUint, pt : CUint]

InstallTypeOK ==
    /\ limits \in Seq(PassthroughConfig) /\ Len(limits) <= MaxInstalls
    /\ \A h \in 1..Len(limits) : limits[h].max_queue > 0
    /\ shared \in 0..Len(limits) /\ mine \in 0..Len(limits)
    /\ returned \subseteq 1..Len(limits)
    /\ inited \in BOOLEAN /\ pool \in BOOLEAN /\ device \in BOOLEAN
    /\ cfg \in VptConfig /\ framebytes \in CUint
    /\ format \in {"none", "AUH4", "blank"} /\ fmt_match \in BOOLEAN
    /\ codec \in Nat /\ enumerated \in VptConfig \cup {None}
    /\ phase \in {"idle", "entered", "pool", "format", "match", "codec", "done", "failed",
                  "destroying", "crashed"}
    /\ pc \in [Users -> Steps(Len(limits))]

\* Whatever step of install failed, and after destroy, the pool is released and
\* neither factory, the device's in that pool, is left for PJMEDIA to call
\* (video_passthrough.c:1066-1073, 845-849).  The format info and the fmtp callback
\* stay registered, in memory that stays (video_passthrough.c:1016-1031).
Cleaned == phase \in {"idle", "failed"} /\ ~inited => codec = 0 /\ ~device /\ ~pool

\* As long as PJSIP can call back, from the codec or a device, it finds the queue
\* and handler of the install() in this PjsuaApp, not an earlier one's or none
\* (video.rs:283-285, 337-342).
Served == codec > 0 \/ device => shared = Len(limits)

\* A unit the queue accepts fits PJSIP's buffers, whoever reconfigured since:
\* capture_peek leaves one that does not at the front, and everything behind it,
\* for good (video.rs:180, 365-367, 501-503).  So it is up to 2^32 bytes, header
\* included; c_config cuts a larger size short (video.rs:470), which the queue
\* does not (video.rs:323).
Fits ==
    codec > 0 \/ device =>
        LET size == limits[shared].max_frame_size
        IN  AuHdrSize + size < CUintMod =>
                size <= cfg.max_frame_size /\ AuHdrSize + size <= framebytes

\* While a stream may use the passthrough, PJMEDIA knows its format and compares
\* its fmtps, whatever an earlier install, failed or not, left in PJMEDIA's lists
\* for this one's reset to blank (video_passthrough.c:1000, 1015-1033).
Offered == codec > 0 \/ device => format = "AUH4" /\ fmt_match

\* Threads that reconfigure at once never list the codec factory, one node of
\* PJMEDIA's list, twice (video_passthrough.c:1097-1109).
Reconfiguring == {u \in Users : pc[u].step \in {"write", "register"}}
RegisteredOnce == codec + Cardinality(Reconfiguring) <= 1

\* PJMEDIA offers the formats of the parameters that are in force: nobody changes
\* them while the codec is listed (video_passthrough.c:1095-1102).
OffersCurrent == codec > 0 => enumerated = cfg

-----------------------------------------------------------------------------
\* Why: the inductive invariant.

\* What install has built of the module before it is inited.
Building == {"pool", "format", "match", "codec"}

\* Neither factory is registered, and nothing is allocated.
Clear == codec = 0 /\ ~inited /\ ~device /\ ~pool

InstallInv ==
    /\ codec \in {0, 1}
    /\ inited => device /\ pool
    /\ \A u \in Users : pc[u] # Outside => inited /\ phase \in {"idle", "done"}
    /\ \A u \in Reconfiguring : codec = 0 /\ \A v \in Reconfiguring : u = v
    /\ phase \in {"entered", "failed", "crashed"} => Clear
    /\ phase = "idle" => (inited /\ mine # 0) \/ Clear
    /\ phase \in Building =>
          ~inited /\ ~device /\ pool /\ codec = (IF phase = "codec" THEN 1 ELSE 0)
    /\ phase \notin {"idle", "destroying"} \/ inited => limits # <<>>
    /\ phase = "done" => inited
    /\ phase = "destroying" => codec = 0 /\ (inited \/ Clear)
    /\ phase \in Building \cup {"entered"} \/ device => shared = Len(limits)
    /\ phase \in Building \cup {"done"} \/ device =>
          /\ cfg.max_frame_size = limits[Len(limits)].max_frame_size % CUintMod
          /\ framebytes = (AuHdrSize + cfg.max_frame_size) % CUintMod
    /\ \A u \in Users :
          pc[u].step = "write" => CConfig(pc[u].c).max_frame_size = cfg.max_frame_size
    /\ phase \in {"format", "match", "codec"} => format = "AUH4"
    /\ phase \in {"match", "codec"} => fmt_match
    /\ Offered
    /\ OffersCurrent

================================================================================
