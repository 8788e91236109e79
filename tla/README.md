# TLA+ models of pjsua-rust

Verification models of `pjsua-rust`, a Rust wrapper over PJSUA with an H.264
passthrough written in C. TLC checks the modules on small instances; TLAPS proves
their main safety properties for every value of the constants. `PROJECT.json`
lists the runs, the lines each definition models, the hazards and the theorems.

## Inventory

| Component | State | Operations | Interacts with | What makes it correct |
|---|---|---|---|---|
| Video send path (`video.rs`, `video_passthrough.c`) | queue of access units, ids, source and keyed epochs, a codec's encoder state | `push_frame`, `clear`, `reconfigure`, `set_transmit`, `capture_peek`, `capture_consumed`, `vc_open`, `vc_close`, `vc_encode_begin`, `vc_encode_more` | application, poll clock, bridge clock, call control; two locks (queue mutex, `vpt.lock`) | what a remote is sent can be decoded: no unit leaves without its reference; ids and epochs survive their wrap; a call that opens starts |
| Video receive, installation | `SHARED`, `vpt`, factories | `install`, `reconfigure`, `vc_decode`, `render_push`, `vd_factory_destroy` | PJMEDIA's factories; `PjsuaApp`'s Drop | a failed step leaves no factory and no pool behind, and what it does leave does the next install no harm; whoever PJSIP calls back is the one installed; what is accepted fits, and what is offered is what is in force |
| Application life cycle (`pjsua_app.rs`) | `INITIALIZED`, PJSUA, worker and media threads | `new`, `stop_worker_threads`, `drop` | event bridge, trace module | one PJSUA at a time; a failing `new` and a drop let the next one in |
| Event bridge (`event.rs`, `trace_module.c`) | `EVENT_TX`, the trace module | `set_event_sender`, `clear_event_sender`, `send_event`, eight callbacks | callback threads; life cycle | an event reaches the receiver of its own instance |
| Conference ports (`media_port.rs`) | `conf_port`, `conf_pool`, `PortContext`; in PJMEDIA slots, queued operations, group locks | `new`, `add_to_conference`, `remove_from_conference`, `drop`, trampolines | audio clock thread | memory is freed once, after its last user; pools are released |
| Tone generator (`tonegen.rs`) | as a port, and a pool of its own | the same, `play_*`, `stop` | the same | the same |
| Accounts (`pjsua_app.rs`, `types.rs`, `config.rs`) | the ids; PJSUA's slots, registrations and retry timers | `add_account`, `modify_account`, `set_registration`, `remove_account`; `populate_acc_cfg` | PJSUA, the registrar | an id of a removed account reaches no assertion; an account asked to retry does, over the transport it was configured for |
| Calls (`pjsua_app.rs`) | PJSUA's state and setting of a call | `make_call*`, `answer_call*`, `hold_call`, `unhold_call`, `reinvite_call`, `hangup_*` | PJSUA, the remote | what was read before a call into PJSUA does not undo what happened since |
| Players and recorders (`pjsua_app.rs`) | boxes handed to PJMEDIA | `create_player`, `destroy_player`, `register_player_eof_callback`, recorders | the bridge's clock, PJMEDIA's event thread | a box is there when its callback runs, and the application hears of the end |
| Types, errors, configuration | none | conversions | all | read as part of the operations above |
| Transports, build (`transport_helper.c`, `build.rs`) | none | one accessor; a build script | PJSIP | — |

What is hard here: the threads. Units cross three of them (application, poll
clock, bridge clock) through buffers that are refilled while copies are in use;
ports are owned by the application and used by the audio clock; callbacks run on
PJSUA's threads, on media threads and inside the application's own calls into
PJSUA while a `PjsuaApp` is torn down. Counters (`u32` ids, epochs) wrap and skip 0.
Several operations can fail half way.

## Modules

| Module | Models |
|---|---|
| `VideoSend` | the send path: state, operations, properties |
| `UnitStream` | what the send path promises of one source's units: taken once and in order, sent to whoever can go on with them |
| `VideoSendInv` | `VideoSend`'s inductive invariants (`SendInv`, `KeyInv`, `RemoteInv`, `EachCallInv`, `StreamInv`) and its mapping to `UnitStream` |
| `MCVideoSend` | `VideoSend` for TLC, with the symmetry of calls |
| `VideoSendProofs`, `VideoRemoteProofs` | theorems on the queue and the epochs; on what the remotes get, and that `VideoSend` implements `UnitStream` |
| `ConfPort`, `ConfPortProofs` | `CustomPort` against the audio clock thread |
| `SharedObject`, `ConfPortRefinement` | what the reference count promises; that `ConfPort` keeps it |
| `AppLifecycle`, `AppLifecycleProofs` | `PjsuaApp::new` and `Drop`, against each other and the callbacks |
| `Accounts`, `MCAccounts`, `AccountsProofs` | accounts, what is made of an `AccountConfig`, and PJSUA's retries |
| `Calls`, `CallsProofs` | a call's setting, read and handed back, against the remote and other threads |
| `Players` | wave players, their end-of-file callback and its box |
| `VideoInstall` | `install`, `reconfigure` and the end of the H.264 passthrough |
| `MediaDevices`, `MCDevices`, `DevicesProofs` | `Players` and `VideoInstall` under successive `PjsuaApp`s, and `pjsua_destroy` under both |

### VideoSend

A step is what one thread does under one lock. `push_frame` is six actions, one for
each way through it (`PushRefused`, `PushAwaitsKeyframe`, `PushRoom`, `PushTrim`,
`PushOverflowKey`, `PushFlush`); `clear` is one, because the queue's lock is held until
`pjrs_vpt_source_restarted` returns. `vc_encode_begin` is split where it gives up
`vpt.lock`: `EncodeSkip` or `EncodeTake` (nothing new, or the unit is reported
consumed and popped), `EncodeGate` (has the remote a keyframe?), `EncodeWide` or
`EncodeFinish` (too large for a packet, or the epoch is recorded), and
`vc_encode_more` is `EncodeMore` or `EncodeRefused`. An access unit is its id, its
position in what the source produced (history) and whether it is a keyframe:
no property looks at its bytes. Whether a NAL fits is a choice, allowed only in
single-NAL mode, as in the code. The bridge, PJMEDIA's, is external: on each tick it
takes one copy of the capture buffer and feeds every linked codec in turn, in any
order. The history variables are read by no guard: what the source produced and
refused, how often it restarted, the last unit taken (`taken`, `takenKey`), the last one
each codec took (`handled`) and each remote got (`remote`), and which calls a keyframe has
gone to since their sending was last turned on (`joined`).

`UnitStream` is the promise without the queue, the two buffers, ids, epochs and gate: a
source that produces and restarts, one unit at a time on its way to the calls (`Take`), and
calls that join on a keyframe, get the unit on its way (`Send`) and leave. A unit is
taken if it is a keyframe, follows the one before but for refused units, or is the
first after a restart; a call that has joined gets it on the same terms, from what it got last.
`VideoSend` maps to it with `remote` for `sent` and `takenKey` for `key`. `EncodeTake` is a
`Take`, or a stutter when a second codec takes the same unit; `EncodeGate` is `Join`,
`EncodeMore` is `Send`, `set_transmit(off)` and `vc_close` are `Leave`; overflows, polls,
ticks, drops and the epochs' bookkeeping are stutters.

### ConfPort

`CustomPort`'s methods take `&mut self`, so a port has one owner thread; a step is
one call into PJSIP. A slot of the bridge, a queued removal and a trampoline each
reach the port without the owner. `Remove` and `Release` are the two halves of
`remove_from_conference`, `DropRemove`, `DropPool` and `DropPort` those of `Drop`.
`pjsua_conf_remove_port` may fail; the slot then stays, and the port is in
`stranded`. The group lock's counting is modelled from how `media_port.rs:44-52` and
`175-203` use it, and marked external. A port's memory (the `pjmedia_port` and its
`PortContext`) is one variable, `context`: `trampoline_on_destroy` frees both.

`SharedObject` is what the count is for: an object with a set of holders, which goes
with the last of them. It knows no counter, slot or queue. A port maps to an object
held by its `CustomPort` (holder 0) until `pjmedia_port_destroy` and by each slot it
is in; `new` creates it, `add_to_conference` acquires, `Drop`'s last step and a removal on
the clock thread release, and everything else is a stutter.

### AppLifecycle

`pc` is where a thread is in `new` or `drop`. The flag, the sender and each PJSUA call
are steps of their own, and each PJSUA call of `new` may fail. A callback begins
on a thread PJSUA has running. Its kind (`Bodies`) says whether it reads the call or
account first (and may fail there), whether it sends one event or two, and whether
it is the trace module's; the media threads report digits only. `delivered` records
for each event the instance it was of and the one that received it. `stop_worker_threads`, which
the application may call too, tells the workers to quit; a callback in flight runs
to its end before the threads are joined.

### Accounts

An id is a slot of PJSUA's, and the application keeps every id it got, so the model's
threads use any of them at any time. `set_registration` and `remove_account` are two
steps, the check (`CheckValid`) and the call; on a slot that was freed in between, the
call is `Abort`, PJSUA's assertion, and nothing runs after it (`aborted`).
`PopulateAccCfg` is what `populate_acc_cfg` writes over `pjsua_acc_config_default`, as far
as a REGISTER depends on it: the registrar, the proxy, the transport the account is pinned to
and the three intervals. Which transport that makes (`RegTransport`: the pinned one, or the
one the first hop's URI asks for) and when PJSUA sends the next REGISTER are external:
after a failure it waits for the interval less a random part, and 0 is no retry, as
the comment at `pjsua_app.rs:1272-1281` says. The registrar goes up and down as it likes.

### Calls

A method that reads a call's setting (`ReadAnswer`, `ReadReinvite`) is apart from the
call into PJSUA it is for (`Answer`, `Reinvite`, or `Refused` when PJSUA no longer takes
it); the remote and other threads come in between. A setting is its number of
video streams, its direction and three flags. PJSUA keeps one per call, fixes it on
the first answer that carries one and replaces it on every re-INVITE, which is
what the comments at `pjsua_app.rs:683-685` and `734-736` rely on. `setup`, a history
variable, is the video the call was set up with. `undone`, another, has the calls
re-INVITEd with a setting a thread read before another thread's first answer: nothing
in `reinvite_with` keeps that from happening, the re-INVITE then puts the default video
back, and `SetupKept` excepts those calls. A CallId is not given to another call: a
command with a kept id would act on the new one, which nothing in the repository excludes.

### Players, VideoInstall, MediaDevices

A box is the number of its registration. PJMEDIA posts an event when a player comes to
its end and runs `player_eof_trampoline` later, on its event thread, with the pointer the
player has by then; `Trampoline` frees that box. `DestroyPlayer` and a second
`Register` leave the box of before to nobody (`dropped`), for good. `LoopCallbacks` says whether
the application registers callbacks on looping players.

`install` is a step for each thing that can fail: `SHARED` is set first, then
`pjrs_vpt_init` zeroes `vpt` and makes the pool (`CreatePool`, `NoPool`), registers the
format (`RegisterFormat`), the fmtp callback (`RegisterMatch`), the codec and the devices,
and takes factories and pool back on an error. The format and the callback it does not take
back: `format` is what PJMEDIA's list has for `vpt.vfi`, memory the next install zeroes
(`Blanked`) before it registers it anew. Whether `pjsua_destroy` drops PJMEDIA's list is a
choice. `LookupFails` is the device lookup that fails once both factories are there: taking
the device factory out releases the pool and clears `vpt.pool`, and `on_error` releases
what is then NULL; the process ends (`phase = "crashed"`).
`Reconfigure`, `WriteConfig`, `Reregister` and `StoreLimit` are `reconfigure`, which any
thread with a handle may call, a handle of an earlier `PjsuaApp` too. `enumerated` is what
PJMEDIA's list of formats was made from. A configuration has its frame rate, poll rate,
frame size, payload type and queue length. `c_config` makes integers of `CUintMod` values
of them: the poll rate's default doubles the frame rate and wraps, a frame size, a `usize`
in the queue, is cut short, and `framebytes`, with the header, may wrap again.

`MediaDevices` puts the two under successive `PjsuaApp`s. `Destroy` is `pjsua_destroy` in
its order: players, then the codec manager, then the devices. A crash stops every thread (`Alive`).

## Runs

| Run | What it asks | Bounds |
|---|---|---|
| `send_one` | does every buffer, and one remote, get a decodable sequence, does the send path implement `UnitStream`, do units drain, does a call start | queue of 2, 3 units, 1 restart, 2 opens |
| `send_two` | does the front follow what was taken, do epochs name the right restart, and does each of two calls get what follows what it has | queue of 1, 3 units, 1 restart, 2 opens |
| `ports` | who frees what, and when | 2 ports, 2 slots, 4 adds |
| `app` | can two instances, or their events, meet | 2 threads, 3 instances, 3 callbacks |
| `accounts` | can an account stay unregistered | 2 slots, 2 adds, 2 threads, 4 configurations |
| `calls` | does every offer keep the call's media and hold | 1 call, 2 threads |
| `devices` | what a failed install, two `reconfigure`s, a player's end and `pjsua_destroy` leave, and what the next install makes of it | 2 apps, 2 installs, 2 threads, 1 player slot used twice, 2 boxes, 4 configurations |
| `account_race` | what the comment in `set_registration` and `PjsuaApp`'s doc on threads say, against the code | violated |
| `stale_key` | `clear()`'s doc, against the code | violated |
| `second_call` | the comment on the encoder's gate, against the code | violated |
| `ports_leak` | the doc of `conf_add_port` on pools, against the code | violated |
| `eof_loop` | the doc of `register_player_eof_callback`, against the code | violated |

Why the bounds are enough. Ids are counted modulo 32 from 30 and epochs modulo 4 from
3, so both wrap within a run; a queue of 2 has a trim (a keyframe behind the front)
and a flush at the third unit, with units still in the two copies of the buffers; a
queue of 1 flushes at the second, so the keyframe that restarts it is there within 3.
A queue of 1 with two calls also has a call fed after the queue moved.
Two ports and two slots, with more adds than slots, reuse a slot while a removal of
it is queued. Three instances are a drop with a `new` that fails and one that
succeeds behind it. Two adds in two slots give a slot away again while its old id is
in use; the four configurations have each transport, SRV, a registrar of their own, a TLS
proxy, a pinned transport, the shortest retry interval and the one of the code's comment.
Calls do not touch each other's state in `Calls`, so one with two threads has every race. Two installs and two
apps are one install after a failure and a handle from an earlier app; the
configurations differ in each field that a step looks at; one is refused because its
poll rate wraps to 0, and one has a frame size that `c_config` cuts to less than the
others' (8 values for a `c_uint`, a header of 2). The theorems remove the bounds for the
safety properties.
`CHECK_DEADLOCK FALSE` is in every configuration because the models stop at their
bounds (units, adds, instances, boxes) or, as `Calls`, when every call has ended; the program does not.

Fairness. `send_one`: both clocks tick (PJMEDIA's threads run while a stream is up),
an encode call returns, and the application answers a keyframe request, which
`on_keyframe_request`'s documentation asks of it (`video.rs:17`). Nothing is assumed of
`clear`, opens, closes or holds; a restarted source need not send a keyframe of its own,
so `StartsAfterOpen` speaks of sources that were not. `ports`: the clock thread gets to
its queue (strongly fair: it is not there while in a callback), callbacks return, and a `Drop` that has
begun is carried through. `app`: a thread in `new` or `drop` and a callback go on; no
thread need ever call `new`. `accounts`: a REGISTER is answered or times out, and
PJSUA's timer ends; `Recovers` itself asks for a server that stays up. `devices`: the
bridge reads a connected player to its end and PJMEDIA's event thread runs; neither the
application nor an install is asked to do anything, and a crash excuses everyone.

## What the runs found

* `clear()` promises that nothing more is sent until the source's next keyframe. A
  keyframe of the old source already copied to the capture buffer passes the gate
  after `clear()`, is recorded under the new epoch, and the new source's next unit
  follows it, keyframe or not (`stale_key`). `RemoteChain` states what holds all the
  same: the stale keyframe costs a remote its first unit of the new source at most, and
  every later one follows what the remote has.
* The gate's comment says nothing is sent until the remote has a keyframe of the
  source. `keyed_epoch` is shared, so a second call starts on any unit
  (`second_call`); it recovers with the keyframe its open requested. From the first
  keyframe through its own gate on (`joined`) the shared epoch does no harm (`CallChain`).
* `remove_from_conference` that fails loses track of a pool once the port is added
  again (`ports_leak`).
* `set_registration` and `remove_account` check that the account is there and then call
  PJSUA, which asserts that it is, with nothing held in between. The comment names the
  race it guards against, and it does so for commands of one thread's queue; but a
  `PjsuaApp` is `Sync`, its doc says it is safe to share, and with two threads the account
  goes between the check and the call (`account_race`).
* The end-of-file callback of a looping player runs at the end of every pass, and the
  first run frees its box (`eof_loop`). For players that do not loop, `BoxAlive` holds,
  however they are registered again or destroyed. The same comment
  (`pjsua_app.rs:1003-1005`) has the box cleaned up when the player is destroyed or the
  callback replaced; the code frees it nowhere but in the trampoline, so in `Players` such
  a box stays `"held"` for good: each `Register` over a callback and each `DestroyPlayer`
  before the end leaks a sender. `Reported` says so and excepts those boxes; a property
  that they are freed would fail after two steps, and no run is spent on it.
* A frame size that does not fit a `c_uint` with its header is cut short for PJSIP and not
  for the queue (`video.rs:470`, `323`): the queue then accepts units that
  `capture_peek` never hands out. `Fits` holds below that limit, which the
  documentation does not name.
* A device lookup that fails in `install` ends the process (`LookupFails`). A failed
  install leaves its format and fmtp callback with PJMEDIA; `Offered` shows that the next
  install makes both good before a stream can use them.

## Theorems

For every number of calls, queue length, id and epoch width within the named
assumptions (`IdAssumption`: fewer units than half the id space are alive;
`EpochAssumption`: fewer than 2^32 - 1 restarts):

* `TypeCorrect`. The queue is never longer than the largest `max_queue`.
* `SendInvariant`: `SendInv` is inductive together with the types. It says that
  units only move forward (`OrderInv`: taken, the bridge's copy, the capture buffer,
  the queue), that their ids do too on the circle, by one or two a unit (`IdInv`), and
  that wherever a decoder may stand the next unit can be decoded (`ChainInv`).
  `QueueChain` alone is not inductive: `consume_through` pops by id, so without
  `IdInv` it could pop too much, and the front needs the copies in the two buffers.
  `QueueChainHolds`, `FrontChainHolds` and `ConsumedLeavesHolds` follow.
* `KeyedSoundHolds`, from `KeyInv`: each epoch compared is `EpochAfter` of a known
  restart, and `EpochAfter` is injective below 2^32 - 1 restarts.
* `RemoteChainHolds`, for a single call (`Codecs = {c}`, an assumption of the theorem:
  `second_call` shows it false for two), from `RemoteInv`: whenever the gate would
  let a non-keyframe through, the remote has what it refers to.
* `CallChainHolds`, for any number of calls, from `EachCallInv`. Its parts: `HandledInv`
  (ids lie ahead of the codec's last one, so a repeated `seq` is a repeated unit, across
  the wrap), `FedInv` (a tick leaves no linked call out: until a call is fed it is just one
  taken unit behind), `PassInv` (a codec whose epoch is not the source's has not
  handled a unit since the restart) and `JoinedInv` (when the gate is open, by this call's
  keyframe or another's, the remote has what was taken last, or can decode the unit in
  hand if it has yet to be fed). The point is `EncodeFinish` of one call, which opens the
  others' gates: `PassInv` says they have not seen the new source, so each of them still
  has this very keyframe to come.
* `StreamRefined`: `Spec => UnitStream`'s `Spec`. Each action maps to one step or a
  stutter (`TakeIsTake`, `MoreIsSend`, `NextStream`), from `SendInv`, `EachCallInv` and
  `StreamInv`, which says that wherever a copy of the unit taken is left its key is
  `takenKey`, and that no refused unit is in a buffer.

`ConfPortProofs`, for any finite sets of ports and slots: `PortInvariant` (the group
lock counts exactly the slots that hold the port and its owner; each slot has one
that may free it), from which `NoUseAfterFreeHolds` and `RemovalsOwnedHolds`. The
counting is why the invariant speaks of cardinalities: that no reference is left when
the count is 0 is what makes the destroy handler safe. `ConfPortRefinement` proves from
it that `ConfPort` implements `SharedObject` (`SharedSpecHolds`), step by step; the
argument is `LastHolder`: the count is 1 exactly when one holder is left.

`AppLifecycleProofs`, for any set of threads: `SingletonHolds`, `SenderHeldHolds`,
`TraceInsideHolds` and `OwnReceiverHolds`, from `AppInv`: who is not `out` holds the
flag, and PJSUA, the sender and the trace module are that thread's, each at its own
steps; callbacks are those of the PJSUA that is there.

`AccountsProofs`, for any sets of slots, threads and configurations: `AccountTypes` and
`NeverStuckHolds`, the arithmetic of a quarter of the interval (`interval - interval \div 4`
is never 0 for an interval above 0).

`CallsProofs`, for any calls and threads: `SetupKeptHolds`, `FreshOfferHolds` and
`HoldKeptHolds`, an action property, from `CallInv`: the setting stands for the
call's video from the answer on unless the call is in `undone` (`CallFixed`), and what a thread read is still so when
it calls PJSUA, or PJSUA ignores it (`ReadHolds`).

`DevicesProofs`, over `MediaDevices`, for any configurations, users, players and bounds:
`CleanedHolds`, `ServedHolds`, `FitsHolds`, `OfferedHolds`, `RegisteredOnceHolds` and
`OffersCurrentHolds` from `InstallInv`, which says for each step of install and destroy what
is registered, that the frame size PJSIP has is the installed one modulo `CUintMod`
whatever was reconfigured, and that at most one thread is between taking the codec out
and putting it back. `Fits` adds the arithmetic: below the modulus both truncations are
the identity. `ServedHolds` needs no such thing. And `BoxAliveHolds`
from `BoxInv`, for `~LoopCallbacks`: an event still to come has a box nobody else has.

Some inductive invariants are invariants of the runs too (`SendInv`, `PortInv`, `AppInv`);
`KeyInv`, `RemoteInv`, `EachCallInv`, `StreamInv`, `CallInv`, `InstallInv` and `BoxInv` are
used by the proofs alone.

Only model-checked: the liveness properties (`Drains`, `StartsAfterOpen`, `Freed`,
`LetsNextIn`, `Recovers`, `Reported`), which need fairness and ENABLED, out of TLAPS's reach here. Also out
of its reach are induction over data and RECURSIVE operators; the proved modules
use neither.

## Not modelled

* Data that passes through without state: `vc_decode` and the renderer's callback, what
  an event says, the text of trace headers, the tones, transfers, DTMF, recorders,
  name servers, codec lists, the getters, errors, strings between C and Rust, version.
* Pure scans over bytes, `largest_nal` and its kin, `extract_headers`,
  `parse_trace_headers`: no state and no other actor. (Tests of `event.rs`
  cover the parser; the C scans have none of their own.)
* The tone generator's own pool: which pool PJMEDIA puts the port in decides whether the
  order in its `Drop` matters, and that is not in this repository.
* `EVENT_TX`'s lock: `SendEvent` is one step. `event.rs:138-159` holds it over no call that
  blocks, but `AppLifecycle` would not show a deadlock on it.
* Transports: how PJSUA treats an account whose transport was never created is not
  to be seen from this code. `transport_helper.c` is one accessor, `build.rs` runs
  before there is a program.
* A second `install` over one that works, which its documentation excludes; use of a
  handle's `clear` during `pjsua_destroy`; PJSUA's behaviour after `pjsua_destroy`.
* Inside PJSIP only what the code in `src/` relies on is modelled, and marked external.

## Plan

Done: the send path, the ports and the life cycle, then players, installation, accounts
and calls; of the send path, each call's chain and `UnitStream`. What may follow:

1. What a call misses while its sending is off: `joined` ends there, and the first units
   after it need not follow (`video_passthrough.c:1181`). A statement would say how soon the
   keyframe that repairs it comes.
2. Kept CallIds: PJSUA's reuse of a call's slot under `Calls`.
