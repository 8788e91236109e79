----------------------------- MODULE AppLifecycle -----------------------------
(***************************************************************************)
(* PjsuaApp::new and Drop (pjsua_app.rs) against each other, and against   *)
(* the callbacks that hand PJSIP's events to the application (event.rs).   *)
(* There is one PJSUA and one EVENT_TX per process: INITIALIZED keeps two  *)
(* PjsuaApps apart, and the order of Drop's steps keeps the callbacks of   *)
(* one instance out of the event channel of the next.                      *)
(*                                                                         *)
(* A step of an application thread is one call into PJSUA or one access to *)
(* INITIALIZED or EVENT_TX.                                                *)
(***************************************************************************)
EXTENDS Naturals, FiniteSets

CONSTANTS
    Threads,       \* application threads
    MaxInstances,  \* bound: calls of new() that get past INITIALIZED
    MaxCallbacks   \* bound: callbacks PJSIP makes

ASSUME InstancesAssumption == MaxInstances \in Nat
ASSUME CallbacksAssumption == MaxCallbacks \in Nat

\* Who runs a callback: a PJSUA worker thread, a media thread (DTMF), or the
\* application thread that called into PJSUA.
Callers == {"worker", "media", "caller"}

VARIABLES
    initialized,  \* INITIALIZED
    event_tx,     \* EVENT_TX: the instance whose channel it sends to; 0 is None
    pc,           \* where each thread is in new() or drop()
    mine,         \* the instance it works for; 0 is none
    made,         \* instances so far
    stack,        \* the instance PJSUA was created for; 0: no PJSUA
    polling,      \* the worker threads: "off", "on", or told to "quit"
    media,        \* the media threads run
    trace,        \* the trace module is registered
    receivers,    \* instances whose receiver has not been dropped
    cb,           \* the callback each caller is in
    calls         \* callbacks so far

\* History: who sent an event into whose channel.
VARIABLE delivered

tvars   == <<pc, mine>>
pjvars  == <<stack, polling, media, trace>>
cbvars  == <<cb, calls, delivered>>
vars == <<initialized, event_tx, tvars, made, pjvars, receivers, cbvars>>

\* No callback.
Idle == [inst |-> 0, info |-> FALSE, sends |-> 0, traced |-> FALSE]

Init ==
    /\ initialized = FALSE /\ event_tx = 0
    /\ pc = [t \in Threads |-> "out"] /\ mine = [t \in Threads |-> 0]
    /\ made = 0
    /\ stack = 0 /\ polling = "off" /\ media = FALSE /\ trace = FALSE
    /\ receivers = {}
    /\ cb = [k \in Callers |-> Idle] /\ calls = 0 /\ delivered = {}

-----------------------------------------------------------------------------
\* PjsuaApp::new.

Goto(t, step) == pc' = [pc EXCEPT ![t] = step]

\* A variant that installs the channel before it looks at INITIALIZED.
SwapAfterSender(t) ==
    /\ pc[t] = "out" /\ made < MaxInstances
    /\ initialized' = TRUE
    /\ made' = made + 1
    /\ event_tx' = made + 1
    /\ mine' = IF initialized THEN mine ELSE [mine EXCEPT ![t] = made + 1]
    /\ IF initialized THEN UNCHANGED pc ELSE Goto(t, "sender")
    /\ UNCHANGED <<pjvars, receivers, cbvars>>

\* A variant that checks INITIALIZED and leaves it to be set later.
SwapChecks(t) ==
    /\ pc[t] = "out" /\ made < MaxInstances
    /\ ~initialized
    /\ made' = made + 1
    /\ mine' = [mine EXCEPT ![t] = made + 1]
    /\ Goto(t, "sender")
    /\ UNCHANGED <<initialized, event_tx, pjvars, receivers, cbvars>>

\* INITIALIZED.swap(true): whoever finds it set returns AlreadyInitialized.
Swap(t) ==
    /\ pc[t] = "out" /\ made < MaxInstances
    /\ ~initialized
    /\ initialized' = TRUE
    /\ made' = made + 1
    /\ mine' = [mine EXCEPT ![t] = made + 1]
    /\ Goto(t, "sender")
    /\ UNCHANGED <<event_tx, pjvars, receivers, cbvars>>

SetEventSender(t) ==
    /\ pc[t] = "sender"
    /\ event_tx' = mine[t]
    /\ receivers' = receivers \cup {mine[t]}
    /\ Goto(t, "create")
    /\ UNCHANGED <<initialized, mine, made, pjvars, cbvars>>

\* pjsua_create; without a PJSUA there is none to destroy.
Create(t) ==
    /\ pc[t] = "create"
    /\ \/ stack' = mine[t] /\ Goto(t, "init")
       \/ stack' = stack /\ Goto(t, "fail")
    /\ UNCHANGED <<initialized, event_tx, mine, made, polling, media, trace, receivers, cbvars>>

\* pjsua_init starts the worker and media threads.
InitStack(t) ==
    /\ pc[t] = "init"
    /\ \/ /\ polling' = "on" /\ media' = TRUE
          /\ \E step \in {"null_audio", "start"} : Goto(t, step)
       \/ UNCHANGED <<polling, media>> /\ Goto(t, "abort")
    /\ UNCHANGED <<initialized, event_tx, mine, made, stack, trace, receivers, cbvars>>

\* pjsua_set_null_snd_dev (when configured) and pjsua_start.
Start(t) ==
    /\ \/ pc[t] = "null_audio" /\ (Goto(t, "start") \/ Goto(t, "abort"))
       \/ pc[t] = "start" /\ (Goto(t, "trace") \/ Goto(t, "abort"))
    /\ UNCHANGED <<initialized, event_tx, mine, made, pjvars, receivers, cbvars>>

\* A trace module that does not register is only logged.
RegisterTrace(t) ==
    /\ pc[t] = "trace"
    /\ trace' \in BOOLEAN
    /\ Goto(t, "up")
    /\ UNCHANGED <<initialized, event_tx, mine, made, stack, polling, media, receivers, cbvars>>

-----------------------------------------------------------------------------
\* Drop, and the pjsua_destroy of a new() that fails.

\* pjsua_stop_worker_threads, which the application may call too ("join_up"): the
\* threads are told to quit, and joined.  Drop takes the PjsuaApp: no other call
\* is in it.
StopWorkers(t) ==
    /\ pc[t] = "up"
    /\ polling' = IF polling = "on" THEN "quit" ELSE polling
    /\ Goto(t, "join_up") \/ (Goto(t, "join") /\ cb["caller"] = Idle)
    /\ UNCHANGED <<initialized, event_tx, mine, made, stack, media, trace, receivers, cbvars>>

\* A variant of Drop that leaves the trace module registered.
JoinSkipsTrace(t) ==
    /\ pc[t] \in {"join", "join_up"}
    /\ cb["worker"] = Idle
    /\ polling' = "off"
    /\ Goto(t, IF pc[t] = "join_up" THEN "up" ELSE "clear")
    /\ UNCHANGED <<initialized, event_tx, mine, made, stack, media, trace, receivers, cbvars>>

JoinWorkers(t) ==
    /\ pc[t] \in {"join", "join_up"}
    /\ cb["worker"] = Idle
    /\ polling' = "off"
    /\ Goto(t, IF pc[t] = "join_up" THEN "up" ELSE "untrace")
    /\ UNCHANGED <<initialized, event_tx, mine, made, stack, media, trace, receivers, cbvars>>

UnregisterTrace(t) ==
    /\ pc[t] = "untrace"
    /\ trace' = FALSE
    /\ Goto(t, "clear")
    /\ UNCHANGED <<initialized, event_tx, mine, made, stack, polling, media, receivers, cbvars>>

\* A variant that lets the next PjsuaApp in before pjsua_destroy.
ClearResets(t) ==
    /\ pc[t] = "clear"
    /\ event_tx' = 0
    /\ initialized' = FALSE
    /\ Goto(t, "destroy")
    /\ UNCHANGED <<mine, made, pjvars, receivers, cbvars>>

ClearEventSender(t) ==
    /\ pc[t] = "clear"
    /\ event_tx' = 0
    /\ Goto(t, "destroy")
    /\ UNCHANGED <<initialized, mine, made, pjvars, receivers, cbvars>>

\* pjsua_destroy joins what threads are left, and makes callbacks of its own
\* (calls hung up, accounts unregistered) until it returns.
Destroy(t) ==
    /\ pc[t] \in {"destroy", "abort"}
    /\ \A k \in Callers : cb[k] = Idle
    /\ stack' = 0 /\ polling' = "off" /\ media' = FALSE
    /\ Goto(t, IF pc[t] = "abort" THEN "fail" ELSE "reset")
    /\ UNCHANGED <<initialized, event_tx, mine, made, trace, receivers, cbvars>>

\* A variant whose error paths return without the store.
ResetForgets(t) ==
    /\ pc[t] \in {"reset", "fail"}
    /\ initialized' = (pc[t] = "fail")
    /\ mine' = [mine EXCEPT ![t] = 0]
    /\ receivers' = IF pc[t] = "fail" THEN receivers \ {mine[t]} ELSE receivers
    /\ Goto(t, "out")
    /\ UNCHANGED <<event_tx, made, pjvars, cbvars>>

\* INITIALIZED.store(false), the last step of Drop and of a new() that failed;
\* a new() that failed drops its receiver, and leaves its sender where it is.
Reset(t) ==
    /\ pc[t] \in {"reset", "fail"}
    /\ initialized' = FALSE
    /\ mine' = [mine EXCEPT ![t] = 0]
    /\ receivers' = IF pc[t] = "fail" THEN receivers \ {mine[t]} ELSE receivers
    /\ Goto(t, "out")
    /\ UNCHANGED <<event_tx, made, pjvars, cbvars>>

\* The application drops a receiver, its PjsuaApp alive or not.
DropReceiver(i) ==
    /\ i \in receivers
    /\ \A t \in Threads : mine[t] = i => pc[t] \notin {"create", "init", "null_audio", "start", "trace"}
    /\ receivers' = receivers \ {i}
    /\ UNCHANGED <<initialized, event_tx, tvars, made, pjvars, cbvars>>

New(t) ==
    \/ Swap(t) \/ SetEventSender(t) \/ Create(t) \/ InitStack(t) \/ Start(t)
    \/ RegisterTrace(t)

\* What must happen once a drop, or the end of a new() that failed, has begun.
Finish(t) ==
    \/ JoinWorkers(t) \/ UnregisterTrace(t) \/ ClearEventSender(t) \/ Destroy(t) \/ Reset(t)

-----------------------------------------------------------------------------
\* PJSIP's callbacks.

\* The threads PJSUA has running: the caller is in PJSUA while its PjsuaApp is
\* up (the methods take &self, Drop takes it all) and in pjsua_destroy.
Running(k) ==
    CASE k = "worker" -> polling # "off"
      [] k = "media"  -> media
      [] k = "caller" -> \E t \in Threads : pc[t] \in {"up", "join_up", "destroy", "abort"}

\* What a callback does: ask PJSUA for the account or the call first, send so
\* many events, and whether the trace module makes it.
Body(info, sends) == [info |-> info, sends |-> sends, traced |-> FALSE]

\* on_reg_state2, on_incoming_call and on_call_state.
ReadsAndSends == Body(TRUE, 1)

\* on_call_media_state: a second event if the call has video.
MediaState == {Body(TRUE, 1), Body(TRUE, 2)}

\* on_dtmf_digit2, on_call_transfer_status and on_rejected_incoming_call send
\* what PJSIP passed them.
Sends == Body(FALSE, 1)

\* rust_sip_trace_on_msg: every message, while the trace module is registered.
Traced == IF trace THEN {[Sends EXCEPT !.traced = TRUE]} ELSE {}

\* The media threads report digits; the workers and the caller all the rest.
Bodies(k) == IF k = "media" THEN {Sends} ELSE {ReadsAndSends, Sends} \cup MediaState \cup Traced

\* A callback begins.
Callback(k) ==
    /\ stack # 0 /\ Running(k)
    /\ cb[k] = Idle /\ calls < MaxCallbacks
    /\ \E body \in Bodies(k) :
          cb' = [cb EXCEPT ![k] = [inst |-> stack, info |-> body.info, sends |-> body.sends,
                                   traced |-> body.traced]]
    /\ calls' = calls + 1
    /\ UNCHANGED <<initialized, event_tx, tvars, made, pjvars, receivers, delivered>>

\* pjsua_call_get_info or pjsua_acc_get_info; when it fails the event is lost.
GetInfo(k) ==
    /\ cb[k].info
    /\ \/ cb' = [cb EXCEPT ![k].info = FALSE]
       \/ cb' = [cb EXCEPT ![k] = Idle]
    /\ UNCHANGED <<initialized, event_tx, tvars, made, pjvars, receivers, calls, delivered>>

\* A variant that takes the sender to be there.
SendEventUnchecked(k) ==
    /\ cb[k] # Idle /\ ~cb[k].info
    /\ delivered' = delivered \cup {<<cb[k].inst, event_tx>>}
    /\ cb' = [cb EXCEPT ![k] = IF @.sends = 1 THEN Idle ELSE [@ EXCEPT !.sends = 1]]
    /\ UNCHANGED <<initialized, event_tx, tvars, made, pjvars, receivers, calls>>

\* send_event, under EVENT_TX's lock: with no sender, or no receiver any more,
\* the event is dropped.
SendEvent(k) ==
    /\ cb[k] # Idle /\ ~cb[k].info
    /\ delivered' = IF event_tx \in receivers
                      THEN delivered \cup {<<cb[k].inst, event_tx>>} ELSE delivered
    /\ cb' = [cb EXCEPT ![k] = IF @.sends = 1 THEN Idle ELSE [@ EXCEPT !.sends = 1]]
    /\ UNCHANGED <<initialized, event_tx, tvars, made, pjvars, receivers, calls>>

RunCallback(k) == GetInfo(k) \/ SendEvent(k)

Next ==
    \/ \E t \in Threads : New(t) \/ StopWorkers(t) \/ Finish(t)
    \/ \E i \in 1..MaxInstances : DropReceiver(i)
    \/ \E k \in Callers : Callback(k) \/ RunCallback(k)

Spec == Init /\ [][Next]_vars

\* A thread in new() or drop() goes on, and so does a callback.  (That threads told
\* to quit begin only so many callbacks more is MaxCallbacks.)
FairSpec ==
    /\ Spec
    /\ \A t \in Threads : WF_vars(New(t) /\ pc[t] # "out") /\ WF_vars(Finish(t))
    /\ \A k \in Callers : WF_vars(RunCallback(k))

-----------------------------------------------------------------------------
\* Properties.

Steps == {"out", "sender", "create", "init", "null_audio", "start", "trace", "up", "join_up",
          "join", "untrace", "clear", "destroy", "reset", "abort", "fail"}

Callbacks == [inst : 0..MaxInstances, info : BOOLEAN, sends : 0..2, traced : BOOLEAN]

TypeOK ==
    /\ initialized \in BOOLEAN
    /\ event_tx \in 0..MaxInstances
    /\ pc \in [Threads -> Steps] /\ mine \in [Threads -> 0..MaxInstances]
    /\ made \in 0..MaxInstances
    /\ stack \in 0..MaxInstances
    /\ polling \in {"off", "on", "quit"} /\ media \in BOOLEAN /\ trace \in BOOLEAN
    /\ receivers \in SUBSET (1..MaxInstances)
    /\ cb \in [Callers -> Callbacks]
    /\ calls \in 0..MaxCallbacks
    /\ delivered \in SUBSET ((1..MaxInstances) \X (1..MaxInstances))

\* PJSUA is used by one PjsuaApp at a time, from INITIALIZED's swap to the end of
\* Drop or of a new() that fails: whatever threads call new() at once, and
\* whichever step of it fails (pjsua_app.rs:47, "Guard against double
\* initialisation").
Singleton == \A t, u \in Threads : pc[t] # "out" /\ pc[u] # "out" => t = u

\* An event reaches the receiver that came with its own PjsuaApp, and no other:
\* not one in flight in a callback while one PjsuaApp is dropped and the next one
\* made (pjsua_app.rs:1383-1389).
OwnReceiver == \A d \in delivered : d[1] = d[2]

\* While a PjsuaApp is up its own sender is in EVENT_TX: a new() that is refused,
\* or fails, takes no events away from it.
SenderHeld == \A t \in Threads : pc[t] \in {"up", "join_up"} => event_tx = mine[t]

\* The trace module is registered only while there is a PJSUA (event.rs:452,
\* "Call before pjsua_destroy()"), and never taken out under a thread that is
\* tracing a message.
TraceInside ==
    /\ trace => stack # 0
    /\ \A k \in Callers : cb[k].traced => trace

\* A drop, or a new() that fails, whichever step it fails at, ends and lets the
\* next new() in, although it waits for the callbacks in flight.
LetsNextIn ==
    \A t \in Threads : pc[t] \in {"join", "abort", "fail"} ~> ~initialized

-----------------------------------------------------------------------------
\* Why: the inductive invariant.

\* Steps with PJSUA there, and with the thread's own sender installed.
WithStack  == {"init", "null_audio", "start", "trace", "up", "join_up", "join", "untrace",
               "clear", "abort", "destroy"}
WithSender == {"create", "fail"} \cup (WithStack \ {"destroy"})

\* INITIALIZED is held by the one thread that is not out, and the stack, the
\* sender and the trace module are that thread's, each at its own steps.
HolderInv ==
    /\ initialized <=> \E t \in Threads : pc[t] # "out"
    /\ stack # 0 => \E t \in Threads : pc[t] \in WithStack
    /\ \A t \in Threads :
          /\ pc[t] # "out" => mine[t] # 0
          /\ pc[t] \in WithStack => stack = mine[t]
          /\ pc[t] \notin WithStack \cup {"out"} => stack = 0
          /\ pc[t] \in WithSender => event_tx = mine[t]
          /\ pc[t] \in {"destroy", "reset"} => event_tx = 0
    /\ trace => \E t \in Threads : pc[t] \in {"up", "join_up", "join", "untrace"}

\* Callbacks are the present PJSUA's.  When Drop takes the trace module out the
\* workers are gone, and nobody else is in PJSUA.
CallbackInv ==
    /\ \A k \in Callers : cb[k] # Idle => stack # 0 /\ cb[k].inst = stack
    /\ \A k \in Callers : cb[k].traced => trace /\ k # "media"
    /\ \A t \in Threads :
          /\ pc[t] \in {"join", "untrace"} => cb["caller"] = Idle
          /\ pc[t] = "untrace" => polling = "off" /\ cb["worker"] = Idle

\* What the order of the steps of new() and Drop keeps, whoever interleaves.
AppInv == Singleton /\ HolderInv /\ CallbackInv /\ OwnReceiver

===============================================================================
