--------------------------------- MODULE Calls ---------------------------------
(***************************************************************************)
(* Call control (pjsua_app.rs): what PjsuaApp asks of PJSUA when it makes, *)
(* answers, holds, resumes and renegotiates a call.  PJSUA keeps one       *)
(* setting per call (streams, directions, flags), replaces it whole on     *)
(* every re-INVITE and fixes it on the first answer that carries one; each *)
(* method reads it with pjsua_call_get_info and hands back a changed copy, *)
(* so another thread, or the remote, comes in between.                     *)
(*                                                                         *)
(* A CallId is not given to another call here: see the README.             *)
(***************************************************************************)
EXTENDS Naturals, FiniteSets

CONSTANTS
    CallIds,   \* calls
    Threads,   \* threads that share the PjsuaApp
    NoVideo    \* Option<VideoDirection>::None

VideoDirection == {"send", "recv", "both"}
Video == VideoDirection \cup {NoVideo}

ASSUME NoVideoAssumption == NoVideo \notin VideoDirection

VARIABLES
    state,    \* CallState, as PJSUA has it; "idle" before the call
    setting,  \* PJSUA's setting of the call
    inited,   \* an answer has fixed it
    hold,     \* PJSUA holds the call
    offering, \* a re-INVITE is in flight
    offer,    \* the last description of its media the remote was sent
    pc        \* the second call into PJSUA each thread is about to make

\* History: the video the call was set up with, and the calls re-INVITEd with a
\* setting that was read before any answer had fixed it.
VARIABLES setup, undone

callvars == <<state, setting, inited, hold, offering, offer, setup, undone>>
vars == <<callvars, pc>>

Flags == {"media_dir", "no_sdp_offer", "unhold"}

Setting == [vid_cnt : 0..1, flag : SUBSET Flags, dir : VideoDirection]

\* pjsua_call_setting_default, in a PJSIP built with video.
DefaultSetting == [vid_cnt |-> 1, flag |-> {}, dir |-> "both"]

\* The video a setting stands for.
VideoOf(opt) ==
    IF opt.vid_cnt = 0 THEN NoVideo
    ELSE IF "media_dir" \in opt.flag THEN opt.dir ELSE "both"

\* What the remote is told: no description, one on hold, or the call's streams.
NoOffer == [sdp |-> FALSE, held |-> FALSE, video |-> NoVideo]
Offer(opt, held) ==
    IF ~held /\ "no_sdp_offer" \in opt.flag THEN NoOffer
    ELSE [sdp |-> TRUE, held |-> held, video |-> VideoOf(opt)]

\* No call into PJSUA is pending.
Idle == [op |-> "idle"]
Up(c) == state[c] \notin {"idle", "disconnected"}

Init ==
    /\ state = [c \in CallIds |-> "idle"]
    /\ setting = [c \in CallIds |-> DefaultSetting]
    /\ inited = [c \in CallIds |-> FALSE]
    /\ hold = [c \in CallIds |-> FALSE] /\ offering = [c \in CallIds |-> FALSE]
    /\ offer = [c \in CallIds |-> NoOffer]
    /\ setup = [c \in CallIds |-> NoVideo] /\ undone = {}
    /\ pc = [t \in Threads |-> Idle]

-----------------------------------------------------------------------------
\* A variant that writes the direction whatever it is.
ApplyVideoSettingAlways(opt, video) ==
    [opt EXCEPT !.vid_cnt = IF video = NoVideo THEN 0 ELSE 1, !.flag = @ \cup {"media_dir"},
                !.dir = video]

ApplyVideoSetting(opt, video) ==
    IF video = NoVideo THEN [opt EXCEPT !.vid_cnt = 0]
    ELSE [opt EXCEPT !.vid_cnt = 1, !.flag = @ \cup {"media_dir"}, !.dir = video]

\* make_call_with_setting: PJSUA keeps the setting with the call.
MakeCall(t, c, late_offer, video) ==
    /\ pc[t] = Idle /\ state[c] = "idle"
    /\ LET opt == ApplyVideoSetting(
                      [DefaultSetting EXCEPT !.flag = IF late_offer THEN {"no_sdp_offer"} ELSE {}],
                      video)
       IN  /\ setting' = [setting EXCEPT ![c] = opt]
           /\ offer' = [offer EXCEPT ![c] = Offer(opt, FALSE)]
    /\ state' = [state EXCEPT ![c] = "calling"]
    /\ inited' = [inited EXCEPT ![c] = TRUE]
    /\ setup' = [setup EXCEPT ![c] = video]
    /\ UNCHANGED <<hold, offering, undone, pc>>

\* A variant that compares the number of streams.
ChangedCount(opt, old) == opt.vid_cnt # old.vid_cnt

Changed(opt, old) == opt.vid_cnt # old.vid_cnt \/ opt.flag # old.flag

\* answer_call and answer_call_with_video, up to pjsua_call_answer2: the setting
\* goes along when its streams or its flags differ from the call's.
ReadAnswer(t, c, code, video) ==
    /\ pc[t] = Idle /\ Up(c)
    /\ LET opt == ApplyVideoSetting(setting[c], video)
       IN  pc' = [pc EXCEPT ![t] =
                     [op |-> "answer", call |-> c, code |-> code, video |-> video, opt |-> opt,
                      changed |-> Changed(opt, setting[c])]]
    /\ UNCHANGED callvars

\* A variant that keeps every flag of the call.
ReinviteOptAll(opt, flags) == [opt EXCEPT !.flag = @ \cup flags]

\* The call's own setting, of whose flags only the media directions stay.
ReinviteOpt(opt, flags) == [opt EXCEPT !.flag = (@ \cap {"media_dir"}) \cup flags]

\* unhold_call and reinvite_call, up to pjsua_call_reinvite2.
ReadReinvite(t, c, flags) ==
    /\ pc[t] = Idle /\ Up(c)
    /\ pc' = [pc EXCEPT ![t] = [op |-> IF "unhold" \in flags THEN "unhold" ELSE "reinvite",
                                call |-> c, opt |-> ReinviteOpt(setting[c], flags),
                                early |-> state[c] = "incoming"]]
    /\ UNCHANGED callvars

-----------------------------------------------------------------------------
\* The calls into PJSUA.  One that is refused changes nothing.

Refused(t) ==
    /\ pc[t] # Idle
    /\ IF pc[t].op = "answer" THEN state[pc[t].call] \notin {"incoming", "early"}
       ELSE state[pc[t].call] # "confirmed" \/ offering[pc[t].call]
    /\ pc' = [pc EXCEPT ![t] = Idle]
    /\ UNCHANGED callvars

\* pjsua_call_answer2.  The first 1xx or 2xx answer with a setting fixes it.
Answer(t) ==
    /\ pc[t] # Idle /\ pc[t].op = "answer"
    /\ LET c == pc[t].call
           opt == IF pc[t].changed /\ ~inited[c] THEN pc[t].opt ELSE setting[c]
       IN  /\ state[c] \in {"incoming", "early"}
           /\ \/ /\ pc[t].code < 300
                 /\ state' = [state EXCEPT ![c] =
                                 IF pc[t].code < 200 THEN "early" ELSE "confirmed"]
                 /\ setting' = [setting EXCEPT ![c] = opt]
                 /\ inited' = [inited EXCEPT ![c] = @ \/ pc[t].changed]
                 /\ offer' = [offer EXCEPT ![c] = Offer(opt, FALSE)]
                 /\ setup' = [setup EXCEPT ![c] = IF state[c] = "incoming" THEN pc[t].video ELSE @]
              \/ /\ pc[t].code >= 300
                 /\ state' = [state EXCEPT ![c] = "disconnected"]
                 /\ UNCHANGED <<setting, inited, offer, setup>>
    /\ pc' = [pc EXCEPT ![t] = Idle]
    /\ UNCHANGED <<hold, offering, undone>>

\* pjsua_call_set_hold (hold_call has no other step).
Hold(t, c) ==
    /\ pc[t] = Idle
    /\ state[c] = "confirmed" /\ ~offering[c] /\ ~hold[c]
    /\ hold' = [hold EXCEPT ![c] = TRUE]
    /\ offering' = [offering EXCEPT ![c] = TRUE]
    /\ offer' = [offer EXCEPT ![c] = Offer(setting[c], TRUE)]
    /\ UNCHANGED <<state, setting, inited, setup, undone, pc>>

\* pjsua_call_reinvite2: the setting becomes the call's.  A call on hold stays
\* so unless the flags say otherwise.
Reinvite(t) ==
    /\ pc[t] # Idle /\ pc[t].op \in {"unhold", "reinvite"}
    /\ LET c == pc[t].call
           held == hold[c] /\ "unhold" \notin pc[t].opt.flag
       IN  /\ state[c] = "confirmed" /\ ~offering[c]
           /\ setting' = [setting EXCEPT ![c] = pc[t].opt]
           /\ hold' = [hold EXCEPT ![c] = held]
           /\ offering' = [offering EXCEPT ![c] = TRUE]
           /\ offer' = [offer EXCEPT ![c] = Offer(pc[t].opt, held)]
           /\ undone' = IF pc[t].early THEN undone \cup {c} ELSE undone
    /\ pc' = [pc EXCEPT ![t] = Idle]
    /\ UNCHANGED <<state, inited, setup>>

\* hangup_call and hangup_all; the remote hanging up or cancelling.
Disconnect(c) ==
    /\ Up(c)
    /\ state' = [state EXCEPT ![c] = "disconnected"]
    /\ UNCHANGED <<setting, inited, hold, offering, offer, setup, undone, pc>>

-----------------------------------------------------------------------------
\* The remote.

Incoming(c) ==
    /\ state[c] = "idle"
    /\ state' = [state EXCEPT ![c] = "incoming"]
    /\ UNCHANGED <<setting, inited, hold, offering, offer, setup, undone, pc>>

\* The remote answers the INVITE; a late offer is answered in the ACK, with the
\* call's streams.
Answered(c) ==
    /\ state[c] = "calling"
    /\ state' = [state EXCEPT ![c] = "confirmed"]
    /\ offer' = [offer EXCEPT ![c] = [sdp |-> TRUE, held |-> FALSE, video |-> VideoOf(setting[c])]]
    /\ UNCHANGED <<setting, inited, hold, offering, setup, undone, pc>>

\* It answers a re-INVITE.
ReinviteAnswered(c) ==
    /\ state[c] = "confirmed" /\ offering[c]
    /\ offering' = [offering EXCEPT ![c] = FALSE]
    /\ UNCHANGED <<state, setting, inited, hold, offer, setup, undone, pc>>

Thread(t, c) ==
    \/ \E late \in BOOLEAN, video \in Video : MakeCall(t, c, late, video)
    \/ \E code \in {180, 200, 486}, video \in Video : ReadAnswer(t, c, code, video)
    \/ ReadReinvite(t, c, {"unhold"}) \/ ReadReinvite(t, c, {})
    \/ Hold(t, c)

Remote(c) == Incoming(c) \/ Answered(c) \/ ReinviteAnswered(c)

Next ==
    \/ \E t \in Threads : Refused(t) \/ Answer(t) \/ Reinvite(t)
    \/ \E c \in CallIds : (\E t \in Threads : Thread(t, c)) \/ Disconnect(c) \/ Remote(c)

Spec == Init /\ [][Next]_vars

-----------------------------------------------------------------------------
\* Properties.

Command ==
    {Idle}
    \cup [op : {"answer"}, call : CallIds, code : {180, 200, 486}, video : Video,
          opt : Setting, changed : BOOLEAN]
    \cup [op : {"unhold", "reinvite"}, call : CallIds, opt : Setting, early : BOOLEAN]

TypeOK ==
    /\ state \in [CallIds -> {"idle", "calling", "incoming", "early", "confirmed", "disconnected"}]
    /\ setting \in [CallIds -> Setting]
    /\ inited \in [CallIds -> BOOLEAN]
    /\ hold \in [CallIds -> BOOLEAN] /\ offering \in [CallIds -> BOOLEAN]
    /\ offer \in [CallIds -> [sdp : BOOLEAN, held : BOOLEAN, video : Video]]
    /\ setup \in [CallIds -> Video] /\ undone \subseteq CallIds
    /\ pc \in [Threads -> Command]

\* Every description the remote gets of a call, in an INVITE, an answer or a
\* re-INVITE, has the video the call was set up with and in that direction: what
\* make_call asked for, or the first answer (pjsua_app.rs:683-685, 734-736).  The
\* one exception: a re-INVITE for which a thread read the setting before another
\* thread gave the first answer puts the default back (pjsua_app.rs:737-743).
SetupKept ==
    \A c \in CallIds \ undone : offer[c].sdp => offer[c].video = setup[c]

\* A call made with a late offer renegotiates with an offer of its own
\* (pjsua_app.rs:729, "Re-INVITE with a fresh offer").
FreshOffer == \A c \in CallIds : state[c] = "confirmed" => offer[c].sdp

\* A remote that was put on hold is taken off it by unhold_call alone, never by a
\* reinvite_call that finds the flag of an earlier unhold_call in the call's
\* setting (pjsua_app.rs:737-742).
HoldKept ==
    [][\A c \in CallIds :
          offer[c].held /\ ~offer'[c].held =>
              \E t \in Threads : pc[t].op = "unhold" /\ pc[t].call = c /\ pc'[t] = Idle]_vars

-----------------------------------------------------------------------------
\* Why: the inductive invariant.

\* The call's setting is fixed by an INVITE or an answer, and stands from then on
\* for the video the call was set up with, unless a re-INVITE has undone it.
CallFixed(c) ==
    /\ state[c] \in {"idle", "incoming"} =>
          setting[c] = DefaultSetting /\ ~inited[c] /\ offer[c] = NoOffer
    /\ state[c] \in {"calling", "early", "confirmed"} =>
          inited[c] /\ (c \notin undone => VideoOf(setting[c]) = setup[c])
    /\ state[c] = "early" => "no_sdp_offer" \notin setting[c].flag
    /\ offer[c].held => hold[c] /\ state[c] \in {"confirmed", "disconnected"}

\* What a thread read is still true when it calls PJSUA, or PJSUA ignores it.
ReadHolds(cmd) ==
    LET c == cmd.call
    IN  /\ state[c] # "idle"
        /\ cmd.op = "answer" /\ state[c] = "incoming" =>
              cmd.changed /\ cmd.opt = ApplyVideoSetting(DefaultSetting, cmd.video)
        /\ cmd.op # "answer" =>
              /\ "no_sdp_offer" \notin cmd.opt.flag
              /\ "unhold" \in cmd.opt.flag => cmd.op = "unhold"
              /\ ~cmd.early => state[c] # "incoming"
              /\ ~cmd.early /\ c \notin undone => VideoOf(cmd.opt) = setup[c]

CallInv ==
    /\ \A c \in CallIds : CallFixed(c)
    /\ \A t \in Threads : pc[t] # Idle => ReadHolds(pc[t])
    /\ SetupKept
    /\ FreshOffer

================================================================================
