------------------------------- MODULE CallsProofs -------------------------------
(***************************************************************************)
(* Calls: for any number of calls and threads, a confirmed call has sent a *)
(* description of its own, only unhold_call ends a hold, and every         *)
(* description the remote gets has the video the call was set up with,     *)
(* unless a re-INVITE read before the first answer has undone it.          *)
(***************************************************************************)
EXTENDS Calls, TLAPS

\* What apply_video_setting asks for is what the setting stands for.
LEMMA ApplyFacts ==
    ASSUME NEW opt \in Setting, NEW video \in Video
    PROVE  /\ ApplyVideoSetting(opt, video) \in Setting
           /\ VideoOf(ApplyVideoSetting(opt, video)) = video
           /\ ApplyVideoSetting(opt, video).flag \subseteq opt.flag \cup {"media_dir"}
<1> DEFINE new == ApplyVideoSetting(opt, video)
<1>1. CASE video = NoVideo
  <2>1. new = [opt EXCEPT !.vid_cnt = 0]
    BY <1>1 DEF ApplyVideoSetting
  <2>2. new \in Setting /\ new.vid_cnt = 0 /\ new.flag = opt.flag
    BY <2>1 DEF Setting
  <2> HIDE DEF new
  <2>3. VideoOf(new) = video
    BY <1>1, <2>2 DEF VideoOf
  <2> QED  BY <2>2, <2>3 DEF new
<1>2. CASE video # NoVideo
  <2>1. video \in VideoDirection
    BY <1>2 DEF Video
  <2>2. new = [opt EXCEPT !.vid_cnt = 1, !.flag = @ \cup {"media_dir"}, !.dir = video]
    BY <1>2 DEF ApplyVideoSetting
  <2>3. /\ new.vid_cnt = 1 /\ new.flag = opt.flag \cup {"media_dir"} /\ new.dir = video
        /\ new = [vid_cnt |-> 1, flag |-> opt.flag \cup {"media_dir"}, dir |-> video]
    BY <2>2 DEF Setting
  <2>5. opt.flag \cup {"media_dir"} \in SUBSET Flags
    BY DEF Setting, Flags
  <2>6. new \in Setting
    <3> HIDE DEF new
    <3> QED  BY <2>1, <2>3, <2>5 DEF Setting
  <2> HIDE DEF new
  <2>4. VideoOf(new) = video
    BY <2>3 DEF VideoOf
  <2> QED  BY <2>3, <2>4, <2>6 DEF new
<1> QED  BY <1>1, <1>2

\* A re-INVITE keeps the streams and directions, and no flag of an earlier one.
LEMMA ReinviteFacts ==
    ASSUME NEW opt \in Setting, NEW flags \in {{"unhold"}, {}}
    PROVE  /\ ReinviteOpt(opt, flags) \in Setting
           /\ VideoOf(ReinviteOpt(opt, flags)) = VideoOf(opt)
           /\ "no_sdp_offer" \notin ReinviteOpt(opt, flags).flag
           /\ "unhold" \in ReinviteOpt(opt, flags).flag => "unhold" \in flags
<1> DEFINE new == ReinviteOpt(opt, flags)
<1>1. new = [opt EXCEPT !.flag = (opt.flag \cap {"media_dir"}) \cup flags]
  BY DEF ReinviteOpt
<1>2. /\ new \in Setting /\ new.vid_cnt = opt.vid_cnt /\ new.dir = opt.dir
      /\ new.flag = (opt.flag \cap {"media_dir"}) \cup flags
  BY <1>1 DEF Setting, Flags
<1> HIDE DEF new
<1>3. "media_dir" \in new.flag <=> "media_dir" \in opt.flag
  BY <1>2
<1>4. VideoOf(new) = VideoOf(opt)
  BY <1>2, <1>3 DEF VideoOf
<1>5. "no_sdp_offer" \notin new.flag /\ ("unhold" \in new.flag => "unhold" \in flags)
  BY <1>2
<1> QED  BY <1>2, <1>4, <1>5 DEF new

LEMMA VideoOfType == ASSUME NEW opt \in Setting PROVE VideoOf(opt) \in Video
<1>1. opt.dir \in VideoDirection /\ "both" \in VideoDirection
  BY DEF Setting, VideoDirection
<1> QED  BY <1>1 DEF VideoOf, Video

LEMMA OfferFacts ==
    ASSUME NEW opt \in Setting, NEW held \in BOOLEAN
    PROVE  /\ Offer(opt, held) \in [sdp : BOOLEAN, held : BOOLEAN, video : Video]
           /\ Offer(opt, held).sdp => Offer(opt, held).video = VideoOf(opt)
           /\ Offer(opt, held).held => held
           /\ held => Offer(opt, held).held
           /\ held \/ "no_sdp_offer" \notin opt.flag => Offer(opt, held).sdp
<1>1. VideoOf(opt) \in Video /\ NoVideo \in Video
  BY VideoOfType DEF Video
<1>2. CASE ~held /\ "no_sdp_offer" \in opt.flag
  BY <1>1, <1>2 DEF Offer, NoOffer
<1>3. CASE held \/ "no_sdp_offer" \notin opt.flag
  BY <1>1, <1>3 DEF Offer
<1> QED  BY <1>2, <1>3

LEMMA Defaults ==
    /\ DefaultSetting \in Setting /\ DefaultSetting.flag = {} /\ DefaultSetting.vid_cnt = 1
    /\ NoOffer \in [sdp : BOOLEAN, held : BOOLEAN, video : Video] /\ ~NoOffer.sdp /\ ~NoOffer.held
  BY DEF DefaultSetting, Setting, Flags, VideoDirection, NoOffer, Video

\* The fields of a pending call into PJSUA.
LEMMA CommandFields ==
    ASSUME TypeOK, NEW t \in Threads, pc[t] # Idle
    PROVE  /\ pc[t].call \in CallIds /\ pc[t].opt \in Setting
           /\ pc[t].op \in {"answer", "unhold", "reinvite"}
           /\ pc[t].op = "answer" => pc[t].code \in {180, 200, 486} /\ pc[t].video \in Video
                                     /\ pc[t].changed \in BOOLEAN
           /\ pc[t].op # "answer" => pc[t].early \in BOOLEAN
<1>1. pc[t] \in Command
  BY DEF TypeOK
<1> QED  BY <1>1 DEF Command

-----------------------------------------------------------------------------

\* One step of each action: the types, the invariant, and what it does to a hold.
HoldStep ==
    \A c \in CallIds :
        offer[c].held /\ ~offer'[c].held =>
            \E t \in Threads : pc[t].op = "unhold" /\ pc[t].call = c /\ pc'[t] = Idle

Good == TypeOK' /\ CallInv' /\ HoldStep

LEMMA MakeCallGood ==
    ASSUME TypeOK, CallInv, NEW t \in Threads, NEW c \in CallIds, NEW late \in BOOLEAN,
           NEW video \in Video, MakeCall(t, c, late, video)
    PROVE  Good
<1> DEFINE base == [DefaultSetting EXCEPT !.flag = IF late THEN {"no_sdp_offer"} ELSE {}]
           opt == ApplyVideoSetting(base, video)
<1>1. base \in Setting
  BY Defaults DEF Setting, Flags
<1>2. opt \in Setting /\ VideoOf(opt) = video
  BY <1>1, ApplyFacts
<1>3. /\ Offer(opt, FALSE) \in [sdp : BOOLEAN, held : BOOLEAN, video : Video]
      /\ Offer(opt, FALSE).sdp => Offer(opt, FALSE).video = video
      /\ ~Offer(opt, FALSE).held
  BY <1>2, OfferFacts
<1>4. /\ setting' = [setting EXCEPT ![c] = opt] /\ offer' = [offer EXCEPT ![c] = Offer(opt, FALSE)]
      /\ state' = [state EXCEPT ![c] = "calling"] /\ inited' = [inited EXCEPT ![c] = TRUE]
      /\ setup' = [setup EXCEPT ![c] = video] /\ UNCHANGED <<hold, offering, undone, pc>>
      /\ state[c] = "idle"
  BY DEF MakeCall
<1> HIDE DEF opt, base
<1>5. TypeOK'
  BY <1>2, <1>3, <1>4 DEF TypeOK
<1>6. \A d \in CallIds : CallFixed(d)'
  BY <1>2, <1>3, <1>4 DEF TypeOK, CallInv, CallFixed
<1>7. ASSUME NEW u \in Threads, pc'[u] # Idle PROVE ReadHolds(pc[u])'
  <2>1. ReadHolds(pc[u]) /\ pc[u].call \in CallIds
    BY <1>4, <1>7, CommandFields DEF CallInv
  <2>2. pc[u].call # c
    BY <1>4, <2>1 DEF ReadHolds
  <2> QED  BY <1>4, <2>1, <2>2 DEF ReadHolds, TypeOK
<1>8. SetupKept' /\ FreshOffer'
  BY <1>2, <1>3, <1>4 DEF TypeOK, CallInv, SetupKept, FreshOffer
<1>9. HoldStep
  BY <1>4, Defaults DEF HoldStep, TypeOK, CallInv, CallFixed
<1> QED  BY <1>4, <1>5, <1>6, <1>7, <1>8, <1>9 DEF Good, CallInv

LEMMA ReadAnswerGood ==
    ASSUME TypeOK, CallInv, NEW t \in Threads, NEW c \in CallIds, NEW code \in {180, 200, 486},
           NEW video \in Video, ReadAnswer(t, c, code, video)
    PROVE  Good
<1> DEFINE opt == ApplyVideoSetting(setting[c], video)
           cmd == [op |-> "answer", call |-> c, code |-> code, video |-> video, opt |-> opt,
                   changed |-> Changed(opt, setting[c])]
<1>1. opt \in Setting /\ VideoOf(opt) = video
  BY ApplyFacts DEF TypeOK
<1>2. pc' = [pc EXCEPT ![t] = cmd] /\ UNCHANGED callvars /\ Up(c)
  BY DEF ReadAnswer
<1>3. Changed(opt, setting[c]) \in BOOLEAN
  BY DEF Changed
<1>4. cmd \in Command
  BY <1>1, <1>3 DEF Command
<1>5. ReadHolds(cmd)'
  <2>1. state'[c] # "idle"
    BY <1>2 DEF Up, callvars
  <2>2. state'[c] = "incoming" =>
           Changed(opt, setting[c]) /\ opt = ApplyVideoSetting(DefaultSetting, video)
    <3>1. SUFFICES ASSUME state[c] = "incoming"
                   PROVE  Changed(opt, setting[c]) /\ opt = ApplyVideoSetting(DefaultSetting, video)
      BY <1>2 DEF callvars
    <3>2. setting[c] = DefaultSetting
      BY <3>1 DEF CallInv, CallFixed
    <3>3. Changed(ApplyVideoSetting(DefaultSetting, video), DefaultSetting)
      BY DEF Changed, ApplyVideoSetting, DefaultSetting
    <3> QED  BY <3>2, <3>3
  <2>3. cmd.call = c /\ cmd.op = "answer" /\ cmd.video = video /\ cmd.opt = opt
        /\ cmd.changed = Changed(opt, setting[c])
    OBVIOUS
  <2>4. cmd' = cmd
    BY <1>2 DEF callvars
  <2> HIDE DEF opt, cmd
  <2> QED  BY <1>2, <2>1, <2>2, <2>3, <2>4 DEF ReadHolds, callvars
<1> HIDE DEF cmd, opt
<1>6. TypeOK'
  BY <1>2, <1>4 DEF TypeOK, callvars
<1>7. \A d \in CallIds : CallFixed(d)'
  BY <1>2 DEF CallInv, CallFixed, callvars
<1>8. ASSUME NEW u \in Threads, pc'[u] # Idle PROVE ReadHolds(pc[u])'
  <2>1. CASE u = t
    <3>1. pc'[u] = cmd /\ cmd' = cmd
      BY <1>2, <2>1 DEF TypeOK, cmd, opt, callvars
    <3> QED  BY <1>5, <3>1 DEF ReadHolds
  <2>2. CASE u # t
    BY <1>2, <1>8, <2>2 DEF ReadHolds, TypeOK, CallInv, callvars
  <2> QED  BY <2>1, <2>2
<1>9. SetupKept' /\ FreshOffer' /\ HoldStep
  BY <1>2 DEF CallInv, SetupKept, FreshOffer, HoldStep, callvars
<1> QED  BY <1>6, <1>7, <1>8, <1>9 DEF Good, CallInv

LEMMA ReadReinviteGood ==
    ASSUME TypeOK, CallInv, NEW t \in Threads, NEW c \in CallIds,
           NEW flags \in {{"unhold"}, {}}, ReadReinvite(t, c, flags)
    PROVE  Good
<1> DEFINE opt == ReinviteOpt(setting[c], flags)
           cmd == [op |-> IF "unhold" \in flags THEN "unhold" ELSE "reinvite", call |-> c, opt |-> opt,
                   early |-> state[c] = "incoming"]
<1>1. /\ opt \in Setting /\ VideoOf(opt) = VideoOf(setting[c])
      /\ "no_sdp_offer" \notin opt.flag /\ ("unhold" \in opt.flag => "unhold" \in flags)
  BY ReinviteFacts DEF TypeOK
<1>2. /\ pc' = [pc EXCEPT ![t] = cmd] /\ UNCHANGED callvars
      /\ state[c] \in {"calling", "incoming", "early", "confirmed"}
  BY DEF ReadReinvite, Up, TypeOK
<1> HIDE DEF opt
<1>3. cmd \in Command
  BY <1>1 DEF Command
<1>4. ReadHolds(cmd)'
  <2>1. state[c] # "incoming" /\ c \notin undone => VideoOf(setting[c]) = setup[c]
    BY <1>2 DEF CallInv, CallFixed
  <2>2. /\ cmd.call = c /\ cmd.op \in {"unhold", "reinvite"} /\ cmd.opt = opt
        /\ (cmd.op = "unhold" <=> "unhold" \in flags)
        /\ (cmd.early <=> state[c] = "incoming")
    OBVIOUS
  <2>3. cmd' = cmd
    BY <1>2 DEF callvars, opt
  <2> HIDE DEF cmd
  <2> QED  BY <1>1, <1>2, <2>1, <2>2, <2>3 DEF ReadHolds, callvars
<1> HIDE DEF cmd
<1>6. TypeOK'
  BY <1>2, <1>3 DEF TypeOK, callvars
<1>7. \A d \in CallIds : CallFixed(d)'
  BY <1>2 DEF CallInv, CallFixed, callvars
<1>8. ASSUME NEW u \in Threads, pc'[u] # Idle PROVE ReadHolds(pc[u])'
  <2>1. CASE u = t
    <3>1. pc'[u] = cmd /\ cmd' = cmd
      BY <1>2, <2>1 DEF TypeOK, cmd, opt, callvars
    <3> QED  BY <1>4, <3>1 DEF ReadHolds
  <2>2. CASE u # t
    BY <1>2, <1>8, <2>2 DEF ReadHolds, TypeOK, CallInv, callvars
  <2> QED  BY <2>1, <2>2
<1>9. SetupKept' /\ FreshOffer' /\ HoldStep
  BY <1>2 DEF CallInv, SetupKept, FreshOffer, HoldStep, callvars
<1> QED  BY <1>6, <1>7, <1>8, <1>9 DEF Good, CallInv

\* The first answer fixes the setting at what its video asked for; a later one
\* changes nothing.
LEMMA AnswerGood ==
    ASSUME TypeOK, CallInv, NEW t \in Threads, Answer(t)
    PROVE  Good
<1> DEFINE c == pc[t].call
           opt == IF pc[t].changed /\ ~inited[c] THEN pc[t].opt ELSE setting[c]
<1>1. /\ c \in CallIds /\ pc[t].opt \in Setting /\ pc[t].video \in Video
      /\ pc[t].code \in {180, 200, 486} /\ pc[t].changed \in BOOLEAN /\ pc[t].op = "answer"
      /\ ReadHolds(pc[t])
  BY CommandFields DEF Answer, CallInv
<1>2. /\ state[c] \in {"incoming", "early"}
      /\ pc' = [pc EXCEPT ![t] = Idle] /\ UNCHANGED <<hold, offering, undone>>
  BY DEF Answer
<1>3. opt \in Setting /\ setting[c] \in Setting
  BY <1>1 DEF TypeOK
<1>4. "no_sdp_offer" \notin opt.flag
  <2>1. CASE state[c] = "incoming"
    <3>1. pc[t].changed /\ ~inited[c] /\ pc[t].opt = ApplyVideoSetting(DefaultSetting, pc[t].video)
      BY <1>1, <2>1 DEF ReadHolds, CallInv, CallFixed
    <3> QED  BY <1>1, <3>1, ApplyFacts, Defaults
  <2>2. CASE state[c] = "early"
    BY <1>1, <2>2 DEF CallInv, CallFixed
  <2> QED  BY <1>2, <2>1, <2>2
<1>5. c \notin undone => VideoOf(opt) = IF state[c] = "incoming" THEN pc[t].video ELSE setup[c]
  <2>1. CASE state[c] = "incoming"
    <3>1. pc[t].changed /\ ~inited[c] /\ pc[t].opt = ApplyVideoSetting(DefaultSetting, pc[t].video)
      BY <1>1, <2>1 DEF ReadHolds, CallInv, CallFixed
    <3> QED  BY <1>1, <2>1, <3>1, ApplyFacts, Defaults
  <2>2. CASE state[c] = "early"
    BY <1>1, <2>2 DEF CallInv, CallFixed
  <2> QED  BY <1>2, <2>1, <2>2
<1>6. inited[c] \/ pc[t].changed
  BY <1>1, <1>2 DEF ReadHolds, CallInv, CallFixed
<1>7. /\ Offer(opt, FALSE) \in [sdp : BOOLEAN, held : BOOLEAN, video : Video]
      /\ Offer(opt, FALSE).sdp /\ Offer(opt, FALSE).video = VideoOf(opt)
      /\ ~Offer(opt, FALSE).held
  BY <1>3, <1>4, OfferFacts
<1>8. ~offer[c].held
  BY <1>1, <1>2 DEF CallInv, CallFixed
<1>9. ASSUME NEW u \in Threads, pc'[u] # Idle
      PROVE  pc'[u] = pc[u] /\ ReadHolds(pc[u]) /\ pc[u].call \in CallIds
  BY <1>2, <1>9, CommandFields DEF TypeOK, CallInv
<1>10. Idle \in Command
  BY DEF Command
<1>11. CASE pc[t].code < 300
  <2> DEFINE next == IF pc[t].code < 200 THEN "early" ELSE "confirmed"
             video == IF state[c] = "incoming" THEN pc[t].video ELSE setup[c]
  <2>1. /\ state' = [state EXCEPT ![c] = next]
        /\ setting' = [setting EXCEPT ![c] = opt]
        /\ inited' = [inited EXCEPT ![c] = @ \/ pc[t].changed]
        /\ offer' = [offer EXCEPT ![c] = Offer(opt, FALSE)]
        /\ setup' = [setup EXCEPT ![c] = video]
    <3>1. ~(pc[t].code >= 300)
      BY <1>1, <1>11
    <3> QED  BY <3>1 DEF Answer
  <2>2. next \in {"early", "confirmed"} /\ video \in Video
    BY <1>1 DEF TypeOK
  <2>3. inited' = [inited EXCEPT ![c] = TRUE]
    BY <1>1, <1>6, <2>1 DEF TypeOK
  <2> HIDE DEF next, opt, video
  <2>4. TypeOK'
    BY <1>1, <1>2, <1>3, <1>7, <1>10, <2>1, <2>2, <2>3 DEF TypeOK
  <2>5. c \notin undone => VideoOf(opt) = video
    BY <1>5 DEF video
  <2>6. \A d \in CallIds : CallFixed(d)'
    <3> SUFFICES ASSUME NEW d \in CallIds PROVE CallFixed(d)'  OBVIOUS
    <3>1. CASE d # c
      BY <1>1, <1>2, <2>1, <3>1 DEF TypeOK, CallInv, CallFixed
    <3>2. CASE d = c
      <4>1. /\ state'[c] = next /\ setting'[c] = opt /\ inited'[c] = TRUE
            /\ offer'[c] = Offer(opt, FALSE) /\ setup'[c] = video
        <5>1. /\ DOMAIN state = CallIds /\ DOMAIN setting = CallIds /\ DOMAIN inited = CallIds
              /\ DOMAIN offer = CallIds /\ DOMAIN setup = CallIds
          BY DEF TypeOK
        <5> HIDE DEF c
        <5> QED  BY <1>1, <2>1, <2>3, <5>1
      <4> QED  BY <1>2, <1>4, <1>7, <2>2, <2>5, <3>2, <4>1 DEF CallFixed
    <3> QED  BY <3>1, <3>2
  <2>7. ASSUME NEW u \in Threads, pc'[u] # Idle PROVE ReadHolds(pc[u])'
    <3>1. pc'[u] = pc[u] /\ ReadHolds(pc[u]) /\ pc[u].call \in CallIds
      BY <1>9, <2>7
    <3>2. CASE pc[u].call # c
      BY <1>1, <1>2, <2>1, <3>1, <3>2 DEF ReadHolds, TypeOK
    <3>3. CASE pc[u].call = c
      <4>1. state'[c] = next /\ setup'[c] = video
        <5>1. DOMAIN state = CallIds /\ DOMAIN setup = CallIds
          BY DEF TypeOK
        <5> HIDE DEF c
        <5> QED  BY <1>1, <2>1, <5>1
      <4>2. state[c] # "incoming" => video = setup[c]
        BY DEF video
      <4> QED  BY <1>2, <2>2, <3>1, <3>3, <4>1, <4>2 DEF ReadHolds
    <3> QED  BY <3>2, <3>3
  <2>8. SetupKept' /\ FreshOffer'
    <3>1. /\ offer'[c] = Offer(opt, FALSE) /\ setup'[c] = video
          /\ \A d \in CallIds \ {c} :
                offer'[d] = offer[d] /\ setup'[d] = setup[d] /\ state'[d] = state[d]
      <4>1. DOMAIN state = CallIds /\ DOMAIN offer = CallIds /\ DOMAIN setup = CallIds
        BY DEF TypeOK
      <4> HIDE DEF c
      <4> QED  BY <1>1, <2>1, <4>1
    <3> QED  BY <1>2, <1>7, <2>5, <3>1 DEF CallInv, SetupKept, FreshOffer
  <2>9. HoldStep
    <3>1. \A d \in CallIds \ {c} : offer'[d] = offer[d]
      <4>1. DOMAIN offer = CallIds
        BY DEF TypeOK
      <4> HIDE DEF c
      <4> QED  BY <1>1, <2>1, <4>1
    <3> QED  BY <1>8, <3>1 DEF HoldStep
  <2> QED  BY <2>4, <2>6, <2>7, <2>8, <2>9 DEF Good, CallInv
<1>12. CASE ~(pc[t].code < 300)
  <2>1. state' = [state EXCEPT ![c] = "disconnected"] /\ UNCHANGED <<setting, inited, offer, setup>>
    BY <1>12 DEF Answer
  <2> HIDE DEF opt
  <2>2. TypeOK'
    BY <1>1, <1>2, <1>10, <2>1 DEF TypeOK
  <2>3. \A d \in CallIds : CallFixed(d)'
    BY <1>1, <1>2, <2>1, Defaults DEF TypeOK, CallInv, CallFixed
  <2>4. ASSUME NEW u \in Threads, pc'[u] # Idle PROVE ReadHolds(pc[u])'
    <3>1. pc'[u] = pc[u] /\ ReadHolds(pc[u]) /\ pc[u].call \in CallIds
      BY <1>9, <2>4
    <3> QED  BY <1>1, <1>2, <2>1, <3>1 DEF ReadHolds, TypeOK
  <2>5. SetupKept' /\ FreshOffer' /\ HoldStep
    BY <1>1, <1>2, <2>1 DEF TypeOK, CallInv, SetupKept, FreshOffer, HoldStep
  <2> QED  BY <2>2, <2>3, <2>4, <2>5 DEF Good, CallInv
<1> QED  BY <1>11, <1>12

LEMMA ReinviteGood ==
    ASSUME TypeOK, CallInv, NEW t \in Threads, Reinvite(t)
    PROVE  Good
<1> DEFINE c == pc[t].call
           opt == pc[t].opt
           held == hold[c] /\ "unhold" \notin opt.flag
<1>1. /\ c \in CallIds /\ opt \in Setting /\ pc[t].op \in {"unhold", "reinvite"} /\ ReadHolds(pc[t])
  BY CommandFields DEF Reinvite, CallInv
<1>2. /\ state[c] = "confirmed"
      /\ setting' = [setting EXCEPT ![c] = opt] /\ hold' = [hold EXCEPT ![c] = held]
      /\ offering' = [offering EXCEPT ![c] = TRUE]
      /\ offer' = [offer EXCEPT ![c] = Offer(opt, held)]
      /\ pc' = [pc EXCEPT ![t] = Idle] /\ UNCHANGED <<state, inited, setup>>
      /\ undone' = IF pc[t].early THEN undone \cup {c} ELSE undone
  BY DEF Reinvite
<1>3. /\ c \notin undone' => VideoOf(opt) = setup[c]
      /\ "no_sdp_offer" \notin opt.flag
      /\ ("unhold" \in opt.flag => pc[t].op = "unhold")
  BY <1>1, <1>2 DEF ReadHolds
<1>4. held \in BOOLEAN
  BY DEF TypeOK
<1>5. /\ Offer(opt, held) \in [sdp : BOOLEAN, held : BOOLEAN, video : Video]
      /\ Offer(opt, held).sdp /\ Offer(opt, held).video = VideoOf(opt)
      /\ Offer(opt, held).held <=> held
  BY <1>1, <1>3, <1>4, OfferFacts
<1>6. Idle \in Command
  BY DEF Command
<1>7. offer[c].held => held \/ pc[t].op = "unhold"
  BY <1>1, <1>3 DEF CallInv, CallFixed
<1> HIDE DEF opt, held
<1>8. TypeOK'
  BY <1>1, <1>2, <1>4, <1>5, <1>6 DEF TypeOK
<1>9. \A d \in CallIds : CallFixed(d)'
  BY <1>1, <1>2, <1>3, <1>4, <1>5 DEF TypeOK, CallInv, CallFixed
<1>10. ASSUME NEW u \in Threads, pc'[u] # Idle PROVE ReadHolds(pc[u])'
  BY <1>2, <1>10 DEF ReadHolds, TypeOK, CallInv
<1>11. SetupKept' /\ FreshOffer'
  BY <1>1, <1>2, <1>3, <1>5 DEF TypeOK, CallInv, SetupKept, FreshOffer
<1>12. HoldStep
  BY <1>1, <1>2, <1>5, <1>7 DEF HoldStep, TypeOK
<1> QED  BY <1>2, <1>8, <1>9, <1>10, <1>11, <1>12 DEF Good, CallInv

LEMMA HoldGood ==
    ASSUME TypeOK, CallInv, NEW t \in Threads, NEW c \in CallIds, Hold(t, c)
    PROVE  Good
<1>1. /\ state[c] = "confirmed"
      /\ hold' = [hold EXCEPT ![c] = TRUE] /\ offering' = [offering EXCEPT ![c] = TRUE]
      /\ offer' = [offer EXCEPT ![c] = Offer(setting[c], TRUE)]
      /\ UNCHANGED <<state, setting, inited, setup, undone, pc>>
  BY DEF Hold
<1>2. setting[c] \in Setting /\ (c \notin undone => VideoOf(setting[c]) = setup[c])
  BY <1>1 DEF TypeOK, CallInv, CallFixed
<1>3. /\ Offer(setting[c], TRUE) \in [sdp : BOOLEAN, held : BOOLEAN, video : Video]
      /\ Offer(setting[c], TRUE).sdp /\ Offer(setting[c], TRUE).held
      /\ c \notin undone => Offer(setting[c], TRUE).video = setup[c]
  BY <1>2, OfferFacts
<1>4. TypeOK'
  BY <1>1, <1>3 DEF TypeOK
<1>5. \A d \in CallIds : CallFixed(d)'
  BY <1>1, <1>3 DEF TypeOK, CallInv, CallFixed
<1>6. ASSUME NEW u \in Threads, pc'[u] # Idle PROVE ReadHolds(pc[u])'
  BY <1>1, <1>6 DEF ReadHolds, TypeOK, CallInv
<1>7. SetupKept' /\ FreshOffer' /\ HoldStep
  BY <1>1, <1>3 DEF TypeOK, CallInv, SetupKept, FreshOffer, HoldStep
<1> QED  BY <1>1, <1>4, <1>5, <1>6, <1>7 DEF Good, CallInv

\* PJSUA refuses a call, the call ends, or the remote does something.
LEMMA OtherGood ==
    ASSUME TypeOK, CallInv,
           \/ \E t \in Threads : Refused(t)
           \/ \E c \in CallIds : Disconnect(c) \/ Remote(c)
           \/ UNCHANGED vars
    PROVE  Good
<1>1. ASSUME NEW t \in Threads, Refused(t) PROVE Good
  <2>1. pc' = [pc EXCEPT ![t] = Idle] /\ UNCHANGED callvars /\ Idle \in Command
    BY <1>1 DEF Refused, Command
  <2>2. TypeOK'
    BY <2>1 DEF TypeOK, callvars
  <2>3. \A u \in Threads : pc'[u] # Idle => ReadHolds(pc[u])'
    BY <2>1 DEF ReadHolds, TypeOK, CallInv, callvars
  <2> QED  BY <2>1, <2>2, <2>3
           DEF Good, CallInv, CallFixed, SetupKept, FreshOffer, HoldStep, callvars
<1>2. ASSUME NEW c \in CallIds, Disconnect(c) PROVE Good
  <2>1. /\ state' = [state EXCEPT ![c] = "disconnected"] /\ Up(c)
        /\ UNCHANGED <<setting, inited, hold, offering, offer, setup, undone, pc>>
    BY <1>2 DEF Disconnect
  <2>2. TypeOK'
    BY <2>1 DEF TypeOK
  <2>3. \A d \in CallIds : CallFixed(d)'
    BY <2>1, Defaults DEF TypeOK, CallInv, CallFixed
  <2>4. \A u \in Threads : pc'[u] # Idle => ReadHolds(pc[u])'
    BY <2>1, CommandFields DEF ReadHolds, TypeOK, CallInv
  <2>5. SetupKept' /\ FreshOffer' /\ HoldStep
    BY <2>1 DEF TypeOK, CallInv, SetupKept, FreshOffer, HoldStep
  <2> QED  BY <2>1, <2>2, <2>3, <2>4, <2>5 DEF Good, CallInv
<1>3. ASSUME NEW c \in CallIds, Incoming(c) PROVE Good
  <2>1. /\ state' = [state EXCEPT ![c] = "incoming"] /\ state[c] = "idle"
        /\ UNCHANGED <<setting, inited, hold, offering, offer, setup, undone, pc>>
    BY <1>3 DEF Incoming
  <2>2. TypeOK'
    BY <2>1 DEF TypeOK
  <2>3. \A d \in CallIds : CallFixed(d)'
    BY <2>1, Defaults DEF TypeOK, CallInv, CallFixed
  <2>4. \A u \in Threads : pc'[u] # Idle => ReadHolds(pc[u])'
    BY <2>1, CommandFields DEF ReadHolds, TypeOK, CallInv
  <2>5. SetupKept' /\ FreshOffer' /\ HoldStep
    BY <2>1 DEF TypeOK, CallInv, SetupKept, FreshOffer, HoldStep
  <2> QED  BY <2>1, <2>2, <2>3, <2>4, <2>5 DEF Good, CallInv
<1>4. ASSUME NEW c \in CallIds, Answered(c) PROVE Good
  <2> DEFINE new == [sdp |-> TRUE, held |-> FALSE, video |-> VideoOf(setting[c])]
  <2>1. /\ state' = [state EXCEPT ![c] = "confirmed"] /\ state[c] = "calling"
        /\ offer' = [offer EXCEPT ![c] = new]
        /\ UNCHANGED <<setting, inited, hold, offering, setup, undone, pc>>
    BY <1>4 DEF Answered
  <2>2. /\ c \notin undone => VideoOf(setting[c]) = setup[c]
        /\ VideoOf(setting[c]) \in Video /\ ~offer[c].held
    BY <2>1, VideoOfType DEF TypeOK, CallInv, CallFixed
  <2>3. /\ new \in [sdp : BOOLEAN, held : BOOLEAN, video : Video]
        /\ new.sdp /\ ~new.held /\ (c \notin undone => new.video = setup[c])
    BY <2>2
  <2> HIDE DEF new
  <2>4. TypeOK'
    BY <2>1, <2>3 DEF TypeOK
  <2>5. \A d \in CallIds : CallFixed(d)'
    BY <2>1, <2>2, <2>3 DEF TypeOK, CallInv, CallFixed
  <2>6. ASSUME NEW u \in Threads, pc'[u] # Idle PROVE ReadHolds(pc[u])'
    <3>1. pc[u] # Idle /\ ReadHolds(pc[u]) /\ pc[u].call \in CallIds
      BY <2>1, <2>6, CommandFields DEF CallInv
    <3> QED  BY <2>1, <2>2, <3>1 DEF ReadHolds, TypeOK
  <2>7. SetupKept' /\ FreshOffer' /\ HoldStep
    BY <2>1, <2>2, <2>3 DEF TypeOK, CallInv, SetupKept, FreshOffer, HoldStep
  <2> QED  BY <2>1, <2>4, <2>5, <2>6, <2>7 DEF Good, CallInv
<1>5. ASSUME NEW c \in CallIds, ReinviteAnswered(c) PROVE Good
  <2>1. offering' = [offering EXCEPT ![c] = FALSE]
        /\ UNCHANGED <<state, setting, inited, hold, offer, setup, undone, pc>>
    BY <1>5 DEF ReinviteAnswered
  <2>2. TypeOK'
    BY <2>1 DEF TypeOK
  <2> QED  BY <2>1, <2>2 DEF Good, CallInv, CallFixed, ReadHolds, SetupKept, FreshOffer, HoldStep
<1>6. ASSUME UNCHANGED vars PROVE Good
  BY <1>6 DEF Good, TypeOK, CallInv, CallFixed, ReadHolds, SetupKept, FreshOffer, HoldStep, vars, callvars
<1> QED  BY <1>1, <1>2, <1>3, <1>4, <1>5, <1>6 DEF Remote

LEMMA NextGood == TypeOK /\ CallInv /\ [Next]_vars => Good
<1> SUFFICES ASSUME TypeOK, CallInv, [Next]_vars PROVE Good  OBVIOUS
<1> QED  BY MakeCallGood, ReadAnswerGood, ReadReinviteGood, AnswerGood, ReinviteGood, HoldGood,
            OtherGood
         DEF Next, Thread

LEMMA InitGood == Init => TypeOK /\ CallInv
<1> SUFFICES ASSUME Init PROVE TypeOK /\ CallInv  OBVIOUS
<1>1. NoVideo \in Video /\ Idle \in Command
  BY DEF Video, Command
<1>2. TypeOK
  BY <1>1, Defaults DEF Init, TypeOK
<1> QED  BY <1>2, Defaults DEF Init, CallInv, CallFixed, SetupKept, FreshOffer

-----------------------------------------------------------------------------

\* The inductive invariant: what a thread read of a call is still true, or PJSUA
\* ignores it.
THEOREM CallInvariant == Spec => [](TypeOK /\ CallInv)
<1>1. TypeOK /\ CallInv /\ [Next]_vars => (TypeOK /\ CallInv)'
  BY NextGood DEF Good
<1> QED  BY <1>1, InitGood, PTL DEF Spec

\* Every variable of the calls keeps its type.
THEOREM CallTypes == Spec => []TypeOK
<1> QED  BY CallInvariant, PTL

\* Every description the remote gets has the video the call was set up with, but for
\* calls that a re-INVITE read before their first answer has undone.
THEOREM SetupKeptHolds == Spec => []SetupKept
<1>1. CallInv => SetupKept
  BY DEF CallInv
<1> QED  BY <1>1, CallInvariant, PTL

\* A confirmed call has sent a description of its own.
THEOREM FreshOfferHolds == Spec => []FreshOffer
<1>1. CallInv => FreshOffer
  BY DEF CallInv
<1> QED  BY <1>1, CallInvariant, PTL

\* Only unhold_call takes a remote off hold.
THEOREM HoldKeptHolds == Spec => HoldKept
<1>1. TypeOK /\ CallInv /\ [Next]_vars => HoldStep
  BY NextGood DEF Good
<1>2. Spec => [][HoldStep]_vars
  BY <1>1, CallInvariant, PTL DEF Spec
<1> QED  BY <1>2 DEF HoldKept, HoldStep

================================================================================
