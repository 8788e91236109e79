------------------------------ MODULE MediaDevices ------------------------------
(***************************************************************************)
(* What PjsuaApp objects that follow one another do with PJMEDIA, as far   *)
(* as more than a call is concerned: WAV players and the H.264             *)
(* passthrough.  pjsua_destroy takes down both; a crash of install ends    *)
(* the process, and with it every thread.                                  *)
(***************************************************************************)
EXTENDS Players, VideoInstall

CONSTANT MaxApps  \* bound: PjsuaApps

ASSUME AppsAssumption == MaxApps \in Nat

VARIABLES
    up,    \* "yes", or "no", or what pjsua_destroy is at
    apps   \* PjsuaApps so far

mvars == <<pvars, ivars, up, apps>>

Init ==
    /\ PlayersInit /\ InstallInit
    /\ up = "no" /\ apps = 0

New ==
    /\ up = "no" /\ apps < MaxApps
    /\ up' = "yes"
    /\ apps' = apps + 1
    /\ UNCHANGED <<pvars, ivars>>

\* The process runs.
Alive == phase # "crashed"

Methods ==
    /\ up = "yes" /\ Alive
    /\ \/ PlayerCalls /\ UNCHANGED ivars
       \/ InstallStep /\ UNCHANGED pvars
    /\ UNCHANGED <<up, apps>>

\* A handle outlives its PjsuaApp.
HandleMethods == ReconfigureStep /\ UNCHANGED <<pvars, up, apps>>

EventStep(A) == Alive /\ A /\ UNCHANGED <<ivars, up, apps>>

Pjmedia == EventStep(PlayerEvents)

\* pjsua_destroy: the players, then the video codecs and devices.
Destroy ==
    \/ /\ up = "yes" /\ phase = "idle"
       /\ up' = "video"
       /\ DestroyPlayers /\ UNCHANGED ivars
    \/ /\ up = "video"
       /\ up' = "devices"
       /\ DestroyCodecs /\ UNCHANGED pvars
    \/ /\ up = "devices" /\ running = 0
       /\ up' = "no"
       /\ DestroyDevices /\ UNCHANGED pvars

Next == New \/ Methods \/ HandleMethods \/ Pjmedia \/ (Destroy /\ UNCHANGED apps)

Spec == Init /\ [][Next]_mvars

FairSpec ==
    /\ Spec
    /\ \A p \in PlayerIds :
          /\ WF_mvars(EventStep(ReachEof(p)))
          /\ WF_mvars(EventStep(PostEof(p)))
          /\ WF_mvars(EventStep(Deliver(p)))
    /\ WF_mvars(EventStep(Trampoline))

-----------------------------------------------------------------------------
\* Properties.

TypeOK ==
    /\ PlayersTypeOK /\ InstallTypeOK
    /\ up \in {"yes", "no", "video", "devices"} /\ apps \in 0..MaxApps

\* A registration on a no_loop player sends its PlayerId when the player reaches
\* its end (pjsua_app.rs:994-996), unless another replaces it first, the player is
\* destroyed, it came after the player's one event, or the process ended.  The box
\* is freed by the sending alone: one that was replaced, or whose player was
\* destroyed, stays, where pjsua_app.rs:1002-1005 has it cleaned up.
Reported ==
    \A b \in 1..MaxBoxes :
        []<>(b > Len(boxes) \/ b \in late \cup dropped \/ boxes[b] = "freed" \/ ~Alive)

================================================================================
