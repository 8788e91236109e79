------------------------------- MODULE MCDevices -------------------------------
\* MediaDevices for TLC.
EXTENDS MediaDevices

\* Two that reconfigure may change for each other, one of them with no queue to
\* speak of; one whose polling rate wraps to 0; and one whose frame size c_config
\* cuts to less than the others have.
MCConfigs ==
    LET Base == [fps |-> 1, poll_fps |-> None, max_frame_size |-> 4, payload_type |-> 2,
                 max_queue |-> 2]
    IN  {Base,
         [Base EXCEPT !.poll_fps = 3, !.max_queue = 0],
         [Base EXCEPT !.fps = CUintMod \div 2],
         [Base EXCEPT !.max_frame_size = CUintMod + 1]}
================================================================================
