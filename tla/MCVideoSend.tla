----------------------------- MODULE MCVideoSend -----------------------------
\* VideoSend for TLC: two calls are interchangeable.
EXTENDS VideoSendInv, TLC

CodecSymmetry == Permutations(Codecs)
=============================================================================
