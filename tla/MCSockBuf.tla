----------------------------- MODULE MCSockBuf -----------------------------
(* Two sockbufs a program makes and one inside an iosockstream.            *)
EXTENDS SockBuf, TLC

CONSTANTS b1, b2

Symm == Permutations({b1, b2})
=============================================================================
