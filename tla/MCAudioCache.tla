---------------------------- MODULE MCAudioCache ----------------------------
(***************************************************************************)
(* Five utterances under four keys (u1 and u4 collide).  The cache holds   *)
(* five bytes: u1 and u2 fill it exactly, u3 needs the room of either or   *)
(* of both, u4 is empty audio and u5 alone takes too much.                 *)
(***************************************************************************)
EXTENDS AudioCache

CONSTANTS u1, u2, u3, u4, u5, k1, k2, k3, k4

MCKeyOf == [u \in Utterances |->
    CASE u \in {u1, u4} -> k1 [] u = u2 -> k2 [] u = u3 -> k3 [] u = u5 -> k4]
MCBytesOf == [u \in Utterances |->
    CASE u = u1 -> 2 [] u = u2 -> 3 [] u = u3 -> 4 [] u = u4 -> 0 [] u = u5 -> 6]
=============================================================================
