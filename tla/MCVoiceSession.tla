------------------------------ MODULE MCVoiceSession ------------------------------
(***************************************************************************)
(* The threads of DPP's pool, the members and the voice channels are all   *)
(* alike in VoiceSession.                                                  *)
(***************************************************************************)
EXTENDS VoiceSession, TLC

Alike ==
    UNION {Permutations(Handlers), Permutations(Users), Permutations(VoiceChannels)}
=============================================================================
