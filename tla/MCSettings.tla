------------------------------ MODULE MCSettings ------------------------------
(***************************************************************************)
(* Inputs for Settings.  Several: a voice and the style 0, a speed at the  *)
(* bound of its range and one beyond it, a flag, and a voice for the guild. *)
(***************************************************************************)
EXTENDS Settings, TLC

In(option, values) == {[option |-> option, value |-> v] : v \in values}

Several ==
    In("voice", {0, 3}) \cup In("speed", {20, 21}) \cup In("toggle", {"auto_leave"})
    \cup In("defaultvoice", {8})
TwoVoices == In("voice", {0, 3}) \cup In("speed", {5})

CommandSymmetry == Permutations(Commands)
=============================================================================
