------------------------------ MODULE SpeechQueue ------------------------------
(***************************************************************************)
(* What the synthesis pool of Simvoice promises to the rest of the bot,    *)
(* with no thread, counter, condition variable or round-robin index in     *)
(* sight.  A request is accepted once and waits in the line of its guild.  *)
(* A free slot starts the request at the head of some line, speaks some of *)
(* its sentences in increasing order and then lets go of it, for good.  A  *)
(* guild's line can be cleared; what was cleared is never spoken.          *)
(* SynthesizerPool implements this specification.                          *)
(***************************************************************************)
EXTENDS Integers, Sequences

CONSTANTS
    Slots,      (* the places where a request can be worked on           *)
    Guilds,     (* the Discord servers                                   *)
    Requests,   (* the requests ever made, each by its identity          *)
    GuildOf,    (* the guild of each request                             *)
    Sentences,  (* how many sentences each request splits into           *)
    Nobody      (* "no request", the content of a free slot              *)

VARIABLES
    accepted,   (* requests handed over so far                           *)
    line,       (* per guild, the requests waiting, oldest first         *)
    slot,       (* per slot, the request being worked on, or Nobody      *)
    spoken      (* per request, the sentences spoken, in order           *)

vars == <<accepted, line, slot, spoken>>

Init ==
    /\ accepted = {}
    /\ line = [g \in Guilds |-> <<>>]
    /\ slot = [s \in Slots |-> Nobody]
    /\ spoken = [r \in Requests |-> <<>>]

Accept(r) ==
    /\ r \notin accepted
    /\ accepted' = accepted \cup {r}
    /\ line' = [line EXCEPT ![GuildOf[r]] = Append(@, r)]
    /\ UNCHANGED <<slot, spoken>>

Start(s, g) ==
    /\ slot[s] = Nobody
    /\ line[g] # <<>>
    /\ slot' = [slot EXCEPT ![s] = Head(line[g])]
    /\ line' = [line EXCEPT ![g] = Tail(@)]
    /\ UNCHANGED <<accepted, spoken>>

\* Sentences may be left out (a timeout), never repeated or reordered.
Speak(s) ==
    /\ slot[s] # Nobody
    /\ \E i \in 1 .. Sentences[slot[s]] :
          /\ \A j \in DOMAIN spoken[slot[s]] : spoken[slot[s]][j] < i
          /\ spoken' = [spoken EXCEPT ![slot[s]] = Append(@, i)]
    /\ UNCHANGED <<accepted, line, slot>>

Finish(s) ==
    /\ slot[s] # Nobody
    /\ slot' = [slot EXCEPT ![s] = Nobody]
    /\ UNCHANGED <<accepted, line, spoken>>

Clear(g) ==
    /\ line' = [line EXCEPT ![g] = <<>>]
    /\ UNCHANGED <<accepted, slot, spoken>>

Next ==
    \/ \E r \in Requests : Accept(r)
    \/ \E s \in Slots, g \in Guilds : Start(s, g)
    \/ \E s \in Slots : Speak(s)
    \/ \E s \in Slots : Finish(s)
    \/ \E g \in Guilds : Clear(g)

Spec == Init /\ [][Next]_vars

================================================================================
