------------------------------ MODULE RecencyCache ------------------------------
(***************************************************************************)
(* What a cache bounded in bytes promises, as one sequence of entries, the *)
(* most recently used first, with no map, no list node and no byte count:  *)
(* a use moves an entry to the front, an insertion keeps the longest part  *)
(* of the front that leaves room.  AudioCache implements it.               *)
(***************************************************************************)
EXTENDS Integers, Sequences, Functions

CONSTANTS
    Keys,       (* what an entry is found by                             *)
    Values,     (* what an entry holds                                   *)
    BytesOf,    (* the size of each value                                *)
    MaxBytes    (* the bound on their sum                                *)

VARIABLE entries    (* sequence of [key, value]                          *)

Bytes(s) == SumFunction([i \in DOMAIN s |-> BytesOf[s[i].value]])
KeysOf(s) == {s[i].key : i \in DOMAIN s}

Init == entries = <<>>

Use(k) ==
    \E i \in DOMAIN entries :
        /\ entries[i].key = k
        /\ entries' = <<entries[i]>> \o SubSeq(entries, 1, i - 1)
                                     \o SubSeq(entries, i + 1, Len(entries))

Insert(k, v) ==
    /\ k \notin KeysOf(entries)
    /\ BytesOf[v] <= MaxBytes
    /\ LET room(n) == Bytes(SubSeq(entries, 1, n)) + BytesOf[v] <= MaxBytes
       IN  \E n \in 0 .. Len(entries) :
              /\ room(n)
              /\ \A m \in n + 1 .. Len(entries) : ~room(m)
              /\ entries' = <<[key |-> k, value |-> v]>> \o SubSeq(entries, 1, n)

Next ==
    \/ \E k \in Keys : Use(k)
    \/ \E k \in Keys, v \in Values : Insert(k, v)

Spec == Init /\ [][Next]_entries

=============================================================================
