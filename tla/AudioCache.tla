------------------------------- MODULE AudioCache -------------------------------
(***************************************************************************)
(* The cache of synthesized audio (src/src/audio/cache.cpp) and its        *)
(* clients: the workers of the pool (src/src/tts/synthesizer.cpp) and the  *)
(* warm-up threads (src/src/tts/warmup.cpp).  All of them look an          *)
(* utterance up, synthesize it on a miss, with no mutex held, and store    *)
(* the result.  Each operation of the cache is one critical section of     *)
(* mutex_, hence one action.                                               *)
(*                                                                         *)
(* An utterance is a text with a style, a speed and a pitch; the audio     *)
(* synthesized from it is named by the utterance itself.  make_key is a    *)
(* hash, so KeyOf may send two utterances to one key.                      *)
(***************************************************************************)
EXTENDS Integers, Sequences, Functions

CONSTANTS
    Clients,    (* workers and warm-up threads                           *)
    Utterances, (* what can be asked for                                 *)
    Keys,       (* the hash values                                       *)
    KeyOf,      (* make_key                                              *)
    BytesOf,    (* total_bytes of the audio of each utterance            *)
    MaxBytes,   (* max_bytes_                                            *)
    Nothing,    (* no utterance                                          *)
    MaxLookups  (* bound on hits_ + misses_, for model checking only     *)

ASSUME CacheAssumption ==
    /\ KeyOf \in [Utterances -> Keys]
    /\ BytesOf \in [Utterances -> Nat]
    /\ MaxBytes \in Nat
    /\ Nothing \notin Utterances
    /\ MaxLookups \in Nat

VARIABLES
    map_,           (* the audio under each key that has some            *)
    lru_,           (* the keys, most recently used first                *)
    current_bytes_,
    hits_, misses_,
    asked           (* the utterance each client is synthesizing         *)

vars == <<map_, lru_, current_bytes_, hits_, misses_, asked>>

Init ==
    /\ map_ = [k \in {} |-> Nothing]
    /\ lru_ = <<>>
    /\ current_bytes_ = 0
    /\ hits_ = 0
    /\ misses_ = 0
    /\ asked = [c \in Clients |-> Nothing]

(* lru_.erase(lru_it) and push_front(key), the key being at place i.  The  *)
(* operators named Mutant... are slips the properties at the end catch.    *)
MutantMovedToFront(i) ==
    [j \in 1 .. Len(lru_) + 1 |-> IF j = 1 THEN lru_[i] ELSE lru_[j - 1]]
MovedToFront(i) ==
    [j \in 1 .. Len(lru_) |->
        IF j = 1 THEN lru_[i] ELSE IF j <= i THEN lru_[j - 1] ELSE lru_[j]]

\* get: a hit moves the key to the front and hands a copy of the audio out.
Hit(c, u) ==
    /\ asked[c] = Nothing
    /\ hits_ + misses_ < MaxLookups
    /\ KeyOf[u] \in DOMAIN map_
    /\ hits_' = hits_ + 1
    /\ \E i \in 1 .. Len(lru_) :
          lru_[i] = KeyOf[u] /\ lru_' = MovedToFront(i)
    /\ UNCHANGED <<map_, current_bytes_, misses_, asked>>

\* get: after a miss the client synthesizes.
Miss(c, u) ==
    /\ asked[c] = Nothing
    /\ hits_ + misses_ < MaxLookups
    /\ KeyOf[u] \notin DOMAIN map_
    /\ misses_' = misses_ + 1
    /\ asked' = [asked EXCEPT ![c] = u]
    /\ UNCHANGED <<map_, lru_, current_bytes_, hits_>>

\* The synthesis fails or comes too late: nothing is stored.
GiveUp(c) ==
    /\ asked[c] # Nothing
    /\ asked' = [asked EXCEPT ![c] = Nothing]
    /\ UNCHANGED <<map_, lru_, current_bytes_, hits_, misses_>>

\* put: the key came in meanwhile, or the audio exceeds the whole cache.
PutRefused(c) ==
    /\ asked[c] # Nothing
    /\ KeyOf[asked[c]] \in DOMAIN map_ \/ BytesOf[asked[c]] > MaxBytes
    /\ asked' = [asked EXCEPT ![c] = Nothing]
    /\ UNCHANGED <<map_, lru_, current_bytes_, hits_, misses_>>

(* evict_if_needed: keys leave from the back while the bytes do not fit.   *)
(* BytesAfter(n) is current_bytes_ when n keys are left in lru_, the sizes *)
(* of the others having been taken off it.                                 *)
Size(i) == BytesOf[map_[lru_[i]]]
BytesAfter(n) ==
    current_bytes_ - SumFunctionOnSet([i \in 1 .. Len(lru_) |-> Size(i)], n + 1 .. Len(lru_))

MutantIgnoresNeeded(n, needed) == BytesAfter(n) <= MaxBytes
MutantStrict(n, needed) == BytesAfter(n) + needed < MaxBytes
Fits(n, needed) == BytesAfter(n) + needed <= MaxBytes
KeptBy(needed, n) ==
    /\ n = 0 \/ Fits(n, needed)
    /\ \A m \in n + 1 .. Len(lru_) : ~Fits(m, needed)

Put(c) ==
    LET u == asked[c]
    IN  /\ u # Nothing
        /\ KeyOf[u] \notin DOMAIN map_
        /\ BytesOf[u] <= MaxBytes
        /\ \E n \in 0 .. Len(lru_) :
              /\ KeptBy(BytesOf[u], n)
              /\ lru_' = [j \in 1 .. n + 1 |-> IF j = 1 THEN KeyOf[u] ELSE lru_[j - 1]]
              /\ map_' = [k \in {lru_[i] : i \in 1 .. n} \cup {KeyOf[u]} |->
                             IF k = KeyOf[u] THEN u ELSE map_[k]]
              /\ current_bytes_' = BytesAfter(n) + BytesOf[u]
        /\ asked' = [asked EXCEPT ![c] = Nothing]
        /\ UNCHANGED <<hits_, misses_>>

Next ==
    \E c \in Clients :
        \/ \E u \in Utterances : Hit(c, u) \/ Miss(c, u)
        \/ GiveUp(c) \/ PutRefused(c) \/ Put(c)

Spec == Init /\ [][Next]_vars

-----------------------------------------------------------------------------

(* The list and the map name the same keys, each once: the iterator get    *)
(* erases through points at a live node of lru_, and no entry is out of    *)
(* reach of the eviction.                                                  *)
ListMatchesMap ==
    /\ {lru_[i] : i \in 1 .. Len(lru_)} = DOMAIN map_
    /\ \A i, j \in 1 .. Len(lru_) : lru_[i] = lru_[j] => i = j

(* current_bytes_, kept by increments and decrements, is what the entries  *)
(* really take, and it never exceeds max_bytes_.                           *)
ByteAccounting ==
    /\ current_bytes_ = SumFunction([k \in DOMAIN map_ |-> BytesOf[map_[k]]])
    /\ current_bytes_ <= MaxBytes

(* The cache implements RecencyCache.                                      *)
Recency == INSTANCE RecencyCache WITH
    Values <- Utterances,
    entries <- [i \in 1 .. Len(lru_) |-> [key |-> lru_[i], value |-> map_[lru_[i]]]]
RecencySpec == Recency!Spec

=============================================================================
