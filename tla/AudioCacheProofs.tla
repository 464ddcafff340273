---------------------------- MODULE AudioCacheProofs ----------------------------
(***************************************************************************)
(* The list and the map of the cache agree, its byte count is that of its  *)
(* entries, and it implements RecencyCache, for any keys, sizes and        *)
(* clients.                                                                *)
(*                                                                         *)
(* Inv is about the keys.  Held adds the bytes: by SumAlong the bytes of   *)
(* the map are those of the list, so that BytesAfter(n), counted from the  *)
(* back, is the sum of the first n sizes.                                  *)
(***************************************************************************)
EXTENDS AudioCache, Inductions

KeyTypes ==
    /\ lru_ \in Seq(Keys)
    /\ asked \in [Clients -> Utterances \cup {Nothing}]

Inv == KeyTypes /\ ListMatchesMap

LEMMA MovedToFrontKeeps ==
    ASSUME KeyTypes, ListMatchesMap, NEW i \in 1 .. Len(lru_), lru_' = MovedToFront(i),
           map_' = map_
    PROVE  lru_' \in Seq(Keys) /\ ListMatchesMap'
<1>1. Len(lru_) \in Nat /\ \A j \in 1 .. Len(lru_) : lru_[j] \in Keys
  BY DEF KeyTypes
<1>2. /\ lru_' \in Seq(Keys)
      /\ Len(lru_') = Len(lru_)
  BY <1>1 DEF MovedToFront
<1> DEFINE From(j) == IF j = 1 THEN i ELSE IF j <= i THEN j - 1 ELSE j
<1>3. \A j \in 1 .. Len(lru_) : From(j) \in 1 .. Len(lru_) /\ lru_'[j] = lru_[From(j)]
  BY <1>1 DEF MovedToFront
<1>4. ASSUME NEW a \in 1 .. Len(lru_), NEW b \in 1 .. Len(lru_), lru_'[a] = lru_'[b]
      PROVE  a = b
  <2>1. From(a) = From(b)
    <3> HIDE DEF From
    <3> QED  BY <1>3, <1>4 DEF ListMatchesMap
  <2> QED  BY <1>1, <2>1
<1>5. \A j \in 1 .. Len(lru_) : \E k \in 1 .. Len(lru_) : lru_'[j] = lru_[k]
  BY <1>3
<1>6. ASSUME NEW k \in 1 .. Len(lru_)
      PROVE  \E j \in 1 .. Len(lru_) : lru_'[j] = lru_[k]
  <2>1. PICK j \in 1 .. Len(lru_) : From(j) = k
    <3>1. CASE k = i
      BY <3>1, <1>1
    <3>2. CASE k < i
      <4>1. k + 1 \in 1 .. Len(lru_) /\ From(k + 1) = k
        BY <3>2, <1>1
      <4> QED  BY <4>1
    <3>3. CASE k > i
      BY <3>3, <1>1
    <3> QED  BY <3>1, <3>2, <3>3, <1>1
  <2> QED  BY <2>1, <1>3
<1>7. {lru_'[j] : j \in 1 .. Len(lru_')} = {lru_[j] : j \in 1 .. Len(lru_)}
  <2> DEFINE new == lru_'
  <2>1. Len(new) = Len(lru_)
    BY <1>2
  <2>2. \A j \in 1 .. Len(lru_) : \E k \in 1 .. Len(lru_) : new[j] = lru_[k]
    BY <1>5
  <2>3. \A k \in 1 .. Len(lru_) : \E j \in 1 .. Len(lru_) : new[j] = lru_[k]
    BY <1>6
  <2> HIDE DEF new
  <2>4. {new[j] : j \in 1 .. Len(new)} = {lru_[j] : j \in 1 .. Len(lru_)}
    <3>1. ASSUME NEW x \in {new[j] : j \in 1 .. Len(new)}
          PROVE  x \in {lru_[j] : j \in 1 .. Len(lru_)}
      <4>1. PICK j \in 1 .. Len(new) : x = new[j]
        OBVIOUS
      <4> QED  BY <4>1, <2>1, <2>2
    <3>2. ASSUME NEW x \in {lru_[j] : j \in 1 .. Len(lru_)}
          PROVE  x \in {new[j] : j \in 1 .. Len(new)}
      <4>1. PICK k \in 1 .. Len(lru_) : x = lru_[k]
        OBVIOUS
      <4>2. PICK j \in 1 .. Len(lru_) : new[j] = x
        BY <4>1, <2>3
      <4> QED  BY <4>2, <2>1
    <3> QED  BY <3>1, <3>2
  <2> QED  BY <2>4 DEF new
<1> QED  BY <1>2, <1>4, <1>7 DEF ListMatchesMap

LEMMA PutKeeps ==
    ASSUME KeyTypes, ListMatchesMap, NEW n \in 0 .. Len(lru_), NEW key \in Keys,
           key \notin DOMAIN map_,
           lru_' = [j \in 1 .. n + 1 |-> IF j = 1 THEN key ELSE lru_[j - 1]],
           DOMAIN map_' = {lru_[i] : i \in 1 .. n} \cup {key}
    PROVE  lru_' \in Seq(Keys) /\ ListMatchesMap'
<1>1. Len(lru_) \in Nat /\ \A j \in 1 .. Len(lru_) : lru_[j] \in Keys
  BY DEF KeyTypes
<1>2. lru_' \in Seq(Keys) /\ Len(lru_') = n + 1
  BY <1>1
<1>3. \A i \in 1 .. n : i \in 1 .. Len(lru_) /\ i + 1 \in 1 .. n + 1 /\ lru_'[i + 1] = lru_[i]
  BY <1>1
<1>4. lru_'[1] = key
  BY <1>1
<1>5. \A i \in 1 .. n : lru_[i] # key
  BY <1>3 DEF ListMatchesMap
<1>6. \A j \in 1 .. n + 1 : j = 1 \/ (j - 1 \in 1 .. n /\ lru_'[j] = lru_[j - 1])
  BY <1>1
<1>7. \A a, b \in 1 .. n + 1 : lru_'[a] = lru_'[b] => a = b
  <2>1. \A a, b \in 1 .. n : lru_[a] = lru_[b] => a = b
    BY <1>3 DEF ListMatchesMap
  <2> QED  BY <2>1, <1>4, <1>5, <1>6
<1>8. {lru_'[j] : j \in 1 .. n + 1} = {lru_[i] : i \in 1 .. n} \cup {key}
  <2>1. \A j \in 1 .. n + 1 : lru_'[j] \in {lru_[i] : i \in 1 .. n} \cup {key}
    BY <1>4, <1>6
  <2>2. \A i \in 1 .. n : lru_[i] \in {lru_'[j] : j \in 1 .. n + 1}
    BY <1>3
  <2>3. key \in {lru_'[j] : j \in 1 .. n + 1}
    <3>1. 1 \in 1 .. n + 1
      OBVIOUS
    <3> QED  BY <1>4, <3>1
  <2> QED  BY <2>1, <2>2, <2>3
<1> QED  BY <1>2, <1>7, <1>8 DEF ListMatchesMap

LEMMA InvStep == Inv /\ [Next]_vars => Inv'
<1> SUFFICES ASSUME Inv, [Next]_vars PROVE Inv'
  OBVIOUS
<1> USE DEF Inv
<1>1. ASSUME NEW c \in Clients, NEW u \in Utterances, Hit(c, u) PROVE Inv'
  <2>1. /\ \E i \in 1 .. Len(lru_) : lru_' = MovedToFront(i)
        /\ UNCHANGED <<map_, asked>>
    BY <1>1 DEF Hit
  <2> QED  BY <2>1, MovedToFrontKeeps DEF KeyTypes
<1>2. ASSUME NEW c \in Clients, NEW u \in Utterances, Miss(c, u) PROVE Inv'
  BY <1>2 DEF Miss, KeyTypes, ListMatchesMap
<1>3. ASSUME NEW c \in Clients, GiveUp(c) \/ PutRefused(c) PROVE Inv'
  <2>1. UNCHANGED <<map_, lru_>> /\ asked' = [asked EXCEPT ![c] = Nothing]
    BY <1>3 DEF GiveUp, PutRefused
  <2> QED  BY <2>1 DEF KeyTypes, ListMatchesMap
<1>4. ASSUME NEW c \in Clients, Put(c) PROVE Inv'
  <2> DEFINE u == asked[c]
  <2>1. u \in Utterances /\ KeyOf[u] \in Keys /\ KeyOf[u] \notin DOMAIN map_
    BY <1>4, CacheAssumption DEF Put, KeyTypes
  <2>2. asked' = [asked EXCEPT ![c] = Nothing]
    BY <1>4 DEF Put
  <2>3. PICK n \in 0 .. Len(lru_) :
           /\ lru_' = [j \in 1 .. n + 1 |-> IF j = 1 THEN KeyOf[u] ELSE lru_[j - 1]]
           /\ map_' = [k \in {lru_[i] : i \in 1 .. n} \cup {KeyOf[u]} |->
                          IF k = KeyOf[u] THEN u ELSE map_[k]]
    BY <1>4 DEF Put
  <2>4. DOMAIN map_' = {lru_[i] : i \in 1 .. n} \cup {KeyOf[u]}
    BY <2>3
  <2>5. lru_' \in Seq(Keys) /\ ListMatchesMap'
    BY <2>1, <2>3, <2>4, PutKeeps
  <2> QED  BY <2>2, <2>5 DEF KeyTypes
<1>5. CASE UNCHANGED vars
  BY <1>5 DEF vars, KeyTypes, ListMatchesMap
<1> QED  BY <1>1, <1>2, <1>3, <1>4, <1>5 DEF Next

(* The list and the map of the cache name the same keys, each once, so the *)
(* iterator that get erases through is never dangling.                     *)
THEOREM ListMatchesMapAlways == Spec => []ListMatchesMap
<1>1. Init => Inv
  BY DEF Init, Inv, KeyTypes, ListMatchesMap
<1> QED  BY <1>1, InvStep, PTL DEF Spec, Inv

-----------------------------------------------------------------------------

Held ==
    /\ map_ \in [DOMAIN map_ -> Utterances]
    /\ current_bytes_ \in Int
    /\ ByteAccounting

(* What the first n keys of the list take.                                 *)
Sizes == [i \in 1 .. Len(lru_) |-> Size(i)]
FrontBytes(n) == SumFunctionOnSet(Sizes, 1 .. n)

(* Every place of the list holds an utterance with a size.                 *)
LEMMA SizesAreNaturals ==
    ASSUME Inv, Held
    PROVE  /\ Len(lru_) \in Nat
           /\ \A i \in 1 .. Len(lru_) :
                 /\ lru_[i] \in DOMAIN map_
                 /\ map_[lru_[i]] \in Utterances
                 /\ Sizes[i] = BytesOf[map_[lru_[i]]] /\ Sizes[i] \in Nat
<1>1. Len(lru_) \in Nat
  BY DEF Inv, KeyTypes
<1>2. ASSUME NEW i \in 1 .. Len(lru_) PROVE lru_[i] \in DOMAIN map_ /\ map_[lru_[i]] \in Utterances
  <2>1. lru_[i] \in DOMAIN map_
    BY DEF Inv, ListMatchesMap
  <2> QED  BY <2>1 DEF Held
<1>3. ASSUME NEW i \in 1 .. Len(lru_) PROVE Sizes[i] = BytesOf[map_[lru_[i]]] /\ Sizes[i] \in Nat
  BY <1>2, CacheAssumption DEF Sizes, Size
<1> QED  BY <1>1, <1>2, <1>3

(* The first n keys of the list, as entries of the map, take FrontBytes(n).*)
LEMMA FrontOfMap ==
    ASSUME Inv, Held, NEW n \in 0 .. Len(lru_), NEW f,
           \A i \in 1 .. n : f[lru_[i]] = BytesOf[map_[lru_[i]]]
    PROVE  /\ IsFiniteSet({lru_[i] : i \in 1 .. n})
           /\ SumFunctionOnSet(f, {lru_[i] : i \in 1 .. n}) = FrontBytes(n)
<1>1. Len(lru_) \in Nat /\ n \in Nat /\ \A i \in 1 .. n : i \in 1 .. Len(lru_)
  BY SizesAreNaturals
<1>2. \A i \in 1 .. n : Sizes[i] = f[lru_[i]] /\ Sizes[i] \in Int
  BY <1>1, SizesAreNaturals
<1>3. \A i, j \in 1 .. n : lru_[i] = lru_[j] => i = j
  BY <1>1 DEF Inv, ListMatchesMap
<1>4. IsFiniteSet(1 .. n)
  BY <1>1, FS_Interval
<1> DEFINE S == 1 .. n
<1> HIDE DEF S
<1>5. /\ IsFiniteSet(S)
      /\ \A i, j \in S : lru_[i] = lru_[j] => i = j
      /\ \A i \in S : Sizes[i] = f[lru_[i]] /\ Sizes[i] \in Int
  BY <1>2, <1>3, <1>4 DEF S
<1>6. /\ IsFiniteSet({lru_[i] : i \in S})
      /\ SumFunctionOnSet(f, {lru_[i] : i \in S}) = SumFunctionOnSet(Sizes, S)
  BY <1>5, SumAlong
<1> QED  BY <1>6 DEF FrontBytes, S

(* evict_if_needed, which counts down from current_bytes_, counts what the *)
(* keys it leaves take.                                                    *)
LEMMA BytesAfterIsFront ==
    ASSUME Inv, Held, NEW n \in 0 .. Len(lru_)
    PROVE  BytesAfter(n) = FrontBytes(n) /\ FrontBytes(n) \in Int
<1> DEFINE l == Len(lru_)
           f == [k \in DOMAIN map_ |-> BytesOf[map_[k]]]
           back == SumFunctionOnSet(Sizes, n + 1 .. l)
<1>1. l \in Nat /\ \A i \in 1 .. l : Sizes[i] \in Int
  BY SizesAreNaturals
<1>2. l \in 0 .. Len(lru_) /\ \A i \in 1 .. l : f[lru_[i]] = BytesOf[map_[lru_[i]]]
  BY <1>1, SizesAreNaturals
<1>3. SumFunctionOnSet(f, {lru_[i] : i \in 1 .. l}) = FrontBytes(l)
  <2> HIDE DEF f, l
  <2> QED  BY <1>2, FrontOfMap
<1>4. current_bytes_ = FrontBytes(l)
  BY <1>3 DEF Held, ByteAccounting, Inv, ListMatchesMap, SumFunction
<1>5. /\ IsFiniteSet(1 .. n) /\ IsFiniteSet(n + 1 .. l)
      /\ 1 .. n \cap n + 1 .. l = {} /\ 1 .. n \cup n + 1 .. l = 1 .. l
  <2>1. IsFiniteSet(1 .. n) /\ IsFiniteSet(n + 1 .. l)
    BY <1>1, FS_Interval
  <2>2. (1 .. n) \cap (n + 1 .. l) = {} /\ (1 .. n) \cup (n + 1 .. l) = 1 .. l
    BY <1>1
  <2> QED  BY <2>1, <2>2
<1>6. FrontBytes(l) = FrontBytes(n) + back
  <2> HIDE DEF l
  <2>1. SumFunctionOnSet(Sizes, (1 .. n) \cup (n + 1 .. l))
           = SumFunctionOnSet(Sizes, 1 .. n) + SumFunctionOnSet(Sizes, n + 1 .. l)
    BY <1>1, <1>5, SumOfUnion
  <2> QED  BY <1>5, <2>1 DEF FrontBytes
<1>7. FrontBytes(n) \in Int
  <2>1. \A i \in 1 .. n : Sizes[i] \in Int
    BY <1>1
  <2> QED  BY <1>5, <2>1, SumOfRest DEF FrontBytes
<1>8. back \in Int
  <2>1. \A i \in n + 1 .. l : Sizes[i] \in Int
    BY <1>1
  <2> QED  BY <1>5, <2>1, SumOfRest
<1>9. BytesAfter(n) = current_bytes_ - back
  BY DEF BytesAfter, Sizes
<1> HIDE DEF back, l
<1> QED  BY <1>4, <1>6, <1>7, <1>8, <1>9

(* Nothing is left of the count when no key is left.                       *)
LEMMA NothingAfterAll == ASSUME Inv, Held PROVE BytesAfter(0) = 0
<1>1. 0 \in 0 .. Len(lru_) /\ 1 .. 0 = {}
  BY SizesAreNaturals
<1>2. BytesAfter(0) = FrontBytes(0)
  BY <1>1, BytesAfterIsFront
<1> QED  BY <1>1, <1>2, SumEmpty DEF FrontBytes

(* put keeps the count that of the entries, and below max_bytes_: the keys *)
(* that stay take BytesAfter(n), and the new one what its audio takes.     *)
LEMMA PutHolds ==
    ASSUME Inv, Held, NEW n \in 0 .. Len(lru_), NEW u \in Utterances,
           KeyOf[u] \notin DOMAIN map_, BytesOf[u] <= MaxBytes, n = 0 \/ Fits(n, BytesOf[u]),
           map_' = [k \in {lru_[i] : i \in 1 .. n} \cup {KeyOf[u]} |->
                       IF k = KeyOf[u] THEN u ELSE map_[k]],
           current_bytes_' = BytesAfter(n) + BytesOf[u]
    PROVE  Held'
<1> DEFINE K == {lru_[i] : i \in 1 .. n}
           f == [k \in K \cup {KeyOf[u]} |-> BytesOf[map_'[k]]]
<1>1. \A i \in 1 .. n : i \in 1 .. Len(lru_) /\ lru_[i] # KeyOf[u] /\ map_'[lru_[i]] = map_[lru_[i]]
  <2>1. \A i \in 1 .. n : i \in 1 .. Len(lru_)
    BY SizesAreNaturals
  <2>2. \A i \in 1 .. n : lru_[i] # KeyOf[u]
    BY <2>1, SizesAreNaturals
  <2> QED  BY <2>1, <2>2
<1>2. \A i \in 1 .. n : f[lru_[i]] = BytesOf[map_[lru_[i]]] /\ f[lru_[i]] \in Int
  BY <1>1, SizesAreNaturals
<1>3. f[KeyOf[u]] = BytesOf[u] /\ BytesOf[u] \in Nat
  BY CacheAssumption
<1>4. IsFiniteSet(K) /\ SumFunctionOnSet(f, K) = FrontBytes(n)
  <2> HIDE DEF f
  <2> QED  BY <1>2, FrontOfMap
<1>5. KeyOf[u] \notin K /\ \A k \in K \cup {KeyOf[u]} : f[k] \in Int
  <2>1. KeyOf[u] \notin K
    BY <1>1
  <2>2. \A k \in K : f[k] \in Int
    <3> HIDE DEF f
    <3> QED  BY <1>2
  <2>3. f[KeyOf[u]] \in Int
    BY <1>3
  <2> HIDE DEF f, K
  <2> QED  BY <2>1, <2>2, <2>3
<1>6. SumFunctionOnSet(f, K \cup {KeyOf[u]}) = SumFunctionOnSet(f, K) + f[KeyOf[u]]
  <2> HIDE DEF f, K
  <2> QED  BY <1>4, <1>5, SumOfMore
<1>7. BytesAfter(n) = FrontBytes(n) /\ FrontBytes(n) \in Int
  BY BytesAfterIsFront
<1>8. current_bytes_' = SumFunctionOnSet(f, K \cup {KeyOf[u]})
  BY <1>3, <1>4, <1>6, <1>7
<1>9. current_bytes_' \in Int /\ current_bytes_' <= MaxBytes
  <2>1. current_bytes_' = FrontBytes(n) + BytesOf[u]
    BY <1>7
  <2>2. FrontBytes(0) = 0
    BY SumEmpty DEF FrontBytes
  <2>3. n = 0 \/ FrontBytes(n) + BytesOf[u] <= MaxBytes
    BY <1>7 DEF Fits
  <2> QED  BY <1>3, <1>7, <2>1, <2>2, <2>3
<1>10. DOMAIN map_' = K \cup {KeyOf[u]}
  OBVIOUS
<1>11. map_' \in [DOMAIN map_' -> Utterances]
  <2>1. \A i \in 1 .. n : map_[lru_[i]] \in Utterances
    BY <1>1, SizesAreNaturals
  <2>2. \A k \in K : map_[k] \in Utterances
    BY <2>1
  <2> QED  BY <2>2
<1>12. current_bytes_' = SumFunction([k \in DOMAIN map_' |-> BytesOf[map_'[k]]])
  BY <1>8, <1>10 DEF SumFunction
<1> QED  BY <1>9, <1>11, <1>12 DEF Held, ByteAccounting

LEMMA HeldStep == Inv /\ Held /\ [Next]_vars => Held'
<1> SUFFICES ASSUME Inv, Held, [Next]_vars PROVE Held'
  OBVIOUS
<1>1. ASSUME UNCHANGED <<map_, current_bytes_>> PROVE Held'
  BY <1>1 DEF Held, ByteAccounting
<1>2. ASSUME NEW c \in Clients, Put(c) PROVE Held'
  <2> DEFINE u == asked[c]
  <2>1. /\ u \in Utterances /\ KeyOf[u] \notin DOMAIN map_ /\ BytesOf[u] <= MaxBytes
    BY <1>2 DEF Put, Inv, KeyTypes
  <2>2. PICK n \in 0 .. Len(lru_) :
           /\ KeptBy(BytesOf[u], n)
           /\ map_' = [k \in {lru_[i] : i \in 1 .. n} \cup {KeyOf[u]} |->
                          IF k = KeyOf[u] THEN u ELSE map_[k]]
           /\ current_bytes_' = BytesAfter(n) + BytesOf[u]
    BY <1>2 DEF Put
  <2>3. n = 0 \/ Fits(n, BytesOf[u])
    BY <2>2 DEF KeptBy
  <2> HIDE DEF u
  <2> QED  BY <2>1, <2>2, <2>3, PutHolds
<1>3. ASSUME NEW c \in Clients, NEW u \in Utterances, Hit(c, u) \/ Miss(c, u) PROVE Held'
  BY <1>1, <1>3 DEF Hit, Miss
<1>4. ASSUME NEW c \in Clients, GiveUp(c) \/ PutRefused(c) PROVE Held'
  BY <1>1, <1>4 DEF GiveUp, PutRefused
<1>5. CASE UNCHANGED vars
  BY <1>1, <1>5 DEF vars
<1> QED  BY <1>2, <1>3, <1>4, <1>5 DEF Next

(* current_bytes_, which put and the eviction count up and down, is what   *)
(* the entries of the map take, and never exceeds max_bytes_.              *)
THEOREM ByteAccountingAlways == Spec => []ByteAccounting
<1>1. Init => Inv
  BY DEF Init, Inv, KeyTypes, ListMatchesMap
<1>2. Init => Held
  <2> SUFFICES ASSUME Init PROVE Held
    OBVIOUS
  <2>1. DOMAIN map_ = {}
    BY DEF Init
  <2>2. SumFunction([k \in DOMAIN map_ |-> BytesOf[map_[k]]]) = 0
    BY <2>1, SumEmpty DEF SumFunction
  <2> QED  BY <2>2, CacheAssumption DEF Init, Held, ByteAccounting
<1> QED  BY <1>1, <1>2, InvStep, HeldStep, PTL DEF Spec, Held

-----------------------------------------------------------------------------

(* The entries of RecencyCache: each key of the list with its audio.       *)
Entry(i) == [key |-> lru_[i], value |-> map_[lru_[i]]]
Entries == [i \in 1 .. Len(lru_) |-> Entry(i)]

LEMMA EntriesAreKeysWithAudio ==
    ASSUME Inv
    PROVE  /\ Len(lru_) \in Nat
           /\ Entries \in Seq({Entry(i) : i \in 1 .. Len(lru_)})
           /\ Len(Entries) = Len(lru_) /\ DOMAIN Entries = 1 .. Len(lru_)
           /\ \A i \in 1 .. Len(lru_) : Entries[i] = Entry(i)
           /\ Recency!KeysOf(Entries) = DOMAIN map_
<1>1. Len(lru_) \in Nat
  BY DEF Inv, KeyTypes
<1>2. DOMAIN Entries = 1 .. Len(lru_) /\ \A i \in 1 .. Len(lru_) : Entries[i] = Entry(i)
  BY DEF Entries
<1>3. Entries \in Seq({Entry(i) : i \in 1 .. Len(lru_)}) /\ Len(Entries) = Len(lru_)
  <2> HIDE DEF Entry
  <2> QED  BY <1>1, <1>2 DEF Entries
<1>4. Recency!KeysOf(Entries) = {lru_[i] : i \in 1 .. Len(lru_)}
  <2>1. \A i \in 1 .. Len(lru_) : Entries[i].key = lru_[i]
    BY <1>2 DEF Entry
  <2> QED  BY <1>2, <2>1 DEF Recency!KeysOf
<1> QED  BY <1>1, <1>2, <1>3, <1>4 DEF Inv, ListMatchesMap

(* get moves the entry to the front.                                       *)
LEMMA HitUses ==
    ASSUME Inv, NEW c \in Clients, NEW u \in Utterances, Hit(c, u)
    PROVE  Recency!Use(KeyOf[u])
<1>1. PICK i \in 1 .. Len(lru_) : lru_[i] = KeyOf[u] /\ lru_' = MovedToFront(i)
  BY DEF Hit
<1>2. map_' = map_
  BY DEF Hit
<1> DEFINE l == Len(lru_)
           old == Entries
           moved == [j \in 1 .. l |-> IF j = 1 THEN old[i] ELSE IF j <= i THEN old[j - 1] ELSE old[j]]
           used == <<old[i]>> \o SubSeq(old, 1, i - 1) \o SubSeq(old, i + 1, Len(old))
<1>3. /\ l \in Nat /\ i \in 1 .. l /\ Len(old) = l
      /\ old \in Seq({Entry(j) : j \in 1 .. l})
      /\ \A j \in 1 .. l : old[j] = Entry(j)
  BY EntriesAreKeysWithAudio
<1>4. Len(lru_') = l
  BY <1>1, <1>3 DEF MovedToFront
<1>5. Entries' = moved
  <2> DEFINE E(j) == [key |-> lru_'[j], value |-> map_[lru_'[j]]]
  <2>1. Entries' = [j \in 1 .. l |-> E(j)]
    BY <1>2, <1>4 DEF Entries, Entry
  <2>2. ASSUME NEW j \in 1 .. l PROVE E(j) = moved[j]
    <3> DEFINE m == IF j = 1 THEN i ELSE IF j <= i THEN j - 1 ELSE j
    <3>1. m \in 1 .. l
      BY <1>3
    <3>2. lru_'[j] = lru_[m]
      BY <1>1 DEF MovedToFront
    <3>3. moved[j] = old[m]
      <4> HIDE DEF old
      <4> QED  OBVIOUS
    <3>4. old[m] = Entry(m)
      <4> HIDE DEF m, old
      <4> QED  BY <1>3, <3>1
    <3> HIDE DEF m
    <3> QED  BY <3>2, <3>3, <3>4 DEF Entry
  <2> QED  BY <2>1, <2>2
<1>6. moved = used
  <2> DEFINE T == {Entry(j) : j \in 1 .. l}
  <2> HIDE DEF T, old, l
  <2>1. old \in Seq(T) /\ Len(old) = l /\ l \in Nat /\ i \in 1 .. l
    BY <1>3 DEF T
  <2>2. /\ SubSeq(old, 1, i - 1) \in Seq(T) /\ Len(SubSeq(old, 1, i - 1)) = i - 1
        /\ \A j \in 1 .. i - 1 : SubSeq(old, 1, i - 1)[j] = old[j]
    BY <2>1
  <2>3. /\ SubSeq(old, i + 1, l) \in Seq(T) /\ Len(SubSeq(old, i + 1, l)) = l - i
        /\ \A j \in 1 .. l - i : SubSeq(old, i + 1, l)[j] = old[i + j]
    BY <2>1
  <2> DEFINE front == SubSeq(old, 1, i - 1)
             back == SubSeq(old, i + 1, l)
             first == <<old[i]>> \o front
  <2>4. /\ first \in Seq(T) /\ Len(first) = i
        /\ \A j \in 1 .. i : first[j] = IF j = 1 THEN old[i] ELSE old[j - 1]
    <3>1. <<old[i]>> \in Seq(T) /\ Len(<<old[i]>>) = 1
      BY <2>1
    <3>2. front \in Seq(T) /\ Len(front) = i - 1 /\ \A j \in 1 .. i - 1 : front[j] = old[j]
      BY <2>2
    <3> HIDE DEF front
    <3>3. first \in Seq(T) /\ Len(first) = i
      BY <2>1, <3>1, <3>2
    <3>4. ASSUME NEW j \in 1 .. i PROVE first[j] = IF j = 1 THEN old[i] ELSE old[j - 1]
      <4>1. first[j] = IF j = 1 THEN old[i] ELSE front[j - 1]
        BY <2>1, <3>1, <3>2
      <4> QED  BY <2>1, <3>2, <4>1
    <3> QED  BY <3>3, <3>4
  <2>5. used = first \o back
    BY <2>1
  <2>6. /\ back \in Seq(T) /\ Len(back) = l - i /\ \A j \in 1 .. l - i : back[j] = old[i + j]
    BY <2>3
  <2> HIDE DEF first, back, used
  <2>7. used \in Seq(T) /\ Len(used) = l
    BY <2>1, <2>4, <2>5, <2>6
  <2>8. ASSUME NEW j \in 1 .. l PROVE used[j] = moved[j]
    <3>1. CASE j <= i
      <4>1. used[j] = first[j]
        BY <2>1, <2>4, <2>5, <2>6, <3>1
      <4> QED  BY <2>1, <2>4, <3>1, <4>1
    <3>2. CASE j > i
      <4>1. used[j] = back[j - i]
        BY <2>1, <2>4, <2>5, <2>6, <3>2
      <4>2. j - i \in 1 .. l - i /\ i + (j - i) = j
        BY <2>1, <3>2
      <4> QED  BY <2>1, <2>6, <3>2, <4>1, <4>2
    <3> QED  BY <2>1, <3>1, <3>2
  <2>9. DOMAIN used = 1 .. l /\ DOMAIN moved = 1 .. l
    BY <2>1, <2>7
  <2>10. used = [j \in 1 .. l |-> used[j]] /\ moved = [j \in 1 .. l |-> moved[j]]
    BY <2>7, <2>9
  <2> HIDE DEF moved
  <2> QED  BY <2>8, <2>10
<1>7. old[i].key = KeyOf[u] /\ i \in DOMAIN old
  BY <1>1, <1>3, EntriesAreKeysWithAudio DEF Entry
<1> HIDE DEF moved, used
<1>8. Entries' = used
  BY <1>5, <1>6
<1> QED  BY <1>7, <1>8 DEF Recency!Use, used, Entries, Entry

(* RecencyCache sums the sizes of its front afresh, the eviction takes     *)
(* those of the back off: both find the same room.                         *)
LEMMA SameRoom ==
    ASSUME Inv, Held, NEW n \in 0 .. Len(lru_)
    PROVE  Recency!Bytes(SubSeq(Entries, 1, n)) = BytesAfter(n)
<1> DEFINE kept == SubSeq(Entries, 1, n)
           f == [i \in DOMAIN kept |-> BytesOf[kept[i].value]]
<1>1. n \in Nat /\ DOMAIN kept = 1 .. n /\ \A i \in 1 .. n : i \in 1 .. Len(lru_) /\ kept[i] = Entry(i)
  <2> DEFINE T == {Entry(i) : i \in 1 .. Len(lru_)}
             e == Entries
  <2>1. Len(lru_) \in Nat /\ e \in Seq(T) /\ Len(e) = Len(lru_) /\ \A i \in 1 .. Len(lru_) : e[i] = Entry(i)
    BY EntriesAreKeysWithAudio
  <2>2. n \in Nat /\ n <= Len(lru_)
    BY <2>1
  <2> HIDE DEF e, T
  <2>3. DOMAIN SubSeq(e, 1, n) = 1 .. n /\ \A i \in 1 .. n : SubSeq(e, 1, n)[i] = e[i]
    BY <2>1, <2>2
  <2>4. \A i \in 1 .. n : i \in 1 .. Len(lru_)
    BY <2>1, <2>2
  <2>5. \A i \in 1 .. n : e[i] = Entry(i)
    BY <2>1, <2>4
  <2> QED  BY <2>2, <2>3, <2>4, <2>5 DEF e
<1>2. DOMAIN f = 1 .. n /\ \A i \in 1 .. n : Sizes[i] = f[i]
  <2>1. ASSUME NEW i \in 1 .. n PROVE f[i] = BytesOf[map_[lru_[i]]]
    <3>1. kept[i].value = map_[lru_[i]]
      <4> HIDE DEF kept
      <4> QED  BY <1>1 DEF Entry
    <3> HIDE DEF kept
    <3> QED  BY <1>1, <3>1
  <2> HIDE DEF kept, f
  <2>2. \A i \in 1 .. n : Sizes[i] = BytesOf[map_[lru_[i]]]
    BY <1>1, SizesAreNaturals
  <2>3. DOMAIN f = 1 .. n
    BY <1>1 DEF f
  <2> QED  BY <2>1, <2>2, <2>3
<1>3. IsFiniteSet(1 .. n)
  BY <1>1, FS_Interval
<1>4. SumFunctionOnSet(f, 1 .. n) = SumFunctionOnSet(Sizes, 1 .. n)
  <2> HIDE DEF f
  <2> QED  BY <1>2, <1>3, SumOfSame
<1>5. Recency!Bytes(kept) = SumFunctionOnSet(f, 1 .. n)
  <2>1. Recency!Bytes(kept) = SumFunction(f)
    BY DEF Recency!Bytes, SumFunction, SumFunctionOnSet, FoldFunctionOnSet, MapThenFoldSet,
           Recency!SumFunction, Recency!SumFunctionOnSet, Recency!FoldFunctionOnSet, Recency!MapThenFoldSet
  <2> HIDE DEF f
  <2> QED  BY <1>2, <2>1 DEF SumFunction
<1> QED  BY <1>4, <1>5, BytesAfterIsFront DEF FrontBytes

(* put inserts, with the room the eviction made.                           *)
LEMMA PutInserts ==
    ASSUME Inv, Held, NEW c \in Clients, Put(c), NEW u \in Utterances, asked[c] = u
    PROVE  Recency!Insert(KeyOf[u], u)
<1> DEFINE l == Len(lru_)
           old == Entries
           new == [key |-> KeyOf[u], value |-> u]
           room(m) == Recency!Bytes(SubSeq(old, 1, m)) + BytesOf[u] <= MaxBytes
<1>1. /\ KeyOf[u] \in Keys /\ BytesOf[u] \in Nat
      /\ KeyOf[u] \notin DOMAIN map_ /\ BytesOf[u] <= MaxBytes
  BY CacheAssumption DEF Put
<1>2. PICK n \in 0 .. l :
         /\ KeptBy(BytesOf[u], n)
         /\ lru_' = [j \in 1 .. n + 1 |-> IF j = 1 THEN KeyOf[u] ELSE lru_[j - 1]]
         /\ map_' = [k \in {lru_[i] : i \in 1 .. n} \cup {KeyOf[u]} |->
                        IF k = KeyOf[u] THEN u ELSE map_[k]]
  BY DEF Put
<1>3. /\ l \in Nat /\ n \in Nat /\ Len(old) = l
      /\ old \in Seq({Entry(j) : j \in 1 .. l})
      /\ \A j \in 1 .. l : old[j] = Entry(j)
      /\ Recency!KeysOf(old) = DOMAIN map_
  BY EntriesAreKeysWithAudio
<1> HIDE DEF old, l
<1>4. \A m \in 0 .. l : room(m) <=> Fits(m, BytesOf[u])
  <2>1. \A m \in 0 .. l : Recency!Bytes(SubSeq(old, 1, m)) = BytesAfter(m)
    BY SameRoom DEF old, l
  <2> QED  BY <2>1 DEF Fits
<1>5. room(n) /\ \A m \in n + 1 .. l : ~room(m)
  <2>1. n = 0 \/ Fits(n, BytesOf[u])
    BY <1>2 DEF KeptBy
  <2>2. \A m \in n + 1 .. l : ~Fits(m, BytesOf[u])
    BY <1>2 DEF KeptBy, l
  <2>3. n = 0 => Fits(n, BytesOf[u])
    BY <1>1, NothingAfterAll DEF Fits
  <2>4. \A m \in n + 1 .. l : m \in 0 .. l
    BY <1>3
  <2> HIDE DEF room
  <2> QED  BY <1>2, <1>4, <2>1, <2>2, <2>3, <2>4
<1> DEFINE put == [j \in 1 .. n + 1 |-> IF j = 1 THEN new ELSE old[j - 1]]
           inserted == <<new>> \o SubSeq(old, 1, n)
<1>6. Entries' = put
  <2> DEFINE E(j) == [key |-> lru_'[j], value |-> map_'[lru_'[j]]]
  <2>1. Len(lru_') = n + 1
    BY <1>2, <1>3
  <2>2. Entries' = [j \in 1 .. n + 1 |-> E(j)]
    BY <2>1 DEF Entries, Entry
  <2>3. ASSUME NEW j \in 1 .. n + 1 PROVE E(j) = put[j]
    <3>1. CASE j = 1
      <4>1. lru_'[j] = KeyOf[u] /\ put[j] = new
        BY <1>2, <3>1
      <4>2. map_'[KeyOf[u]] = u
        BY <1>2
      <4> QED  BY <4>1, <4>2
    <3>2. CASE j # 1
      <4>1. j - 1 \in 1 .. n /\ j - 1 \in 1 .. l
        BY <1>2, <1>3, <3>2
      <4>2. lru_'[j] = lru_[j - 1] /\ put[j] = old[j - 1]
        BY <1>2, <3>2
      <4>3. old[j - 1] = Entry(j - 1)
        BY <1>3, <4>1
      <4>4. lru_[j - 1] # KeyOf[u]
        BY <1>1, <4>1, SizesAreNaturals DEF l
      <4>5. map_'[lru_[j - 1]] = map_[lru_[j - 1]]
        <5>1. lru_[j - 1] \in {lru_[i] : i \in 1 .. n}
          BY <4>1
        <5> QED  BY <1>2, <4>4, <5>1
      <4> QED  BY <4>2, <4>3, <4>5 DEF Entry
    <3> QED  BY <3>1, <3>2
  <2> HIDE DEF E
  <2> QED  BY <2>2, <2>3
<1>7. put = inserted
  <2> DEFINE T == {Entry(j) : j \in 1 .. l} \cup {new}
  <2>1. old \in Seq(T) /\ Len(old) = l /\ l \in Nat /\ n \in 0 .. l /\ n \in Nat
    <3>1. \A j \in 1 .. l : old[j] \in T
      BY <1>3
    <3> HIDE DEF T
    <3> QED  BY <1>2, <1>3, <3>1
  <2>2. new \in T
    OBVIOUS
  <2> HIDE DEF T, new
  <2> DEFINE front == SubSeq(old, 1, n)
  <2>3. front \in Seq(T) /\ Len(front) = n /\ \A j \in 1 .. n : front[j] = old[j]
    BY <2>1
  <2> HIDE DEF front
  <2>4. inserted = <<new>> \o front
    BY DEF front
  <2>5. <<new>> \in Seq(T) /\ Len(<<new>>) = 1
    BY <2>2
  <2> HIDE DEF inserted
  <2>6. inserted \in Seq(T) /\ Len(inserted) = n + 1
    BY <2>1, <2>3, <2>4, <2>5
  <2>7. ASSUME NEW j \in 1 .. n + 1 PROVE inserted[j] = put[j]
    <3>1. inserted[j] = IF j = 1 THEN new ELSE front[j - 1]
      BY <2>1, <2>3, <2>4, <2>5
    <3> QED  BY <2>1, <2>3, <3>1
  <2>8. inserted = [j \in 1 .. n + 1 |-> inserted[j]] /\ put = [j \in 1 .. n + 1 |-> put[j]]
    BY <2>6
  <2> HIDE DEF put
  <2> QED  BY <2>7, <2>8
<1> QED
  <2>1. KeyOf[u] \notin Recency!KeysOf(old)
    BY <1>1, <1>3
  <2>2. Entries' = inserted
    BY <1>6, <1>7
  <2>3. /\ n \in 0 .. Len(old)
        /\ \A m \in n + 1 .. Len(old) : ~room(m)
    BY <1>2, <1>3, <1>5
  <2> USE DEF old, Entries, Entry
  <2> QED  BY <1>1, <1>5, <2>1, <2>2, <2>3 DEF Recency!Insert

(* The cache, with its map, its list, its iterators and its count, answers *)
(* as RecencyCache does: a hit moves an entry to the front, a put keeps    *)
(* the longest part of the front that leaves room, the rest changes        *)
(* nothing.                                                                *)
THEOREM RecencyImplemented == Spec => RecencySpec
<1>1. Init => Inv /\ Held
  <2> SUFFICES ASSUME Init PROVE Inv /\ Held
    OBVIOUS
  <2>1. DOMAIN map_ = {} /\ current_bytes_ = 0 /\ Inv
    BY DEF Init, Inv, KeyTypes, ListMatchesMap
  <2>2. SumFunction([k \in DOMAIN map_ |-> BytesOf[map_[k]]]) = 0
    BY <2>1, SumEmpty DEF SumFunction
  <2> QED  BY <2>1, <2>2, CacheAssumption DEF Init, Held, ByteAccounting
<1>2. Init => Recency!Init
  BY DEF Init, Recency!Init
<1>3. Inv /\ Held /\ [Next]_vars => [Recency!Next]_Entries
  <2> SUFFICES ASSUME Inv, Held, [Next]_vars PROVE Recency!Next \/ Entries' = Entries
    OBVIOUS
  <2>1. ASSUME UNCHANGED <<lru_, map_>> PROVE Entries' = Entries
    BY <2>1 DEF Entries, Entry
  <2>2. ASSUME NEW c \in Clients, NEW u \in Utterances, Hit(c, u) PROVE Recency!Next
    <3>1. KeyOf[u] \in Keys
      BY CacheAssumption
    <3> QED  BY <2>2, <3>1, HitUses DEF Recency!Next
  <2>3. ASSUME NEW c \in Clients, NEW u \in Utterances, Miss(c, u) PROVE Entries' = Entries
    BY <2>1, <2>3 DEF Miss
  <2>4. ASSUME NEW c \in Clients, GiveUp(c) \/ PutRefused(c) PROVE Entries' = Entries
    BY <2>1, <2>4 DEF GiveUp, PutRefused
  <2>5. ASSUME NEW c \in Clients, Put(c) PROVE Recency!Next
    <3>1. PICK u \in Utterances : asked[c] = u
      BY <2>5 DEF Put, Inv, KeyTypes
    <3>2. KeyOf[u] \in Keys
      BY CacheAssumption
    <3> QED  BY <2>5, <3>1, <3>2, PutInserts DEF Recency!Next
  <2>6. CASE UNCHANGED vars
    BY <2>1, <2>6 DEF vars
  <2> QED  BY <2>2, <2>3, <2>4, <2>5, <2>6 DEF Next
<1> QED
  BY <1>1, <1>2, <1>3, InvStep, HeldStep, PTL DEF Spec, RecencySpec, Recency!Spec, Entries, Entry

=============================================================================
