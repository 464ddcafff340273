-------------------------- MODULE SynthesizerPoolProofs --------------------------
(***************************************************************************)
(* What SynthesizerPool guarantees for any number of workers, guilds,      *)
(* requests and sentences, proved.                                         *)
(***************************************************************************)
EXTENDS SynthesizerPool, FiniteSetTheorems, TLAPS

-----------------------------------------------------------------------------
(* The queues as sets of requests.                                         *)

LEMMA ElementsTyped ==
    ASSUME NEW S, NEW s \in Seq(S)
    PROVE  Elements(s) \subseteq S
BY DEF Elements

LEMMA ElementsPushBack ==
    ASSUME NEW S, NEW s \in Seq(S), NEW e \in S
    PROVE  /\ PushBack(s, e) \in Seq(S)
           /\ Elements(PushBack(s, e)) = Elements(s) \cup {e}
<1>1. PushBack(s, e) \in Seq(S) /\ Len(PushBack(s, e)) = Len(s) + 1
  BY DEF PushBack
<1>2. /\ \A i \in 1 .. Len(s) : PushBack(s, e)[i] = s[i]
      /\ PushBack(s, e)[Len(s) + 1] = e
  BY DEF PushBack
<1>3. \A i \in 1 .. Len(s) + 1 : i \in 1 .. Len(s) \/ i = Len(s) + 1
  OBVIOUS
<1> QED  BY <1>1, <1>2, <1>3 DEF Elements

LEMMA DistinctPushBack ==
    ASSUME NEW S, NEW s \in Seq(S), NEW e \in S, Distinct(s), e \notin Elements(s)
    PROVE  Distinct(PushBack(s, e))
<1>1. /\ Len(PushBack(s, e)) = Len(s) + 1
      /\ \A i \in 1 .. Len(s) : PushBack(s, e)[i] = s[i]
      /\ PushBack(s, e)[Len(s) + 1] = e
  BY DEF PushBack
<1>2. \A i \in 1 .. Len(s) + 1 : i \in 1 .. Len(s) \/ i = Len(s) + 1
  OBVIOUS
<1>3. \A i \in 1 .. Len(s) : s[i] # e
  BY DEF Elements
<1> QED  BY <1>1, <1>2, <1>3 DEF Distinct

LEMMA ElementsPopFront ==
    ASSUME NEW S, NEW s \in Seq(S), s # <<>>
    PROVE  /\ Head(s) \in S
           /\ PopFront(s) \in Seq(S)
           /\ Elements(s) = {Head(s)} \cup Elements(PopFront(s))
<1>1. /\ Len(s) \in Nat \ {0}
      /\ Head(s) = s[1]
      /\ PopFront(s) \in Seq(S)
      /\ Len(PopFront(s)) = Len(s) - 1
      /\ \A i \in 1 .. Len(s) - 1 : PopFront(s)[i] = s[i + 1]
  BY DEF PopFront
<1>2. \A i \in 1 .. Len(s) : i = 1 \/ i - 1 \in 1 .. Len(s) - 1
  BY <1>1
<1>3. ASSUME NEW x \in Elements(s)
      PROVE  x \in {Head(s)} \cup Elements(PopFront(s))
  <2>1. PICK i \in 1 .. Len(s) : x = s[i]
    BY DEF Elements
  <2>2. CASE i = 1
    BY <2>1, <2>2, <1>1
  <2>3. CASE i # 1
    <3>1. i - 1 \in 1 .. Len(s) - 1 /\ PopFront(s)[i - 1] = x
      BY <2>1, <2>3, <1>1, <1>2
    <3> QED  BY <3>1, <1>1 DEF Elements
  <2> QED  BY <2>2, <2>3
<1>4. \A x \in Elements(PopFront(s)) : x \in Elements(s)
  BY <1>1 DEF Elements
<1>5. Head(s) \in Elements(s) /\ Head(s) \in S
  BY <1>1 DEF Elements
<1> QED  BY <1>1, <1>3, <1>4, <1>5

LEMMA DistinctPopFront ==
    ASSUME NEW S, NEW s \in Seq(S), s # <<>>, Distinct(s)
    PROVE  /\ Distinct(PopFront(s))
           /\ Head(s) \notin Elements(PopFront(s))
<1>1. /\ Len(s) \in Nat \ {0}
      /\ Head(s) = s[1]
      /\ Len(PopFront(s)) = Len(s) - 1
      /\ \A i \in 1 .. Len(s) - 1 : PopFront(s)[i] = s[i + 1]
  BY DEF PopFront
<1>2. \A i, j \in 1 .. Len(s) - 1 : s[i + 1] = s[j + 1] => i = j
  BY <1>1 DEF Distinct
<1>3. \A i \in 1 .. Len(s) - 1 : s[i + 1] # s[1]
  BY <1>1 DEF Distinct
<1> QED  BY <1>1, <1>2, <1>3 DEF Distinct, Elements

-----------------------------------------------------------------------------
(* A worker holds a request exactly from take_work to the end of the try   *)
(* block, and has a synthesis under way only while it waits for it.        *)
Working == {"claim", "next", "synth", "late", "speak"}
HoldsJob ==
    /\ \A w \in Workers : job[w] \in Requests <=> pc[w] \in Working
    /\ \A w \in Workers : synth[w] # "none" <=> pc[w] \in {"synth", "late"}

TypeInv == TypeOK /\ HoldsJob

\* A turn is a place of guild_order_.
LEMMA TurnInRange ==
    ASSUME TypeOK, NEW k \in 0 .. Turns - 1
    PROVE  /\ Visited(k) \in Guilds
           /\ After(k) \in Nat /\ After(k) < Turns
<1>1. Turns \in Nat /\ rr_index_ \in 0 .. Turns - 1
  BY DEF Turns, TypeOK
<1>2. Slot(k) + 1 \in 1 .. Turns
  BY <1>1 DEF Slot
<1>3. Visited(k) \in Guilds
  BY <1>2 DEF Visited, Turns, TypeOK
<1> QED  BY <1>1, <1>3 DEF After, Slot

LEMMA TypeInvInit == Init => TypeInv
BY PoolAssumption, FS_CardinalityType
DEF Init, TypeInv, TypeOK, HoldsJob, Working, Turns

LEMMA TypeInvStep == TypeInv /\ [Next]_vars => TypeInv'
<1> SUFFICES ASSUME TypeInv, [Next]_vars PROVE TypeInv'
  OBVIOUS
<1> USE DEF TypeInv, TypeOK, HoldsJob, Working
<1>0. Word \in Nat \ {0}
  BY PoolAssumption, FS_CardinalityType
<1>1. ASSUME NEW r \in Requests, Push(r) PROVE TypeInv'
  <2>1. GuildOf[r] \in Guilds
    BY PoolAssumption
  <2>2. guilds_' \in [Guilds -> Seq(Requests)]
    BY <1>1, <2>1, ElementsPushBack DEF Push
  <2>3. guild_order_' \in Seq(Guilds) /\ Turns' >= Turns /\ Turns \in Nat
    BY <1>1, <2>1 DEF Push, Turns
  <2> QED  BY <1>1, <2>2, <2>3 DEF Push, worker, counts, history, Turns
<1>2. ASSUME NEW r \in Requests, Count(r) PROVE TypeInv'
  <2>1. pending_' \in 0 .. Word - 1
    BY <1>2, <1>0 DEF Count, Increment
  <2> QED  BY <1>2, <2>1 DEF Count, queues, worker, counts, history, Turns
<1>3. ASSUME NEW r \in Requests, Notify(r) PROVE TypeInv'
  <2>1. /\ pc' \in [Workers -> {"loop", "wait", "block", "asleep", "awake", "take",
                          "claim", "next", "synth", "late", "speak", "exited"}]
        /\ \A w \in Workers : pc'[w] = pc[w] \/ (pc[w] = "asleep" /\ pc'[w] = "wait")
    BY <1>3 DEF Notify, Asleep
  <2>2. UNCHANGED <<job, synth>>
    BY <1>3 DEF Notify
  <2>3. HoldsJob'
    BY <2>1, <2>2
  <2> QED  BY <1>3, <2>1, <2>3 DEF Notify, queues, counts, history, Turns
<1>4. ASSUME NEW g \in Guilds, Clear(g) PROVE TypeInv'
  <2>1. Elements(guilds_[g]) \subseteq Requests
    BY ElementsTyped
  <2> QED  BY <1>4, <2>1 DEF Clear, worker, counts, Turns
<1>5. CASE StopFlag \/ StopNotify \/ StopJoin
  <2>1. CASE StopFlag
    BY <2>1 DEF StopFlag, queues, worker, counts, history, Turns
  <2>2. CASE StopNotify
    BY <2>2 DEF StopNotify, Asleep, queues, counts, history, Turns
  <2>3. CASE StopJoin
    BY <2>3 DEF StopJoin, queues, worker, counts, history, Turns
  <2> QED  BY <1>5, <2>1, <2>2, <2>3
<1>6. ASSUME NEW w \in Workers, TakeWork(w) PROVE TypeInv'
  <2>1. PICK k \in 0 .. Turns - 1 :
           /\ guilds_[Visited(k)] # <<>>
           /\ job' = [job EXCEPT ![w] = Head(guilds_[Visited(k)])]
           /\ guilds_' = [guilds_ EXCEPT ![Visited(k)] = PopFront(@)]
           /\ rr_index_' = After(k)
    BY <1>6 DEF TakeWork
  <2>2. Visited(k) \in Guilds /\ After(k) \in Nat /\ After(k) < Turns
    BY <2>1, TurnInRange
  <2>3. Head(guilds_[Visited(k)]) \in Requests
    BY <2>1, <2>2, ElementsPopFront
  <2>4. guilds_' \in [Guilds -> Seq(Requests)]
    BY <2>1, <2>2, ElementsPopFront
  <2> QED  BY <1>6, <2>1, <2>2, <2>3, <2>4 DEF TakeWork, Go, quiet, counts, history, Turns
<1>7. ASSUME NEW w \in Workers, Claim(w) PROVE TypeInv'
  <2>1. pending_' \in 0 .. Word - 1
    BY <1>7, <1>0 DEF Claim, Decrement
  <2> QED  BY <1>7, <2>1 DEF Claim, Go, queues, counts, Turns
<1>8. ASSUME NEW w \in Workers, Speak(w) PROVE TypeInv'
  <2>1. job[w] \in Requests
    BY <1>8 DEF Speak, Go
  <2>2. spoken' \in [Requests -> Seq(Nat)]
    BY <1>8, <2>1 DEF Speak
  <2> QED  BY <1>8, <2>2 DEF Speak, Go, quiet, queues, counts, Turns
<1>9. ASSUME NEW w \in Workers,
             LoopTest(w) \/ CheckPredicate(w) \/ Block(w) \/ SpuriousWake(w)
             \/ AwakeTest(w) \/ TakeNothing(w)
      PROVE  TypeInv'
  <2>1. CASE LoopTest(w)
    BY <2>1 DEF LoopTest, Go, quiet, queues, counts, history, Turns
  <2>2. CASE CheckPredicate(w)
    BY <2>2 DEF CheckPredicate, Go, quiet, queues, counts, history, Turns
  <2>3. CASE Block(w)
    BY <2>3 DEF Block, Go, quiet, queues, counts, history, Turns
  <2>4. CASE SpuriousWake(w)
    BY <2>4 DEF SpuriousWake, Go, quiet, queues, counts, history, Turns
  <2>5. CASE AwakeTest(w)
    BY <2>5 DEF AwakeTest, Go, quiet, queues, counts, history, Turns
  <2>6. CASE TakeNothing(w)
    BY <2>6 DEF TakeNothing, Go, quiet, queues, counts, history, Turns
  <2> QED  BY <1>9, <2>1, <2>2, <2>3, <2>4, <2>5, <2>6
<1>10. ASSUME NEW w \in Workers,
              LookupHit(w) \/ LookupMiss(w) \/ Timeout(w) \/ LateEnd(w)
              \/ Encode(w) \/ SynthEnd(w)
       PROVE  TypeInv'
  <2>1. CASE LookupHit(w)
    BY <2>1 DEF LookupHit, Go, quiet, queues, counts, history, Turns
  <2>2. CASE LookupMiss(w)
    BY <2>2 DEF LookupMiss, Go, quiet, queues, counts, history, Turns
  <2>3. CASE Timeout(w)
    BY <2>3 DEF Timeout, Go, quiet, queues, counts, history, Turns
  <2>4. CASE LateEnd(w)
    BY <2>4 DEF LateEnd, Go, quiet, queues, counts, history, Turns
  <2>5. CASE Encode(w)
    BY <2>5 DEF Encode, Go, quiet, queues, counts, history, Turns
  <2>6. CASE SynthEnd(w)
    BY <2>6 DEF SynthEnd, Go, quiet, queues, counts, history, Turns
  <2> QED  BY <1>10, <2>1, <2>2, <2>3, <2>4, <2>5, <2>6
<1>11. ASSUME NEW w \in Workers, Finish(w) \/ Fail(w) PROVE TypeInv'
  <2>1. CASE Finish(w)
    BY <2>1, PoolAssumption DEF Finish, Go, quiet, queues, counts, history, Turns
  <2>2. CASE Fail(w)
    BY <2>2, PoolAssumption, SMTT(20) DEF Fail, queues, history, Turns
  <2> QED  BY <1>11, <2>1, <2>2
<1>12. CASE UNCHANGED vars
  BY <1>12 DEF vars, queues, worker, counts, history, Turns
<1> QED
  BY <1>1, <1>2, <1>3, <1>4, <1>5, <1>6, <1>7, <1>8, <1>9, <1>10, <1>11, <1>12
  DEF Next, Submitter, Stopper, Worker

LEMMA TypeInvariant == Spec => []TypeInv
BY TypeInvInit, TypeInvStep, PTL DEF Spec

(* Every variable of the pool keeps its type: in particular pending_ stays *)
(* within its word and rr_index_ within guild_order_ across submit,        *)
(* take_work and the decrement of worker_loop.                             *)
THEOREM TypeCorrect == Spec => []TypeOK
BY TypeInvariant, PTL DEF TypeInv

-----------------------------------------------------------------------------
(* Where a request is.                                                     *)

AtHome   == \A g \in Guilds : \A r \in Elements(guilds_[g]) : GuildOf[r] = g
Registry == \A g \in Guilds : guilds_[g] # <<>> => Registered(g)
ClaimMark ==
    \A w \in Workers : job[w] \in Requests => (job[w] \in claimed <=> pc[w] # "claim")

PlaceInv == AtHome /\ Registry /\ ClaimMark /\ Exclusive /\ Accounted

LEMMA PlaceInit == Init => PlaceInv
<1> SUFFICES ASSUME Init PROVE PlaceInv
  OBVIOUS
<1>1. Waiting = {} /\ Held = {} /\ Pushed = {}
  BY DEF Init, Waiting, Held, Pushed, Elements
<1> QED
  BY <1>1, PoolAssumption
  DEF Init, PlaceInv, AtHome, Registry, ClaimMark, Exclusive, Accounted, Distinct, Elements

\* A step that moves no request from its place.
LEMMA PlaceStill ==
    ASSUME TypeInv, PlaceInv,
           UNCHANGED <<guilds_, guild_order_, job, claimed, dropped>>,
           Pushed' = Pushed,
           \A w \in Workers : job[w] \in Requests => (pc'[w] = "claim" <=> pc[w] = "claim")
    PROVE  PlaceInv'
<1>1. Waiting' = Waiting /\ Held' = Held
  BY DEF Waiting, Held
<1> QED
  BY <1>1 DEF PlaceInv, AtHome, Registry, ClaimMark, Exclusive, Accounted, Registered

LEMMA PlaceStep == TypeInv /\ TypeInv' /\ PlaceInv /\ [Next]_vars => PlaceInv'
<1> SUFFICES ASSUME TypeInv, TypeInv', PlaceInv, [Next]_vars PROVE PlaceInv'
  OBVIOUS
<1>t. TypeOK /\ HoldsJob
  BY DEF TypeInv
<1>n. Nobody \notin Requests
  BY PoolAssumption
<1>1. ASSUME NEW r \in Requests, Push(r) PROVE PlaceInv'
  <2> DEFINE g == GuildOf[r]
  <2>1. g \in Guilds /\ guilds_[g] \in Seq(Requests)
    BY <1>t, PoolAssumption DEF TypeOK
  <2>2. /\ guilds_' = [guilds_ EXCEPT ![g] = PushBack(@, r)]
        /\ UNCHANGED <<job, pc, claimed, dropped>>
        /\ r \notin Pushed
    BY <1>1 DEF Push, Pushed, worker, history
  <2>3. Pushed' = Pushed \cup {r}
    BY <1>1, <1>t DEF Push, Pushed, TypeOK
  <2>4. r \notin Waiting /\ r \notin Held /\ r \notin claimed /\ r \notin dropped
    BY <2>2 DEF PlaceInv, Accounted
  <2>5. /\ guilds_'[g] = PushBack(guilds_[g], r)
        /\ Elements(guilds_'[g]) = Elements(guilds_[g]) \cup {r}
        /\ \A h \in Guilds \ {g} : guilds_'[h] = guilds_[h]
    BY <1>t, <2>1, <2>2, ElementsPushBack DEF TypeOK
  <2>6. Waiting' = Waiting \cup {r}
    BY <2>1, <2>5 DEF Waiting
  <2>7. Distinct(guilds_'[g])
    BY <2>1, <2>4, <2>5, DistinctPushBack DEF PlaceInv, Exclusive, Waiting
  <2>8. Held' = Held
    BY <2>2 DEF Held
  <2>9. AtHome'
    BY <2>5 DEF PlaceInv, AtHome
  <2>10. Registry'
    <3>1. \A h : Registered(h) => Registered(h)'
      BY <1>1, <1>t, <2>1, ElementsPushBack DEF Push, Registered, TypeOK, PushBack
    <3>2. Registered(g)'
      BY <1>1, <1>t, <2>1, ElementsPushBack DEF Push, Registered, TypeOK, PushBack
    <3> QED  BY <3>1, <3>2, <2>5 DEF PlaceInv, Registry
  <2>11. ClaimMark'
    BY <2>2 DEF PlaceInv, ClaimMark
  <2>12. Exclusive'
    BY <2>2, <2>4, <2>5, <2>6, <2>7, <2>8 DEF PlaceInv, Exclusive
  <2>13. Accounted'
    BY <2>2, <2>3, <2>6, <2>8 DEF PlaceInv, Accounted
  <2> QED  BY <2>9, <2>10, <2>11, <2>12, <2>13 DEF PlaceInv
<1>2. ASSUME NEW g \in Guilds, Clear(g) PROVE PlaceInv'
  <2>1. /\ guilds_' = [guilds_ EXCEPT ![g] = <<>>]
        /\ dropped' = dropped \cup Elements(guilds_[g])
        /\ UNCHANGED <<job, pc, claimed, phase, guild_order_>>
    BY <1>2 DEF Clear, worker
  <2>2. /\ guilds_'[g] = <<>>
        /\ Elements(guilds_'[g]) = {}
        /\ \A h \in Guilds \ {g} : guilds_'[h] = guilds_[h]
    BY <1>t, <2>1 DEF TypeOK, Elements
  <2>3. Waiting' = Waiting \ Elements(guilds_[g])
    <3>1. \A h \in Guilds \ {g} : Elements(guilds_'[h]) = Elements(guilds_[h])
      BY <2>2
    <3>2. \A h \in Guilds \ {g} : Elements(guilds_[h]) \cap Elements(guilds_[g]) = {}
      BY DEF PlaceInv, AtHome
    <3>3. ASSUME NEW r \in Waiting' PROVE r \in Waiting \ Elements(guilds_[g])
      <4>1. PICK h \in Guilds : r \in Elements(guilds_'[h])
        BY <3>3 DEF Waiting
      <4>2. h # g
        BY <2>2, <4>1
      <4> QED  BY <3>1, <3>2, <4>1, <4>2 DEF Waiting
    <3>4. ASSUME NEW r \in Waiting \ Elements(guilds_[g]) PROVE r \in Waiting'
      <4>1. PICK h \in Guilds \ {g} : r \in Elements(guilds_[h])
        BY <3>4 DEF Waiting
      <4> QED  BY <3>1, <4>1 DEF Waiting
    <3> QED  BY <3>3, <3>4
  <2>4. Elements(guilds_[g]) \subseteq Waiting
    BY DEF Waiting
  <2>5. Held' = Held /\ Pushed' = Pushed
    BY <2>1 DEF Held, Pushed
  <2>6. AtHome'
    BY <2>2 DEF PlaceInv, AtHome
  <2>7. Registry' /\ ClaimMark'
    BY <2>1, <2>2 DEF PlaceInv, Registry, ClaimMark, Registered
  <2>8. Distinct(guilds_'[g])
    BY <2>2 DEF Distinct
  <2>9. Exclusive'
    BY <2>1, <2>2, <2>3, <2>4, <2>5, <2>8 DEF PlaceInv, Exclusive
  <2>10. Accounted'
    BY <2>1, <2>3, <2>4, <2>5 DEF PlaceInv, Accounted
  <2> QED  BY <2>6, <2>7, <2>9, <2>10 DEF PlaceInv
<1>3. ASSUME NEW w \in Workers, TakeWork(w) PROVE PlaceInv'
  <2>1. PICK k \in 0 .. Turns - 1 :
           /\ guilds_[Visited(k)] # <<>>
           /\ job' = [job EXCEPT ![w] = Head(guilds_[Visited(k)])]
           /\ guilds_' = [guilds_ EXCEPT ![Visited(k)] = PopFront(@)]
    BY <1>3 DEF TakeWork
  <2> DEFINE g == Visited(k)
             r == Head(guilds_[g])
  <2>2. g \in Guilds /\ guilds_[g] \in Seq(Requests)
    <3>1. g \in Guilds
      BY <1>t, TurnInRange
    <3> QED  BY <1>t, <3>1 DEF TypeOK
  <2>3. /\ UNCHANGED <<claimed, dropped, guild_order_>>
        /\ Pushed' = Pushed
        /\ pc[w] = "take"
        /\ pc' = [pc EXCEPT ![w] = "claim"]
    BY <1>3 DEF TakeWork, Go, quiet, history, Pushed
  <2>4. r \in Requests /\ Elements(guilds_[g]) = {r} \cup Elements(PopFront(guilds_[g]))
    BY <2>1, <2>2, ElementsPopFront
  <2>5. Distinct(PopFront(guilds_[g])) /\ r \notin Elements(PopFront(guilds_[g]))
    BY <2>1, <2>2, DistinctPopFront DEF PlaceInv, Exclusive
  <2>6. /\ guilds_'[g] = PopFront(guilds_[g])
        /\ \A h \in Guilds \ {g} : guilds_'[h] = guilds_[h]
    BY <1>t, <2>1, <2>2 DEF TypeOK
  <2>7. r \in Waiting /\ r \notin Held /\ r \notin claimed /\ r \notin dropped
    BY <2>2, <2>4 DEF PlaceInv, Exclusive, Waiting
  <2>8. Waiting' = Waiting \ {r}
    <3>1. GuildOf[r] = g /\ \A h \in Guilds \ {g} : r \notin Elements(guilds_[h])
      BY <2>2, <2>4 DEF PlaceInv, AtHome
    <3>2. Elements(guilds_'[g]) = Elements(guilds_[g]) \ {r}
      BY <2>4, <2>5, <2>6
    <3>3. \A h \in Guilds : Elements(guilds_'[h]) = Elements(guilds_[h]) \ {r}
      BY <3>1, <3>2, <2>6
    <3> HIDE DEF g, r
    <3> QED  BY <3>3 DEF Waiting
  <2>9. job'[w] = r /\ \A v \in Workers \ {w} : job'[v] = job[v]
    BY <1>t, <2>1 DEF TypeOK
  <2>10. job[w] = Nobody
    BY <1>t, <2>3 DEF TypeOK, HoldsJob, Working
  <2>11. Held' = Held \cup {r}
    BY <1>n, <2>4, <2>9, <2>10 DEF Held
  <2>12. AtHome'
    BY <2>2, <2>4, <2>6 DEF PlaceInv, AtHome
  <2>13. Registry'
    BY <2>1, <2>3, <2>6 DEF PlaceInv, Registry, Registered
  <2>14. ClaimMark'
    BY <1>t, <2>3, <2>7, <2>9 DEF PlaceInv, ClaimMark, TypeOK
  <2>15. Exclusive'
    <3>1. \A v \in Workers \ {w} : job[v] # r
      BY <2>4, <2>7, <1>n DEF Held
    <3> QED
      BY <3>1, <2>3, <2>5, <2>6, <2>7, <2>8, <2>9, <2>11 DEF PlaceInv, Exclusive
  <2>16. Accounted'
    BY <2>3, <2>7, <2>8, <2>11 DEF PlaceInv, Accounted
  <2> QED  BY <2>12, <2>13, <2>14, <2>15, <2>16 DEF PlaceInv
<1>4. ASSUME NEW w \in Workers, Claim(w) PROVE PlaceInv'
  <2>1. /\ pc[w] = "claim"
        /\ pc' = [pc EXCEPT ![w] = "next"]
        /\ claimed' = claimed \cup {job[w]}
        /\ UNCHANGED <<guilds_, guild_order_, job, dropped>>
        /\ Pushed' = Pushed
    BY <1>4 DEF Claim, Go, queues, Pushed
  <2>2. job[w] \in Requests /\ job[w] \in Held
    BY <1>t, <1>n, <2>1 DEF HoldsJob, Working, Held
  <2>3. Waiting' = Waiting /\ Held' = Held
    BY <2>1 DEF Waiting, Held
  <2>4. AtHome' /\ Registry'
    BY <2>1 DEF PlaceInv, AtHome, Registry, Registered
  <2>5. \A v \in Workers \ {w} : job[v] # job[w] /\ pc'[v] = pc[v]
    BY <1>t, <1>n, <2>1, <2>2 DEF PlaceInv, Exclusive, TypeOK
  <2>6. ClaimMark'
    BY <1>t, <2>1, <2>5 DEF PlaceInv, ClaimMark, TypeOK
  <2>7. Exclusive' /\ Accounted'
    BY <2>1, <2>2, <2>3 DEF PlaceInv, Exclusive, Accounted
  <2> QED  BY <2>4, <2>6, <2>7 DEF PlaceInv
<1>5. ASSUME NEW w \in Workers, Finish(w) \/ Fail(w) PROVE PlaceInv'
  <2>1. /\ pc[w] \in {"next", "synth", "speak"}
        /\ pc' = [pc EXCEPT ![w] = "loop"]
        /\ job' = [job EXCEPT ![w] = Nobody]
        /\ UNCHANGED <<guilds_, guild_order_, claimed, dropped>>
        /\ Pushed' = Pushed
    BY <1>5 DEF Finish, Fail, Go, queues, quiet, history, Pushed
  <2>2. job[w] \in claimed
    BY <1>t, <2>1 DEF PlaceInv, ClaimMark, HoldsJob, Working
  <2>3. job'[w] = Nobody /\ \A v \in Workers \ {w} : job'[v] = job[v] /\ pc'[v] = pc[v]
    BY <1>t, <2>1 DEF TypeOK
  <2>4. Waiting' = Waiting /\ Held' \subseteq Held /\ Held \subseteq Held' \cup {job[w]}
    BY <2>1, <2>3 DEF Waiting, Held
  <2>5. AtHome' /\ Registry'
    BY <2>1 DEF PlaceInv, AtHome, Registry, Registered
  <2>6. ClaimMark'
    BY <1>n, <2>1, <2>3 DEF PlaceInv, ClaimMark
  <2>7. Exclusive'
    BY <2>1, <2>3, <2>4 DEF PlaceInv, Exclusive
  <2>8. Accounted'
    BY <2>1, <2>2, <2>4 DEF PlaceInv, Accounted
  <2> QED  BY <2>5, <2>6, <2>7, <2>8 DEF PlaceInv
<1>6. ASSUME NEW r \in Requests, Count(r) \/ Notify(r) PROVE PlaceInv'
  <2>1. UNCHANGED <<guilds_, guild_order_, job, claimed, dropped>>
    BY <1>6 DEF Count, Notify, queues, worker, history
  <2>2. Pushed' = Pushed
    BY <1>6, <1>t DEF Count, Notify, Pushed, TypeOK
  <2>3. \A w \in Workers : pc'[w] = "claim" <=> pc[w] = "claim"
    BY <1>6, <1>t DEF Count, Notify, Asleep, worker, TypeOK
  <2> QED  BY <2>1, <2>2, <2>3, PlaceStill
<1>7. CASE StopFlag \/ StopNotify \/ StopJoin \/ UNCHANGED vars
  <2>1. UNCHANGED <<guilds_, guild_order_, job, claimed, dropped, phase>>
    BY <1>7 DEF StopFlag, StopNotify, StopJoin, vars, queues, worker, history
  <2>2. \A w \in Workers : pc'[w] = "claim" <=> pc[w] = "claim"
    BY <1>7, <1>t DEF StopFlag, StopNotify, StopJoin, Asleep, vars, worker, TypeOK
  <2> QED  BY <2>1, <2>2, PlaceStill DEF Pushed
<1>8. ASSUME NEW w \in Workers,
             LoopTest(w) \/ CheckPredicate(w) \/ Block(w) \/ SpuriousWake(w)
             \/ AwakeTest(w) \/ TakeNothing(w) \/ SynthEnd(w)
      PROVE  PlaceInv'
  <2>1. UNCHANGED <<guilds_, guild_order_, job, claimed, dropped, phase>>
    BY <1>8 DEF LoopTest, CheckPredicate, Block, SpuriousWake, AwakeTest, TakeNothing,
                SynthEnd, queues, quiet, history
  <2>2. \A v \in Workers : pc'[v] = "claim" <=> pc[v] = "claim"
    BY <1>8, <1>t DEF LoopTest, CheckPredicate, Block, SpuriousWake, AwakeTest, TakeNothing,
                SynthEnd, Go, TypeOK
  <2> QED  BY <2>1, <2>2, PlaceStill DEF Pushed
<1>9. ASSUME NEW w \in Workers,
             LookupHit(w) \/ LookupMiss(w) \/ Timeout(w) \/ LateEnd(w)
             \/ Encode(w) \/ Speak(w)
      PROVE  PlaceInv'
  <2>1. UNCHANGED <<guilds_, guild_order_, job, claimed, dropped, phase>>
    BY <1>9 DEF LookupHit, LookupMiss, Timeout, LateEnd, Encode, Speak,
                queues, quiet, history
  <2>2. \A v \in Workers : pc'[v] = "claim" <=> pc[v] = "claim"
    BY <1>9, <1>t DEF LookupHit, LookupMiss, Timeout, LateEnd, Encode, Speak,
                Go, TypeOK
  <2> QED  BY <2>1, <2>2, PlaceStill DEF Pushed
<1> QED
  BY <1>1, <1>2, <1>3, <1>4, <1>5, <1>6, <1>7, <1>8, <1>9
  DEF Next, Submitter, Stopper, Worker

LEMMA PlaceInvariant == Spec => []PlaceInv
BY TypeInvariant, PlaceInit, PlaceStep, PTL DEF Spec

(* No request is worked on twice, however submit, clear_guild and          *)
(* take_work interleave.                                                   *)
THEOREM ExclusiveAlways == Spec => []Exclusive
BY PlaceInvariant, PTL DEF PlaceInv

(* No request vanishes between submit and worker_loop.                     *)
THEOREM AccountedAlways == Spec => []Accounted
BY PlaceInvariant, PTL DEF PlaceInv

-----------------------------------------------------------------------------
(* pending_.                                                               *)

LEMMA RequestSets ==
    ASSUME NEW S, S \subseteq Requests
    PROVE  /\ IsFiniteSet(S)
           /\ Cardinality(S) \in Nat
           /\ Cardinality(S) < Word
BY PoolAssumption, FS_Subset, FS_CardinalityType

LEMMA OneMore ==
    ASSUME NEW S, S \subseteq Requests, NEW r \in Requests, r \notin S
    PROVE  Cardinality(S \cup {r}) = Cardinality(S) + 1
BY RequestSets, FS_AddElement

LEMMA LedgerInit == Init => PendingLedger
<1> SUFFICES ASSUME Init PROVE PendingLedger
  OBVIOUS
<1>1. Counted = {} /\ claimed = {} /\ pending_ = 0
  BY DEF Init, Counted
<1> QED  BY <1>1, FS_EmptySet DEF PendingLedger, Residue

LEMMA LedgerStep == TypeInv /\ PlaceInv /\ PendingLedger /\ [Next]_vars => PendingLedger'
<1> SUFFICES ASSUME TypeInv, PlaceInv, PendingLedger, [Next]_vars PROVE PendingLedger'
  OBVIOUS
<1>t. TypeOK /\ HoldsJob
  BY DEF TypeInv
<1>c. Counted \subseteq Requests /\ claimed \subseteq Requests
  BY <1>t DEF Counted, TypeOK
<1>w. Word \in Nat /\ Word > 0
  BY PoolAssumption, FS_CardinalityType
<1> DEFINE n == Cardinality(Counted)
           m == Cardinality(claimed)
<1>m. n \in Nat /\ m \in Nat /\ n < Word /\ m < Word
  BY <1>c, RequestSets
<1>p. pending_ = Residue(n - m)
  BY DEF PendingLedger
<1>1. ASSUME NEW r \in Requests, Count(r) PROVE PendingLedger'
  <2>1. Counted' = Counted \cup {r} /\ r \notin Counted /\ claimed' = claimed
    BY <1>1, <1>t DEF Count, Counted, TypeOK, history
  <2>2. Cardinality(Counted') = n + 1 /\ n + 1 < Word
    BY <2>1, <1>c, OneMore, RequestSets, Counted \cup {r} \subseteq Requests
  <2>3. pending_' = Increment(pending_)
    BY <1>1 DEF Count
  <2> HIDE DEF n, m
  <2>4. Increment(pending_) = Residue(n + 1 - m)
    BY <1>m, <1>p, <1>w, <2>2 DEF Increment, Residue
  <2> QED  BY <2>1, <2>2, <2>3, <2>4, <1>m DEF PendingLedger, m
<1>2. ASSUME NEW w \in Workers, Claim(w) PROVE PendingLedger'
  <2>1. pc[w] = "claim" /\ claimed' = claimed \cup {job[w]} /\ Counted' = Counted
    BY <1>2 DEF Claim, Go, Counted
  <2>2. job[w] \in Requests /\ job[w] \notin claimed
    BY <1>t, <2>1 DEF HoldsJob, Working, PlaceInv, ClaimMark
  <2>3. Cardinality(claimed') = m + 1 /\ m + 1 < Word
    BY <2>1, <2>2, <1>c, OneMore, RequestSets, claimed \cup {job[w]} \subseteq Requests
  <2>4. pending_' = Decrement(pending_)
    BY <1>2 DEF Claim
  <2> HIDE DEF n, m
  <2>5. Decrement(pending_) = Residue(n - (m + 1))
    BY <1>m, <1>p, <1>w, <2>3 DEF Decrement, Residue
  <2> QED  BY <2>1, <2>3, <2>4, <2>5 DEF PendingLedger, Residue, n
<1>3. ASSUME UNCHANGED <<pending_, claimed>>, Counted' = Counted PROVE PendingLedger'
  BY <1>3 DEF PendingLedger, Residue
<1>4. ASSUME NEW r \in Requests, Push(r) \/ Notify(r) PROVE PendingLedger'
  <2>1. UNCHANGED <<pending_, claimed>> /\ Counted' = Counted
    BY <1>4, <1>t DEF Push, Notify, Counted, TypeOK, history
  <2> QED  BY <2>1, <1>3
<1>5. CASE (\E g \in Guilds : Clear(g)) \/ StopFlag \/ StopNotify \/ StopJoin \/ UNCHANGED vars
  <2>1. UNCHANGED <<pending_, claimed, phase>>
    BY <1>5 DEF Clear, StopFlag, StopNotify, StopJoin, history, vars
  <2> QED  BY <2>1, <1>3 DEF Counted
<1>6. ASSUME NEW w \in Workers,
             LoopTest(w) \/ CheckPredicate(w) \/ Block(w) \/ SpuriousWake(w)
             \/ AwakeTest(w) \/ TakeNothing(w) \/ TakeWork(w) \/ SynthEnd(w)
      PROVE  PendingLedger'
  <2>1. UNCHANGED <<pending_, claimed, phase>>
    BY <1>6 DEF LoopTest, CheckPredicate, Block, SpuriousWake, AwakeTest, TakeNothing,
                TakeWork, SynthEnd, quiet, history
  <2> QED  BY <2>1, <1>3 DEF Counted
<1>7. ASSUME NEW w \in Workers,
             LookupHit(w) \/ LookupMiss(w) \/ Timeout(w) \/ LateEnd(w)
             \/ Encode(w) \/ Speak(w) \/ Finish(w) \/ Fail(w)
      PROVE  PendingLedger'
  <2>1. UNCHANGED <<pending_, claimed, phase>>
    BY <1>7 DEF LookupHit, LookupMiss, Timeout, LateEnd, Encode, Speak, Finish, Fail,
                quiet, history
  <2> QED  BY <2>1, <1>3 DEF Counted
<1> QED
  BY <1>1, <1>2, <1>4, <1>5, <1>6, <1>7 DEF Next, Submitter, Stopper, Worker

LEMMA LedgerInvariant == Spec => []PendingLedger
BY TypeInvariant, PlaceInvariant, LedgerInit, LedgerStep, PTL DEF Spec

(* pending_ counts, modulo its word, the requests counted by submit and    *)
(* not yet claimed by worker_loop; clear_guild leaves it too high.         *)
THEOREM LedgerAlways == Spec => []PendingLedger
BY LedgerInvariant

LEMMA LedgerForbidsStranding == TypeInv /\ PlaceInv /\ PendingLedger => NoStranding
<1> SUFFICES ASSUME TypeInv, PlaceInv, PendingLedger, Counted = Pushed, Waiting # {}
             PROVE  pending_ # 0
  BY DEF NoStranding
<1>1. claimed \subseteq Counted /\ Counted \subseteq Requests
  BY DEF PlaceInv, Accounted, Pushed
<1>2. PICK r \in Waiting : TRUE
  OBVIOUS
<1>3. r \in Counted /\ r \notin claimed
  BY <1>2 DEF PlaceInv, Accounted, Exclusive
<1>4. Cardinality(claimed \cup {r}) = Cardinality(claimed) + 1
  BY <1>1, <1>3, OneMore
<1>5. Cardinality(claimed \cup {r}) <= Cardinality(Counted)
  BY <1>1, <1>3, FS_Subset, RequestSets
<1>6. Cardinality(claimed) \in Nat /\ Cardinality(Counted) \in Nat
  BY <1>1, RequestSets
<1> QED  BY <1>4, <1>5, <1>6 DEF PendingLedger, Residue

(* Once every submit has counted its request, no worker evaluates the      *)
(* predicate to false while one waits: the sleep that loses a request can  *)
(* only begin before that, which is the window notify_one leaves open.     *)
THEOREM NoStrandingAlways == Spec => []NoStranding
BY TypeInvariant, PlaceInvariant, LedgerInvariant, LedgerForbidsStranding, PTL

-----------------------------------------------------------------------------
(* take_work.                                                              *)

\* The guild at place i is the one visited after Distance(i) others.
LEMMA DistanceReaches ==
    ASSUME TypeOK, NEW i \in 1 .. Turns
    PROVE  /\ Distance(i) \in 0 .. Turns - 1
           /\ Visited(Distance(i)) = guild_order_[i]
BY DEF TypeOK, Turns, Distance, Slot, Visited

LEMMA MissStep == TypeInv /\ PlaceInv /\ [Next]_vars => (\A w \in Workers : TakeNothing(w) => Waiting = {})
<1> SUFFICES ASSUME TypeInv, PlaceInv, NEW w \in Workers, TakeNothing(w),
                    NEW g \in Guilds, guilds_[g] # <<>>
             PROVE  FALSE
  <2>1. (\A g \in Guilds : guilds_[g] = <<>>) => Waiting = {}
    BY DEF Waiting, Elements
  <2> QED  BY <2>1
<1>1. PICK i \in 1 .. Turns : guild_order_[i] = g
  BY DEF PlaceInv, Registry, Registered, Elements, Turns
<1>2. Distance(i) \in 0 .. Turns - 1 /\ Visited(Distance(i)) = g
  BY <1>1, DistanceReaches DEF TypeInv
<1> QED  BY <1>2 DEF TakeNothing

(* take_work comes back with nothing only when no guild has a request.     *)
THEOREM MissTheorem == Spec => MissMeansEmpty
<1>1. TypeInv /\ PlaceInv /\ [Next]_vars
        => [\A w \in Workers : TakeNothing(w) => Waiting = {}]_vars
  BY MissStep
<1> QED  BY <1>1, TypeInvariant, PlaceInvariant, PTL DEF Spec, MissMeansEmpty

LEMMA RoundRobinStep ==
    ASSUME TypeInv, NEW i \in 1 .. Turns, NEW w \in Workers, TakeWork(w),
           guilds_[guild_order_[i]] # <<>>,
           guilds_'[guild_order_[i]] = guilds_[guild_order_[i]]
    PROVE  Distance(i)' < Distance(i)
<1>t. TypeOK
  BY DEF TypeInv
<1>1. PICK k \in 0 .. Turns - 1 :
         /\ guilds_[Visited(k)] # <<>>
         /\ \A j \in 0 .. k - 1 : guilds_[Visited(j)] = <<>>
         /\ guilds_' = [guilds_ EXCEPT ![Visited(k)] = PopFront(@)]
         /\ rr_index_' = After(k)
  BY DEF TakeWork
<1>2. guild_order_' = guild_order_
  BY DEF TakeWork
<1>3. Visited(k) \in Guilds /\ guilds_[Visited(k)] \in Seq(Requests)
  <2>1. Visited(k) \in Guilds
    BY <1>t, TurnInRange
  <2> QED  BY <1>t, <2>1 DEF TypeOK
<1>4. guilds_'[Visited(k)] # guilds_[Visited(k)]
  <2>1. guilds_'[Visited(k)] = Tail(guilds_[Visited(k)])
    BY <1>t, <1>1, <1>3 DEF TypeOK, PopFront
  <2>2. Len(Tail(guilds_[Visited(k)])) # Len(guilds_[Visited(k)])
    BY <1>1, <1>3
  <2> QED  BY <2>1, <2>2
<1>5. Distance(i) \in 0 .. Turns - 1 /\ Visited(Distance(i)) = guild_order_[i]
  BY <1>t, DistanceReaches
<1>6. Distance(i) > k
  BY <1>1, <1>4, <1>5
<1>7. Distance(i)' = Distance(i) - (k + 1)
  <2>1. Turns \in Nat /\ rr_index_ \in 0 .. Turns - 1
    BY <1>t, <1>1 DEF Turns, TypeOK
  <2>2. Turns' = Turns
    BY <1>2 DEF Turns
  <2>3. rr_index_' = IF rr_index_ + (k + 1) < Turns THEN rr_index_ + (k + 1)
                     ELSE rr_index_ + (k + 1) - Turns
    BY <1>1 DEF After, Slot
  <2>4. Distance(i)' = IF i > rr_index_' THEN i - 1 - rr_index_' ELSE i - 1 - rr_index_' + Turns
    BY <2>2 DEF Distance
  <2>5. k \in Nat /\ i \in Nat /\ 1 <= i /\ i <= Turns /\ k < Turns
    BY <2>1, <1>1
  <2>6. Distance(i) = IF i > rr_index_ THEN i - 1 - rr_index_ ELSE i - 1 - rr_index_ + Turns
    BY DEF Distance
  <2> QED  BY <2>1, <2>3, <2>4, <2>5, <2>6, <1>6
<1> QED  BY <1>5, <1>7

(* A guild with a request waiting comes closer to its turn each time       *)
(* another one is served.                                                  *)
THEOREM RoundRobinTheorem == Spec => RoundRobin
<1>1. TypeInv /\ [Next]_vars =>
        [\A i \in 1 .. Turns :
          (\E w \in Workers : TakeWork(w))
          /\ guilds_[guild_order_[i]] # <<>>
          /\ guilds_'[guild_order_[i]] = guilds_[guild_order_[i]]
             => Distance(i)' < Distance(i)]_vars
  BY RoundRobinStep
<1> QED  BY <1>1, TypeInvariant, PTL DEF Spec, RoundRobin

-----------------------------------------------------------------------------
(* What is spoken.                                                         *)

SpeechInv ==
    /\ \A r \in Requests : r \notin claimed => spoken[r] = <<>>
    /\ \A w \in Workers : pc[w] \in {"next", "synth", "late", "speak"} =>
          \A j \in DOMAIN spoken[job[w]] : spoken[job[w]][j] < pos[w]
    /\ \A w \in Workers : pc[w] \in {"next", "synth", "late", "speak"} => pos[w] >= 1
    /\ \A w \in Workers : pc[w] \in {"synth", "late", "speak"} =>
          pos[w] <= Sentences[job[w]]

LEMMA SpeechInit == Init => SpeechInv
BY DEF Init, SpeechInv

\* A step that leaves every worker's speech where it is.
LEMMA SpeechStill ==
    ASSUME SpeechInv, UNCHANGED <<job, pos, spoken, claimed>>,
           \A w \in Workers :
               \/ pc'[w] = pc[w]
               \/ pc'[w] \notin {"next", "synth", "late", "speak"}
               \/ pc[w] = "synth" /\ pc'[w] \in {"late", "speak"}
               \/ pc[w] = "next" /\ pc'[w] \in {"synth", "speak"} /\ HasSentence(w)
    PROVE  SpeechInv'
BY DEF SpeechInv, HasSentence

LEMMA SpeechStep == TypeInv /\ PlaceInv /\ SpeechInv /\ [Next]_vars => SpeechInv'
<1> SUFFICES ASSUME TypeInv, PlaceInv, SpeechInv, [Next]_vars PROVE SpeechInv'
  OBVIOUS
<1>t. TypeOK /\ HoldsJob
  BY DEF TypeInv
<1>1. ASSUME NEW w \in Workers, Claim(w) PROVE SpeechInv'
  <2>1. /\ pc[w] = "claim"
        /\ pc' = [pc EXCEPT ![w] = "next"]
        /\ pos' = [pos EXCEPT ![w] = 1]
        /\ claimed' = claimed \cup {job[w]}
        /\ UNCHANGED <<job, spoken>>
    BY <1>1 DEF Claim, Go
  <2>2. job[w] \in Requests /\ spoken[job[w]] = <<>>
    BY <1>t, <2>1 DEF HoldsJob, Working, PlaceInv, ClaimMark, SpeechInv
  <2>3. /\ pc'[w] = "next" /\ pos'[w] = 1
        /\ \A v \in Workers \ {w} : pc'[v] = pc[v] /\ pos'[v] = pos[v]
    BY <1>t, <2>1 DEF TypeOK
  <2>4. \A j \in DOMAIN spoken'[job'[w]] : spoken'[job'[w]][j] < pos'[w]
    BY <2>1, <2>2
  <2>5. \A r \in Requests : r \notin claimed' => spoken'[r] = <<>>
    BY <2>1 DEF SpeechInv
  <2>6. \A v \in Workers : pc'[v] \in {"next", "synth", "late", "speak"} =>
           \A j \in DOMAIN spoken'[job'[v]] : spoken'[job'[v]][j] < pos'[v]
    BY <2>1, <2>3, <2>4 DEF SpeechInv
  <2>7. \A v \in Workers : pc'[v] \in {"next", "synth", "late", "speak"} => pos'[v] >= 1
    BY <2>3 DEF SpeechInv
  <2>8. \A v \in Workers : pc'[v] \in {"synth", "late", "speak"} => pos'[v] <= Sentences[job'[v]]
    BY <2>1, <2>3 DEF SpeechInv
  <2> QED  BY <2>5, <2>6, <2>7, <2>8 DEF SpeechInv
<1>2. ASSUME NEW w \in Workers, Speak(w) PROVE SpeechInv'
  <2>1. /\ pc[w] = "speak"
        /\ pc' = [pc EXCEPT ![w] = "next"]
        /\ pos' = [pos EXCEPT ![w] = @ + 1]
        /\ spoken' = [spoken EXCEPT ![job[w]] = Append(@, pos[w])]
        /\ UNCHANGED <<job, claimed>>
    BY <1>2 DEF Speak, Go
  <2>2. job[w] \in Requests /\ job[w] \in claimed
    BY <1>t, <2>1 DEF HoldsJob, Working, PlaceInv, ClaimMark
  <2>3. /\ pc'[w] = "next" /\ pos'[w] = pos[w] + 1 /\ pos[w] \in Nat
        /\ \A v \in Workers \ {w} : pc'[v] = pc[v] /\ pos'[v] = pos[v]
    BY <1>t, <2>1 DEF TypeOK
  <2>4. /\ spoken'[job[w]] = Append(spoken[job[w]], pos[w])
        /\ \A r \in Requests \ {job[w]} : spoken'[r] = spoken[r]
        /\ spoken[job[w]] \in Seq(Nat)
    BY <1>t, <2>1, <2>2 DEF TypeOK
  <2>5. \A v \in Workers \ {w} : pc[v] \in Working => job[v] \in Requests \ {job[w]}
    BY <1>t, <2>2, PoolAssumption DEF HoldsJob, PlaceInv, Exclusive
  <2>6. \A j \in DOMAIN spoken'[job[w]] : spoken'[job[w]][j] < pos'[w]
    <3>1. \A j \in DOMAIN spoken[job[w]] : spoken[job[w]][j] < pos[w]
      BY <2>1 DEF SpeechInv
    <3>2. \A j \in DOMAIN spoken[job[w]] : spoken[job[w]][j] \in Nat
      BY <2>4
    <3> QED  BY <3>1, <3>2, <2>3, <2>4
  <2>7. \A r \in Requests : r \notin claimed' => spoken'[r] = <<>>
    BY <2>1, <2>2, <2>4 DEF SpeechInv
  <2>8. \A v \in Workers : pc'[v] \in {"next", "synth", "late", "speak"} =>
           \A j \in DOMAIN spoken'[job'[v]] : spoken'[job'[v]][j] < pos'[v]
    <3>1. ASSUME NEW v \in Workers \ {w}, pc'[v] \in {"next", "synth", "late", "speak"}
          PROVE  \A j \in DOMAIN spoken'[job'[v]] : spoken'[job'[v]][j] < pos'[v]
      <4>1. job'[v] = job[v] /\ pc[v] \in {"next", "synth", "late", "speak"} /\ pos'[v] = pos[v]
        BY <2>1, <2>3, <3>1
      <4>2. spoken'[job'[v]] = spoken[job[v]]
        BY <4>1, <2>4, <2>5 DEF Working
      <4> QED  BY <4>1, <4>2 DEF SpeechInv
    <3> QED  BY <2>1, <2>6, <3>1
  <2>9. \A v \in Workers : pc'[v] \in {"next", "synth", "late", "speak"} => pos'[v] >= 1
    BY <2>3 DEF SpeechInv
  <2>10. \A v \in Workers : pc'[v] \in {"synth", "late", "speak"} => pos'[v] <= Sentences[job'[v]]
    BY <2>1, <2>3 DEF SpeechInv
  <2> QED  BY <2>7, <2>8, <2>9, <2>10 DEF SpeechInv
<1>3. ASSUME NEW w \in Workers, LateEnd(w) PROVE SpeechInv'
  <2>1. /\ pc[w] = "late"
        /\ pc' = [pc EXCEPT ![w] = "next"]
        /\ pos' = [pos EXCEPT ![w] = @ + 1]
        /\ UNCHANGED <<job, spoken, claimed>>
    BY <1>3 DEF LateEnd, Go, history
  <2>2. /\ pc'[w] = "next" /\ pos'[w] = pos[w] + 1 /\ pos[w] \in Nat
        /\ \A v \in Workers \ {w} : pc'[v] = pc[v] /\ pos'[v] = pos[v]
    BY <1>t, <2>1 DEF TypeOK
  <2>3. job[w] \in Requests
    BY <1>t, <2>1 DEF HoldsJob, Working
  <2>4. \A j \in DOMAIN spoken[job[w]] : spoken[job[w]][j] < pos'[w]
    <3>1. \A j \in DOMAIN spoken[job[w]] : spoken[job[w]][j] \in Nat /\ spoken[job[w]][j] < pos[w]
      BY <1>t, <2>1, <2>3 DEF SpeechInv, TypeOK
    <3> QED  BY <3>1, <2>2
  <2>5. \A v \in Workers : pc'[v] \in {"next", "synth", "late", "speak"} =>
           \A j \in DOMAIN spoken'[job'[v]] : spoken'[job'[v]][j] < pos'[v]
    BY <2>1, <2>2, <2>4 DEF SpeechInv
  <2>6. \A v \in Workers : pc'[v] \in {"next", "synth", "late", "speak"} => pos'[v] >= 1
    BY <2>1, <2>2 DEF SpeechInv
  <2>7. \A v \in Workers : pc'[v] \in {"synth", "late", "speak"} => pos'[v] <= Sentences[job'[v]]
    BY <2>1, <2>2 DEF SpeechInv
  <2>8. \A r \in Requests : r \notin claimed' => spoken'[r] = <<>>
    BY <2>1 DEF SpeechInv
  <2> QED  BY <2>5, <2>6, <2>7, <2>8 DEF SpeechInv
<1>4. ASSUME NEW w \in Workers, Finish(w) \/ Fail(w) \/ TakeWork(w) PROVE SpeechInv'
  <2>1. /\ UNCHANGED <<spoken, claimed>>
        /\ pos' = pos \/ pos' = [pos EXCEPT ![w] = 0]
        /\ \E to \in {"loop", "claim"} : pc' = [pc EXCEPT ![w] = to]
        /\ \E r : job' = [job EXCEPT ![w] = r]
    BY <1>4 DEF Finish, Fail, TakeWork, Go, quiet, history
  <2>2. /\ pc'[w] \in {"loop", "claim"}
        /\ \A v \in Workers \ {w} : pc'[v] = pc[v] /\ job'[v] = job[v] /\ pos'[v] = pos[v]
    BY <1>t, <2>1 DEF TypeOK
  <2> QED  BY <2>1, <2>2 DEF SpeechInv
<1>5. ASSUME NEW w \in Workers, LookupHit(w) \/ LookupMiss(w) \/ Timeout(w) \/ Encode(w)
      PROVE  SpeechInv'
  <2>1. /\ UNCHANGED <<job, pos, spoken, claimed>>
        /\ \/ pc[w] = "synth" /\ \E to \in {"late", "speak"} : pc' = [pc EXCEPT ![w] = to]
           \/ pc[w] = "next" /\ HasSentence(w)
              /\ \E to \in {"synth", "speak"} : pc' = [pc EXCEPT ![w] = to]
    BY <1>5 DEF LookupHit, LookupMiss, Timeout, Encode, Go, history
  <2> QED  BY <1>t, <2>1, SpeechStill DEF TypeOK
<1>6. ASSUME NEW w \in Workers,
             LoopTest(w) \/ CheckPredicate(w) \/ Block(w) \/ SpuriousWake(w)
             \/ AwakeTest(w) \/ TakeNothing(w) \/ SynthEnd(w)
      PROVE  SpeechInv'
  <2>1. UNCHANGED <<job, pos, spoken, claimed>>
    BY <1>6 DEF LoopTest, CheckPredicate, Block, SpuriousWake, AwakeTest, TakeNothing,
                SynthEnd, history
  <2>2. \A v \in Workers : pc'[v] = pc[v] \/ pc'[v] \notin {"next", "synth", "late", "speak"}
    BY <1>6, <1>t DEF LoopTest, CheckPredicate, Block, SpuriousWake, AwakeTest, TakeNothing,
                SynthEnd, Go, TypeOK
  <2> QED  BY <2>1, <2>2, SpeechStill
<1>7. ASSUME NEW r \in Requests, Push(r) \/ Count(r) \/ Notify(r) PROVE SpeechInv'
  <2>1. UNCHANGED <<job, pos, spoken, claimed>>
    BY <1>7 DEF Push, Count, Notify, worker, history
  <2>2. \A v \in Workers : pc'[v] = pc[v] \/ pc'[v] = "wait"
    BY <1>7, <1>t DEF Push, Count, Notify, Asleep, worker, TypeOK
  <2> QED  BY <2>1, <2>2, SpeechStill
<1>8. CASE (\E g \in Guilds : Clear(g)) \/ StopFlag \/ StopNotify \/ StopJoin \/ UNCHANGED vars
  <2>1. UNCHANGED <<job, pos, spoken, claimed>>
    BY <1>8 DEF Clear, StopFlag, StopNotify, StopJoin, worker, history, vars
  <2>2. \A v \in Workers : pc'[v] = pc[v] \/ pc'[v] = "wait"
    BY <1>8, <1>t DEF Clear, StopFlag, StopNotify, StopJoin, Asleep, worker, vars, TypeOK
  <2> QED  BY <2>1, <2>2, SpeechStill
<1> QED
  BY <1>1, <1>2, <1>3, <1>4, <1>5, <1>6, <1>7, <1>8
  DEF Next, Submitter, Stopper, Worker

LEMMA SpeechInvariant == Spec => []SpeechInv
BY TypeInvariant, PlaceInvariant, SpeechInit, SpeechStep, PTL DEF Spec

(* What clear_guild removed is never spoken, even when it races a worker   *)
(* that has just taken the request before it.                              *)
THEOREM ClearedStaySilentAlways == Spec => []ClearedStaySilent
<1>1. TypeInv /\ PlaceInv /\ SpeechInv => ClearedStaySilent
  BY DEF TypeInv, TypeOK, PlaceInv, Exclusive, SpeechInv, ClearedStaySilent
<1> QED  BY <1>1, TypeInvariant, PlaceInvariant, SpeechInvariant, PTL

-----------------------------------------------------------------------------
(* What is lost.                                                           *)

Speaking == {"next", "synth", "late", "speak"}

\* A worker whose request lacks a sentence before the one it is at, or that
\* one.
Behind(w) ==
    /\ pc[w] \in Speaking
    /\ pc[w] = "late" \/ Len(spoken[job[w]]) < pos[w] - 1

\* The requests that are short of a sentence, let go or not.
Lost ==
    {r \in claimed :
        \/ r \notin Held /\ Len(spoken[r]) < Sentences[r]
        \/ \E w \in Workers : job[w] = r /\ Behind(w)}

LossInv == running_ => Cardinality(Lost) <= timeout_count_ + error_count_

\* A step that loses nothing costs nothing.
LEMMA LossStill ==
    ASSUME TypeOK, LossInv, running_' => running_, Lost' \subseteq Lost, UNCHANGED counts
    PROVE  LossInv'
<1>1. Lost \subseteq Requests
  BY DEF Lost, TypeOK
<1>2. Cardinality(Lost') <= Cardinality(Lost) /\ Cardinality(Lost) \in Nat /\ Cardinality(Lost') \in Nat
  BY <1>1, RequestSets, FS_Subset, FS_CardinalityType
<1> QED  BY <1>2 DEF LossInv, counts, TypeOK

\* A step that loses one request counts it.
LEMMA LossOfOne ==
    ASSUME TypeOK, LossInv, running_' => running_,
           NEW r \in Requests, Lost' \subseteq Lost \cup {r},
           timeout_count_' + error_count_' = timeout_count_ + error_count_ + 1
    PROVE  LossInv'
<1>1. Lost \subseteq Requests
  BY DEF Lost, TypeOK
<1> DEFINE n == Cardinality(Lost)
           m == Cardinality(Lost \cup {r})
           k == Cardinality(Lost')
<1>2. n \in Nat /\ m \in Nat /\ m <= n + 1
  <2>1. CASE r \in Lost
    <3>1. Lost \cup {r} = Lost
      BY <2>1
    <3> QED  BY <1>1, <3>1, RequestSets
  <2>2. CASE r \notin Lost
    BY <1>1, <2>2, OneMore, RequestSets
  <2> QED  BY <2>1, <2>2
<1>3. k \in Nat /\ k <= m
  <2>1. Lost \cup {r} \subseteq Requests
    BY <1>1
  <2> QED  BY <2>1, RequestSets, FS_Subset, FS_CardinalityType
<1>4. running_ => n <= timeout_count_ + error_count_
  BY DEF LossInv
<1> HIDE DEF n, m, k
<1>5. running_' => k <= timeout_count_' + error_count_'
  BY <1>2, <1>3, <1>4 DEF TypeOK
<1> QED  BY <1>5 DEF LossInv, k

\* A step that leaves every request with its worker and falls no further
\* behind.
LEMMA LossSame ==
    ASSUME UNCHANGED <<job, spoken, claimed>>,
           \A w \in Workers : Behind(w)' => Behind(w)
    PROVE  Lost' \subseteq Lost
BY DEF Lost, Held

\* A worker lets its request go: the others are where they were.
LEMMA LetGo ==
    ASSUME TypeInv, PlaceInv, NEW w \in Workers, pc[w] \in Speaking,
           pc' = [pc EXCEPT ![w] = "loop"],
           job' = [job EXCEPT ![w] = Nobody],
           pos' = [pos EXCEPT ![w] = 0],
           UNCHANGED <<spoken, claimed>>
    PROVE  /\ job[w] \in Requests
           /\ Lost' \subseteq Lost \cup {job[w]}
           /\ Len(spoken[job[w]]) >= Sentences[job[w]] => Lost' \subseteq Lost
<1>t. TypeOK /\ HoldsJob
  BY DEF TypeInv
<1>1. job[w] \in Requests
  BY <1>t DEF HoldsJob, Working, Speaking
<1>2. /\ pc'[w] = "loop"
      /\ \A v \in Workers \ {w} : pc'[v] = pc[v] /\ job'[v] = job[v] /\ pos'[v] = pos[v]
  BY <1>t DEF TypeOK
<1>3. \A r : r \in Held /\ r # job[w] => r \in Held'
  BY <1>2 DEF Held
<1>4. \A v \in Workers : Behind(v)' => v # w /\ Behind(v) /\ job'[v] = job[v]
  BY <1>2 DEF Behind, Speaking
<1>5. ASSUME NEW r \in Lost'
      PROVE  r \in Lost \/ (r = job[w] /\ Len(spoken[r]) < Sentences[r])
  <2>1. CASE r \notin Held' /\ Len(spoken[r]) < Sentences[r]
    BY <1>3, <1>5, <2>1 DEF Lost
  <2>2. CASE \E v \in Workers : job'[v] = r /\ Behind(v)'
    BY <1>4, <1>5, <2>2 DEF Lost
  <2> QED  BY <1>5, <2>1, <2>2 DEF Lost
<1>6. Len(spoken[job[w]]) \in Nat /\ Sentences[job[w]] \in Nat
  BY <1>t, <1>1, PoolAssumption DEF TypeOK
<1>7. Lost' \subseteq Lost \cup {job[w]}
  BY <1>5
<1>8. Len(spoken[job[w]]) >= Sentences[job[w]] => Lost' \subseteq Lost
  BY <1>5, <1>6
<1> QED  BY <1>1, <1>7, <1>8

LEMMA LossInit == Init => LossInv
<1> SUFFICES ASSUME Init PROVE LossInv
  OBVIOUS
<1>1. Lost = {} /\ timeout_count_ = 0 /\ error_count_ = 0
  BY DEF Init, Lost
<1> QED  BY <1>1, FS_EmptySet DEF LossInv

LEMMA LossStep == TypeInv /\ PlaceInv /\ SpeechInv /\ LossInv /\ [Next]_vars => LossInv'
<1> SUFFICES ASSUME TypeInv, PlaceInv, SpeechInv, LossInv, [Next]_vars PROVE LossInv'
  OBVIOUS
<1>t. TypeOK /\ HoldsJob
  BY DEF TypeInv
<1>1. ASSUME NEW w \in Workers, TakeWork(w) PROVE LossInv'
  <2>1. /\ pc[w] = "take"
        /\ pc' = [pc EXCEPT ![w] = "claim"]
        /\ UNCHANGED <<running_, counts, pos, spoken, claimed>>
        /\ \E r : job' = [job EXCEPT ![w] = r]
    BY <1>1 DEF TakeWork, Go, quiet, history
  <2>2. /\ pc'[w] = "claim"
        /\ \A v \in Workers \ {w} : pc'[v] = pc[v] /\ job'[v] = job[v]
    BY <1>t, <2>1 DEF TypeOK
  <2>3. job[w] \notin Requests
    BY <1>t, <2>1 DEF HoldsJob, Working
  <2>4. \A r \in Requests : r \in Held => r \in Held'
    BY <2>2, <2>3 DEF Held
  <2>5. \A v \in Workers : Behind(v)' => Behind(v) /\ job'[v] = job[v]
    BY <2>1, <2>2 DEF Behind, Speaking
  <2>6. Lost' \subseteq Lost
    BY <1>t, <2>1, <2>4, <2>5 DEF Lost, TypeOK
  <2> QED  BY <1>t, <2>1, <2>6, LossStill
<1>2. ASSUME NEW w \in Workers, Claim(w) PROVE LossInv'
  <2>1. /\ pc[w] = "claim"
        /\ pc' = [pc EXCEPT ![w] = "next"]
        /\ pos' = [pos EXCEPT ![w] = 1]
        /\ claimed' = claimed \cup {job[w]}
        /\ UNCHANGED <<running_, counts, job, spoken>>
    BY <1>2 DEF Claim, Go
  <2>2. job[w] \in Requests /\ job[w] \in Held /\ spoken[job[w]] = <<>>
    BY <1>t, <2>1, PoolAssumption
    DEF HoldsJob, Working, PlaceInv, ClaimMark, SpeechInv, Held
  <2>3. /\ pc'[w] = "next" /\ pos'[w] = 1
        /\ \A v \in Workers \ {w} : pc'[v] = pc[v] /\ pos'[v] = pos[v]
    BY <1>t, <2>1 DEF TypeOK
  <2>4. ~Behind(w)'
    BY <2>1, <2>2, <2>3 DEF Behind
  <2>5. \A v \in Workers : Behind(v)' => v # w /\ Behind(v)
    BY <2>1, <2>3, <2>4 DEF Behind
  <2>6. Held' = Held
    BY <2>1 DEF Held
  <2>7. \A v \in Workers : v # w => job[v] # job[w]
    BY <2>2, PoolAssumption DEF PlaceInv, Exclusive
  <2>8. Lost' \subseteq Lost
    BY <2>1, <2>2, <2>5, <2>6, <2>7 DEF Lost
  <2> QED  BY <1>t, <2>1, <2>8, LossStill
<1>3. ASSUME NEW w \in Workers, Speak(w) PROVE LossInv'
  <2>1. /\ pc[w] = "speak"
        /\ pc' = [pc EXCEPT ![w] = "next"]
        /\ pos' = [pos EXCEPT ![w] = @ + 1]
        /\ spoken' = [spoken EXCEPT ![job[w]] = Append(@, pos[w])]
        /\ UNCHANGED <<running_, counts, job, claimed>>
    BY <1>3 DEF Speak, Go, quiet
  <2>2. job[w] \in Requests /\ job[w] \in Held
    BY <1>t, <2>1, PoolAssumption DEF HoldsJob, Working, Held
  <2>3. /\ pc'[w] = "next" /\ pos'[w] = pos[w] + 1 /\ pos[w] \in Nat
        /\ \A v \in Workers \ {w} : pc'[v] = pc[v] /\ pos'[v] = pos[v]
    BY <1>t, <2>1 DEF TypeOK
  <2>4. /\ spoken'[job[w]] = Append(spoken[job[w]], pos[w])
        /\ \A r : r # job[w] => spoken'[r] = spoken[r]
        /\ spoken[job[w]] \in Seq(Nat)
    <3>1. spoken \in [Requests -> Seq(Nat)]
      BY <1>t DEF TypeOK
    <3> QED  BY <2>1, <2>2, <3>1
  <2>5. Len(spoken'[job[w]]) = Len(spoken[job[w]]) + 1 /\ Len(spoken[job[w]]) \in Nat
    BY <2>3, <2>4
  <2>6. Behind(w)' => Behind(w)
    BY <2>1, <2>3, <2>5 DEF Behind, Speaking
  <2>7. \A v \in Workers : v # w => job[v] # job[w]
    BY <2>2, PoolAssumption DEF PlaceInv, Exclusive
  <2>8. \A v \in Workers : Behind(v)' => Behind(v)
    BY <2>1, <2>3, <2>4, <2>6, <2>7 DEF Behind
  <2>9. Held' = Held
    BY <2>1 DEF Held
  <2>10. Lost' \subseteq Lost
    BY <2>1, <2>2, <2>4, <2>8, <2>9 DEF Lost
  <2> QED  BY <1>t, <2>1, <2>10, LossStill
<1>4. ASSUME NEW w \in Workers, Finish(w) PROVE LossInv'
  <2>1. /\ pc[w] = "next"
        /\ pc' = [pc EXCEPT ![w] = "loop"]
        /\ job' = [job EXCEPT ![w] = Nobody]
        /\ pos' = [pos EXCEPT ![w] = 0]
        /\ pos[w] > Sentences[job[w]] \/ ~running_
        /\ UNCHANGED <<running_, counts, spoken, claimed>>
    BY <1>4 DEF Finish, Go, quiet, history
  <2>2. CASE ~running_
    BY <2>1, <2>2 DEF LossInv
  <2>3. CASE pos[w] > Sentences[job[w]] /\ Behind(w)
    <3>1. job[w] \in Requests /\ Lost' \subseteq Lost \cup {job[w]}
      BY <2>1, LetGo DEF Speaking
    <3>2. job[w] \in claimed
      BY <2>1, <3>1 DEF PlaceInv, ClaimMark
    <3>3. job[w] \in Lost
      BY <2>3, <3>2 DEF Lost
    <3> QED  BY <1>t, <2>1, <3>1, <3>3, LossStill
  <2>4. CASE pos[w] > Sentences[job[w]] /\ ~Behind(w)
    <3>1. job[w] \in Requests
      BY <2>1, LetGo DEF Speaking
    <3>2. /\ Len(spoken[job[w]]) \in Nat /\ Sentences[job[w]] \in Nat /\ pos[w] \in Nat
          /\ ~(Len(spoken[job[w]]) < pos[w] - 1)
      BY <1>t, <2>1, <2>4, <3>1, PoolAssumption DEF TypeOK, Behind, Speaking
    <3>3. Len(spoken[job[w]]) >= Sentences[job[w]]
      BY <2>4, <3>2
    <3>4. Lost' \subseteq Lost
      BY <2>1, <3>3, LetGo DEF Speaking
    <3> QED  BY <1>t, <2>1, <3>4, LossStill
  <2> QED  BY <2>1, <2>2, <2>3, <2>4
<1>5. ASSUME NEW w \in Workers, Fail(w) PROVE LossInv'
  <2>1. /\ pc[w] \in Speaking
        /\ pc' = [pc EXCEPT ![w] = "loop"]
        /\ job' = [job EXCEPT ![w] = Nobody]
        /\ pos' = [pos EXCEPT ![w] = 0]
        /\ error_count_' = error_count_ + 1
        /\ UNCHANGED <<running_, timeout_count_, spoken, claimed>>
    BY <1>5 DEF Fail, history, Speaking
  <2>2. job[w] \in Requests /\ Lost' \subseteq Lost \cup {job[w]}
    BY <2>1, LetGo
  <2>3. timeout_count_' + error_count_' = timeout_count_ + error_count_ + 1
    BY <1>t, <2>1 DEF TypeOK
  <2> QED  BY <1>t, <2>1, <2>2, <2>3, LossOfOne
<1>6. ASSUME NEW w \in Workers, Timeout(w) PROVE LossInv'
  <2>1. /\ pc[w] = "synth"
        /\ pc' = [pc EXCEPT ![w] = "late"]
        /\ timeout_count_' = timeout_count_ + 1
        /\ UNCHANGED <<running_, error_count_, job, pos, spoken, claimed>>
    BY <1>6 DEF Timeout, Go, history
  <2>2. \A v \in Workers \ {w} : pc'[v] = pc[v]
    BY <1>t, <2>1 DEF TypeOK
  <2>3. \A v \in Workers : Behind(v)' => v = w \/ Behind(v)
    BY <2>1, <2>2 DEF Behind
  <2>4. Lost' \subseteq Lost \cup {job[w]}
    BY <2>1, <2>3 DEF Lost, Held
  <2>5. job[w] \in Requests
    BY <1>t, <2>1 DEF HoldsJob, Working
  <2>6. timeout_count_' + error_count_' = timeout_count_ + error_count_ + 1
    BY <1>t, <2>1 DEF TypeOK
  <2> QED  BY <1>t, <2>1, <2>4, <2>5, <2>6, LossOfOne
<1>7. ASSUME NEW w \in Workers, LateEnd(w) PROVE LossInv'
  <2>1. /\ pc[w] = "late"
        /\ pc' = [pc EXCEPT ![w] = "next"]
        /\ pos' = [pos EXCEPT ![w] = @ + 1]
        /\ UNCHANGED <<running_, counts, job, spoken, claimed>>
    BY <1>7 DEF LateEnd, Go, quiet, history
  <2>2. \A v \in Workers \ {w} : pc'[v] = pc[v] /\ pos'[v] = pos[v]
    BY <1>t, <2>1 DEF TypeOK
  <2>3. \A v \in Workers : Behind(v)' => Behind(v)
    BY <2>1, <2>2 DEF Behind, Speaking
  <2> QED  BY <1>t, <2>1, <2>3, LossSame, LossStill
<1>8. ASSUME NEW w \in Workers, LookupHit(w) \/ LookupMiss(w) \/ Encode(w) PROVE LossInv'
  <2>1. /\ pc[w] \in {"next", "synth"}
        /\ \E to \in {"speak", "synth"} : pc' = [pc EXCEPT ![w] = to]
        /\ UNCHANGED <<running_, counts, job, pos, spoken, claimed>>
    BY <1>8 DEF LookupHit, LookupMiss, Encode, Go, quiet, history
  <2>2. \A v \in Workers : pc'[v] = pc[v] \/ (v = w /\ pc'[v] \in {"speak", "synth"})
    BY <1>t, <2>1 DEF TypeOK
  <2>3. \A v \in Workers : Behind(v)' => Behind(v)
    BY <2>1, <2>2 DEF Behind, Speaking
  <2> QED  BY <1>t, <2>1, <2>3, LossSame, LossStill
<1>9. ASSUME NEW w \in Workers,
             LoopTest(w) \/ CheckPredicate(w) \/ Block(w) \/ SpuriousWake(w)
             \/ AwakeTest(w) \/ TakeNothing(w) \/ SynthEnd(w)
      PROVE  LossInv'
  <2>1. UNCHANGED <<running_, counts, job, pos, spoken, claimed>>
    BY <1>9 DEF LoopTest, CheckPredicate, Block, SpuriousWake, AwakeTest, TakeNothing,
                SynthEnd, quiet, history
  <2>2. \A v \in Workers : pc'[v] = pc[v] \/ pc'[v] \notin Speaking
    BY <1>9, <1>t DEF LoopTest, CheckPredicate, Block, SpuriousWake, AwakeTest, TakeNothing,
                SynthEnd, Go, TypeOK, Speaking
  <2>3. \A v \in Workers : Behind(v)' => Behind(v)
    BY <2>1, <2>2 DEF Behind
  <2> QED  BY <1>t, <2>1, <2>3, LossSame, LossStill
<1>10. ASSUME (\E r \in Requests : Push(r) \/ Count(r) \/ Notify(r))
              \/ (\E g \in Guilds : Clear(g))
              \/ StopFlag \/ StopNotify \/ StopJoin \/ UNCHANGED vars
       PROVE  LossInv'
  <2>1. UNCHANGED <<counts, job, pos, spoken, claimed>> /\ (running_' => running_)
    BY <1>10 DEF Push, Count, Notify, Clear, StopFlag, StopNotify, StopJoin, worker,
                 history, vars
  <2>2. \A v \in Workers : pc'[v] = pc[v] \/ pc'[v] = "wait"
    BY <1>10, <1>t DEF Push, Count, Notify, Clear, StopFlag, StopNotify, StopJoin, Asleep,
                 worker, vars, TypeOK
  <2>3. \A v \in Workers : Behind(v)' => Behind(v)
    BY <2>1, <2>2 DEF Behind, Speaking
  <2> QED  BY <1>t, <2>1, <2>3, LossSame, LossStill
<1> QED
  BY <1>1, <1>2, <1>3, <1>4, <1>5, <1>6, <1>7, <1>8, <1>9, <1>10
  DEF Next, Submitter, Stopper, Worker

LEMMA LossBounds == TypeInv /\ LossInv => LossIsCounted
<1> SUFFICES ASSUME TypeInv, LossInv, running_ PROVE LossIsCounted
  BY DEF LossIsCounted
<1> DEFINE Short == {r \in claimed \ Held : Len(spoken[r]) < Sentences[r]}
<1>1. Short \subseteq Lost /\ Lost \subseteq Requests
  BY DEF Lost, TypeInv, TypeOK
<1>2. /\ Cardinality(Short) <= Cardinality(Lost)
      /\ Cardinality(Short) \in Nat /\ Cardinality(Lost) \in Nat
  BY <1>1, RequestSets, FS_Subset, FS_CardinalityType
<1>3. Cardinality(Lost) <= timeout_count_ + error_count_
  BY DEF LossInv
<1> HIDE DEF Short
<1>4. Cardinality(Short) <= timeout_count_ + error_count_
  BY <1>2, <1>3 DEF TypeInv, TypeOK
<1> QED  BY <1>4 DEF LossIsCounted, Short

(* While the pool runs, whatever hits, timeouts and failures come in what  *)
(* order, there are no more requests cut short than worker_loop counted    *)
(* timeouts and errors.                                                    *)
THEOREM LossIsCountedAlways == Spec => []LossIsCounted
BY TypeInvariant, PlaceInvariant, SpeechInvariant, LossInit, LossStep, LossBounds, PTL
DEF Spec

-----------------------------------------------------------------------------
(* The pool implements SpeechQueue.                                        *)

LEMMA RefinementInit == Init => Speech!Init
BY DEF Init, Speech!Init, Pushed

LEMMA RefinementStep ==
    TypeInv /\ PlaceInv /\ SpeechInv /\ [Next]_vars => [Speech!Next]_(Speech!vars)
<1> SUFFICES ASSUME TypeInv, PlaceInv, SpeechInv, [Next]_vars
             PROVE  Speech!Next \/ UNCHANGED Speech!vars
  OBVIOUS
<1>t. TypeOK /\ HoldsJob
  BY DEF TypeInv
<1>n. Nobody \notin Requests
  BY PoolAssumption
<1>1. ASSUME NEW r \in Requests, Push(r) PROVE Speech!Accept(r)
  BY <1>1, <1>t DEF Push, PushBack, Pushed, TypeOK, Speech!Accept, worker, history
<1>2. ASSUME NEW g \in Guilds, Clear(g) PROVE Speech!Clear(g)
  BY <1>2 DEF Clear, Pushed, Speech!Clear, worker
<1>3. ASSUME NEW w \in Workers, TakeWork(w) PROVE \E g \in Guilds : Speech!Start(w, g)
  <2>1. PICK k \in 0 .. Turns - 1 :
           /\ guilds_[Visited(k)] # <<>>
           /\ job' = [job EXCEPT ![w] = Head(guilds_[Visited(k)])]
           /\ guilds_' = [guilds_ EXCEPT ![Visited(k)] = Tail(@)]
    BY <1>3 DEF TakeWork, PopFront
  <2>2. Visited(k) \in Guilds
    BY <1>t, <2>1, TurnInRange
  <2>3. pc[w] = "take" /\ UNCHANGED <<Pushed, spoken>>
    BY <1>3 DEF TakeWork, Go, quiet, history, Pushed
  <2>4. job[w] = Nobody
    BY <1>t, <2>3 DEF TypeOK, HoldsJob, Working
  <2> QED  BY <2>1, <2>2, <2>3, <2>4 DEF Speech!Start
<1>4. ASSUME NEW w \in Workers, Speak(w) PROVE Speech!Speak(w)
  <2>1. /\ pc[w] = "speak"
        /\ spoken' = [spoken EXCEPT ![job[w]] = Append(@, pos[w])]
        /\ UNCHANGED <<Pushed, guilds_, job>>
    BY <1>4 DEF Speak, Go, quiet, queues, Pushed
  <2>2. job[w] \in Requests
    BY <1>t, <2>1 DEF HoldsJob, Working
  <2>3. pos[w] \in 1 .. Sentences[job[w]]
    BY <1>t, <2>1, <2>2, PoolAssumption DEF SpeechInv, TypeOK
  <2>4. \A j \in DOMAIN spoken[job[w]] : spoken[job[w]][j] < pos[w]
    BY <2>1 DEF SpeechInv
  <2> QED  BY <1>n, <2>1, <2>2, <2>3, <2>4 DEF Speech!Speak
<1>5. ASSUME NEW w \in Workers, Finish(w) \/ Fail(w) PROVE Speech!Finish(w)
  <2>1. /\ pc[w] \in {"next", "synth", "speak"}
        /\ job' = [job EXCEPT ![w] = Nobody]
        /\ UNCHANGED <<Pushed, guilds_, spoken>>
    BY <1>5 DEF Finish, Fail, Go, quiet, queues, history, Pushed
  <2>2. job[w] \in Requests
    BY <1>t, <2>1 DEF HoldsJob, Working
  <2> QED  BY <1>n, <2>1, <2>2 DEF Speech!Finish
<1>6. ASSUME NEW r \in Requests, Count(r) \/ Notify(r) PROVE UNCHANGED Speech!vars
  BY <1>6, <1>t DEF Count, Notify, Pushed, TypeOK, Speech!vars, queues, worker, history
<1>7. CASE StopFlag \/ StopNotify \/ StopJoin \/ UNCHANGED vars
  BY <1>7 DEF StopFlag, StopNotify, StopJoin, vars, Pushed, Speech!vars, queues, worker, history
<1>8. ASSUME NEW w \in Workers,
             LoopTest(w) \/ CheckPredicate(w) \/ Block(w) \/ SpuriousWake(w)
             \/ AwakeTest(w) \/ TakeNothing(w) \/ Claim(w) \/ SynthEnd(w)
      PROVE  UNCHANGED Speech!vars
  BY <1>8 DEF LoopTest, CheckPredicate, Block, SpuriousWake, AwakeTest, TakeNothing, Claim,
              SynthEnd, Pushed, Speech!vars, queues, quiet, history
<1>9. ASSUME NEW w \in Workers,
             LookupHit(w) \/ LookupMiss(w) \/ Timeout(w) \/ LateEnd(w) \/ Encode(w)
      PROVE  UNCHANGED Speech!vars
  BY <1>9 DEF LookupHit, LookupMiss, Timeout, LateEnd, Encode,
              Pushed, Speech!vars, queues, quiet, history
<1> QED
  BY <1>1, <1>2, <1>3, <1>4, <1>5, <1>6, <1>7, <1>8, <1>9
  DEF Next, Submitter, Stopper, Worker, Speech!Next

(* The pool implements the queue it promises to be: whatever the threads   *)
(* do, a guild's requests are started oldest first, each at most once, and *)
(* spoken in the order of their sentences.                                 *)
THEOREM PoolImplementsQueue == Spec => SpeechSpec
BY RefinementInit, RefinementStep, TypeInvariant, PlaceInvariant, SpeechInvariant, PTL
DEF Spec, SpeechSpec, Speech!Spec

-----------------------------------------------------------------------------
(* The end.                                                                *)

StopInv == stopper = "stopped" => \A w \in Workers : pc[w] = "exited"

\* No thread of the pool moves once all workers have exited.
LEMMA ExitedStay ==
    ASSUME TypeInv, [Next]_vars, \A w \in Workers : pc[w] = "exited"
    PROVE  UNCHANGED <<spoken, rr_index_, worker, counts>>
<1>t. TypeOK /\ HoldsJob
  BY DEF TypeInv
<1>1. Asleep = {} /\ \A w \in Workers : synth[w] # "running"
  BY <1>t DEF Asleep, HoldsJob
<1>2. ASSUME NEW w \in Workers PROVE ~(Worker(w) \/ SpuriousWake(w) \/ SynthEnd(w))
  BY <1>1 DEF Worker, SpuriousWake, SynthEnd, LoopTest, CheckPredicate, Block, AwakeTest,
     TakeWork, TakeNothing, Claim, Finish, LookupHit, LookupMiss, Timeout, LateEnd,
     Encode, Speak, Fail, Go
<1>3. ASSUME NEW r \in Requests, Push(r) \/ Count(r) \/ Notify(r)
      PROVE  UNCHANGED <<spoken, rr_index_, worker, counts>>
  BY <1>1, <1>3 DEF Push, Count, Notify, worker, queues, history
<1>4. ASSUME StopNotify PROVE UNCHANGED <<spoken, rr_index_, worker, counts>>
  <2>1. pc' = [w \in Workers |-> pc[w]]
    BY <1>1, <1>4 DEF StopNotify
  <2>2. pc' = pc
    BY <2>1, <1>t DEF TypeOK
  <2> QED  BY <1>4, <2>2 DEF StopNotify, worker, queues, history
<1>5. ASSUME (\E g \in Guilds : Clear(g)) \/ StopFlag \/ StopJoin \/ UNCHANGED vars
      PROVE  UNCHANGED <<spoken, rr_index_, worker, counts>>
  BY <1>5 DEF Clear, StopFlag, StopJoin, vars, queues, history
<1> QED  BY <1>2, <1>3, <1>4, <1>5 DEF Next, Submitter, Stopper

LEMMA StopInvariant == Spec => []StopInv
<1>1. Init => StopInv
  BY DEF Init, StopInv
<1>2. TypeInv /\ StopInv /\ [Next]_vars => StopInv'
  <2> SUFFICES ASSUME TypeInv, StopInv, [Next]_vars, stopper' = "stopped"
               PROVE  \A w \in Workers : pc'[w] = "exited"
    BY DEF StopInv
  <2>1. StopJoin \/ stopper = "stopped"
    BY DEF Next, Submitter, Worker, Stopper, StopFlag, StopNotify, Push, Count, Notify, Clear,
       LoopTest, CheckPredicate, Block, AwakeTest, SpuriousWake, SynthEnd,
       TakeWork, TakeNothing, Claim, Finish, LookupHit, LookupMiss, Timeout, LateEnd,
       Encode, Speak, Fail, quiet, vars
  <2>2. \A w \in Workers : pc[w] = "exited"
    BY <2>1 DEF StopJoin, StopInv
  <2>3. pc' = pc
    BY <2>2, ExitedStay DEF worker
  <2> QED  BY <2>2, <2>3
<1> QED  BY <1>1, <1>2, TypeInvariant, PTL DEF Spec

(* Once stop has returned no thread of the pool takes, speaks or counts    *)
(* anything: what main.cpp destroys next is out of use.                    *)
THEOREM SilentAfterStopTheorem == Spec => SilentAfterStop
<1>1. TypeInv /\ StopInv /\ [Next]_vars =>
         [stopper = "stopped" => UNCHANGED <<spoken, rr_index_, worker, counts>>]_vars
  BY ExitedStay DEF StopInv
<1> QED  BY <1>1, TypeInvariant, StopInvariant, PTL DEF Spec, SilentAfterStop

=============================================================================
