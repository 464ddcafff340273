---------------------------- MODULE ShutdownProofs ----------------------------
(***************************************************************************)
(* Proofs about CacheWarmer and about Shutdown, for any number of phrases, *)
(* words, workers, sentences, buckets and clients.                         *)
(*                                                                         *)
(* CacheWarmer first: everything rests on one fact, that once thread_ was  *)
(* started it is not joinable only if the phrase thread has ended, whoever *)
(* joined it (IInv).                                                       *)
(*                                                                         *)
(* The process runs the warm-up as CacheWarmer specifies it, so what is    *)
(* proved of CacheWarmer holds here.  That no destroyed local is used then *)
(* rests on Stages: what has been destroyed, and which threads are over,   *)
(* at each point of main's way out.  That the counters agree, and that the *)
(* pages a client gets do, rests on Counting: every step of a worker moves *)
(* one worker between two labels and raises at most one counter.           *)
(***************************************************************************)
EXTENDS Shutdown, Inductions

(* Who has passed a join of thread_, and what that tells.                  *)
Joined ==
    /\ main = "start" => ~joinable /\ phrase = "unborn" /\ dict = "unborn"
    /\ main = "start_dict" => dict = "unborn"
    /\ main # "start" /\ ~joinable => phrase = "ended"
    /\ dict \in {"check", "warm", "ended"} => main # "start" /\ ~joinable
    /\ main \in {"join_dict", "stopped"} => ~joinable
    /\ main = "stopped" => dict = "ended"
    /\ main \in {"start", "start_dict", "serving"} /\ aborted => dict = "join"

(* How far the two loops are.                                              *)
Loops ==
    /\ phrase = "warm" => phrases < Phrases
    /\ phrase = "ended" => phrases = Phrases \/ ~running_
    /\ dict = "warm" => words < Words

IInv == TypeOK /\ Joined /\ Loops

LEMMA InitIInv == Init => IInv
  <1> SUFFICES ASSUME Init PROVE IInv
    OBVIOUS
  <1>1. TypeOK
    <2>1. 0 \in 0 .. Phrases /\ 0 \in 0 .. Words
      BY WarmerAssumption
    <2> QED BY <2>1 DEF Init, TypeOK
  <1>2. Joined
    BY DEF Init, Joined
  <1>3. Loops
    BY DEF Init, Loops
  <1> QED BY <1>1, <1>2, <1>3 DEF IInv

LEMMA Inductive == IInv /\ [Next]_vars => IInv'
  <1> SUFFICES ASSUME IInv, [Next]_vars PROVE IInv'
    OBVIOUS
  <1> USE WarmerAssumption DEF IInv, TypeOK, Joined, Loops
  <1>1. CASE Start
    BY <1>1 DEF Start
  <1>2. CASE StartDict
    BY <1>2 DEF StartDict
  <1>3. CASE StopBegins
    BY <1>3 DEF StopBegins
  <1>4. CASE StopTests
    BY <1>4 DEF StopTests
  <1>5. CASE StopJoins
    BY <1>5 DEF StopJoins
  <1>6. CASE StopThrows
    BY <1>6 DEF StopThrows
  <1>7. CASE StopJoined
    BY <1>7 DEF StopJoined
  <1>8. CASE StopJoinsDict
    BY <1>8 DEF StopJoinsDict
  <1>9. CASE PhraseTest
    BY <1>9 DEF PhraseTest
  <1>10. CASE PhraseWarm
    BY <1>10 DEF PhraseWarm
  <1>11. CASE DictTests
    BY <1>11 DEF DictTests
  <1>12. CASE ~aborted /\ DictJoins
    BY <1>12 DEF DictJoins
  <1>13. CASE DictThrows
    BY <1>13 DEF DictThrows
  <1>14. CASE DictJoined
    BY <1>14 DEF DictJoined
  <1>15. CASE DictCheck
    BY <1>15 DEF DictCheck
  <1>16. CASE DictWarm
    BY <1>16 DEF DictWarm
  <1>17. CASE UNCHANGED vars
    BY <1>17 DEF vars
  <1> QED
    BY <1>1, <1>2, <1>3, <1>4, <1>5, <1>6, <1>7, <1>8, <1>9, <1>10, <1>11, <1>12,
       <1>13, <1>14, <1>15, <1>16, <1>17 DEF Next, Main, PhraseThread, DictThread

THEOREM Invariance == Spec => []IInv
  BY InitIInv, Inductive, PTL DEF Spec

(* Both loops stay within what there is to warm, and every thread and the  *)
(* thread object are where the code can put them.                          *)
THEOREM WarmerTypeCorrect == Spec => []TypeOK
  BY Invariance, PTL DEF IInv

(* run_dict warms a word only once the phrase thread is over, however it   *)
(* came to be over.                                                        *)
THEOREM DictAfterPhrasesAlways == Spec => []DictAfterPhrases
  <1>1. IInv => DictAfterPhrases
    BY DEF IInv, TypeOK, Joined, Loops, DictAfterPhrases
  <1> QED BY <1>1, Invariance, PTL

(* When stop has returned, by whichever path, neither thread runs any more *)
(* and main may destroy the engine and the cache.                          *)
THEOREM QuietWhenStoppedAlways == Spec => []QuietWhenStopped
  <1>1. IInv => QuietWhenStopped
    BY DEF IInv, TypeOK, Joined, QuietWhenStopped
  <1> QED BY <1>1, Invariance, PTL

(* Once the dictionary thread has joined the phrase thread, stop finds     *)
(* nothing to join but the dictionary thread.                              *)
Late ==
    /\ dict \in {"check", "warm", "ended"}
    /\ main \in {"serving", "test_joinable", "join_dict", "stopped"}
    /\ ~joinable
    /\ ~aborted

LEMMA LateStays == Late /\ [Next]_vars => Late'
  <1> SUFFICES ASSUME Late, [Next]_vars PROVE Late'
    OBVIOUS
  <1> USE DEF Late
  <1>1. CASE Main \/ StopBegins
    BY <1>1 DEF Main, StopBegins, Start, StartDict, StopTests, StopJoins, StopThrows,
                StopJoined, StopJoinsDict, CanJoin
  <1>2. CASE PhraseThread \/ DictThread
    BY <1>2 DEF PhraseThread, DictThread, PhraseTest, PhraseWarm, DictTests, DictJoins,
                DictThrows, DictJoined, DictCheck, DictWarm
  <1>3. CASE UNCHANGED vars
    BY <1>3 DEF vars
  <1> QED BY <1>1, <1>2, <1>3 DEF Next

(* The bot does not abort when it is told to stop after the phrases were   *)
(* warmed.                                                                 *)
THEOREM LateStopTheorem == Spec => LateStopIsClean
  <1>1. IInv /\ (main = "serving" /\ dict \in {"check", "warm", "ended"}) => Late
    BY DEF IInv, Joined, Late
  <1>2. Late => ~aborted
    BY DEF Late
  <1> QED BY <1>1, <1>2, Invariance, LateStays, PTL DEF Spec, LateStopIsClean

-----------------------------------------------------------------------------

(* Every step of the process is a step of the warm-up or leaves it alone.  *)
LEMMA WarmerSteps == [ProcessNext]_all => [Next]_vars
  <1> SUFFICES ASSUME [ProcessNext]_all PROVE [Next]_vars
    OBVIOUS
  <1> USE DEF vars, warmup
  <1>1. CASE ~aborted /\ MainThread
    <2>1. CASE \/ StartMetrics \/ StopMetrics \/ JoinMetrics
               \/ StopPool \/ NotifyPool \/ JoinPool \/ Destroy
      BY <2>1 DEF StartMetrics, StopMetrics, JoinMetrics, StopPool, NotifyPool, JoinPool, Destroy
    <2>2. CASE StartWarmer
      BY <1>1, <2>2 DEF StartWarmer, Next, Main
    <2>3. CASE StopWarmer
      BY <1>1, <2>3 DEF StopWarmer, Next, Main
    <2> QED BY <1>1, <2>1, <2>2, <2>3 DEF MainThread
  <1>2. CASE BotEnds
    BY <1>2 DEF BotEnds
  <1>3. CASE ~aborted /\ WarmUp(PhraseThread)
    BY <1>3 DEF WarmUp, Next
  <1>4. CASE ~aborted /\ WarmUp(DictThread)
    BY <1>4 DEF WarmUp, Next
  <1>5. CASE (\E w \in Workers : PoolWorker(w) \/ PoolWakes(w)) \/ Server \/ Clients
    BY <1>5 DEF PoolWorker, PoolWakes, Server, Clients
  <1>6. CASE UNCHANGED all
    BY <1>6 DEF all
  <1> QED BY <1>1, <1>2, <1>3, <1>4, <1>5, <1>6 DEF ProcessNext

(* The process, whatever else it does, warms its cache as CacheWarmer says.*)
THEOREM WarmerImplemented == ProcessSpec => Spec
  <1>1. ProcessInit => Init
    BY DEF ProcessInit
  <1> QED BY <1>1, WarmerSteps, PTL DEF ProcessSpec, Spec

(* The two guarantees of CacheWarmer, in the process: a word waits for the *)
(* phrases, and when stop has returned no thread of the warm-up runs.      *)
THEOREM WarmerSafeInProcess == ProcessSpec => [](DictAfterPhrases /\ QuietWhenStopped)
  BY WarmerImplemented, DictAfterPhrasesAlways, QuietWhenStoppedAlways, PTL

(* Nor does the process abort when it ends after the phrases were warmed.  *)
THEOREM LateStopInProcess == ProcessSpec => LateStopIsClean
  BY WarmerImplemented, LateStopTheorem, PTL

-----------------------------------------------------------------------------

Labels == {"wait", "block", "asleep", "missed", "synth", "late", "on_synth", "put",
           "speak", "ended"}

ProcessTypes ==
    /\ exit \in {"boot", "up", "flag", "shutdown", "close", "join", "warmer",
                 "notify", "join_pool", "destroy", "gone"}
    /\ threw \in BOOLEAN
    /\ worker \in [Workers -> Labels]

WithoutMetrics == <<"warmer", "pool", "engine", "guild_states", "db">>
WithoutWarmer == <<"pool", "engine", "guild_states", "db">>

(* How far the warm-up is when main is at each stage of its way out, which *)
(* threads are over, and what has been destroyed.                          *)
Stages ==
    /\ exit \in {"boot", "up", "flag", "shutdown", "close", "join"} =>
         alive = Locals /\ ~unwinding /\ main \in {"start", "start_dict", "serving"}
    /\ exit \notin {"boot", "up"} => main \notin {"start", "start_dict"}
    /\ exit \in {"warmer", "notify", "join_pool", "destroy", "gone"} => ServerOver
    /\ exit = "warmer" =>
         /\ alive = IF threw \/ unwinding THEN WithoutMetrics ELSE Locals
         /\ main = "serving" => ~unwinding
         /\ main # "serving" /\ threw => unwinding
    /\ exit \in {"notify", "join_pool"} => alive = IF unwinding THEN WithoutWarmer ELSE Locals
    /\ exit \in {"notify", "join_pool", "destroy", "gone"} => main = "stopped"
    /\ exit \in {"destroy", "gone"} => \A w \in Workers : worker[w] = "ended"

PInv == ProcessTypes /\ Stages

LEMMA Tails == Tail(Locals) = WithoutMetrics /\ Tail(WithoutMetrics) = WithoutWarmer
  BY DEF Locals, WithoutMetrics, WithoutWarmer

LEMMA InitPInv == ProcessInit => PInv
  BY DEF ProcessInit, Init, MetricsInit, PInv, ProcessTypes, Stages, Labels

(* A worker's step ends it or leaves it at work; an ended one makes none.  *)
LEMMA WorkerStep ==
  ASSUME worker \in [Workers -> Labels], NEW w \in Workers, Worker(w) \/ WokenUp(w)
  PROVE  /\ worker' \in [Workers -> Labels]
         /\ worker[w] # "ended"
         /\ UNCHANGED serve
  <1> USE DEF Labels, Goto, server, counters
  <1>1. CASE Take(w)
    BY <1>1 DEF Take
  <1>2. CASE RecordText(w) \/ SynthTimesOut(w) \/ LateEnds(w)
    BY <1>2 DEF RecordText, SynthTimesOut, LateEnds
  <1>3. CASE Throws(w) \/ RecordTime(w) \/ RecordSynthMs(w)
    BY <1>3 DEF Throws, RecordTime, RecordSynthMs
  <1>4. CASE Put(w) \/ Speak(w) \/ WorkerEnds(w)
    BY <1>4 DEF Put, Speak, WorkerEnds
  <1>5. CASE FindsNothing(w) \/ FallsAsleep(w) \/ WokenUp(w)
    BY <1>5 DEF FindsNothing, FallsAsleep, WokenUp
  <1> QED BY <1>1, <1>2, <1>3, <1>4, <1>5 DEF Worker

LEMMA PInvStep == IInv /\ PInv /\ [ProcessNext]_all => PInv'
  <1> SUFFICES ASSUME IInv, PInv, [ProcessNext]_all PROVE PInv'
    OBVIOUS
  <1> USE DEF PInv, ProcessTypes, Stages, ServerOver
  <1>1. CASE StartMetrics
    BY <1>1 DEF StartMetrics, StartServer, warmup, counters, pool
  <1>2. CASE StartWarmer
    BY <1>2 DEF StartWarmer, Start, StartDict, process, pool, counters, server
  <1>3. CASE BotEnds
    BY <1>3 DEF BotEnds, warmup, pool, counters, server
  <1>4. CASE StopMetrics
    BY <1>4 DEF StopMetrics, StopFlag, StopSocket, warmup, counters, pool
  <1>5. CASE JoinMetrics
    BY <1>5, Tails DEF JoinMetrics, warmup, pool, counters, server
  <1>6. CASE StopWarmer
    <2> USE DEF StopWarmer, pool, counters, server
    <2>1. CASE StopBegins /\ unwinding' = threw /\ UNCHANGED alive
      BY <1>6, <2>1 DEF StopBegins
    <2>2. CASE StopThrows /\ alive' = IF unwinding THEN alive ELSE Tail(alive)
      BY <1>6, <2>2, Tails DEF StopThrows
    <2>3. CASE (StopTests \/ StopJoins \/ StopJoined \/ StopJoinsDict) /\ UNCHANGED alive
      BY <1>6, <2>3 DEF StopTests, StopJoins, StopJoined, StopJoinsDict
    <2> QED BY <1>6, <2>1, <2>2, <2>3
  <1>7. CASE StopPool \/ NotifyPool
    <2>1. CASE StopPool
      BY <2>1, Tails DEF StopPool, StopPoolFlag, warmup, counters, server
    <2>2. CASE NotifyPool
      <3>1. worker' \in [Workers -> Labels]
        BY <2>2 DEF NotifyPool, NotifyAll, Labels
      <3> QED BY <2>2, <3>1 DEF NotifyPool, NotifyAll, warmup, counters, server
    <2> QED BY <1>7, <2>1, <2>2
  <1>8. CASE JoinPool
    BY <1>8 DEF JoinPool, warmup, pool, counters, server
  <1>9. CASE Destroy
    BY <1>9 DEF Destroy, warmup, pool, counters, server
  <1>10. CASE WarmUp(PhraseThread)
    BY <1>10 DEF WarmUp, PhraseThread, PhraseTest, PhraseWarm, process, pool, server
  <1>11. CASE WarmUp(DictThread)
    BY <1>11 DEF WarmUp, DictThread, DictTests, DictJoins, DictThrows, DictJoined,
                 DictCheck, DictWarm, process, pool, server
  <1>12. ASSUME NEW w \in Workers, PoolWorker(w) \/ PoolWakes(w) PROVE PInv'
    BY <1>12, WorkerStep DEF PoolWorker, PoolWakes, warmup, process
  <1>13. CASE Server
    BY <1>13 DEF Server, Serve, ServeTest, ServePoll, ServeWoken, ServeAccept, ServeRecv,
                 RenderHistogram, ServeSend, warmup, process, counters, pool
  <1>14. CASE Clients
    BY <1>14 DEF Clients, ClientConnects, ClientActs, warmup, process, counters, pool
  <1>15. CASE UNCHANGED all
    BY <1>15 DEF all, warmup, process, pool, counters, server
  <1> QED
    BY <1>1, <1>2, <1>3, <1>4, <1>5, <1>6, <1>7, <1>8, <1>9, <1>10, <1>11, <1>12,
       <1>13, <1>14, <1>15 DEF ProcessNext, MainThread

LEMMA PInvHolds == ProcessSpec => [](IInv /\ PInv)
  <1>1. ProcessSpec => []IInv
    BY WarmerImplemented, Invariance, PTL
  <1>2. ProcessSpec => ProcessInit /\ [][ProcessNext]_all
    BY PTL DEF ProcessSpec
  <1> QED BY <1>1, <1>2, InitPInv, PInvStep, PTL

Names == {"metrics", "warmer", "pool", "engine", "guild_states", "db"}

\* What is in alive at the stages where not all is quiet.
LEMMA Contents ==
  /\ \A i \in DOMAIN Locals : Locals[i] \in Names
  /\ alive = Locals => \A o \in Names : ~Destroyed(o)
  /\ alive = WithoutMetrics => \A o \in Names \ {"metrics"} : ~Destroyed(o)
  /\ alive = WithoutWarmer => \A o \in Names \ {"metrics", "warmer"} : ~Destroyed(o)
  <1>1. \A i \in DOMAIN Locals : Locals[i] \in Names
    BY DEF Locals, Names
  <1>2. ASSUME alive = Locals PROVE \A o \in Names : ~Destroyed(o)
    <2>1. /\ DOMAIN alive = 1 .. 6
          /\ alive[1] = "metrics" /\ alive[2] = "warmer" /\ alive[3] = "pool"
          /\ alive[4] = "engine" /\ alive[5] = "guild_states" /\ alive[6] = "db"
      BY <1>2 DEF Locals
    <2> QED BY <2>1 DEF Names, Destroyed
  <1>3. ASSUME alive = WithoutMetrics PROVE \A o \in Names \ {"metrics"} : ~Destroyed(o)
    <2>1. /\ DOMAIN alive = 1 .. 5
          /\ alive[1] = "warmer" /\ alive[2] = "pool"
          /\ alive[3] = "engine" /\ alive[4] = "guild_states" /\ alive[5] = "db"
      BY <1>3 DEF WithoutMetrics
    <2> QED BY <2>1 DEF Names, Destroyed
  <1>4. ASSUME alive = WithoutWarmer PROVE \A o \in Names \ {"metrics", "warmer"} : ~Destroyed(o)
    <2>1. /\ DOMAIN alive = 1 .. 4
          /\ alive[1] = "pool" /\ alive[2] = "engine" /\ alive[3] = "guild_states"
          /\ alive[4] = "db"
      BY <1>4 DEF WithoutWarmer
    <2> QED BY <2>1 DEF Names, Destroyed
  <1> QED BY <1>1, <1>2, <1>3, <1>4

(* Whatever ends the bot, and however many workers, clients and texts there*)
(* are: the metrics server, the warm-up and the workers use no local of    *)
(* main that is gone, with one exception.  The exception is what on_synth_ *)
(* uses, the metrics: they outlive its calls when main leaves orderly, but *)
(* not when it unwinds, after bot.start or the stop of the warm-up threw.  *)
THEOREM DestroyedUnusedAlways == ProcessSpec => []DestroyedUnused
  <1>1. IInv /\ PInv => DestroyedUnused
    <2> SUFFICES ASSUME IInv, PInv PROVE DestroyedUnused
      OBVIOUS
    <2>1. /\ \A o \in Names : Destroyed(o) => ~Used(o)
          /\ Destroyed("metrics") /\ ~threw /\ ~unwinding => \A w \in Workers : worker[w] # "on_synth"
      <3> USE DEF PInv, ProcessTypes, Stages, Names
      <3>1. CASE exit \in {"boot", "up", "flag", "shutdown", "close", "join"}
        BY <3>1, Contents
      <3>2. CASE exit = "warmer"
        BY <3>2, Contents DEF Used
      <3>3. CASE exit \in {"notify", "join_pool"}
        <4>1. ~WarmerRuns
          BY <3>3 DEF WarmerRuns, IInv, Joined, TypeOK
        <4> QED BY <3>3, <4>1, Contents DEF Used
      <3>4. CASE exit \in {"destroy", "gone"}
        <4>1. ~WarmerRuns /\ dict = "ended"
          BY <3>4 DEF WarmerRuns, IInv, Joined, TypeOK
        <4>2. \A o \in Names : ~Used(o)
          BY <3>4, <4>1 DEF Used
        <4> QED BY <3>4, <4>2
      <3> QED BY <3>1, <3>2, <3>3, <3>4
    <2> QED BY <2>1, Contents DEF DestroyedUnused
  <1> QED BY <1>1, PInvHolds, PTL

-----------------------------------------------------------------------------
(* The counters.                                                           *)

CounterTypes ==
    /\ sentence \in [Workers -> Texts]
    /\ misses \in Nat /\ synths \in Nat /\ failures \in Nat /\ hist_count \in Nat
    /\ counts \in [Texts -> Nat]
    /\ bucket_counts \in [1 .. Inf -> Nat]

(* What a page has shown is not more than what is counted now.             *)
PageTypes == page.count \in Nat /\ \A b \in 1 .. Inf : page.le[b] \in Nat
HistogramAgrees ==
    /\ hist_count = Cumulative(Inf)
    /\ PageTypes
    /\ \A b \in 1 .. Inf : page.le[b] <= Cumulative(b)

Counting == CounterTypes /\ CountersAgree

(* How many workers are at a label is a number, and no more than moves it. *)
LEMMA AtIsNatural == ASSUME NEW label PROVE At(label) \in Nat
  <1>1. IsFiniteSet({w \in Workers : worker[w] = label})
    BY MetricsAssumption, FS_Subset
  <1> QED BY <1>1, FS_CardinalityType DEF At

LEMMA AtMoves ==
  ASSUME worker \in [Workers -> Labels], NEW w \in Workers, NEW from, worker[w] = from,
         NEW to, from # to, Goto(w, to)
  PROVE  /\ At(to)' = At(to) + 1
         /\ At(from)' = At(from) - 1
         /\ \A other : other \notin {from, to} => At(other)' = At(other)
  <1> DEFINE W(label) == {v \in Workers : worker[v] = label}
             V(label) == {v \in Workers : worker'[v] = label}
  <1>1. /\ worker'[w] = to
        /\ \A v \in Workers \ {w} : worker'[v] = worker[v]
    BY DEF Goto
  <1>2. V(to) = W(to) \cup {w} /\ w \notin W(to)
    BY <1>1
  <1>3. V(from) = W(from) \ {w} /\ w \in W(from)
    BY <1>1
  <1>4. \A other : other \notin {from, to} => V(other) = W(other)
    BY <1>1
  <1>5. \A label : IsFiniteSet(W(label))
    BY MetricsAssumption, FS_Subset
  <1>6. Cardinality(V(to)) = Cardinality(W(to)) + 1
    <2> HIDE DEF V, W
    <2> QED BY <1>2, <1>5, FS_AddElement
  <1>7. Cardinality(V(from)) = Cardinality(W(from)) - 1
    <2> HIDE DEF V, W
    <2> QED BY <1>3, <1>5, FS_RemoveElement
  <1>8. \A label : At(label) = Cardinality(W(label)) /\ At(label)' = Cardinality(V(label))
    BY DEF At
  <1> HIDE DEF V, W
  <1> QED BY <1>4, <1>6, <1>7, <1>8

(* The counts of the texts are a number, that a record raises by one.      *)
LEMMA CountedIsInteger == ASSUME counts \in [Texts -> Nat] PROVE Counted \in Int
  <1>1. \A t \in Texts : counts[t] \in Int
    OBVIOUS
  <1> QED BY <1>1, MetricsAssumption, SumOfRest DEF Counted

LEMMA CountedRaised ==
  ASSUME counts \in [Texts -> Nat], NEW t \in Texts, counts' = [counts EXCEPT ![t] = @ + 1]
  PROVE  Counted' = Counted + 1
  <1> DEFINE e == counts'
  <1>1. /\ \A y \in Texts : counts[y] \in Int
        /\ e[t] = counts[t] + 1 /\ \A y \in Texts : y # t => e[y] = counts[y]
    OBVIOUS
  <1> HIDE DEF e
  <1>2. SumFunctionOnSet(e, Texts) = SumFunctionOnSet(counts, Texts) + 1
    BY <1>1, MetricsAssumption, SumRaised
  <1> QED BY <1>2 DEF Counted, e

LEMMA InitCounting == ProcessInit => Counting /\ HistogramAgrees
  <1> SUFFICES ASSUME ProcessInit PROVE Counting /\ HistogramAgrees
    OBVIOUS
  <1> USE DEF ProcessInit, Init, MetricsInit
  <1>1. CounterTypes
    BY MetricsAssumption DEF CounterTypes
  <1>2. Counted = 0
    <2>1. \A t \in Texts : counts[t] = 0
      OBVIOUS
    <2> QED BY <2>1, MetricsAssumption, SumZero DEF Counted
  <1>3. \A label : label # "wait" => At(label) = 0
    <2>1. \A label : label # "wait" => {w \in Workers : worker[w] = label} = {}
      OBVIOUS
    <2> QED BY <2>1, FS_EmptySet DEF At
  <1>4. CountersAgree
    BY <1>2, <1>3 DEF CountersAgree
  <1>5. \A b \in 1 .. Inf : Cumulative(b) = 0
    <2> SUFFICES ASSUME NEW b \in 1 .. Inf PROVE Cumulative(b) = 0
      OBVIOUS
    <2>1. IsFiniteSet(1 .. b) /\ \A i \in 1 .. b : bucket_counts[i] = 0
      BY MetricsAssumption, FS_Interval DEF Inf
    <2> QED BY <2>1, SumZero DEF Cumulative
  <1>6. HistogramAgrees
    <2>1. Inf \in 1 .. Inf
      BY MetricsAssumption DEF Inf
    <2> QED BY <1>5, <2>1 DEF HistogramAgrees, PageTypes, EmptyPage
  <1> QED BY <1>1, <1>4, <1>6 DEF Counting

(* Every counter is raised while its worker passes from one label to the   *)
(* next; the failures, by which a sentence leaves early, make up for the   *)
(* times that are not recorded.                                            *)
LEMMA WorkerCounts ==
  ASSUME IInv, ProcessTypes, Counting, NEW w \in Workers, Worker(w) \/ WokenUp(w),
         UNCHANGED warmup
  PROVE  Counting'
  <1> DEFINE m == At("missed")
             y == At("synth")
             o == At("on_synth")
             Agree(mi, c, am, sy, fa, ay, hi, ao) ==
                 /\ mi - c - am \in 0 .. phrases + words
                 /\ c \in sy + ay .. sy + fa + ay
                 /\ sy = hi + ao
  <1>1. /\ m \in Nat /\ y \in Nat /\ o \in Nat /\ Counted \in Int
        /\ misses \in Nat /\ synths \in Nat /\ failures \in Nat /\ hist_count \in Nat
        /\ phrases \in Nat /\ words \in Nat
    BY AtIsNatural, CountedIsInteger DEF IInv, TypeOK, Counting, CounterTypes
  <1>2. Agree(misses, Counted, m, synths, failures, y, hist_count, o)
    BY DEF Counting, CountersAgree
  <1>3. phrases' = phrases /\ words' = words
    BY DEF warmup
  <1>4. ASSUME Agree(misses', Counted', m', synths', failures', y', hist_count', o'),
               CounterTypes'
        PROVE  Counting'
    BY <1>3, <1>4 DEF Counting, CountersAgree
  <1>5. ASSUME counts' = counts PROVE Counted' = Counted
    BY <1>5 DEF Counted
  <1> USE DEF Counting, CounterTypes
  <1>6. CASE Take(w)
    <2>1. PICK t \in Texts :
             /\ sentence' = [sentence EXCEPT ![w] = t]
             /\ Lookup(t)
             /\ Goto(w, IF t \in cached THEN "speak" ELSE "missed")
      BY <1>6 DEF Take
    <2>2. /\ worker[w] = "wait"
          /\ UNCHANGED <<counts, synths, failures, bucket_counts, hist_count>>
      BY <1>6 DEF Take
    <2>3. CounterTypes'
      BY <2>1, <2>2 DEF Lookup
    <2>4. CASE t \in cached
      <3>0. Goto(w, "speak") /\ misses' = misses
        BY <2>1, <2>4 DEF Lookup
      <3>1. misses' = misses /\ m' = m /\ y' = y /\ o' = o
        BY <2>2, <3>0, AtMoves DEF ProcessTypes
      <3> QED BY <1>2, <1>4, <1>5, <2>2, <2>3, <3>1
    <2>5. CASE t \notin cached
      <3>0. Goto(w, "missed") /\ misses' = misses + 1
        BY <2>1, <2>5 DEF Lookup
      <3>1. misses' = misses + 1 /\ m' = m + 1 /\ y' = y /\ o' = o
        BY <2>2, <3>0, AtMoves DEF ProcessTypes
      <3> HIDE DEF m, y, o
      <3>2. Counted' = Counted
        BY <1>5, <2>2
      <3>3. Agree(misses + 1, Counted, m + 1, synths, failures, y, hist_count, o)
        BY <1>1, <1>2
      <3> QED BY <1>4, <2>2, <2>3, <3>1, <3>2, <3>3
    <2> QED BY <2>4, <2>5
  <1>7. CASE RecordText(w)
    <2>1. /\ worker[w] = "missed" /\ Goto(w, "synth")
          /\ counts' = [counts EXCEPT ![sentence[w]] = @ + 1]
          /\ UNCHANGED <<sentence, misses, synths, failures, bucket_counts, hist_count>>
      BY <1>7 DEF RecordText
    <2>2. m' = m - 1 /\ y' = y + 1 /\ o' = o
      BY <2>1, AtMoves DEF ProcessTypes
    <2>3. Counted' = Counted + 1
      BY <2>1, CountedRaised
    <2>4. CounterTypes'
      BY <2>1
    <2> HIDE DEF m, y, o
    <2>5. Agree(misses, Counted + 1, m - 1, synths, failures, y + 1, hist_count, o)
      BY <1>1, <1>2
    <2> QED BY <1>4, <2>1, <2>2, <2>3, <2>4, <2>5
  <1>8. CASE SynthTimesOut(w) \/ (Throws(w) /\ worker[w] = "synth")
    <2>1. /\ worker[w] = "synth" /\ (Goto(w, "late") \/ Goto(w, "wait"))
          /\ failures' = failures + 1
          /\ UNCHANGED <<sentence, misses, counts, synths, bucket_counts, hist_count>>
      BY <1>8 DEF SynthTimesOut, Throws
    <2>2. m' = m /\ y' = y - 1 /\ o' = o
      <3>1. worker[w] = "synth"
        BY <1>8 DEF SynthTimesOut
      <3> QED BY <2>1, <3>1, AtMoves DEF ProcessTypes
    <2>3. CounterTypes' /\ Counted' = Counted
      BY <1>5, <2>1
    <2> HIDE DEF m, y, o
    <2>4. Agree(misses, Counted, m, synths, failures + 1, y - 1, hist_count, o)
      BY <1>1, <1>2
    <2> QED BY <1>4, <2>1, <2>2, <2>3, <2>4
  <1>9. CASE Throws(w) /\ worker[w] = "speak"
    <2>1. /\ worker[w] = "speak" /\ Goto(w, "wait")
          /\ failures' = failures + 1
          /\ UNCHANGED <<sentence, misses, counts, synths, bucket_counts, hist_count>>
      BY <1>9 DEF Throws
    <2>2. m' = m /\ y' = y /\ o' = o
      BY <2>1, AtMoves DEF ProcessTypes
    <2>3. CounterTypes' /\ Counted' = Counted
      BY <1>5, <2>1
    <2> HIDE DEF m, y, o
    <2>4. Agree(misses, Counted, m, synths, failures + 1, y, hist_count, o)
      BY <1>1, <1>2
    <2> QED BY <1>4, <2>1, <2>2, <2>3, <2>4
  <1>10. CASE RecordTime(w)
    <2>1. /\ worker[w] = "synth" /\ Goto(w, "on_synth")
          /\ synths' = synths + 1
          /\ UNCHANGED <<sentence, misses, counts, failures, bucket_counts, hist_count>>
      BY <1>10 DEF RecordTime
    <2>2. m' = m /\ y' = y - 1 /\ o' = o + 1
      BY <2>1, AtMoves DEF ProcessTypes
    <2>3. CounterTypes' /\ Counted' = Counted
      BY <1>5, <2>1
    <2> HIDE DEF m, y, o
    <2>4. Agree(misses, Counted, m, synths + 1, failures, y - 1, hist_count, o + 1)
      BY <1>1, <1>2
    <2> QED BY <1>4, <2>1, <2>2, <2>3, <2>4
  <1>11. CASE RecordSynthMs(w)
    <2>1. /\ worker[w] = "on_synth" /\ Goto(w, "put")
          /\ hist_count' = hist_count + 1
          /\ \E b \in 1 .. Inf : bucket_counts' = [bucket_counts EXCEPT ![b] = @ + 1]
          /\ UNCHANGED <<sentence, misses, counts, synths, failures>>
      BY <1>11 DEF RecordSynthMs
    <2>2. m' = m /\ y' = y /\ o' = o - 1
      <3>1. worker[w] = "on_synth" /\ Goto(w, "put")
        BY <2>1
      <3> QED BY <3>1, AtMoves DEF ProcessTypes
    <2>3. CounterTypes' /\ Counted' = Counted
      BY <1>5, <2>1
    <2> HIDE DEF m, y, o
    <2>4. Agree(misses, Counted, m, synths, failures, y, hist_count + 1, o - 1)
      BY <1>1, <1>2
    <2> QED BY <1>4, <2>1, <2>2, <2>3, <2>4
  <1>12. CASE \/ LateEnds(w) \/ Put(w) \/ Speak(w) \/ WorkerEnds(w)
              \/ FindsNothing(w) \/ FallsAsleep(w) \/ WokenUp(w)
    <2>1. /\ worker[w] \in {"late", "put", "speak", "wait", "block", "asleep"}
          /\ \E to \in {"wait", "speak", "block", "asleep", "ended"} :
                to # worker[w] /\ Goto(w, to)
          /\ UNCHANGED <<sentence, misses, counts, synths, failures, bucket_counts, hist_count>>
      BY <1>12 DEF LateEnds, Put, Speak, WorkerEnds, FindsNothing, FallsAsleep, WokenUp, counters
    <2>2. m' = m /\ y' = y /\ o' = o
      <3>1. PICK to \in {"wait", "speak", "block", "asleep", "ended"} :
               to # worker[w] /\ Goto(w, to)
        BY <2>1
      <3> QED BY <2>1, <3>1, AtMoves DEF ProcessTypes
    <2>3. CounterTypes' /\ Counted' = Counted
      BY <1>5, <2>1
    <2> QED BY <1>2, <1>4, <2>1, <2>2, <2>3
  <1>13. Throws(w) => worker[w] \in {"synth", "speak"}
    BY DEF Throws
  <1> QED
    BY <1>6, <1>7, <1>8, <1>9, <1>10, <1>11, <1>12, <1>13 DEF Worker

(* The warm-up looks up as often as it warms, and counts nothing else.     *)
LEMMA WarmUpCounts ==
  ASSUME IInv, IInv', Counting, NEW thread, WarmUp(thread),
         /\ phrases' \in {phrases, phrases + 1} /\ words' \in {words, words + 1}
         /\ phrases' = phrases \/ words' = words
  PROVE  Counting'
  <1> DEFINE m == At("missed")
  <1>1. /\ UNCHANGED <<sentence, worker, counts, synths, failures, bucket_counts, hist_count>>
        /\ phrases' # phrases \/ words' # words => misses' \in {misses, misses + 1}
        /\ phrases' = phrases /\ words' = words => misses' = misses
    BY DEF WarmUp, Warms, Lookup, pool
  <1>2. UNCHANGED <<Counted, m, At("synth"), At("on_synth")>>
    BY <1>1 DEF Counted, At
  <1>3. /\ misses \in Nat /\ Counted \in Int /\ m \in Nat
        /\ phrases \in Nat /\ words \in Nat /\ phrases' \in Nat /\ words' \in Nat
    BY AtIsNatural, CountedIsInteger DEF IInv, TypeOK, Counting, CounterTypes
  <1>4. misses - Counted - m \in 0 .. phrases + words
    BY DEF Counting, CountersAgree
  <1>5. CounterTypes'
    BY <1>1 DEF Counting, CounterTypes
  <1> HIDE DEF m
  <1>6. misses' - Counted - m \in 0 .. phrases' + words'
    <2>1. CASE phrases' = phrases /\ words' = words
      BY <1>1, <1>4, <2>1
    <2>2. CASE phrases' = phrases + 1 \/ words' = words + 1
      BY <1>1, <1>3, <1>4, <2>2
    <2> QED BY <2>1, <2>2
  <1>7. Counting' <=> CounterTypes' /\ CountersAgree'
    BY DEF Counting
  <1>8. CountersAgree'
    BY <1>1, <1>2, <1>6 DEF Counting, CountersAgree, m
  <1> QED BY <1>5, <1>7, <1>8

\* notify_all wakes workers who are not in the middle of a sentence.
LEMMA NotifyCounts ==
  ASSUME NotifyAll, NEW label \in {"missed", "synth", "on_synth"}
  PROVE  At(label)' = At(label)
  <1>1. {w \in Workers : worker'[w] = label} = {w \in Workers : worker[w] = label}
    BY DEF NotifyAll
  <1> QED BY <1>1 DEF At

(* A step leaves the counters and the labels alone, is one of a worker, is *)
(* notify_all, or is a lookup of the warm-up.                              *)
LEMMA WhoCounts ==
  ASSUME [ProcessNext]_all, IInv
  PROVE  \/ UNCHANGED <<counters, worker, sentence, phrases, words>>
         \/ UNCHANGED <<counters, sentence, phrases, words>> /\ NotifyAll
         \/ UNCHANGED warmup /\ UNCHANGED page /\ \E w \in Workers : Worker(w) \/ WokenUp(w)
         \/ \E thread \in BOOLEAN :
               /\ WarmUp(thread)
               /\ phrases' \in {phrases, phrases + 1} /\ words' \in {words, words + 1}
               /\ phrases' = phrases \/ words' = words
  <1> USE DEF warmup, pool, counters, server, process
  <1>1. CASE StartMetrics
    BY <1>1 DEF StartMetrics, StartServer
  <1>2. CASE StartWarmer
    BY <1>2 DEF StartWarmer, Start, StartDict
  <1>3. CASE BotEnds
    BY <1>3 DEF BotEnds
  <1>4. CASE StopMetrics
    BY <1>4 DEF StopMetrics, StopFlag, StopSocket
  <1>5. CASE JoinMetrics
    BY <1>5 DEF JoinMetrics
  <1>6. CASE StopWarmer
    BY <1>6 DEF StopWarmer, StopBegins, StopThrows, StopTests, StopJoins, StopJoined, StopJoinsDict
  <1>7. CASE StopPool \/ NotifyPool \/ JoinPool \/ Destroy
    BY <1>7 DEF StopPool, StopPoolFlag, NotifyPool, NotifyAll, JoinPool, Destroy
  <1>8. CASE WarmUp(PhraseThread)
    <2>1. /\ phrases' \in {phrases, phrases + 1} /\ words' \in {words, words + 1}
          /\ phrases' = phrases \/ words' = words
      BY <1>8 DEF WarmUp, PhraseThread, PhraseTest, PhraseWarm
    <2>2. WarmUp(TRUE)
      BY <1>8 DEF WarmUp
    <2> QED BY <2>1, <2>2
  <1>9. CASE WarmUp(DictThread)
    <2>1. /\ phrases' \in {phrases, phrases + 1} /\ words' \in {words, words + 1}
          /\ phrases' = phrases \/ words' = words
      BY <1>9 DEF WarmUp, DictThread, DictTests, DictJoins, DictThrows, DictJoined,
                  DictCheck, DictWarm
    <2>2. WarmUp(TRUE)
      BY <1>9 DEF WarmUp
    <2> QED BY <2>1, <2>2
  <1>10. ASSUME NEW w \in Workers, PoolWorker(w) \/ PoolWakes(w)
         PROVE  /\ UNCHANGED warmup /\ UNCHANGED page
                /\ \E v \in Workers : Worker(v) \/ WokenUp(v)
    <2>1. Worker(w) \/ WokenUp(w) => UNCHANGED page
      BY DEF Worker, Take, RecordText, SynthTimesOut, LateEnds, Throws, RecordTime,
             RecordSynthMs, Put, Speak, FindsNothing, FallsAsleep, WokenUp, WorkerEnds
    <2> QED BY <1>10, <2>1 DEF PoolWorker, PoolWakes
  <1>11. CASE Server
    BY <1>11 DEF Server, Serve, ServeTest, ServePoll, ServeWoken, ServeAccept, ServeRecv,
                 RenderHistogram, ServeSend
  <1>12. CASE Clients
    BY <1>12 DEF Clients, ClientConnects, ClientActs
  <1>13. CASE UNCHANGED all
    BY <1>13 DEF all
  <1> QED
    BY <1>1, <1>2, <1>3, <1>4, <1>5, <1>6, <1>7, <1>8, <1>9, <1>10, <1>11, <1>12, <1>13
       DEF ProcessNext, MainThread

LEMMA CountingStep == IInv /\ IInv' /\ PInv /\ Counting /\ [ProcessNext]_all => Counting'
  <1> SUFFICES ASSUME IInv, IInv', PInv, Counting, [ProcessNext]_all PROVE Counting'
    OBVIOUS
  <1>1. CASE UNCHANGED <<counters, worker, sentence, phrases, words>>
    <2>1. UNCHANGED <<misses, counts, synths, failures, bucket_counts, hist_count,
                      worker, sentence, phrases, words>>
      BY <1>1 DEF counters
    <2>2. UNCHANGED <<Counted, At("missed"), At("synth"), At("on_synth")>>
      BY <2>1 DEF Counted, At
    <2> QED BY <2>1, <2>2 DEF Counting, CounterTypes, CountersAgree
  <1>n. CASE UNCHANGED <<counters, sentence, phrases, words>> /\ NotifyAll
    <2>1. UNCHANGED <<misses, counts, synths, failures, bucket_counts, hist_count,
                      sentence, phrases, words>>
      BY <1>n DEF counters
    <2>2. UNCHANGED <<Counted, At("missed"), At("synth"), At("on_synth")>>
      BY <1>n, <2>1, NotifyCounts DEF Counted
    <2> QED BY <2>1, <2>2 DEF Counting, CounterTypes, CountersAgree
  <1>2. ASSUME UNCHANGED warmup, NEW w \in Workers, Worker(w) \/ WokenUp(w) PROVE Counting'
    BY <1>2, WorkerCounts DEF PInv
  <1>3. ASSUME NEW thread, WarmUp(thread),
               /\ phrases' \in {phrases, phrases + 1} /\ words' \in {words, words + 1}
               /\ phrases' = phrases \/ words' = words
        PROVE  Counting'
    BY <1>3, WarmUpCounts
  <1> QED BY <1>1, <1>n, <1>2, <1>3, WhoCounts

LEMMA CountingHolds == ProcessSpec => [](IInv /\ PInv /\ Counting)
  <1>1. ProcessSpec => ProcessInit /\ [][ProcessNext]_all
    BY PTL DEF ProcessSpec
  <1> QED BY <1>1, PInvHolds, InitCounting, CountingStep, PTL

(* Misses, recorded texts, times, failures and the histogram agree at every*)
(* moment, for any number of workers and texts, though each is raised under*)
(* a lock of its own.                                                      *)
THEOREM CountersAgreeAlways == ProcessSpec => []CountersAgree
  BY CountingHolds, PTL DEF Counting

-----------------------------------------------------------------------------
(* The pages.                                                              *)

(* Every bucket includes those below it.                                   *)
LEMMA CumulativeGrows ==
  ASSUME bucket_counts \in [1 .. Inf -> Nat], NEW b \in 1 .. Inf
  PROVE  /\ Cumulative(b) \in Int
         /\ b # Inf => Cumulative(b) <= Cumulative(b + 1)
  <1>1. Inf \in Nat /\ b \in Nat /\ \A i \in 1 .. b : i \in 1 .. Inf
    BY MetricsAssumption DEF Inf
  <1>2. IsFiniteSet(1 .. b) /\ \A i \in 1 .. b : bucket_counts[i] \in Int
    BY <1>1, FS_Interval
  <1>3. Cumulative(b) \in Int
    BY <1>2, SumOfRest DEF Cumulative
  <1>4. ASSUME b # Inf PROVE Cumulative(b) <= Cumulative(b + 1)
    <2>1. b + 1 \in 1 .. Inf /\ b + 1 \notin 1 .. b /\ 1 .. b + 1 = (1 .. b) \cup {b + 1}
      BY <1>1, <1>4
    <2>2. bucket_counts[b + 1] \in Nat
      BY <2>1
    <2> DEFINE S == 1 .. b
               x == b + 1
    <2>3. IsFiniteSet(S) /\ x \notin S /\ \A i \in S \cup {x} : bucket_counts[i] \in Int
      BY <1>2, <2>1, <2>2
    <2> HIDE DEF S, x
    <2>4. SumFunctionOnSet(bucket_counts, S \cup {x}) = SumFunctionOnSet(bucket_counts, S) + bucket_counts[x]
      BY <2>3, SumOfMore
    <2>5. Cumulative(b + 1) = Cumulative(b) + bucket_counts[b + 1]
      BY <2>1, <2>4 DEF Cumulative, S, x
    <2> QED BY <1>3, <2>2, <2>5
  <1> QED BY <1>3, <1>4

(* record_synth_ms raises every bucket from its own on, and the last.      *)
LEMMA RecordRaises ==
  ASSUME bucket_counts \in [1 .. Inf -> Nat], NEW b \in 1 .. Inf,
         bucket_counts' = [bucket_counts EXCEPT ![b] = @ + 1]
  PROVE  /\ Cumulative(Inf)' = Cumulative(Inf) + 1
         /\ \A c \in 1 .. Inf : Cumulative(c) <= Cumulative(c)'
  <1> DEFINE e == bucket_counts'
  <1>1. /\ Inf \in Nat /\ Inf' = Inf
        /\ \A c \in 1 .. Inf : IsFiniteSet(1 .. c) /\ \A i \in 1 .. c : i \in 1 .. Inf
        /\ IsFiniteSet(1 .. Inf)
    <2>1. Inf \in Nat /\ Inf' = Inf
      BY MetricsAssumption DEF Inf
    <2>2. \A c \in Int : IsFiniteSet(1 .. c)
      BY FS_Interval
    <2> QED BY <2>1, <2>2
  <1>2. /\ \A i \in 1 .. Inf : bucket_counts[i] \in Int /\ e[i] \in Int /\ bucket_counts[i] <= e[i]
        /\ e[b] = bucket_counts[b] + 1
        /\ \A i \in 1 .. Inf : i # b => e[i] = bucket_counts[i]
    OBVIOUS
  <1>3. \A c \in 1 .. Inf : Cumulative(c)' = SumFunctionOnSet(e, 1 .. c)
    BY DEF Cumulative
  <1>4. Cumulative(Inf)' = SumFunctionOnSet(e, 1 .. Inf)
    BY <1>1 DEF Cumulative
  <1> HIDE DEF e
  <1>5. SumFunctionOnSet(e, 1 .. Inf) = SumFunctionOnSet(bucket_counts, 1 .. Inf) + 1
    <2> DEFINE S == 1 .. Inf
    <2>1. /\ IsFiniteSet(S) /\ b \in S
          /\ \A i \in S : bucket_counts[i] \in Int
          /\ e[b] = bucket_counts[b] + 1 /\ \A i \in S : i # b => e[i] = bucket_counts[i]
      BY <1>1, <1>2
    <2> HIDE DEF S
    <2>2. SumFunctionOnSet(e, S) = SumFunctionOnSet(bucket_counts, S) + 1
      BY <2>1, SumRaised
    <2> QED BY <2>2 DEF S
  <1>6. ASSUME NEW c \in 1 .. Inf
        PROVE  SumFunctionOnSet(bucket_counts, 1 .. c) <= SumFunctionOnSet(e, 1 .. c)
    <2> DEFINE S == 1 .. c
    <2>1. /\ IsFiniteSet(S)
          /\ \A i \in S : bucket_counts[i] \in Int /\ e[i] \in Int /\ bucket_counts[i] <= e[i]
      BY <1>1, <1>2
    <2> HIDE DEF S
    <2>2. SumFunctionOnSet(bucket_counts, S) <= SumFunctionOnSet(e, S)
      BY <2>1, SumGrows
    <2> QED BY <2>2 DEF S
  <1> QED BY <1>3, <1>4, <1>5, <1>6 DEF Cumulative

(* Only the server renders, and nothing but record_synth_ms touches the    *)
(* histogram.                                                              *)
LEMMA WhoRenders ==
  ASSUME [ProcessNext]_all
  PROVE  \/ UNCHANGED <<bucket_counts, hist_count, page>>
         \/ UNCHANGED page /\ \E w \in Workers : RecordSynthMs(w)
         \/ RenderHistogram
  <1> USE DEF warmup, pool, counters, server, process
  <1>1. CASE StartMetrics
    BY <1>1 DEF StartMetrics, StartServer
  <1>2. CASE StartWarmer \/ BotEnds \/ StopWarmer
    BY <1>2 DEF StartWarmer, BotEnds, StopWarmer
  <1>3. CASE StopMetrics
    BY <1>3 DEF StopMetrics, StopFlag, StopSocket
  <1>4. CASE JoinMetrics \/ StopPool \/ NotifyPool \/ JoinPool \/ Destroy
    BY <1>4 DEF JoinMetrics, StopPool, NotifyPool, JoinPool, Destroy
  <1>5. CASE WarmUp(PhraseThread) \/ WarmUp(DictThread)
    BY <1>5 DEF WarmUp
  <1>6. ASSUME NEW w \in Workers, PoolWorker(w) \/ PoolWakes(w)
        PROVE  \/ UNCHANGED <<bucket_counts, hist_count, page>>
               \/ UNCHANGED page /\ RecordSynthMs(w)
    BY <1>6 DEF PoolWorker, PoolWakes, Worker, Take, RecordText, SynthTimesOut, LateEnds, Throws,
                RecordTime, RecordSynthMs, Put, Speak, FindsNothing, FallsAsleep, WokenUp, WorkerEnds
  <1>7. CASE Server
    BY <1>7 DEF Server, Serve, ServeTest, ServePoll, ServeWoken, ServeAccept, ServeRecv, ServeSend
  <1>8. CASE Clients
    BY <1>8 DEF Clients, ClientConnects, ClientActs
  <1>9. CASE UNCHANGED all
    BY <1>9 DEF all
  <1> QED
    BY <1>1, <1>2, <1>3, <1>4, <1>5, <1>6, <1>7, <1>8, <1>9 DEF ProcessNext, MainThread

LEMMA HistogramStep ==
  ASSUME Counting, HistogramAgrees, [ProcessNext]_all
  PROVE  HistogramAgrees'
  <1>1. /\ Inf \in Nat /\ Inf \in 1 .. Inf /\ Inf' = Inf
        /\ bucket_counts \in [1 .. Inf -> Nat] /\ hist_count \in Nat
    BY MetricsAssumption DEF Inf, Counting, CounterTypes
  <1>2. \A b \in 1 .. Inf : Cumulative(b) \in Int /\ page.le[b] \in Nat /\ page.le[b] <= Cumulative(b)
    BY <1>1, CumulativeGrows DEF HistogramAgrees, PageTypes
  <1>3. CASE UNCHANGED <<bucket_counts, hist_count, page>>
    BY <1>1, <1>3 DEF HistogramAgrees, PageTypes, Cumulative
  <1>4. ASSUME NEW w \in Workers, RecordSynthMs(w), UNCHANGED page PROVE HistogramAgrees'
    <2>1. PICK b \in 1 .. Inf : bucket_counts' = [bucket_counts EXCEPT ![b] = @ + 1]
      BY <1>4 DEF RecordSynthMs
    <2>2. hist_count' = hist_count + 1
      BY <1>4 DEF RecordSynthMs
    <2>3. /\ Cumulative(Inf)' = Cumulative(Inf) + 1
          /\ \A c \in 1 .. Inf : Cumulative(c) <= Cumulative(c)'
      BY <1>1, <2>1, RecordRaises
    <2>4. bucket_counts' \in [1 .. Inf -> Nat]
      BY <1>1, <2>1
    <2>5. \A c \in 1 .. Inf : Cumulative(c)' \in Int
      <3>1. \A c \in 1 .. Inf : IsFiniteSet(1 .. c) /\ \A i \in 1 .. c : bucket_counts'[i] \in Int
        <4>1. \A c \in Int : IsFiniteSet(1 .. c)
          BY FS_Interval
        <4>2. \A c \in 1 .. Inf : \A i \in 1 .. c : i \in 1 .. Inf
          BY <1>1
        <4> QED BY <1>1, <2>4, <4>1, <4>2
      <3> QED BY <3>1, SumOfRest DEF Cumulative
    <2>6. \A c \in 1 .. Inf : page'.le[c] <= Cumulative(c)'
      BY <1>2, <1>4, <2>3, <2>5
    <2>7. hist_count' = Cumulative(Inf)' /\ PageTypes'
      BY <1>1, <1>4, <2>2, <2>3 DEF HistogramAgrees, PageTypes
    <2> QED BY <1>1, <2>6, <2>7 DEF HistogramAgrees
  <1>5. CASE RenderHistogram
    <2>1. /\ page' = [le |-> [b \in 1 .. Inf |-> Cumulative(b)], count |-> hist_count]
          /\ UNCHANGED <<bucket_counts, hist_count>>
      BY <1>5 DEF RenderHistogram, counters
    <2>2. \A b \in 1 .. Inf : Cumulative(b)' = Cumulative(b)
      BY <2>1 DEF Cumulative
    <2>3. \A b \in 1 .. Inf : page'.le[b] = Cumulative(b) /\ Cumulative(b) \in Nat
      <3>1. \A b \in 1 .. Inf : Cumulative(b) \in Nat
        <4>1. \A n \in Nat, i \in Int : n <= i => i \in Nat
          OBVIOUS
        <4> QED BY <1>2, <4>1
      <3> QED BY <2>1, <3>1
    <2>4. page'.count \in Nat
      BY <1>1, <2>1
    <2>5. \A b \in 1 .. Inf : page'.le[b] <= Cumulative(b)'
      BY <2>2, <2>3
    <2>6. hist_count' = Cumulative(Inf)'
      BY <1>1, <2>1, <2>2 DEF HistogramAgrees
    <2> QED BY <1>1, <2>3, <2>4, <2>5, <2>6 DEF HistogramAgrees, PageTypes
  <1> QED BY <1>3, <1>4, <1>5, WhoRenders

(* A page is a histogram of one moment, and never goes back, for any number*)
(* of buckets and workers and whatever they record meanwhile.              *)
THEOREM PagesTheorem == ProcessSpec => PagesAreSound
  <1> DEFINE Sound ==
        /\ page'.le[Inf] = page'.count
        /\ \A b \in 1 .. Buckets : page'.le[b] <= page'.le[b + 1]
        /\ \A b \in 1 .. Inf : page.le[b] <= page'.le[b]
  <1>1. ASSUME Counting, HistogramAgrees, [ProcessNext]_all PROVE [Sound]_page
    <2> SUFFICES ASSUME page' # page PROVE Sound
      OBVIOUS
    <2>1. RenderHistogram
      BY <1>1, WhoRenders
    <2>2. page' = [le |-> [b \in 1 .. Inf |-> Cumulative(b)], count |-> hist_count]
      BY <2>1 DEF RenderHistogram
    <2>3. \A b \in 1 .. Inf : page'.le[b] = Cumulative(b)
      BY <2>2
    <2>4. Inf \in 1 .. Inf /\ \A b \in 1 .. Buckets : b \in 1 .. Inf /\ b # Inf /\ b + 1 \in 1 .. Inf
      BY MetricsAssumption DEF Inf
    <2>5. \A b \in 1 .. Buckets : Cumulative(b) <= Cumulative(b + 1)
      BY <1>1, <2>4, CumulativeGrows DEF Counting, CounterTypes
    <2>6. page'.le[Inf] = page'.count
      BY <1>1, <2>2, <2>3, <2>4 DEF HistogramAgrees
    <2>7. \A b \in 1 .. Buckets : page'.le[b] <= page'.le[b + 1]
      BY <2>3, <2>4, <2>5
    <2>8. \A b \in 1 .. Inf : page.le[b] <= page'.le[b]
      BY <1>1, <2>3 DEF HistogramAgrees
    <2> QED BY <2>6, <2>7, <2>8
  <1>2. ProcessSpec => [](Counting /\ HistogramAgrees)
    <2>1. ProcessSpec => ProcessInit /\ [][ProcessNext]_all
      BY PTL DEF ProcessSpec
    <2> QED BY <2>1, CountingHolds, InitCounting, HistogramStep, PTL
  <1>3. ProcessSpec => [][ProcessNext]_all
    BY PTL DEF ProcessSpec
  <1> QED BY <1>1, <1>2, <1>3, PTL DEF PagesAreSound

=============================================================================
