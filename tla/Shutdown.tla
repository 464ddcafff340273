-------------------------------- MODULE Shutdown --------------------------------
(***************************************************************************)
(* The life of the process (src/src/main.cpp): main starts the metrics     *)
(* server and the cache warm-up beside the pool, bot.start serves, and on  *)
(* the way out main stops the three one after the other and its locals are *)
(* destroyed in the reverse order of their declarations.  When bot.start   *)
(* throws, or the stop of the warm-up does, the calls of stop are those of *)
(* the destructors.                                                        *)
(*                                                                         *)
(* This is CacheWarmer and MetricsServer run together: main's steps in the *)
(* warm-up are those of CacheWarmer, made here when main gets there.       *)
(***************************************************************************)
EXTENDS CacheWarmer, MetricsServer, Sequences

VARIABLES
    exit,       (* how far main is                                       *)
    threw,      (* bot.start threw                                       *)
    alive       (* main's locals, in the order of their destruction      *)

warmup == <<running_, joinable, joiner, phrase, phrases, dict, words, main,
            unwinding, aborted>>
process == <<exit, threw, alive>>
all == <<warmup, pool, counters, server, process>>

Locals == <<"metrics", "warmer", "pool", "engine", "guild_states", "db">>

ProcessInit ==
    /\ Init
    /\ MetricsInit
    /\ exit = "boot"
    /\ threw = FALSE
    /\ alive = Locals

-----------------------------------------------------------------------------
(* main.                                                                   *)

StartMetrics ==
    /\ exit = "boot"
    /\ exit' = "up"
    /\ StartServer
    /\ UNCHANGED <<threw, alive, warmup>>

StartWarmer ==
    /\ exit = "up"
    /\ Start \/ StartDict
    /\ UNCHANGED <<process, pool, counters, server>>

\* bot.start returns after a signal, or throws.
BotEnds ==
    /\ exit = "up"
    /\ main = "serving"
    /\ exit' = "flag"
    /\ threw' \in BOOLEAN
    /\ UNCHANGED <<alive, warmup, pool, counters, server>>

\* metrics->stop: running_, then the socket, then the join.
StopMetrics ==
    /\ \/ exit = "flag" /\ exit' = "shutdown" /\ StopFlag
       \/ exit = "shutdown" /\ exit' = "close" /\ StopSocket
       \/ exit = "close" /\ exit' = "join" /\ StopSocket
    /\ UNCHANGED <<threw, alive, warmup>>

MutantJoinMetrics ==
    /\ exit = "join"
    /\ exit' = "warmer"
    /\ alive' = IF threw THEN Tail(alive) ELSE alive
    /\ UNCHANGED <<threw, warmup, pool, counters, server>>

JoinMetrics ==
    /\ exit = "join"
    /\ ServerOver
    /\ exit' = "warmer"
    /\ alive' = IF threw THEN Tail(alive) ELSE alive
    /\ UNCHANGED <<threw, warmup, pool, counters, server>>

\* warmer->stop, or ~CacheWarmer.
StopWarmer ==
    /\ exit = "warmer"
    /\ \/ StopBegins /\ unwinding' = threw /\ UNCHANGED alive
       \/ StopThrows /\ alive' = IF unwinding THEN alive ELSE Tail(alive)
       \/ (StopTests \/ StopJoins \/ StopJoined \/ StopJoinsDict) /\ UNCHANGED alive
    /\ UNCHANGED <<exit, threw, pool, counters, server>>

\* pool->stop: running_, then notify_all, then the joins.
StopPool ==
    /\ exit = "warmer"
    /\ main = "stopped"
    /\ exit' = "notify"
    /\ StopPoolFlag
    /\ alive' = IF unwinding THEN Tail(alive) ELSE alive
    /\ UNCHANGED <<threw, warmup, counters, server>>

NotifyPool ==
    /\ exit = "notify"
    /\ exit' = "join_pool"
    /\ NotifyAll
    /\ UNCHANGED <<threw, alive, warmup, counters, server>>

\* A worker that missed notify_all is waited for, for ever if need be.
JoinPool ==
    /\ exit = "join_pool"
    /\ \A w \in Workers : worker[w] = "ended"
    /\ exit' = "destroy"
    /\ UNCHANGED <<threw, alive, warmup, pool, counters, server>>

Destroy ==
    /\ exit = "destroy"
    /\ alive # <<>>
    /\ alive' = Tail(alive)
    /\ exit' = IF Len(alive) = 1 THEN "gone" ELSE exit
    /\ UNCHANGED <<threw, warmup, pool, counters, server>>

MainThread ==
    \/ StartMetrics \/ StartWarmer \/ StopMetrics \/ JoinMetrics \/ StopWarmer
    \/ StopPool \/ NotifyPool \/ JoinPool \/ Destroy

-----------------------------------------------------------------------------
(* The other threads.                                                      *)

\* warm_phrase: a lookup, and after a miss a synthesis that may fail.
Warms ==
    \E t \in Texts :
        /\ Lookup(t)
        /\ cached' \in {cached, cached \cup {t}}

WarmUp(thread) ==
    /\ thread
    /\ IF phrases' # phrases \/ words' # words THEN Warms ELSE UNCHANGED <<cached, misses>>
    /\ UNCHANGED <<counts, synths, failures, bucket_counts, hist_count,
                   process, pool, server>>

PoolWorker(w) == Worker(w) /\ UNCHANGED <<warmup, process>>
PoolWakes(w) == WokenUp(w) /\ UNCHANGED <<warmup, process>>
Server == Serve /\ UNCHANGED <<warmup, process>>
Clients == (ClientConnects \/ ClientActs) /\ UNCHANGED <<warmup, process>>

ProcessNext ==
    /\ ~aborted
    /\ \/ MainThread \/ BotEnds
       \/ WarmUp(PhraseThread) \/ WarmUp(DictThread)
       \/ \E w \in Workers : PoolWorker(w) \/ PoolWakes(w)
       \/ Server \/ Clients

(* Every thread of the process that can run does, and VOICEVOX answers.    *)
(* Nobody has to end the bot, no client has to say anything, and nothing   *)
(* but notify_all has to wake a worker that sleeps.                        *)
ProcessSpec ==
    /\ ProcessInit /\ [][ProcessNext]_all
    /\ WF_all(~aborted /\ MainThread)
    /\ WF_all(~aborted /\ WarmUp(PhraseThread))
    /\ WF_all(~aborted /\ WarmUp(DictThread))
    /\ \A w \in Workers : WF_all(~aborted /\ PoolWorker(w))
    /\ WF_all(~aborted /\ Server)

-----------------------------------------------------------------------------

Destroyed(object) == \A i \in DOMAIN alive : alive[i] # object

WarmerRuns == phrase \notin {"unborn", "ended"} \/ dict \notin {"unborn", "ended"}

\* Who uses what: the members a thread reads are references into these.
Used(object) ==
    CASE object = "metrics" -> ~ServerOver
      [] object = "warmer" -> WarmerRuns
      [] object = "pool" -> WarmerRuns \/ ~ServerOver \/ \E w \in Workers : worker[w] # "ended"
      [] object = "engine" -> WarmerRuns \/ \E w \in Workers : worker[w] # "ended"
      [] object = "guild_states" -> ~ServerOver
      [] object = "db" -> dict \notin {"unborn", "ended"}

(* Whatever ends the bot, no thread of the process uses a local of main    *)
(* that has been destroyed (main.cpp:311, and the order of declarations).  *)
(* on_synth_ is part of it on the orderly way out: when main unwinds, the  *)
(* metrics go before the workers that report to them.                      *)
DestroyedUnused ==
    /\ \A i \in DOMAIN Locals : Destroyed(Locals[i]) => ~Used(Locals[i])
    /\ Destroyed("metrics") /\ ~threw /\ ~unwinding => \A w \in Workers : worker[w] # "on_synth"

\* notify_all has come, and a worker is still between the predicate and its
\* sleep: it will sleep on.
NotifyMissed == exit = "join_pool" /\ \E w \in Workers : worker[w] = "block"

(* Once bot.start has ended the process ends too, or was aborted by the    *)
(* warm-up: the stops, each of which waits for other threads, never wait   *)
(* for ever, with two exceptions: a client that connects to the metrics    *)
(* server and says nothing, because serve_loop reads with no timeout       *)
(* (metrics.cpp:97); and a worker that misses the notify_all of pool->stop,*)
(* which does not take notify_mutex_ (synthesizer.cpp:28).                 *)
ExitEnds ==
    \/ <>[](serve = "recv" /\ client = "silent")
    \/ exit = "flag" ~> exit = "gone" \/ aborted \/ NotifyMissed

Counted == SumFunctionOnSet(counts, Texts)
At(label) == Cardinality({w \in Workers : worker[w] = label})

(* The counters agree across their locks: every miss is a text counted by  *)
(* the frequency tracker, about to be, or a lookup of the warm-up; and     *)
(* every text counted has ended in a time, a timeout or an error, or is    *)
(* with a worker.                                                          *)
CountersAgree ==
    /\ misses - Counted - At("missed") \in 0 .. phrases + words
    /\ Counted \in synths + At("synth") .. synths + failures + At("synth")
    /\ synths = hist_count + At("on_synth")

(* A page is a histogram whatever the workers record meanwhile: the buckets*)
(* are cumulative and the last one is the count, and no number on it is    *)
(* smaller than on the page before (metrics.cpp:133).                      *)
PagesAreSound ==
    [][ /\ page'.le[Inf] = page'.count
        /\ \A b \in 1 .. Buckets : page'.le[b] <= page'.le[b + 1]
        /\ \A b \in 1 .. Inf : page.le[b] <= page'.le[b] ]_page

=============================================================================
