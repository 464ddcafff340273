----------------------------- MODULE MetricsServer -----------------------------
(***************************************************************************)
(* What the bot counts and who reads it: the counters a worker of the      *)
(* synthesizer pool raises for each sentence (src/src/tts/synthesizer.cpp, *)
(* src/src/audio/cache.cpp, src/src/tts/warmup.cpp), each under a lock of  *)
(* its own, and the Prometheus server (src/src/metrics/metrics.cpp), one   *)
(* thread that answers one client after the other.  The page a client gets *)
(* is put together from reads at different moments.                        *)
(*                                                                         *)
(* A worker between two sentences is at "wait": it goes on with the next   *)
(* one, of its request or of another, or finds pending_ 0 and waits on     *)
(* notify_cv_, from the predicate that failed over "block" to "asleep".    *)
(*                                                                         *)
(* listen_fd_ is read by that thread and overwritten by stop with no lock. *)
(* A poll or an accept on the old number, on a closed one or on -1 differs *)
(* only in returning ready or failing at once, or in timing out: all lead  *)
(* back to the test of running_.                                           *)
(***************************************************************************)
EXTENDS Integers, FiniteSets, Functions

CONSTANTS
    Workers,        (* the threads of the pool                           *)
    Texts,          (* the sentences they synthesize                     *)
    Buckets,        (* how many buckets the histogram has below +Inf     *)
    MaxSentences,   (* bound: sentences that miss the cache or fail       *)
    MaxClients      (* bound: how many clients connect                   *)

\* A sentence is shorter than the longest message, so there are finitely many.
ASSUME MetricsAssumption ==
    /\ IsFiniteSet(Workers)
    /\ IsFiniteSet(Texts) /\ Texts # {}
    /\ Buckets \in Nat
    /\ MaxSentences \in Nat /\ MaxClients \in Nat

VARIABLES
    pool_running,   (* SynthesizerPool::running_                         *)
    worker,         (* each worker: its step                             *)
    sentence,       (* and its sentence                                  *)
    cached,         (* the sentences in the cache                        *)
    misses,         (* AudioCache::misses_                               *)
    counts,         (* FrequencyTracker::counts_                         *)
    synths,         (* the length of synth_times_ms_                     *)
    failures,       (* timeout_count_ + error_count_                     *)
    bucket_counts,  (* bucket_counts_, the last one for +Inf             *)
    hist_count,     (* hist_count_                                       *)
    metrics_running,(* MetricsServer::running_                           *)
    socket,         (* the listening socket: "none", "open", "shut", "closed" *)
    serve,          (* the thread of serve_loop                          *)
    client,         (* the client it serves: "none", "silent", "asks" for *)
                    (* the metrics, or "other": asks for more, or leaves *)
    backlog,        (* how many clients wait to be accepted              *)
    clients,        (* how many clients connected                        *)
    page            (* the histogram as last rendered                    *)

counters == <<cached, misses, counts, synths, failures,
              bucket_counts, hist_count>>
pool == <<pool_running, worker, sentence>>
server == <<metrics_running, socket, serve, client, backlog, clients, page>>

Inf == Buckets + 1
EmptyPage == [le |-> [b \in 1 .. Inf |-> 0], count |-> 0]

MetricsInit ==
    /\ pool_running = TRUE
    /\ worker = [w \in Workers |-> "wait"]
    /\ sentence = [w \in Workers |-> CHOOSE t \in Texts : TRUE]
    /\ cached = {}
    /\ misses = 0
    /\ counts = [t \in Texts |-> 0]
    /\ synths = 0
    /\ failures = 0
    /\ bucket_counts = [b \in 1 .. Inf |-> 0]
    /\ hist_count = 0
    /\ metrics_running = FALSE
    /\ socket = "none"
    /\ serve = "unborn"
    /\ client = "none"
    /\ backlog = 0
    /\ clients = 0
    /\ page = EmptyPage

-----------------------------------------------------------------------------
(* A worker and one sentence.  The operators named Mutant... are slips     *)
(* that the properties at the end of Shutdown catch.                       *)

Goto(w, label) == worker' = [worker EXCEPT ![w] = label]

\* cache_.get, of a worker or of the warm-up, which count alike.
Lookup(text) == misses' = IF text \in cached THEN misses ELSE misses + 1

MutantTake(w) ==
    /\ worker[w] = "wait"
    /\ pool_running
    /\ misses + failures < MaxSentences
    /\ \E t \in Texts :
          /\ sentence' = [sentence EXCEPT ![w] = t]
          /\ Lookup(t)
          /\ counts' = [counts EXCEPT ![t] = @ + 1]
          /\ Goto(w, IF t \in cached THEN "speak" ELSE "synth")
    /\ UNCHANGED <<pool_running, server, cached, synths, failures,
                   bucket_counts, hist_count>>

\* running_ is tested before each sentence; a hit only speaks.
Take(w) ==
    /\ worker[w] = "wait"
    /\ pool_running
    /\ misses + failures < MaxSentences
    /\ \E t \in Texts :
          /\ sentence' = [sentence EXCEPT ![w] = t]
          /\ Lookup(t)
          /\ Goto(w, IF t \in cached THEN "speak" ELSE "missed")
    /\ UNCHANGED <<pool_running, server, cached, counts, synths, failures,
                   bucket_counts, hist_count>>

\* freq_tracker_.record: after a miss only.
RecordText(w) ==
    /\ worker[w] = "missed"
    /\ Goto(w, "synth")
    /\ counts' = [counts EXCEPT ![sentence[w]] = @ + 1]
    /\ UNCHANGED <<pool_running, sentence, server, cached, misses, synths,
                   failures, bucket_counts, hist_count>>

\* The synthesis takes too long: the worker counts that and waits for its end.
SynthTimesOut(w) ==
    /\ worker[w] = "synth"
    /\ Goto(w, "late")
    /\ failures' = failures + 1
    /\ UNCHANGED <<pool_running, sentence, server, cached, misses, counts,
                   synths, bucket_counts, hist_count>>

LateEnds(w) ==
    /\ worker[w] = "late"
    /\ Goto(w, "wait")
    /\ UNCHANGED <<pool_running, sentence, server, counters>>

\* Synthesis or encoding throws, or on_complete does.
Throws(w) ==
    /\ worker[w] \in {"synth", "speak"}
    /\ Goto(w, "wait")
    /\ failures' = failures + 1
    /\ UNCHANGED <<pool_running, sentence, server, cached, misses, counts,
                   synths, bucket_counts, hist_count>>

\* synth_times_ms_ under stats_mutex_.
RecordTime(w) ==
    /\ worker[w] = "synth"
    /\ Goto(w, "on_synth")
    /\ synths' = synths + 1
    /\ UNCHANGED <<pool_running, sentence, server, cached, misses, counts,
                   failures, bucket_counts, hist_count>>

MutantRecordSynthMs(w) ==
    /\ worker[w] = "on_synth"
    /\ Goto(w, "put")
    /\ \E b \in 1 .. Inf :
          bucket_counts' = IF b = Inf THEN bucket_counts ELSE [bucket_counts EXCEPT ![b] = @ + 1]
    /\ hist_count' = hist_count + 1
    /\ UNCHANGED <<pool_running, sentence, server, cached, misses, counts,
                   synths, failures>>

\* on_synth_: MetricsServer::record_synth_ms under hist_mutex_.
RecordSynthMs(w) ==
    /\ worker[w] = "on_synth"
    /\ Goto(w, "put")
    /\ \E b \in 1 .. Inf : bucket_counts' = [bucket_counts EXCEPT ![b] = @ + 1]
    /\ hist_count' = hist_count + 1
    /\ UNCHANGED <<pool_running, sentence, server, cached, misses, counts,
                   synths, failures>>

\* put refuses an audio larger than the cache.
Put(w) ==
    /\ worker[w] = "put"
    /\ Goto(w, "speak")
    /\ cached' \in {cached, cached \cup {sentence[w]}}
    /\ UNCHANGED <<pool_running, sentence, server, misses, counts, synths,
                   failures, bucket_counts, hist_count>>

Speak(w) ==
    /\ worker[w] = "speak"
    /\ Goto(w, "wait")
    /\ UNCHANGED <<pool_running, sentence, server, counters>>

\* worker_loop has nothing to take: the predicate fails under notify_mutex_,
\* which is held until the worker sleeps.
FindsNothing(w) ==
    /\ worker[w] = "wait"
    /\ pool_running
    /\ \A v \in Workers : worker[v] # "block"
    /\ Goto(w, "block")
    /\ UNCHANGED <<pool_running, sentence, server, counters>>

FallsAsleep(w) ==
    /\ worker[w] = "block"
    /\ Goto(w, "asleep")
    /\ UNCHANGED <<pool_running, sentence, server, counters>>

\* notify_one of a submit, or a spurious wake-up: neither has to come.
WokenUp(w) ==
    /\ worker[w] = "asleep"
    /\ Goto(w, "wait")
    /\ UNCHANGED <<pool_running, sentence, server, counters>>

\* worker_loop ends on ~running_, tested before the wait, by its predicate,
\* after it and before each sentence.
WorkerEnds(w) ==
    /\ worker[w] = "wait"
    /\ ~pool_running
    /\ Goto(w, "ended")
    /\ UNCHANGED <<pool_running, sentence, server, counters>>

Worker(w) ==
    \/ Take(w) \/ RecordText(w) \/ SynthTimesOut(w) \/ LateEnds(w) \/ Throws(w)
    \/ RecordTime(w) \/ RecordSynthMs(w) \/ Put(w) \/ Speak(w)
    \/ FindsNothing(w) \/ FallsAsleep(w) \/ WorkerEnds(w)

-----------------------------------------------------------------------------
(* stop of the pool, called by main.                                       *)

StopPoolFlag ==
    /\ pool_running' = FALSE
    /\ UNCHANGED <<worker, sentence>>

MutantNotifyAll ==
    /\ UNCHANGED <<pool_running, worker, sentence>>

\* notify_all, without notify_mutex_: it wakes who sleeps, and a worker that
\* is about to misses it.
NotifyAll ==
    /\ worker' = [w \in Workers |-> IF worker[w] = "asleep" THEN "wait" ELSE worker[w]]
    /\ UNCHANGED <<pool_running, sentence>>

-----------------------------------------------------------------------------
(* The clients of the server.                                              *)

ClientConnects ==
    /\ socket = "open"
    /\ clients < MaxClients
    /\ clients' = clients + 1
    /\ backlog' = backlog + 1
    /\ UNCHANGED <<metrics_running, socket, serve, client, page, counters, pool>>

ClientActs ==
    /\ client = "silent"
    /\ client' \in {"asks", "other"}
    /\ UNCHANGED <<metrics_running, socket, serve, backlog, clients, page, counters, pool>>

-----------------------------------------------------------------------------
(* serve_loop.                                                             *)

ServeTest ==
    /\ serve = "test"
    /\ serve' = IF metrics_running THEN "poll" ELSE "ended"
    /\ UNCHANGED <<metrics_running, socket, client, backlog, clients, page, counters, pool>>

\* poll: a client waits, the socket was shut or closed, or a second is over.
ServePoll ==
    /\ serve = "poll"
    /\ \/ (backlog > 0 \/ socket # "open") /\ serve' = "woken"
       \/ backlog = 0 /\ serve' = "test"
    /\ UNCHANGED <<metrics_running, socket, client, backlog, clients, page, counters, pool>>

ServeWoken ==
    /\ serve = "woken"
    /\ serve' = IF metrics_running THEN "accept" ELSE "test"
    /\ UNCHANGED <<metrics_running, socket, client, backlog, clients, page, counters, pool>>

ServeAccept ==
    /\ serve = "accept"
    /\ IF backlog > 0 THEN serve' = "recv" /\ client' = "silent" /\ backlog' = backlog - 1
       ELSE serve' = "test" /\ UNCHANGED <<client, backlog>>
    /\ UNCHANGED <<metrics_running, socket, clients, page, counters, pool>>

\* recv waits for the client as long as the client likes.
ServeRecv ==
    /\ serve = "recv"
    /\ client # "silent"
    /\ serve' = IF client = "asks" THEN "render" ELSE "test"
    /\ client' = IF client = "asks" THEN client ELSE "none"
    /\ UNCHANGED <<metrics_running, socket, backlog, clients, page, counters, pool>>

Cumulative(b) == SumFunctionOnSet(bucket_counts, 1 .. b)

\* render_metrics: the histogram under hist_mutex_, after the numbers of the
\* pool and of the guilds, each of which is read at a moment of its own.
RenderHistogram ==
    /\ serve = "render"
    /\ serve' = "send"
    /\ page' = [le |-> [b \in 1 .. Inf |-> Cumulative(b)], count |-> hist_count]
    /\ UNCHANGED <<metrics_running, socket, client, backlog, clients, counters, pool>>

\* The page is sent with the errors and the timeouts, and the client closed.
ServeSend ==
    /\ serve = "send"
    /\ serve' = "test"
    /\ client' = "none"
    /\ UNCHANGED <<metrics_running, socket, backlog, clients, page, counters, pool>>

Serve ==
    \/ ServeTest \/ ServePoll \/ ServeWoken \/ ServeAccept \/ ServeRecv
    \/ RenderHistogram \/ ServeSend

-----------------------------------------------------------------------------
(* start and stop, called by main.                                         *)

\* socket, bind and listen succeed, or the server is not started.
StartServer ==
    /\ \/ socket' = "open" /\ metrics_running' = TRUE /\ serve' = "test"
       \/ UNCHANGED <<socket, metrics_running, serve>>
    /\ UNCHANGED <<client, backlog, clients, page, counters, pool>>

StopFlag ==
    /\ metrics_running' = FALSE
    /\ UNCHANGED <<socket, serve, client, backlog, clients, page, counters, pool>>

\* shutdown turns away who waits in the backlog; then close, and -1.
StopSocket ==
    /\ socket' = CASE socket = "open" -> "shut" [] socket = "shut" -> "closed" [] OTHER -> "none"
    /\ backlog' = 0
    /\ UNCHANGED <<metrics_running, serve, client, clients, page, counters, pool>>

ServerOver == serve \in {"unborn", "ended"}
=============================================================================
