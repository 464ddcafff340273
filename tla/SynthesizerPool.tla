---------------------------- MODULE SynthesizerPool ----------------------------
(***************************************************************************)
(* The synthesis pool (src/src/tts/synthesizer.cpp) with its guild queues  *)
(* (src/src/guild/queue.cpp): threads that submit requests or clear a      *)
(* guild, worker threads that take the requests round robin over the       *)
(* guilds and speak them sentence by sentence, the synthesis each worker   *)
(* launches in a thread of its own, and the thread that stops the pool.    *)
(*                                                                         *)
(* One action is one step between two points at which another thread can   *)
(* be observed: a critical section of guilds_mutex_, an access to          *)
(* running_ or pending_, a notification, the evaluation of the condition   *)
(* variable's predicate, the block that follows it, a call of on_complete. *)
(* A notification takes no mutex, so it may fall between those last two.   *)
(*                                                                         *)
(* The cache is a choice between hit and miss (the warmer fills it and     *)
(* eviction empties it behind the workers' back); AudioCache models it.    *)
(***************************************************************************)
EXTENDS Integers, Sequences, FiniteSets

CONSTANTS
    Workers,    (* the worker threads                                    *)
    Guilds,     (* the Discord servers                                   *)
    Requests,   (* the requests ever submitted, each by its identity     *)
    GuildOf,    (* the guild of each request                             *)
    Sentences,  (* how many sentences each request's text splits into    *)
    Nobody,     (* "no request": a worker between two requests           *)
    Word        (* 2^w, the number of values of size_t                   *)

ASSUME PoolAssumption ==
    /\ IsFiniteSet(Requests)
    /\ GuildOf \in [Requests -> Guilds]
    /\ Sentences \in [Requests -> Nat \ {0}]
    /\ Nobody \notin Requests
    /\ Word \in Nat
    /\ Cardinality(Requests) < Word

VARIABLES
    running_,       (* cleared once, by stop                             *)
    stopper,        (* progress of the thread in stop                    *)
    guilds_,        (* the queue of each guild                           *)
    guild_order_,   (* the guilds that have a queue, in order of arrival *)
    rr_index_,      (* 0-based position in guild_order_ of the next turn *)
    pending_,       (* the wrapping counter the workers wait on          *)
    phase,          (* progress of the thread submitting each request    *)
    pc,             (* what each worker does next                        *)
    job,            (* the request a worker holds, or Nobody             *)
    pos,            (* the sentence of its request a worker is at, or 0  *)
    synth,          (* the std::async synthesis a worker launched        *)
    timeout_count_, error_count_,
    spoken,         (* history: sentences delivered for each request     *)
    claimed,        (* history: requests whose --pending_ has run        *)
    dropped         (* history: requests removed by clear_guild          *)

queues  == <<guilds_, guild_order_, rr_index_>>
worker  == <<pc, job, pos, synth>>
counts  == <<timeout_count_, error_count_>>
history == <<spoken, claimed, dropped>>
vars == <<running_, stopper, queues, pending_, phase, worker, counts, history>>

(* The operators named Mutant... are plausible slips; each breaks one of   *)
(* the properties at the end.                                             *)
MutantSigned(n) == n - 1
MutantReset(n) == 0

Increment(n) == IF n = Word - 1 THEN 0 ELSE n + 1
Decrement(n) == IF n = 0 THEN Word - 1 ELSE n - 1

\* std::deque::push_back and pop_front of a guild's queue.
MutantPushFront(queue, r) == <<r>> \o queue
PushBack(queue, r) == Append(queue, r)
MutantPeek(queue) == queue
MutantPopAll(queue) == <<>>
PopFront(queue) == Tail(queue)

Distinct(s) == \A i, j \in 1 .. Len(s) : s[i] = s[j] => i = j
Elements(s) == {s[i] : i \in 1 .. Len(s)}
Registered(g) == g \in Elements(guild_order_)

Init ==
    /\ running_ = TRUE
    /\ stopper = "idle"
    /\ guilds_ = [g \in Guilds |-> <<>>]
    /\ guild_order_ = <<>>
    /\ rr_index_ = 0
    /\ pending_ = 0
    /\ phase = [r \in Requests |-> "new"]
    /\ pc = [w \in Workers |-> "loop"]
    /\ job = [w \in Workers |-> Nobody]
    /\ pos = [w \in Workers |-> 0]
    /\ synth = [w \in Workers |-> "none"]
    /\ timeout_count_ = 0
    /\ error_count_ = 0
    /\ spoken = [r \in Requests |-> <<>>]
    /\ claimed = {}
    /\ dropped = {}

-----------------------------------------------------------------------------
(* submit: the push under guilds_mutex_, then the count, then the          *)
(* notification, the last two outside any mutex.                           *)

Push(r) ==
    /\ phase[r] = "new"
    /\ phase' = [phase EXCEPT ![r] = "pushed"]
    /\ guilds_' = [guilds_ EXCEPT ![GuildOf[r]] = PushBack(@, r)]
    /\ guild_order_' = IF Registered(GuildOf[r]) THEN guild_order_
                       ELSE Append(guild_order_, GuildOf[r])
    /\ UNCHANGED <<running_, stopper, rr_index_, pending_, worker, counts, history>>

Count(r) ==
    /\ phase[r] = "pushed"
    /\ phase' = [phase EXCEPT ![r] = "counted"]
    /\ pending_' = Increment(pending_)
    /\ UNCHANGED <<running_, stopper, queues, worker, counts, history>>

Asleep == {w \in Workers : pc[w] = "asleep"}

\* notify_one wakes one sleeper; with nobody asleep it leaves no trace.
Notify(r) ==
    /\ phase[r] = "counted"
    /\ phase' = [phase EXCEPT ![r] = "done"]
    /\ IF Asleep = {} THEN pc' = pc
       ELSE \E w \in Asleep : pc' = [pc EXCEPT ![w] = "wait"]
    /\ UNCHANGED <<running_, stopper, queues, pending_, job, pos, synth, counts, history>>

MutantClearResets(g) ==
    /\ Registered(g)
    /\ guilds_' = [guilds_ EXCEPT ![g] = <<>>]
    /\ dropped' = dropped \cup Elements(guilds_[g])
    /\ pending_' = 0
    /\ UNCHANGED <<running_, stopper, guild_order_, rr_index_, phase,
                   worker, counts, spoken, claimed>>

MutantClearLeavesOne(g) ==
    /\ Registered(g)
    /\ guilds_' = [guilds_ EXCEPT ![g] = IF @ = <<>> THEN @ ELSE <<Head(@)>>]
    /\ dropped' = dropped \cup Elements(guilds_[g])
    /\ UNCHANGED <<running_, stopper, guild_order_, rr_index_, pending_, phase,
                   worker, counts, spoken, claimed>>

\* clear_guild empties the queue and leaves pending_ as it is.
Clear(g) ==
    /\ Registered(g)
    /\ guilds_' = [guilds_ EXCEPT ![g] = <<>>]
    /\ dropped' = dropped \cup Elements(guilds_[g])
    /\ UNCHANGED <<running_, stopper, guild_order_, rr_index_, pending_, phase,
                   worker, counts, spoken, claimed>>

-----------------------------------------------------------------------------
(* stop: the exchange, notify_all without the mutex, the joins.            *)

StopFlag ==
    /\ stopper = "idle"
    /\ stopper' = "flagged"
    /\ running_' = FALSE
    /\ UNCHANGED <<queues, pending_, phase, worker, counts, history>>

StopNotify ==
    /\ stopper = "flagged"
    /\ stopper' = "joining"
    /\ pc' = [w \in Workers |-> IF w \in Asleep THEN "wait" ELSE pc[w]]
    /\ UNCHANGED <<running_, queues, pending_, phase, job, pos, synth, counts, history>>

MutantDetach ==
    /\ stopper = "joining"
    /\ stopper' = "stopped"
    /\ UNCHANGED <<running_, queues, pending_, phase, worker, counts, history>>

StopJoin ==
    /\ stopper = "joining"
    /\ \A w \in Workers : pc[w] = "exited"
    /\ stopper' = "stopped"
    /\ UNCHANGED <<running_, queues, pending_, phase, worker, counts, history>>

-----------------------------------------------------------------------------
(* worker_loop, up to the request.                                         *)

Go(w, from, to) ==
    /\ pc[w] = from
    /\ pc' = [pc EXCEPT ![w] = to]

quiet == <<running_, stopper, pending_, phase, counts>>

LoopTest(w) ==
    /\ Go(w, "loop", IF running_ THEN "wait" ELSE "exited")
    /\ UNCHANGED <<quiet, queues, job, pos, synth, history>>

\* notify_mutex_ is held from the predicate that fails to the block.
MutexFree == \A w \in Workers : pc[w] # "block"

MutantPredicate(w) ==
    /\ MutexFree
    /\ Go(w, "wait", IF pending_ > 0 THEN "awake" ELSE "block")
    /\ UNCHANGED <<quiet, queues, job, pos, synth, history>>

CheckPredicate(w) ==
    /\ MutexFree
    /\ Go(w, "wait", IF ~running_ \/ pending_ > 0 THEN "awake" ELSE "block")
    /\ UNCHANGED <<quiet, queues, job, pos, synth, history>>

Block(w) ==
    /\ Go(w, "block", "asleep")
    /\ UNCHANGED <<quiet, queues, job, pos, synth, history>>

SpuriousWake(w) ==
    /\ Go(w, "asleep", "wait")
    /\ UNCHANGED <<quiet, queues, job, pos, synth, history>>

AwakeTest(w) ==
    /\ Go(w, "awake", IF running_ THEN "take" ELSE "exited")
    /\ UNCHANGED <<quiet, queues, job, pos, synth, history>>

\* take_work: the k-th guild visited from rr_index_ on, k from 0.
MutantTurns == IF guild_order_ = <<>> THEN 0 ELSE Len(guild_order_) - 1
Turns == Len(guild_order_)
Slot(k) == IF rr_index_ + k < Turns THEN rr_index_ + k ELSE rr_index_ + k - Turns
Visited(k) == guild_order_[Slot(k) + 1]
MutantAfter(k) == Slot(k)
After(k) == Slot(k + 1)

TakeWork(w) ==
    /\ Go(w, "take", "claim")
    /\ \E k \in 0 .. Turns - 1 :
          /\ guilds_[Visited(k)] # <<>>
          /\ \A j \in 0 .. k - 1 : guilds_[Visited(j)] = <<>>
          /\ job' = [job EXCEPT ![w] = Head(guilds_[Visited(k)])]
          /\ guilds_' = [guilds_ EXCEPT ![Visited(k)] = PopFront(@)]
          /\ rr_index_' = After(k)
    /\ UNCHANGED <<quiet, guild_order_, pos, synth, history>>

TakeNothing(w) ==
    /\ Go(w, "take", "loop")
    /\ \A k \in 0 .. Turns - 1 : guilds_[Visited(k)] = <<>>
    /\ UNCHANGED <<quiet, queues, job, pos, synth, history>>

Claim(w) ==
    /\ Go(w, "claim", "next")
    /\ pending_' = Decrement(pending_)
    /\ claimed' = claimed \cup {job[w]}
    /\ pos' = [pos EXCEPT ![w] = 1]
    /\ UNCHANGED <<running_, stopper, queues, phase, job, synth, counts, spoken, dropped>>

-----------------------------------------------------------------------------
(* worker_loop, the sentences of a request.                                *)

\* The end of the for, or its break once the pool is told to stop.
Finish(w) ==
    /\ Go(w, "next", "loop")
    /\ pos[w] > Sentences[job[w]] \/ ~running_
    /\ job' = [job EXCEPT ![w] = Nobody]
    /\ pos' = [pos EXCEPT ![w] = 0]
    /\ UNCHANGED <<quiet, queues, synth, history>>

HasSentence(w) == running_ /\ pos[w] <= Sentences[job[w]]

LookupHit(w) ==
    /\ Go(w, "next", "speak")
    /\ HasSentence(w)
    /\ UNCHANGED <<quiet, queues, job, pos, synth, history>>

LookupMiss(w) ==
    /\ Go(w, "next", "synth")
    /\ HasSentence(w)
    /\ synth' = [synth EXCEPT ![w] = "running"]
    /\ UNCHANGED <<quiet, queues, job, pos, history>>

\* The engine, in the thread of std::async, returns or throws.
SynthEnd(w) ==
    /\ synth[w] = "running"
    /\ \E result \in {"ready", "failed"} : synth' = [synth EXCEPT ![w] = result]
    /\ UNCHANGED <<quiet, queues, pc, job, pos, history>>

MutantTimeout(w) ==
    /\ synth[w] = "running"
    /\ Go(w, "synth", "late")
    /\ UNCHANGED <<quiet, queues, job, pos, synth, history>>

Timeout(w) ==
    /\ synth[w] = "running"
    /\ Go(w, "synth", "late")
    /\ timeout_count_' = timeout_count_ + 1
    /\ UNCHANGED <<running_, stopper, pending_, phase, error_count_,
                   queues, job, pos, synth, history>>

\* future.wait() is over; whatever it holds is thrown away.
LateEnd(w) ==
    /\ synth[w] # "running"
    /\ Go(w, "late", "next")
    /\ synth' = [synth EXCEPT ![w] = "none"]
    /\ pos' = [pos EXCEPT ![w] = @ + 1]
    /\ UNCHANGED <<quiet, queues, job, history>>

Encode(w) ==
    /\ synth[w] = "ready"
    /\ Go(w, "synth", "speak")
    /\ synth' = [synth EXCEPT ![w] = "none"]
    /\ UNCHANGED <<quiet, queues, job, pos, history>>

Speak(w) ==
    /\ Go(w, "speak", "next")
    /\ spoken' = [spoken EXCEPT ![job[w]] = Append(@, pos[w])]
    /\ pos' = [pos EXCEPT ![w] = @ + 1]
    /\ UNCHANGED <<quiet, queues, job, synth, claimed, dropped>>

\* An exception of the engine, of encode_opus or of on_complete.
Fail(w) ==
    /\ pc[w] = "speak" \/ (pc[w] = "synth" /\ synth[w] # "running")
    /\ pc' = [pc EXCEPT ![w] = "loop"]
    /\ job' = [job EXCEPT ![w] = Nobody]
    /\ pos' = [pos EXCEPT ![w] = 0]
    /\ synth' = [synth EXCEPT ![w] = "none"]
    /\ error_count_' = error_count_ + 1
    /\ UNCHANGED <<running_, stopper, pending_, phase, timeout_count_,
                   queues, history>>

-----------------------------------------------------------------------------

Submitter(r) == Count(r) \/ Notify(r)
Stopper == StopNotify \/ StopJoin
Worker(w) ==
    \/ LoopTest(w) \/ CheckPredicate(w) \/ Block(w) \/ AwakeTest(w)
    \/ TakeWork(w) \/ TakeNothing(w) \/ Claim(w) \/ Finish(w)
    \/ LookupHit(w) \/ LookupMiss(w) \/ Timeout(w) \/ LateEnd(w)
    \/ Encode(w) \/ Speak(w) \/ Fail(w)

Next ==
    \/ \E r \in Requests : Push(r) \/ Submitter(r)
    \/ \E g \in Guilds : Clear(g)
    \/ StopFlag \/ Stopper
    \/ \E w \in Workers : Worker(w) \/ SpuriousWake(w) \/ SynthEnd(w)

Spec == Init /\ [][Next]_vars

(* A thread that can run is scheduled and the engine answers in the end.   *)
(* Nobody has to post, to clear or to stop, and no wake-up is spurious for *)
(* certain.                                                                *)
Fairness ==
    /\ \A r \in Requests : WF_vars(Submitter(r))
    /\ WF_vars(Stopper)
    /\ \A w \in Workers : WF_vars(Worker(w)) /\ WF_vars(SynthEnd(w))

FairSpec == Spec /\ Fairness

-----------------------------------------------------------------------------
(* What the definitions above are about.                                   *)

Pushed  == {r \in Requests : phase[r] # "new"}
Counted == {r \in Requests : phase[r] \in {"counted", "done"}}
Waiting == UNION {Elements(guilds_[g]) : g \in Guilds}
Held    == {job[w] : w \in Workers} \ {Nobody}

\* The value of a wrapping counter after n increments less decrements.
Residue(n) == IF n >= 0 THEN n ELSE n + Word

TypeOK ==
    /\ running_ \in BOOLEAN
    /\ stopper \in {"idle", "flagged", "joining", "stopped"}
    /\ guilds_ \in [Guilds -> Seq(Requests)]
    /\ guild_order_ \in Seq(Guilds)
    /\ rr_index_ \in Nat
    /\ rr_index_ < Turns \/ rr_index_ = 0
    /\ pending_ \in 0 .. Word - 1
    /\ phase \in [Requests -> {"new", "pushed", "counted", "done"}]
    /\ pc \in [Workers -> {"loop", "wait", "block", "asleep", "awake", "take",
                           "claim", "next", "synth", "late", "speak", "exited"}]
    /\ job \in [Workers -> Requests \cup {Nobody}]
    /\ pos \in [Workers -> Nat]
    /\ synth \in [Workers -> {"none", "running", "ready", "failed"}]
    /\ timeout_count_ \in Nat
    /\ error_count_ \in Nat
    /\ spoken \in [Requests -> Seq(Nat)]
    /\ claimed \subseteq Requests
    /\ dropped \subseteq Requests

(* No request is worked on twice, whatever the interleaving of submit,     *)
(* clear_guild and take_work: it is at one place of one queue, or in the   *)
(* hands of one worker, or done with, or cleared.                          *)
Exclusive ==
    /\ \A g \in Guilds : Distinct(guilds_[g])
    /\ \A v, w \in Workers : job[v] = job[w] => v = w \/ job[v] = Nobody
    /\ Waiting \cap (Held \cup claimed \cup dropped) = {}
    /\ dropped \cap (Held \cup claimed) = {}

(* No request vanishes between submit and worker_loop.                     *)
Accounted == Pushed = Waiting \cup Held \cup claimed \cup dropped

(* pending_ is, modulo the word, what was counted less what was claimed,   *)
(* although it is raised after the push, lowered after the pop, and never  *)
(* lowered by clear_guild.  A cleared request therefore stays in it for    *)
(* good, and between a push and its count it may wrap below zero.          *)
PendingLedger ==
    pending_ = Residue(Cardinality(Counted) - Cardinality(claimed))

(* Once every submit has counted, a waiting request keeps pending_ above   *)
(* zero: no worker that evaluates the predicate goes to sleep on it.       *)
NoStranding ==
    Counted = Pushed /\ Waiting # {} => pending_ # 0

(* A cleared request was never spoken and never will be.                   *)
ClearedStaySilent == \A r \in dropped : spoken[r] = <<>>

(* While the pool runs, a request let go with a sentence missing has left  *)
(* a mark in timeout_count_ or in error_count_.                            *)
LossIsCounted ==
    running_ => Cardinality({r \in claimed \ Held : Len(spoken[r]) < Sentences[r]})
                    <= timeout_count_ + error_count_

(* take_work comes back empty-handed only if no guild has a request.       *)
MissMeansEmpty ==
    [][\A w \in Workers : TakeNothing(w) => Waiting = {}]_vars

(* How many guilds are visited before the one at place i.                  *)
Distance(i) == IF i > rr_index_ THEN i - 1 - rr_index_ ELSE i - 1 - rr_index_ + Turns

(* Round robin: a guild with a request waiting comes closer each time      *)
(* another guild is served, so none overtakes it twice.                    *)
RoundRobin ==
    [][\A i \in 1 .. Turns :
          (\E w \in Workers : TakeWork(w))
          /\ guilds_[guild_order_[i]] # <<>>
          /\ guilds_'[guild_order_[i]] = guilds_[guild_order_[i]]
             => Distance(i)' < Distance(i)]_vars

(* After stop has returned nothing is spoken or taken any more.            *)
SilentAfterStop ==
    [][stopper = "stopped" => UNCHANGED <<spoken, rr_index_, worker, counts>>]_vars

(* With fair threads and an engine that answers, a request waits for ever  *)
(* in a running pool only if every worker sleeps for ever: a missed        *)
(* notification is the only way to starve.                                 *)
StarvedOnlyAsleep ==
    <>[](running_ /\ Waiting # {}) => <>[](Asleep = Workers)

(* stop returns once its notify_all has found no worker between predicate  *)
(* and block.                                                              *)
StopReturns ==
    (stopper = "joining" /\ \A w \in Workers : pc[w] \notin {"block", "asleep"})
        ~> (stopper = "stopped")

(* The pool implements SpeechQueue.                                        *)
Speech == INSTANCE SpeechQueue WITH
    Slots <- Workers, accepted <- Pushed, line <- guilds_, slot <- job
SpeechSpec == Speech!Spec

(* What main.cpp:150 tells the users of a voice channel, that its messages *)
(* are read: a request that submit has handed over does not wait for ever. *)
SubmittedIsTaken ==
    \A r \in Requests :
        (phase[r] = "done" /\ r \in Waiting) ~> (r \notin Waiting \/ ~running_)

=============================================================================
