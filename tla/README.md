# Simvoice in TLA+

Models, model-checking runs and machine-checked proofs for Simvoice, a Discord
bot that reads the messages of a text channel aloud in a voice channel with
the VOICEVOX engine. Paths are relative to the repository's root; the program
is in `src/`, the schema in `migrations/`.

    tlc -config PoolSchedule.cfg MCSynthesizerPool    # one run
    tlapm SynthesizerPoolProofs.tla                   # one module of proofs

`PROJECT.json` lists the runs with their properties, the definitions with the
lines they model, a mutant of the code for every property, the hazards and the
theorems.

## 1. Inventory

| Component | State | Operations | Talks to |
|---|---|---|---|
| Synthesizer pool (`src/tts/synthesizer.cpp`) | queues per guild, `guild_order_`, `rr_index_`, `pending_`, `running_`, workers, counters | `submit`, `clear_guild`, `take_work`, `worker_loop`, `stop` | called by the handlers and `main`; calls the engine, the cache and `on_complete` |
| Guild queue (`src/guild/queue.cpp`) | a deque | `push`, `try_pop`, `clear` | only inside the pool |
| Opus cache (`src/audio/cache.cpp`) | `map_`, `lru_`, `current_bytes_`, `hits_`, `misses_` | `get`, `put`, `evict_if_needed` | workers and warm-up threads |
| Warm-up (`src/tts/warmup.cpp`) | `running_`, `thread_`, `dict_thread_` | `start`, `start_dict`, `stop`, the two threads, the destructor | engine, cache, database, `main` |
| Voice session (`src/main.cpp`, `src/bot/commands/join.cpp`, `src/bot/handler.cpp`, `src/guild/state.cpp`) | the bound text channel; DPP's connection and member cache | `/join`, `/leave`, `/clear`, voice state updates, messages | DPP, the pool, the settings |
| Settings (`src/bot/commands/settings.cpp`, `src/db/database.cpp`) | rows of `guild_settings` and `user_speakers` | `/set` and its ten options | SQLite, the message handler |
| Migrations (`src/db/database.cpp`, `migrations/`) | table `_migrations`, the schema | `migrate` at every start | SQLite, other processes of the cluster |
| Text (`src/tts/preprocessor.cpp`, `src/tts/sentence_splitter.cpp`) | none | `process` and its steps, `split_sentences` | message handler, pool |
| Dictionary (`src/bot/commands/dict.cpp`, `src/db/database.cpp`) | rows of `guild_dict` | `/dict` add, remove, list | SQLite, the message handler, the warm-up |
| Metrics (`src/metrics/metrics.cpp`) | histogram, `running_`, `listen_fd_`, `thread_` | `start`, `stop`, `serve_loop`, `record_synth_ms` | pool, guild states, HTTP clients |
| Frequency tracker (`src/tts/warmup.cpp`) | `counts_`, `entries_` | `record`, `top` | workers; `/stats` shows the top five |
| Process (`src/main.cpp`) | the locals of `main` | start, the three stops, destruction | everything |
| Engine, audio pipeline, configuration, scripts | - | - | - |

How they interact. DPP receives events on one thread, keeps its cache of
members and channels up to date there, and runs the bot's handlers on a pool of
threads. A message handler builds a request and hands it to the synthesizer
pool with a callback; a worker of the pool takes it, splits it into sentences,
and for each asks the cache or the engine and calls back with Opus frames.
`main` stops metrics, warm-up and pool in that order and destroys them.

What is hard here:

* a condition variable whose predicate reads atomics that are written, and
  notified, without its mutex (`submit`, `stop`);
* an unsigned counter raised after the push, lowered after the pop, and not
  lowered by a clear;
* a round robin over a list that grows, with a position kept in a loop;
* a synthesis in a thread of its own, with a timeout and a late end;
* handlers that read state, call Discord and act on what they read;
* commands that read a row, compute and write it back;
* a migration of several statements, not in a transaction with its record;
* a `std::thread` joined from two threads;
* a socket's descriptor overwritten by one thread and polled by another;
* counters of one event kept under five locks, on a path that may leave between
  any two of them;
* locals destroyed in the reverse order of declaration, while threads refer to
  them, on two ways out of `main`;
* a search that goes on in the text it is replacing in, and loops that count
  characters and cut bytes.

What makes each component correct: nothing accepted is lost or spoken twice,
guilds share the workers, cleared text stays silent, stop ends and leaves
silence (pool); list, map and byte count agree, and the least recent goes first
(cache); the dictionary waits for the phrases and stop leaves no thread behind
(warm-up); binding, connection, queue and members agree once events are handled
(session); an option changes what it names and what is shown is what is heard
(settings); a recorded file is complete and the schema is there (migrations);
the stops end, in an order that leaves nobody with a dangling reference
(process); the counters agree and the histogram of a page is of one moment
(metrics); the dictionary is applied to the end, nothing but what is said to be left out is lost, and no
character is cut (text).

## 2. Plan

In order of importance, with what is done:

1. `SpeechQueue` (abstract) and `SynthesizerPool`, runs, proofs: **done**.
2. `RecencyCache` (abstract) and `AudioCache`, run, proofs of the byte count
   and of the refinement: **done**.
3. `CacheWarmer`, `VoiceSession`, `Settings`, `Migration`, each with its
   proofs: **done**.
4. `MetricsServer`, and `Shutdown`, which composes it with `CacheWarmer`, the
   workers and `main`: **done**, the safety of the shutdown, the agreement of
   the counters and the pages proved.
5. Text: `TextPreprocessor` and `SentenceSplitter`, pure, and `MessageReading`,
   which steps through `apply_dict` while `/dict` commands run: **done**, and
   their four properties proved for texts of any length.
6. A composition of `VoiceSession` with `SpeechQueue` in place of its queue
   counter, with `on_complete` holding the voice client of its connection: left,
   for it needs the order in which DPP destroys a connection and its client,
   which is not in this repository.

## 3. The modules

### SynthesizerPool, SpeechQueue

One action is one step between two points where another thread can be observed.

| Code | Actions |
|---|---|
| `submit` | `Push` (under `guilds_mutex_`), `Count` (`++pending_`), `Notify` (`notify_one`) |
| `clear_guild` | `Clear` |
| `stop` | `StopFlag`, `StopNotify`, `StopJoin` |
| `worker_loop`, waiting | `LoopTest`, `CheckPredicate`, `Block`, `SpuriousWake`, `AwakeTest` |
| `take_work` | `TakeWork`, `TakeNothing`; `Slot`, `Visited` and `After` are the loop over `guild_order_` |
| `--pending_` | `Claim` |
| the sentences | `LookupHit`, `LookupMiss`, `SynthEnd`, `Timeout`, `LateEnd`, `Encode`, `Speak`, `Fail`, `Finish` |

`CheckPredicate` and `Block` are two steps because the predicate is evaluated
under `notify_mutex_` and the notifiers do not hold it: a notification may fall
between them. `MutexFree` is `notify_mutex_`. A cache lookup is a choice
between hit and miss, because the warmer fills and eviction empties the cache
at any time. `pending_` wraps at `Word`, which the assumption makes larger than
the number of requests, as 2^64 is. `spoken`, `claimed` and `dropped` are
history: no action reads them. `Speak` is `on_complete` having returned.

`SpeechQueue` is what the pool promises: a request is accepted once, waits in
its guild's line, is taken from the head by a free slot, and speaks some of its
sentences in increasing order. The mapping takes workers for slots, queues for
lines and the requests pushed for those accepted. The order between two
requests of one guild that two workers hold at the same time is not promised,
because the code does not keep it.

### AudioCache, RecencyCache

`Hit` and `Miss` are `get`, `Put` and `PutRefused` are `put`, `GiveUp` is a
synthesis that failed or came too late. Between a miss and its put other
clients run. `make_key` is a function into the hash values and may collide. The
eviction's loop is stated by what it leaves: the longest front of `lru_` that
makes room, where `BytesAfter` is the running value of `current_bytes_`: the
sizes (`Size`) of the keys already evicted are taken off it.
`RecencyCache` keeps one sequence of entries and sums the bytes afresh.
`MaxLookups` bounds `hits_ + misses_`.

### CacheWarmer

Three threads: `main` (`Start`, `StartDict`, `StopBegins`, `StopTests`,
`StopJoins`, `StopThrows`, `StopJoined`, `StopJoinsDict`), the phrase thread
(`PhraseTest`, `PhraseWarm`) and the dictionary thread (`Dict...`). `joinable`
and `joiner` are the state of `thread_`, which two threads use with no lock;
the outcomes of that race are the ones libstdc++ produces over pthreads: the
second join throws. Where the exception goes is modelled: out of a thread or a
destructor it is `std::terminate`, out of the `stop` in `main` it unwinds and
the destructor stops once more. The module has no passing run of its own: it
runs inside `Shutdown`.

### MetricsServer, Shutdown

`MetricsServer` is one sentence of a worker, seen by its counters, and the
thread that shows them.

| Code | Actions |
|---|---|
| `worker_loop`, waiting | `FindsNothing` (the predicate fails), `FallsAsleep`, `WokenUp`, `WorkerEnds` |
| `worker_loop`, one sentence | `Take` (with `AudioCache::get`), `RecordText`, `SynthTimesOut`, `LateEnds`, `Throws`, `RecordTime`, `RecordSynthMs`, `Put`, `Speak` |
| `serve_loop` | `ServeTest`, `ServePoll`, `ServeWoken`, `ServeAccept`, `ServeRecv`, `RenderHistogram`, `ServeSend` |
| `start`, `stop` | `StartServer`, `StopFlag`, `StopSocket` (twice: `shutdown`, then `close` and -1), and the join in `Shutdown` |
| the pool's `stop` | `StopPoolFlag`, `NotifyAll`, and the join in `Shutdown` |
| HTTP clients (external) | `ClientConnects`, `ClientActs` |

A worker at "wait" may take a next sentence or find nothing, whatever
`pending_` is: the requests themselves are in `SynthesizerPool`. `NotifyAll`
reaches a worker that sleeps, and misses one that has evaluated its predicate
and does not sleep yet. `WokenUp` is a `notify_one` or a spurious wake-up, and is
not fair.

The race on `listen_fd_` shows in `poll` and `accept` only, and only as ready,
failed or timed out; all three lead to the test of `running_`.

`Shutdown` extends `CacheWarmer` and `MetricsServer` and puts `main` over them:
`StartMetrics`, `StartWarmer`, `BotEnds` (a signal, or `bot.start` throws),
`StopMetrics`, `JoinMetrics`, `StopWarmer`, `StopPool`, `NotifyPool`, `JoinPool`,
`Destroy`.
`alive` holds `main`'s locals in the order of their destruction. On the orderly
way the stops come first and the destruction after; when `main` unwinds the
stops are those of the destructors, one destruction each. `main`'s steps in the
warm-up are those of `CacheWarmer`, and `WarmUp` its threads with what
`warm_phrase` does to cache and counters, so the process implements
`CacheWarmer` (proved as `WarmerImplemented`). `Warms` makes the lookup, the
synthesis and the put of one phrase a single step: the cache has its own lock
for each of the first and the last, the properties count the lookup only, and
the interleaving of lookups and puts is in `AudioCache`.

### TextPreprocessor, SentenceSplitter, MessageReading

A character is a member of an alphabet (`Characters`) with one member for each
class the code tells apart, and a width in bytes. A text is a sequence of characters up to
`truncate_utf8`, and of bytes from there on, where `Truncate` and
`SplitSentences` do what the code does byte by byte. `Rewrite` is
`std::regex_replace`; `BlockAt`, `InlineAt`, `SpoilerAt`, `UrlAt` and `DigitsAt`
are the regular expressions. `Cut` is the loop of `split_sentences`:
`From[pos][start]` is what it cuts when it stands at `pos` with a sentence begun
at `start`. A mention, a channel, an emote and a scheme with
its `://` are one character each.

`MessageReading` is the text half of `handle_message`: `Read` (prefixes,
attachments, `dict_list`, `process` up to the dictionary), `Replace` and
`NextEntry` (the two ways an iteration of `apply_dict` goes), `Submit` (the rest
of `process`, the name), `Split` (a worker). Beside it `/dict` commands run on
threads of their own: `ReadEntries`, then `DictAdd` or `DictRemove`, whose write
may be lost to a lock of another process, as the code does not look. The
`priority` of an entry is stored and never read. `WordsAssumption` excludes an
empty word, with which `apply_dict` would not end; Discord sends no empty option.
`MCMessageReading` asserts the examples of `tests/test_preprocessor.cpp`, and
`TextPreprocessor` that what `num_to_kanji` writes reads back as the number, for
every number it is given.

### Settings

A `/set` command is three statements: `ReadGuild`, `ReadUser`, and one of
`SetPersonal`, `Toggle`, `SetShared` and `Refuse`. The result of `sqlite3_step` is
ignored and no busy timeout is set, while the processes of a cluster share the
file: a write is stored (`Stores`) or lost, and the command ends the same way.
`Effective`, `Spoken` and
`Shown` are the three places that work out a voice: for a personal change, for
a message, for the reply. `StructDefaults` and `SqlDefaults` are the two sets
of defaults. Speeds are in tenths, pitches in hundredths; a voice that is not
found is `NoRow`, which no option accepts. `/set` without an option reads the
same two rows and shows them; `Shown` says what.

### VoiceSession

`voice`, `conn` and `tasks` are DPP's: who is in which channel, the connection
`get_voice` returns, and the events waiting for a thread of the handler pool.
They, and what Discord does, are modelled from how the code uses them and are
marked external. Every handler is one action per call on shared state:
`ReadState`, `Notify`, `AutoLeave`, `LeaveClear`, `Disconnect`, `Forget`,
`AutoJoin`, `Connect`, `Bind` for a voice state update; `Join`, `Bind` for
`/join`; `LeaveClear`, `Disconnect`, `Forget` for `/leave`; `Clear`;
`Message`, `MessageVoice`, `Submit` for a message. `saw` is the guild state a
voice state handler read at its start. The pool is the number of the guild's
requests that wait (`queue`). The rate limit, the ignored prefixes and empty
text are one choice in `Submit`. A guild may have members in voice channels when
the bot comes to it (`Init`). `calm` is history: handlers have run one at a time
so far, and no moderator has disconnected the bot; no action reads it.

### Migration

`Check`, `Run` (one statement), `RunFails`, `Record` for `Database::migrate`,
`Start` and `Crash` for the process. A file in `Once` is made of statements
that fail when repeated (`ALTER TABLE ADD COLUMN`), any other of statements
that may be (`CREATE TABLE IF NOT EXISTS`). `Locked` is `SQLITE_BUSY` with no
busy handler; the result of the `INSERT` into `_migrations` is ignored by the
code, and so `Record` may record nothing. The files are given in the order of their
names, which is `std::sort`'s, and can be read: one that cannot be opened would
be run as an empty text and recorded (`src/db/database.cpp:57`).

## 4. The runs

Every passing run has for each of its properties a mutant: a plausible slip in
one definition which makes TLC find that property violated.

| Run | Shows | Bounds, and why they are enough |
|---|---|---|
| `PoolSchedule` | `Exclusive`, `Accounted`, `PendingLedger`, `NoStranding`, `MissMeansEmpty`, `RoundRobin` | two workers, three requests over two guilds, word 4: two requests contend for one queue, the third makes the round robin turn, `pending_` can wrap; workers are symmetric |
| `PoolSpeech` | `ClearedStaySilent`, `LossIsCounted`, `SilentAfterStop`, `SpeechSpec`, and under `Fairness` `StarvedOnlyAsleep`, `StopReturns` | two workers, two requests of one guild, of two sentences and of one: hits, timeouts and failures before, between and after sentences, and two workers on one guild |
| `AudioCache` | `ListMatchesMap`, `ByteAccounting`, `RecencySpec` | two clients, five utterances, one collision, one empty, one larger than the cache, of sizes such that one put evicts one entry and another two, eight lookups |
| `Shutdown` | `DictAfterPhrases`, `QuietWhenStopped`, `DestroyedUnused`, `CountersAgree`, `PagesAreSound`, `LateStopIsClean`, and under the fairness of `ProcessSpec` `ExitEnds` | one phrase, one word, one worker, one text, one bucket and +Inf, one client, two misses or failures: both warm-up threads and the worker can be at any step when the stop comes, the worker asleep or about to sleep among them; a hit, a miss, a timeout and an error occur; all but `ExitEnds` are proved for any numbers |
| `Settings` | `ShownIsSpoken`, `OneColumnAtATime`, `PersonalOptionsAreIndependent` | two commands interleaved at every statement, a manager and a member, a voice and style 0, a speed at its bound and one beyond, a flag, a voice for the guild, any write may be lost; commands are symmetric |
| `Session` | `NeverAlone`, `BoundIsConnected`, `NothingQueuedWhenGone` | two handlers, two members who may already be in one of two channels, all commands, three happenings, moderators that disconnect the bot; handlers, members and channels are symmetric. All three properties are proved for any numbers |
| `Migration` | `RecordedIsComplete`, `FilesInOrder`, `UpMeansMigrated`, `FailsOnlyInWindow` | two processes of a cluster, two files of three statements each, three starts of each process, a kill anywhere |
| `Text` | `DictionaryApplied`, `SubmittedIsWhole`, `SentencesKeepSpeech`, `LoopAdvances` | every text of up to four characters over seventeen, to seven where code, and to five or six where spoilers, digits and sentence ends, need it; three words of which one begins with another and one is the end of it, three readings of which one holds a word twice; `max_chars` 4 and `min_length` 3, so both limits are met; three `/dict` commands of two members while a message is read |

Some of these properties have exceptions, and each is a weakness of the code:

* `StopReturns` starts from a stop whose `notify_all` found no worker between
  predicate and block. In that window the join waits for a worker that sleeps
  for ever, by the same slip as `PoolStarves`.
* `StarvedOnlyAsleep` excepts the state in which every worker sleeps, which a
  pool of one worker can reach: `PoolStarves` shows it.
* `ShownIsSpoken` and `PersonalOptionsAreIndependent` except style 0, which is
  a voice to `handle_message` and "not set" to `render_settings` and
  `resolve_effective_speaker_id`.
* `PersonalOptionsAreIndependent` holds of a command whose reads are still
  current (`Fresh`): of two personal changes together one is put back. Of two
  toggles of one flag together one is lost: both write the opposite of the same
  value (`Toggle`).
* `BoundIsConnected` and `NothingQueuedWhenGone` are of histories in which
  handlers ran one at a time and nobody kicked the bot (`calm`): a request
  tested before a `/leave` and queued after it stays, and a bot that was
  disconnected keeps its binding, which the gauge of active connections counts
  (`src/metrics/metrics.cpp:161`).
* `ExitEnds` excepts a client of the metrics port that connects and stays
  silent: `recv` has no timeout (`src/metrics/metrics.cpp:97`), and `stop` joins.
  It excepts a worker that misses the `notify_all` of `pool->stop`, as
  `StopReturns` does: `main` then waits in the join
  (`src/tts/synthesizer.cpp:30`) for good. It allows an abort by
  the warm-up, which `WarmerAborts` shows.
* `DestroyedUnused` excepts `on_synth_` when `main` unwinds: the metrics go
  before the workers are joined, and the callback uses them.
* `FailsOnlyInWindow` is of a process that runs alone: with two, one may meet
  the other's half-applied `ALTER TABLE`s.

Runs that end in a violation each hold a sentence of the repository against the
code:

| Run | Sentence | What happens |
|---|---|---|
| `PoolStarves` | `src/main.cpp:150`, messages of the channel are read | the notification of `submit` falls between predicate and block, and every worker sleeps |
| `WarmerAborts` | `src/tts/warmup.cpp:109`, interrupted in order | two joins of one thread, `std::terminate` |
| `SettingsVoiceLost` | `README.md:11`, changes one's speed | a user with style 0 loses the voice |
| `SessionFollows` | `src/main.cpp:225`, follows when not connected | the state was read before the leave |

`PoolStarves` needs fairness to be a violation at all, and a pool of one worker,
which `main` makes where `hardware_concurrency()` is 1 (`src/main.cpp:74`): of two,
only one can be between predicate and block, and the other is awake or is the
one notified. Its run ends in a state where every worker sleeps and nothing
further is due.

Seen while modelling and not held by a run: a synthesis that is late is waited
for by the worker itself, where the comment at `src/tts/synthesizer.cpp:136`
says "in the background" (`Timeout`, `LateEnd`); auto-leave may leave a member
who came in after the count (`AutoLeave`, then `Disconnect`); arrivals are
never announced although the comment at `src/main.cpp:162` has both; nothing
reads `max_queue` but the page of `/set`, although `README.md:17` has "キュー上限を変更"; the example at
`src/tts/preprocessor.cpp:134` gives "百二十三" for 123 where `num_to_kanji` says
"一百二十三"; a spoiler with a single bar in it is read out (`SpoilerAt`);
`synth_times_ms_` keeps every time there ever was (`src/tts/synthesizer.cpp:147`).

Deadlock is checked in the settings runs and in `Text`. Elsewhere the system may stop: all
workers asleep or gone, all events handled, the process down.

**Fairness.** `SynthesizerPool!Fairness`: a submit once begun, the stop once
begun and every worker keep running, which the operating system's scheduler
gives, and the engine answers, which a worker in `LateEnd` and the stop rely on.
Nobody has to submit, clear or stop, and no wake-up is spurious for certain. Weak
fairness is enough for a worker, because each of its steps stays possible until
it is taken, but for the predicate, which waits for `notify_mutex_`; that is
held for one step that is itself fair. `Shutdown!ProcessSpec`: `main`, the two
warm-up threads, each worker and the server's thread run unless the process has
aborted, and the engine answers; `BotEnds` is not fair, nor is a client, nor is `PoolWakes`: only `notify_all` is
sure to wake a worker that sleeps. A worker
that has no bound on sentences left in the model still ends, because it tests
`running_`. `Text` has no liveness: that a message is read to its end follows
from `LoopAdvances`, whose measure falls with every step, and from the absence
of deadlock.

## 5. The proofs

TLAPS checks, for every value of the constants under the named assumptions:

* `SynthesizerPoolProofs`: `TypeOK`, `Exclusive`, `Accounted`, `PendingLedger`,
  `NoStranding`, `MissMeansEmpty`, `RoundRobin`, `ClearedStaySilent`,
  `LossIsCounted`, `SilentAfterStop` and the refinement `SpeechSpec`. From `PoolAssumption`.
* `AudioCacheProofs`: `ListMatchesMap`, `ByteAccounting` and the refinement
  `RecencySpec`. From `CacheAssumption`.
* `ShutdownProofs`: of the warm-up by itself `TypeOK`, `DictAfterPhrases`,
  `QuietWhenStopped`, `LateStopIsClean`, from `WarmerAssumption`; then
  `WarmerImplemented`, the refinement of `CacheWarmer` by the process, and with
  it those three properties in the process; `DestroyedUnused` (with its
  exception: `on_synth_` when `main` unwinds), `CountersAgree` and `PagesAreSound`. From `MetricsAssumption`: finitely many workers and
  sentences, some sentence, any number of buckets.
* `MessageReadingProofs`: `TypeOK` (defined there), `LoopAdvances`,
  `DictionaryApplied`, `SubmittedIsWhole`, `SentencesKeepSpeech`, for any
  alphabet that has the program's own characters, any messages, words, readings and limits. From `CharactersAssumption`
  (what the program writes is over the alphabet), `WordsAssumption` (no word
  and no reading is empty) and `TextAssumption` (what users enter is over the
  alphabet, the limits are naturals).
* `VoiceSessionProofs`: `TypeOK`, `NeverAlone`, `BoundIsConnected`,
  `NothingQueuedWhenGone`. From `SessionAssumption`.
* `SettingsProofs`: `TypeOK`, `OneColumnAtATime`, `ShownIsSpoken`,
  `PersonalOptionsAreIndependent`, for any number of commands and any inputs,
  whichever writes are lost. From `SettingsAssumption`.
* `MigrationProofs`: `TypeOK`, `RecordedIsComplete`, `FilesInOrder`,
  `UpMeansMigrated`, `FailsOnlyInWindow`.

How they go:

* **Pool.** Four layers. `TypeInv` adds to `TypeOK` which worker holds a
  request where. `PlaceInv` adds to `Exclusive` and `Accounted` that a request
  is in the queue of its own guild and only after its push; without that a pop
  could not be shown to leave the other queues alone. `PendingLedger` then
  counts: a request moves `Counted` up once and `claimed` up once, each by a
  request not in it before, and both are subsets of a finite set smaller than
  the word, which is what turns the wrapped counter back into a number and
  gives `NoStranding`. `SpeechInv` bounds what was spoken by the position of
  the worker, from which `ClearedStaySilent` and the step of the refinement
  follow. `RoundRobin` and `MissMeansEmpty` are facts about `Slot`, which runs
  through all turns once. `LossInv` counts for `LossIsCounted`: with the requests
  let go short it counts those whose worker is already behind, and then a
  timeout or a failure adds at most one request and one mark, and no other
  step adds any. `StopInv` (a pool that stopped has only exited workers)
  gives `SilentAfterStop`.
* **Cache.** `Inv` adds the ranges to `ListMatchesMap`; the work is in
  `MovedToFront` being a rearrangement and in the front kept by the eviction
  being the domain of the new map. `Held` adds that every key of the map has an
  utterance, which makes the running count a sum of naturals: the sum over the
  map is the sum along the list, because the list names each key once, so what
  the eviction takes off from the back leaves the sum of the front. With it the
  eviction that goes by the running count is the one of `RecencyCache`, which
  sums afresh, and a hit or a put is the abstract one.
* **Warm-up.** `IInv` ties the join of the phrase thread to its end (whoever has
  joined it found it ended) and the loops to their bounds. `LateStopIsClean`
  rests on `Late`: once the dictionary thread is past its join, the
  phrase thread can be joined no more, so `stop` finds only one thread to join, and
  every step stays there.
* **Process.** Every step of `Shutdown` is a step of `CacheWarmer` or leaves its
  variables alone, so its invariant holds here without a second proof.
  `Stages` then says, for each stage of `main`, which locals are there and
  which threads are over; a local is destroyed only at stages where its users
  are over.
* **Counters.** `CounterTypes` adds the ranges to `CountersAgree`. `Counted` is
  a sum over texts and `At(label)` the number of workers at a step; a step of a
  worker moves it from one label to another (`SumRaised` for the texts), and
  each inequality is kept because the counter it raises and the label it leaves
  change together. `HistogramAgrees` says that the buckets add up to the
  count; the buckets never go back, so neither do their sums on a page.
* **Session.** `NeverAlone` rests on `Attended`: when nobody is left in the bot's
  channel, an arrival is still to come, or a voice state event waits, or a handler
  is at a step before its count. It needs no more, whatever handlers interleave.
  The other two need `OneAtATime` (while `calm`, at most one handler is under
  way) and `Orderly`, which says at which steps of that one handler binding,
  connection and queue may be out of step.
* **Settings.** `IInv` adds to `TypeOK` what a command carries from its reads to
  its write: whole rows with legal values, because a personal change copies
  them. That the defaults in C++ and in SQL are the same row is a step of
  `OneColumnAtATime`, for the command that creates the row.
* **Migration.** `IInv` adds to what is recorded what each process has behind
  it: a process at a file has every file before it complete, and a process at a
  statement has the effect of those before it. `FailsOnlyInWindow` adds `Alone`,
  `Unborn` and `Window`: a process with the database to itself, in its first life,
  meets only statements that are new.
* **Text.** `LoopInv` says what the loop of `apply_dict` has done: the text up
  to `pos` is final, and reading the rest with the entry in turn gives what the
  dictionary makes of the text the entry began with. It is inductive because
  `std::string::find` gives the first place of the word (`Missed` before it) and
  what is passed is never looked at again; a word that is not empty makes
  `LoopAdvances` fall. `SubmittedIsWhole` rests on `PassedCharacters`: the
  position of `truncate_utf8` is always the end of a character, by induction
  over the characters passed, and on `NormalizedSays`: what whitespace leaves
  and is not empty has a character that is no blank. `SentencesKeepSpeech` goes
  backwards over the characters of the request (`CutIsCut`): standing at the
  end of character `k` with a sentence begun at the end of `m`, the splitter
  makes an `IsCut` of everything from `m + 1` on, provided there is no end mark
  between them.

Induction over data. The library's induction theorems take an operator as a
parameter, which none of the provers used here can instantiate. `Inductions`
goes round them: a set of subsets of a finite set has a smallest member, and
the induction is made on it (`SmallestSet`, `SubsetInduction`, `UpwardInduction`
over a set instead of a predicate). With that it shows that the equation of a
recursive function has exactly one solution, for the shapes that occur: a sum
over a finite set, a value carried over `0 .. n`, the concatenation of the
members of a sequence, and sequences whose members are each replaced by a
sequence (`Spread`: the bytes of a text, the speech of bytes). The
models write recursion as functions of one argument (`Cut` as a function of
functions) so that these apply.

Only model-checked: liveness under fairness (`StarvedOnlyAsleep`, `StopReturns`,
`ExitEnds`), which the provers cannot reason about, and the four runs that end
in a violation. Evaluated by TLC and not proved: that every number up to 9999
reads back (`NumbersKeepTheirValue`, a finite statement) and the
examples of the tests in `MCMessageReading`.

## 6. Not modelled, and why

* The engine and the audio pipeline: foreign or numeric code; a synthesis is
  "ends well", "throws" or "is late".
* The layout of `/stats`, of the metrics page and of replies: what they read is
  modelled as counters, what they print is not. `FrequencyTracker::top` sorts
  a copy.
* The rate limit's clock: whether a message is refused by it is a choice.
* `src/bot/commands/voice.cpp`: not in `CMakeLists.txt`, nothing calls it.
* Configuration, `/ping`, `/skip`, autocomplete, registration of commands: no
  state of the bot.
* That a lost write is reported: the reply of `/set` and `/dict` claims success
  whatever `sqlite3_step` returned. The models lose the write; there is no
  promise of the code to hold against it.
* A migration file that cannot be opened (see `Migration`).
* Characters by their code points: the classes of `strip_unicode_emoji` are two
  emoji, of three and of four bytes, next to letters that are none. The shape of
  `<@1>` and of emotes is one character.
* The event handlers on DPP's threads while `main` leaves: when they end is up to
  the cluster, which is declared first and destroyed last.
* DPP beyond what the handlers use. In particular the lifetime of the voice
  client a queued `on_complete` points to is not modelled; it is listed as a
  hazard.
