------------------------------ MODULE CacheWarmer ------------------------------
(***************************************************************************)
(* The cache warm-up (src/src/tts/warmup.cpp) and main, which starts it    *)
(* and stops it on the way out (src/src/main.cpp).  Two threads: one warms *)
(* common phrases, the other joins the first and then warms the words of   *)
(* the dictionaries.  stop joins both.                                     *)
(*                                                                         *)
(* The std::thread object thread_ is used by two threads with no lock, a   *)
(* data race.  Its outcomes are those of libstdc++ over glibc: join of a   *)
(* thread that is being joined, or that has been joined since joinable was *)
(* asked, throws std::system_error.  Thrown in the dictionary thread or in *)
(* a destructor, it ends the process through std::terminate; thrown from   *)
(* the stop that main calls, it unwinds main, and ~CacheWarmer calls stop  *)
(* once more.                                                              *)
(***************************************************************************)
EXTENDS Naturals

CONSTANTS
    Phrases,    (* how many phrase-style pairs there are                 *)
    Words       (* how many word-style pairs the dictionaries give       *)

ASSUME WarmerAssumption == Phrases \in Nat /\ Words \in Nat

VARIABLES
    running_,
    joinable,   (* thread_.joinable()                                    *)
    joiner,     (* who waits in thread_.join(): "nobody", "main", "dict" *)
    phrase,     (* the phrase thread                                     *)
    phrases,    (* the phrases it has warmed                             *)
    dict,       (* the dictionary thread                                 *)
    words,      (* the words it has warmed                               *)
    main,       (* the main thread                                       *)
    unwinding,  (* main is in ~CacheWarmer because of an exception       *)
    aborted     (* std::terminate was called                             *)

vars == <<running_, joinable, joiner, phrase, phrases, dict, words,
          main, unwinding, aborted>>

Init ==
    /\ running_ = FALSE
    /\ joinable = FALSE
    /\ joiner = "nobody"
    /\ phrase = "unborn"
    /\ phrases = 0
    /\ dict = "unborn"
    /\ words = 0
    /\ main = "start"
    /\ unwinding = FALSE
    /\ aborted = FALSE

-----------------------------------------------------------------------------
(* main: start, start_dict, and what ends bot.start.  The operators named  *)
(* Mutant... are slips that the properties at the end catch.               *)

Start ==
    /\ main = "start"
    /\ main' = "start_dict"
    /\ running_' = TRUE
    /\ joinable' = TRUE
    /\ phrase' = "test"
    /\ UNCHANGED <<joiner, phrases, dict, words, unwinding, aborted>>

StartDict ==
    /\ main = "start_dict"
    /\ main' = "serving"
    /\ dict' = "test_joinable"
    /\ UNCHANGED <<running_, joinable, joiner, phrase, phrases, words, unwinding, aborted>>

\* bot.start returns and main calls stop, or it throws and ~CacheWarmer does.
StopBegins ==
    /\ main = "serving"
    /\ main' = "test_joinable"
    /\ running_' = FALSE
    /\ unwinding' \in BOOLEAN
    /\ UNCHANGED <<joinable, joiner, phrase, phrases, dict, words, aborted>>

MutantStopTests ==
    /\ main = "test_joinable"
    /\ main' = "join"
    /\ UNCHANGED <<running_, joinable, joiner, phrase, phrases, dict, words,
                   unwinding, aborted>>

StopTests ==
    /\ main = "test_joinable"
    /\ main' = IF joinable THEN "join" ELSE "join_dict"
    /\ UNCHANGED <<running_, joinable, joiner, phrase, phrases, dict, words,
                   unwinding, aborted>>

CanJoin == joinable /\ joiner = "nobody"

StopJoins ==
    /\ main = "join"
    /\ CanJoin
    /\ main' = "joining"
    /\ joiner' = "main"
    /\ UNCHANGED <<running_, joinable, phrase, phrases, dict, words, unwinding, aborted>>

\* join throws: a second stop from the destructor, or std::terminate.
StopThrows ==
    /\ main = "join"
    /\ ~CanJoin
    /\ IF unwinding THEN aborted' = TRUE /\ UNCHANGED <<main, unwinding>>
       ELSE main' = "test_joinable" /\ unwinding' = TRUE /\ UNCHANGED aborted
    /\ UNCHANGED <<running_, joinable, joiner, phrase, phrases, dict, words>>

StopJoined ==
    /\ main = "joining"
    /\ phrase = "ended"
    /\ main' = "join_dict"
    /\ joinable' = FALSE
    /\ joiner' = "nobody"
    /\ UNCHANGED <<running_, phrase, phrases, dict, words, unwinding, aborted>>

MutantStopDetaches ==
    /\ main = "join_dict"
    /\ main' = "stopped"
    /\ UNCHANGED <<running_, joinable, joiner, phrase, phrases, dict, words,
                   unwinding, aborted>>

StopJoinsDict ==
    /\ main = "join_dict"
    /\ dict = "ended"
    /\ main' = "stopped"
    /\ UNCHANGED <<running_, joinable, joiner, phrase, phrases, dict, words,
                   unwinding, aborted>>

-----------------------------------------------------------------------------
(* run: running_ is tested before each phrase.                             *)

PhraseTest ==
    /\ phrase = "test"
    /\ phrase' = IF running_ /\ phrases < Phrases THEN "warm" ELSE "ended"
    /\ UNCHANGED <<running_, joinable, joiner, phrases, dict, words, main,
                   unwinding, aborted>>

PhraseWarm ==
    /\ phrase = "warm"
    /\ phrase' = "test"
    /\ phrases' = phrases + 1
    /\ UNCHANGED <<running_, joinable, joiner, dict, words, main, unwinding, aborted>>

-----------------------------------------------------------------------------
(* run_dict: the join of the phrase thread, then the words.                *)

DictTests ==
    /\ dict = "test_joinable"
    /\ dict' = IF joinable THEN "join" ELSE "check"
    /\ UNCHANGED <<running_, joinable, joiner, phrase, phrases, words, main,
                   unwinding, aborted>>

DictJoins ==
    /\ dict = "join"
    /\ CanJoin
    /\ dict' = "joining"
    /\ joiner' = "dict"
    /\ UNCHANGED <<running_, joinable, phrase, phrases, words, main, unwinding, aborted>>

DictThrows ==
    /\ dict = "join"
    /\ ~CanJoin
    /\ aborted' = TRUE
    /\ UNCHANGED <<running_, joinable, joiner, phrase, phrases, dict, words, main, unwinding>>

MutantDictJoined ==
    /\ dict = "joining"
    /\ dict' = "check"
    /\ joinable' = FALSE
    /\ joiner' = "nobody"
    /\ UNCHANGED <<running_, phrase, phrases, words, main, unwinding, aborted>>

DictJoined ==
    /\ dict = "joining"
    /\ phrase = "ended"
    /\ dict' = "check"
    /\ joinable' = FALSE
    /\ joiner' = "nobody"
    /\ UNCHANGED <<running_, phrase, phrases, words, main, unwinding, aborted>>

\* The check after the join, and the one before each word.
DictCheck ==
    /\ dict = "check"
    /\ dict' = IF running_ /\ words < Words THEN "warm" ELSE "ended"
    /\ UNCHANGED <<running_, joinable, joiner, phrase, phrases, words, main,
                   unwinding, aborted>>

DictWarm ==
    /\ dict = "warm"
    /\ dict' = "check"
    /\ words' = words + 1
    /\ UNCHANGED <<running_, joinable, joiner, phrase, phrases, main, unwinding, aborted>>

-----------------------------------------------------------------------------

Main == Start \/ StartDict \/ StopTests \/ StopJoins \/ StopThrows \/ StopJoined \/ StopJoinsDict
PhraseThread == PhraseTest \/ PhraseWarm
DictThread == DictTests \/ DictJoins \/ DictThrows \/ DictJoined \/ DictCheck \/ DictWarm

\* Once std::terminate is called nothing runs.
Next == ~aborted /\ (Main \/ StopBegins \/ PhraseThread \/ DictThread)

Spec == Init /\ [][Next]_vars

-----------------------------------------------------------------------------

TypeOK ==
    /\ running_ \in BOOLEAN
    /\ joinable \in BOOLEAN
    /\ joiner \in {"nobody", "main", "dict"}
    /\ phrase \in {"unborn", "test", "warm", "ended"}
    /\ phrases \in 0 .. Phrases
    /\ dict \in {"unborn", "test_joinable", "join", "joining", "check", "warm", "ended"}
    /\ words \in 0 .. Words
    /\ main \in {"start", "start_dict", "serving", "test_joinable", "join", "joining",
                 "join_dict", "stopped"}
    /\ unwinding \in BOOLEAN
    /\ aborted \in BOOLEAN

(* A dictionary word is warmed only once the phrase thread is over, and it *)
(* has warmed every phrase unless the bot is stopping.                     *)
DictAfterPhrases ==
    dict = "warm" => phrase = "ended" /\ (phrases = Phrases \/ ~running_)

(* When stop has returned no thread uses the engine or the cache, which    *)
(* main destroys next.                                                     *)
QuietWhenStopped ==
    main = "stopped" => phrase = "ended" /\ dict = "ended" /\ ~joinable

(* A bot told to stop after the dictionary thread has joined the phrase    *)
(* thread never aborts.                                                    *)
LateStopIsClean ==
    [](main = "serving" /\ dict \in {"check", "warm", "ended"} => []~aborted)

(* What warmup.cpp:109 reports: a warm-up that stop interrupts ends there, *)
(* and the process goes on to its orderly end.                             *)
InterruptIsOrderly == ~aborted

=============================================================================
