----------------------------- MODULE MessageReading -----------------------------
(***************************************************************************)
(* From a message to what is said of it, and the dictionary of the guild:  *)
(* the text half of handle_message (src/src/bot/handler.cpp), the          *)
(* dictionary's loop (apply_dict of src/src/tts/preprocessor.cpp), the     *)
(* /dict command (src/src/bot/commands/dict.cpp) and its table             *)
(* (src/src/db/database.cpp), and the split into sentences by a worker.    *)
(*                                                                         *)
(* Handlers run on threads of their own.  Each statement sent to SQLite is *)
(* atomic: a /dict command reads the table, then writes it, which may fail *)
(* unnoticed when another process of the cluster has the file locked; a    *)
(* message reads it once.  The priority of an entry is stored and never    *)
(* read.                                                                   *)
(***************************************************************************)
EXTENDS SentenceSplitter

CONSTANTS
    Handlers,       (* the threads that may handle /dict                 *)
    Words,          (* the words users enter, in the order of ORDER BY   *)
    Readings,       (* and their readings                                *)
    Scenarios,      (* what may happen: [content, attachments, table,    *)
                    (* commands], the bound on /dict commands            *)
    IgnorePrefix,   (* the prefixes that hide a message                  *)
    Username,       (* the name in front of the text, or <<>> when       *)
                    (* read_username is off                              *)
    MaxChars,       (* the setting max_chars, 10 .. 500 in the program   *)
    MinLength       (* min_length of split_sentences, 30 in the program  *)

VARIABLES
    guild_dict,     (* the table: the reading of each word, or Absent    *)
    handler,        (* each /dict handler                                *)
    commands,       (* how many /dict commands may still come            *)
    content,        (* the message: its text                             *)
    attachments,    (* and whether it has attachments                    *)
    stage,          (* how far handle_message is                         *)
    dict,           (* the entries it read                               *)
    text,           (* the text it works on                              *)
    entry,          (* apply_dict: the entry in turn                     *)
    pos,            (* and the position it looks from                    *)
    request,        (* the bytes submitted                               *)
    sentences       (* what the worker makes of them                     *)

message == <<content, attachments, stage, dict, text, entry, pos, request, sentences>>
vars == <<guild_dict, handler, commands, message>>

Absent == <<>>
Idle == [action |-> "none", word |-> Absent, reading |-> Absent, known |-> FALSE]
WordSet == {Words[i] : i \in DOMAIN Words}
Table == [WordSet -> Readings \cup {Absent}]

(* Discord sends no option that is empty.  An empty word would be found    *)
(* everywhere by std::string::find and apply_dict would never end.         *)
ASSUME WordsAssumption == Absent \notin WordSet \cup Readings

Init ==
    /\ \E s \in Scenarios :
          /\ content = s.content
          /\ attachments = s.attachments
          /\ guild_dict = s.table
          /\ commands = s.commands
    /\ handler = [h \in Handlers |-> Idle]
    /\ stage = "arrives"
    /\ dict = <<>>
    /\ text = <<>>
    /\ entry = 1
    /\ pos = 1
    /\ request = <<>>
    /\ sentences = <<>>

-----------------------------------------------------------------------------
(* /dict: handle_dict.                                                     *)

\* dict_list, and the options; list and what is refused only reply.
ReadEntries(h) ==
    /\ handler[h] = Idle
    /\ commands > 0
    /\ commands' = commands - 1
    /\ \/ \E action \in {"add", "remove"}, word \in WordSet, reading \in Readings :
             handler' = [handler EXCEPT ![h] =
                 [action |-> action, word |-> word, known |-> guild_dict[word] # Absent,
                  reading |-> IF action = "add" THEN reading ELSE Absent]]
       \/ UNCHANGED handler
    /\ UNCHANGED <<guild_dict, message>>

\* dict_add: inserted or updated, whatever was read, unless the write fails.
DictAdd(h) ==
    /\ handler[h].action = "add"
    /\ \/ guild_dict' = [guild_dict EXCEPT ![handler[h].word] = handler[h].reading]
       \/ UNCHANGED guild_dict
    /\ handler' = [handler EXCEPT ![h] = Idle]
    /\ UNCHANGED <<commands, message>>

\* dict_remove, unless the word was not among the entries read or the write
\* fails.
DictRemove(h) ==
    /\ handler[h].action = "remove"
    /\ \/ handler[h].known /\ guild_dict' = [guild_dict EXCEPT ![handler[h].word] = Absent]
       \/ UNCHANGED guild_dict
    /\ handler' = [handler EXCEPT ![h] = Idle]
    /\ UNCHANGED <<commands, message>>

-----------------------------------------------------------------------------
(* The message.  The operators named Mutant... are slips that the          *)
(* properties at the end catch.                                            *)

Attached == <<"ten", "pu", "fa", "i", "ru">>

(* What users and the program write is text; a dictionary has a reading,   *)
(* or none, for each word.                                                 *)
ASSUME TextAssumption ==
    /\ Words \in Seq(Text) /\ Readings \cup {Username, Attached} \subseteq Text
    /\ \A s \in Scenarios : s.content \in Text /\ s.table \in Table /\ s.commands \in Nat
    /\ MaxChars \in Nat /\ MinLength \in Nat

RawText ==
    IF ~attachments THEN content
    ELSE IF content = <<>> THEN Attached ELSE content \o <<" ">> \o Attached

Hidden == \E prefix \in IgnorePrefix : prefix # <<>> /\ IsPrefix(prefix, content)

DictList ==
    FlattenSeq([i \in DOMAIN Words |-> IF guild_dict[Words[i]] # Absent THEN <<Words[i]>> ELSE <<>>])

EntriesOf(words) == [i \in DOMAIN words |-> [word |-> words[i], reading |-> guild_dict[words[i]]]]

\* The prefixes, the attachments, dict_list and process up to the dictionary.
Read ==
    /\ stage = "arrives"
    /\ IF Hidden \/ RawText = <<>>
       THEN stage' = "ignored" /\ UNCHANGED <<dict, text>>
       ELSE /\ stage' = "dict"
            /\ dict' = EntriesOf(DictList)
            /\ text' = Clean(RawText)
    /\ UNCHANGED <<guild_dict, handler, commands, content, attachments, entry, pos,
                   request, sentences>>

MutantReplace ==
    /\ stage = "dict"
    /\ entry <= Len(dict)
    /\ LET e == dict[entry]
           found == Find(text, e.word, pos)
       IN  /\ found > 0
           /\ text' = SubSeq(text, 1, found - 1) \o e.reading
                      \o SubSeq(text, found + Len(e.word), Len(text))
           /\ pos' = found
    /\ UNCHANGED <<guild_dict, handler, commands, content, attachments, stage, dict,
                   entry, request, sentences>>

\* apply_dict: the word is replaced and its reading passed.
Replace ==
    /\ stage = "dict"
    /\ entry <= Len(dict)
    /\ LET e == dict[entry]
           found == Find(text, e.word, pos)
       IN  /\ found > 0
           /\ text' = SubSeq(text, 1, found - 1) \o e.reading
                      \o SubSeq(text, found + Len(e.word), Len(text))
           /\ pos' = found + Len(e.reading)
    /\ UNCHANGED <<guild_dict, handler, commands, content, attachments, stage, dict,
                   entry, request, sentences>>

MutantNextEntry ==
    /\ stage = "dict"
    /\ entry <= Len(dict)
    /\ Find(text, dict[entry].word, pos) = 0
    /\ entry' = entry + 1
    /\ UNCHANGED <<guild_dict, handler, commands, content, attachments, stage, dict,
                   text, pos, request, sentences>>

\* npos: on to the next entry, from the start of the text.
NextEntry ==
    /\ stage = "dict"
    /\ entry <= Len(dict)
    /\ Find(text, dict[entry].word, pos) = 0
    /\ entry' = entry + 1
    /\ pos' = 1
    /\ UNCHANGED <<guild_dict, handler, commands, content, attachments, stage, dict,
                   text, request, sentences>>

\* The rest of process; an empty text is dropped, the name goes in front.
Submit ==
    /\ stage = "dict"
    /\ entry > Len(dict)
    /\ LET bytes == Finish(text, MaxChars)
       IN  IF bytes = <<>>
           THEN stage' = "ignored" /\ UNCHANGED request
           ELSE /\ stage' = "submitted"
                /\ request' = IF Username = <<>> THEN bytes
                              ELSE Bytes(Username) \o Bytes(<<"touten">>) \o bytes
    /\ UNCHANGED <<guild_dict, handler, commands, content, attachments, dict, text,
                   entry, pos, sentences>>

\* A worker of the pool: synthesizer.cpp:103.
Split ==
    /\ stage = "submitted"
    /\ stage' = "spoken"
    /\ sentences' = SplitSentences(request, MinLength)
    /\ UNCHANGED <<guild_dict, handler, commands, content, attachments, dict, text,
                   entry, pos, request>>

Dict(h) == ReadEntries(h) \/ DictAdd(h) \/ DictRemove(h)
Message == Read \/ Replace \/ NextEntry \/ Submit \/ Split

\* The message is over, and no command is left: nothing more of this happens.
Over ==
    /\ stage \in {"ignored", "spoken"}
    /\ commands = 0
    /\ \A h \in Handlers : handler[h] = Idle
    /\ UNCHANGED vars

Next == Message \/ Over \/ \E h \in Handlers : Dict(h)

Spec == Init /\ [][Next]_vars

-----------------------------------------------------------------------------

(* The text with every word of an entry read its own way, from left to     *)
(* right, and what the first n entries make of it.                         *)
Said(t, e) ==
    Rewrite(t, [i \in DOMAIN t |-> IF At(t, i, e.word) THEN Len(e.word) ELSE 0],
            [i \in DOMAIN t |-> e.reading])
SaidBy(t, entries) ==
    LET after[n \in 0 .. Len(entries)] ==
          IF n = 0 THEN t ELSE Said(after[n - 1], entries[n])
    IN  after

(* apply_dict, which edits the text it searches, does what a dictionary    *)
(* promises: entry after entry, every word of the text that is left is     *)
(* read its own way, from left to right, and no reading is taken for a     *)
(* word of the same entry (preprocessor.cpp:26).                           *)
DictionaryApplied ==
    stage = "dict" /\ entry > Len(dict) => text = SaidBy(Clean(RawText), dict)[Len(dict)]

(* What is submitted is something to say, in whole characters: the name    *)
(* and the first MaxChars characters of the text, with the omission said   *)
(* exactly when some are left out.  truncate_utf8 counts characters and    *)
(* cuts bytes (preprocessor.cpp:194).                                      *)
SubmittedIsWhole ==
    stage \in {"submitted", "spoken"} =>
        LET said == NormalizeWhitespace(ConvertNumbers(text))
            name == IF Username = <<>> THEN <<>> ELSE Append(Username, "touten")
        IN  /\ \E i \in DOMAIN said : said[i] \notin Blanks
            /\ request = Bytes(name \o (IF Len(said) <= MaxChars THEN said
                                        ELSE SubSeq(said, 1, MaxChars) \o RestOmitted))

(* The characters of bytes, the bytes that are said, and the end marks.    *)
CharactersOf(b) == FlattenSeq([i \in DOMAIN b |-> IF b[i][2] = 1 THEN <<b[i][1]>> ELSE <<>>])
Speech(b) == FlattenSeq([i \in DOMAIN b |-> IF b[i][1] \in Blanks THEN <<>> ELSE <<b[i]>>])
Ends(b) == {i \in DOMAIN CharactersOf(b) : CharactersOf(b)[i] \in SentenceEnds}

(* The sentences say all of the text in its order but blanks, each of whole*)
(* characters, and where a text is cut it is after an end mark, and at     *)
(* every one (sentence_splitter.cpp:32).                                   *)
SentencesKeepSpeech ==
    stage = "spoken" =>
        /\ Speech(FlattenSeq(sentences)) = Speech(request)
        /\ \A i \in DOMAIN sentences :
              LET s == sentences[i]
              IN  /\ s = Bytes(CharactersOf(s))
                  /\ Len(request) >= 3 * MinLength => Ends(s) \subseteq {Len(CharactersOf(s))}
                  /\ i < Len(sentences) => Ends(s) = {Len(CharactersOf(s))}

Unsearched == Len(text) + 1 - pos

(* A message is read to its end whatever the dictionary says, and while    *)
(* others change it: although the text may grow with every replacement,    *)
(* each step of the loop leaves fewer entries, or less of the text to      *)
(* search with this one (preprocessor.cpp:31).  As nothing else stops the  *)
(* message, for TLC finds no deadlock, it comes to its end.                *)
LoopAdvances ==
    [][stage = "dict" /\ stage' = "dict" =>
         \/ entry' > entry
         \/ entry' = entry /\ Unsearched' \in 0 .. Unsearched - 1]_<<entry, pos, text>>
=============================================================================
