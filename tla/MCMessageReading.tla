---------------------------- MODULE MCMessageReading ----------------------------
(***************************************************************************)
(* Messages for MessageReading: every short one over the whole alphabet,   *)
(* longer ones where code, spoilers, numbers or sentences need the length, *)
(* every dictionary for the texts of its words, and a few messages while   *)
(* /dict commands come.                                                    *)
(***************************************************************************)
EXTENDS MessageReading

CONSTANT MaxLength  (* bound: the length of a message over the whole alphabet *)

Upto(n, S) == UNION {[1 .. k -> S] : k \in 0 .. n}

Alphabet == {"a", "tick", "bar", "http", "mention", "channel", "emote", "grin", "star",
             "eacute", "nl", " ", ".", "maru", "ka", "1", "R"}

Writable ==
    Ascii \cup Alphabet \cup DOMAIN Units
    \cup UNION {ToSet(t) : t \in {Omitted, Somebody, Somewhere, RestOmitted, Kanji, Attached}}

\* What tests/test_preprocessor.cpp expects of the parts of process.
ASSUME TestExamples ==
    /\ Clean(<<"a", " ", "http", "a", " ", "s">>) = <<"a", " ">> \o Omitted \o <<" ", "s">>
    /\ Clean(<<"mention", " ", "mention">>) = Somebody \o <<" ">> \o Somebody
    /\ Clean(<<"a", " ", "channel">>) = <<"a", " ">> \o Somewhere
    /\ NormalizeWhitespace(Clean(<<"a", " ", "emote">>)) = <<"a">>
    /\ NormalizeWhitespace(Clean(<<"a", " ", "emote", " ", "s">>)) = <<"a", " ", "s">>
    /\ NormalizeWhitespace(<<"a", " ", " ", "nl", "nl", " ", "s">>) = <<"a", " ", "s">>
    /\ NormalizeWhitespace(Clean(<<"emote">>)) = <<>>
    /\ ConvertNumbers(<<"4", "2", " ", "s">>) = <<"yon", "juu", "ni", " ", "s">>
    /\ ConvertNumbers(<<"1", "5", "0", "0">>) = <<"ichi", "sen", "go", "hyaku">>
    /\ ConvertNumbers(<<"1", "2", "3", "4", "5">>) = <<"1", "2", "3", "4", "5">>

\* The order of ORDER BY: the bytes of "a" come before those of "ka".
WordsInOrder == << <<"a">>, <<"a", "ka">>, <<"ka">> >>
Spoken == {<<"a", "a">>, <<"ka">>, <<"1">>}
Name == <<"s", "ka">>
HidingPrefixes == {<<".", "a">>}

Empty == [word \in WordSet |-> Absent]
Laughs == [word \in WordSet |-> IF word = <<"a">> THEN <<"ka">> ELSE Absent]

All(texts, with, tables, n) ==
    [content : texts, attachments : with, table : tables, commands : {n}]

Messages ==
    All(Upto(MaxLength, Alphabet), {FALSE}, {Laughs}, 0)
    \cup All(Upto(7, {"tick", "a"}) \cup Upto(6, {"bar", "a"}), {FALSE}, {Empty}, 0)
    \cup All(Upto(5, {"0", "1", "2"}), {FALSE}, {Empty}, 0)
    \cup All(Upto(5, {"ka", "maru", ".", " "}), {FALSE}, {Empty}, 0)
    \cup All(Upto(5, {"a", "ka"}), {FALSE}, Table, 0)
    \cup All(Upto(1, Alphabet), {TRUE}, {Empty}, 0)
    \cup All({<<"a", "ka">>, <<"mention">>}, {FALSE}, {Empty}, 3)
=============================================================================
