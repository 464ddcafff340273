---------------------------- MODULE TextPreprocessor ----------------------------
(***************************************************************************)
(* What a message becomes before it is spoken                              *)
(* (src/src/tts/preprocessor.cpp).  A text is a sequence of characters up  *)
(* to the truncation, which works on bytes: there a text is a sequence of  *)
(* <<character, k>>, its k-th byte.                                        *)
(*                                                                         *)
(* A character is a member of a small alphabet.  "http" stands for a       *)
(* scheme with its ://, and "mention", "channel" and "emote" for a whole   *)
(* <@1>, <#1> and :name: or <:name:1>.  The regular expressions see bytes, *)
(* and so does the search for a word; in well-formed UTF-8, which Discord  *)
(* sends, that is to see characters.                                       *)
(***************************************************************************)
EXTENDS Integers, SequencesExt

CONSTANT Characters     (* what texts are made of *)

Text == Seq(Characters)

Digits == <<"0", "1", "2", "3", "4", "5", "6", "7", "8", "9">>
IsDigit(c) == \E i \in 1 .. 10 : Digits[i] = c
DigitOf(c) == CHOOSE d \in 0 .. 9 : Digits[d + 1] = c
ValueOf(run) ==
    LET value[n \in 0 .. Len(run)] ==
          IF n = 0 THEN 0 ELSE 10 * value[n - 1] + DigitOf(run[n])
    IN  value[Len(run)]

Ascii == {"a", "s", "tick", "bar", ".", " ", "nl", "U", "R", "L"} \cup {Digits[i] : i \in 1 .. 10}
Emoji == {"grin", "star"}
SentenceEnds == {".", "nl", "maru"}
Blanks == {" ", "nl"}

\* The bytes of a character in UTF-8.
Width(c) == CASE c \in Ascii -> 1 [] c = "eacute" -> 2 [] c = "grin" -> 4 [] OTHER -> 3

Bytes(t) == FlattenSeq([i \in DOMAIN t |-> [k \in 1 .. Width(t[i]) |-> <<t[i], k>>]])

Omitted == <<"U", "R", "L", "shou", "ryaku">>
Somebody == <<"dare", "ka">>
Somewhere == <<"do", "ko", "ka">>
RestOmitted == <<"touten", "i", "ka2", "shou", "ryaku">>

-----------------------------------------------------------------------------
(* std::regex_replace: from left to right, each match replaced and passed. *)
(* length[i] is the length of the match at position i, 0 for none, and     *)
(* by[i] what replaces it.  Rewritten[i] is what becomes of t from i on.   *)

Rewritten(t, length, by) ==
    LET From[i \in 1 .. Len(t) + 1] ==
          IF i > Len(t) THEN <<>>
          ELSE IF length[i] = 0 THEN <<t[i]>> \o From[i + 1]
          ELSE by[i] \o From[i + length[i]]
    IN  From

Rewrite(t, length, by) == Rewritten(t, length, by)[1]

Erase(t, length) == Rewrite(t, length, [i \in DOMAIN t |-> <<>>])

At(t, i, what) ==
    i + Len(what) - 1 <= Len(t) /\ SubSeq(t, i, i + Len(what) - 1) = what

\* The length of the match when it closes at the first of the positions in ends.
UpTo(i, ends, width) ==
    IF ends = {} THEN 0 ELSE (CHOOSE j \in ends : \A k \in ends : j <= k) + width - i

Fence == <<"tick", "tick", "tick">>

BlockAt(t, i) ==
    IF At(t, i, Fence) THEN UpTo(i, {j \in i + 3 .. Len(t) : At(t, j, Fence)}, 3) ELSE 0

\* The first backtick after i closes the code, unless it is the next character.
InlineAt(t, i) ==
    LET n == UpTo(i, {j \in i + 1 .. Len(t) : t[j] = "tick"}, 1)
    IN  IF i <= Len(t) /\ t[i] = "tick" /\ n > 2 THEN n ELSE 0

\* [^|]* stops at the first bar, which must be doubled.
SpoilerAt(t, i) ==
    LET n == UpTo(i, {j \in i + 2 .. Len(t) : t[j] = "bar"}, 2)
    IN  IF At(t, i, <<"bar", "bar">>) /\ n > 0 /\ At(t, i + n - 2, <<"bar", "bar">>) THEN n ELSE 0

\* A scheme and all that follows it up to a blank: at least one character.
UrlAt(t, i) ==
    LET stop == UpTo(i, {j \in i + 1 .. Len(t) + 1 : j > Len(t) \/ t[j] \in Blanks}, 0)
    IN  IF i <= Len(t) /\ t[i] = "http" /\ stop > 1 THEN stop ELSE 0

DigitsAt(t, i) ==
    IF i <= Len(t) /\ IsDigit(t[i])
    THEN UpTo(i, {j \in i + 1 .. Len(t) + 1 : j > Len(t) \/ ~IsDigit(t[j])}, 0)
    ELSE 0

RemoveBlocks(t) == Erase(t, [i \in DOMAIN t |-> BlockAt(t, i)])
RemoveInline(t) == Erase(t, [i \in DOMAIN t |-> InlineAt(t, i)])
RemoveCodeBlocks(t) == RemoveInline(RemoveBlocks(t))
RemoveSpoilers(t) == Erase(t, [i \in DOMAIN t |-> SpoilerAt(t, i)])
RemoveUrls(t) == Rewrite(t, [i \in DOMAIN t |-> UrlAt(t, i)], [i \in DOMAIN t |-> Omitted])

\* convert_mentions, convert_channel_mentions, convert_custom_emoji, strip_unicode_emoji.
ConvertTokens(t) ==
    FlattenSeq([i \in DOMAIN t |->
        CASE t[i] = "mention" -> Somebody
          [] t[i] = "channel" -> Somewhere
          [] t[i] \in Emoji \cup {"emote"} -> <<>>
          [] OTHER -> <<t[i]>>])

\* process, up to the dictionary.
Clean(t) == ConvertTokens(RemoveUrls(RemoveSpoilers(RemoveCodeBlocks(t))))

-----------------------------------------------------------------------------
(* The dictionary looks for words with std::string::find.                  *)

\* The position of word at or after pos, 0 for npos.
Find(t, word, pos) ==
    LET places == {i \in pos .. Len(t) - Len(word) + 1 : At(t, i, word)}
    IN  IF places = {} THEN 0 ELSE CHOOSE i \in places : \A j \in places : i <= j

-----------------------------------------------------------------------------
(* convert_numbers.                                                        *)

Kanji == <<"zero", "ichi", "ni", "san", "yon", "go", "roku", "nana", "hachi", "kyuu">>
Units == [sen |-> 1000, hyaku |-> 100, juu |-> 10]

\* num_to_kanji: only ten itself goes without its one.
NumToKanji(n) ==
    LET Place(unit) == (n % (10 * Units[unit])) \div Units[unit]
        Part(unit, bare) ==
          IF Place(unit) = 0 THEN <<>>
          ELSE (IF Place(unit) <= bare THEN <<>> ELSE <<Kanji[Place(unit) + 1]>>) \o <<unit>>
    IN  IF n = 0 THEN <<Kanji[1]>>
        ELSE Part("sen", 0) \o Part("hyaku", 0) \o Part("juu", 1)
             \o (IF n % 10 = 0 THEN <<>> ELSE <<Kanji[(n % 10) + 1]>>)

\* Five digits and more stay as they are.
ConvertNumbers(t) ==
    LET Spelt(run) == IF Len(run) <= 4 THEN NumToKanji(ValueOf(run)) ELSE run
    IN  Rewrite(t, [i \in DOMAIN t |-> DigitsAt(t, i)],
                [i \in DOMAIN t |-> Spelt(SubSeq(t, i, i + DigitsAt(t, i) - 1))])

(* What process writes is text.                                            *)
ASSUME CharactersAssumption ==
    /\ {Omitted, Somebody, Somewhere, RestOmitted, Kanji} \subseteq Text
    /\ DOMAIN Units \cup {" "} \subseteq Characters

(* What num_to_kanji writes says the number: read back, a digit counts for *)
(* the unit after it and a unit without a digit for one.                   *)
ReadKanji(k) ==
    LET Read == FoldLeft(LAMBDA acc, c :
                    IF c \in DOMAIN Units
                    THEN [sum |-> acc.sum + Units[c] * (IF acc.digit = 0 THEN 1 ELSE acc.digit), digit |-> 0]
                    ELSE [acc EXCEPT !.digit = CHOOSE d \in 0 .. 9 : Kanji[d + 1] = c],
                    [sum |-> 0, digit |-> 0], k)
    IN  Read.sum + Read.digit

ASSUME NumbersKeepTheirValue == \A n \in 0 .. 9999 : ReadKanji(NumToKanji(n)) = n

-----------------------------------------------------------------------------

\* normalize_whitespace: blanks collapse, the last ones and the first go.
Collapse(acc, c) ==
    IF c \notin Blanks THEN Append(acc, c)
    ELSE IF acc # <<>> /\ Last(acc) = " " THEN acc
    ELSE Append(acc, " ")
Collapsed(t) ==
    LET upto[n \in 0 .. Len(t)] == IF n = 0 THEN <<>> ELSE Collapse(upto[n - 1], t[n])
    IN  upto[Len(t)]
NormalizeWhitespace(t) ==
    LET one == Collapsed(t)
        kept == IF one # <<>> /\ Last(one) = " " THEN Front(one) ELSE one
    IN  IF kept # <<>> /\ Head(kept) = " " THEN Tail(kept) ELSE kept

\* A slip that SubmittedIsWhole of MessageReading catches.
MutantCharLen(byte) == IF byte[2] = 1 /\ Width(byte[1]) < 3 THEN Width(byte[1]) ELSE 2

\* utf8_char_len: what a byte says of the length of its character.  The bytes
\* after the first are below 0xC0 and taken for the first of two.
CharLen(byte) == IF byte[2] = 1 THEN Width(byte[1]) ELSE 2

\* truncate_utf8: count characters, cut bytes.
Truncate(bytes, max_chars) ==
    LET Passed[n \in 0 .. max_chars] ==
          IF n = 0 THEN 0
          ELSE LET at == Passed[n - 1]
               IN  IF at >= Len(bytes) THEN at ELSE at + CharLen(bytes[at + 1])
    IN  IF Passed[max_chars] >= Len(bytes) THEN bytes
        ELSE SubSeq(bytes, 1, Passed[max_chars]) \o Bytes(RestOmitted)

\* process, from the dictionary on.
Finish(t, max_chars) ==
    Truncate(Bytes(NormalizeWhitespace(ConvertNumbers(t))), max_chars)
=============================================================================
