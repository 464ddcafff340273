---------------------------- MODULE SentenceSplitter ----------------------------
(***************************************************************************)
(* How a worker cuts a text into sentences                                 *)
(* (src/src/tts/sentence_splitter.cpp), byte by byte.                      *)
(***************************************************************************)
EXTENDS TextPreprocessor

\* is_sentence_end: one of . ! ? and the line end, or the first of the three
\* bytes of a full-width one that is there with all three.
IsSentenceEnd(bytes, pos) ==
    LET c == bytes[pos]
    IN  c[1] \in SentenceEnds /\ c[2] = 1 /\ (Width(c[1]) = 3 => pos + 2 <= Len(bytes))

HasContent(sentence) == \E i \in DOMAIN sentence : sentence[i][1] \notin Blanks

\* substr(from, to - from), which stops at the end of the text.
Piece(bytes, from, to) ==
    LET piece == SubSeq(bytes, from, IF to > Len(bytes) THEN Len(bytes) ELSE to)
    IN  IF HasContent(piece) THEN <<piece>> ELSE <<>>

\* A slip that SentencesKeepSpeech of MessageReading catches: no rest is added.
MutantCut(bytes) ==
    LET After(pos) == pos + CharLen(bytes[pos])
        From[pos \in 1 .. Len(bytes) + 4] ==
          [start \in 1 .. Len(bytes) + 4 |->
             IF pos > Len(bytes) THEN <<>>
             ELSE IF IsSentenceEnd(bytes, pos)
             THEN Piece(bytes, start, After(pos) - 1) \o From[After(pos)][After(pos)]
             ELSE From[After(pos)][start]]
    IN  From[1][1]

\* The loop over start and pos, and the rest after it: From[pos][start] is what
\* it cuts from there on.
Cut(bytes) ==
    LET After(pos) == pos + CharLen(bytes[pos])
        From[pos \in 1 .. Len(bytes) + 4] ==
          [start \in 1 .. Len(bytes) + 4 |->
             IF pos > Len(bytes)
             THEN IF start > Len(bytes) THEN <<>> ELSE Piece(bytes, start, Len(bytes))
             ELSE IF IsSentenceEnd(bytes, pos)
             THEN Piece(bytes, start, After(pos) - 1) \o From[After(pos)][After(pos)]
             ELSE From[After(pos)][start]]
    IN  From[1][1]

\* Short texts stay whole, and so does one with nothing to say.
SplitSentences(bytes, min_length) ==
    IF Len(bytes) < 3 * min_length \/ Cut(bytes) = <<>> THEN <<bytes>> ELSE Cut(bytes)
=============================================================================
