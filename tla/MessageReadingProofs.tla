-------------------------- MODULE MessageReadingProofs --------------------------
(***************************************************************************)
(* The properties of MessageReading for every message, dictionary and      *)
(* setting.  First come the text functions of TextPreprocessor and what    *)
(* they do to types; then the loop of apply_dict, with LoopInv; then the   *)
(* bytes of a text and what is submitted; last the bytes that are said and *)
(* the sentences, with IsCut.  A function that TextPreprocessor or         *)
(* SentenceSplitter define by recursion has a lemma ...Unfolds or ...Is,   *)
(* which says that it satisfies its equation.                              *)
(***************************************************************************)
EXTENDS MessageReading, Inductions

-----------------------------------------------------------------------------
(* Texts.                                                                  *)

LEMMA TextBasics ==
    /\ <<>> \in Text
    /\ \A c \in Characters : <<c>> \in Text
    /\ \A u, v \in Text : u \o v \in Text
BY DEF Text

LEMMA OwnTexts ==
    /\ Omitted \in Text /\ Somebody \in Text /\ Somewhere \in Text
    /\ RestOmitted \in Text /\ Kanji \in Text
BY CharactersAssumption

-----------------------------------------------------------------------------
(* Rewriting a text from left to right.                                    *)

(* The matches of a text stay in it.                                       *)
Matches(t, length) ==
    /\ length \in [1 .. Len(t) -> Nat]
    /\ \A i \in 1 .. Len(t) : i + length[i] <= Len(t) + 1

(* What becomes of t from i on, if F says what becomes of it later on.     *)
Onward(F, i, t, length, by) ==
    IF length[i] = 0 THEN <<t[i]>> \o F[i + 1] ELSE by[i] \o F[i + length[i]]

(* F says so at the positions from k on.                                   *)
RewritesFrom(k, F, t, length, by) ==
    /\ F[Len(t) + 1] = <<>>
    /\ \A i \in k .. Len(t) : F[i] = Onward(F, i, t, length, by)

(* F and G say the same of what comes after i.                             *)
SameAfter(F, G, i, t) == \A j \in i + 1 .. Len(t) + 1 : F[j] = G[j]

LEMMA OnwardSame ==
    ASSUME NEW t \in Text, NEW length, Matches(t, length), NEW by, NEW F, NEW G,
           NEW i \in 1 .. Len(t), SameAfter(F, G, i, t)
    PROVE  Onward(F, i, t, length, by) = Onward(G, i, t, length, by)
<1>1. Len(t) \in Nat
  BY DEF Text
<1>2. length[i] \in Nat /\ i + length[i] <= Len(t) + 1
  BY DEF Matches
<1>3. i + 1 \in i + 1 .. Len(t) + 1
  BY <1>1
<1>4. length[i] # 0 => i + length[i] \in i + 1 .. Len(t) + 1
  BY <1>1, <1>2
<1>5. F[i + 1] = G[i + 1]
  BY <1>3 DEF SameAfter
<1>6. length[i] # 0 => F[i + length[i]] = G[i + length[i]]
  BY <1>4 DEF SameAfter
<1> QED  BY <1>5, <1>6 DEF Onward

LEMMA OnwardTyped ==
    ASSUME NEW t \in Text, NEW length, Matches(t, length), NEW by \in [1 .. Len(t) -> Text],
           NEW F, NEW i \in 1 .. Len(t), \A j \in i + 1 .. Len(t) + 1 : F[j] \in Text
    PROVE  Onward(F, i, t, length, by) \in Text
<1>1. Len(t) \in Nat /\ t[i] \in Characters
  BY DEF Text
<1>2. length[i] \in Nat /\ i + length[i] <= Len(t) + 1
  BY DEF Matches
<1>3. i + 1 \in i + 1 .. Len(t) + 1
  BY <1>1
<1>4. length[i] # 0 => i + length[i] \in i + 1 .. Len(t) + 1
  BY <1>1, <1>2
<1>5. F[i + 1] \in Text
  BY <1>3
<1>6. length[i] # 0 => F[i + length[i]] \in Text
  BY <1>4
<1>7. by[i] \in Text /\ <<t[i]>> \in Text
  BY <1>1 DEF Text
<1>8. \A u, v \in Text : u \o v \in Text
  BY DEF Text
<1> QED  BY <1>5, <1>6, <1>7, <1>8 DEF Onward

(* Rewriting a text is determined.                                         *)
LEMMA RewritingUnique ==
    ASSUME NEW t \in Text, NEW length, Matches(t, length), NEW by, NEW F, NEW G,
           RewritesFrom(1, F, t, length, by), RewritesFrom(1, G, t, length, by)
    PROVE  \A i \in 1 .. Len(t) + 1 : F[i] = G[i]
<1> DEFINE n == Len(t)
           Good == {d \in 0 .. n : \A j \in n + 1 - d .. n + 1 : F[j] = G[j]}
<1>1. n \in Nat
  BY DEF Text
<1>2. 0 \in Good
  <2>1. \A j \in n + 1 - 0 .. n + 1 : j = n + 1
    BY <1>1
  <2>2. F[n + 1] = G[n + 1]
    BY DEF RewritesFrom
  <2> QED  BY <1>1, <2>1, <2>2
<1>3. ASSUME NEW d \in 0 .. n - 1, d \in Good PROVE d + 1 \in Good
  <2>1. \A j \in n + 1 - d .. n + 1 : F[j] = G[j]
    BY <1>3
  <2> DEFINE i == n - d
  <2>2. i \in 1 .. n /\ i + 1 = n + 1 - d /\ i = n + 1 - (d + 1) /\ d + 1 \in 0 .. n
    BY <1>1
  <2> HIDE DEF i
  <2>3. \A j \in i + 1 .. n + 1 : F[j] = G[j]
    BY <2>1, <2>2
  <2>4. Onward(F, i, t, length, by) = Onward(G, i, t, length, by)
    BY <2>2, <2>3, OnwardSame DEF SameAfter
  <2>5. F[i] = G[i]
    BY <2>2, <2>4 DEF RewritesFrom
  <2>6. \A j \in i .. n + 1 : j = i \/ j \in i + 1 .. n + 1
    BY <1>1, <2>2
  <2>7. \A j \in i .. n + 1 : F[j] = G[j]
    BY <2>3, <2>5, <2>6
  <2> QED  BY <2>2, <2>7
<1>4. \A d \in 0 .. n : d \in Good
  <2> HIDE DEF Good, n
  <2> QED  BY <1>1, <1>2, <1>3, UpwardInduction
<1>5. n \in Good /\ n + 1 - n = 1
  BY <1>1, <1>4
<1> QED  BY <1>5

LEMMA RewritingExists ==
    ASSUME NEW t \in Text, NEW length, Matches(t, length), NEW by \in [1 .. Len(t) -> Text]
    PROVE  \E F \in [1 .. Len(t) + 1 -> Text] : RewritesFrom(1, F, t, length, by)
<1> DEFINE n == Len(t)
           Good == {d \in 0 .. n : \E F \in [n + 1 - d .. n + 1 -> Text] :
                                       RewritesFrom(n + 1 - d, F, t, length, by)}
<1>1. n \in Nat
  BY DEF Text
<1>2. 0 \in Good
  <2> DEFINE F == [j \in n + 1 .. n + 1 |-> <<>>]
  <2>1. F \in [n + 1 .. n + 1 -> Text]
    BY DEF Text
  <2>2. F[n + 1] = <<>> /\ n + 1 .. n = {} /\ n + 1 - 0 = n + 1 /\ 0 \in 0 .. n
    BY <1>1
  <2> HIDE DEF F
  <2>3. RewritesFrom(n + 1, F, t, length, by)
    BY <2>2 DEF RewritesFrom
  <2> QED  BY <2>1, <2>2, <2>3
<1>3. ASSUME NEW d \in 0 .. n - 1, d \in Good PROVE d + 1 \in Good
  <2> DEFINE i == n - d
  <2>1. i \in 1 .. n /\ i + 1 = n + 1 - d /\ i = n + 1 - (d + 1) /\ d + 1 \in 0 .. n
    BY <1>1
  <2>2. PICK F \in [i + 1 .. n + 1 -> Text] : RewritesFrom(i + 1, F, t, length, by)
    BY <1>3, <2>1
  <2> HIDE DEF i
  <2> DEFINE x == Onward(F, i, t, length, by)
             G == [j \in i .. n + 1 |-> IF j = i THEN x ELSE F[j]]
  <2>3. x \in Text
    <3>1. \A j \in i + 1 .. n + 1 : F[j] \in Text
      BY <2>2
    <3> QED  BY <2>1, <3>1, OnwardTyped
  <2> HIDE DEF x
  <2>4. G \in [i .. n + 1 -> Text]
    BY <1>1, <2>1, <2>2, <2>3
  <2>5. G[i] = x /\ \A j \in i + 1 .. n + 1 : G[j] = F[j]
    BY <1>1, <2>1
  <2> HIDE DEF G
  <2>6. G[n + 1] = <<>>
    <3>1. n + 1 \in i + 1 .. n + 1
      BY <1>1, <2>1
    <3> QED  BY <2>2, <2>5, <3>1 DEF RewritesFrom
  <2>7. ASSUME NEW j \in i .. n PROVE G[j] = Onward(G, j, t, length, by)
    <3>1. j \in 1 .. n /\ \A k \in j + 1 .. n + 1 : k \in i + 1 .. n + 1
      BY <1>1, <2>1
    <3>2. SameAfter(G, F, j, t)
      BY <2>5, <3>1 DEF SameAfter
    <3>3. Onward(G, j, t, length, by) = Onward(F, j, t, length, by)
      BY <3>1, <3>2, OnwardSame
    <3>4. CASE j = i
      BY <2>5, <3>3, <3>4 DEF x
    <3>5. CASE j # i
      <4>1. j \in i + 1 .. n /\ j \in i + 1 .. n + 1
        BY <1>1, <2>1, <3>5
      <4>2. F[j] = Onward(F, j, t, length, by)
        BY <2>2, <4>1 DEF RewritesFrom
      <4> QED  BY <2>5, <3>3, <4>1, <4>2
    <3> QED  BY <3>4, <3>5
  <2>8. RewritesFrom(i, G, t, length, by)
    BY <2>6, <2>7 DEF RewritesFrom
  <2> QED  BY <2>1, <2>4, <2>8
<1>4. \A d \in 0 .. n : d \in Good
  <2> HIDE DEF Good, n
  <2> QED  BY <1>1, <1>2, <1>3, UpwardInduction
<1>5. n \in Good /\ n + 1 - n = 1
  BY <1>1, <1>4
<1> QED  BY <1>5

(* Rewritten is that function.                                             *)
LEMMA RewrittenUnfolds ==
    ASSUME NEW t \in Text, NEW length, Matches(t, length), NEW by \in [1 .. Len(t) -> Text]
    PROVE  /\ Rewritten(t, length, by) \in [1 .. Len(t) + 1 -> Text]
           /\ RewritesFrom(1, Rewritten(t, length, by), t, length, by)
<1> DEFINE Next1(F, i) == IF i > Len(t) THEN <<>>
                          ELSE IF length[i] = 0 THEN <<t[i]>> \o F[i + 1]
                          ELSE by[i] \o F[i + length[i]]
           Equation(F) == F = [i \in 1 .. Len(t) + 1 |-> Next1(F, i)]
           From == CHOOSE F : Equation(F)
<1>1. Rewritten(t, length, by) = From
  BY DEF Rewritten
<1>2. PICK G \in [1 .. Len(t) + 1 -> Text] : RewritesFrom(1, G, t, length, by)
  BY RewritingExists
<1>0. Len(t) \in Nat
  BY DEF Text
<1>3. Equation(G)
  <2>1. ASSUME NEW i \in 1 .. Len(t) + 1 PROVE G[i] = Next1(G, i)
    <3>1. CASE i = Len(t) + 1
      BY <1>0, <1>2, <3>1 DEF RewritesFrom
    <3>2. CASE i # Len(t) + 1
      <4>1. i \in 1 .. Len(t) /\ ~ (i > Len(t))
        BY <1>0, <3>2
      <4> QED  BY <1>2, <4>1 DEF RewritesFrom, Onward
    <3> QED  BY <3>1, <3>2
  <2> HIDE DEF Next1
  <2> QED  BY <2>1
<1>4. Equation(From)
  <2> HIDE DEF Equation
  <2> QED  BY <1>3
<1> HIDE DEF From
<1>5. \A i \in 1 .. Len(t) + 1 : From[i] = Next1(From, i)
  <2> HIDE DEF Next1
  <2> QED  BY <1>4
<1>6. RewritesFrom(1, From, t, length, by)
  <2>1. From[Len(t) + 1] = <<>>
    <3>1. Len(t) + 1 \in 1 .. Len(t) + 1 /\ Len(t) + 1 > Len(t)
      BY <1>0
    <3> QED  BY <1>5, <3>1
  <2>2. ASSUME NEW i \in 1 .. Len(t) PROVE From[i] = Onward(From, i, t, length, by)
    <3>1. i \in 1 .. Len(t) + 1 /\ ~ (i > Len(t))
      BY <1>0
    <3> QED  BY <1>5, <3>1 DEF Onward
  <2> QED  BY <2>1, <2>2 DEF RewritesFrom
<1>7. \A i \in 1 .. Len(t) + 1 : From[i] \in Text
  <2>1. \A i \in 1 .. Len(t) + 1 : From[i] = G[i]
    BY <1>2, <1>6, RewritingUnique
  <2> QED  BY <1>2, <2>1
<1>8. DOMAIN From = 1 .. Len(t) + 1 /\ From = [i \in 1 .. Len(t) + 1 |-> From[i]]
  <2> HIDE DEF Next1
  <2> QED  BY <1>4
<1>9. From \in [1 .. Len(t) + 1 -> Text]
  <2> HIDE DEF Equation
  <2> QED  BY <1>7, <1>8
<1> QED  BY <1>1, <1>6, <1>9

LEMMA RewriteTyped ==
    ASSUME NEW t \in Text, NEW length, Matches(t, length), NEW by \in [1 .. Len(t) -> Text]
    PROVE  Rewrite(t, length, by) \in Text
<1>1. Rewritten(t, length, by) \in [1 .. Len(t) + 1 -> Text]
  BY RewrittenUnfolds
<1>2. 1 \in 1 .. Len(t) + 1
  BY DEF Text
<1> QED  BY <1>1, <1>2 DEF Rewrite

LEMMA EraseTyped ==
    ASSUME NEW t \in Text, NEW length, Matches(t, length)
    PROVE  Erase(t, length) \in Text
<1> DEFINE by == [i \in DOMAIN t |-> <<>>]
<1>1. by \in [1 .. Len(t) -> Text]
  BY DEF Text
<1> HIDE DEF by
<1>2. Rewrite(t, length, by) \in Text
  BY <1>1, RewriteTyped
<1> QED  BY <1>2 DEF Erase, by

-----------------------------------------------------------------------------
(* Every match of process stays in the text.                               *)

Within(ends, lo, hi) == ends \subseteq lo .. hi
IsFirst(j, ends) == \A k \in ends : j <= k

LEMMA UpToFirst ==
    ASSUME NEW i \in Int, NEW lo \in Int, NEW hi \in Int, NEW ends, Within(ends, lo, hi), ends # {},
           NEW width
    PROVE  \E j \in ends : IsFirst(j, ends) /\ UpTo(i, ends, width) = j + width - i
<1>1. \E j \in ends : \A k \in ends : j <= k
  <2>1. ends \subseteq lo .. hi
    BY DEF Within
  <2> QED  BY <2>1, LeastMember
<1> DEFINE j == CHOOSE j \in ends : \A k \in ends : j <= k
<1>2. j \in ends /\ \A k \in ends : j <= k
  BY <1>1
<1>3. UpTo(i, ends, width) = j + width - i
  BY DEF UpTo
<1> HIDE DEF j
<1> QED  BY <1>2, <1>3 DEF IsFirst

LEMMA UpToNone == ASSUME NEW i, NEW width PROVE UpTo(i, {}, width) = 0
BY DEF UpTo

LEMMA BlockMatches ==
    ASSUME NEW t \in Text
    PROVE  Matches(t, [i \in DOMAIN t |-> BlockAt(t, i)])
<1>1. Len(t) \in Nat /\ DOMAIN t = 1 .. Len(t)
  BY DEF Text
<1>2. ASSUME NEW i \in 1 .. Len(t) PROVE BlockAt(t, i) \in Nat /\ i + BlockAt(t, i) <= Len(t) + 1
  <2> DEFINE ends == {j \in i + 3 .. Len(t) : At(t, j, Fence)}
  <2>1. CASE ~At(t, i, Fence)
    BY <1>1, <2>1 DEF BlockAt
  <2>2. CASE At(t, i, Fence) /\ ends = {}
    <3>1. BlockAt(t, i) = UpTo(i, {}, 3)
      BY <2>2 DEF BlockAt
    <3> QED  BY <1>1, <3>1, UpToNone
  <2>3. CASE At(t, i, Fence) /\ ends # {}
    <3>1. BlockAt(t, i) = UpTo(i, ends, 3)
      BY <2>3 DEF BlockAt
    <3>2. Within(ends, i + 3, Len(t)) /\ \A j \in ends : j \in i + 3 .. Len(t) /\ j + 2 <= Len(t)
      BY <1>1 DEF At, Fence, Within
    <3>3. i + 3 \in Int /\ i \in Int /\ Len(t) \in Int
      BY <1>1
    <3> HIDE DEF ends
    <3>4. PICK j \in ends : UpTo(i, ends, 3) = j + 3 - i
      BY <2>3, <3>2, <3>3, UpToFirst
    <3> QED  BY <1>1, <3>1, <3>2, <3>4
  <2> QED  BY <2>1, <2>2, <2>3
<1> QED  BY <1>1, <1>2 DEF Matches

LEMMA InlineMatches ==
    ASSUME NEW t \in Text
    PROVE  Matches(t, [i \in DOMAIN t |-> InlineAt(t, i)])
<1>1. Len(t) \in Nat /\ DOMAIN t = 1 .. Len(t)
  BY DEF Text
<1>2. ASSUME NEW i \in 1 .. Len(t) PROVE InlineAt(t, i) \in Nat /\ i + InlineAt(t, i) <= Len(t) + 1
  <2> DEFINE ends == {j \in i + 1 .. Len(t) : t[j] = "tick"}
             n == UpTo(i, ends, 1)
  <2>1. InlineAt(t, i) = IF i <= Len(t) /\ t[i] = "tick" /\ n > 2 THEN n ELSE 0
    BY DEF InlineAt
  <2>2. Within(ends, i + 1, Len(t)) /\ i + 1 \in Int /\ i \in Int /\ Len(t) \in Int
    BY <1>1 DEF Within
  <2> HIDE DEF ends
  <2>3. CASE ends = {}
    <3>1. n = 0
      BY <2>3, UpToNone
    <3> QED  BY <1>1, <2>1, <3>1
  <2>4. CASE ends # {}
    <3>1. PICK j \in ends : n = j + 1 - i
      BY <2>2, <2>4, UpToFirst
    <3>2. j \in i + 1 .. Len(t)
      BY <2>2 DEF Within
    <3> HIDE DEF n
    <3> QED  BY <1>1, <2>1, <3>1, <3>2
  <2> QED  BY <2>3, <2>4
<1> QED  BY <1>1, <1>2 DEF Matches

LEMMA SpoilerMatches ==
    ASSUME NEW t \in Text
    PROVE  Matches(t, [i \in DOMAIN t |-> SpoilerAt(t, i)])
<1>1. Len(t) \in Nat /\ DOMAIN t = 1 .. Len(t)
  BY DEF Text
<1>2. ASSUME NEW i \in 1 .. Len(t) PROVE SpoilerAt(t, i) \in Nat /\ i + SpoilerAt(t, i) <= Len(t) + 1
  <2> DEFINE ends == {j \in i + 2 .. Len(t) : t[j] = "bar"}
             n == UpTo(i, ends, 2)
             bars == <<"bar", "bar">>
  <2>1. SpoilerAt(t, i) = IF At(t, i, bars) /\ n > 0 /\ At(t, i + n - 2, bars) THEN n ELSE 0
    BY DEF SpoilerAt
  <2>2. Within(ends, i + 2, Len(t)) /\ i + 2 \in Int /\ i \in Int /\ Len(t) \in Int
    BY <1>1 DEF Within
  <2>3. At(t, i + n - 2, bars) => i + n - 2 + 2 - 1 <= Len(t)
    BY DEF At
  <2> HIDE DEF ends
  <2>4. CASE ends = {}
    <3>1. n = 0
      BY <2>4, UpToNone
    <3> QED  BY <1>1, <2>1, <3>1
  <2>5. CASE ends # {}
    <3>1. PICK j \in ends : n = j + 2 - i
      BY <2>2, <2>5, UpToFirst
    <3>2. j \in i + 2 .. Len(t)
      BY <2>2 DEF Within
    <3> HIDE DEF n, bars
    <3> QED  BY <1>1, <2>1, <2>3, <3>1, <3>2
  <2> QED  BY <2>4, <2>5
<1> QED  BY <1>1, <1>2 DEF Matches

LEMMA UrlMatches ==
    ASSUME NEW t \in Text
    PROVE  Matches(t, [i \in DOMAIN t |-> UrlAt(t, i)])
<1>1. Len(t) \in Nat /\ DOMAIN t = 1 .. Len(t)
  BY DEF Text
<1>2. ASSUME NEW i \in 1 .. Len(t) PROVE UrlAt(t, i) \in Nat /\ i + UrlAt(t, i) <= Len(t) + 1
  <2> DEFINE ends == {j \in i + 1 .. Len(t) + 1 : j > Len(t) \/ t[j] \in Blanks}
             n == UpTo(i, ends, 0)
  <2>1. UrlAt(t, i) = IF i <= Len(t) /\ t[i] = "http" /\ n > 1 THEN n ELSE 0
    BY DEF UrlAt
  <2>2. /\ Within(ends, i + 1, Len(t) + 1) /\ ends # {}
        /\ i + 1 \in Int /\ i \in Int /\ Len(t) + 1 \in Int
    <3>1. Len(t) + 1 \in ends
      BY <1>1
    <3> QED  BY <1>1, <3>1 DEF Within
  <2> HIDE DEF ends
  <2>3. PICK j \in ends : n = j + 0 - i
    BY <2>2, UpToFirst
  <2>4. j \in i + 1 .. Len(t) + 1
    BY <2>2 DEF Within
  <2> HIDE DEF n
  <2> QED  BY <1>1, <2>1, <2>3, <2>4
<1> QED  BY <1>1, <1>2 DEF Matches

(* The digits of a number, besides, are digits.                            *)
LEMMA DigitMatches ==
    ASSUME NEW t \in Text
    PROVE  /\ Matches(t, [i \in DOMAIN t |-> DigitsAt(t, i)])
           /\ \A i \in 1 .. Len(t) : \A k \in i .. i + DigitsAt(t, i) - 1 : IsDigit(t[k])
<1>1. Len(t) \in Nat /\ DOMAIN t = 1 .. Len(t)
  BY DEF Text
<1>2. ASSUME NEW i \in 1 .. Len(t)
      PROVE  /\ DigitsAt(t, i) \in Nat /\ i + DigitsAt(t, i) <= Len(t) + 1
             /\ \A k \in i .. i + DigitsAt(t, i) - 1 : IsDigit(t[k])
  <2> DEFINE ends == {j \in i + 1 .. Len(t) + 1 : j > Len(t) \/ ~IsDigit(t[j])}
             n == UpTo(i, ends, 0)
  <2>1. DigitsAt(t, i) = IF i <= Len(t) /\ IsDigit(t[i]) THEN n ELSE 0
    BY DEF DigitsAt
  <2>2. /\ Within(ends, i + 1, Len(t) + 1) /\ ends # {}
        /\ i + 1 \in Int /\ i \in Int /\ Len(t) + 1 \in Int
    <3>1. Len(t) + 1 \in ends
      BY <1>1
    <3> QED  BY <1>1, <3>1 DEF Within
  <2>3. \A k \in i + 1 .. Len(t) + 1 : k \notin ends => IsDigit(t[k])
    OBVIOUS
  <2> HIDE DEF ends
  <2>4. PICK j \in ends : IsFirst(j, ends) /\ n = j + 0 - i
    BY <2>2, UpToFirst
  <2>5. j \in i + 1 .. Len(t) + 1
    BY <2>2 DEF Within
  <2> HIDE DEF n
  <2>6. CASE i <= Len(t) /\ IsDigit(t[i])
    <3>1. DigitsAt(t, i) = j - i
      BY <2>1, <2>4, <2>5, <2>6
    <3>2. ASSUME NEW k \in i .. j - 1 PROVE IsDigit(t[k])
      <4>1. CASE k = i
        BY <2>6, <4>1
      <4>2. CASE k # i
        <5>1. k \in i + 1 .. Len(t) + 1 /\ ~ (j <= k)
          BY <1>1, <2>5, <4>2
        <5> QED  BY <2>3, <2>4, <5>1 DEF IsFirst
      <4> QED  BY <4>1, <4>2
    <3>3. i + (j - i) = j
      BY <2>5
    <3> QED  BY <1>1, <2>5, <3>1, <3>2, <3>3
  <2>7. CASE ~ (i <= Len(t) /\ IsDigit(t[i]))
    <3>1. DigitsAt(t, i) = 0
      BY <2>1, <2>7
    <3> QED  BY <1>1, <3>1
  <2> QED  BY <2>6, <2>7
<1> QED  BY <1>1, <1>2 DEF Matches

-----------------------------------------------------------------------------
(* What process makes of a text is a text.                                 *)

LEMMA ConvertTokensTyped == ASSUME NEW t \in Text PROVE ConvertTokens(t) \in Text
<1> DEFINE Of(i) == CASE t[i] = "mention" -> Somebody
                      [] t[i] = "channel" -> Somewhere
                      [] t[i] \in Emoji \cup {"emote"} -> <<>>
                      [] OTHER -> <<t[i]>>
           q == [i \in DOMAIN t |-> Of(i)]
<1>1. Len(t) \in Nat /\ DOMAIN t = 1 .. Len(t) /\ \A i \in 1 .. Len(t) : t[i] \in Characters
  BY DEF Text
<1>2. \A i \in 1 .. Len(t) : Of(i) \in Text
  <2>1. Somebody \in Text /\ Somewhere \in Text /\ <<>> \in Text
    BY OwnTexts, TextBasics
  <2>2. \A c \in Characters : <<c>> \in Text
    BY TextBasics
  <2> QED  BY <1>1, <2>1, <2>2
<1> HIDE DEF Of
<1>3. q \in Seq(Text)
  BY <1>1, <1>2
<1> HIDE DEF q
<1>4. FlattenSeq(q) \in Seq(Characters)
  BY <1>3, FlattenTyped DEF Text
<1> QED  BY <1>4 DEF ConvertTokens, Text, q, Of

LEMMA RemoveUrlsTyped == ASSUME NEW t \in Text PROVE RemoveUrls(t) \in Text
<1> DEFINE length == [i \in DOMAIN t |-> UrlAt(t, i)]
           by == [i \in DOMAIN t |-> Omitted]
<1>1. by \in [1 .. Len(t) -> Text]
  <2>1. Omitted \in Text
    BY OwnTexts
  <2>2. DOMAIN t = 1 .. Len(t)
    BY DEF Text
  <2> QED  BY <2>1, <2>2
<1>2. Matches(t, length)
  BY UrlMatches
<1> HIDE DEF length, by
<1>3. Rewrite(t, length, by) \in Text
  BY <1>1, <1>2, RewriteTyped
<1> QED  BY <1>3 DEF RemoveUrls, length, by

LEMMA CleanTyped == ASSUME NEW t \in Text PROVE Clean(t) \in Text
<1>1. \A u \in Text : RemoveBlocks(u) \in Text
  BY BlockMatches, EraseTyped DEF RemoveBlocks
<1>2. \A u \in Text : RemoveInline(u) \in Text
  BY InlineMatches, EraseTyped DEF RemoveInline
<1>3. \A u \in Text : RemoveSpoilers(u) \in Text
  BY SpoilerMatches, EraseTyped DEF RemoveSpoilers
<1>4. RemoveCodeBlocks(t) \in Text
  BY <1>1, <1>2 DEF RemoveCodeBlocks
<1> QED  BY <1>3, <1>4, RemoveUrlsTyped, ConvertTokensTyped DEF Clean

(* A run of digits is a number.                                            *)
LEMMA ValueIsNumber ==
    ASSUME NEW run \in Text, \A i \in 1 .. Len(run) : IsDigit(run[i])
    PROVE  ValueOf(run) \in Nat
<1> DEFINE n == Len(run)
           step == [p \in Nat \X (1 .. n) |-> 10 * p[1] + DigitOf(run[p[2]])]
           Equation(f) == f = [m \in 0 .. n |-> IF m = 0 THEN 0 ELSE 10 * f[m - 1] + DigitOf(run[m])]
           value == CHOOSE f : Equation(f)
<1>1. n \in Nat
  BY DEF Text
<1>2. \A i \in 1 .. n : DigitOf(run[i]) \in Nat
  <2>1. ASSUME NEW i \in 1 .. n PROVE DigitOf(run[i]) \in 0 .. 9
    <3>1. PICK k \in 1 .. 10 : Digits[k] = run[i]
      BY DEF IsDigit
    <3>2. k - 1 \in 0 .. 9 /\ (k - 1) + 1 = k
      OBVIOUS
    <3>3. \E d \in 0 .. 9 : Digits[d + 1] = run[i]
      BY <3>1, <3>2
    <3> QED  BY <3>3 DEF DigitOf
  <2> QED  BY <2>1
<1>3. step \in [Nat \X (1 .. n) -> Nat]
  BY <1>2
<1>4. PICK g \in [0 .. n -> Nat] : IsCarried(g, 0, step, n)
  <2> HIDE DEF step, n
  <2>1. 0 \in Nat
    OBVIOUS
  <2> QED  BY <1>1, <1>3, <2>1, CarriedExists
<1>5. ASSUME NEW m \in 1 .. n PROVE g[m] = 10 * g[m - 1] + DigitOf(run[m])
  <2>1. m - 1 \in 0 .. n
    BY <1>1
  <2>2. g[m - 1] \in Nat
    BY <2>1
  <2>3. step[<<g[m - 1], m>>] = 10 * g[m - 1] + DigitOf(run[m])
    BY <2>2
  <2> HIDE DEF step
  <2> QED  BY <1>4, <2>3 DEF IsCarried
<1>6. Equation(g)
  <2>1. \A m \in 0 .. n : g[m] = IF m = 0 THEN 0 ELSE 10 * g[m - 1] + DigitOf(run[m])
    <3>1. \A m \in 0 .. n : m # 0 => m \in 1 .. n
      BY <1>1
    <3>2. g[0] = 0
      BY <1>4 DEF IsCarried
    <3> QED  BY <1>5, <3>1, <3>2
  <2> QED  BY <2>1
<1>7. Equation(value)
  <2> HIDE DEF Equation
  <2> QED  BY <1>6
<1> HIDE DEF value
<1>8. SameSteps(value, g, n)
  <2>1. value[0] = 0 /\ g[0] = 0
    BY <1>1, <1>4, <1>7 DEF IsCarried
  <2>2. ASSUME NEW m \in 1 .. n PROVE value[m] = 10 * value[m - 1] + DigitOf(run[m])
    <3>1. m \in 0 .. n /\ m # 0
      BY <1>1
    <3> QED  BY <1>7, <3>1
  <2> QED  BY <1>5, <2>1, <2>2 DEF SameSteps
<1>9. value[n] \in Nat
  <2>1. \A m \in 0 .. n : value[m] = g[m]
    <3> HIDE DEF n
    <3> QED  BY <1>1, <1>8, CarriedUnique
  <2>2. n \in 0 .. n
    BY <1>1
  <2> QED  BY <2>1, <2>2
<1> QED  BY <1>9 DEF ValueOf, value

LEMMA NumToKanjiTyped == ASSUME NEW n \in Nat PROVE NumToKanji(n) \in Text
<1> DEFINE Place(unit) == (n % (10 * Units[unit])) \div Units[unit]
           Part(unit, bare) ==
             IF Place(unit) = 0 THEN <<>>
             ELSE (IF Place(unit) <= bare THEN <<>> ELSE <<Kanji[Place(unit) + 1]>>) \o <<unit>>
           last == IF n % 10 = 0 THEN <<>> ELSE <<Kanji[(n % 10) + 1]>>
<1>1. Place("sen") \in 0 .. 9 /\ Place("hyaku") \in 0 .. 9 /\ Place("juu") \in 0 .. 9
  <2>1. (n % 10000) \div 1000 \in 0 .. 9 /\ (n % 1000) \div 100 \in 0 .. 9 /\ (n % 100) \div 10 \in 0 .. 9
    OBVIOUS
  <2>2. Units["sen"] = 1000 /\ Units["hyaku"] = 100 /\ Units["juu"] = 10
    BY DEF Units
  <2> QED  BY <2>1, <2>2
<1> HIDE DEF Place
<1>2. \A d \in 0 .. 9 : <<Kanji[d + 1]>> \in Text
  <2>1. Kanji \in Seq(Characters) /\ Len(Kanji) = 10
    <3>1. Len(Kanji) = 10
      BY DEF Kanji
    <3> QED  BY <3>1, OwnTexts DEF Text
  <2>2. \A d \in 0 .. 9 : d + 1 \in 1 .. 10
    OBVIOUS
  <2>3. \A k \in 1 .. 10 : Kanji[k] \in Characters
    BY <2>1, ElementOfSeq
  <2> QED  BY <2>2, <2>3, TextBasics
<1>3. <<>> \in Text /\ <<"sen">> \in Text /\ <<"hyaku">> \in Text /\ <<"juu">> \in Text
  <2>1. {"sen", "hyaku", "juu"} \subseteq Characters
    BY CharactersAssumption DEF Units
  <2> QED  BY <2>1, TextBasics
<1>4. \A u, v \in Text : u \o v \in Text
  BY TextBasics
<1>5. Part("sen", 0) \in Text /\ Part("hyaku", 0) \in Text /\ Part("juu", 1) \in Text
  BY <1>1, <1>2, <1>3, <1>4
<1>6. last \in Text
  <2>1. n % 10 \in 0 .. 9
    OBVIOUS
  <2> QED  BY <1>2, <1>3, <2>1
<1>7. <<Kanji[1]>> \in Text
  <2>1. 0 \in 0 .. 9 /\ 0 + 1 = 1
    OBVIOUS
  <2> QED  BY <1>2, <2>1
<1>8. NumToKanji(n) = IF n = 0 THEN <<Kanji[1]>>
                      ELSE Part("sen", 0) \o Part("hyaku", 0) \o Part("juu", 1) \o last
  BY DEF NumToKanji, Place
<1> HIDE DEF Part, last
<1> QED  BY <1>4, <1>5, <1>6, <1>7, <1>8

LEMMA ConvertNumbersTyped == ASSUME NEW t \in Text PROVE ConvertNumbers(t) \in Text
<1> DEFINE Spelt(run) == IF Len(run) <= 4 THEN NumToKanji(ValueOf(run)) ELSE run
           length == [i \in DOMAIN t |-> DigitsAt(t, i)]
           by == [i \in DOMAIN t |-> Spelt(SubSeq(t, i, i + DigitsAt(t, i) - 1))]
<1>1. Len(t) \in Nat /\ DOMAIN t = 1 .. Len(t)
  BY DEF Text
<1>2. Matches(t, length)
  BY DigitMatches
<1>3. ASSUME NEW i \in 1 .. Len(t) PROVE Spelt(SubSeq(t, i, i + DigitsAt(t, i) - 1)) \in Text
  <2> DEFINE n == DigitsAt(t, i)
             run == SubSeq(t, i, i + n - 1)
  <2>1. n \in Nat /\ i + n <= Len(t) + 1
    BY <1>1, <1>2 DEF Matches
  <2>2. \A k \in i .. i + n - 1 : IsDigit(t[k])
    BY DigitMatches
  <2> HIDE DEF n
  <2>3. /\ run \in Text /\ Len(run) = n
        /\ \A k \in 1 .. n : run[k] = t[i + k - 1]
    BY <1>1, <2>1 DEF Text
  <2>4. \A k \in 1 .. n : i + k - 1 \in i .. i + n - 1
    BY <2>1
  <2> HIDE DEF run
  <2>5. ValueOf(run) \in Nat
    BY <2>2, <2>3, <2>4, ValueIsNumber
  <2>6. Spelt(run) \in Text
    BY <2>3, <2>5, NumToKanjiTyped
  <2> QED  BY <2>6 DEF run, n
<1> HIDE DEF Spelt
<1>4. by \in [1 .. Len(t) -> Text]
  BY <1>1, <1>3
<1> HIDE DEF length, by
<1>5. Rewrite(t, length, by) \in Text
  BY <1>2, <1>4, RewriteTyped
<1> QED  BY <1>5 DEF ConvertNumbers, length, by, Spelt

-----------------------------------------------------------------------------
(* A text read with one entry of the dictionary.                           *)

Entry == [word : WordSet, reading : Readings]

LEMMA EntryTyped ==
    ASSUME NEW e \in Entry
    PROVE  /\ e.word \in Text /\ e.reading \in Text
           /\ Len(e.word) \in Nat \ {0} /\ Len(e.reading) \in Nat
<1>1. \A w \in WordSet : w \in Text
  BY TextAssumption DEF WordSet, Text
<1>2. e.word \in Text /\ e.reading \in Text /\ e.word # <<>>
  BY <1>1, WordsAssumption, TextAssumption DEF Entry, Absent
<1>3. \A u \in Text : Len(u) \in Nat /\ (u # <<>> => Len(u) # 0)
  BY EmptySeq DEF Text
<1> QED  BY <1>2, <1>3

(* What becomes of t from each position on.                                *)
SaidFrom(t, e) ==
    Rewritten(t, [i \in DOMAIN t |-> IF At(t, i, e.word) THEN Len(e.word) ELSE 0],
              [i \in DOMAIN t |-> e.reading])

SaidOnward(F, i, t, e) ==
    IF At(t, i, e.word) THEN e.reading \o F[i + Len(e.word)] ELSE <<t[i]>> \o F[i + 1]

SaysFrom(F, t, e) ==
    F[Len(t) + 1] = <<>> /\ \A i \in 1 .. Len(t) : F[i] = SaidOnward(F, i, t, e)

LEMMA SaidUnfolds ==
    ASSUME NEW t \in Text, NEW e \in Entry
    PROVE  /\ SaidFrom(t, e) \in [1 .. Len(t) + 1 -> Text]
           /\ SaysFrom(SaidFrom(t, e), t, e)
           /\ \A F : SaysFrom(F, t, e) => \A i \in 1 .. Len(t) + 1 : F[i] = SaidFrom(t, e)[i]
<1> DEFINE length == [i \in DOMAIN t |-> IF At(t, i, e.word) THEN Len(e.word) ELSE 0]
           by == [i \in DOMAIN t |-> e.reading]
           n == Len(e.word)
<1>1. Len(t) \in Nat /\ DOMAIN t = 1 .. Len(t)
  BY DEF Text
<1>2. n \in Nat \ {0} /\ e.reading \in Text
  BY EntryTyped
<1>3. \A i \in 1 .. Len(t) : At(t, i, e.word) => i + n - 1 <= Len(t)
  BY DEF At
<1> HIDE DEF n
<1>4. Matches(t, length)
  <2>1. length = [i \in 1 .. Len(t) |-> IF At(t, i, e.word) THEN n ELSE 0]
    BY <1>1 DEF n
  <2> HIDE DEF length
  <2>2. \A i \in 1 .. Len(t) : length[i] \in Nat /\ i + length[i] <= Len(t) + 1
    BY <1>1, <1>2, <1>3, <2>1
  <2> QED  BY <2>1, <2>2 DEF Matches
<1>5. by \in [1 .. Len(t) -> Text]
  BY <1>1, <1>2
<1>6. /\ \A i \in 1 .. Len(t) : length[i] = IF At(t, i, e.word) THEN n ELSE 0
      /\ \A i \in 1 .. Len(t) : by[i] = e.reading
  BY <1>1 DEF n
<1>7. SaidFrom(t, e) = Rewritten(t, length, by)
  BY DEF SaidFrom
<1> HIDE DEF length, by
<1>8. \A F : SaysFrom(F, t, e) <=> RewritesFrom(1, F, t, length, by)
  <2>1. ASSUME NEW F, NEW i \in 1 .. Len(t)
        PROVE  SaidOnward(F, i, t, e) = Onward(F, i, t, length, by)
    BY <1>2, <1>6 DEF SaidOnward, Onward, n
  <2> QED  BY <2>1 DEF SaysFrom, RewritesFrom
<1>9. /\ SaidFrom(t, e) \in [1 .. Len(t) + 1 -> Text]
      /\ RewritesFrom(1, SaidFrom(t, e), t, length, by)
  BY <1>4, <1>5, <1>7, RewrittenUnfolds
<1>10. ASSUME NEW F, SaysFrom(F, t, e)
       PROVE  \A i \in 1 .. Len(t) + 1 : F[i] = SaidFrom(t, e)[i]
  <2>1. RewritesFrom(1, F, t, length, by)
    BY <1>8, <1>10
  <2> QED  BY <1>4, <1>9, <2>1, RewritingUnique
<1> QED  BY <1>8, <1>9, <1>10

LEMMA SaidTyped ==
    ASSUME NEW t \in Text, NEW e \in Entry
    PROVE  Said(t, e) \in Text /\ Said(t, e) = SaidFrom(t, e)[1]
<1>1. Said(t, e) = SaidFrom(t, e)[1]
  BY DEF Said, SaidFrom, Rewrite
<1>2. 1 \in 1 .. Len(t) + 1
  BY DEF Text
<1> QED  BY <1>1, <1>2, SaidUnfolds

(* What becomes of a text from k on depends on what is there from k on.    *)
LEMMA SaidLocal ==
    ASSUME NEW u \in Text, NEW e \in Entry, NEW k \in 1 .. Len(u) + 1
    PROVE  SaidFrom(u, e)[k] = Said(SubSeq(u, k, Len(u)), e)
<1> DEFINE v == SubSeq(u, k, Len(u))
           F == SaidFrom(u, e)
           n == Len(u) + 1 - k
           w == e.word
           h == [j \in 1 .. n + 1 |-> F[k - 1 + j]]
<1>1. Len(u) \in Nat
  BY DEF Text
<1>2. v \in Text /\ Len(v) = n /\ n \in Nat /\ \A j \in 1 .. n : v[j] = u[k - 1 + j]
  BY <1>1 DEF Text
<1>3. w \in Text /\ Len(w) \in Nat \ {0}
  BY EntryTyped
<1>4. F \in [1 .. Len(u) + 1 -> Text] /\ SaysFrom(F, u, e)
  BY SaidUnfolds
<1> HIDE DEF F, w
<1>5. ASSUME NEW j \in 1 .. n PROVE At(v, j, w) <=> At(u, k - 1 + j, w)
  <2>1. j + Len(w) - 1 <= n <=> (k - 1 + j) + Len(w) - 1 <= Len(u)
    BY <1>1, <1>3
  <2>2. ASSUME j + Len(w) - 1 <= n
        PROVE  SubSeq(v, j, j + Len(w) - 1) = SubSeq(u, k - 1 + j, (k - 1 + j) + Len(w) - 1)
    <3> DEFINE a == SubSeq(v, j, j + Len(w) - 1)
               b == SubSeq(u, k - 1 + j, (k - 1 + j) + Len(w) - 1)
    <3>1. /\ a \in Seq(Characters) /\ Len(a) = Len(w)
          /\ \A i \in 1 .. Len(w) : a[i] = v[j + i - 1]
      <4> HIDE DEF v
      <4> QED  BY <1>2, <1>3, <2>2 DEF Text
    <3>2. /\ b \in Seq(Characters) /\ Len(b) = Len(w)
          /\ \A i \in 1 .. Len(w) : b[i] = u[k - 1 + j + i - 1]
      BY <1>1, <1>3, <2>1, <2>2 DEF Text
    <3>3. ASSUME NEW i \in 1 .. Len(w) PROVE a[i] = b[i]
      <4>1. j + i - 1 \in 1 .. n /\ k - 1 + (j + i - 1) = k - 1 + j + i - 1
        BY <1>1, <1>2, <1>3, <2>2
      <4>2. v[j + i - 1] = u[k - 1 + (j + i - 1)]
        <5> HIDE DEF v, n
        <5> QED  BY <1>2, <4>1
      <4> HIDE DEF a, b, v, n
      <4> QED  BY <3>1, <3>2, <4>1, <4>2
    <3> HIDE DEF a, b
    <3>4. a = b
      BY <3>1, <3>2, <3>3, SeqEqual
    <3> QED  BY <3>4 DEF a, b
  <2> HIDE DEF v
  <2> QED  BY <1>2, <2>1, <2>2 DEF At
<1>6. h[n + 1] = <<>>
  <2>1. k - 1 + (n + 1) = Len(u) + 1 /\ n + 1 \in 1 .. n + 1
    BY <1>1
  <2>2. h[n + 1] = F[k - 1 + (n + 1)]
    BY <2>1
  <2> QED  BY <1>4, <2>1, <2>2 DEF SaysFrom
<1>7. ASSUME NEW j \in 1 .. n PROVE h[j] = SaidOnward(h, j, v, e)
  <2> DEFINE i == k - 1 + j
  <2>1. i \in 1 .. Len(u) /\ v[j] = u[i]
    BY <1>1, <1>2
  <2>2. h[j] = F[i]
    BY <1>2
  <2>3. F[i] = SaidOnward(F, i, u, e)
    BY <1>4, <2>1 DEF SaysFrom
  <2>4. At(v, j, w) <=> At(u, i, w)
    BY <1>5
  <2>5. ASSUME At(v, j, w) PROVE h[j + Len(w)] = F[i + Len(w)]
    <3>1. j + Len(w) - 1 <= n
      <4> HIDE DEF v
      <4> QED  BY <1>2, <2>5 DEF At
    <3>2. j + Len(w) \in 1 .. n + 1 /\ k - 1 + (j + Len(w)) = i + Len(w)
      BY <1>1, <1>2, <1>3, <3>1
    <3> QED  BY <3>2
  <2>6. h[j + 1] = F[i + 1]
    <3>1. j + 1 \in 1 .. n + 1 /\ k - 1 + (j + 1) = i + 1
      BY <1>1, <1>2
    <3> QED  BY <3>1
  <2> HIDE DEF h, v, i
  <2> QED  BY <2>1, <2>2, <2>3, <2>4, <2>5, <2>6 DEF SaidOnward, w
<1>8. SaysFrom(h, v, e)
  <2> HIDE DEF h, v
  <2> QED  BY <1>2, <1>6, <1>7 DEF SaysFrom
<1>9. h[1] = SaidFrom(v, e)[1]
  <2>1. 1 \in 1 .. Len(v) + 1
    BY <1>2
  <2> HIDE DEF h, v
  <2> QED  BY <1>2, <1>8, <2>1, SaidUnfolds
<1>10. h[1] = F[k]
  <2>1. 1 \in 1 .. n + 1 /\ k - 1 + 1 = k
    BY <1>2
  <2> QED  BY <2>1
<1>11. Said(v, e) = SaidFrom(v, e)[1]
  <2> HIDE DEF v
  <2> QED  BY <1>2, SaidTyped
<1> HIDE DEF h, v
<1> QED  BY <1>9, <1>10, <1>11 DEF v, F

(* Where find stops: at the first word from pos on, if there is one.       *)
Missed(t, word, from, to) == \A i \in from .. to : ~At(t, i, word)

LEMMA FindStops ==
    ASSUME NEW t \in Text, NEW word \in Text, Len(word) # 0, NEW p \in 1 .. Len(t) + 1,
           NEW f, f = Find(t, word, p)
    PROVE  \/ f = 0 /\ Missed(t, word, p, Len(t))
           \/ /\ f \in p .. Len(t) + 1 - Len(word)
              /\ At(t, f, word)
              /\ Missed(t, word, p, f - 1)
<1> DEFINE places == {i \in p .. Len(t) - Len(word) + 1 : At(t, i, word)}
<1>1. Len(t) \in Nat /\ Len(word) \in Nat
  BY DEF Text
<1>2. \A i \in Int : At(t, i, word) => i <= Len(t) - Len(word) + 1
  BY <1>1 DEF At
<1>3. f = IF places = {} THEN 0 ELSE CHOOSE i \in places : \A j \in places : i <= j
  BY DEF Find
<1>4. \A i \in p .. Len(t) : At(t, i, word) => i \in places
  BY <1>1, <1>2
<1>5. places \subseteq p .. Len(t) + 1 - Len(word) /\ \A i \in places : At(t, i, word)
  BY <1>1
<1> HIDE DEF places
<1>6. CASE places = {}
  BY <1>3, <1>4, <1>6 DEF Missed
<1>7. CASE places # {}
  <2>1. \E i \in places : \A j \in places : i <= j
    <3> DEFINE hi == Len(t) + 1 - Len(word)
    <3>1. p \in Int /\ hi \in Int /\ places \subseteq p .. hi
      BY <1>1, <1>5
    <3> HIDE DEF hi
    <3> QED  BY <1>7, <3>1, LeastMember
  <2>2. f \in places /\ \A j \in places : f <= j
    BY <1>3, <1>7, <2>1
  <2>3. f \in p .. Len(t) + 1 - Len(word)
    BY <1>5, <2>2
  <2>4. Missed(t, word, p, f - 1)
    <3>1. ASSUME NEW i \in p .. f - 1 PROVE ~At(t, i, word)
      <4>1. i \in p .. Len(t) /\ ~ (f <= i)
        BY <1>1, <2>3
      <4> QED  BY <1>4, <2>2, <4>1
    <3> QED  BY <3>1 DEF Missed
  <2> QED  BY <1>5, <2>2, <2>3, <2>4
<1> QED  BY <1>6, <1>7

(* What is no word is said as it is.                                       *)
LEMMA SaidSkips ==
    ASSUME NEW t \in Text, NEW e \in Entry, NEW p \in 1 .. Len(t) + 1, NEW f \in p .. Len(t) + 1,
           Missed(t, e.word, p, f - 1)
    PROVE  SaidFrom(t, e)[p] = SubSeq(t, p, f - 1) \o SaidFrom(t, e)[f]
<1> DEFINE F == SaidFrom(t, e)
           n == f - p
           Good == {d \in 0 .. n : F[f - d] = SubSeq(t, f - d, f - 1) \o F[f]}
<1>1. Len(t) \in Nat /\ n \in Nat
  BY DEF Text
<1>2. F \in [1 .. Len(t) + 1 -> Text] /\ SaysFrom(F, t, e)
  BY SaidUnfolds
<1> HIDE DEF F
<1>3. F[f] \in Text
  <2>1. f \in 1 .. Len(t) + 1
    BY <1>1
  <2> QED  BY <1>2, <2>1
<1>4. 0 \in Good
  <2>1. SubSeq(t, f, f - 1) = <<>>
    BY <1>1
  <2>2. <<>> \o F[f] = F[f]
    BY <1>3 DEF Text
  <2>3. f - 0 = f /\ 0 \in 0 .. n
    BY <1>1
  <2> QED  BY <2>1, <2>2, <2>3
<1>5. ASSUME NEW d \in 0 .. n - 1, d \in Good PROVE d + 1 \in Good
  <2> DEFINE i == f - (d + 1)
  <2>1. i \in 1 .. Len(t) /\ i \in p .. f - 1 /\ i + 1 = f - d /\ d + 1 \in 0 .. n
    BY <1>1
  <2>2. F[f - d] = SubSeq(t, f - d, f - 1) \o F[f]
    BY <1>5
  <2> HIDE DEF i
  <2>3. F[i + 1] = SubSeq(t, i + 1, f - 1) \o F[f]
    BY <2>1, <2>2
  <2>4. F[i] = <<t[i]>> \o F[i + 1]
    <3>1. ~At(t, i, e.word)
      BY <2>1 DEF Missed
    <3> QED  BY <1>2, <2>1, <3>1 DEF SaysFrom, SaidOnward
  <2>5. /\ <<t[i]>> \in Seq(Characters) /\ SubSeq(t, i + 1, f - 1) \in Seq(Characters)
        /\ F[f] \in Seq(Characters)
    BY <1>1, <1>3, <2>1 DEF Text
  <2>6. <<t[i]>> \o SubSeq(t, i + 1, f - 1) = SubSeq(t, i, f - 1)
    <3>1. t \in Seq(Characters) /\ f - 1 \in i .. Len(t)
      BY <1>1, <2>1 DEF Text
    <3> QED  BY <2>1, <3>1, SubSeqRecursiveFirst
  <2>7. <<t[i]>> \o (SubSeq(t, i + 1, f - 1) \o F[f]) = (<<t[i]>> \o SubSeq(t, i + 1, f - 1)) \o F[f]
    <3> DEFINE a == <<t[i]>>
               b == SubSeq(t, i + 1, f - 1)
               c == F[f]
    <3>1. a \in Seq(Characters) /\ b \in Seq(Characters) /\ c \in Seq(Characters)
      BY <2>5
    <3> HIDE DEF a, b, c
    <3>2. a \o (b \o c) = (a \o b) \o c
      BY <3>1, Reassociate, SMTT(20)
    <3> QED  BY <3>2 DEF a, b, c
  <2>8. F[i] = SubSeq(t, i, f - 1) \o F[f]
    BY <2>3, <2>4, <2>6, <2>7
  <2> QED  BY <2>1, <2>8 DEF i
<1>6. \A d \in 0 .. n : d \in Good
  <2> HIDE DEF Good, n
  <2> QED  BY <1>1, <1>4, <1>5, UpwardInduction
<1>7. f - n = p
  BY <1>1
<1>8. F[f - n] = SubSeq(t, f - n, f - 1) \o F[f]
  <2>1. n \in Good
    <3>1. n \in 0 .. n
      BY <1>1
    <3> HIDE DEF n, Good
    <3> QED  BY <1>6, <3>1
  <2> QED  BY <2>1
<1> QED  BY <1>7, <1>8 DEF F

(* Up to the first word, its reading, and what becomes of the rest.        *)
LEMMA SaidFirst ==
    ASSUME NEW t \in Text, NEW e \in Entry, NEW p \in 1 .. Len(t) + 1,
           NEW f \in p .. Len(t) + 1 - Len(e.word),
           At(t, f, e.word), Missed(t, e.word, p, f - 1)
    PROVE  Said(SubSeq(t, p, Len(t)), e) =
               SubSeq(t, p, f - 1)
                 \o (e.reading \o Said(SubSeq(t, f + Len(e.word), Len(t)), e))
<1>1. Len(t) \in Nat /\ Len(e.word) \in Nat \ {0}
  BY EntryTyped DEF Text
<1>2. f \in 1 .. Len(t) /\ f \in p .. Len(t) + 1 /\ f + Len(e.word) \in 1 .. Len(t) + 1
  BY <1>1
<1>3. SaidFrom(t, e)[p] = SubSeq(t, p, f - 1) \o SaidFrom(t, e)[f]
  BY <1>2, SaidSkips
<1>4. SaysFrom(SaidFrom(t, e), t, e)
  BY SaidUnfolds
<1>5. SaidFrom(t, e)[f] = e.reading \o SaidFrom(t, e)[f + Len(e.word)]
  BY <1>2, <1>4 DEF SaysFrom, SaidOnward
<1> DEFINE next == f + Len(e.word)
<1>6. SaidFrom(t, e)[next] = Said(SubSeq(t, next, Len(t)), e)
  <2>1. next \in 1 .. Len(t) + 1
    BY <1>2
  <2> HIDE DEF next
  <2> QED  BY <2>1, SaidLocal
<1>7. SaidFrom(t, e)[p] = Said(SubSeq(t, p, Len(t)), e)
  BY SaidLocal
<1> QED  BY <1>3, <1>5, <1>6, <1>7

LEMMA SaidNone ==
    ASSUME NEW t \in Text, NEW e \in Entry, NEW p \in 1 .. Len(t) + 1, Missed(t, e.word, p, Len(t))
    PROVE  Said(SubSeq(t, p, Len(t)), e) = SubSeq(t, p, Len(t))
<1> DEFINE f == Len(t) + 1
<1>1. f \in p .. Len(t) + 1 /\ f - 1 = Len(t)
  BY DEF Text
<1>2. SaysFrom(SaidFrom(t, e), t, e)
  BY SaidUnfolds
<1>3. SaidFrom(t, e)[f] = <<>>
  BY <1>2 DEF SaysFrom
<1>4. SaidFrom(t, e)[p] = SubSeq(t, p, f - 1) \o SaidFrom(t, e)[f]
  <2> HIDE DEF f
  <2> QED  BY <1>1, SaidSkips
<1>5. SubSeq(t, p, Len(t)) \o <<>> = SubSeq(t, p, Len(t))
  BY DEF Text
<1>6. SaidFrom(t, e)[p] = Said(SubSeq(t, p, Len(t)), e)
  BY SaidLocal
<1> QED  BY <1>1, <1>3, <1>4, <1>5, <1>6

(* Texts put together.                                                     *)
LEMMA Joined ==
    ASSUME NEW a \in Text, NEW b \in Text
    PROVE  a \o b \in Text /\ Len(a \o b) = Len(a) + Len(b)
BY DEF Text

LEMMA ThreeJoined ==
    ASSUME NEW a \in Text, NEW b \in Text, NEW c \in Text
    PROVE  a \o (b \o c) = (a \o b) \o c
<1>1. a \in Seq(Characters) /\ b \in Seq(Characters) /\ c \in Seq(Characters)
  BY DEF Text
<1> QED  BY <1>1, Reassociate, SMTT(20)

(* A part of a text.                                                       *)
LEMMA PartTyped ==
    ASSUME NEW t \in Text, NEW i \in 1 .. Len(t) + 1, NEW j \in i - 1 .. Len(t)
    PROVE  SubSeq(t, i, j) \in Text /\ Len(SubSeq(t, i, j)) = j + 1 - i
BY DEF Text

(* The text before p, read already, and what is made of the rest of it.    *)
ReadTo(t, p, e) == SubSeq(t, 1, p - 1) \o Said(SubSeq(t, p, Len(t)), e)

Replaced(t, f, e) == SubSeq(t, 1, f - 1) \o e.reading \o SubSeq(t, f + Len(e.word), Len(t))

(* A word is replaced: the text before is left alone, the reading is       *)
(* passed, and the rest is that of before.                                 *)
LEMMA OneReplaced ==
    ASSUME NEW t \in Text, NEW e \in Entry, NEW p \in 1 .. Len(t) + 1,
           NEW f \in p .. Len(t) + 1 - Len(e.word),
           At(t, f, e.word), Missed(t, e.word, p, f - 1),
           NEW u, u = Replaced(t, f, e)
    PROVE  /\ u \in Text
           /\ Len(u) = Len(t) - Len(e.word) + Len(e.reading)
           /\ f + Len(e.reading) \in 1 .. Len(u) + 1
           /\ ReadTo(u, f + Len(e.reading), e) = ReadTo(t, p, e)
<1> DEFINE w == Len(e.word)
           r == Len(e.reading)
           before == SubSeq(t, 1, f - 1)
           rest == SubSeq(t, f + w, Len(t))
           front == before \o e.reading
<1>1. Len(t) \in Nat /\ w \in Nat \ {0} /\ r \in Nat /\ e.reading \in Text /\ t \in Seq(Characters)
  BY EntryTyped DEF Text
<1>2. before \in Text /\ Len(before) = f - 1
  BY <1>1 DEF Text
<1>3. rest \in Text /\ Len(rest) = Len(t) + 1 - (f + w)
  <2> DEFINE next == f + w
  <2>1. next \in 1 .. Len(t) + 1 /\ Len(t) \in next - 1 .. Len(t)
    BY <1>1
  <2> HIDE DEF next
  <2>2. SubSeq(t, next, Len(t)) \in Text /\ Len(SubSeq(t, next, Len(t))) = Len(t) + 1 - next
    BY <2>1, PartTyped
  <2> QED  BY <2>2 DEF next
<1>4. Said(rest, e) \in Text
  <2> HIDE DEF rest
  <2> QED  BY <1>3, SaidTyped
<1>5. SubSeq(t, 1, p - 1) \o SubSeq(t, p, f - 1) = before
  <2>1. 1 \in 1 .. Len(t) + 1 /\ p - 1 \in 1 - 1 .. Len(t) /\ f - 1 \in p - 1 .. Len(t) /\ p - 1 + 1 = p
    BY <1>1
  <2>2. SubSeq(t, 1, p - 1) \o SubSeq(t, p - 1 + 1, f - 1) = SubSeq(t, 1, f - 1)
    BY <1>1, <2>1, ConcatAdjacentSubSeq
  <2> QED  BY <2>1, <2>2
<1>6. SubSeq(t, 1, p - 1) \in Text /\ SubSeq(t, p, f - 1) \in Text
  BY <1>1 DEF Text
<1>7. Said(SubSeq(t, p, Len(t)), e) = SubSeq(t, p, f - 1) \o (e.reading \o Said(rest, e))
  BY SaidFirst
<1> HIDE DEF before, rest
<1>8. front \in Text /\ Len(front) = f - 1 + r
  BY <1>1, <1>2, Joined
<1>9. u = front \o rest
  BY DEF before, rest, Replaced
<1> HIDE DEF front
<1>10. u \in Text /\ Len(u) = Len(front) + Len(rest)
  BY <1>3, <1>8, <1>9, Joined
<1>11. SubSeq(u, 1, Len(front)) = front /\ SubSeq(u, Len(front) + 1, Len(u)) = rest
  <2>1. front \in Seq(Characters) /\ rest \in Seq(Characters)
    BY <1>3, <1>8 DEF Text
  <2>2. /\ SubSeq(front \o rest, 1, Len(front)) = front
        /\ SubSeq(front \o rest, Len(front) + 1, Len(front \o rest)) = rest
    BY <2>1, TakeApart
  <2> QED  BY <1>9, <2>2
<1>12. f \in Int /\ r \in Int /\ w \in Int /\ Len(rest) \in Nat /\ Len(t) \in Nat
  BY <1>1, <1>3, TextBasics
<1> HIDE DEF w, r
<1>13. Len(front) = f + r - 1 /\ Len(front) + 1 = f + r
  BY <1>8, <1>12
<1>14. ReadTo(u, f + r, e) = front \o Said(rest, e)
  <2> DEFINE k == f + r
  <2>1. Len(front) = k - 1 /\ Len(front) + 1 = k
    BY <1>13
  <2> HIDE DEF k
  <2>2. SubSeq(u, 1, k - 1) = front /\ SubSeq(u, k, Len(u)) = rest
    BY <1>11, <2>1
  <2>3. ReadTo(u, k, e) = front \o Said(rest, e)
    BY <2>2 DEF ReadTo
  <2> QED  BY <2>3 DEF k
<1>15. ReadTo(t, p, e) = front \o Said(rest, e)
  <2> DEFINE a == SubSeq(t, 1, p - 1)
             b == SubSeq(t, p, f - 1)
             c == e.reading
             d == Said(rest, e)
  <2>1. ReadTo(t, p, e) = a \o (b \o (c \o d))
    BY <1>7 DEF ReadTo
  <2>2. a \in Text /\ b \in Text /\ c \in Text /\ d \in Text /\ a \o b = before
    BY <1>1, <1>4, <1>5, <1>6
  <2>3. front = before \o c
    BY DEF front
  <2> HIDE DEF a, b, c, d
  <2>4. c \o d \in Text
    BY <2>2, Joined
  <2>5. a \o (b \o (c \o d)) = (a \o b) \o (c \o d)
    <3> DEFINE x == c \o d
    <3>1. a \in Text /\ b \in Text /\ x \in Text
      BY <2>2, <2>4
    <3> HIDE DEF x
    <3>2. a \o (b \o x) = (a \o b) \o x
      BY <3>1, ThreeJoined, SMTT(20)
    <3> QED  BY <3>2 DEF x
  <2>6. before \o (c \o d) = (before \o c) \o d
    BY <1>2, <2>2, ThreeJoined, ZenonT(40)
  <2> QED  BY <2>1, <2>2, <2>3, <2>5, <2>6 DEF d
<1>16. Len(u) = Len(t) - w + r /\ f + r \in 1 .. Len(u) + 1
  <2>1. r \in Nat /\ f >= 1
    BY <1>1 DEF r
  <2> QED  BY <1>3, <1>10, <1>12, <1>13, <2>1
<1> QED  BY <1>10, <1>14, <1>15, <1>16 DEF w, r

(* No word is left: the text is read.                                      *)
LEMMA AllReplaced ==
    ASSUME NEW t \in Text, NEW e \in Entry, NEW p \in 1 .. Len(t) + 1, Missed(t, e.word, p, Len(t))
    PROVE  ReadTo(t, p, e) = t
<1>1. Said(SubSeq(t, p, Len(t)), e) = SubSeq(t, p, Len(t))
  BY SaidNone
<1>2. t \in Seq(Characters) /\ Len(t) \in Nat
  BY DEF Text
<1>3. SubSeq(t, 1, p - 1) \o SubSeq(t, p - 1 + 1, Len(t)) = SubSeq(t, 1, Len(t))
  <2>1. 1 \in 1 .. Len(t) + 1 /\ p - 1 \in 1 - 1 .. Len(t) /\ Len(t) \in p - 1 .. Len(t)
    BY <1>2
  <2> QED  BY <1>2, <2>1, ConcatAdjacentSubSeq
<1>4. SubSeq(t, 1, Len(t)) = t /\ p - 1 + 1 = p
  BY <1>2, SubSeqFull
<1> QED  BY <1>1, <1>3, <1>4, Zenon DEF ReadTo

LEMMA ReadFromStart ==
    ASSUME NEW t \in Text, NEW e \in Entry
    PROVE  ReadTo(t, 1, e) = Said(t, e)
<1>1. t \in Seq(Characters) /\ SubSeq(t, 1, 0) = <<>>
  BY DEF Text
<1>2. SubSeq(t, 1, Len(t)) = t
  BY <1>1, SubSeqFull
<1>3. <<>> \o Said(t, e) = Said(t, e)
  <2>1. Said(t, e) \in Seq(Characters)
    BY SaidTyped DEF Text
  <2> QED  BY <2>1, ConcatEmptySeq
<1>4. SubSeq(t, 1, 1 - 1) = <<>>
  BY <1>1
<1> QED  BY <1>2, <1>3, <1>4 DEF ReadTo

(* What the first entries make of a text.                                  *)
LEMMA SaidByUnfolds ==
    ASSUME NEW t \in Text, NEW q \in Seq(Entry)
    PROVE  /\ SaidBy(t, q)[0] = t
           /\ \A m \in 1 .. Len(q) : SaidBy(t, q)[m] = Said(SaidBy(t, q)[m - 1], q[m])
           /\ \A m \in 0 .. Len(q) : SaidBy(t, q)[m] \in Text
<1> DEFINE n == Len(q)
           step == [x \in Text \X (1 .. n) |-> Said(x[1], q[x[2]])]
           Equation(f) == f = [m \in 0 .. n |-> IF m = 0 THEN t ELSE Said(f[m - 1], q[m])]
           after == CHOOSE f : Equation(f)
<1>1. n \in Nat /\ \A m \in 1 .. n : q[m] \in Entry
  OBVIOUS
<1>2. step \in [Text \X (1 .. n) -> Text]
  <2>1. \A x \in Text, m \in 1 .. n : Said(x, q[m]) \in Text
    BY <1>1, SaidTyped
  <2> QED  BY <2>1
<1>3. PICK g \in [0 .. n -> Text] : IsCarried(g, t, step, n)
  <2> HIDE DEF step, n
  <2> QED  BY <1>1, <1>2, CarriedExists
<1>4. ASSUME NEW m \in 1 .. n PROVE g[m] = Said(g[m - 1], q[m])
  <2>1. m - 1 \in 0 .. n
    BY <1>1
  <2>2. g[m - 1] \in Text
    BY <2>1
  <2>3. step[<<g[m - 1], m>>] = Said(g[m - 1], q[m])
    BY <2>2
  <2> HIDE DEF step
  <2> QED  BY <1>3, <2>3 DEF IsCarried
<1>5. g[0] = t
  BY <1>3 DEF IsCarried
<1>6. Equation(g)
  <2>1. \A m \in 0 .. n : m # 0 => m \in 1 .. n
    BY <1>1
  <2>2. \A m \in 0 .. n : g[m] = IF m = 0 THEN t ELSE Said(g[m - 1], q[m])
    BY <1>4, <1>5, <2>1
  <2> QED  BY <2>2
<1>7. Equation(after)
  <2> HIDE DEF Equation
  <2> QED  BY <1>6
<1>8. SaidBy(t, q) = after
  BY DEF SaidBy
<1> HIDE DEF after
<1>9. after[0] = t
  BY <1>1, <1>7
<1>10. ASSUME NEW m \in 1 .. n PROVE after[m] = Said(after[m - 1], q[m])
  <2>1. m \in 0 .. n /\ m # 0
    BY <1>1
  <2> QED  BY <1>7, <2>1
<1>11. \A m \in 0 .. n : after[m] = g[m]
  <2>1. SameSteps(after, g, n)
    BY <1>4, <1>5, <1>9, <1>10 DEF SameSteps
  <2> HIDE DEF n
  <2> QED  BY <1>1, <2>1, CarriedUnique
<1>12. \A m \in 0 .. n : after[m] \in Text
  BY <1>11
<1> QED  BY <1>8, <1>9, <1>10, <1>12

-----------------------------------------------------------------------------
(* The state.                                                              *)

Command ==
    {Idle}
    \cup [action : {"add"}, word : WordSet, reading : Readings, known : BOOLEAN]
    \cup [action : {"remove"}, word : WordSet, reading : {Absent}, known : BOOLEAN]

(* The table holds a reading or none for each word, a handler no command   *)
(* or a whole one, and the message is text, read by entries of the         *)
(* dictionary at a position of the text.                                   *)
TypeOK ==
    /\ guild_dict \in Table
    /\ handler \in [Handlers -> Command]
    /\ commands \in Nat
    /\ content \in Text
    /\ stage \in {"arrives", "ignored", "dict", "submitted", "spoken"}
    /\ dict \in Seq(Entry)
    /\ text \in Text
    /\ entry \in 1 .. Len(dict) + 1
    /\ pos \in 1 .. Len(text) + 1
    /\ stage = "arrives" => entry = 1 /\ pos = 1

LEMMA RawTextTyped == ASSUME content \in Text PROVE RawText \in Text
<1>1. Attached \in Text /\ <<" ">> \in Text
  BY TextAssumption, CharactersAssumption, TextBasics
<1> QED  BY <1>1, TextBasics DEF RawText

LEMMA EntriesTyped == ASSUME guild_dict \in Table PROVE EntriesOf(DictList) \in Seq(Entry)
<1> DEFINE S == {w \in WordSet : guild_dict[w] # Absent}
           q == [i \in DOMAIN Words |-> IF guild_dict[Words[i]] # Absent THEN <<Words[i]>> ELSE <<>>]
           words == DictList
<1>1. Len(Words) \in Nat /\ DOMAIN Words = 1 .. Len(Words)
  BY TextAssumption
<1>2. ASSUME NEW i \in DOMAIN Words PROVE q[i] \in Seq(S)
  <2>1. Words[i] \in WordSet
    BY DEF WordSet
  <2>2. guild_dict[Words[i]] # Absent => Words[i] \in S
    BY <2>1
  <2>3. q[i] = IF guild_dict[Words[i]] # Absent THEN <<Words[i]>> ELSE <<>>
    OBVIOUS
  <2> HIDE DEF S
  <2> QED  BY <2>2, <2>3
<1>3. q \in Seq(Seq(S))
  <2> HIDE DEF S
  <2>1. \A i \in 1 .. Len(Words) : q[i] \in Seq(S)
    BY <1>1, <1>2
  <2>2. q = [i \in 1 .. Len(Words) |-> q[i]]
    BY <1>1
  <2> HIDE DEF q
  <2> QED  BY <1>1, <2>1, <2>2
<1>4. words \in Seq(S)
  <2>1. words = FlattenSeq(q)
    BY DEF DictList
  <2> HIDE DEF q, words, S
  <2> QED  BY <1>3, <2>1, FlattenTyped
<1>5. \A w \in S : [word |-> w, reading |-> guild_dict[w]] \in Entry
  BY DEF Entry, Table
<1> HIDE DEF words, S
<1>6. Len(words) \in Nat /\ DOMAIN words = 1 .. Len(words) /\ \A i \in 1 .. Len(words) : words[i] \in S
  BY <1>4
<1> DEFINE entries == [i \in 1 .. Len(words) |-> [word |-> words[i], reading |-> guild_dict[words[i]]]]
<1>7. \A i \in 1 .. Len(words) : entries[i] \in Entry
  BY <1>5, <1>6
<1>8. EntriesOf(words) = entries
  BY <1>6 DEF EntriesOf
<1>9. entries \in Seq(Entry)
  <2>1. entries = [i \in 1 .. Len(words) |-> entries[i]]
    OBVIOUS
  <2> HIDE DEF entries
  <2> QED  BY <1>6, <1>7, <2>1
<1> QED  BY <1>8, <1>9 DEF words

(* What a replacement does, when the entry in turn is found.               *)
LEMMA ReplaceSteps ==
    ASSUME TypeOK, Replace
    PROVE  /\ dict[entry] \in Entry
           /\ text' \in Text
           /\ pos' \in 1 .. Len(text') + 1
           /\ Len(text') + 1 - pos' \in 0 .. (Len(text) + 1 - pos) - 1
           /\ ReadTo(text', pos', dict[entry]) = ReadTo(text, pos, dict[entry])
<1> DEFINE e == dict[entry]
           found == Find(text, e.word, pos)
<1>1. text \in Text /\ pos \in 1 .. Len(text) + 1 /\ Len(text) \in Nat
  BY DEF TypeOK, Text
<1>2. e \in Entry
  <2>1. dict \in Seq(Entry) /\ entry \in 1 .. Len(dict)
    BY DEF TypeOK, Replace
  <2> QED  BY <2>1
<1>3. found > 0 /\ text' = Replaced(text, found, e) /\ pos' = found + Len(e.reading)
  BY DEF Replace, Replaced
<1> HIDE DEF e
<1>4. e.word \in Text /\ Len(e.word) \in Nat \ {0} /\ Len(e.reading) \in Nat
  BY <1>2, EntryTyped
<1>5. /\ found \in pos .. Len(text) + 1 - Len(e.word)
      /\ At(text, found, e.word)
      /\ Missed(text, e.word, pos, found - 1)
  <2> DEFINE f == found
  <2>1. f = Find(text, e.word, pos) /\ f > 0
    BY <1>3
  <2> HIDE DEF f
  <2>2. f # 0
    BY <2>1
  <2>3. /\ f \in pos .. Len(text) + 1 - Len(e.word) /\ At(text, f, e.word)
        /\ Missed(text, e.word, pos, f - 1)
    BY <1>1, <1>4, <2>1, <2>2, FindStops
  <2> QED  BY <2>3 DEF f
<1> HIDE DEF found
<1> DEFINE u == Replaced(text, found, e)
<1>6. /\ u \in Text
      /\ Len(u) = Len(text) - Len(e.word) + Len(e.reading)
      /\ found + Len(e.reading) \in 1 .. Len(u) + 1
      /\ ReadTo(u, found + Len(e.reading), e) = ReadTo(text, pos, e)
  <2> HIDE DEF u
  <2>1. u = Replaced(text, found, e)
    BY DEF u
  <2> QED  BY <1>1, <1>2, <1>5, <2>1, OneReplaced
<1>7. text' = u
  BY <1>3
<1> HIDE DEF u
<1>8. Len(u) + 1 - (found + Len(e.reading)) \in 0 .. (Len(text) + 1 - pos) - 1
  <2> DEFINE w == Len(e.word)
             r == Len(e.reading)
             n == Len(text)
             m == Len(u)
  <2>1. /\ w \in Nat \ {0} /\ r \in Nat /\ n \in Nat /\ m = n - w + r
        /\ pos \in 1 .. n + 1 /\ found \in pos .. n + 1 - w
    BY <1>1, <1>4, <1>5, <1>6
  <2> HIDE DEF w, r, n, m
  <2>2. m + 1 - (found + r) \in 0 .. (n + 1 - pos) - 1
    BY <2>1
  <2> QED  BY <2>2 DEF w, r, n, m
<1> QED  BY <1>2, <1>3, <1>6, <1>7, <1>8 DEF e

LEMMA InitTyped == Init => TypeOK
<1> SUFFICES ASSUME Init PROVE TypeOK
  OBVIOUS
<1>1. PICK s \in Scenarios : content = s.content /\ guild_dict = s.table /\ commands = s.commands
  BY DEF Init
<1>2. content \in Text /\ guild_dict \in Table /\ commands \in Nat
  BY <1>1, TextAssumption
<1>3. handler \in [Handlers -> Command]
  BY DEF Init, Command
<1>4. /\ stage = "arrives" /\ dict = <<>> /\ text = <<>> /\ entry = 1 /\ pos = 1
  BY DEF Init
<1>5. dict \in Seq(Entry) /\ text \in Text /\ Len(dict) = 0 /\ Len(text) = 0
  BY <1>4, TextBasics
<1> QED  BY <1>2, <1>3, <1>4, <1>5 DEF TypeOK

LEMMA NextTyped == TypeOK /\ [Next]_vars => TypeOK'
<1> SUFFICES ASSUME TypeOK, [Next]_vars PROVE TypeOK'
  OBVIOUS
<1> USE DEF TypeOK
<1>1. ASSUME NEW h \in Handlers, ReadEntries(h) PROVE TypeOK'
  <2>1. handler' \in [Handlers -> Command]
    <3>1. CASE handler' = handler
      BY <3>1
    <3>2. ASSUME NEW action \in {"add", "remove"}, NEW word \in WordSet, NEW reading \in Readings,
                 handler' = [handler EXCEPT ![h] =
                     [action |-> action, word |-> word, known |-> guild_dict[word] # Absent,
                      reading |-> IF action = "add" THEN reading ELSE Absent]]
          PROVE  handler' \in [Handlers -> Command]
      <4>1. [action |-> action, word |-> word, known |-> guild_dict[word] # Absent,
             reading |-> IF action = "add" THEN reading ELSE Absent] \in Command
        BY <3>2 DEF Command
      <4> HIDE DEF Command
      <4> QED  BY <3>2, <4>1
    <3> QED  BY <1>1, <3>1, <3>2 DEF ReadEntries
  <2>2. commands' \in Nat
    BY <1>1 DEF ReadEntries
  <2> QED  BY <1>1, <2>1, <2>2 DEF ReadEntries, message
<1>2. ASSUME NEW h \in Handlers, DictAdd(h) \/ DictRemove(h) PROVE TypeOK'
  <2>1. handler[h] \in Command /\ handler' = [handler EXCEPT ![h] = Idle]
    BY <1>2 DEF DictAdd, DictRemove
  <2>2. handler' \in [Handlers -> Command]
    <3>1. Idle \in Command
      BY DEF Command
    <3> QED  BY <2>1, <3>1
  <2>3. ASSUME DictAdd(h) PROVE guild_dict' \in Table
    <3>1. handler[h].word \in WordSet /\ handler[h].reading \in Readings
      BY <2>1, <2>3 DEF DictAdd, Command, Idle
    <3> QED  BY <2>3, <3>1 DEF DictAdd, Table
  <2>4. ASSUME DictRemove(h) PROVE guild_dict' \in Table
    BY <2>4 DEF DictRemove, Table
  <2> QED  BY <1>2, <2>2, <2>3, <2>4 DEF DictAdd, DictRemove, message
<1>3. CASE Read
  <2>1. CASE stage' = "ignored" /\ UNCHANGED <<dict, text>>
    BY <1>3, <2>1 DEF Read
  <2>2. CASE stage' = "dict" /\ dict' = EntriesOf(DictList) /\ text' = Clean(RawText)
    <3>1. RawText \in Text
      BY RawTextTyped
    <3>2. dict' \in Seq(Entry)
      BY <2>2, EntriesTyped
    <3>3. text' \in Text
      BY <2>2, <3>1, CleanTyped
    <3>4. Len(dict') \in Nat /\ Len(text') \in Nat
      BY <3>2, <3>3 DEF Text
    <3>5. entry' = 1 /\ pos' = 1
      BY <1>3 DEF Read
    <3> QED  BY <1>3, <2>2, <3>2, <3>3, <3>4, <3>5 DEF Read
  <2> QED  BY <1>3, <2>1, <2>2 DEF Read
<1>4. CASE Replace
  BY <1>4, ReplaceSteps DEF Replace
<1>5. CASE NextEntry
  <2>1. Len(dict) \in Nat /\ Len(text) \in Nat
    BY DEF Text
  <2>2. entry' \in 1 .. Len(dict') + 1 /\ pos' \in 1 .. Len(text') + 1
    BY <1>5, <2>1 DEF NextEntry
  <2> QED  BY <1>5, <2>2 DEF NextEntry
<1>6. CASE Submit
  <2>1. stage' \in {"ignored", "submitted"}
    BY <1>6 DEF Submit
  <2> QED  BY <1>6, <2>1 DEF Submit
<1>7. CASE Split
  BY <1>7 DEF Split
<1>8. CASE UNCHANGED vars
  BY <1>8 DEF vars, message
<1> QED  BY <1>1, <1>2, <1>3, <1>4, <1>5, <1>6, <1>7, <1>8 DEF Next, Message, Dict, Over

(* Every state is of its type: in particular, the position is always one   *)
(* of the text, whatever the replacements make of its length.              *)
THEOREM TextTypeCorrect == Spec => []TypeOK
BY InitTyped, NextTyped, PTL DEF Spec

-----------------------------------------------------------------------------
(* The loop of apply_dict.                                                 *)

(* Each step of the loop leaves fewer entries, or less of the text to      *)
(* search, for a word that is found is passed with its reading and a word  *)
(* is never empty (preprocessor.cpp:31).                                   *)
THEOREM LoopAdvancesAlways == Spec => LoopAdvances
<1> DEFINE Advances ==
        stage = "dict" /\ stage' = "dict" =>
            \/ entry' > entry
            \/ entry' = entry /\ Unsearched' \in 0 .. Unsearched - 1
<1>1. TypeOK /\ [Next]_vars => [Advances]_<<entry, pos, text>>
  <2> SUFFICES ASSUME TypeOK, Next PROVE Advances \/ UNCHANGED <<entry, pos, text>>
    BY DEF vars, message
  <2>1. ASSUME NEW h \in Handlers, Dict(h) PROVE UNCHANGED <<entry, pos, text>>
    BY <2>1 DEF Dict, ReadEntries, DictAdd, DictRemove, message
  <2>2. CASE Read
    BY <2>2 DEF Read
  <2>3. CASE Replace
    <3>1. Len(text') + 1 - pos' \in 0 .. (Len(text) + 1 - pos) - 1
      BY <2>3, ReplaceSteps
    <3>2. entry' = entry
      BY <2>3 DEF Replace
    <3> QED  BY <3>1, <3>2 DEF Unsearched
  <2>4. CASE NextEntry
    <3>1. entry' = entry + 1 /\ entry \in Int
      BY <2>4 DEF NextEntry, TypeOK
    <3> QED  BY <3>1
  <2>5. CASE Submit
    BY <2>5 DEF Submit
  <2>6. CASE Split
    BY <2>6 DEF Split
  <2>7. CASE Over
    BY <2>7 DEF Over, vars, message
  <2> QED  BY <2>1, <2>2, <2>3, <2>4, <2>5, <2>6, <2>7 DEF Next, Message
<1> QED  BY <1>1, TextTypeCorrect, PTL DEF Spec, LoopAdvances

(* What the loop keeps: the entries before the one in turn have been       *)
(* applied, and the one in turn up to the position.                        *)
Applied(n) == SaidBy(Clean(RawText), dict)[n]

LoopInv ==
    stage = "dict" =>
        /\ entry <= Len(dict) => ReadTo(text, pos, dict[entry]) = Said(Applied(entry - 1), dict[entry])
        /\ entry > Len(dict) => text = Applied(Len(dict))

(* The loop starts an entry with the text that the entries before made.    *)
LEMMA EntryStarts ==
    ASSUME NEW t \in Text, NEW q \in Seq(Entry), NEW n \in 1 .. Len(q) + 1,
           NEW s, s = SaidBy(t, q)[n - 1]
    PROVE  /\ n <= Len(q) => ReadTo(s, 1, q[n]) = Said(SaidBy(t, q)[n - 1], q[n])
           /\ n > Len(q) => s = SaidBy(t, q)[Len(q)]
<1>1. Len(q) \in Nat
  OBVIOUS
<1>2. s \in Text
  <2>1. n - 1 \in 0 .. Len(q)
    BY <1>1
  <2>2. \A m \in 0 .. Len(q) : SaidBy(t, q)[m] \in Text
    BY SaidByUnfolds
  <2> QED  BY <2>1, <2>2
<1>3. ASSUME n <= Len(q) PROVE ReadTo(s, 1, q[n]) = Said(s, q[n])
  <2>1. q[n] \in Entry
    BY <1>1, <1>3
  <2> QED  BY <1>2, <2>1, ReadFromStart
<1>4. n > Len(q) => n - 1 = Len(q)
  BY <1>1
<1> QED  BY <1>3, <1>4

LEMMA LoopInvKept == TypeOK /\ LoopInv /\ [Next]_vars => LoopInv'
<1> SUFFICES ASSUME TypeOK, LoopInv, [Next]_vars PROVE LoopInv'
  OBVIOUS
<1>1. ASSUME NEW h \in Handlers, Dict(h) PROVE LoopInv'
  <2>1. UNCHANGED message
    BY <1>1 DEF Dict, ReadEntries, DictAdd, DictRemove
  <2>2. UNCHANGED <<stage, entry, pos, dict, text, content, attachments>>
    BY <2>1 DEF message
  <2> QED  BY <2>2 DEF LoopInv, Applied, RawText
<1>2. CASE Read
  <2> SUFFICES ASSUME stage' = "dict" PROVE LoopInv'
    BY DEF LoopInv
  <2>1. /\ dict' = EntriesOf(DictList) /\ text' = Clean(RawText) /\ entry' = 1 /\ pos' = 1
        /\ UNCHANGED <<content, attachments>>
    BY <1>2 DEF Read, TypeOK
  <2> DEFINE t == Clean(RawText)
             q == EntriesOf(DictList)
  <2>2. t \in Text /\ q \in Seq(Entry)
    BY RawTextTyped, CleanTyped, EntriesTyped DEF TypeOK
  <2>3. RawText' = RawText
    BY <2>1 DEF RawText
  <2> HIDE DEF t, q
  <2>4. SaidBy(t, q)[0] = t /\ Len(q) \in Nat
    BY <2>2, SaidByUnfolds
  <2>5. 1 \in 1 .. Len(q) + 1 /\ t = SaidBy(t, q)[1 - 1]
    BY <2>4
  <2>6. /\ 1 <= Len(q) => ReadTo(t, 1, q[1]) = Said(SaidBy(t, q)[1 - 1], q[1])
        /\ 1 > Len(q) => t = SaidBy(t, q)[Len(q)]
    BY <2>2, <2>5, EntryStarts
  <2>7. text' = t /\ dict' = q /\ (\A n : Applied(n)' = SaidBy(t, q)[n])
    BY <2>1, <2>3 DEF t, q, Applied
  <2> QED  BY <2>1, <2>6, <2>7 DEF LoopInv
<1>3. CASE Replace
  <2>1. ReadTo(text', pos', dict[entry]) = ReadTo(text, pos, dict[entry])
    BY <1>3, ReplaceSteps
  <2>2. UNCHANGED <<stage, dict, entry, content, attachments>> /\ entry <= Len(dict) /\ stage = "dict"
    BY <1>3 DEF Replace
  <2>3. ~ (entry > Len(dict))
    BY <2>2 DEF TypeOK
  <2> QED  BY <2>1, <2>2, <2>3 DEF LoopInv, Applied, RawText
<1>4. CASE NextEntry
  <2>1. /\ stage = "dict" /\ entry <= Len(dict) /\ entry' = entry + 1 /\ pos' = 1
        /\ Find(text, dict[entry].word, pos) = 0
        /\ UNCHANGED <<dict, text, content, attachments>>
    BY <1>4 DEF NextEntry
  <2> DEFINE e == dict[entry]
             t == Clean(RawText)
  <2>2. /\ text \in Text /\ pos \in 1 .. Len(text) + 1 /\ dict \in Seq(Entry)
        /\ entry \in 1 .. Len(dict) + 1 /\ Len(dict) \in Nat
    BY DEF TypeOK
  <2>3. e \in Entry /\ entry \in 1 .. Len(dict) /\ entry + 1 \in 1 .. Len(dict) + 1
    BY <2>1, <2>2
  <2>4. t \in Text
    BY RawTextTyped, CleanTyped DEF TypeOK
  <2>5. ReadTo(text, pos, e) = Said(SaidBy(t, dict)[entry - 1], e)
    BY <2>1 DEF LoopInv, Applied
  <2>6. Find(text, e.word, pos) = 0
    BY <2>1
  <2> HIDE DEF e, t
  <2>7. ReadTo(text, pos, e) = text
    <3>1. e.word \in Text /\ Len(e.word) # 0
      BY <2>3, EntryTyped
    <3> DEFINE f == Find(text, e.word, pos)
    <3>2. f = Find(text, e.word, pos) /\ f = 0
      BY <2>6
    <3> HIDE DEF f
    <3>3. ~ (f \in pos .. Len(text) + 1 - Len(e.word))
      BY <2>2, <3>2
    <3>4. Missed(text, e.word, pos, Len(text))
      BY <2>2, <3>1, <3>2, <3>3, FindStops
    <3> QED  BY <2>2, <2>3, <3>4, AllReplaced
  <2>8. text = SaidBy(t, dict)[(entry + 1) - 1]
    <3>1. SaidBy(t, dict)[entry] = Said(SaidBy(t, dict)[entry - 1], dict[entry])
      BY <2>2, <2>3, <2>4, SaidByUnfolds
    <3>2. (entry + 1) - 1 = entry
      BY <2>2
    <3> QED  BY <2>5, <2>7, <3>1, <3>2 DEF e
  <2> DEFINE n == entry + 1
  <2>9. n \in 1 .. Len(dict) + 1 /\ text = SaidBy(t, dict)[n - 1]
    BY <2>3, <2>8
  <2>10. /\ n <= Len(dict) => ReadTo(text, 1, dict[n]) = Said(SaidBy(t, dict)[n - 1], dict[n])
         /\ n > Len(dict) => text = SaidBy(t, dict)[Len(dict)]
    <3> HIDE DEF n
    <3> QED  BY <2>2, <2>4, <2>9, EntryStarts
  <2>11. entry' = n /\ pos' = 1 /\ dict' = dict /\ text' = text
    BY <2>1
  <2>12. \A m : Applied(m)' = SaidBy(t, dict)[m]
    BY <2>1 DEF Applied, RawText, t
  <2> HIDE DEF n
  <2> QED  BY <2>10, <2>11, <2>12 DEF LoopInv
<1>5. CASE Submit
  <2>1. stage' # "dict"
    BY <1>5 DEF Submit
  <2> QED  BY <2>1 DEF LoopInv
<1>6. CASE Split
  BY <1>6 DEF Split, LoopInv
<1>7. CASE UNCHANGED vars
  <2>1. UNCHANGED <<stage, entry, pos, dict, text, content, attachments>>
    BY <1>7 DEF vars, message
  <2> QED  BY <2>1 DEF LoopInv, Applied, RawText
<1> QED  BY <1>1, <1>2, <1>3, <1>4, <1>5, <1>6, <1>7 DEF Next, Message, Over

(* The loop edits the text it searches, and still every word of the text   *)
(* the earlier entries left is read its own way, from left to right, and   *)
(* no reading is taken for a word of the same entry: for every text,       *)
(* dictionary and order of the entries (preprocessor.cpp:26).              *)
THEOREM DictionaryAppliedAlways == Spec => []DictionaryApplied
<1>1. Init => LoopInv
  BY DEF Init, LoopInv
<1>2. LoopInv => DictionaryApplied
  BY DEF LoopInv, DictionaryApplied, Applied
<1> QED  BY <1>1, <1>2, LoopInvKept, TextTypeCorrect, PTL DEF Spec

-----------------------------------------------------------------------------
(* The bytes of a text.                                                    *)

Byte == Characters \X Nat
CharBytes(c) == [k \in 1 .. Width(c) |-> <<c, k>>]
ByteTable == [c \in Characters |-> CharBytes(c)]

LEMMA WidthTyped == ASSUME NEW c PROVE Width(c) \in 1 .. 4
BY DEF Width

LEMMA CharBytesTyped ==
    ASSUME NEW c \in Characters
    PROVE  CharBytes(c) \in Seq(Byte) /\ Len(CharBytes(c)) = Width(c) /\ CharBytes(c)[1] = <<c, 1>>
<1> DEFINE w == Width(c)
<1>1. w \in 1 .. 4 /\ 1 \in 1 .. w
  BY WidthTyped
<1> HIDE DEF w
<1>2. \A k \in 1 .. w : <<c, k>> \in Byte
  BY <1>1 DEF Byte
<1> DEFINE s == [k \in 1 .. w |-> <<c, k>>]
<1>3. s \in [1 .. w -> Byte]
  BY <1>2
<1>4. s \in Seq(Byte) /\ Len(s) = w /\ s[1] = <<c, 1>>
  BY <1>1, <1>3
<1> QED  BY <1>4 DEF CharBytes, w

LEMMA ByteTableTyped == ByteTable \in [Characters -> Seq(Byte)]
<1>1. \A c \in Characters : CharBytes(c) \in Seq(Byte)
  BY CharBytesTyped
<1> QED  BY <1>1 DEF ByteTable

LEMMA BytesAre ==
    ASSUME NEW t \in Text
    PROVE  Bytes(t) = Spread(t, ByteTable) /\ Bytes(t) \in Seq(Byte)
<1>1. t \in Seq(Characters) /\ \A i \in DOMAIN t : t[i] \in Characters
  BY DEF Text
<1>2. \A i \in DOMAIN t : ByteTable[t[i]] = CharBytes(t[i])
  BY <1>1 DEF ByteTable
<1>3. Each(t, ByteTable) = [i \in DOMAIN t |-> CharBytes(t[i])]
  BY <1>2 DEF Each
<1>4. Bytes(t) = Spread(t, ByteTable)
  BY <1>3 DEF Bytes, CharBytes, Spread
<1>5. Spread(t, ByteTable) \in Seq(Byte)
  BY <1>1, ByteTableTyped, SpreadTyped
<1> QED  BY <1>4, <1>5

LEMMA BytesOfNone == Bytes(<<>>) = <<>>
<1> DEFINE none == <<>>
<1>1. none \in Text /\ none \in Seq(Characters) /\ Len(none) = 0
  BY DEF Text
<1> HIDE DEF none
<1>2. Vanish(none, ByteTable, 1)
  BY <1>1 DEF Vanish
<1>3. Spread(none, ByteTable) = <<>>
  BY <1>1, <1>2, ByteTableTyped, SpreadNothing
<1>4. Bytes(none) = <<>>
  BY <1>1, <1>3, BytesAre
<1> QED  BY <1>4 DEF none

LEMMA BytesOfOne == ASSUME NEW c \in Characters PROVE Bytes(<<c>>) = CharBytes(c)
<1>1. Bytes(<<c>>) = Spread(<<c>>, ByteTable)
  BY TextBasics, BytesAre
<1>2. Spread(<<c>>, ByteTable) = ByteTable[c]
  BY ByteTableTyped, SpreadOne
<1> QED  BY <1>1, <1>2 DEF ByteTable

LEMMA BytesJoined ==
    ASSUME NEW s \in Text, NEW t \in Text
    PROVE  Bytes(s \o t) = Bytes(s) \o Bytes(t)
<1>1. s \in Seq(Characters) /\ t \in Seq(Characters)
  BY DEF Text
<1>2. Spread(s \o t, ByteTable) = Spread(s, ByteTable) \o Spread(t, ByteTable)
  BY <1>1, ByteTableTyped, SpreadJoined
<1>3. s \o t \in Text
  BY TextBasics
<1>4. Bytes(s \o t) = Spread(s \o t, ByteTable)
  BY <1>3, BytesAre
<1> QED  BY <1>2, <1>4, BytesAre

(* The bytes of the first n characters, and of the next.                   *)
FirstBytes(t, n) == Bytes(SubSeq(t, 1, n))

LEMMA BytesSplit ==
    ASSUME NEW t \in Text, NEW n \in 0 .. Len(t)
    PROVE  /\ FirstBytes(t, n) \in Seq(Byte)
           /\ Bytes(SubSeq(t, n + 1, Len(t))) \in Seq(Byte)
           /\ Bytes(t) = FirstBytes(t, n) \o Bytes(SubSeq(t, n + 1, Len(t)))
<1> DEFINE b == SubSeq(t, 1, n)
           d == SubSeq(t, n + 1, Len(t))
<1>1. Len(t) \in Nat /\ t \in Seq(Characters)
  BY DEF Text
<1>2. b \in Text /\ d \in Text
  BY <1>1 DEF Text
<1>3. b \o d = t
  <2>1. 1 \in 1 .. Len(t) + 1 /\ n \in 1 - 1 .. Len(t) /\ Len(t) \in n .. Len(t)
    BY <1>1
  <2>2. SubSeq(t, 1, n) \o SubSeq(t, n + 1, Len(t)) = SubSeq(t, 1, Len(t))
    BY <1>1, <2>1, ConcatAdjacentSubSeq
  <2>3. SubSeq(t, 1, Len(t)) = t
    BY <1>1, SubSeqFull
  <2> QED  BY <2>2, <2>3, Zenon
<1> HIDE DEF b, d
<1>4. Bytes(b \o d) = Bytes(b) \o Bytes(d)
  BY <1>2, BytesJoined
<1>5. Bytes(b) \in Seq(Byte) /\ Bytes(d) \in Seq(Byte)
  BY <1>2, BytesAre
<1> QED  BY <1>3, <1>4, <1>5, Zenon DEF FirstBytes, b, d

LEMMA NextBytes ==
    ASSUME NEW t \in Text, NEW n \in 0 .. Len(t) - 1
    PROVE  /\ FirstBytes(t, n + 1) = FirstBytes(t, n) \o CharBytes(t[n + 1])
           /\ Len(FirstBytes(t, n)) \in Nat
           /\ Len(FirstBytes(t, n + 1)) = Len(FirstBytes(t, n)) + Width(t[n + 1])
           /\ Len(FirstBytes(t, n + 1)) <= Len(Bytes(t))
           /\ Bytes(t)[Len(FirstBytes(t, n)) + 1] = <<t[n + 1], 1>>
<1> DEFINE c == t[n + 1]
           a == SubSeq(t, 1, n)
           b == SubSeq(t, 1, n + 1)
           p == FirstBytes(t, n)
           x == CharBytes(c)
           r == Bytes(SubSeq(t, (n + 1) + 1, Len(t)))
           u == p \o x
           v == u \o r
<1>1. Len(t) \in Nat /\ t \in Seq(Characters) /\ c \in Characters
  BY DEF Text
<1>2. a \in Text /\ <<c>> \in Text
  BY <1>1 DEF Text
<1>3. a \o <<c>> = b
  <2>1. b = Append(a, c)
    BY <1>1
  <2> HIDE DEF b
  <2>2. Append(a, c) = a \o <<c>>
    <3>1. a \in Seq(Characters)
      BY <1>2 DEF Text
    <3> HIDE DEF a, c
    <3> QED  BY <1>1, <3>1, AppendIsConcat
  <2> QED  BY <2>1, <2>2
<1>4. FirstBytes(t, n + 1) = u
  <2> HIDE DEF a, b, c
  <2>1. Bytes(a \o <<c>>) = Bytes(a) \o Bytes(<<c>>)
    BY <1>2, BytesJoined
  <2>2. Bytes(<<c>>) = x
    BY <1>1, BytesOfOne
  <2>3. Bytes(b) = Bytes(a) \o x
    BY <1>3, <2>1, <2>2
  <2> QED  BY <2>3 DEF FirstBytes, a, b
<1>5. Bytes(t) = v /\ r \in Seq(Byte)
  <2> DEFINE m == n + 1
  <2>1. m \in 0 .. Len(t)
    BY <1>1
  <2> HIDE DEF m
  <2>2. /\ Bytes(SubSeq(t, m + 1, Len(t))) \in Seq(Byte)
        /\ Bytes(t) = FirstBytes(t, m) \o Bytes(SubSeq(t, m + 1, Len(t)))
    BY <2>1, BytesSplit
  <2> QED  BY <1>4, <2>2 DEF m
<1>6. p \in Seq(Byte) /\ x \in Seq(Byte) /\ Len(x) = Width(c) /\ x[1] = <<c, 1>> /\ Width(c) \in 1 .. 4
  <2>1. n \in 0 .. Len(t)
    BY <1>1
  <2>2. p \in Seq(Byte)
    BY <2>1, BytesSplit
  <2> QED  BY <1>1, <2>2, CharBytesTyped, WidthTyped
<1> HIDE DEF p, x, r, c
<1>7. u \in Seq(Byte) /\ IsJoin(u, p, x)
  BY <1>6, PutTogether
<1> HIDE DEF u
<1>8. IsJoin(v, u, r)
  BY <1>5, <1>7, PutTogether
<1> HIDE DEF v
<1>9. Len(p) \in Nat /\ Len(r) \in Nat /\ Len(u) = Len(p) + Width(c) /\ Len(v) = Len(u) + Len(r)
  BY <1>5, <1>6, <1>7, <1>8 DEF IsJoin
<1>10. u[Len(p) + 1] = <<c, 1>>
  <2>1. 1 \in 1 .. Len(x)
    BY <1>6
  <2> QED  BY <1>6, <1>7, <2>1 DEF IsJoin
<1>11. v[Len(p) + 1] = u[Len(p) + 1]
  <2>1. Len(p) + 1 \in 1 .. Len(u)
    BY <1>6, <1>9
  <2> QED  BY <1>8, <2>1 DEF IsJoin
<1>12. Len(u) <= Len(v)
  BY <1>6, <1>9
<1> QED  BY <1>4, <1>5, <1>9, <1>10, <1>11, <1>12 DEF p, c, u, x

-----------------------------------------------------------------------------
(* The truncation: characters counted, bytes cut.                          *)

NextPassed(bytes, at) == IF at >= Len(bytes) THEN at ELSE at + CharLen(bytes[at + 1])

PassedOf(bytes, max_chars) ==
    LET Passed[n \in 0 .. max_chars] ==
          IF n = 0 THEN 0
          ELSE LET at == Passed[n - 1]
               IN  IF at >= Len(bytes) THEN at ELSE at + CharLen(bytes[at + 1])
    IN  Passed

LEMMA PassedUnfolds ==
    ASSUME NEW bytes \in Seq(Byte), NEW n \in Nat
    PROVE  /\ PassedOf(bytes, n)[0] = 0
           /\ \A m \in 1 .. n : PassedOf(bytes, n)[m] = NextPassed(bytes, PassedOf(bytes, n)[m - 1])
<1> DEFINE step == [x \in Nat \X (1 .. n) |-> NextPassed(bytes, x[1])]
           Equation(f) == f = [m \in 0 .. n |-> IF m = 0 THEN 0 ELSE NextPassed(bytes, f[m - 1])]
           passed == CHOOSE f : Equation(f)
<1>1. ASSUME NEW at \in Nat PROVE NextPassed(bytes, at) \in Nat
  <2>1. CASE at >= Len(bytes)
    BY <2>1 DEF NextPassed
  <2>2. CASE ~ (at >= Len(bytes))
    <3>1. bytes[at + 1] \in Byte
      BY <2>2
    <3>2. CharLen(bytes[at + 1]) \in 1 .. 4
      BY WidthTyped DEF CharLen
    <3> QED  BY <2>2, <3>2 DEF NextPassed
  <2> QED  BY <2>1, <2>2
<1>2. step \in [Nat \X (1 .. n) -> Nat]
  BY <1>1
<1>3. PICK g \in [0 .. n -> Nat] : IsCarried(g, 0, step, n)
  <2> HIDE DEF step
  <2> QED  BY <1>2, CarriedExists
<1>4. ASSUME NEW m \in 1 .. n PROVE g[m] = NextPassed(bytes, g[m - 1])
  <2>1. g[m - 1] \in Nat
    OBVIOUS
  <2>2. step[<<g[m - 1], m>>] = NextPassed(bytes, g[m - 1])
    BY <2>1
  <2> HIDE DEF step
  <2> QED  BY <1>3, <2>2 DEF IsCarried
<1>5. Equation(g)
  <2>1. \A m \in 0 .. n : m # 0 => m \in 1 .. n
    OBVIOUS
  <2>2. \A m \in 0 .. n : g[m] = IF m = 0 THEN 0 ELSE NextPassed(bytes, g[m - 1])
    BY <1>3, <1>4, <2>1 DEF IsCarried
  <2> QED  BY <2>2
<1>6. Equation(passed)
  <2> HIDE DEF Equation
  <2> QED  BY <1>5
<1>7. PassedOf(bytes, n) = passed
  BY DEF PassedOf, NextPassed
<1> HIDE DEF passed
<1>8. passed[0] = 0
  BY <1>6
<1>9. ASSUME NEW m \in 1 .. n PROVE passed[m] = NextPassed(bytes, passed[m - 1])
  <2>1. m \in 0 .. n /\ m # 0
    OBVIOUS
  <2> QED  BY <1>6, <2>1
<1> QED  BY <1>7, <1>8, <1>9

Lesser(m, n) == IF m <= n THEN m ELSE n

(* The position is always the end of a character.                          *)
LEMMA PassedCharacters ==
    ASSUME NEW t \in Text, NEW max \in Nat
    PROVE  PassedOf(Bytes(t), max)[max] = Len(FirstBytes(t, Lesser(max, Len(t))))
<1> DEFINE b == Bytes(t)
           P == PassedOf(b, max)
           Good == {d \in 0 .. max : P[d] = Len(FirstBytes(t, Lesser(d, Len(t))))}
<1>1. Len(t) \in Nat /\ b \in Seq(Byte)
  BY BytesAre DEF Text
<1>2. P[0] = 0 /\ \A m \in 1 .. max : P[m] = NextPassed(b, P[m - 1])
  <2> HIDE DEF b
  <2> QED  BY <1>1, PassedUnfolds
<1> HIDE DEF P
<1>3. 0 \in Good
  <2>1. Lesser(0, Len(t)) = 0
    BY <1>1 DEF Lesser
  <2>2. SubSeq(t, 1, 0) = <<>>
    BY DEF Text
  <2>3. FirstBytes(t, 0) = <<>>
    BY <2>2, BytesOfNone DEF FirstBytes
  <2>4. Len(FirstBytes(t, Lesser(0, Len(t)))) = 0
    BY <2>1, <2>3
  <2> QED  BY <1>2, <2>4
<1>4. ASSUME NEW d \in 0 .. max - 1, d \in Good PROVE d + 1 \in Good
  <2>1. d + 1 \in 1 .. max /\ (d + 1) - 1 = d /\ d + 1 \in 0 .. max
    OBVIOUS
  <2>2. P[d + 1] = NextPassed(b, P[d]) /\ P[d] = Len(FirstBytes(t, Lesser(d, Len(t))))
    BY <1>2, <1>4, <2>1
  <2>3. CASE d < Len(t)
    <3> DEFINE at == Len(FirstBytes(t, d))
               c == t[d + 1]
    <3>1. d \in 0 .. Len(t) - 1
      BY <1>1, <2>3
    <3>2. Lesser(d, Len(t)) = d /\ Lesser(d + 1, Len(t)) = d + 1
      BY <1>1, <3>1 DEF Lesser
    <3>3. /\ at \in Nat /\ Len(FirstBytes(t, d + 1)) = at + Width(c)
          /\ Len(FirstBytes(t, d + 1)) <= Len(b) /\ b[at + 1] = <<c, 1>>
      BY <3>1, NextBytes
    <3>4. Width(c) \in 1 .. 4 /\ Len(b) \in Nat
      BY <1>1, WidthTyped
    <3>5. P[d] = at
      BY <2>2, <3>2
    <3>6. CharLen(<<c, 1>>) = Width(c)
      BY DEF CharLen
    <3> HIDE DEF at, c, b
    <3>7. ~ (at >= Len(b))
      BY <3>3, <3>4
    <3>8. NextPassed(b, at) = at + Width(c)
      BY <3>3, <3>6, <3>7 DEF NextPassed
    <3>9. P[d + 1] = Len(FirstBytes(t, Lesser(d + 1, Len(t))))
      BY <2>2, <3>2, <3>3, <3>5, <3>8
    <3> QED  BY <2>1, <3>9
  <2>4. CASE ~ (d < Len(t))
    <3>1. Lesser(d, Len(t)) = Len(t) /\ Lesser(d + 1, Len(t)) = Len(t)
      BY <1>1, <2>4 DEF Lesser
    <3>2. FirstBytes(t, Len(t)) = b
      <4>1. SubSeq(t, 1, Len(t)) = t
        BY SubSeqFull DEF Text
      <4> QED  BY <4>1 DEF FirstBytes
    <3>3. P[d] = Len(b) /\ Len(b) \in Nat
      BY <1>1, <2>2, <3>1, <3>2
    <3> HIDE DEF b
    <3>4. NextPassed(b, P[d]) = Len(b)
      BY <3>3 DEF NextPassed
    <3>5. P[d + 1] = Len(FirstBytes(t, Lesser(d + 1, Len(t))))
      BY <2>2, <3>1, <3>2, <3>4
    <3> QED  BY <2>1, <3>5
  <2> QED  BY <2>3, <2>4
<1>5. \A d \in 0 .. max : d \in Good
  <2> HIDE DEF Good
  <2> QED  BY <1>3, <1>4, UpwardInduction
<1>6. max \in Good
  <2>1. max \in 0 .. max
    OBVIOUS
  <2> HIDE DEF Good
  <2> QED  BY <1>5, <2>1
<1> QED  BY <1>6 DEF P

(* So truncate_utf8 cuts whole characters, and max_chars of them.          *)
LEMMA TruncateIs ==
    ASSUME NEW t \in Text, NEW max \in Nat
    PROVE  Truncate(Bytes(t), max) =
               Bytes(IF Len(t) <= max THEN t ELSE SubSeq(t, 1, max) \o RestOmitted)
<1> DEFINE b == Bytes(t)
           at == PassedOf(b, max)[max]
<1>1. Len(t) \in Nat /\ b \in Seq(Byte) /\ Len(b) \in Nat
  BY BytesAre DEF Text
<1>2. Truncate(b, max) = IF at >= Len(b) THEN b ELSE SubSeq(b, 1, at) \o Bytes(RestOmitted)
  BY DEF Truncate, PassedOf
<1>3. at = Len(FirstBytes(t, Lesser(max, Len(t))))
  BY PassedCharacters
<1>4. CASE Len(t) <= max
  <2>1. Lesser(max, Len(t)) = Len(t)
    BY <1>1, <1>4 DEF Lesser
  <2>2. SubSeq(t, 1, Len(t)) = t
    BY SubSeqFull DEF Text
  <2>3. at = Len(b)
    BY <1>3, <2>1, <2>2 DEF FirstBytes
  <2> HIDE DEF at, b
  <2>4. Truncate(b, max) = b
    BY <1>1, <1>2, <2>3
  <2> QED  BY <1>4, <2>4 DEF b
<1>5. CASE ~ (Len(t) <= max)
  <2> DEFINE p == FirstBytes(t, max)
             r == Bytes(SubSeq(t, max + 1, Len(t)))
             first == SubSeq(t, 1, max)
  <2>1. max \in 0 .. Len(t) - 1 /\ max \in 0 .. Len(t) /\ Lesser(max, Len(t)) = max
    BY <1>1, <1>5 DEF Lesser
  <2>2. at = Len(p)
    BY <1>3, <2>1
  <2>3. p \in Seq(Byte) /\ r \in Seq(Byte) /\ b = p \o r
    BY <2>1, BytesSplit
  <2>4. /\ Len(p) \in Nat /\ Len(FirstBytes(t, max + 1)) = Len(p) + Width(t[max + 1])
        /\ Len(FirstBytes(t, max + 1)) <= Len(b)
    BY <2>1, NextBytes
  <2>5. Width(t[max + 1]) \in 1 .. 4
    BY WidthTyped
  <2>6. first \in Text /\ RestOmitted \in Text
    BY <2>1, OwnTexts DEF Text
  <2>7. Bytes(first \o RestOmitted) = Bytes(first) \o Bytes(RestOmitted)
    <3> HIDE DEF first
    <3> QED  BY <2>6, BytesJoined
  <2>8. p = Bytes(first)
    BY DEF FirstBytes
  <2> HIDE DEF at, b, p, r, first
  <2>9. ~ (at >= Len(b))
    BY <1>1, <2>2, <2>4, <2>5
  <2>10. SubSeq(b, 1, at) = p
    <3>1. SubSeq(p \o r, 1, Len(p)) = p
      BY <2>3, TakeApart
    <3> QED  BY <2>2, <2>3, <3>1
  <2>11. Truncate(b, max) = Bytes(first \o RestOmitted)
    BY <1>2, <2>7, <2>8, <2>9, <2>10
  <2> QED  BY <1>5, <2>11 DEF b, first
<1> QED  BY <1>4, <1>5

-----------------------------------------------------------------------------
(* normalize_whitespace.                                                   *)

LEMMA NotEmpty ==
    ASSUME NEW t \in Text, t # <<>>
    PROVE  Len(t) \in Nat \ {0} /\ DOMAIN t = 1 .. Len(t) /\ Head(t) = t[1] /\ Last(t) = t[Len(t)]
<1>1. t \in Seq(Characters)
  BY DEF Text
<1>2. Len(t) \in Nat \ {0}
  BY <1>1, EmptySeq
<1>3. DOMAIN t = 1 .. Len(t) /\ Head(t) = t[1]
  BY <1>1
<1> QED  BY <1>2, <1>3 DEF Last

(* One blank at a time, and it is a space.                                 *)
Isolated(t) ==
    /\ \A i \in 1 .. Len(t) : t[i] \in Blanks => t[i] = " "
    /\ \A i \in 1 .. Len(t) - 1 : t[i] = " " => t[i + 1] # " "

LEMMA CollapseKeeps ==
    ASSUME NEW t \in Text, Isolated(t), NEW c \in Characters
    PROVE  Collapse(t, c) \in Text /\ Isolated(Collapse(t, c))
<1>0. Len(t) \in Nat
  BY DEF Text
<1>1. " " \in Characters
  BY CharactersAssumption
<1>2. ASSUME NEW x \in Characters, x \in Blanks => x = " ",
             x = " " => t = <<>> \/ Last(t) # " "
      PROVE  Append(t, x) \in Text /\ Isolated(Append(t, x))
  <2> DEFINE u == Append(t, x)
             n == Len(t)
  <2>1. /\ u \in Text /\ Len(u) = n + 1 /\ u[n + 1] = x
        /\ \A i \in 1 .. n : u[i] = t[i]
    BY DEF Text
  <2> HIDE DEF u
  <2>0. n \in Nat
    BY <1>0
  <2> HIDE DEF n
  <2>2. ASSUME NEW i \in 1 .. Len(u), u[i] \in Blanks PROVE u[i] = " "
    <3>1. i \in 1 .. n \/ i = n + 1
      BY <2>0, <2>1
    <3> QED  BY <1>2, <2>1, <2>2, <3>1 DEF Isolated, n
  <2>3. ASSUME NEW i \in 1 .. Len(u) - 1, u[i] = " " PROVE u[i + 1] # " "
    <3>1. i \in 1 .. n
      BY <2>0, <2>1
    <3>2. t[i] = " "
      BY <2>1, <2>3, <3>1
    <3>3. CASE i = n
      <4>1. t # <<>>
        <5>1. Len(t) # 0
          BY <2>0, <3>1 DEF n
        <5> QED  BY <5>1
      <4>2. Last(t) = " "
        BY <3>2, <3>3, <4>1, NotEmpty DEF n
      <4> QED  BY <1>2, <2>1, <3>3, <4>1, <4>2
    <3>4. CASE i # n
      <4>1. i \in 1 .. n - 1 /\ i + 1 \in 1 .. n
        BY <2>0, <3>1, <3>4
      <4> QED  BY <2>1, <3>2, <4>1 DEF Isolated, n
    <3> QED  BY <3>3, <3>4
  <2> QED  BY <2>1, <2>2, <2>3 DEF Isolated, u
<1>3. CASE c \notin Blanks
  <2>1. c # " "
    BY <1>3 DEF Blanks
  <2>2. Append(t, c) \in Text /\ Isolated(Append(t, c))
    BY <1>2, <1>3, <2>1
  <2> QED  BY <1>3, <2>2 DEF Collapse
<1>4. CASE c \in Blanks /\ t # <<>> /\ Last(t) = " "
  BY <1>4 DEF Collapse
<1>5. CASE c \in Blanks /\ ~ (t # <<>> /\ Last(t) = " ")
  <2>1. Append(t, " ") \in Text /\ Isolated(Append(t, " "))
    BY <1>1, <1>2, <1>5
  <2> QED  BY <1>5, <2>1 DEF Collapse
<1> QED  BY <1>3, <1>4, <1>5

LEMMA CollapsedTyped ==
    ASSUME NEW t \in Text
    PROVE  Collapsed(t) \in Text /\ Isolated(Collapsed(t))
<1> DEFINE n == Len(t)
           X == {u \in Text : Isolated(u)}
           step == [x \in X \X (1 .. n) |-> Collapse(x[1], t[x[2]])]
           Equation(f) == f = [m \in 0 .. n |-> IF m = 0 THEN <<>> ELSE Collapse(f[m - 1], t[m])]
           upto == CHOOSE f : Equation(f)
<1>1. n \in Nat /\ \A m \in 1 .. n : t[m] \in Characters
  BY DEF Text
<1>2. step \in [X \X (1 .. n) -> X]
  <2>1. \A x \in X, m \in 1 .. n : Collapse(x, t[m]) \in X
    BY <1>1, CollapseKeeps
  <2> HIDE DEF X
  <2> QED  BY <2>1
<1>3. <<>> \in X
  <2> DEFINE none == <<>>
  <2>1. none \in Text /\ Len(none) = 0
    BY TextBasics
  <2> HIDE DEF none
  <2>2. Isolated(none)
    BY <2>1 DEF Isolated
  <2> QED  BY <2>1, <2>2 DEF none
<1>4. PICK g \in [0 .. n -> X] : IsCarried(g, <<>>, step, n)
  <2> HIDE DEF step, n, X
  <2> QED  BY <1>1, <1>2, <1>3, CarriedExists
<1>5. ASSUME NEW m \in 1 .. n PROVE g[m] = Collapse(g[m - 1], t[m])
  <2>1. m - 1 \in 0 .. n
    BY <1>1
  <2>2. g[m - 1] \in X
    <3> HIDE DEF X
    <3> QED  BY <2>1
  <2>3. step[<<g[m - 1], m>>] = Collapse(g[m - 1], t[m])
    <3> HIDE DEF X
    <3> QED  BY <2>2
  <2> HIDE DEF step
  <2> QED  BY <1>4, <2>3 DEF IsCarried
<1>6. g[0] = <<>>
  BY <1>4 DEF IsCarried
<1>7. Equation(g)
  <2>1. \A m \in 0 .. n : m # 0 => m \in 1 .. n
    BY <1>1
  <2>2. \A m \in 0 .. n : g[m] = IF m = 0 THEN <<>> ELSE Collapse(g[m - 1], t[m])
    BY <1>5, <1>6, <2>1
  <2> HIDE DEF X
  <2> QED  BY <2>2
<1>8. Equation(upto)
  <2> HIDE DEF Equation
  <2> QED  BY <1>7
<1>9. Collapsed(t) = upto[n]
  BY DEF Collapsed
<1> HIDE DEF upto
<1>10. upto[0] = <<>>
  BY <1>1, <1>8
<1>11. ASSUME NEW m \in 1 .. n PROVE upto[m] = Collapse(upto[m - 1], t[m])
  <2>1. m \in 0 .. n /\ m # 0
    BY <1>1
  <2> QED  BY <1>8, <2>1
<1>12. \A m \in 0 .. n : upto[m] = g[m]
  <2>1. SameSteps(upto, g, n)
    BY <1>5, <1>6, <1>10, <1>11 DEF SameSteps
  <2> HIDE DEF n
  <2> QED  BY <1>1, <2>1, CarriedUnique
<1>13. g[n] \in X
  <2>1. n \in 0 .. n
    BY <1>1
  <2> HIDE DEF X
  <2> QED  BY <2>1
<1>14. Collapsed(t) = g[n]
  <2>1. n \in 0 .. n
    BY <1>1
  <2> QED  BY <1>9, <1>12, <2>1
<1> QED  BY <1>13, <1>14

(* What is left begins with something to say.                              *)
LEMMA NormalizedSays ==
    ASSUME NEW t \in Text
    PROVE  /\ NormalizeWhitespace(t) \in Text
           /\ NormalizeWhitespace(t) # <<>> =>
                \E i \in DOMAIN NormalizeWhitespace(t) : NormalizeWhitespace(t)[i] \notin Blanks
<1> DEFINE one == Collapsed(t)
           kept == IF one # <<>> /\ Last(one) = " " THEN Front(one) ELSE one
           said == IF kept # <<>> /\ Head(kept) = " " THEN Tail(kept) ELSE kept
<1>1. one \in Text /\ Isolated(one) /\ Len(one) \in Nat
  BY CollapsedTyped DEF Text
<1>2. NormalizeWhitespace(t) = said
  BY DEF NormalizeWhitespace
<1> HIDE DEF one
<1>3. /\ kept \in Text /\ Len(kept) \in Nat /\ Len(kept) <= Len(one)
      /\ \A i \in 1 .. Len(kept) : kept[i] = one[i]
  <2>1. CASE one # <<>> /\ Last(one) = " "
    <3>1. Len(one) \in Nat \ {0}
      BY <1>1, <2>1, NotEmpty
    <3>2. Front(one) = SubSeq(one, 1, Len(one) - 1)
      BY DEF Front
    <3>3. kept = SubSeq(one, 1, Len(one) - 1)
      BY <2>1, <3>2
    <3> HIDE DEF kept
    <3>4. kept \in Text /\ Len(kept) = Len(one) - 1 /\ \A i \in 1 .. Len(one) - 1 : kept[i] = one[i]
      <4> DEFINE m == Len(one) - 1
      <4>1. one \in Seq(Characters) /\ m \in 0 .. Len(one) /\ kept = SubSeq(one, 1, m)
        BY <1>1, <3>1, <3>3 DEF Text
      <4> HIDE DEF m
      <4>2. kept \in Text /\ Len(kept) = m /\ \A i \in 1 .. m : kept[i] = one[i]
        BY <4>1 DEF Text
      <4> QED  BY <4>2 DEF m
    <3> QED  BY <3>1, <3>4
  <2>2. CASE ~ (one # <<>> /\ Last(one) = " ")
    <3>1. kept = one
      BY <2>2
    <3> HIDE DEF kept
    <3> QED  BY <1>1, <3>1
  <2> QED  BY <2>1, <2>2
<1> HIDE DEF kept
<1>4. CASE kept = <<>>
  <2>1. said = <<>>
    BY <1>4
  <2> HIDE DEF said
  <2> QED  BY <1>2, <2>1, TextBasics
<1>5. CASE kept # <<>> /\ Head(kept) # " "
  <2>1. Len(kept) \in Nat \ {0} /\ DOMAIN kept = 1 .. Len(kept) /\ Head(kept) = kept[1]
    BY <1>3, <1>5, NotEmpty
  <2>2. 1 \in 1 .. Len(kept) /\ 1 \in 1 .. Len(one)
    BY <1>1, <1>3, <2>1
  <2>6. kept[1] = one[1] /\ one[1] # " "
    BY <1>3, <1>5, <2>1, <2>2
  <2>3. one[1] \notin Blanks
    BY <1>1, <2>2, <2>6 DEF Isolated
  <2>4. said = kept
    BY <1>5
  <2>5. 1 \in DOMAIN kept
    BY <2>1, <2>2
  <2> HIDE DEF said
  <2> QED  BY <1>2, <1>3, <2>3, <2>4, <2>5, <2>6
<1>6. CASE kept # <<>> /\ Head(kept) = " "
  <2>1. Len(kept) \in Nat \ {0} /\ Head(kept) = kept[1] /\ kept \in Seq(Characters)
    BY <1>3, <1>6, NotEmpty DEF Text
  <2>2. said = Tail(kept)
    BY <1>6
  <2> HIDE DEF said
  <2>3. said \in Text /\ Len(said) = Len(kept) - 1 /\ \A i \in 1 .. Len(said) : said[i] = kept[i + 1]
    <3>1. kept # <<>>
      BY <1>6
    <3> QED  BY <2>1, <2>2, <3>1, HeadTailProperties DEF Text
  <2>4. ASSUME said # <<>> PROVE 1 \in DOMAIN said /\ said[1] \notin Blanks
    <3>1. Len(said) \in Nat \ {0} /\ DOMAIN said = 1 .. Len(said)
      BY <2>3, <2>4, NotEmpty
    <3>2. /\ 1 \in 1 .. Len(said) /\ 1 \in 1 .. Len(kept) /\ 2 \in 1 .. Len(kept)
          /\ 1 \in 1 .. Len(one) - 1 /\ 2 \in 1 .. Len(one) /\ 1 + 1 = 2
      BY <1>1, <1>3, <2>3, <3>1
    <3>3. said[1] = one[2] /\ one[1] = " "
      BY <1>3, <1>6, <2>1, <2>3, <3>2
    <3>4. one[2] # " "
      BY <1>1, <3>2, <3>3 DEF Isolated
    <3>5. one[2] \notin Blanks
      BY <1>1, <3>2, <3>4 DEF Isolated
    <3> QED  BY <3>1, <3>2, <3>3, <3>5
  <2> QED  BY <1>2, <2>3, <2>4
<1> QED  BY <1>4, <1>5, <1>6

-----------------------------------------------------------------------------
(* What is submitted.                                                      *)

LEMMA SubmitWhole == ASSUME TypeOK, Submit PROVE SubmittedIsWhole'
<1> DEFINE said == NormalizeWhitespace(ConvertNumbers(text))
           bytes == Truncate(Bytes(said), MaxChars)
           kept == IF Len(said) <= MaxChars THEN said ELSE SubSeq(said, 1, MaxChars) \o RestOmitted
           name == IF Username = <<>> THEN <<>> ELSE Append(Username, "touten")
<1> SUFFICES ASSUME stage' \in {"submitted", "spoken"}
             PROVE  /\ \E i \in DOMAIN said : said[i] \notin Blanks
                    /\ request' = Bytes(name \o kept)
  BY DEF SubmittedIsWhole, Submit
<1>1. Username \in Text /\ MaxChars \in Nat /\ <<"touten">> \in Text
  <2>1. RestOmitted[1] \in Characters
    <3>1. RestOmitted \in Seq(Characters) /\ Len(RestOmitted) = 5
      BY OwnTexts DEF Text, RestOmitted
    <3> QED  BY <3>1
  <2>2. "touten" \in Characters
    BY <2>1 DEF RestOmitted
  <2> QED  BY <2>2, TextBasics, TextAssumption
<1>2. said \in Text /\ (said # <<>> => \E i \in DOMAIN said : said[i] \notin Blanks)
  <2> DEFINE t == ConvertNumbers(text)
  <2>1. t \in Text
    BY ConvertNumbersTyped DEF TypeOK
  <2> HIDE DEF t
  <2> QED  BY <2>1, NormalizedSays DEF t
<1>3. /\ bytes # <<>>
      /\ request' = IF Username = <<>> THEN bytes ELSE Bytes(Username) \o Bytes(<<"touten">>) \o bytes
  BY DEF Submit, Finish
<1> HIDE DEF said
<1>4. bytes = Bytes(kept)
  BY <1>1, <1>2, TruncateIs
<1>5. kept \in Text
  <2>1. RestOmitted \in Text /\ Len(said) \in Nat
    BY <1>2, OwnTexts DEF Text
  <2>2. CASE Len(said) <= MaxChars
    BY <1>2, <2>2
  <2>3. CASE ~ (Len(said) <= MaxChars)
    <3>1. SubSeq(said, 1, MaxChars) \in Text
      BY <1>1, <1>2, <2>1, <2>3 DEF Text
    <3> QED  BY <2>1, <2>3, <3>1, TextBasics
  <2> QED  BY <2>2, <2>3
<1>6. said # <<>>
  <2> SUFFICES ASSUME said = <<>> PROVE FALSE
    OBVIOUS
  <2>1. Len(said) = 0
    OBVIOUS
  <2>2. kept = <<>>
    BY <1>1, <2>1
  <2> HIDE DEF kept, bytes
  <2>3. bytes = <<>>
    BY <1>4, <2>2, BytesOfNone
  <2> QED  BY <1>3, <2>3
<1> HIDE DEF kept, bytes
<1>7. CASE Username = <<>>
  <2>1. name = <<>>
    BY <1>7
  <2>2. <<>> \o kept = kept
    BY <1>5 DEF Text
  <2> HIDE DEF name
  <2> QED  BY <1>2, <1>3, <1>4, <1>6, <1>7, <2>1, <2>2
<1>8. CASE Username # <<>>
  <2> DEFINE mark == <<"touten">>
  <2>1. name = Username \o mark
    <3>1. Username \in Seq(Characters) /\ mark \in Seq(Characters)
      BY <1>1 DEF Text
    <3>2. "touten" \in Characters
      BY <3>1
    <3>3. Append(Username, "touten") = Username \o mark
      BY <3>1, <3>2, AppendIsConcat
    <3> QED  BY <1>8, <3>3
  <2>2. mark \in Text
    BY <1>1
  <2>3. request' = Bytes(Username) \o Bytes(mark) \o bytes
    BY <1>3, <1>8
  <2> HIDE DEF mark, name
  <2>4. Bytes(Username \o mark) = Bytes(Username) \o Bytes(mark) /\ name \in Text
    BY <1>1, <2>1, <2>2, BytesJoined, TextBasics
  <2>5. Bytes(name \o kept) = Bytes(name) \o Bytes(kept)
    BY <1>5, <2>4, BytesJoined
  <2> QED  BY <1>2, <1>4, <1>6, <2>1, <2>3, <2>4, <2>5
<1> QED  BY <1>7, <1>8

LEMMA SubmittedKept == TypeOK /\ SubmittedIsWhole /\ [Next]_vars => SubmittedIsWhole'
<1> SUFFICES ASSUME TypeOK, SubmittedIsWhole, [Next]_vars PROVE SubmittedIsWhole'
  OBVIOUS
<1>1. ASSUME NEW h \in Handlers, Dict(h) PROVE SubmittedIsWhole'
  <2>1. UNCHANGED <<stage, text, request>>
    BY <1>1 DEF Dict, ReadEntries, DictAdd, DictRemove, message
  <2> QED  BY <2>1 DEF SubmittedIsWhole
<1>2. CASE Read \/ Replace \/ NextEntry
  <2>1. stage' \notin {"submitted", "spoken"}
    BY <1>2 DEF Read, Replace, NextEntry
  <2> QED  BY <2>1, SMTT(20) DEF SubmittedIsWhole
<1>3. CASE Submit
  BY <1>3, SubmitWhole
<1>4. CASE Split
  <2>1. UNCHANGED <<text, request>> /\ stage = "submitted"
    BY <1>4 DEF Split
  <2> QED  BY <2>1 DEF SubmittedIsWhole
<1>5. CASE UNCHANGED vars
  <2>1. UNCHANGED <<stage, text, request>>
    BY <1>5 DEF vars, message
  <2> QED  BY <2>1 DEF SubmittedIsWhole
<1> QED  BY <1>1, <1>2, <1>3, <1>4, <1>5 DEF Next, Message, Over

(* What is submitted says something, and is made of whole characters       *)
(* whatever their width: the name and the first max_chars characters, and  *)
(* the omission exactly when some are left out.  truncate_utf8 counts      *)
(* characters and cuts bytes: its position is always the end of a          *)
(* character (preprocessor.cpp:194).                                       *)
THEOREM SubmittedIsWholeAlways == Spec => []SubmittedIsWhole
<1>1. Init => SubmittedIsWhole
  BY DEF Init, SubmittedIsWhole
<1> QED  BY <1>1, SubmittedKept, TextTypeCorrect, PTL DEF Spec

-----------------------------------------------------------------------------
(* What bytes say: their characters, and those that are no blanks.         *)

LeadTable == [x \in Byte |-> IF x[2] = 1 THEN <<x[1]>> ELSE <<>>]
SpeechTable == [x \in Byte |-> IF x[1] \in Blanks THEN <<>> ELSE <<x>>]

LEMMA TablesTyped ==
    LeadTable \in [Byte -> Seq(Characters)] /\ SpeechTable \in [Byte -> Seq(Byte)]
<1>1. \A x \in Byte : x[1] \in Characters
  BY DEF Byte
<1>2. LeadTable \in [Byte -> Seq(Characters)]
  <2>1. \A x \in Byte : (IF x[2] = 1 THEN <<x[1]>> ELSE <<>>) \in Seq(Characters)
    BY <1>1
  <2> QED  BY <2>1 DEF LeadTable
<1>3. SpeechTable \in [Byte -> Seq(Byte)]
  <2>1. \A x \in Byte : (IF x[1] \in Blanks THEN <<>> ELSE <<x>>) \in Seq(Byte)
    OBVIOUS
  <2> QED  BY <2>1 DEF SpeechTable
<1> QED  BY <1>2, <1>3

LEMMA CharactersAre ==
    ASSUME NEW b \in Seq(Byte)
    PROVE  CharactersOf(b) = Spread(b, LeadTable)
<1>1. \A i \in DOMAIN b : LeadTable[b[i]] = IF b[i][2] = 1 THEN <<b[i][1]>> ELSE <<>>
  <2>1. \A i \in DOMAIN b : b[i] \in Byte
    OBVIOUS
  <2> QED  BY <2>1 DEF LeadTable
<1>2. Each(b, LeadTable) = [i \in DOMAIN b |-> IF b[i][2] = 1 THEN <<b[i][1]>> ELSE <<>>]
  BY <1>1 DEF Each
<1> QED  BY <1>2 DEF CharactersOf, Spread

LEMMA SpeechIs ==
    ASSUME NEW b \in Seq(Byte)
    PROVE  Speech(b) = Spread(b, SpeechTable) /\ Speech(b) \in Seq(Byte)
<1>1. \A i \in DOMAIN b : SpeechTable[b[i]] = IF b[i][1] \in Blanks THEN <<>> ELSE <<b[i]>>
  <2>1. \A i \in DOMAIN b : b[i] \in Byte
    OBVIOUS
  <2> QED  BY <2>1 DEF SpeechTable
<1>2. Each(b, SpeechTable) = [i \in DOMAIN b |-> IF b[i][1] \in Blanks THEN <<>> ELSE <<b[i]>>]
  BY <1>1 DEF Each
<1>3. Spread(b, SpeechTable) \in Seq(Byte)
  BY TablesTyped, SpreadTyped
<1> QED  BY <1>2, <1>3 DEF Speech, Spread

LEMMA SpeechJoined ==
    ASSUME NEW a \in Seq(Byte), NEW b \in Seq(Byte)
    PROVE  Speech(a \o b) = Speech(a) \o Speech(b)
<1>1. a \o b \in Seq(Byte)
  BY PutTogether
<1>2. Spread(a \o b, SpeechTable) = Spread(a, SpeechTable) \o Spread(b, SpeechTable)
  BY TablesTyped, SpreadJoined, ZenonT(40)
<1>3. Speech(a \o b) = Spread(a \o b, SpeechTable)
  BY <1>1, SpeechIs
<1> QED  BY <1>2, <1>3, SpeechIs

(* What has no content says nothing.                                       *)
LEMMA SpeechOfNone ==
    ASSUME NEW b \in Seq(Byte), ~HasContent(b)
    PROVE  Speech(b) = <<>>
<1>1. \A i \in 1 .. Len(b) : b[i] \in Byte /\ b[i][1] \in Blanks
  BY DEF HasContent
<1>2. Vanish(b, SpeechTable, 1)
  BY <1>1 DEF Vanish, SpeechTable
<1>3. Spread(b, SpeechTable) = <<>>
  BY <1>2, TablesTyped, SpreadNothing
<1> QED  BY <1>3, SpeechIs

(* The characters of the bytes of a text are the text.                     *)
LEMMA CharactersOfChar ==
    ASSUME NEW c \in Characters
    PROVE  Spread(CharBytes(c), LeadTable) = <<c>>
<1> DEFINE b == CharBytes(c)
<1>1. b \in Seq(Byte) /\ Len(b) = Width(c) /\ b[1] = <<c, 1>> /\ Width(c) \in 1 .. 4
  BY CharBytesTyped, WidthTyped
<1>2. \A i \in 2 .. Len(b) : b[i] = <<c, i>>
  BY <1>1 DEF CharBytes
<1>3. \A i \in 1 .. Len(b) : b[i] \in Byte
  BY <1>1
<1> HIDE DEF b
<1>4. LeadTable[b[1]] = <<c>>
  <2>1. b[1] \in Byte
    BY <1>1, <1>3
  <2> QED  BY <1>1, <2>1 DEF LeadTable
<1>5. Vanish(b, LeadTable, 2)
  <2>1. ASSUME NEW i \in 2 .. Len(b) PROVE LeadTable[b[i]] = <<>>
    <3>1. b[i] \in Byte /\ b[i] = <<c, i>> /\ i # 1
      BY <1>1, <1>2, <1>3
    <3> QED  BY <3>1 DEF LeadTable
  <2> QED  BY <2>1 DEF Vanish
<1>6. Spread(b, LeadTable) = LeadTable[b[1]]
  <2>1. Len(b) # 0
    BY <1>1
  <2> QED  BY <1>1, <1>5, <2>1, TablesTyped, SpreadFirst
<1> QED  BY <1>4, <1>6 DEF b

LEMMA CharactersOfBytes == ASSUME NEW t \in Text PROVE CharactersOf(Bytes(t)) = t
<1> DEFINE n == Len(t)
           Good == {d \in 0 .. n : Spread(FirstBytes(t, d), LeadTable) = SubSeq(t, 1, d)}
<1>1. n \in Nat /\ t \in Seq(Characters)
  BY DEF Text
<1>2. 0 \in Good
  <2>1. SubSeq(t, 1, 0) = <<>> /\ 0 \in 0 .. n
    BY <1>1
  <2> DEFINE none == <<>>
  <2>2. FirstBytes(t, 0) = none
    BY <2>1, BytesOfNone DEF FirstBytes
  <2>3. none \in Seq(Byte) /\ Vanish(none, LeadTable, 1)
    BY DEF Vanish
  <2> HIDE DEF none
  <2>4. Spread(none, LeadTable) = <<>>
    BY <2>3, TablesTyped, SpreadNothing
  <2> QED  BY <2>1, <2>2, <2>4
<1>3. ASSUME NEW d \in 0 .. n - 1, d \in Good PROVE d + 1 \in Good
  <2> DEFINE c == t[d + 1]
             p == FirstBytes(t, d)
             x == CharBytes(c)
  <2>1. c \in Characters /\ d + 1 \in 0 .. n /\ d \in 0 .. n
    BY <1>1
  <2>2. FirstBytes(t, d + 1) = p \o x
    BY NextBytes
  <2>3. p \in Seq(Byte) /\ x \in Seq(Byte)
    BY <2>1, BytesSplit, CharBytesTyped
  <2>4. Spread(x, LeadTable) = <<c>>
    BY <2>1, CharactersOfChar
  <2>5. Spread(p, LeadTable) = SubSeq(t, 1, d)
    BY <1>3
  <2>6. SubSeq(t, 1, d) \o <<c>> = SubSeq(t, 1, d + 1)
    <3>1. SubSeq(t, 1, d + 1) = Append(SubSeq(t, 1, d), c)
      BY <1>1
    <3> DEFINE s == SubSeq(t, 1, d)
    <3>2. s \in Seq(Characters)
      BY <1>1
    <3> HIDE DEF s, c
    <3>3. Append(s, c) = s \o <<c>>
      BY <2>1, <3>2, AppendIsConcat
    <3> QED  BY <3>1, <3>3 DEF s
  <2> HIDE DEF p, x, c
  <2>7. Spread(p \o x, LeadTable) = Spread(p, LeadTable) \o Spread(x, LeadTable)
    BY <2>3, TablesTyped, SpreadJoined, ZenonT(40)
  <2>8. Spread(FirstBytes(t, d + 1), LeadTable) = SubSeq(t, 1, d + 1)
    BY <2>2, <2>4, <2>5, <2>6, <2>7
  <2> QED  BY <2>1, <2>8
<1>4. \A d \in 0 .. n : d \in Good
  <2> HIDE DEF Good, n
  <2> QED  BY <1>1, <1>2, <1>3, UpwardInduction
<1>5. Spread(FirstBytes(t, n), LeadTable) = SubSeq(t, 1, n)
  <2>1. n \in Good
    <3>1. n \in 0 .. n
      BY <1>1
    <3> HIDE DEF Good, n
    <3> QED  BY <1>4, <3>1
  <2> QED  BY <2>1
<1>6. SubSeq(t, 1, n) = t
  BY <1>1, SubSeqFull
<1> HIDE DEF n
<1>7. Spread(Bytes(t), LeadTable) = t
  BY <1>5, <1>6 DEF FirstBytes
<1>8. Bytes(t) \in Seq(Byte)
  BY BytesAre
<1> QED  BY <1>7, <1>8, CharactersAre

LEMMA EndsOfBytes ==
    ASSUME NEW t \in Text
    PROVE  Ends(Bytes(t)) = {i \in 1 .. Len(t) : t[i] \in SentenceEnds}
<1>1. CharactersOf(Bytes(t)) = t
  BY CharactersOfBytes
<1>2. DOMAIN t = 1 .. Len(t)
  BY DEF Text
<1> QED  BY <1>1, <1>2 DEF Ends

(* The bytes of the characters from m + 1 to k are there where they should *)
(* be.                                                                     *)
LEMMA BytesBetween ==
    ASSUME NEW t \in Text, NEW m \in 0 .. Len(t), NEW k \in m .. Len(t)
    PROVE  /\ SubSeq(Bytes(t), Len(FirstBytes(t, m)) + 1, Len(FirstBytes(t, k)))
                = Bytes(SubSeq(t, m + 1, k))
           /\ Len(FirstBytes(t, m)) \in Nat /\ Len(FirstBytes(t, k)) \in Nat
           /\ Len(FirstBytes(t, m)) <= Len(FirstBytes(t, k))
           /\ Len(FirstBytes(t, k)) <= Len(Bytes(t))
<1> DEFINE s == SubSeq(t, 1, m)
           u == SubSeq(t, m + 1, k)
           a == FirstBytes(t, m)
           x == Bytes(u)
           r == Bytes(SubSeq(t, k + 1, Len(t)))
<1>1. Len(t) \in Nat /\ t \in Seq(Characters) /\ k \in 0 .. Len(t)
  BY DEF Text
<1>2. s \in Text /\ u \in Text
  BY <1>1 DEF Text
<1>3. s \o u = SubSeq(t, 1, k)
  <2>1. 1 \in 1 .. Len(t) + 1 /\ m \in 1 - 1 .. Len(t) /\ k \in m .. Len(t)
    BY <1>1
  <2> QED  BY <1>1, <2>1, ConcatAdjacentSubSeq
<1> HIDE DEF s, u
<1>4. Bytes(s \o u) = Bytes(s) \o Bytes(u)
  BY <1>2, BytesJoined
<1>5. FirstBytes(t, k) = a \o x
  BY <1>3, <1>4 DEF FirstBytes, s
<1>6. Bytes(t) = FirstBytes(t, k) \o r /\ r \in Seq(Byte)
  BY <1>1, BytesSplit
<1>7. a \in Seq(Byte) /\ x \in Seq(Byte)
  BY <1>2, BytesSplit, BytesAre
<1> HIDE DEF a, x, r
<1>8. /\ SubSeq((a \o x) \o r, Len(a) + 1, Len(a) + Len(x)) = x
      /\ Len(a) + Len(x) <= Len((a \o x) \o r)
  BY <1>6, <1>7, TakeMiddle
<1>9. IsJoin(a \o x, a, x)
  BY <1>7, PutTogether
<1>10. Len(a \o x) = Len(a) + Len(x) /\ Len(a) \in Nat /\ Len(x) \in Nat
  BY <1>7, <1>9 DEF IsJoin
<1>11. Bytes(t) = (a \o x) \o r
  BY <1>5, <1>6
<1>12. SubSeq(Bytes(t), Len(a) + 1, Len(a \o x)) = x /\ Len(a \o x) <= Len(Bytes(t))
  BY <1>8, <1>10, <1>11
<1> QED  BY <1>5, <1>10, <1>12 DEF a, x, u

-----------------------------------------------------------------------------
(* The loop that cuts a text into sentences.                               *)

After(b, here) == here + CharLen(b[here])

(* What it cuts from a position on, given what it cuts from later ones.    *)
CutOnward(F, b, start, here) ==
    IF here > Len(b)
    THEN IF start > Len(b) THEN <<>> ELSE Piece(b, start, Len(b))
    ELSE IF IsSentenceEnd(b, here)
    THEN Piece(b, start, After(b, here) - 1) \o F[After(b, here)][After(b, here)]
    ELSE F[After(b, here)][start]

CutsFrom(k, F, b) ==
    \A here \in k .. Len(b) + 4 :
        F[here] = [start \in 1 .. Len(b) + 4 |-> CutOnward(F, b, start, here)]

LEMMA CutUnfolds ==
    ASSUME NEW b \in Seq(Byte)
    PROVE  \E F : CutsFrom(1, F, b) /\ Cut(b) = F[1][1]
<1> DEFINE n == Len(b) + 4
           Equation(F) ==
               F = [here \in 1 .. n |-> [start \in 1 .. n |-> CutOnward(F, b, start, here)]]
           From == CHOOSE F : Equation(F)
           Good == {d \in 0 .. n - 1 : \E F : CutsFrom(n - d, F, b)}
<1>1. Len(b) \in Nat /\ n \in Nat
  OBVIOUS
<1>2. \A here \in 1 .. Len(b) : After(b, here) \in here + 1 .. n
  <2>1. ASSUME NEW here \in 1 .. Len(b) PROVE After(b, here) \in here + 1 .. n
    <3>1. CharLen(b[here]) \in 1 .. 4
      BY WidthTyped DEF CharLen
    <3> QED  BY <1>1, <3>1 DEF After
  <2> QED  BY <2>1
<1>3. ASSUME NEW i \in 1 .. n, NEW F, NEW G, \A k \in i + 1 .. n : F[k] = G[k]
      PROVE  \A start : CutOnward(F, b, start, i) = CutOnward(G, b, start, i)
  <2>1. CASE i > Len(b)
    BY <2>1 DEF CutOnward
  <2>2. CASE ~ (i > Len(b))
    <3>1. F[After(b, i)] = G[After(b, i)]
      BY <1>1, <1>2, <1>3, <2>2
    <3> QED  BY <2>2, <3>1 DEF CutOnward
  <2> QED  BY <2>1, <2>2
<1>4. ASSUME NEW d \in 0 .. n, NEW i \in 1 .. n, i = n - d,
             d = 0 \/ \E F : CutsFrom(i + 1, F, b)
      PROVE  \E G : CutsFrom(i, G, b)
  <2>1. PICK F : \A here \in i + 1 .. n : F[here] = [start \in 1 .. n |-> CutOnward(F, b, start, here)]
    <3>1. CASE d = 0
      <4>1. i + 1 .. n = {}
        BY <1>1, <1>4, <3>1
      <4> QED  BY <4>1
    <3>2. CASE \E F : CutsFrom(i + 1, F, b)
      BY <3>2 DEF CutsFrom
    <3> QED  BY <1>4, <3>1, <3>2
  <2> DEFINE x == [start \in 1 .. n |-> CutOnward(F, b, start, i)]
             G == [here \in 1 .. n |-> IF here = i THEN x ELSE F[here]]
  <2>2. G[i] = x /\ \A here \in i + 1 .. n : G[here] = F[here]
    <3> HIDE DEF x
    <3>1. \A here \in i + 1 .. n : here \in 1 .. n /\ here # i
      BY <1>1
    <3> QED  BY <3>1
  <2> HIDE DEF G
  <2>3. ASSUME NEW here \in i .. n
        PROVE  G[here] = [start \in 1 .. n |-> CutOnward(G, b, start, here)]
    <3>1. here \in 1 .. n /\ \A k \in here + 1 .. n : k \in i + 1 .. n
      BY <1>1
    <3>2. \A k \in here + 1 .. n : F[k] = G[k]
      BY <2>2, <3>1
    <3>3. \A start : CutOnward(F, b, start, here) = CutOnward(G, b, start, here)
      BY <1>3, <3>1, <3>2
    <3>4. G[here] = [start \in 1 .. n |-> CutOnward(F, b, start, here)]
      <4>1. CASE here = i
        BY <2>2, <4>1
      <4>2. CASE here # i
        <5>1. here \in i + 1 .. n
          BY <1>1, <4>2
        <5> QED  BY <2>1, <2>2, <5>1
      <4> QED  BY <4>1, <4>2
    <3> QED  BY <3>3, <3>4
  <2> QED  BY <2>3 DEF CutsFrom
<1>5. 0 \in Good
  <2>1. 0 \in 0 .. n /\ n \in 1 .. n /\ n = n - 0 /\ 0 \in 0 .. n - 1
    BY <1>1
  <2> HIDE DEF n
  <2>2. \E G : CutsFrom(n, G, b)
    BY <1>4, <2>1
  <2> QED  BY <2>1, <2>2
<1>6. ASSUME NEW d \in 0 .. (n - 1) - 1, d \in Good PROVE d + 1 \in Good
  <2> DEFINE i == n - (d + 1)
  <2>1. d + 1 \in 0 .. n /\ i \in 1 .. n /\ i + 1 = n - d /\ d + 1 \in 0 .. n - 1
    BY <1>1
  <2>2. \E F : CutsFrom(i + 1, F, b)
    BY <1>6, <2>1
  <2>3. i = n - (d + 1)
    OBVIOUS
  <2> HIDE DEF i, n
  <2>4. \E G : CutsFrom(i, G, b)
    BY <1>4, <2>1, <2>2, <2>3
  <2> QED  BY <2>1, <2>3, <2>4
<1>7. PICK F : CutsFrom(1, F, b)
  <2> DEFINE m == n - 1
  <2>1. m \in Nat /\ m \in 0 .. m /\ n - m = 1
    BY <1>1
  <2>2. \A d \in 0 .. m - 1 : d \in Good => d + 1 \in Good
    BY <1>6
  <2> HIDE DEF Good, m, n
  <2>3. m \in Good
    BY <1>5, <2>1, <2>2, UpwardInduction
  <2> QED  BY <2>1, <2>3 DEF Good
<1>8. Equation([here \in 1 .. n |-> F[here]])
  <2> DEFINE G == [here \in 1 .. n |-> F[here]]
  <2>1. \A here \in 1 .. n : G[here] = F[here]
    OBVIOUS
  <2>2. G = [here \in 1 .. n |-> G[here]]
    BY <2>1
  <2> HIDE DEF G
  <2>3. ASSUME NEW here \in 1 .. n
        PROVE  G[here] = [start \in 1 .. n |-> CutOnward(G, b, start, here)]
    <3>1. \A k \in here + 1 .. n : F[k] = G[k]
      <4>1. \A k \in here + 1 .. n : k \in 1 .. n
        BY <1>1
      <4> QED  BY <2>1, <4>1
    <3>2. \A start : CutOnward(F, b, start, here) = CutOnward(G, b, start, here)
      BY <1>3, <3>1
    <3>3. F[here] = [start \in 1 .. n |-> CutOnward(F, b, start, here)]
      BY <1>7 DEF CutsFrom
    <3> QED  BY <2>1, <3>2, <3>3
  <2>4. G = [here \in 1 .. n |-> [start \in 1 .. n |-> CutOnward(G, b, start, here)]]
    <3> HIDE DEF n
    <3> QED  BY <2>2, <2>3
  <2> QED  BY <2>4 DEF G
<1>9. Equation(From)
  <2> HIDE DEF Equation
  <2> QED  BY <1>8
<1>10. Cut(b) = From[1][1]
  BY DEF Cut, CutOnward, After
<1> HIDE DEF From
<1>11. CutsFrom(1, From, b)
  <2>1. \A here \in 1 .. n : From[here] = [start \in 1 .. n |-> CutOnward(From, b, start, here)]
    <3> HIDE DEF n
    <3> QED  BY <1>9
  <2> QED  BY <2>1 DEF CutsFrom
<1> QED  BY <1>10, <1>11

(* A sentence ends with its end mark, and the rest has none.               *)
Open(u) == \A i \in 1 .. Len(u) : u[i] \notin SentenceEnds
Closed(u) ==
    /\ u # <<>> /\ u[Len(u)] \in SentenceEnds
    /\ \A i \in 1 .. Len(u) - 1 : u[i] \notin SentenceEnds

SentenceAt(q, i) ==
    \E u \in Text : q[i] = Bytes(u) /\ (Closed(u) \/ (i = Len(q) /\ Open(u)))

(* q is a cut of the text v: all of its speech, in sentences.              *)
IsCut(q, v) ==
    /\ q \in Seq(Seq(Byte))
    /\ Speech(FlattenSeq(q)) = Speech(Bytes(v))
    /\ \A i \in 1 .. Len(q) : SentenceAt(q, i)

PieceOf(u) == IF HasContent(Bytes(u)) THEN <<Bytes(u)>> ELSE <<>>

LEMMA PieceSays ==
    ASSUME NEW u \in Text
    PROVE  /\ PieceOf(u) \in Seq(Seq(Byte))
           /\ Speech(FlattenSeq(PieceOf(u))) = Speech(Bytes(u))
           /\ FlattenSeq(PieceOf(u)) \in Seq(Byte)
<1> DEFINE x == Bytes(u)
           none == <<>>
<1>1. x \in Seq(Byte)
  BY BytesAre
<1> HIDE DEF x
<1>2. none \in Seq(Byte) /\ ~HasContent(none) /\ FlattenSeq(<<>>) = none
  BY FlattenEmpty DEF HasContent
<1> HIDE DEF none
<1>3. Speech(none) = <<>>
  BY <1>2, SpeechOfNone
<1>4. FlattenSeq(<<x>>) = x
  BY <1>1, FlattenOne
<1>5. CASE HasContent(x)
  <2>1. PieceOf(u) = <<x>>
    BY <1>5 DEF PieceOf, x
  <2>2. <<x>> \in Seq(Seq(Byte))
    BY <1>1
  <2> QED  BY <1>1, <1>4, <2>1, <2>2 DEF x
<1>6. CASE ~HasContent(x)
  <2>1. PieceOf(u) = <<>>
    BY <1>6 DEF PieceOf, x
  <2>2. Speech(x) = <<>>
    BY <1>1, <1>6, SpeechOfNone
  <2>3. FlattenSeq(PieceOf(u)) = none
    BY <1>2, <2>1
  <2>4. PieceOf(u) \in Seq(Seq(Byte))
    BY <2>1
  <2> QED  BY <1>2, <1>3, <2>2, <2>3, <2>4 DEF x
<1> QED  BY <1>5, <1>6

LEMMA CutOfRest == ASSUME NEW u \in Text, Open(u) PROVE IsCut(PieceOf(u), u)
<1> DEFINE q == PieceOf(u)
<1>1. q \in Seq(Seq(Byte)) /\ Speech(FlattenSeq(q)) = Speech(Bytes(u))
  BY PieceSays
<1>2. ASSUME NEW i \in 1 .. Len(q) PROVE SentenceAt(q, i)
  <2>1. CASE HasContent(Bytes(u))
    <3>1. q = <<Bytes(u)>>
      BY <2>1 DEF PieceOf
    <3>2. Len(q) = 1 /\ q[1] = Bytes(u)
      BY <3>1
    <3>3. i = 1
      BY <3>2
    <3> HIDE DEF q
    <3> QED  BY <3>2, <3>3 DEF SentenceAt
  <2>2. CASE ~HasContent(Bytes(u))
    <3>1. q = <<>>
      BY <2>2 DEF PieceOf
    <3>2. Len(q) = 0
      BY <3>1
    <3> QED  BY <3>2
  <2> QED  BY <2>1, <2>2
<1> HIDE DEF q
<1>3. IsCut(q, u)
  BY <1>1, <1>2 DEF IsCut
<1> QED  BY <1>3 DEF q

LEMMA CutOfMore ==
    ASSUME NEW u \in Text, Closed(u), NEW v \in Text, NEW q, IsCut(q, v)
    PROVE  IsCut(PieceOf(u) \o q, u \o v)
<1> DEFINE S == Seq(Byte)
           p == PieceOf(u)
           r == p \o q
<1>1. p \in Seq(S) /\ q \in Seq(S)
  BY PieceSays DEF IsCut
<1> HIDE DEF p, S
<1>2. r \in Seq(S) /\ IsJoin(r, p, q)
  BY <1>1, PutTogether
<1> HIDE DEF r
<1>3. Speech(FlattenSeq(r)) = Speech(Bytes(u \o v))
  <2>1. FlattenSeq(p \o q) = FlattenSeq(p) \o FlattenSeq(q)
    BY <1>1, FlattenConcat DEF S
  <2>2. FlattenSeq(p) \in Seq(Byte) /\ FlattenSeq(q) \in Seq(Byte)
    BY <1>1, FlattenTyped DEF S
  <2>3. Speech(FlattenSeq(p) \o FlattenSeq(q)) = Speech(FlattenSeq(p)) \o Speech(FlattenSeq(q))
    BY <2>2, SpeechJoined
  <2>4. Speech(FlattenSeq(p)) = Speech(Bytes(u)) /\ Speech(FlattenSeq(q)) = Speech(Bytes(v))
    BY PieceSays DEF p, IsCut
  <2>5. Bytes(u) \in Seq(Byte) /\ Bytes(v) \in Seq(Byte)
    BY BytesAre
  <2>6. Speech(Bytes(u) \o Bytes(v)) = Speech(Bytes(u)) \o Speech(Bytes(v))
    BY <2>5, SpeechJoined
  <2>7. Bytes(u \o v) = Bytes(u) \o Bytes(v)
    BY BytesJoined
  <2> QED  BY <2>1, <2>3, <2>4, <2>6, <2>7 DEF r
<1>4. ASSUME NEW i \in 1 .. Len(r) PROVE SentenceAt(r, i)
  <2>1. Len(p) \in Nat /\ Len(q) \in Nat /\ Len(r) = Len(p) + Len(q)
    BY <1>1, <1>2 DEF IsJoin
  <2>2. CASE i \in 1 .. Len(p)
    <3>1. r[i] = p[i]
      BY <1>2, <2>2 DEF IsJoin
    <3>2. p[i] = Bytes(u)
      <4>1. CASE HasContent(Bytes(u))
        <5>1. p = <<Bytes(u)>>
          BY <4>1 DEF p, PieceOf
        <5>2. Len(p) = 1 /\ p[1] = Bytes(u)
          BY <5>1
        <5>3. i = 1
          BY <2>2, <5>2
        <5> QED  BY <5>2, <5>3
      <4>2. CASE ~HasContent(Bytes(u))
        <5>1. p = <<>>
          BY <4>2 DEF p, PieceOf
        <5>2. Len(p) = 0
          BY <5>1
        <5> QED  BY <2>2, <5>2
      <4> QED  BY <4>1, <4>2
    <3> QED  BY <3>1, <3>2 DEF SentenceAt
  <2>3. CASE i \notin 1 .. Len(p)
    <3>1. PICK k \in 1 .. Len(q) : i = Len(p) + k
      <4>1. i - Len(p) \in 1 .. Len(q) /\ i = Len(p) + (i - Len(p))
        BY <2>1, <2>3
      <4> QED  BY <4>1
    <3>2. r[i] = q[k]
      BY <1>2, <3>1 DEF IsJoin
    <3>3. SentenceAt(q, k)
      BY DEF IsCut
    <3>4. k = Len(q) <=> i = Len(r)
      BY <2>1, <3>1
    <3> QED  BY <3>2, <3>3, <3>4 DEF SentenceAt
  <2> QED  BY <2>2, <2>3
<1>5. IsCut(r, u \o v)
  BY <1>2, <1>3, <1>4 DEF IsCut, S
<1> QED  BY <1>5 DEF r, p

(* The loop is at the end of the character n, and has cut up to the end of *)
(* the character m.                                                        *)
End(t, n) == Len(FirstBytes(t, n))

LEMMA CutIsCut == ASSUME NEW t \in Text PROVE IsCut(Cut(Bytes(t)), t)
<1> DEFINE b == Bytes(t)
           n == Len(t)
           rest(m) == SubSeq(t, m + 1, n)
<1>1. n \in Nat /\ t \in Seq(Characters) /\ b \in Seq(Byte) /\ Len(b) \in Nat
  BY BytesAre DEF Text
<1>2. PICK F : CutsFrom(1, F, b) /\ Cut(b) = F[1][1]
  BY <1>1, CutUnfolds
<1> DEFINE Kept(k, m) == Open(SubSeq(t, m + 1, k)) => IsCut(F[End(t, k) + 1][End(t, m) + 1], rest(m))
           Good == {d \in 0 .. n : \A m \in 0 .. n - d : Kept(n - d, m)}
<1>3. ASSUME NEW k \in 0 .. n, NEW m \in 0 .. k
      PROVE  /\ SubSeq(b, End(t, m) + 1, End(t, k)) = Bytes(SubSeq(t, m + 1, k))
             /\ End(t, m) \in Nat /\ End(t, k) \in Nat
             /\ End(t, m) <= End(t, k) /\ End(t, k) <= Len(b)
  <2>1. m \in 0 .. Len(t) /\ k \in m .. Len(t)
    BY <1>1
  <2> QED  BY <2>1, BytesBetween DEF End
<1>4. ASSUME NEW k \in 0 .. n - 1
      PROVE  /\ End(t, k + 1) = End(t, k) + Width(t[k + 1])
             /\ b[End(t, k) + 1] = <<t[k + 1], 1>>
             /\ End(t, k + 1) <= Len(b)
  BY NextBytes DEF End
<1>5. End(t, n) = Len(b) /\ End(t, 0) = 0
  <2>1. SubSeq(t, 1, n) = t /\ SubSeq(t, 1, 0) = <<>>
    BY <1>1, SubSeqFull
  <2>2. FirstBytes(t, 0) = <<>> /\ FirstBytes(t, n) = b
    BY <2>1, BytesOfNone DEF FirstBytes
  <2>3. End(t, 0) = 0
    BY <2>2 DEF End
  <2>4. End(t, n) = Len(b)
    BY <2>2 DEF End
  <2> QED  BY <2>3, <2>4
<1> HIDE DEF b
<1>6. ASSUME NEW k \in 0 .. n, NEW m \in 0 .. k
      PROVE  F[End(t, k) + 1][End(t, m) + 1] = CutOnward(F, b, End(t, m) + 1, End(t, k) + 1)
  <2> DEFINE here == End(t, k) + 1
             start == End(t, m) + 1
  <2>1. here \in 1 .. Len(b) + 4 /\ start \in 1 .. Len(b) + 4
    <3> DEFINE e == End(t, k)
               o == End(t, m)
    <3>1. o \in Nat /\ e \in Nat /\ o <= e /\ e <= Len(b)
      BY <1>3
    <3> HIDE DEF e, o
    <3>2. e + 1 \in 1 .. Len(b) + 4 /\ o + 1 \in 1 .. Len(b) + 4
      BY <1>1, <3>1
    <3> QED  BY <3>2 DEF e, o
  <2> HIDE DEF here, start
  <2>2. F[here] = [s \in 1 .. Len(b) + 4 |-> CutOnward(F, b, s, here)]
    BY <1>2, <2>1 DEF CutsFrom
  <2> QED  BY <2>1, <2>2 DEF here, start
<1>7. ASSUME NEW k \in 0 .. n, NEW m \in 0 .. k
      PROVE  Piece(b, End(t, m) + 1, End(t, k)) = PieceOf(SubSeq(t, m + 1, k))
  <2>1. SubSeq(b, End(t, m) + 1, End(t, k)) = Bytes(SubSeq(t, m + 1, k)) /\ ~ (End(t, k) > Len(b))
    BY <1>1, <1>3
  <2> QED  BY <2>1 DEF Piece, PieceOf
<1>8. 0 \in Good
  <2>1. ASSUME NEW m \in 0 .. n PROVE Kept(n, m)
    <3> SUFFICES ASSUME Open(rest(m)) PROVE IsCut(F[End(t, n) + 1][End(t, m) + 1], rest(m))
      OBVIOUS
    <3>1. n \in 0 .. n
      BY <1>1
    <3>2. End(t, n) + 1 > Len(b) /\ (End(t, m) + 1 > Len(b) => End(t, m) = Len(b))
      <4> DEFINE o == End(t, m)
                 e == End(t, n)
      <4>1. o \in Nat /\ o <= e /\ e = Len(b)
        BY <1>3, <1>5, <3>1
      <4> HIDE DEF e, o
      <4>2. e + 1 > Len(b) /\ (o + 1 > Len(b) => o = Len(b))
        BY <1>1, <4>1
      <4> QED  BY <4>2 DEF e, o
    <3>3. rest(m) \in Text
      BY <1>1 DEF Text
    <3>4. IsCut(PieceOf(rest(m)), rest(m))
      <4> DEFINE u == rest(m)
      <4>1. u \in Text /\ Open(u)
        BY <3>3
      <4> HIDE DEF u
      <4>2. IsCut(PieceOf(u), u)
        BY <4>1, CutOfRest
      <4> QED  BY <4>2 DEF u
    <3>5. Piece(b, End(t, m) + 1, End(t, n)) = PieceOf(rest(m))
      BY <1>7, <3>1
    <3>6. F[End(t, n) + 1][End(t, m) + 1] =
              IF End(t, m) + 1 > Len(b) THEN <<>> ELSE PieceOf(rest(m))
      BY <1>5, <1>6, <3>1, <3>2, <3>5 DEF CutOnward
    <3>7. End(t, m) + 1 > Len(b) => PieceOf(rest(m)) = <<>>
      <4> SUFFICES ASSUME End(t, m) + 1 > Len(b) PROVE PieceOf(rest(m)) = <<>>
        OBVIOUS
      <4>1. SubSeq(b, End(t, m) + 1, End(t, n)) = Bytes(rest(m)) /\ End(t, m) = Len(b)
        BY <1>3, <3>1, <3>2
      <4>2. SubSeq(b, Len(b) + 1, Len(b)) = <<>>
        BY <1>1
      <4>3. Bytes(rest(m)) = <<>>
        BY <1>5, <4>1, <4>2
      <4> QED  BY <4>3 DEF PieceOf, HasContent
    <3> QED  BY <3>4, <3>6, <3>7
  <2>2. n - 0 = n /\ 0 \in 0 .. n
    BY <1>1
  <2> HIDE DEF Kept
  <2> QED  BY <2>1, <2>2
<1>9. ASSUME NEW d \in 0 .. n - 1, d \in Good PROVE d + 1 \in Good
  <2> DEFINE k == n - (d + 1)
             c == t[k + 1]
  <2>1. k \in 0 .. n - 1 /\ k \in 0 .. n /\ k + 1 \in 0 .. n /\ k + 1 = n - d /\ d + 1 \in 0 .. n
    BY <1>1
  <2>2. \A m \in 0 .. k + 1 : Kept(k + 1, m)
    <3> HIDE DEF Kept, k
    <3> QED  BY <1>9, <2>1
  <2> HIDE DEF k
  <2>3. ASSUME NEW m \in 0 .. k, Open(SubSeq(t, m + 1, k))
        PROVE  IsCut(F[End(t, k) + 1][End(t, m) + 1], rest(m))
    <3> DEFINE here == End(t, k) + 1
               next == End(t, k + 1) + 1
               start == End(t, m) + 1
               u == SubSeq(t, m + 1, k + 1)
    <3>1. /\ b[here] = <<c, 1>> /\ next = here + Width(c) /\ End(t, k + 1) <= Len(b)
          /\ Width(c) \in 1 .. 4 /\ here \in Nat
      <4>1. End(t, k) \in Nat
        BY <1>3, <2>1
      <4> QED  BY <1>4, <2>1, <4>1, WidthTyped, SMTT(20)
    <3>2. After(b, here) = next /\ ~ (here > Len(b)) /\ here + Width(c) - 1 <= Len(b)
      <4>1. CharLen(<<c, 1>>) = Width(c)
        BY DEF CharLen
      <4> HIDE DEF here, c
      <4>2. After(b, here) = next
        BY <3>1, <4>1 DEF After
      <4>3. next - 1 <= Len(b)
        <5> DEFINE e == End(t, k + 1)
        <5>1. e \in Nat /\ next = e + 1 /\ e <= Len(b)
          BY <1>3, <2>1, <3>1
        <5> HIDE DEF e, next
        <5> QED  BY <1>1, <5>1
      <4> HIDE DEF next
      <4>4. Len(b) \in Nat
        BY <1>1
      <4> QED  BY <3>1, <4>2, <4>3, <4>4, SMTT(20)
    <3>3. IsSentenceEnd(b, here) <=> c \in SentenceEnds
      <4> HIDE DEF here, c
      <4>1. Width(c) = 3 => here + 2 <= Len(b)
        BY <1>1, <3>1, <3>2
      <4> QED  BY <3>1, <4>1 DEF IsSentenceEnd
    <3>4. F[here][start] = CutOnward(F, b, start, here)
      BY <1>6, <2>1, <2>3
    <3>5. m \in 0 .. k + 1 /\ k + 1 \in 0 .. k + 1 /\ u \in Text /\ Len(u) = k + 1 - m
      BY <1>1, <2>1, <2>3 DEF Text
    <3>6. /\ u # <<>> /\ u[Len(u)] = c
          /\ \A i \in 1 .. Len(u) - 1 : u[i] = SubSeq(t, m + 1, k)[i] /\ i \in 1 .. Len(SubSeq(t, m + 1, k))
      BY <1>1, <2>1, <2>3
    <3>7. CASE c \in SentenceEnds
      <4> DEFINE v == rest(k + 1)
                 q == F[next][next]
      <4>1. F[here][start] = Piece(b, start, next - 1) \o F[next][next]
        BY <3>2, <3>3, <3>4, <3>7 DEF CutOnward
      <4>2. next - 1 = End(t, k + 1)
        BY <1>3, <2>1
      <4>3. Piece(b, start, next - 1) = PieceOf(u)
        BY <1>7, <2>1, <3>5, <4>2
      <4>4. Closed(u)
        <5>1. \A i \in 1 .. Len(u) - 1 : u[i] \notin SentenceEnds
          BY <2>3, <3>6 DEF Open
        <5> QED  BY <3>6, <3>7, <5>1 DEF Closed
      <4>5. IsCut(q, v)
        <5> DEFINE none == SubSeq(t, (k + 1) + 1, k + 1)
        <5>1. Len(none) = 0
          BY <1>1, <2>1
        <5> HIDE DEF none
        <5>2. \A i \in 1 .. Len(none) : FALSE
          BY <5>1
        <5>3. Open(none)
          BY <5>2 DEF Open
        <5>4. Kept(k + 1, k + 1)
          <6> HIDE DEF Kept
          <6> QED  BY <2>2, <3>5
        <5> QED  BY <5>3, <5>4 DEF none
      <4>6. v \in Text
        BY <1>1, <2>1 DEF Text
      <4>7. u \o v = rest(m)
        <5>1. m + 1 \in 1 .. Len(t) + 1 /\ k + 1 \in (m + 1) - 1 .. Len(t) /\ n \in k + 1 .. Len(t)
          BY <1>1, <2>1, <2>3
        <5> QED  BY <1>1, <5>1, ConcatAdjacentSubSeq
      <4> HIDE DEF u, v, q
      <4>8. IsCut(PieceOf(u) \o q, u \o v)
        BY <3>5, <4>4, <4>5, <4>6, CutOfMore
      <4> QED  BY <4>1, <4>3, <4>7, <4>8 DEF q
    <3>8. CASE c \notin SentenceEnds
      <4>1. F[here][start] = F[next][start]
        BY <3>2, <3>3, <3>4, <3>8 DEF CutOnward
      <4>2. Open(u)
        <5>1. \A i \in 1 .. Len(u) - 1 : u[i] \notin SentenceEnds
          BY <2>3, <3>6 DEF Open
        <5>2. \A i \in 1 .. Len(u) : i = Len(u) \/ i \in 1 .. Len(u) - 1
          <6> HIDE DEF u
          <6> QED  BY <2>1, <3>5
        <5> QED  BY <3>6, <3>8, <5>1, <5>2 DEF Open
      <4> QED  BY <2>2, <3>5, <4>1, <4>2
    <3> QED  BY <3>7, <3>8
  <2>4. \A m \in 0 .. n - (d + 1) : Kept(n - (d + 1), m)
    BY <2>3 DEF k
  <2> HIDE DEF Kept
  <2> QED  BY <2>1, <2>4
<1>10. \A d \in 0 .. n : d \in Good
  <2> HIDE DEF Good, n
  <2> QED  BY <1>1, <1>8, <1>9, UpwardInduction
<1>11. Kept(0, 0)
  <2>1. n \in 0 .. n /\ n - n = 0 /\ 0 \in 0 .. n - n
    BY <1>1
  <2> HIDE DEF Kept
  <2>2. n \in Good
    <3> HIDE DEF Good, n
    <3> QED  BY <1>10, <2>1
  <2> QED  BY <2>1, <2>2
<1>12. Open(SubSeq(t, 0 + 1, 0)) /\ rest(0) = t
  <2>1. SubSeq(t, 0 + 1, 0) = <<>> /\ Len(SubSeq(t, 0 + 1, 0)) = 0
    BY <1>1
  <2>2. SubSeq(t, 0 + 1, n) = t
    BY <1>1, SubSeqFull
  <2> QED  BY <2>1, <2>2 DEF Open
<1>13. End(t, 0) + 1 = 1
  BY <1>5
<1>14. IsCut(F[End(t, 0) + 1][End(t, 0) + 1], rest(0))
  BY <1>11, <1>12
<1>15. IsCut(F[1][1], t)
  BY <1>12, <1>13, <1>14, Zenon
<1> QED  BY <1>2, <1>15 DEF b

-----------------------------------------------------------------------------
(* What a worker makes of a request.                                       *)

LEMMA SpeechOfSome ==
    ASSUME NEW b \in Seq(Byte), NEW k \in 1 .. Len(b), b[k][1] \notin Blanks
    PROVE  Speech(b) # <<>>
<1> DEFINE a == SubSeq(b, 1, k - 1)
           x == <<b[k]>>
           r == SubSeq(b, k + 1, Len(b))
           n == Len(b)
<1>1. n \in Nat /\ b[k] \in Byte
  OBVIOUS
<1>2. a \in Seq(Byte) /\ x \in Seq(Byte) /\ r \in Seq(Byte)
  BY <1>1
<1>3. b = (a \o x) \o r
  <2>1. x = SubSeq(b, k, k)
    <3> DEFINE y == SubSeq(b, k, k)
    <3>1. y \in Seq(Byte) /\ Len(y) = 1 /\ y[1] = b[k]
      BY <1>1
    <3>2. x \in Seq(Byte) /\ Len(x) = 1 /\ x[1] = b[k]
      BY <1>1
    <3> HIDE DEF x, y
    <3>3. \A i \in 1 .. 1 : x[i] = y[i]
      BY <3>1, <3>2
    <3>4. x = y
      BY <3>1, <3>2, <3>3, SeqEqual
    <3> QED  BY <3>4 DEF y
  <2>2. SubSeq(b, 1, k - 1) \o SubSeq(b, (k - 1) + 1, k) = SubSeq(b, 1, k)
    <3>1. k - 1 \in 1 - 1 .. Len(b) /\ k \in k - 1 .. Len(b) /\ 1 \in 1 .. Len(b) + 1
      BY <1>1
    <3> QED  BY <3>1, ConcatAdjacentSubSeq
  <2>3. SubSeq(b, 1, k) \o SubSeq(b, k + 1, Len(b)) = SubSeq(b, 1, Len(b))
    <3>1. k \in 1 - 1 .. Len(b) /\ Len(b) \in k .. Len(b) /\ 1 \in 1 .. Len(b) + 1
      BY <1>1
    <3> QED  BY <3>1, ConcatAdjacentSubSeq
  <2>4. SubSeq(b, 1, Len(b)) = b
    BY SubSeqFull
  <2>5. (k - 1) + 1 = k
    BY <1>1
  <2> QED  BY <2>1, <2>2, <2>3, <2>4, <2>5, Zenon
<1>4. Speech(x) = <<b[k]>>
  <2>1. Spread(x, SpeechTable) = SpeechTable[b[k]]
    <3> DEFINE y == b[k]
    <3>1. y \in Byte /\ SpeechTable \in [Byte -> Seq(Byte)]
      BY <1>1, TablesTyped
    <3> HIDE DEF y
    <3>2. Spread(<<y>>, SpeechTable) = SpeechTable[y]
      BY <3>1, SpreadOne
    <3> QED  BY <3>2 DEF y
  <2>2. SpeechTable[b[k]] = <<b[k]>>
    BY <1>1 DEF SpeechTable
  <2> QED  BY <1>2, <2>1, <2>2, SpeechIs
<1> HIDE DEF a, r
<1>5. Speech(b) = (Speech(a) \o <<b[k]>>) \o Speech(r)
  <2>1. a \o x \in Seq(Byte)
    BY <1>2, PutTogether
  <2> HIDE DEF x
  <2>2. Speech((a \o x) \o r) = Speech(a \o x) \o Speech(r)
    BY <1>2, <2>1, SpeechJoined
  <2>3. Speech(a \o x) = Speech(a) \o Speech(x)
    BY <1>2, SpeechJoined
  <2> QED  BY <1>3, <1>4, <2>2, <2>3
<1>6. Speech(a) \in Seq(Byte) /\ Speech(r) \in Seq(Byte)
  BY <1>2, SpeechIs
<1> DEFINE sa == Speech(a)
           sr == Speech(r)
           y == b[k]
<1>7. sa \in Seq(Byte) /\ sr \in Seq(Byte) /\ y \in Byte
  BY <1>1, <1>6
<1> HIDE DEF sa, sr, y
<1>8. Len((sa \o <<y>>) \o sr) = Len(sa) + 1 + Len(sr)
  BY <1>7
<1>9. (sa \o <<y>>) \o sr # <<>>
  BY <1>7, <1>8
<1> QED  BY <1>5, <1>9 DEF sa, sr, y

Says(t) == \E i \in 1 .. Len(t) : t[i] \notin Blanks

LEMMA SpeechOfSaying == ASSUME NEW t \in Text, Says(t) PROVE Speech(Bytes(t)) # <<>>
<1> DEFINE b == Bytes(t)
<1>1. b \in Seq(Byte) /\ Len(t) \in Nat
  BY BytesAre DEF Text
<1>2. PICK i \in 1 .. Len(t) : t[i] \notin Blanks
  BY DEF Says
<1> DEFINE m == i - 1
           o == End(t, m)
<1>3. m \in 0 .. Len(t) - 1 /\ m + 1 = i
  BY <1>1
<1>4. o \in Nat
  <2>1. m \in 0 .. Len(t) /\ Len(t) \in m .. Len(t)
    BY <1>1, <1>3
  <2> HIDE DEF m
  <2> QED  BY <2>1, BytesBetween DEF End
<1>5. End(t, m + 1) = o + Width(t[i]) /\ b[o + 1] = <<t[i], 1>> /\ End(t, m + 1) <= Len(b)
  <2> HIDE DEF m
  <2> QED  BY <1>3, NextBytes DEF End
<1>6. Width(t[i]) \in 1 .. 4
  BY WidthTyped
<1> HIDE DEF b, o, m
<1>7. o + 1 \in 1 .. Len(b)
  BY <1>1, <1>4, <1>5, <1>6
<1>8. b[o + 1][1] \notin Blanks
  BY <1>2, <1>5
<1>9. Speech(b) # <<>>
  BY <1>1, <1>7, <1>8, SpeechOfSome
<1> QED  BY <1>9 DEF b

(* What SentencesKeepSpeech says of the sentences q of a request b.        *)
Keeps(q, b) ==
    /\ Speech(FlattenSeq(q)) = Speech(b)
    /\ \A i \in DOMAIN q :
          LET s == q[i]
          IN  /\ s = Bytes(CharactersOf(s))
              /\ Len(b) >= 3 * MinLength => Ends(s) \subseteq {Len(CharactersOf(s))}
              /\ i < Len(q) => Ends(s) = {Len(CharactersOf(s))}

LEMMA SplitKeeps ==
    ASSUME NEW t \in Text, Says(t)
    PROVE  Keeps(SplitSentences(Bytes(t), MinLength), Bytes(t))
<1> DEFINE b == Bytes(t)
           q == Cut(b)
<1>1. b \in Seq(Byte) /\ Speech(b) # <<>> /\ Len(b) \in Nat /\ 3 * MinLength \in Nat
  BY BytesAre, SpeechOfSaying, TextAssumption
<1>2. IsCut(q, t)
  BY CutIsCut
<1>3. q # <<>>
  <2> DEFINE none == <<>>
  <2>1. none \in Seq(Byte) /\ ~HasContent(none)
    BY DEF HasContent
  <2> HIDE DEF none
  <2>2. Speech(none) = <<>>
    BY <2>1, SpeechOfNone
  <2>3. FlattenSeq(<<>>) = none
    BY FlattenEmpty DEF none
  <2>4. Speech(FlattenSeq(q)) = Speech(b)
    BY <1>2 DEF IsCut
  <2> HIDE DEF q, b
  <2> QED  BY <1>1, <2>2, <2>3, <2>4
<1>4. CASE Len(b) < 3 * MinLength
  <2> DEFINE whole == <<b>>
  <2>1. SplitSentences(b, MinLength) = whole
    BY <1>4 DEF SplitSentences
  <2>2. FlattenSeq(whole) = b
    BY <1>1, FlattenOne
  <2>3. b = Bytes(CharactersOf(b))
    BY CharactersOfBytes
  <2>4. Len(whole) = 1 /\ DOMAIN whole = {1} /\ whole[1] = b
    OBVIOUS
  <2>5. ~ (Len(b) >= 3 * MinLength)
    BY <1>1, <1>4
  <2> HIDE DEF b, whole
  <2> QED  BY <2>1, <2>2, <2>3, <2>4, <2>5 DEF Keeps, b
<1>5. CASE ~ (Len(b) < 3 * MinLength)
  <2>1. SplitSentences(b, MinLength) = q
    BY <1>3, <1>5 DEF SplitSentences
  <2>2. ASSUME NEW i \in 1 .. Len(q)
        PROVE  /\ q[i] = Bytes(CharactersOf(q[i]))
               /\ Ends(q[i]) \subseteq {Len(CharactersOf(q[i]))}
               /\ i < Len(q) => Ends(q[i]) = {Len(CharactersOf(q[i]))}
    <3> HIDE DEF q
    <3>1. SentenceAt(q, i)
      BY <1>2 DEF IsCut
    <3>2. PICK u \in Text : q[i] = Bytes(u) /\ (Closed(u) \/ (i = Len(q) /\ Open(u)))
      BY <3>1 DEF SentenceAt
    <3>3. CharactersOf(q[i]) = u /\ Ends(q[i]) = {j \in 1 .. Len(u) : u[j] \in SentenceEnds}
      BY <3>2, CharactersOfBytes, EndsOfBytes
    <3>4. Len(u) \in Nat /\ (u # <<>> => Len(u) # 0)
      BY EmptySeq DEF Text
    <3>5. CASE Closed(u)
      <4>1. \A j \in 1 .. Len(u) : j = Len(u) \/ j \in 1 .. Len(u) - 1
        BY <3>4
      <4>2. Len(u) \in 1 .. Len(u)
        BY <3>4, <3>5 DEF Closed
      <4>3. Ends(q[i]) = {Len(u)}
        BY <3>3, <3>5, <4>1, <4>2 DEF Closed
      <4> QED  BY <3>2, <3>3, <4>3
    <3>6. CASE i = Len(q) /\ Open(u)
      <4>1. Ends(q[i]) = {}
        BY <3>3, <3>6 DEF Open
      <4>2. ~ (i < Len(q))
        BY <3>6, <1>2 DEF IsCut
      <4> QED  BY <3>2, <3>3, <4>1, <4>2
    <3> QED  BY <3>2, <3>5, <3>6
  <2>3. DOMAIN q = 1 .. Len(q)
    BY <1>2 DEF IsCut
  <2>4. Speech(FlattenSeq(q)) = Speech(b)
    BY <1>2 DEF IsCut
  <2> HIDE DEF b, q
  <2> QED  BY <2>1, <2>2, <2>3, <2>4 DEF Keeps, b
<1> QED  BY <1>4, <1>5

(* The submitted text.                                                     *)
LEMMA RequestSays ==
    ASSUME TypeOK, SubmittedIsWhole, stage = "submitted"
    PROVE  \E t \in Text : Says(t) /\ request = Bytes(t)
<1> DEFINE said == NormalizeWhitespace(ConvertNumbers(text))
           kept == IF Len(said) <= MaxChars THEN said ELSE SubSeq(said, 1, MaxChars) \o RestOmitted
           name == IF Username = <<>> THEN <<>> ELSE Append(Username, "touten")
<1>1. request = Bytes(name \o kept) /\ \E i \in DOMAIN said : said[i] \notin Blanks
  BY DEF SubmittedIsWhole
<1>2. said \in Text
  <2> DEFINE t == ConvertNumbers(text)
  <2>1. t \in Text
    BY ConvertNumbersTyped DEF TypeOK
  <2> HIDE DEF t
  <2> QED  BY <2>1, NormalizedSays DEF t
<1> HIDE DEF said
<1>3. said \in Seq(Characters) /\ Len(said) \in Nat /\ DOMAIN said = 1 .. Len(said)
  BY <1>2 DEF Text
<1>4. RestOmitted \in Text /\ Len(RestOmitted) = 5 /\ RestOmitted[1] = "touten"
  BY OwnTexts DEF RestOmitted
<1>5. "touten" \in Characters /\ "touten" \notin Blanks
  <2>1. RestOmitted \in Seq(Characters) /\ 1 \in 1 .. Len(RestOmitted)
    BY <1>4 DEF Text
  <2>2. RestOmitted[1] \in Characters
    BY <2>1
  <2> QED  BY <1>4, <2>2 DEF Blanks
<1>6. kept \in Text /\ Says(kept)
  <2>1. CASE Len(said) <= MaxChars
    BY <1>1, <1>2, <1>3, <2>1 DEF Says
  <2>2. CASE ~ (Len(said) <= MaxChars)
    <3> DEFINE front == SubSeq(said, 1, MaxChars)
               both == front \o RestOmitted
    <3>1. front \in Text
      BY <1>3, <2>2, TextAssumption DEF Text
    <3> HIDE DEF front
    <3>2. both \in Seq(Characters) /\ IsJoin(both, front, RestOmitted)
      BY <1>4, <3>1, PutTogether DEF Text
    <3>3. kept = both
      BY <2>2 DEF front
    <3> HIDE DEF both, kept
    <3>4. Len(front) \in Nat /\ 1 \in 1 .. Len(RestOmitted)
      BY <1>4, <3>1 DEF Text
    <3>5. both[Len(front) + 1] = "touten"
      BY <1>4, <3>2, <3>4 DEF IsJoin
    <3>6. Len(front) + 1 \in 1 .. Len(both)
      BY <1>4, <3>2, <3>4 DEF IsJoin
    <3> QED  BY <1>5, <3>2, <3>3, <3>5, <3>6 DEF Says, Text
  <2> QED  BY <2>1, <2>2
<1> HIDE DEF kept
<1>7. name \in Text
  <2>1. Username \in Text
    BY TextAssumption
  <2> QED  BY <1>5, <2>1 DEF Text
<1> HIDE DEF name
<1> DEFINE all == name \o kept
<1>8. all \in Seq(Characters) /\ IsJoin(all, name, kept)
  BY <1>6, <1>7, PutTogether DEF Text
<1> HIDE DEF all
<1>9. PICK i \in 1 .. Len(kept) : kept[i] \notin Blanks
  BY <1>6 DEF Says
<1>10. Len(name) \in Nat /\ Len(kept) \in Nat
  BY <1>6, <1>7 DEF Text
<1>11. Len(name) + i \in 1 .. Len(all)
  BY <1>8, <1>9, <1>10 DEF IsJoin
<1>12. all[Len(name) + i] = kept[i]
  BY <1>8, <1>9 DEF IsJoin
<1>13. all \in Text /\ Says(all)
  BY <1>8, <1>9, <1>11, <1>12 DEF Says, Text
<1> QED  BY <1>1, <1>13 DEF all

LEMMA SentencesKept ==
    TypeOK /\ SubmittedIsWhole /\ SentencesKeepSpeech /\ [Next]_vars => SentencesKeepSpeech'
<1> SUFFICES ASSUME TypeOK, SubmittedIsWhole, SentencesKeepSpeech, [Next]_vars
             PROVE  SentencesKeepSpeech'
  OBVIOUS
<1>1. ASSUME NEW h \in Handlers, Dict(h) PROVE SentencesKeepSpeech'
  <2>1. UNCHANGED <<stage, sentences, request>>
    BY <1>1 DEF Dict, ReadEntries, DictAdd, DictRemove, message
  <2> QED  BY <2>1 DEF SentencesKeepSpeech
<1>2. CASE Read \/ Replace \/ NextEntry \/ Submit
  <2>1. stage' # "spoken"
    BY <1>2 DEF Read, Replace, NextEntry, Submit
  <2> QED  BY <2>1, SMTT(20) DEF SentencesKeepSpeech
<1>3. CASE Split
  <2>1. stage = "submitted" /\ request' = request /\ sentences' = SplitSentences(request, MinLength)
    BY <1>3 DEF Split
  <2>2. PICK t \in Text : Says(t) /\ request = Bytes(t)
    BY <2>1, RequestSays
  <2>3. Keeps(sentences', request')
    BY <2>1, <2>2, SplitKeeps
  <2> QED  BY <2>3 DEF Keeps, SentencesKeepSpeech
<1>4. CASE UNCHANGED vars
  <2>1. UNCHANGED <<stage, sentences, request>>
    BY <1>4 DEF vars, message
  <2> QED  BY <2>1 DEF SentencesKeepSpeech
<1> QED  BY <1>1, <1>2, <1>3, <1>4 DEF Next, Message, Over

(* What is said of a request is all of it, in its order, but blanks; it is *)
(* cut between characters, at every end mark and only there.  The loop     *)
(* steps over bytes by the width of the character at its position, which   *)
(* is always the first byte of one (sentence_splitter.cpp:32).             *)
THEOREM SentencesKeepSpeechAlways == Spec => []SentencesKeepSpeech
<1>1. Init => SentencesKeepSpeech
  BY DEF Init, SentencesKeepSpeech
<1> QED  BY <1>1, SentencesKept, SubmittedIsWholeAlways, TextTypeCorrect, PTL DEF Spec
=================================================================================
