--------------------------- MODULE SpokenOrderProofs ---------------------------
(***************************************************************************)
(* From the order of speech in a recording to that of its turns: what is   *)
(* heard and the words are lines, so are the turns of every stage, and     *)
(* with them the properties SpokenOrder and ClipsAreDisjoint hold for all  *)
(* recordings whose segments are in turn (SegmentsInTurn).                 *)
(***************************************************************************)
EXTENDS SpeakerOrderProofs

-----------------------------------------------------------------------------
(* What is heard of one channel *)

\* A sequence of one sequence.
LEMMA FlattenOne ==
    ASSUME NEW X, NEW s \in Seq(Seq(X)), Len(s) = 1
    PROVE  FlattenSeq(s) = s[1]
<1>1. PICK g : /\ g[0] = <<>> /\ g[1] = FlattenSeq(s)
               /\ \A i \in 1..1 : g[i] = g[i - 1] \o s[i]
  <2>1. \E g \in [0..Len(s) -> Seq(X)] : /\ g[0] = <<>> /\ g[Len(s)] = FlattenSeq(s)
                                        /\ \A i \in 1..Len(s) : g[i] = g[i - 1] \o s[i]
    BY FlattenSteps
  <2>. QED  BY <2>1
<1>2. 1 \in 1..1 /\ 1 - 1 = 0 /\ 1 \in 1..Len(s)
  OBVIOUS
<1>3. g[1] = g[1 - 1] \o s[1]
  BY <1>1, <1>2
<1>4. g[1] = <<>> \o s[1]
  BY <1>1, <1>2, <1>3
<1>5. s[1] \in Seq(X)
  BY <1>2, Indices
<1>6. <<>> \o s[1] = s[1]
  BY <1>5
<1>. QED  BY <1>1, <1>4, <1>6

\* The segments of a channel are in turn.
LEMMA ChannelsInTurn ==
    ASSUME SegmentsInTurn, recording \in Recordings, NEW c \in DOMAIN recording.channels
    PROVE  ChannelInTurn(recording.channels[c])
BY DEF SegmentsInTurn

\* A recording of one channel is heard as it is.
LEMMA MonoHeard ==
    ASSUME SegmentsInTurn, recording \in Recordings, IsRecording(recording), IsMono
    PROVE  Heard \in Line(Spelled(Phrases), Follows)
<1> DEFINE segs == recording.channels[1]
<1>1. recording.channels \in Seq(Seq(Segments)) /\ Len(recording.channels) = 1
  BY DEF IsRecording, IsMono
<1>2. FlattenSeq(recording.channels) = segs
  BY <1>1, FlattenOne
<1>3. 1 \in DOMAIN recording.channels /\ segs \in Seq(Segments)
  BY <1>1
<1>4. ChannelInTurn(segs)
  BY <1>3, ChannelsInTurn
<1> HIDE DEF segs
<1>5. \A i \in DOMAIN segs : \A k \in DOMAIN segs[i].text : segs[i].text[k] \in Phrases
  <2>1. \A i \in DOMAIN segs : segs[i] \in Segments
    BY <1>3, Indices
  <2>2. \A x \in Segments : x.text \in Seq(Phrases)
    BY DEF Segments, Texts
  <2>. QED  BY <2>1, <2>2, Indices
<1>6. Phrases \in Vocabularies
  BY DEF Vocabularies
<1>7. SortBy(segs, EarlierSpan) \in Line(Spelled(Phrases), Follows)
  BY <1>3, <1>4, <1>5, <1>6, SegmentsAreTimed, SortedSegments
<1>. QED  BY <1>2, <1>7 DEF Heard

-----------------------------------------------------------------------------
(* Words *)

\* where the k-th word of a segment ends
WordEnd(s, k) == s.from + (Duration(s) * k) \div Len(s.text)

\* A product grows with its factor.
LEMMA TimesGrow ==
    ASSUME NEW a \in Nat, NEW b \in Nat, NEW m \in Nat, a <= b
    PROVE  a * m <= b * m /\ a * m \in Nat /\ b * m \in Nat
<1>1. PICK r \in Nat : b = a + r
  <2>1. b - a \in Nat /\ b = a + (b - a)
    OBVIOUS
  <2>. QED  BY <2>1
<1>2. b * m = a * m + r * m
  BY <1>1
<1>3. a * m \in Nat /\ r * m \in Nat
  BY <1>1
<1>. QED  BY <1>2, <1>3

\* The words share the time of the segment, from its start to its end, with 128 units or more each.
LEMMA WordEnds ==
    ASSUME NEW s, s.from \in Nat, s.to \in Nat, NEW n \in Nat, n > 0, Len(s.text) = n,
           128 * n <= s.to - s.from
    PROVE  /\ WordEnd(s, 0) = s.from /\ WordEnd(s, n) = s.to
           /\ \A k \in 0..n : WordEnd(s, k) \in Nat
           /\ \A i, j \in 0..n : i <= j => WordEnd(s, i) + 128 * (j - i) <= WordEnd(s, j)
<1> DEFINE D == Duration(s)
<1>1. D \in Nat /\ 128 * n <= D /\ s.from + D = s.to /\ s.from \in Nat /\ 128 * n \in Nat
  BY DEF Duration, Larger
<1> HIDE DEF D
<1>2. \A k : WordEnd(s, k) = s.from + (D * k) \div n
  BY DEF WordEnd, D
<1>3. ASSUME NEW i \in 0..n, NEW j \in 0..n, i <= j
      PROVE  WordEnd(s, i) + 128 * (j - i) <= WordEnd(s, j) /\ WordEnd(s, i) \in Nat
  <2>1. PICK m \in Nat : j = i + m
    <3>1. j - i \in Nat /\ j = i + (j - i)
      BY <1>3
    <3>. QED  BY <3>1
  <2> DEFINE a == D * i
             b == D * j
  <2>2. (128 * n) * m <= D * m /\ D * m \in Nat
    BY <1>1, TimesGrow
  <2>3. a \in Nat /\ b \in Nat /\ b = a + D * m /\ (128 * n) * m = (128 * m) * n /\ 128 * m \in Nat
    BY <1>1, <2>1
  <2> HIDE DEF a, b
  <2>4. a + (128 * m) * n <= b
    BY <2>2, <2>3
  <2>5. a \div n + 128 * m <= b \div n /\ a \div n \in Nat
    BY <2>3, <2>4, DivShift
  <2>6. b \div n \in Int
    BY <2>3
  <2>7. WordEnd(s, i) = s.from + a \div n /\ WordEnd(s, j) = s.from + b \div n
    BY <1>2 DEF a, b
  <2>. QED  BY <1>1, <2>1, <2>5, <2>6, <2>7
<1>4. WordEnd(s, 0) = s.from
  <2>1. D * 0 = 0 /\ 0 \div n = 0
    BY <1>1, DivExact
  <2>. QED  BY <1>1, <1>2, <2>1
<1>5. WordEnd(s, n) = s.to
  <2>1. (D * n) \div n = D
    BY <1>1, DivExact
  <2>. QED  BY <1>1, <1>2, <2>1
<1>. QED  BY <1>3, <1>4, <1>5

WordOf(s, k) == CutOut(s, WordEnd(s, k - 1), WordEnd(s, k), <<s.text[k]>>)

WordsOf(s) == [k \in DOMAIN s.text |-> WordOf(s, k)]

\* A word is a piece with its share of the time of the segment.
LEMMA WordIs ==
    ASSUME NEW C \in Vocabularies, NEW s \in Spelled(C), NEW k \in DOMAIN s.text
    PROVE  /\ WordOf(s, k) \in Paced(C, 8) /\ WordOf(s, k) \in Spans
           /\ WordOf(s, k).from = WordEnd(s, k - 1) /\ WordOf(s, k).to = WordEnd(s, k)
           /\ WordOf(s, k).text = <<s.text[k]>>
<1> DEFINE n == Len(s.text)
           u == s.text[k]
           a == WordEnd(s, k - 1)
           b == WordEnd(s, k)
           w == WordOf(s, k)
<1>1. s \in Timed(C, 8) /\ 128 * n <= s.to - s.from
  BY DEF Spelled
<1>2. /\ s.speaker \in Int /\ s.from \in Nat /\ s.to \in Int /\ s.text \in RisingTexts(C)
      /\ s.text # <<>> /\ s \in Paced(C, 8) /\ s \in Pieces(Int) /\ s.from <= s.to
  <2>1. s.text # <<>>
    OBVIOUS
  <2>2. s \in Paced(C, 8)
    BY <1>1, <2>1 DEF Paced
  <2>3. 8 \in Nat
    OBVIOUS
  <2>4. s \in Pieces(Int)
    BY <1>1, <2>2, <2>3, PacedIs
  <2>. QED  BY <1>1, <2>1, <2>2, <2>3, <2>4, TimedIs
<1>3. s.text \in Seq(C) /\ n \in Nat /\ DOMAIN s.text = 1..n /\ u \in C /\ u \in Phrases
  <2>1. s.text \in Seq(C)
    BY <1>2 DEF RisingTexts, Line
  <2>. QED  BY <2>1, Indices DEF Vocabularies
<1>4. a \in Nat /\ b \in Nat /\ a + 128 <= b
  <2>1. k - 1 \in 0..n /\ k \in 0..n /\ k - 1 <= k /\ k - (k - 1) = 1 /\ n > 0 /\ s.to \in Nat
    <3>1. k \in 1..n /\ n \in Nat /\ s.from \in Nat /\ s.to \in Int /\ s.from <= s.to
      BY <1>2, <1>3
    <3> HIDE DEF n
    <3>. QED  BY <3>1
  <2>2. /\ \A i \in 0..n : WordEnd(s, i) \in Nat
        /\ \A i, j \in 0..n : i <= j => WordEnd(s, i) + 128 * (j - i) <= WordEnd(s, j)
    BY <1>1, <1>2, <1>3, <2>1, WordEnds
  <2>3. WordEnd(s, k - 1) + 128 * (k - (k - 1)) <= WordEnd(s, k)
    BY <2>1, <2>2
  <2>. QED  BY <2>1, <2>2, <2>3
<1>5. <<u>> \in RisingTexts(C) /\ <<u>> \in Texts /\ <<u>> # <<>> /\ 8 * Weight(<<u>>) <= 128
  <2>1. <<u>> \in Seq(C) /\ DOMAIN <<u>> = {1} /\ <<u>> \in Seq(Phrases) /\ <<u>> # <<>>
    BY <1>3
  <2>2. \A i, j \in {1} : ~(i < j)
    OBVIOUS
  <2>3. <<u>> \in RisingTexts(C)
    BY <2>1, <2>2 DEF RisingTexts, Line
  <2>4. 8 * Weight(<<u>>) <= 128
    <3>1. PICK c \in Nat : c = Weight(<<u>>) /\ c <= 16
      <4>1. Weight(<<u>>) = Chars[u.kind] + 1 /\ Chars[u.kind] \in 1..15
        BY <1>3, WeightOfOne
      <4>. QED  BY <4>1
    <3>. QED  BY <3>1
  <2>. QED  BY <2>1, <2>3, <2>4 DEF Texts
<1> HIDE DEF u, a, b
<1>6. w = [speaker |-> s.speaker, from |-> a, to |-> b, text |-> <<u>>]
  <2>1. w = CutOut(s, a, b, <<u>>) /\ a \in Int /\ b \in Int
    BY <1>4 DEF WordOf, u, a, b
  <2>. QED  BY <1>2, <1>5, <2>1, CutPiece
<1> HIDE DEF w
<1>7. /\ w \in [speaker : Int, from : Nat, to : Int, text : RisingTexts(C)]
      /\ w.from = a /\ w.to = b /\ w.text = <<u>>
  BY <1>2, <1>4, <1>5, <1>6
<1>8. 8 * Weight(w.text) <= w.to - w.from
  <2>1. PICK c \in Int : c = 8 * Weight(<<u>>)
    <3>1. Weight(<<u>>) \in Nat
      BY <1>5, WeightIsSmall
    <3>. QED  BY <3>1
  <2>2. c <= b - a
    BY <1>4, <1>5, <2>1
  <2>. QED  BY <1>7, <2>1, <2>2
<1>9. w \in Paced(C, 8)
  BY <1>5, <1>7, <1>8 DEF Paced, Timed
<1>10. w \in Spans
  BY <1>5, <1>7 DEF Spans
<1>. QED  BY <1>7, <1>9, <1>10 DEF w, a, b, u

\* The words of a segment are pieces one after the other, within it.
LEMMA WordsOfInTurn ==
    ASSUME NEW C \in Vocabularies, NEW s \in Spelled(C)
    PROVE  /\ WordsOf(s) \in InTurn(C, 8)
           /\ \A k \in DOMAIN WordsOf(s) : Within(WordsOf(s)[k], s) /\ WordsOf(s)[k] \in Spans
<1> DEFINE n == Len(s.text)
           new == WordsOf(s)
<1>1. s \in Timed(C, 8) /\ 128 * n <= s.to - s.from
  BY DEF Spelled
<1>2. /\ s.from \in Nat /\ s.to \in Int /\ s.text \in RisingTexts(C) /\ s.from <= s.to
      /\ s.text \in Seq(C) /\ n \in Nat /\ DOMAIN s.text = 1..n
      /\ \A k, l \in 1..n : k < l => <<s.text[k], s.text[l]>> \in IdsRise
  <2>1. 8 \in Nat
    OBVIOUS
  <2>2. s.from \in Nat /\ s.to \in Int /\ s.text \in RisingTexts(C) /\ s.from <= s.to
    BY <1>1, <2>1, TimedIs
  <2>3. s.text \in Seq(C)
    BY <2>2 DEF RisingTexts, Line
  <2>4. n \in Nat /\ DOMAIN s.text = 1..n
    BY <2>3, Indices
  <2>. QED  BY <2>2, <2>3, <2>4 DEF RisingTexts, Line
<1>3. DOMAIN new = 1..n /\ \A k \in 1..n : new[k] = WordOf(s, k)
  BY <1>2 DEF WordsOf
<1>4. \A k \in 1..n : /\ new[k] \in Paced(C, 8) /\ new[k] \in Spans
                      /\ new[k].from = WordEnd(s, k - 1) /\ new[k].to = WordEnd(s, k)
                      /\ new[k].text = <<s.text[k]>>
  BY <1>2, <1>3, WordIs
<1>5. n > 0 => /\ WordEnd(s, 0) = s.from /\ WordEnd(s, n) = s.to
               /\ \A k \in 0..n : WordEnd(s, k) \in Nat
               /\ \A i, j \in 0..n : i <= j => WordEnd(s, i) <= WordEnd(s, j)
  <2>1. SUFFICES ASSUME n > 0
                 PROVE  /\ WordEnd(s, 0) = s.from /\ WordEnd(s, n) = s.to
                        /\ \A k \in 0..n : WordEnd(s, k) \in Nat
                        /\ \A i, j \in 0..n : i <= j => WordEnd(s, i) <= WordEnd(s, j)
    OBVIOUS
  <2>2. s.to \in Nat
    BY <1>2
  <2>3. /\ WordEnd(s, 0) = s.from /\ WordEnd(s, n) = s.to
        /\ \A k \in 0..n : WordEnd(s, k) \in Nat
        /\ \A i, j \in 0..n : i <= j => WordEnd(s, i) + 128 * (j - i) <= WordEnd(s, j)
    BY <1>1, <1>2, <2>1, <2>2, WordEnds
  <2>4. ASSUME NEW i \in 0..n, NEW j \in 0..n, i <= j
        PROVE  WordEnd(s, i) <= WordEnd(s, j)
    <3>1. PICK d \in Nat : d = j - i
      BY <1>2, <2>4
    <3>2. WordEnd(s, i) + 128 * d <= WordEnd(s, j)
      BY <2>3, <2>4, <3>1
    <3>. QED  BY <2>3, <3>1, <3>2
  <2>. QED  BY <2>3, <2>4
<1> HIDE DEF new, n
<1>6. ASSUME NEW k \in 1..n
      PROVE  Within(new[k], s)
  <2>1. /\ n > 0 /\ 0 \in 0..n /\ n \in 0..n /\ k - 1 \in 0..n /\ k \in 0..n /\ 0 <= k - 1 /\ k <= n
    BY <1>2
  <2>2. s.from <= new[k].from /\ new[k].to <= s.to
    BY <1>4, <1>5, <2>1
  <2>3. \A m \in DOMAIN new[k].text : new[k].text[m] = s.text[k]
    BY <1>4
  <2>. QED  BY <1>2, <2>2, <2>3 DEF Within
<1>7. ASSUME NEW k \in 1..n, NEW l \in 1..n, k < l
      PROVE  <<new[k], new[l]>> \in Follows
  <2>1. n > 0 /\ k \in 0..n /\ l - 1 \in 0..n /\ k <= l - 1
    BY <1>2, <1>7
  <2>2. new[k].to <= new[l].from
    BY <1>4, <1>5, <2>1
  <2>3. <<s.text[k], s.text[l]>> \in IdsRise
    BY <1>2, <1>7
  <2>4. Earlier(new[k].text, new[l].text)
    BY <1>4, <2>3 DEF Earlier
  <2>. QED  BY <1>4, <2>2, <2>4, FollowsIs
<1>8. new \in Seq(Paced(C, 8))
  <2>1. new = [k \in 1..n |-> new[k]]
    BY <1>3 DEF new, WordsOf
  <2>2. \A k \in 1..n : new[k] \in Paced(C, 8)
    BY <1>4
  <2>. QED  BY <1>2, <2>1, <2>2
<1>9. new \in InTurn(C, 8)
  BY <1>3, <1>7, <1>8 DEF InTurn, Line
<1>. QED  BY <1>3, <1>4, <1>6, <1>9 DEF new

\* where the k-th word ends, if it has a time of its own
EndOf(s, k) == WordEnd(s, IF s.text[k] \in recording.mute THEN k - 1 ELSE k)

\* the words of a segment that end after they start
LastingWords(s) ==
    Filter([k \in DOMAIN s.text |-> CutOut(s, WordEnd(s, k - 1), EndOf(s, k), <<s.text[k]>>)],
           LAMBDA w : w.to > w.from)

\* They are some of the words of the segment, as if each had a time of its own.
LEMMA LastingAreKept ==
    ASSUME NEW C \in Vocabularies, NEW s \in Spelled(C)
    PROVE  LastingWords(s) =
             Kept(WordsOf(s), {k \in DOMAIN s.text : s.text[k] \notin recording.mute})
<1> DEFINE new(k) == CutOut(s, WordEnd(s, k - 1), EndOf(s, k), <<s.text[k]>>)
           all == [k \in DOMAIN s.text |-> new(k)]
           heard == {k \in DOMAIN s.text : s.text[k] \notin recording.mute}
           words == WordsOf(s)
<1>1. s \in [speaker : Int, from : Nat, to : Int, text : RisingTexts(C)]
  BY DEF Spelled, Timed
<1>2. ASSUME NEW k \in DOMAIN s.text
      PROVE  IF new(k).to > new(k).from
             THEN k \in heard /\ new(k) = WordOf(s, k)
             ELSE k \notin heard
  <2>1. WordEnd(s, k - 1) \in Int /\ WordEnd(s, k) \in Int /\ WordEnd(s, k - 1) < WordEnd(s, k)
    <3>1. /\ WordOf(s, k) \in Paced(C, 8) /\ WordOf(s, k).from = WordEnd(s, k - 1)
          /\ WordOf(s, k).to = WordEnd(s, k)
      BY WordIs
    <3>2. WordOf(s, k) \in Timed(C, 8) /\ 8 \in Nat /\ 8 > 0
      BY <3>1 DEF Paced
    <3>3. /\ WordOf(s, k).from \in Nat /\ WordOf(s, k).to \in Int
          /\ WordOf(s, k).from < WordOf(s, k).to
      BY <3>1, <3>2, PacedIs
    <3>. QED  BY <3>1, <3>3
  <2>2. new(k).from = WordEnd(s, k - 1) /\ new(k).to = EndOf(s, k)
    BY <1>1 DEF CutOut
  <2>3. CASE k \in heard
    <3>1. EndOf(s, k) = WordEnd(s, k)
      BY <2>3 DEF EndOf
    <3>2. new(k) = WordOf(s, k)
      BY <3>1 DEF WordOf
    <3> HIDE DEF new, heard
    <3>. QED  BY <2>1, <2>2, <2>3, <3>1, <3>2
  <2>4. CASE k \notin heard
    <3>1. EndOf(s, k) = WordEnd(s, k - 1)
      BY <2>4 DEF EndOf
    <3> HIDE DEF new, heard
    <3>. QED  BY <2>1, <2>2, <2>4, <3>1
  <2>. QED  BY <2>3, <2>4
<1> HIDE DEF new, heard
<1>3. [k \in DOMAIN all |-> IF all[k].to > all[k].from THEN <<all[k]>> ELSE <<>>]
        = [k \in DOMAIN words |-> IF k \in heard THEN <<words[k]>> ELSE <<>>]
  <2>1. DOMAIN all = DOMAIN s.text /\ DOMAIN words = DOMAIN s.text
    BY DEF WordsOf
  <2>2. ASSUME NEW k \in DOMAIN s.text
        PROVE  (IF all[k].to > all[k].from THEN <<all[k]>> ELSE <<>>)
                 = (IF k \in heard THEN <<words[k]>> ELSE <<>>)
    <3>1. all[k] = new(k) /\ words[k] = WordOf(s, k)
      BY DEF WordsOf
    <3>. QED  BY <1>2, <3>1
  <2> HIDE DEF all, words
  <2>. QED  BY <2>1, <2>2
<1>4. LastingWords(s) = Filter(all, LAMBDA w : w.to > w.from)
  BY DEF LastingWords, new
<1>5. Filter(all, LAMBDA w : w.to > w.from) = Kept(words, heard)
  <2> HIDE DEF all, words
  <2>. QED  BY <1>3 DEF Filter, Kept
<1>. QED  BY <1>4, <1>5 DEF heard

\* So they are pieces one after the other, within the segment.
LEMMA LastingInTurn ==
    ASSUME NEW C \in Vocabularies, NEW s \in Spelled(C)
    PROVE  /\ LastingWords(s) \in InTurn(C, 8)
           /\ \A k \in DOMAIN LastingWords(s) :
                 Within(LastingWords(s)[k], s) /\ LastingWords(s)[k] \in Spans
<1> DEFINE words == WordsOf(s)
           heard == {k \in DOMAIN s.text : s.text[k] \notin recording.mute}
           kept == Kept(words, heard)
<1>1. words \in InTurn(C, 8) /\ \A k \in DOMAIN words : Within(words[k], s) /\ words[k] \in Spans
  BY WordsOfInTurn
<1>2. LastingWords(s) = kept
  BY LastingAreKept
<1> HIDE DEF words, heard
<1>3. kept \in InTurn(C, 8) /\ \A m \in DOMAIN kept : \E k \in DOMAIN words : kept[m] = words[k]
  BY <1>1, KeptLine DEF InTurn
<1>. QED  BY <1>1, <1>2, <1>3

\* The words of a recording of one channel are in turn.
LEMMA WordsInTurn ==
    ASSUME SegmentsInTurn, recording \in Recordings, IsRecording(recording), IsMono
    PROVE  Words \in InTurn(Phrases, 8)
<1> DEFINE X == Paced(Phrases, 8)
           H == Heard
           split == [i \in DOMAIN H |-> LastingWords(H[i])]
<1>1. H \in Line(Spelled(Phrases), Follows)
  BY MonoHeard
<1>2. H \in Seq(Spelled(Phrases)) /\ \A i \in DOMAIN H : H[i] \in Spelled(Phrases)
  <2>1. H \in Seq(Spelled(Phrases))
    BY <1>1 DEF Line
  <2> HIDE DEF H
  <2>. QED  BY <2>1, Indices
<1>3. CASE recording.words
  <2>1. Words = FlattenSeq(split) /\ DOMAIN split = DOMAIN H
    BY <1>3 DEF Words, LastingWords, EndOf, CutOut, WordEnd
  <2> HIDE DEF H
  <2>2. ASSUME NEW i \in DOMAIN H
        PROVE  /\ H[i] \in Spans /\ split[i] \in InTurn(Phrases, 8)
               /\ \A k \in DOMAIN split[i] : Within(split[i][k], H[i]) /\ split[i][k] \in Spans
    <3>1. Phrases \in Vocabularies /\ 8 \in Nat /\ H[i] \in Spelled(Phrases) /\ H[i] \in Timed(Phrases, 8)
      BY <1>2 DEF Vocabularies, Spelled
    <3>2. H[i] \in Spans
      BY <3>1, TimedIs
    <3>. QED  BY <3>1, <3>2, LastingInTurn
  <2> HIDE DEF split, X
  <2>3. split \in Seq(Line(X, Follows))
    <3>1. split = [i \in DOMAIN H |-> split[i]]
      BY DEF split
    <3>2. \A i \in DOMAIN H : split[i] \in Line(X, Follows)
      BY <2>2 DEF InTurn, X
    <3>3. DOMAIN H = 1..Len(H) /\ Len(H) \in Nat
      BY <1>2
    <3>. QED  BY <3>1, <3>2, <3>3
  <2>4. ASSUME NEW i \in DOMAIN split, NEW j \in DOMAIN split, i < j,
               NEW k \in DOMAIN split[i], NEW l \in DOMAIN split[j]
        PROVE  <<split[i][k], split[j][l]>> \in Follows
    <3>1. <<H[i], H[j]>> \in Follows
      BY <1>1, <2>1, <2>4 DEF Line
    <3>. QED  BY <2>1, <2>2, <2>4, <3>1, WithinFollows
  <2>5. FlattenSeq(split) \in Line(X, Follows)
    BY <2>3, <2>4, FlattenLine
  <2>. QED  BY <2>1, <2>5 DEF InTurn, X
<1>4. CASE ~recording.words
  <2>1. Words = <<>>
    BY <1>4 DEF Words
  <2>2. <<>> \in Seq(X) /\ DOMAIN <<>> = {}
    OBVIOUS
  <2>. QED  BY <2>1, <2>2 DEF InTurn, Line
<1>. QED  BY <1>3, <1>4

-----------------------------------------------------------------------------
(* The stages of one channel *)

\* Nothing is in turn.
LEMMA NothingInTurn ==
    ASSUME NEW C, NEW k
    PROVE  <<>> \in InTurn(C, k)
<1> DEFINE X == Paced(C, k)
<1>1. <<>> \in Seq(X) /\ DOMAIN <<>> = {}
  OBVIOUS
<1> HIDE DEF X
<1>. QED  BY <1>1 DEF InTurn, Line, X

\* Pieces in turn have integer speakers.
LEMMA InTurnPieces ==
    ASSUME NEW C \in Vocabularies, NEW k \in Nat, k > 0, NEW pieces \in InTurn(C, k)
    PROVE  pieces \in Seq(Pieces(Int)) /\ Settle(pieces) \in Seq(Pieces(Int))
<1>1. pieces \in Seq(Pieces(Int)) /\ Settle(pieces) \in InTurn(C, k)
  BY InTurnType, SettledInTurn
<1>. QED  BY <1>1, InTurnType

\* Speakers from the diarization leave the pieces in turn.
LEMMA DiarizedInTurn ==
    ASSUME NEW C \in Vocabularies, NEW k \in Nat, k > 0, NEW pieces \in InTurn(C, k),
           NEW diar \in Seq(VoicesOf(Nat \ {0})), diar # <<>>
    PROVE  AssignByDiarization(pieces, diar) \in InTurn(C, k)
<1>1. pieces \in Seq(Pieces(Int)) /\ Nat \ {0} \in SUBSET Nat /\ Nat \ {0} \in SUBSET Int
  BY InTurnPieces
<1>2. PICK label \in [DOMAIN pieces -> Nat \ {0}] :
        AssignByDiarization(pieces, diar) = Settle(Relabelled(pieces, label))
  BY <1>1, DiarizationRelabels
<1>. QED  BY <1>1, <1>2, AssignedInTurn

\* So do speakers from the text.
LEMMA TextedInTurn ==
    ASSUME NEW C \in Vocabularies, NEW k \in Nat, k > 0, NEW pieces \in InTurn(C, k)
    PROVE  AssignByText(pieces) \in InTurn(C, k)
<1>1. pieces \in Seq(Pieces(Int)) /\ {1, 2} \in SUBSET Int
  BY InTurnPieces
<1>2. PICK label \in [DOMAIN pieces -> {1, 2}] : AssignByText(pieces) = Settle(Relabelled(pieces, label))
  BY <1>1, TextRelabels
<1>. QED  BY <1>1, <1>2, AssignedInTurn

\* The turns of words are in turn, at half the pace of the words.
LEMMA WordedInTurn ==
    ASSUME NEW C \in Vocabularies, NEW K \in Nat, K > 0, NEW words \in InTurn(C, 2 * K),
           NEW diar \in Seq(VoicesOf(Nat \ {0})), diar # <<>>
    PROVE  AssignByWords(words, diar) \in InTurn(C, K)
<1> DEFINE pieces == WordTurns(words, diar)
           assigned == AssignByDiarization(DropSystem(SplitByUnits(pieces)), diar)
<1>1. pieces \in InTurn(C, 2 * K)
  <2>1. 2 * K \in Nat /\ Nat \ {0} \in SUBSET Nat
    OBVIOUS
  <2>. QED  BY <2>1, WordTurnsInOrder
<1>2. AssignByWords(words, diar) = IF pieces = <<>> THEN <<>> ELSE Settle(assigned)
  BY DEF AssignByWords
<1> HIDE DEF pieces
<1>3. DropSystem(SplitByUnits(pieces)) \in InTurn(C, K)
  BY <1>1, SplitInTurn, DroppedInTurn
<1>4. assigned \in InTurn(C, K)
  BY <1>3, DiarizedInTurn
<1> HIDE DEF assigned
<1>5. Settle(assigned) \in InTurn(C, K)
  BY <1>4, SettledInTurn
<1>6. <<>> \in InTurn(C, K)
  BY NothingInTurn
<1>. QED  BY <1>2, <1>5, <1>6

\* The labels of the roles leave the pieces in turn.
LEMMA LabelledInTurn ==
    ASSUME NEW C \in Vocabularies, NEW k \in Nat, k > 0, NEW pieces \in InTurn(C, k)
    PROVE  LabelByRole(pieces) \in InTurn(C, k)
<1> DEFINE kept == Kept(pieces, {i \in DOMAIN pieces : ~IsSystem(pieces[i].text)})
<1>1. pieces \in Seq(Pieces(Int)) /\ {1, 2} \in SUBSET Int
  BY InTurnPieces
<1>2. kept \in InTurn(C, k)
  BY KeptInTurn
<1> HIDE DEF kept
<1>3. PICK label \in [DOMAIN kept -> {1, 2}] : LabelByRole(pieces) = Settle(Relabelled(kept, label))
  BY <1>1, RoleRelabels DEF kept
<1>. QED  BY <1>1, <1>2, <1>3, AssignedInTurn

\* The refined labels are those of units, which have half the time of their pieces.
LEMMA RefinedInTurn ==
    ASSUME NEW C \in Vocabularies, NEW K \in Nat, K > 0, NEW pieces \in InTurn(C, 2 * K),
           pieces \in Seq(Pieces({1, 2}))
    PROVE  RefineByText(pieces) \in InTurn(C, K)
<1> DEFINE units == SplitByUnits(pieces)
<1>1. units \in InTurn(C, K) /\ {1, 2} \in SUBSET Int
  BY SplitInTurn
<1>2. PICK label \in [DOMAIN units -> {1, 2}] : RefineByText(pieces) = Settle(Relabelled(units, label))
  BY RefineRelabels
<1> HIDE DEF units
<1>. QED  BY <1>1, <1>2, AssignedInTurn

\* The last cut halves the pace once more.
LEMMA CutInTurn ==
    ASSUME NEW C \in Vocabularies, NEW K \in Nat, K > 0, NEW pieces \in InTurn(C, 2 * K)
    PROVE  SortTurns(SplitByUnits(SortTurns(pieces))) \in InTurn(C, K)
<1>1. 2 * K \in Nat /\ 2 * K > 0
  OBVIOUS
<1>2. SplitByUnits(SortTurns(pieces)) \in InTurn(C, K)
  BY <1>1, SortedInTurn, SplitInTurn
<1>. QED  BY <1>2, SortedInTurn

-----------------------------------------------------------------------------
(* What pieces in turn say *)

\* Their text is in the order of speech.
LEMMA TextInTurn ==
    ASSUME NEW C \in Vocabularies, NEW k \in Nat, NEW pieces \in InTurn(C, k)
    PROVE  TextOf(pieces) \in RisingTexts(C)
<1> DEFINE texts == [i \in DOMAIN pieces |-> pieces[i].text]
<1>1. /\ DOMAIN pieces = 1..Len(pieces) /\ Len(pieces) \in Nat
      /\ \A i \in DOMAIN pieces : pieces[i] \in Paced(C, k)
  BY InTurnType
<1>2. \A i \in DOMAIN pieces : pieces[i] \in Spans /\ pieces[i].text \in RisingTexts(C)
  BY <1>1, TimedIs DEF Paced
<1>3. texts \in Seq(Line(C, IdsRise)) /\ DOMAIN texts = DOMAIN pieces
  BY <1>1, <1>2 DEF RisingTexts
<1>4. ASSUME NEW i \in DOMAIN texts, NEW j \in DOMAIN texts, i < j,
             NEW m \in DOMAIN texts[i], NEW l \in DOMAIN texts[j]
      PROVE  <<texts[i][m], texts[j][l]>> \in IdsRise
  <2>1. <<pieces[i], pieces[j]>> \in Follows
    BY <1>3, <1>4 DEF InTurn, Line
  <2>2. Earlier(pieces[i].text, pieces[j].text)
    BY <1>2, <1>3, <2>1, FollowsIs
  <2>. QED  BY <1>3, <1>4, <2>2 DEF Earlier
<1> HIDE DEF texts
<1>5. FlattenSeq(texts) \in Line(C, IdsRise)
  BY <1>3, <1>4, FlattenLine
<1>. QED  BY <1>5 DEF RisingTexts, TextOf, texts

\* What a channel said is kept of the text.
LEMMA SaidIs ==
    ASSUME NEW c
    PROVE  \E keep : /\ keep = {i \in DOMAIN TextOf(turns) :
                                  TextOf(turns)[i] \in ToSet(TextOf(recording.channels[c]))}
                     /\ Said(c) = Kept(TextOf(turns), keep)
<1> DEFINE text == TextOf(turns)
           spoken == ToSet(TextOf(recording.channels[c]))
           keep == {i \in DOMAIN text : text[i] \in spoken}
<1>1. Said(c) = FlattenSeq([i \in DOMAIN text |-> IF text[i] \in spoken THEN <<text[i]>> ELSE <<>>])
  BY DEF Said, Filter
<1> HIDE DEF text, spoken
<1>2. [i \in DOMAIN text |-> IF text[i] \in spoken THEN <<text[i]>> ELSE <<>>]
        = [i \in DOMAIN text |-> IF i \in keep THEN <<text[i]>> ELSE <<>>]
  OBVIOUS
<1>3. Said(c) = Kept(text, keep)
  BY <1>1, <1>2 DEF Kept
<1>. QED  BY <1>3 DEF text, spoken

\* A text in the order of speech says every channel in that order.
LEMMA RisingIsSaid ==
    ASSUME TextOf(turns) \in RisingTexts(Phrases), NEW c
    PROVE  Rising(Said(c))
<1>1. PICK keep : Said(c) = Kept(TextOf(turns), keep)
  BY SaidIs
<1>2. Said(c) \in Line(Phrases, IdsRise)
  BY <1>1, KeptLine DEF RisingTexts
<1>3. \A i, j \in DOMAIN Said(c) : i < j => <<Said(c)[i], Said(c)[j]>> \in IdsRise
  BY <1>2 DEF Line
<1>. QED  BY <1>3 DEF Rising, IdsRise

\* Pieces in turn have a length, and each ends before the next begins.
LEMMA TimesInTurn ==
    ASSUME NEW C \in Vocabularies, NEW k \in Nat, k > 0, NEW pieces \in InTurn(C, k)
    PROVE  /\ \A i \in DOMAIN pieces : 0 <= pieces[i].from /\ pieces[i].from < pieces[i].to
                                       /\ pieces[i].from <= pieces[i].to
           /\ \A i, j \in DOMAIN pieces : i < j => pieces[i].to <= pieces[j].from
<1>1. \A i \in DOMAIN pieces : pieces[i] \in Paced(C, k) /\ pieces[i] \in Timed(C, k)
  BY InTurnType DEF Paced
<1>2. \A i \in DOMAIN pieces : /\ pieces[i] \in Spans /\ pieces[i].from \in Nat /\ pieces[i].to \in Int
                               /\ pieces[i].from < pieces[i].to
  BY <1>1, PacedIs
<1>3. \A i, j \in DOMAIN pieces : i < j => <<pieces[i], pieces[j]>> \in Follows
  BY DEF InTurn, Line
<1>4. \A i, j \in DOMAIN pieces : i < j => pieces[i].to <= pieces[j].from
  BY <1>2, <1>3, FollowsIs
<1>5. \A i \in DOMAIN pieces : 0 <= pieces[i].from /\ pieces[i].from <= pieces[i].to
  BY <1>2
<1>. QED  BY <1>2, <1>4, <1>5

-----------------------------------------------------------------------------
(* The phrases of a channel *)

HasAll(u, s) == \A i \in DOMAIN s : \E m \in DOMAIN u : u[m] = s[i]

\* Two sequences one after the other have the elements of both.
LEMMA ConcatHasAll ==
    ASSUME NEW X, NEW s \in Seq(X), NEW t \in Seq(X)
    PROVE  HasAll(s \o t, s) /\ HasAll(s \o t, t)
<1>1. /\ DOMAIN s = 1..Len(s) /\ DOMAIN t = 1..Len(t) /\ Len(s) \in Nat /\ Len(t) \in Nat
      /\ DOMAIN (s \o t) = 1..(Len(s) + Len(t))
  OBVIOUS
<1>2. \A i \in 1..Len(s) : i \in 1..(Len(s) + Len(t)) /\ (s \o t)[i] = s[i]
  BY <1>1
<1>3. \A j \in 1..Len(t) : Len(s) + j \in 1..(Len(s) + Len(t)) /\ (s \o t)[Len(s) + j] = t[j]
  BY <1>1
<1>. QED  BY <1>1, <1>2, <1>3 DEF HasAll

\* A flattened sequence has the elements of all its sequences.
LEMMA FlattenHasAll ==
    ASSUME NEW X, NEW s \in Seq(Seq(X)), NEW i \in DOMAIN s, NEW k \in DOMAIN s[i]
    PROVE  \E m \in DOMAIN FlattenSeq(s) : FlattenSeq(s)[m] = s[i][k]
<1> DEFINE n == Len(s)
<1>1. n \in Nat /\ DOMAIN s = 1..n /\ \A j \in 1..n : s[j] \in Seq(X)
  OBVIOUS
<1>2. PICK g \in [0..n -> Seq(X)] : /\ g[0] = <<>> /\ g[n] = FlattenSeq(s)
                                   /\ \A j \in 1..n : g[j] = g[j - 1] \o s[j]
  BY FlattenSteps
<1> HIDE DEF n
<1> DEFINE Carries(j) == \E m \in DOMAIN g[j] : g[j][m] = s[i][k]
           T == {j \in 0..n : i <= j => Carries(j)}
<1>3. 0 \in T
  BY <1>1
<1>4. ASSUME NEW j \in 1..n, j - 1 \in T
      PROVE  j \in T
  <2>1. /\ g[j - 1] \in Seq(X) /\ s[j] \in Seq(X) /\ g[j] = g[j - 1] \o s[j] /\ j \in 0..n
        /\ j - 1 \in 0..n
    <3> HIDE DEF T
    <3>1. j \in 0..n /\ j - 1 \in 0..n
      BY <1>1
    <3>. QED  BY <1>1, <1>2, <3>1
  <2>2. HasAll(g[j], g[j - 1]) /\ HasAll(g[j], s[j])
    BY <2>1, ConcatHasAll
  <2>3. CASE i = j
    <3>1. Carries(j)
      BY <2>2, <2>3 DEF HasAll
    <3>. QED  BY <2>1, <3>1
  <2>4. CASE i <= j - 1
    <3>1. Carries(j - 1)
      BY <1>4, <2>4
    <3>2. Carries(j)
      BY <2>2, <3>1 DEF HasAll
    <3>. QED  BY <2>1, <3>2
  <2>5. CASE i > j
    BY <1>1, <2>1, <2>5
  <2>6. i <= j - 1 \/ i = j \/ i > j
    BY <1>1
  <2>. QED  BY <2>3, <2>4, <2>5, <2>6
<1> HIDE DEF T
<1>5. \A j \in 0..n : j \in T
  BY <1>1, <1>3, <1>4, StepInduction
<1>6. Carries(n)
  <2>1. n \in T /\ i <= n
    BY <1>1, <1>5
  <2>. QED  BY <2>1 DEF T
<1>. QED  BY <1>2, <1>6

\* The phrases of the segments are those of their text.
LEMMA ChannelPhrases ==
    ASSUME NEW segs \in Seq(Segments)
    PROVE  /\ ToSet(TextOf(segs)) \in Vocabularies
           /\ \A i \in DOMAIN segs : \A k \in DOMAIN segs[i].text : segs[i].text[k] \in ToSet(TextOf(segs))
<1> DEFINE texts == [i \in DOMAIN segs |-> segs[i].text]
<1>1. DOMAIN segs = 1..Len(segs) /\ Len(segs) \in Nat /\ \A i \in DOMAIN segs : segs[i] \in Segments
  BY Indices
<1>2. texts \in Seq(Seq(Phrases)) /\ DOMAIN texts = DOMAIN segs
  BY <1>1 DEF Segments, Texts
<1>3. TextOf(segs) = FlattenSeq(texts) /\ \A i \in DOMAIN segs : texts[i] = segs[i].text
  BY DEF TextOf
<1> HIDE DEF texts
<1>4. FlattenSeq(texts) \in Seq(Phrases)
  BY <1>2, FlattenSeqType
<1>5. ToSet(FlattenSeq(texts)) \in Vocabularies
  <2>1. \A m \in DOMAIN FlattenSeq(texts) : FlattenSeq(texts)[m] \in Phrases
    BY <1>4, Indices
  <2>. QED  BY <2>1 DEF ToSet, Vocabularies
<1>6. ASSUME NEW i \in DOMAIN segs, NEW k \in DOMAIN segs[i].text
      PROVE  segs[i].text[k] \in ToSet(TextOf(segs))
  <2>1. i \in DOMAIN texts /\ k \in DOMAIN texts[i]
    BY <1>2, <1>3
  <2>2. \E m \in DOMAIN FlattenSeq(texts) : FlattenSeq(texts)[m] = texts[i][k]
    BY <1>2, <2>1, FlattenHasAll
  <2>. QED  BY <1>3, <2>2 DEF ToSet
<1>. QED  BY <1>3, <1>5, <1>6

-----------------------------------------------------------------------------
(* The turns of two channels *)

\* the phrases of each channel
TwoChannels == {V \in [{1, 2} -> Vocabularies] : V[1] \cap V[2] = {}}

\* the pieces of the channels, each with its channel as the speaker
Voiced(V) == {p \in Pieces(Int) : p.speaker \in {1, 2} /\ p \in Paced(V[p.speaker], 4)}

\* pieces of one speaker are one after the other
Sides == {x \in Spans \X Spans : x[1].speaker = x[2].speaker => x \in Apiece}

\* pieces in the order of their starts, those of one speaker one after the other
Beside ==
    {x \in Spans \X Spans :
        x[1].from <= x[2].from /\ (x[1].speaker = x[2].speaker => x \in Follows)}

\* What a piece of a channel is.
LEMMA VoicedIs ==
    ASSUME NEW V \in TwoChannels, NEW p \in Voiced(V)
    PROVE  /\ p.speaker \in {1, 2} /\ V[p.speaker] \in Vocabularies /\ p \in Paced(V[p.speaker], 4)
           /\ p \in Spans /\ p \in Pieces(Int) /\ p.from \in Nat /\ p.to \in Int /\ p.from < p.to
           /\ p.text \in RisingTexts(V[p.speaker]) /\ p.text \in Texts
           /\ \A i \in DOMAIN p.text : p.text[i] \in V[p.speaker]
<1> DEFINE C == V[p.speaker]
<1>1. p.speaker \in {1, 2} /\ C \in Vocabularies /\ p \in Paced(C, 4) /\ p \in Pieces(Int)
  BY DEF Voiced, TwoChannels
<1> HIDE DEF C
<1>2. p \in Timed(C, 4) /\ 4 \in Nat /\ 4 > 0
  BY <1>1 DEF Paced
<1>3. /\ p \in Spans /\ p.from \in Nat /\ p.to \in Int /\ p.from < p.to
      /\ p.text \in RisingTexts(C) /\ p.text \in Texts
      /\ \A i \in DOMAIN p.text : p.text[i] \in C
  BY <1>1, <1>2, PacedIs
<1>. QED  BY <1>1, <1>3 DEF C

\* The order of such pieces is that of their times.
LEMMA BesideSorts ==
    ASSUME NEW V \in TwoChannels
    PROVE  /\ Sortable(Voiced(V), Sides, Beside)
           /\ Line(Voiced(V), Beside) \subseteq Tangle(Voiced(V), Sides)
<1>1. Voiced(V) \subseteq Pieces(Int)
  BY DEF Voiced
<1>2. ASSUME NEW p \in Voiced(V), NEW q \in Voiced(V), <<p, q>> \in Sides, p.from <= q.from
      PROVE  <<p, q>> \in Beside
  <2>1. /\ p \in Spans /\ p.from \in Nat /\ p.to \in Int /\ p.from < p.to
        /\ q \in Spans /\ q.from \in Nat /\ q.to \in Int /\ q.from < q.to
    BY VoicedIs
  <2>2. ASSUME p.speaker = q.speaker
        PROVE  <<p, q>> \in Follows
    <3>1. <<p, q>> \in Follows \/ <<q, p>> \in Follows
      BY <1>2, <2>2 DEF Sides, Apiece
    <3>. QED  BY <1>2, <2>1, <3>1, FollowsIs
  <2>. QED  BY <1>2, <2>1, <2>2 DEF Beside
<1>3. ASSUME NEW s \in Line(Voiced(V), Beside)
      PROVE  s \in Tangle(Voiced(V), Sides)
  <2>1. s \in Seq(Voiced(V))
    BY DEF Line
  <2>2. DOMAIN s \in SUBSET Int /\ \A i \in DOMAIN s : s[i] \in Voiced(V)
    BY <2>1, Indices
  <2>3. ASSUME NEW i \in DOMAIN s, NEW j \in DOMAIN s, i # j
        PROVE  <<s[i], s[j]>> \in Sides
    <3>1. i < j \/ j < i
      BY <2>2, <2>3
    <3>2. <<s[i], s[j]>> \in Beside \/ <<s[j], s[i]>> \in Beside
      BY <3>1 DEF Line
    <3>3. s[i] \in Spans /\ s[j] \in Spans
      BY <2>2, VoicedIs
    <3>. QED  BY <3>2, <3>3 DEF Beside, Sides, Apiece
  <2>. QED  BY <2>1, <2>3 DEF Tangle
<1>. QED  BY <1>1, <1>2, <1>3 DEF Sortable

\* The merge rule joins pieces of one speaker, which follow each other.
LEMMA BesideMerges ==
    ASSUME NEW V \in TwoChannels
    PROVE  MergesWell(Voiced(V), Beside)
<1>1. ASSUME NEW p \in Voiced(V), NEW q \in Voiced(V), <<p, q>> \in Beside, CanMerge(p, q)
      PROVE  Joined(p, q) \in Voiced(V) /\ Between(Joined(p, q), p, q, Voiced(V), Beside)
  <2> DEFINE C == V[p.speaker]
             j == Joined(p, q)
  <2>1. /\ p.speaker = q.speaker /\ p.speaker \in {1, 2} /\ C \in Vocabularies
        /\ p \in Paced(C, 4) /\ q \in Paced(C, 4) /\ p \in Spans /\ q \in Spans
        /\ p.from \in Nat /\ q.from \in Nat
    BY <1>1, VoicedIs DEF CanMerge
  <2>2. <<p, q>> \in Follows /\ p.from <= q.from
    BY <1>1, <2>1 DEF Beside
  <2> HIDE DEF C, j
  <2>3. /\ j \in Paced(C, 4) /\ j.speaker = p.speaker /\ j.from = p.from
        /\ Between(j, p, q, Paced(C, 4), Follows)
    <3>1. 4 \in Nat
      OBVIOUS
    <3>. QED  BY <2>1, <2>2, <3>1, JoinFollowing DEF j
  <2>4. j \in Pieces(Int) /\ j \in Spans
    <3>1. j \in Timed(C, 4) /\ 4 \in Nat
      BY <2>3 DEF Paced
    <3>. QED  BY <2>1, <2>3, <3>1, PacedIs
  <2>5. j \in Voiced(V)
    BY <2>1, <2>3, <2>4 DEF Voiced, C
  <2>6. ASSUME NEW o \in Voiced(V)
        PROVE  /\ <<o, p>> \in Beside /\ <<o, q>> \in Beside => <<o, j>> \in Beside
               /\ <<p, o>> \in Beside /\ <<q, o>> \in Beside => <<j, o>> \in Beside
    <3>1. o \in Spans /\ o.from \in Nat /\ (o.speaker = p.speaker => o \in Paced(C, 4))
      BY VoicedIs DEF C
    <3>2. ASSUME <<o, p>> \in Beside, <<o, q>> \in Beside
          PROVE  <<o, j>> \in Beside
      <4>1. o.from <= j.from
        BY <2>3, <3>2 DEF Beside
      <4>2. o.speaker = j.speaker => <<o, j>> \in Follows
        BY <2>1, <2>3, <3>1, <3>2 DEF Beside, Between
      <4>. QED  BY <2>4, <3>1, <4>1, <4>2 DEF Beside
    <3>3. ASSUME <<p, o>> \in Beside, <<q, o>> \in Beside
          PROVE  <<j, o>> \in Beside
      <4>1. j.from <= o.from
        BY <2>3, <3>3 DEF Beside
      <4>2. o.speaker = j.speaker => <<j, o>> \in Follows
        BY <2>1, <2>3, <3>1, <3>3 DEF Beside, Between
      <4>. QED  BY <2>4, <3>1, <4>1, <4>2 DEF Beside
    <3>. QED  BY <3>2, <3>3
  <2>7. Between(j, p, q, Voiced(V), Beside)
    BY <2>6 DEF Between
  <2>. QED  BY <2>5, <2>7 DEF j
<1>2. Voiced(V) \subseteq Pieces(Int)
  BY DEF Voiced
<1>. QED  BY <1>1, <1>2 DEF MergesWell

\* phrases that are in the order of speech if one channel says both
InChannel(V) ==
    {x \in Phrases \X Phrases : \A c \in {1, 2} : x[1] \in V[c] /\ x[2] \in V[c] => x[1].id < x[2].id}

\* pieces that say the phrases of each channel in order
Told(V) == {p \in Pieces(Int) : p.text \in Line(Phrases, InChannel(V))}

\* a text and a later one, for each of the channels
LaterTexts(V, s, t) == \A i \in DOMAIN s, j \in DOMAIN t : <<s[i], t[j]>> \in InChannel(V)

After(V) == {x \in Spans \X Spans : LaterTexts(V, x[1].text, x[2].text)}

\* pieces that sorting brings in order
Ordered(V) == {x \in Spans \X Spans : x[1].from <= x[2].from => x \in After(V)}

\* Joined pieces are a piece.
LEMMA JoinedIs ==
    ASSUME NEW p \in Pieces(Int), NEW q \in Pieces(Int)
    PROVE  /\ Joined(p, q) \in Pieces(Int)
           /\ Joined(p, q).from = p.from /\ Joined(p, q).to = Larger(p.to, q.to)
           /\ Joined(p, q).text = p.text \o q.text /\ p.text \in Seq(Phrases) /\ q.text \in Seq(Phrases)
<1> DEFINE j == Joined(p, q)
           text == p.text \o q.text
           end == Larger(p.to, q.to)
<1>1. /\ p \in [speaker : Int, from : Int, to : Int, text : Texts]
      /\ p.text \in Seq(Phrases) /\ q.text \in Seq(Phrases) /\ p.text # <<>> /\ q.to \in Int
  BY DEF Pieces, Texts
<1>2. text \in Texts \ {<<>>} /\ end \in Int
  <2>1. text \in Seq(Phrases) /\ text # <<>>
    BY <1>1
  <2>2. end \in Int
    BY <1>1 DEF Larger
  <2>. QED  BY <2>1, <2>2 DEF Texts
<1>3. j = [p EXCEPT !.to = end, !.text = text]
  BY DEF Joined
<1> HIDE DEF j, text, end
<1>4. j.from = p.from /\ j.to = end /\ j.text = text /\ j \in Pieces(Int)
  BY <1>1, <1>2, <1>3 DEF Pieces
<1>. QED  BY <1>1, <1>4 DEF j, text, end

\* What a told piece is.
LEMMA ToldIs ==
    ASSUME NEW V, NEW p \in Told(V)
    PROVE  /\ p \in Pieces(Int) /\ p \in Spans /\ p.text \in Line(Phrases, InChannel(V))
           /\ p.from \in Int
BY DEF Told, Pieces, Spans, Texts

\* Two texts one after the other, in order.
LEMMA ToldTexts ==
    ASSUME NEW V, NEW s \in Line(Phrases, InChannel(V)), NEW t \in Line(Phrases, InChannel(V)),
           LaterTexts(V, s, t)
    PROVE  /\ s \o t \in Line(Phrases, InChannel(V))
           /\ \A u : /\ LaterTexts(V, u, s) /\ LaterTexts(V, u, t) => LaterTexts(V, u, s \o t)
                     /\ LaterTexts(V, s, u) /\ LaterTexts(V, t, u) => LaterTexts(V, s \o t, u)
<1> DEFINE R == InChannel(V)
           st == s \o t
<1>1. \A i \in DOMAIN s, j \in DOMAIN t : <<s[i], t[j]>> \in R
  BY DEF LaterTexts
<1> HIDE DEF R
<1>2. /\ st \in Line(Phrases, R)
      /\ \A k \in DOMAIN st : (\E i \in DOMAIN s : st[k] = s[i]) \/ (\E j \in DOMAIN t : st[k] = t[j])
  BY <1>1, LineConcat DEF R
<1> HIDE DEF st
<1>3. ASSUME NEW u, LaterTexts(V, u, s), LaterTexts(V, u, t)
      PROVE  LaterTexts(V, u, st)
  BY <1>2, <1>3 DEF LaterTexts
<1>4. ASSUME NEW u, LaterTexts(V, s, u), LaterTexts(V, t, u)
      PROVE  LaterTexts(V, st, u)
  BY <1>2, <1>4 DEF LaterTexts
<1>. QED  BY <1>2, <1>3, <1>4 DEF st, R

\* Told pieces are merged well, whoever speaks.
LEMMA AfterMerges ==
    ASSUME NEW V
    PROVE  MergesWell(Told(V), After(V)) /\ Sortable(Told(V), Ordered(V), After(V))
<1>1. Told(V) \subseteq Pieces(Int)
  BY DEF Told
<1>2. ASSUME NEW p \in Told(V), NEW q \in Told(V), <<p, q>> \in After(V)
      PROVE  Joined(p, q) \in Told(V) /\ Between(Joined(p, q), p, q, Told(V), After(V))
  <2> DEFINE j == Joined(p, q)
             s == p.text
             t == q.text
             st == s \o t
  <2>1. /\ j \in Pieces(Int) /\ j.text = st /\ p \in Spans /\ q \in Spans
        /\ s \in Line(Phrases, InChannel(V)) /\ t \in Line(Phrases, InChannel(V))
    BY ToldIs, JoinedIs
  <2>2. LaterTexts(V, s, t)
    BY <1>2 DEF After
  <2> HIDE DEF j, s, t
  <2>3. /\ st \in Line(Phrases, InChannel(V))
        /\ \A u : /\ LaterTexts(V, u, s) /\ LaterTexts(V, u, t) => LaterTexts(V, u, st)
                  /\ LaterTexts(V, s, u) /\ LaterTexts(V, t, u) => LaterTexts(V, st, u)
    BY <2>1, <2>2, ToldTexts
  <2> HIDE DEF st
  <2>4. j \in Told(V) /\ j \in Spans
    BY <2>1, <2>3 DEF Told, Pieces, Spans
  <2>5. ASSUME NEW o \in Told(V)
        PROVE  /\ <<o, p>> \in After(V) /\ <<o, q>> \in After(V) => <<o, j>> \in After(V)
               /\ <<p, o>> \in After(V) /\ <<q, o>> \in After(V) => <<j, o>> \in After(V)
    <3>1. o \in Spans
      BY ToldIs
    <3>2. ASSUME <<o, p>> \in After(V), <<o, q>> \in After(V)
          PROVE  <<o, j>> \in After(V)
      <4>1. LaterTexts(V, o.text, s) /\ LaterTexts(V, o.text, t)
        BY <3>2 DEF After, s, t
      <4>. QED  BY <2>1, <2>3, <2>4, <3>1, <4>1 DEF After
    <3>3. ASSUME <<p, o>> \in After(V), <<q, o>> \in After(V)
          PROVE  <<j, o>> \in After(V)
      <4>1. LaterTexts(V, s, o.text) /\ LaterTexts(V, t, o.text)
        BY <3>3 DEF After, s, t
      <4>. QED  BY <2>1, <2>3, <2>4, <3>1, <4>1 DEF After
    <3>. QED  BY <3>2, <3>3
  <2>6. Between(j, p, q, Told(V), After(V))
    BY <2>5 DEF Between
  <2>. QED  BY <2>4, <2>6 DEF j
<1>3. MergesWell(Told(V), After(V))
  BY <1>1, <1>2 DEF MergesWell
<1>4. Sortable(Told(V), Ordered(V), After(V))
  BY <1>1 DEF Sortable, Ordered
<1>. QED  BY <1>3, <1>4

\* Pieces of the channels in the order of their starts are told in order.
LEMMA BesideIsAfter ==
    ASSUME NEW V \in TwoChannels, NEW p \in Voiced(V), NEW q \in Voiced(V), <<p, q>> \in Beside
    PROVE  <<p, q>> \in After(V)
<1>1. /\ p.speaker \in {1, 2} /\ p \in Spans /\ p.text \in Texts
      /\ \A i \in DOMAIN p.text : p.text[i] \in V[p.speaker]
      /\ q.speaker \in {1, 2} /\ q \in Spans /\ q.text \in Texts
      /\ \A i \in DOMAIN q.text : q.text[i] \in V[q.speaker]
  BY VoicedIs
<1>2. ASSUME NEW i \in DOMAIN p.text, NEW j \in DOMAIN q.text
      PROVE  <<p.text[i], q.text[j]>> \in InChannel(V)
  <2> DEFINE u == p.text[i]
             v == q.text[j]
  <2>1. u \in V[p.speaker] /\ v \in V[q.speaker] /\ u \in Phrases /\ v \in Phrases
    BY <1>1, Indices DEF Texts
  <2>2. CASE p.speaker = q.speaker
    <3>1. <<p, q>> \in Follows
      BY <2>2 DEF Beside
    <3>2. Earlier(p.text, q.text)
      BY <1>1, <3>1, FollowsIs
    <3>3. u.id < v.id
      BY <3>2 DEF Earlier, IdsRise
    <3> HIDE DEF u, v
    <3>. QED  BY <2>1, <3>3 DEF InChannel, u, v
  <2>3. CASE p.speaker # q.speaker
    <3>1. V[1] \cap V[2] = {}
      BY DEF TwoChannels
    <3> HIDE DEF u, v
    <3>2. \A c \in {1, 2} : ~(u \in V[c] /\ v \in V[c])
      BY <1>1, <2>1, <2>3, <3>1
    <3>. QED  BY <2>1, <3>2 DEF InChannel, u, v
  <2>. QED  BY <2>2, <2>3
<1>3. LaterTexts(V, p.text, q.text)
  BY <1>2 DEF LaterTexts
<1>. QED  BY <1>1, <1>3 DEF After

\* Pieces of the channels in order are told in order, with any speakers once they are sorted.
LEMMA VoicedAreTold ==
    ASSUME NEW V \in TwoChannels, NEW pieces \in Line(Voiced(V), Beside)
    PROVE  /\ pieces \in Line(Told(V), After(V)) /\ pieces \in Seq(Pieces(Int))
           /\ \A label \in [DOMAIN pieces -> Int] : Relabelled(pieces, label) \in Tangle(Told(V), Ordered(V))
<1>1. pieces \in Seq(Voiced(V))
  BY DEF Line
<1>2. /\ DOMAIN pieces = 1..Len(pieces) /\ Len(pieces) \in Nat
      /\ \A i \in DOMAIN pieces : pieces[i] \in Voiced(V)
  BY <1>1, Indices
<1>3. ASSUME NEW p \in Voiced(V)
      PROVE  p \in Told(V) /\ p \in Pieces(Int) /\ p \in Spans
  <2>1. /\ p \in Pieces(Int) /\ p \in Spans /\ p.text \in RisingTexts(V[p.speaker])
        /\ V[p.speaker] \in Vocabularies
    BY VoicedIs
  <2>2. p.text \in Seq(Phrases)
    BY <2>1 DEF Pieces, Texts
  <2>3. \A i, j \in DOMAIN p.text : i < j => <<p.text[i], p.text[j]>> \in IdsRise
    BY <2>1 DEF RisingTexts, Line
  <2>4. IdsRise \subseteq InChannel(V)
    BY DEF IdsRise, InChannel
  <2>5. p.text \in Line(Phrases, InChannel(V))
    <3> DEFINE s == p.text
               R == InChannel(V)
    <3>1. s \in Seq(Phrases) /\ \A i, j \in DOMAIN s : i < j => <<s[i], s[j]>> \in R
      BY <2>2, <2>3, <2>4
    <3> HIDE DEF s, R
    <3>. QED  BY <3>1 DEF Line, s, R
  <2>. QED  BY <2>1, <2>5 DEF Told
<1>4. pieces \in Seq(Told(V)) /\ pieces \in Seq(Pieces(Int))
  <2>1. pieces = [i \in 1..Len(pieces) |-> pieces[i]]
    BY <1>1, <1>2
  <2>2. \A i \in 1..Len(pieces) : pieces[i] \in Told(V) /\ pieces[i] \in Pieces(Int)
    BY <1>2, <1>3
  <2>. QED  BY <1>2, <2>1, <2>2
<1>5. \A i, j \in DOMAIN pieces : i < j => <<pieces[i], pieces[j]>> \in After(V)
  <2>1. \A i, j \in DOMAIN pieces : i < j => <<pieces[i], pieces[j]>> \in Beside
    BY DEF Line
  <2>. QED  BY <1>2, <2>1, BesideIsAfter
<1>6. pieces \in Line(Told(V), After(V))
  BY <1>4, <1>5 DEF Line
<1>7. ASSUME NEW i \in DOMAIN pieces, NEW j \in DOMAIN pieces, i # j,
             pieces[i].from <= pieces[j].from
      PROVE  <<pieces[i], pieces[j]>> \in After(V)
  <2>1. pieces \in Tangle(Voiced(V), Sides) /\ Sortable(Voiced(V), Sides, Beside)
    BY BesideSorts
  <2>2. <<pieces[i], pieces[j]>> \in Sides
    BY <1>7, <2>1 DEF Tangle
  <2>3. <<pieces[i], pieces[j]>> \in Beside
    BY <1>2, <1>7, <2>1, <2>2 DEF Sortable
  <2>. QED  BY <1>2, <2>3, BesideIsAfter
<1>8. ASSUME NEW label \in [DOMAIN pieces -> Int]
      PROVE  Relabelled(pieces, label) \in Tangle(Told(V), Ordered(V))
  <2> DEFINE new == Relabelled(pieces, label)
  <2>1. /\ new \in Seq(Pieces(Int)) /\ Len(new) = Len(pieces)
        /\ \A k \in DOMAIN pieces : new[k].from = pieces[k].from /\ new[k].text = pieces[k].text
    <3>1. new \in Seq(Pieces(Int)) /\ Len(new) = Len(pieces)
      BY <1>4, RelabelledIs
    <3>2. \A k \in DOMAIN pieces : new[k].from = pieces[k].from /\ new[k].text = pieces[k].text
      <4>1. \A k \in DOMAIN pieces : pieces[k] \in [speaker : Int, from : Int, to : Int, text : Texts]
        <5>1. \A k \in DOMAIN pieces : pieces[k] \in Pieces(Int)
          BY <1>4, Indices
        <5>. QED  BY <5>1 DEF Pieces
      <4>. QED  BY <4>1 DEF Relabelled
    <3>. QED  BY <3>1, <3>2
  <2> HIDE DEF new
  <2>2. /\ DOMAIN new = DOMAIN pieces /\ DOMAIN new = 1..Len(new) /\ Len(new) \in Nat
        /\ \A k \in DOMAIN new : new[k] \in Pieces(Int)
    BY <1>2, <2>1, Indices
  <2>3. ASSUME NEW k \in DOMAIN new
        PROVE  new[k] \in Told(V)
    <3>1. pieces[k].text \in Line(Phrases, InChannel(V))
      BY <1>2, <1>3, <2>2 DEF Told
    <3>. QED  BY <2>1, <2>2, <3>1 DEF Told
  <2>4. new \in Seq(Told(V))
    <3>1. new = [k \in 1..Len(new) |-> new[k]]
      BY <2>1, <2>2
    <3>. QED  BY <2>2, <2>3, <3>1
  <2>5. ASSUME NEW i \in DOMAIN new, NEW j \in DOMAIN new, i # j
        PROVE  <<new[i], new[j]>> \in Ordered(V)
    <3>1. new[i] \in Spans /\ new[j] \in Spans
      BY <2>3, ToldIs
    <3>2. ASSUME new[i].from <= new[j].from
          PROVE  <<new[i], new[j]>> \in After(V)
      <4>1. <<pieces[i], pieces[j]>> \in After(V)
        BY <1>7, <2>1, <2>2, <2>5, <3>2
      <4>2. LaterTexts(V, pieces[i].text, pieces[j].text)
        BY <4>1 DEF After
      <4>3. LaterTexts(V, new[i].text, new[j].text)
        BY <2>1, <2>2, <4>2
      <4>. QED  BY <3>1, <4>3 DEF After
    <3>. QED  BY <3>1, <3>2 DEF Ordered
  <2>. QED  BY <2>4, <2>5 DEF Tangle, new
<1>. QED  BY <1>4, <1>6, <1>8

\* Sorted, merged, smoothed and merged again, the turns of the channels are told in order.
LEMMA SettledInOrder ==
    ASSUME NEW V \in TwoChannels, NEW pieces \in Tangle(Voiced(V), Sides)
    PROVE  Settle(SortTurns(pieces)) \in Line(Told(V), After(V))
<1> DEFINE sorted == SortTurns(pieces)
           merged == MergeTurns(sorted)
<1>1. /\ Sortable(Voiced(V), Sides, Beside) /\ MergesWell(Voiced(V), Beside)
      /\ Line(Voiced(V), Beside) \subseteq Tangle(Voiced(V), Sides)
  BY BesideSorts, BesideMerges
<1>2. sorted \in Line(Voiced(V), Beside)
  BY <1>1, SortedLine
<1>3. sorted \in Seq(Pieces(Int))
  BY <1>2, VoicedAreTold
<1>4. SortTurns(sorted) \in Line(Voiced(V), Beside)
  BY <1>1, <1>2, SortedLine
<1> HIDE DEF sorted
<1>5. merged \in Line(Voiced(V), Beside)
  BY <1>1, <1>3, <1>4, MergeLine
<1> HIDE DEF merged
<1>6. /\ merged \in Line(Told(V), After(V)) /\ merged \in Seq(Pieces(Int))
      /\ \A label \in [DOMAIN merged -> Int] : Relabelled(merged, label) \in Tangle(Told(V), Ordered(V))
  BY <1>5, VoicedAreTold
<1>7. PICK label \in [DOMAIN merged -> Int] :
        SmoothTurns(merged) = IF Len(merged) < 3 THEN merged ELSE MergeTurns(Relabelled(merged, label))
  BY <1>6, SmoothRelabels, Int \in SUBSET Int
<1> DEFINE new == Relabelled(merged, label)
<1>8. new \in Tangle(Told(V), Ordered(V)) /\ new \in Seq(Pieces(Int))
  BY <1>6, RelabelledIs
<1> HIDE DEF new
<1>9. SortTurns(new) \in Line(Told(V), After(V))
  BY <1>8, AfterMerges, SortedLine
<1>10. MergeTurns(new) \in Line(Told(V), After(V))
  BY <1>8, <1>9, AfterMerges, MergeLine
<1>. QED  BY <1>6, <1>7, <1>10 DEF Settle, merged, sorted, new

\* Told in order, the text has the phrases of each channel in order.
LEMMA TextIsTold ==
    ASSUME NEW V, NEW pieces \in Line(Told(V), After(V))
    PROVE  TextOf(pieces) \in Line(Phrases, InChannel(V))
<1> DEFINE texts == [i \in DOMAIN pieces |-> pieces[i].text]
           R == InChannel(V)
<1>1. pieces \in Seq(Told(V))
  BY DEF Line
<1>2. /\ DOMAIN pieces = 1..Len(pieces) /\ Len(pieces) \in Nat
      /\ \A i \in DOMAIN pieces : pieces[i] \in Told(V)
  BY <1>1, Indices
<1>3. \A i \in DOMAIN pieces : pieces[i].text \in Line(Phrases, R)
  BY <1>2, ToldIs
<1> HIDE DEF R
<1>4. texts \in Seq(Line(Phrases, R)) /\ DOMAIN texts = DOMAIN pieces
  BY <1>2, <1>3
<1>5. ASSUME NEW i \in DOMAIN texts, NEW j \in DOMAIN texts, i < j,
             NEW m \in DOMAIN texts[i], NEW l \in DOMAIN texts[j]
      PROVE  <<texts[i][m], texts[j][l]>> \in R
  <2>1. <<pieces[i], pieces[j]>> \in After(V)
    BY <1>4, <1>5 DEF Line
  <2>2. LaterTexts(V, pieces[i].text, pieces[j].text)
    BY <2>1 DEF After
  <2>. QED  BY <1>4, <1>5, <2>2 DEF LaterTexts, R
<1> HIDE DEF texts
<1>6. FlattenSeq(texts) \in Line(Phrases, R)
  BY <1>4, <1>5, FlattenLine
<1>. QED  BY <1>6 DEF TextOf, texts, R

\* What each channel said is in order then.
LEMMA ToldIsSaid ==
    ASSUME NEW V, TextOf(turns) \in Line(Phrases, InChannel(V)), NEW c \in {1, 2},
           V[c] = ToSet(TextOf(recording.channels[c]))
    PROVE  Rising(Said(c))
<1> DEFINE text == TextOf(turns)
           R == InChannel(V)
<1>1. PICK keep : /\ keep = {i \in DOMAIN text : text[i] \in V[c]}
                  /\ Said(c) = Kept(text, keep)
  BY SaidIs
<1>0. text \in Line(Phrases, R)
  OBVIOUS
<1> HIDE DEF text, R
<1>2. /\ Said(c) \in Line(Phrases, R)
      /\ \A m \in DOMAIN Said(c) : \E i \in DOMAIN text : i \in keep /\ Said(c)[m] = text[i]
  <2>1. /\ Kept(text, keep) \in Line(Phrases, R)
        /\ \A m \in DOMAIN Kept(text, keep) : \E i \in DOMAIN text : i \in keep /\ Kept(text, keep)[m] = text[i]
    BY <1>0, KeptLine
  <2>. QED  BY <1>1, <2>1
<1>3. \A m \in DOMAIN Said(c) : Said(c)[m] \in V[c]
  BY <1>1, <1>2
<1>4. \A i, j \in DOMAIN Said(c) : i < j => <<Said(c)[i], Said(c)[j]>> \in R
  BY <1>2 DEF Line
<1>5. \A i, j \in DOMAIN Said(c) : i < j => Said(c)[i].id < Said(c)[j].id
  <2> HIDE DEF R
  <2>1. \A x \in R : x[1] \in V[c] /\ x[2] \in V[c] => x[1].id < x[2].id
    BY DEF R, InChannel
  <2>. QED  BY <1>3, <1>4, <2>1
<1>. QED  BY <1>5 DEF Rising

-----------------------------------------------------------------------------
(* What is heard of two channels *)

\* the phrases of the recording's channels
ChannelVoices == [c \in {1, 2} |-> ToSet(TextOf(recording.channels[c]))]

OfChannel(c, pieces) == [k \in DOMAIN pieces |-> [pieces[k] EXCEPT !.speaker = c]]

\* The channels say different phrases, and what is prepared of each is in turn.
LEMMA ChannelPieces ==
    ASSUME SegmentsInTurn, recording \in Recordings, IsRecording(recording), Len(recording.channels) = 2
    PROVE  /\ ChannelVoices \in TwoChannels
           /\ \A c \in {1, 2} : Prepare(recording.channels[c]) \in InTurn(ChannelVoices[c], 4)
<1>1. ASSUME NEW c \in {1, 2}
      PROVE  /\ c \in DOMAIN recording.channels /\ recording.channels[c] \in Seq(Segments)
             /\ ChannelInTurn(recording.channels[c])
  <2>1. recording.channels \in Seq(Seq(Segments)) /\ DOMAIN recording.channels = 1..2
    BY DEF IsRecording
  <2>2. c \in DOMAIN recording.channels
    BY <2>1
  <2>. QED  BY <2>1, <2>2, ChannelsInTurn
<1>2. ASSUME NEW c \in {1, 2}
      PROVE  ChannelVoices[c] \in Vocabularies
  BY <1>1, ChannelPhrases DEF ChannelVoices
<1>3. ChannelVoices[1] \cap ChannelVoices[2] = {}
  <2>1. 1 \in DOMAIN recording.channels /\ 2 \in DOMAIN recording.channels \ {1}
    BY <1>1
  <2>2. ToSet(TextOf(recording.channels[1])) \cap ToSet(TextOf(recording.channels[2])) = {}
    BY <2>1 DEF SegmentsInTurn
  <2>. QED  BY <2>2 DEF ChannelVoices
<1>4. ChannelVoices \in TwoChannels
  <2>1. ChannelVoices \in [{1, 2} -> Vocabularies]
    <3>1. ChannelVoices = [c \in {1, 2} |-> ChannelVoices[c]]
      BY DEF ChannelVoices
    <3>. QED  BY <1>2, <3>1
  <2>. QED  BY <1>3, <2>1 DEF TwoChannels
<1>5. ASSUME NEW c \in {1, 2}
      PROVE  Prepare(recording.channels[c]) \in InTurn(ChannelVoices[c], 4)
  <2> DEFINE segs == recording.channels[c]
             C == ToSet(TextOf(segs))
  <2>1. segs \in Seq(Segments) /\ ChannelInTurn(segs)
    BY <1>1
  <2>2. C = ChannelVoices[c]
    BY DEF ChannelVoices
  <2> HIDE DEF segs
  <2>3. C \in Vocabularies /\ \A i \in DOMAIN segs : \A k \in DOMAIN segs[i].text : segs[i].text[k] \in C
    BY <2>1, ChannelPhrases
  <2> HIDE DEF C
  <2>4. segs \in Line(Spelled(C), Follows)
    BY <2>1, <2>3, SegmentsAreTimed
  <2>5. Prepare(segs) \in InTurn(C, 4)
    BY <2>3, <2>4, PreparedInTurn
  <2>. QED  BY <2>2, <2>5 DEF segs
<1>. QED  BY <1>4, <1>5

\* The pieces of a channel, with the channel as their speaker.
LEMMA OfChannelIs ==
    ASSUME NEW V \in TwoChannels, NEW c \in {1, 2}, NEW pieces \in InTurn(V[c], 4)
    PROVE  /\ OfChannel(c, pieces) \in Line(Voiced(V), Sides)
           /\ \A k \in DOMAIN OfChannel(c, pieces) : OfChannel(c, pieces)[k].speaker = c
<1> DEFINE label == [k \in DOMAIN pieces |-> c]
           new == OfChannel(c, pieces)
           C == V[c]
<1>1. C \in Vocabularies /\ 4 \in Nat /\ label \in [DOMAIN pieces -> Int] /\ pieces \in InTurn(C, 4)
  BY DEF TwoChannels
<1>2. new = Relabelled(pieces, label)
  BY DEF OfChannel, Relabelled
<1>3. pieces \in Seq(Pieces(Int)) /\ \A k \in DOMAIN pieces : pieces[k] \in Pieces(Int)
  <2> HIDE DEF C
  <2>1. pieces \in Seq(Pieces(Int))
    BY <1>1, InTurnType
  <2>. QED  BY <2>1, Indices
<1>4. DOMAIN new = DOMAIN pieces /\ \A k \in DOMAIN new : new[k].speaker = c
  BY <1>3 DEF OfChannel, Pieces
<1> HIDE DEF label, C, new
<1>5. new \in InTurn(C, 4)
  BY <1>1, <1>2, RelabelledInTurn
<1>6. /\ DOMAIN new = 1..Len(new) /\ Len(new) \in Nat /\ new \in Seq(Pieces(Int))
      /\ \A k \in DOMAIN new : new[k] \in Paced(C, 4) /\ new[k] \in Pieces(Int)
  <2>1. /\ DOMAIN new = 1..Len(new) /\ Len(new) \in Nat /\ new \in Seq(Pieces(Int))
        /\ \A k \in DOMAIN new : new[k] \in Paced(C, 4)
    BY <1>1, <1>5, InTurnType
  <2>. QED  BY <2>1, Indices
<1>7. ASSUME NEW k \in DOMAIN new
      PROVE  new[k] \in Voiced(V) /\ new[k] \in Spans
  <2>1. new[k] \in Voiced(V)
    BY <1>4, <1>6 DEF Voiced, C
  <2>. QED  BY <2>1, VoicedIs
<1>8. new \in Seq(Voiced(V))
  <2>1. new = [k \in 1..Len(new) |-> new[k]]
    BY <1>6
  <2>. QED  BY <1>6, <1>7, <2>1
<1>9. \A i, j \in DOMAIN new : i < j => <<new[i], new[j]>> \in Sides
  <2>1. \A i, j \in DOMAIN new : i < j => <<new[i], new[j]>> \in Follows
    BY <1>5 DEF InTurn, Line
  <2>. QED  BY <1>7, <2>1 DEF Sides, Apiece
<1>. QED  BY <1>4, <1>8, <1>9 DEF Line, new

\* The turns of two channels.
LEMMA ChannelTurnsAreVoiced ==
    ASSUME SegmentsInTurn, recording \in Recordings, IsRecording(recording), Len(recording.channels) = 2
    PROVE  ChannelVoices \in TwoChannels /\ ChannelTurns \in Tangle(Voiced(ChannelVoices), Sides)
<1> DEFINE V == ChannelVoices
           X == Voiced(V)
           s == OfChannel(1, Prepare(recording.channels[1]))
           t == OfChannel(2, Prepare(recording.channels[2]))
           st == s \o t
<1>1. V \in TwoChannels /\ \A c \in {1, 2} : Prepare(recording.channels[c]) \in InTurn(V[c], 4)
  BY ChannelPieces
<1>2. ChannelTurns = st
  BY DEF ChannelTurns, OfChannel
<1> HIDE DEF V
<1>3. /\ s \in Line(X, Sides) /\ \A k \in DOMAIN s : s[k].speaker = 1
      /\ t \in Line(X, Sides) /\ \A k \in DOMAIN t : t[k].speaker = 2
  BY <1>1, OfChannelIs
<1> HIDE DEF s, t, X
<1>4. ASSUME NEW i \in DOMAIN s, NEW j \in DOMAIN t
      PROVE  <<s[i], t[j]>> \in Sides
  <2>1. s[i] \in X /\ t[j] \in X
    <3>1. s \in Seq(X) /\ t \in Seq(X)
      BY <1>3 DEF Line
    <3>. QED  BY <3>1, Indices
  <2>2. s[i] \in Spans /\ t[j] \in Spans
    BY <1>1, <2>1, VoicedIs DEF X
  <2>. QED  BY <1>3, <2>2 DEF Sides
<1>5. st \in Line(X, Sides)
  BY <1>3, <1>4, LineConcat
<1> HIDE DEF st
<1>6. st \in Seq(X) /\ DOMAIN st \in SUBSET Int
  <2>1. st \in Seq(X)
    BY <1>5 DEF Line
  <2>. QED  BY <2>1, Indices
<1>7. ASSUME NEW i \in DOMAIN st, NEW j \in DOMAIN st, i # j
      PROVE  <<st[i], st[j]>> \in Sides
  <2>1. i < j \/ j < i
    BY <1>6, <1>7
  <2>2. <<st[i], st[j]>> \in Sides \/ <<st[j], st[i]>> \in Sides
    BY <1>5, <2>1 DEF Line
  <2>. QED  BY <2>2 DEF Sides, Apiece
<1>8. st \in Tangle(X, Sides)
  BY <1>6, <1>7 DEF Tangle
<1>. QED  BY <1>1, <1>2, <1>8 DEF V, X

-----------------------------------------------------------------------------
(* No piece ends before it starts *)

TimelyPieces == {p \in Pieces(Int) : 0 <= p.from /\ p.from <= p.to}

AnyOrder == Spans \X Spans

\* A sequence of such pieces may be in any order.
LEMMA TimelyLine ==
    ASSUME NEW pieces \in Seq(TimelyPieces)
    PROVE  /\ pieces \in Line(TimelyPieces, AnyOrder) /\ pieces \in Tangle(TimelyPieces, AnyOrder)
           /\ pieces \in Seq(Pieces(Int)) /\ DOMAIN pieces = 1..Len(pieces) /\ Len(pieces) \in Nat
           /\ \A i \in DOMAIN pieces : pieces[i] \in TimelyPieces
<1>1. TimelyPieces \subseteq Pieces(Int) /\ Pieces(Int) \subseteq Spans
  BY DEF TimelyPieces, Pieces, Spans
<1>2. /\ DOMAIN pieces = 1..Len(pieces) /\ Len(pieces) \in Nat
      /\ \A i \in DOMAIN pieces : pieces[i] \in TimelyPieces
  BY Indices
<1>3. \A i, j \in DOMAIN pieces : <<pieces[i], pieces[j]>> \in AnyOrder
  BY <1>1, <1>2 DEF AnyOrder
<1>4. pieces \in Seq(Pieces(Int))
  BY <1>1, <1>2
<1>. QED  BY <1>2, <1>3, <1>4 DEF Line, Tangle

\* Sorting and merging keep it so.
LEMMA TimelyMerges ==
    ASSUME NEW pieces \in Seq(TimelyPieces)
    PROVE  SortTurns(pieces) \in Seq(TimelyPieces) /\ MergeTurns(pieces) \in Seq(TimelyPieces)
<1> DEFINE X == TimelyPieces
           R == AnyOrder
<1>1. X \subseteq Pieces(Int) /\ Pieces(Int) \subseteq Spans
  BY DEF TimelyPieces, Pieces, Spans
<1>2. Sortable(X, R, R)
  BY <1>1 DEF Sortable
<1>3. ASSUME NEW p \in X, NEW q \in X
      PROVE  Joined(p, q) \in X /\ Between(Joined(p, q), p, q, X, R)
  <2> DEFINE j == Joined(p, q)
  <2>1. p \in Pieces(Int) /\ q \in Pieces(Int)
    BY <1>1
  <2>2. j \in Pieces(Int) /\ j.from = p.from /\ j.to = Larger(p.to, q.to)
    BY <2>1, JoinedIs
  <2>3. 0 <= p.from /\ p.from <= p.to /\ p.from \in Int /\ p.to \in Int /\ q.to \in Int
    BY <2>1 DEF TimelyPieces, Pieces
  <2> HIDE DEF j
  <2>4. p.to <= Larger(p.to, q.to) /\ Larger(p.to, q.to) \in Int
    BY <2>3 DEF Larger
  <2>5. j \in X
    BY <2>2, <2>3, <2>4 DEF TimelyPieces
  <2>6. Between(j, p, q, X, R)
    BY <1>1, <2>2 DEF Between, AnyOrder
  <2>. QED  BY <2>5, <2>6 DEF j
<1>4. MergesWell(X, R)
  BY <1>1, <1>3 DEF MergesWell
<1>5. pieces \in Tangle(X, R) /\ pieces \in Seq(Pieces(Int))
  BY TimelyLine
<1> HIDE DEF X, R
<1>6. SortTurns(pieces) \in Line(X, R)
  BY <1>2, <1>5, SortedLine
<1>7. MergeTurns(pieces) \in Line(X, R)
  BY <1>4, <1>5, <1>6, MergeLine
<1>. QED  BY <1>6, <1>7 DEF Line, X

\* So does settling the turns.
LEMMA TimelySettles ==
    ASSUME NEW pieces \in Seq(TimelyPieces)
    PROVE  Settle(pieces) \in Seq(TimelyPieces)
<1> DEFINE merged == MergeTurns(pieces)
<1>1. merged \in Seq(TimelyPieces)
  BY TimelyMerges
<1> HIDE DEF merged
<1>2. /\ merged \in Seq(Pieces(Int)) /\ DOMAIN merged = 1..Len(merged) /\ Len(merged) \in Nat
      /\ \A i \in DOMAIN merged : merged[i] \in TimelyPieces
  BY <1>1, TimelyLine
<1>3. PICK label \in [DOMAIN merged -> Int] :
        SmoothTurns(merged) = IF Len(merged) < 3 THEN merged ELSE MergeTurns(Relabelled(merged, label))
  BY <1>2, SmoothRelabels, Int \in SUBSET Int
<1> DEFINE new == Relabelled(merged, label)
<1>4. DOMAIN new = DOMAIN merged /\ \A k \in DOMAIN new : new[k] = Renamed(merged[k], label[k])
  BY DEF Relabelled, Renamed
<1>5. ASSUME NEW k \in DOMAIN merged
      PROVE  Renamed(merged[k], label[k]) \in TimelyPieces
  <2>1. merged[k] \in TimelyPieces /\ label[k] \in Int
    BY <1>2
  <2>2. merged[k] \in Pieces(Int) /\ 0 <= merged[k].from /\ merged[k].from <= merged[k].to
    BY <2>1 DEF TimelyPieces
  <2>3. /\ Renamed(merged[k], label[k]) \in Pieces(Int)
        /\ Renamed(merged[k], label[k]).from = merged[k].from
        /\ Renamed(merged[k], label[k]).to = merged[k].to
    BY <2>1, <2>2 DEF Renamed, Pieces
  <2>. QED  BY <2>2, <2>3 DEF TimelyPieces
<1>6. new \in Seq(TimelyPieces)
  <2>1. new = [k \in 1..Len(merged) |-> new[k]]
    BY <1>2, <1>4 DEF Relabelled
  <2>2. \A k \in 1..Len(merged) : new[k] \in TimelyPieces
    BY <1>2, <1>4, <1>5
  <2> HIDE DEF new
  <2>. QED  BY <1>2, <2>1, <2>2
<1> HIDE DEF new
<1>7. MergeTurns(new) \in Seq(TimelyPieces)
  BY <1>6, TimelyMerges
<1>. QED  BY <1>1, <1>3, <1>7 DEF Settle, merged, new

\* So does cutting them into units.
LEMMA TimelySplits ==
    ASSUME NEW pieces \in Seq(TimelyPieces)
    PROVE  SplitByUnits(pieces) \in Seq(TimelyPieces)
<1> DEFINE units(i) == DialogueUnits(pieces[i].text)
           split == [i \in DOMAIN pieces |->
                       IF Len(units(i)) <= 1 THEN <<pieces[i]>> ELSE Spread(pieces[i], units(i))]
           X == TimelyPieces
<1>1. /\ DOMAIN pieces = 1..Len(pieces) /\ Len(pieces) \in Nat
      /\ \A i \in DOMAIN pieces : pieces[i] \in X
  BY TimelyLine
<1>2. ASSUME NEW i \in DOMAIN pieces
      PROVE  split[i] \in Seq(X)
  <2>1. CASE Len(units(i)) <= 1
    <3>1. split[i] = <<pieces[i]>> /\ pieces[i] \in X
      BY <1>1, <2>1
    <3> HIDE DEF X, split
    <3>. QED  BY <3>1
  <2>2. CASE ~(Len(units(i)) <= 1)
    <3> DEFINE p == pieces[i]
               u == units(i)
               n == Len(u)
    <3>1. p \in Pieces(Int) /\ 0 <= p.from /\ p.from <= p.to /\ p.text \in Texts
      BY <1>1 DEF TimelyPieces, Pieces
    <3>2. u \in Seq(Spoken) /\ u # <<>> /\ split[i] = Spread(p, u)
      BY <2>2, <3>1, UnitsType
    <3> HIDE DEF p, u, split
    <3>3. n \in Nat
      BY <3>2
    <3> HIDE DEF n
    <3>4. Spread(p, u) \in Seq(Pieces(Int))
      BY <3>1, <3>2, SpreadType
    <3>5. /\ DOMAIN Spread(p, u) = 1..n
          /\ \A k \in 1..n : /\ Spread(p, u)[k].from = CutAt(p, u, k - 1)
                             /\ Spread(p, u)[k].to = CutAt(p, u, k)
          /\ \A k \in 0..n : CutAt(p, u, k) \in Nat
      <4>1. /\ DOMAIN Spread(p, u) = 1..Len(u)
            /\ \A k \in 1..Len(u) :
                 Spread(p, u)[k] = [speaker |-> p.speaker, from |-> CutAt(p, u, k - 1),
                                    to |-> CutAt(p, u, k), text |-> u[k]]
            /\ \A k \in 0..Len(u) : CutAt(p, u, k) \in Nat
        BY <3>1, <3>2, SpreadIs, Zenon
      <4>. QED  BY <4>1 DEF n
    <3>6. ASSUME NEW k \in 1..n
          PROVE  Spread(p, u)[k] \in X
      <4>1. k - 1 \in 0..n /\ k \in 0..n /\ k - 1 <= k
        BY <3>3
      <4>2. CutAt(p, u, k - 1) <= CutAt(p, u, k)
        BY <3>1, <3>2, <4>1, CutsGrow DEF n
      <4>3. CutAt(p, u, k - 1) \in Nat /\ CutAt(p, u, k) \in Nat
        BY <3>5, <4>1
      <4>4. Spread(p, u)[k] \in Pieces(Int)
        BY <3>4, <3>5, Indices
      <4>. QED  BY <3>5, <4>2, <4>3, <4>4 DEF TimelyPieces
    <3>7. Spread(p, u) = [k \in 1..n |-> Spread(p, u)[k]]
      BY <3>4, <3>5
    <3> HIDE DEF X
    <3>8. Spread(p, u) \in Seq(X)
      BY <3>3, <3>6, <3>7
    <3>. QED  BY <3>2, <3>8
  <2>. QED  BY <2>1, <2>2
<1>3. SplitByUnits(pieces) = FlattenSeq(split) /\ split = [i \in DOMAIN pieces |-> split[i]]
  BY DEF SplitByUnits
<1> HIDE DEF split, units, X
<1>4. split \in Seq(Seq(X))
  BY <1>1, <1>2, <1>3
<1>5. FlattenSeq(split) \in Seq(X)
  BY <1>4, FlattenSeqType
<1>. QED  BY <1>3, <1>5 DEF X

-----------------------------------------------------------------------------
(* The invariant *)

\* the turns of one channel: in turn, with half the time left after each cut
MonoStages ==
    /\ phase \in {"received", "failed"} => turns = <<>>
    /\ phase \in {"prepared", "diarized", "assigned", "normalized"} => turns \in InTurn(Phrases, 4)
    /\ phase = "refined" => turns \in InTurn(Phrases, 2)
    /\ phase = "done" => turns \in InTurn(Phrases, 1)

\* the turns of two channels: none ends before it starts, and they are told in order until the cut
StereoStages ==
    /\ phase \in {"received", "refined", "done"}
    /\ turns \in Seq(TimelyPieces)
    /\ phase = "refined" =>
         /\ ChannelVoices \in TwoChannels
         /\ turns \in Line(Told(ChannelVoices), After(ChannelVoices))

SpeechInOrder ==
    /\ recording \in Recordings
    /\ IsMono => MonoStages
    /\ IsStereo => StereoStages

\* One channel is heard, spoken to and cut in turn.
LEMMA MonoStep ==
    ASSUME SegmentsInTurn, TypeOK, IsMono, recording \in Recordings, MonoStages, Next
    PROVE  MonoStages'
<1>1. /\ Phrases \in Vocabularies /\ 4 \in Nat /\ 4 > 0 /\ 2 \in Nat /\ 2 > 0 /\ 1 \in Nat /\ 1 > 0
      /\ 8 = 2 * 4 /\ 4 = 2 * 2 /\ 2 = 2 * 1
  BY DEF Vocabularies
<1>2. IsRecording(recording) /\ diarization \in Seq(VoicesOf(Nat \ {0}))
  BY DEF TypeOK, VoicesOf
<1>3. CASE TranscribeStereo
  <2>1. ChannelTurns = <<>>
    BY DEF IsMono, ChannelTurns
  <2>. QED  BY <1>3, <2>1 DEF TranscribeStereo
<1>4. CASE TranscribeMono
  <2>1. phase' = "prepared" /\ turns' = Prepare(Heard)
    BY <1>4 DEF TranscribeMono, Goto
  <2>2. Heard \in Line(Spelled(Phrases), Follows)
    BY <1>2, MonoHeard
  <2>3. turns' \in InTurn(Phrases, 4)
    BY <1>1, <2>1, <2>2, PreparedInTurn
  <2>. QED  BY <2>1, <2>3 DEF MonoStages
<1>5. CASE RaiseEmpty
  BY <1>5 DEF RaiseEmpty, Goto, MonoStages
<1>6. CASE RunDiarization
  BY <1>6 DEF RunDiarization, Goto, MonoStages
<1>7. CASE AssignFromWords \/ AssignFromTurns \/ AssignFromText
  <2>1. phase = "diarized" /\ phase' = "assigned"
    BY <1>7 DEF AssignFromWords, AssignFromTurns, AssignFromText, Assign, Goto
  <2>2. turns \in InTurn(Phrases, 4)
    BY <2>1 DEF MonoStages
  <2>3. turns' \in InTurn(Phrases, 4)
    <3>1. CASE AssignFromWords
      <4>1. diarization # <<>> /\ turns' = AssignByWords(Words, diarization)
        BY <3>1 DEF AssignFromWords, ByWords, Assign
      <4>2. Words \in InTurn(Phrases, 2 * 4)
        BY <1>1, <1>2, WordsInTurn
      <4>. QED  BY <1>1, <1>2, <4>1, <4>2, WordedInTurn
    <3>2. CASE AssignFromTurns
      <4>1. diarization # <<>> /\ turns' = AssignByDiarization(turns, diarization)
        BY <3>2 DEF AssignFromTurns, Assign
      <4>. QED  BY <1>1, <1>2, <2>2, <4>1, DiarizedInTurn
    <3>3. CASE AssignFromText
      <4>1. turns' = AssignByText(turns)
        BY <3>3 DEF AssignFromText, Assign
      <4>. QED  BY <1>1, <2>2, <4>1, TextedInTurn
    <3>. QED  BY <1>7, <3>1, <3>2, <3>3
  <2>. QED  BY <2>1, <2>3 DEF MonoStages
<1>8. CASE NormalizeLabels
  <2>1. phase = "assigned" /\ phase' = "normalized" /\ turns' = LabelByRole(turns)
    BY <1>8 DEF NormalizeLabels, Goto
  <2>2. turns' \in InTurn(Phrases, 4)
    BY <1>1, <2>1, LabelledInTurn DEF MonoStages
  <2>. QED  BY <2>1, <2>2 DEF MonoStages
<1>9. CASE RefineLabels
  <2>1. phase = "normalized" /\ phase' = "refined" /\ turns' = RefineByText(turns)
    BY <1>9 DEF RefineLabels, Goto
  <2>2. turns \in InTurn(Phrases, 2 * 2) /\ turns \in Seq(Pieces({1, 2}))
    BY <1>1, <2>1 DEF MonoStages, TypeOK
  <2>3. turns' \in InTurn(Phrases, 2)
    BY <1>1, <2>1, <2>2, RefinedInTurn
  <2>. QED  BY <2>1, <2>3 DEF MonoStages
<1>10. CASE SplitTurns
  <2>1. phase = "refined" /\ phase' = "done" /\ turns' = SortTurns(SplitByUnits(SortTurns(turns)))
    BY <1>10 DEF SplitTurns, Goto
  <2>2. turns \in InTurn(Phrases, 2 * 1)
    BY <1>1, <2>1 DEF MonoStages
  <2>3. turns' \in InTurn(Phrases, 1)
    BY <1>1, <2>1, <2>2, CutInTurn
  <2>. QED  BY <2>1, <2>3 DEF MonoStages
<1>. QED  BY <1>3, <1>4, <1>5, <1>6, <1>7, <1>8, <1>9, <1>10 DEF Next

\* Two channels are heard, settled and cut.
LEMMA StereoStep ==
    ASSUME SegmentsInTurn, TypeOK, IsStereo, recording \in Recordings, StereoStages, Next
    PROVE  StereoStages'
<1>1. phase \in {"received", "refined", "done"} /\ turns \in Seq(TimelyPieces) /\ ChannelTurns # <<>>
  BY DEF StereoStages, IsStereo
<1>2. CASE TranscribeStereo
  <2> DEFINE V == ChannelVoices
             T == ChannelTurns
  <2>1. /\ phase' = "refined" /\ turns' = Settle(SortTurns(T))
        /\ recording' = recording /\ V' = V
    BY <1>2 DEF TranscribeStereo, Goto, ChannelVoices
  <2>2. Len(recording.channels) = 2
    BY <1>1 DEF ChannelTurns
  <2>3. V \in TwoChannels /\ T \in Tangle(Voiced(V), Sides)
    <3>1. IsRecording(recording)
      BY DEF TypeOK
    <3>. QED  BY <2>2, <3>1, ChannelTurnsAreVoiced
  <2> HIDE DEF V, T
  <2>4. turns' \in Line(Told(V), After(V))
    BY <2>1, <2>3, SettledInOrder
  <2>5. T \in Seq(TimelyPieces)
    <3>1. T \in Seq(Voiced(V))
      BY <2>3 DEF Tangle
    <3>2. Voiced(V) \subseteq TimelyPieces
      <4>1. ASSUME NEW p \in Voiced(V)
            PROVE  p \in TimelyPieces
        <5>1. p \in Pieces(Int) /\ p.from \in Nat /\ p.to \in Int /\ p.from < p.to
          BY <2>3, VoicedIs
        <5>. QED  BY <5>1 DEF TimelyPieces
      <4>. QED  BY <4>1
    <3>3. DOMAIN T = 1..Len(T) /\ Len(T) \in Nat /\ \A i \in DOMAIN T : T[i] \in Voiced(V)
      BY <3>1, Indices
    <3>. QED  BY <3>1, <3>2, <3>3
  <2>6. turns' \in Seq(TimelyPieces)
    BY <2>1, <2>5, TimelyMerges, TimelySettles
  <2>7. ChannelVoices' \in TwoChannels /\ turns' \in Line(Told(ChannelVoices'), After(ChannelVoices'))
    BY <2>1, <2>3, <2>4 DEF V
  <2>. QED  BY <2>1, <2>6, <2>7 DEF StereoStages
<1>3. CASE TranscribeMono \/ RaiseEmpty
  BY <1>1, <1>3 DEF TranscribeMono, RaiseEmpty
<1>4. CASE RunDiarization \/ AssignFromWords \/ AssignFromTurns \/ AssignFromText \/ NormalizeLabels \/ RefineLabels
  BY <1>1, <1>4 DEF RunDiarization, AssignFromWords, AssignFromTurns, AssignFromText, Assign,
                    NormalizeLabels, RefineLabels, Goto
<1>5. CASE SplitTurns
  <2>1. phase' = "done" /\ turns' = SortTurns(SplitByUnits(SortTurns(turns)))
    BY <1>5 DEF SplitTurns, Goto
  <2>2. turns' \in Seq(TimelyPieces)
    BY <1>1, <2>1, TimelyMerges, TimelySplits
  <2>. QED  BY <2>1, <2>2 DEF StereoStages
<1>. QED  BY <1>2, <1>3, <1>4, <1>5 DEF Next

\* So the order of speech is kept by every step.
LEMMA StepKeepsSpeechInOrder ==
    ASSUME SegmentsInTurn, TypeOK, SpeechInOrder, [Next]_vars
    PROVE  SpeechInOrder'
<1>1. CASE Next
  <2>1. recording' = recording
    BY <1>1 DEF Next, TranscribeStereo, TranscribeMono, RaiseEmpty, RunDiarization, AssignFromWords,
                AssignFromTurns, AssignFromText, Assign, NormalizeLabels, RefineLabels, SplitTurns
  <2>2. (IsMono' <=> IsMono) /\ (IsStereo' <=> IsStereo)
    BY <2>1 DEF IsMono, IsStereo, ChannelTurns
  <2>3. recording' \in Recordings
    BY <2>1 DEF SpeechInOrder
  <2>4. IsMono => MonoStages'
    BY <1>1, MonoStep DEF SpeechInOrder
  <2>5. IsStereo => StereoStages'
    BY <1>1, StereoStep DEF SpeechInOrder
  <2>. QED  BY <2>2, <2>3, <2>4, <2>5 DEF SpeechInOrder
<1>2. CASE UNCHANGED vars
  <2>1. UNCHANGED <<phase, recording, turns>>
    BY <1>2 DEF vars
  <2>. QED  BY <2>1 DEF SpeechInOrder, IsMono, IsStereo, ChannelTurns, MonoStages, StereoStages, ChannelVoices
<1>. QED  BY <1>1, <1>2

\* The initial states are in order: there are no turns yet.
LEMMA SpeechInOrderInitially ==
    ASSUME Init
    PROVE  SpeechInOrder
<1>1. turns = <<>> /\ phase = "received" /\ recording \in Recordings
  BY DEF Init
<1>2. turns \in Seq(TimelyPieces)
  BY <1>1
<1>. QED  BY <1>1, <1>2 DEF SpeechInOrder, MonoStages, StereoStages

\* The turns of one channel are in turn; those of two are told in order.
LEMMA SpeechStaysInOrder ==
    ASSUME SegmentsInTurn
    PROVE  Spec => [](TypeOK /\ SpeechInOrder)
<1>1. Init => SpeechInOrder
  BY SpeechInOrderInitially
<1>2. TypeOK /\ SpeechInOrder /\ [Next]_vars => SpeechInOrder'
  BY StepKeepsSpeechInOrder
<1>. QED  BY <1>1, <1>2, TypeCorrect, PTL DEF Spec

\* what the invariant tells of one channel
LEMMA MonoIsSaid ==
    ASSUME TypeOK, MonoStages
    PROVE  /\ \A c : Rising(Said(c))
           /\ \A i \in DOMAIN turns : 0 <= turns[i].from /\ turns[i].from <= turns[i].to
           /\ phase = "done" =>
                /\ \A i \in DOMAIN turns : turns[i].from < turns[i].to
                /\ \A i, j \in DOMAIN turns : i < j => turns[i].to <= turns[j].from
<1>1. PICK k \in {1, 2, 4} : turns \in InTurn(Phrases, k)
  <2>1. <<>> \in InTurn(Phrases, 1)
    BY NothingInTurn
  <2>. QED  BY <2>1 DEF TypeOK, MonoStages
<1>2. k \in Nat /\ k > 0 /\ Phrases \in Vocabularies
  BY DEF Vocabularies
<1>3. TextOf(turns) \in RisingTexts(Phrases)
  BY <1>1, <1>2, TextInTurn
<1>4. \A c : Rising(Said(c))
  BY <1>3, RisingIsSaid
<1>5. /\ \A i \in DOMAIN turns : /\ 0 <= turns[i].from /\ turns[i].from < turns[i].to
                                 /\ turns[i].from <= turns[i].to
      /\ \A i, j \in DOMAIN turns : i < j => turns[i].to <= turns[j].from
  BY <1>1, <1>2, TimesInTurn
<1>. QED  BY <1>4, <1>5

\* The order of speech is kept for every recording whose segments are in turn: through all stages
\* of _assign_speakers and the label passes for one channel, and through the merge of two.
THEOREM OrderOfSpeech == SegmentsInTurn => (Spec => []SpokenOrder)
<1> SUFFICES ASSUME SegmentsInTurn
             PROVE  Spec => []SpokenOrder
  OBVIOUS
<1>1. TypeOK /\ SpeechInOrder => SpokenOrder
  <2> SUFFICES ASSUME TypeOK, SpeechInOrder, IsMono \/ (IsStereo /\ phase = "refined"),
                      NEW c \in DOMAIN recording.channels
               PROVE  Rising(Said(c))
    BY DEF SpokenOrder
  <2>1. CASE IsMono
    BY <2>1, MonoIsSaid DEF SpeechInOrder
  <2>2. CASE IsStereo /\ phase = "refined"
    <3>1. turns \in Line(Told(ChannelVoices), After(ChannelVoices))
      BY <2>2 DEF SpeechInOrder, StereoStages
    <3>2. TextOf(turns) \in Line(Phrases, InChannel(ChannelVoices))
      BY <3>1, TextIsTold
    <3>3. c \in {1, 2}
      <4>1. Len(recording.channels) = 2
        BY <2>2 DEF IsStereo, ChannelTurns
      <4>2. DOMAIN recording.channels = 1..2
        BY <4>1 DEF TypeOK, IsRecording
      <4>. QED  BY <4>2
    <3>4. ChannelVoices[c] = ToSet(TextOf(recording.channels[c]))
      BY <3>3 DEF ChannelVoices
    <3>. QED  BY <3>2, <3>3, <3>4, ToldIsSaid
  <2>. QED  BY <2>1, <2>2
<1>. QED  BY <1>1, SpeechStaysInOrder, PTL

\* Every clip has a start before its end and no speech of another segment of one channel, although
\* the units share out the time of a turn up to three times (_split_segments_for_speaker_assignment
\* and _split_speaker_turns_by_dialogue_units).
THEOREM ClipsStayDisjoint == SegmentsInTurn => (Spec => []ClipsAreDisjoint)
<1> SUFFICES ASSUME SegmentsInTurn
             PROVE  Spec => []ClipsAreDisjoint
  OBVIOUS
<1>1. TypeOK /\ SpeechInOrder => ClipsAreDisjoint
  <2> SUFFICES ASSUME TypeOK, SpeechInOrder
               PROVE  ClipsAreDisjoint
    OBVIOUS
  <2>1. CASE IsMono
    BY <2>1, MonoIsSaid DEF SpeechInOrder, ClipsAreDisjoint
  <2>2. CASE ~IsMono
    <3>1. SUFFICES ASSUME IsStereo
                   PROVE  \A i \in DOMAIN turns : 0 <= turns[i].from /\ turns[i].from <= turns[i].to
      BY <2>2 DEF ClipsAreDisjoint
    <3>2. turns \in Seq(TimelyPieces)
      BY <3>1 DEF SpeechInOrder, StereoStages
    <3>3. \A i \in DOMAIN turns : turns[i] \in TimelyPieces
      BY <3>2, TimelyLine
    <3>. QED  BY <3>3 DEF TimelyPieces
  <2>. QED  BY <2>1, <2>2
<1>. QED  BY <1>1, SpeechStaysInOrder, PTL
=============================================================================
