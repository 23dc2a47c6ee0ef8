-------------------------- MODULE SpeakerTurnsProofs --------------------------
(***************************************************************************)
(* Theorems about SpeakerTurns, for recordings and diarizations of any     *)
(* length and any thresholds.  Each operator of the path gets a lemma that *)
(* says what it returns; an operator that folds over a sequence is proved  *)
(* with the fold lemmas: its steps as a function, the set its values are   *)
(* in, and that the steps do not leave that set.  What a fold keeps beyond *)
(* the type, such as turns that are apart, is part of that set.            *)
(***************************************************************************)
EXTENDS SpeakerTurns, FoldLemmas

\* texts with a phrase
Spoken == Texts \ {<<>>}

-----------------------------------------------------------------------------
(* Texts *)

\* A sequence's domain, as the fold lemmas want it.
LEMMA Indices ==
    ASSUME NEW X, NEW seq \in Seq(X)
    PROVE  /\ DOMAIN seq = 1..Len(seq) /\ Len(seq) \in Nat
           /\ DOMAIN seq \in SUBSET Int /\ IsFiniteSet(DOMAIN seq)
           /\ \A i \in DOMAIN seq : seq[i] \in X
           /\ seq # <<>> => Len(seq) > 0 /\ DOMAIN seq # {}
<1>1. /\ DOMAIN seq = 1..Len(seq) /\ Len(seq) \in Nat
      /\ seq # <<>> => Len(seq) > 0
  OBVIOUS
<1>2. IsFiniteSet(1..Len(seq))
  BY <1>1, FS_Interval
<1>3. Len(seq) > 0 => 1 \in 1..Len(seq)
  BY <1>1
<1>. QED  BY <1>1, <1>2, <1>3

\* The characters of a text are counted phrase by phrase.
LEMMA TotalSteps ==
    ASSUME NEW text \in Texts
    PROVE  \E g \in [0..Len(text) -> Nat] :
               /\ g[0] = 0 /\ g[Len(text)] = Total(Chars, text)
               /\ \A k \in 1..Len(text) : g[k] = g[k - 1] + Chars[text[k].kind]
<1> DEFINE n == Len(text)
           D == DOMAIN text
           w == [i \in 1..n |-> Chars[text[i].kind]]
           F == CHOOSE f : f = [s \in SUBSET D |-> IF s = {} THEN 0
                                    ELSE f[s \ {Max(s)}] + Chars[text[Max(s)].kind]]
<1>1. /\ D = 1..n /\ n \in Nat /\ \A i \in 1..n : text[i] \in Phrases
      /\ D \in SUBSET Int /\ IsFiniteSet(D)
  BY Indices DEF Texts
<1>2. w \in [1..n -> Nat]
  BY <1>1 DEF Chars, Kinds, Phrases
<1>3. \A s \in SUBSET D : s # {} => w[Max(s)] = Chars[text[Max(s)].kind]
  BY <1>1, FS_Subset, MaxMin
<1>4. Total(Chars, text) = F[D]
  BY DEF Total, FoldLeft, MapThenFoldSet
<1>5. \A i \in 1..n : w[i] = Chars[text[i].kind]
  OBVIOUS
<1> HIDE DEF D, w, n
<1>6. \E f : f = [s \in SUBSET D |-> IF s = {} THEN 0
                        ELSE f[s \ {Max(s)}] + Chars[text[Max(s)].kind]]
  <2>1. PICK f : f = [s \in SUBSET D |-> IF s = {} THEN 0 ELSE f[s \ {Max(s)}] + w[Max(s)]]
    BY <1>1, <1>2, LeftSumExists
  <2>2. f = [s \in SUBSET D |-> IF s = {} THEN 0 ELSE f[s \ {Max(s)}] + Chars[text[Max(s)].kind]]
    BY <1>3, <2>1
  <2>. QED  BY <2>2
<1>7. IsLeftSum(F, 1..n, w)
  <2>1. F = [s \in SUBSET D |-> IF s = {} THEN 0 ELSE F[s \ {Max(s)}] + Chars[text[Max(s)].kind]]
    BY <1>6
  <2> HIDE DEF F
  <2>2. F = [s \in SUBSET D |-> IF s = {} THEN 0 ELSE F[s \ {Max(s)}] + w[Max(s)]]
    BY <1>3, <2>1
  <2>. QED  BY <1>1, <2>2 DEF IsLeftSum
<1> HIDE DEF F
<1>8. PICK g : IsAdding(g, n, w, F[1..n])
  BY <1>1, <1>2, <1>7, LeftSumSteps
<1>9. \A k \in 1..n : g[k] = g[k - 1] + Chars[text[k].kind]
  BY <1>5, <1>8 DEF IsAdding
<1>. QED  BY <1>1, <1>4, <1>8, <1>9 DEF n, IsAdding

\* There is at least one character if there is a phrase.
LEMMA TotalChars ==
    ASSUME NEW text \in Texts
    PROVE  /\ Total(Chars, text) \in Nat
           /\ text # <<>> => Total(Chars, text) > 0
<1> DEFINE n == Len(text)
<1>1. /\ n \in Nat /\ (text # <<>> => n \in 1..n) /\ \A i \in 1..n : text[i] \in Phrases
  BY Indices DEF Texts
<1>2. PICK g \in [0..n -> Nat] : /\ g[n] = Total(Chars, text)
                                 /\ \A k \in 1..n : g[k] = g[k - 1] + Chars[text[k].kind]
  BY TotalSteps
<1>3. text # <<>> => Chars[text[n].kind] \in Nat \ {0}
  BY <1>1 DEF Chars, Kinds, Phrases
<1> HIDE DEF n
<1>4. text # <<>> => g[n] = g[n - 1] + Chars[text[n].kind] /\ n - 1 \in 0..n
  BY <1>1, <1>2
<1>5. n \in 0..n
  BY <1>1
<1>. QED  BY <1>2, <1>3, <1>4, <1>5

\* The length of a text, with the blanks between its phrases.
LEMMA LengthIsPositive ==
    ASSUME NEW text \in Spoken
    PROVE  Length(text) \in Nat /\ Length(text) > 0
<1>1. text \in Texts /\ text # <<>>
  BY DEF Spoken
<1>2. Len(text) \in Nat /\ Len(text) > 0
  BY <1>1, Indices DEF Texts
<1>3. Total(Chars, text) \in Nat /\ Total(Chars, text) > 0
  BY <1>1, TotalChars
<1>. QED  BY <1>2, <1>3 DEF Length

\* how a phrase extends the parts
WithPhrase(parts, u) ==
    IF parts = <<>> \/ u.kind \in Cues \/ EndsSentence(Last(parts))
    THEN Append(parts, <<u>>)
    ELSE [parts EXCEPT ![Len(parts)] = Append(@, u)]

\* The parts of a text are made phrase by phrase, and are texts with at least one phrase.
LEMMA PartsSteps ==
    ASSUME NEW text \in Texts
    PROVE  \E g \in [0..Len(text) -> Seq(Spoken)] :
               /\ g[0] = <<>> /\ g[Len(text)] = Parts(text)
               /\ \A k \in 1..Len(text) : g[k] = WithPhrase(g[k - 1], text[k])
<1> DEFINE n == Len(text)
           D == DOMAIN text
           V == Seq(Spoken)
           Eq(f) == f = [s \in SUBSET D |-> IF s = {} THEN <<>>
                            ELSE WithPhrase(f[s \ {Max(s)}], text[Max(s)])]
           F == CHOOSE f : Eq(f)
           step == [i \in D |-> [v \in V |-> WithPhrase(v, text[i])]]
<1>1. /\ D = 1..n /\ n \in Nat
      /\ D \in SUBSET Int /\ IsFiniteSet(D) /\ \A i \in D : text[i] \in Phrases
  BY Indices DEF Texts
<1>2. ASSUME NEW parts \in V, NEW u \in Phrases
      PROVE  WithPhrase(parts, u) \in V
  <2>1. <<u>> \in Spoken
    BY DEF Spoken, Texts
  <2>2. CASE parts = <<>> \/ u.kind \in Cues \/ EndsSentence(Last(parts))
    BY <2>1, <2>2 DEF WithPhrase
  <2>3. CASE ~(parts = <<>> \/ u.kind \in Cues \/ EndsSentence(Last(parts)))
    <3>1. Len(parts) \in DOMAIN parts
      BY <2>3, Indices
    <3>2. Append(parts[Len(parts)], u) \in Spoken
      <4>1. parts[Len(parts)] \in Seq(Phrases)
        BY <3>1, Indices DEF Spoken, Texts
      <4>2. Append(parts[Len(parts)], u) \in Seq(Phrases) /\ Append(parts[Len(parts)], u) # <<>>
        BY <4>1
      <4>. QED  BY <4>2 DEF Spoken, Texts
    <3>. QED  BY <2>3, <3>1, <3>2 DEF WithPhrase
  <2>. QED  BY <2>2, <2>3
<1>3. step \in [D -> [V -> V]]
  BY <1>1, <1>2
<1>4. \A s \in SUBSET D : s # {} => Max(s) \in D
  BY <1>1, FS_Subset, MaxMin
<1>5. PICK f : IsLeftFold(f, D, V, <<>>, step)
  <2>1. <<>> \in V
    OBVIOUS
  <2> HIDE DEF D, V, step
  <2>. QED  BY <1>1, <1>3, <2>1, LeftFoldExists
<1>6. Eq(F)
  <2> HIDE DEF V
  <2>1. Eq(f)
    BY <1>4, <1>5 DEF IsLeftFold
  <2> HIDE DEF Eq
  <2>. QED  BY <2>1
<1>7. Parts(text) = F[D]
  BY DEF Parts, FoldLeft, MapThenFoldSet, WithPhrase
<1> HIDE DEF F, V
<1>8. <<>> \in V /\ step \in [1..n -> [V -> V]] /\ LeftFolds(F, n, V, <<>>, step)
  <2>1. <<>> \in V
    BY DEF V
  <2>2. F[{}] = <<>> /\ \A s \in SUBSET D : s # {} => F[s] = WithPhrase(F[s \ {Max(s)}], text[Max(s)])
    BY <1>6
  <2> HIDE DEF D
  <2>. QED  BY <1>1, <1>3, <1>4, <2>1, <2>2 DEF LeftFolds
<1>9. \A k \in 1..n : k \in D
  BY <1>1
<1> HIDE DEF D, n, step
<1>10. PICK g : IsRun(g, n, V, <<>>, step, F[1..n])
  BY <1>1, <1>8, LeftFoldRuns
<1>11. ASSUME NEW k \in 1..n
       PROVE  g[k] = WithPhrase(g[k - 1], text[k])
  <2>1. k - 1 \in 0..n
    BY <1>1
  <2>2. g[k] = step[k][g[k - 1]] /\ g[k - 1] \in V
    BY <1>10, <2>1 DEF IsRun
  <2>. QED  BY <1>9, <2>2 DEF step
<1>. QED  BY <1>1, <1>7, <1>10, <1>11 DEF n, V, IsRun

\* The parts of a text are texts with at least one phrase.
LEMMA PartsType ==
    ASSUME NEW text \in Texts
    PROVE  Parts(text) \in Seq(Spoken)
<1>1. PICK g \in [0..Len(text) -> Seq(Spoken)] : g[Len(text)] = Parts(text)
  BY PartsSteps
<1>2. Len(text) \in 0..Len(text)
  BY Indices DEF Texts
<1>. QED  BY <1>1, <1>2

\* What is not a lone yes or an announcement is a unit.
LEMMA UnitsAreKept ==
    ASSUME NEW text \in Texts, NEW parts, parts = Parts(text)
    PROVE  \E keep : DialogueUnits(text) = Kept(parts, keep)
<1> DEFINE keep == {i \in DOMAIN parts : ~IsLowValue(parts[i]) /\ ~IsSystem(parts[i])}
<1>1. [i \in DOMAIN parts |-> IF i \in keep THEN <<parts[i]>> ELSE <<>>]
        = [i \in DOMAIN parts |->
              IF ~IsLowValue(parts[i]) /\ ~IsSystem(parts[i]) THEN <<parts[i]>> ELSE <<>>]
  OBVIOUS
<1>2. DialogueUnits(text) = Kept(parts, keep)
  BY <1>1 DEF Kept, DialogueUnits, Filter
<1>. QED  BY <1>2

\* The units of a text are texts with a phrase.
LEMMA UnitsType ==
    ASSUME NEW text \in Texts
    PROVE  DialogueUnits(text) \in Seq(Spoken)
BY PartsType, UnitsAreKept, KeptType

-----------------------------------------------------------------------------
(* Pieces *)

\* the time of a piece is shared out in proportion to these
Lengths(units) == FoldLeft(LAMBDA n, u : n + Length(u), 0, units)

\* The lengths of units are added unit by unit.
LEMMA LengthsSteps ==
    ASSUME NEW units \in Seq(Spoken)
    PROVE  \E g \in [0..Len(units) -> Nat] :
               /\ g[0] = 0 /\ g[Len(units)] = Lengths(units)
               /\ \A k \in 1..Len(units) : g[k] = g[k - 1] + Length(units[k])
<1> DEFINE n == Len(units)
           D == DOMAIN units
           w == [i \in 1..n |-> Length(units[i])]
           F == CHOOSE f : f = [s \in SUBSET D |-> IF s = {} THEN 0
                                    ELSE f[s \ {Max(s)}] + Length(units[Max(s)])]
<1>1. /\ D = 1..n /\ n \in Nat /\ \A i \in 1..n : units[i] \in Spoken
      /\ D \in SUBSET Int /\ IsFiniteSet(D)
  BY Indices
<1>2. w \in [1..n -> Nat]
  BY <1>1, LengthIsPositive
<1>3. \A s \in SUBSET D : s # {} => w[Max(s)] = Length(units[Max(s)])
  BY <1>1, FS_Subset, MaxMin
<1>4. Lengths(units) = F[D]
  BY DEF Lengths, FoldLeft, MapThenFoldSet
<1>5. \A i \in 1..n : w[i] = Length(units[i])
  OBVIOUS
<1> HIDE DEF D, w, n
<1>6. \E f : f = [s \in SUBSET D |-> IF s = {} THEN 0 ELSE f[s \ {Max(s)}] + Length(units[Max(s)])]
  <2>1. PICK f : f = [s \in SUBSET D |-> IF s = {} THEN 0 ELSE f[s \ {Max(s)}] + w[Max(s)]]
    BY <1>1, <1>2, LeftSumExists
  <2>2. f = [s \in SUBSET D |-> IF s = {} THEN 0 ELSE f[s \ {Max(s)}] + Length(units[Max(s)])]
    BY <1>3, <2>1
  <2>. QED  BY <2>2
<1>7. IsLeftSum(F, 1..n, w)
  <2>1. F = [s \in SUBSET D |-> IF s = {} THEN 0 ELSE F[s \ {Max(s)}] + Length(units[Max(s)])]
    BY <1>6
  <2> HIDE DEF F
  <2>2. F = [s \in SUBSET D |-> IF s = {} THEN 0 ELSE F[s \ {Max(s)}] + w[Max(s)]]
    BY <1>3, <2>1
  <2>. QED  BY <1>1, <2>2 DEF IsLeftSum
<1> HIDE DEF F
<1>8. PICK g : IsAdding(g, n, w, F[1..n])
  BY <1>1, <1>2, <1>7, LeftSumSteps
<1>9. \A k \in 1..n : g[k] = g[k - 1] + Length(units[k])
  BY <1>5, <1>8 DEF IsAdding
<1>. QED  BY <1>1, <1>4, <1>8, <1>9 DEF n, IsAdding

\* Together, units have at least one character.
LEMMA LengthsAddUp ==
    ASSUME NEW units \in Seq(Spoken)
    PROVE  /\ Lengths(units) \in Nat
           /\ units # <<>> => Lengths(units) > 0
<1> DEFINE n == Len(units)
<1>1. /\ n \in Nat /\ (units # <<>> => n \in 1..n) /\ \A i \in 1..n : units[i] \in Spoken
  BY Indices
<1>2. PICK g \in [0..n -> Nat] : /\ g[n] = Lengths(units)
                                 /\ \A k \in 1..n : g[k] = g[k - 1] + Length(units[k])
  BY LengthsSteps
<1>3. units # <<>> => Length(units[n]) \in Nat \ {0}
  BY <1>1, LengthIsPositive
<1> HIDE DEF n
<1>4. units # <<>> => g[n] = g[n - 1] + Length(units[n]) /\ n - 1 \in 0..n
  BY <1>1, <1>2
<1>5. n \in 0..n
  BY <1>1
<1>. QED  BY <1>2, <1>3, <1>4, <1>5

\* A piece that is cut into units has its speaker and its time cut, too.
LEMMA SpreadType ==
    ASSUME NEW S, NEW p \in Pieces(S), NEW units \in Seq(Spoken), units # <<>>
    PROVE  Spread(p, units) \in Seq(Pieces(S))
<1> DEFINE Until(k) == Lengths(SubSeq(units, 1, k))
           n == Len(units)
           Share(k) == (Duration(p) * Until(k)) \div Until(n)
           Cut(k) == CASE k = 0 -> p.from
                       [] k = n -> p.to
                       [] OTHER -> Smaller(p.to, p.from + Share(k))
<1>1. n \in Nat /\ n > 0 /\ DOMAIN units = 1..n /\ \A k \in 1..n : units[k] \in Spoken
  BY Indices
<1>2. p.from \in Int /\ p.to \in Int /\ Duration(p) \in Int
  BY DEF Pieces, Duration, Larger
<1>3. \A k \in 0..n : SubSeq(units, 1, k) \in Seq(Spoken)
  BY <1>1
<1>4. SubSeq(units, 1, n) # <<>>
  BY <1>1
<1>5. \A k \in 0..n : Until(k) \in Nat
  BY <1>3, LengthsAddUp
<1>6. Until(n) \in Nat /\ Until(n) > 0
  <2>1. SubSeq(units, 1, n) \in Seq(Spoken)
    BY <1>1, <1>3
  <2> HIDE DEF n
  <2>. QED  BY <1>4, <2>1, LengthsAddUp
<1> HIDE DEF Until, n
<1>7. \A k \in 0..n : Cut(k) \in Int
  <2>1. SUFFICES ASSUME NEW k \in 0..n
                 PROVE  Share(k) \in Int
    BY <1>2 DEF Smaller
  <2>2. Duration(p) * Until(k) \in Int
    BY <1>2, <1>5
  <2>. QED  BY <1>6, <2>2
<1> HIDE DEF Cut
<1>8. \A k \in 1..n : [p EXCEPT !.from = Cut(k - 1), !.to = Cut(k), !.text = units[k]] \in Pieces(S)
  <2>1. SUFFICES ASSUME NEW k \in 1..n
                 PROVE  [p EXCEPT !.from = Cut(k - 1), !.to = Cut(k), !.text = units[k]] \in Pieces(S)
    OBVIOUS
  <2>2. Cut(k - 1) \in Int /\ Cut(k) \in Int /\ units[k] \in Spoken
    BY <1>1, <1>7
  <2>. QED  BY <2>2 DEF Pieces, Spoken
<1> DEFINE spread == [k \in 1..n |-> [p EXCEPT !.from = Cut(k - 1), !.to = Cut(k), !.text = units[k]]]
<1>9. Spread(p, units) = spread
  BY <1>1 DEF Spread, Cut, Share, Until, n, Lengths
<1>10. spread \in [1..n -> Pieces(S)]
  BY <1>8
<1> HIDE DEF spread
<1>. QED  BY <1>1, <1>9, <1>10

\* Cutting pieces at sentence ends and cues gives pieces of the same speakers.
LEMMA SplitType ==
    ASSUME NEW S, NEW pieces \in Seq(Pieces(S))
    PROVE  SplitByUnits(pieces) \in Seq(Pieces(S))
<1> DEFINE units(i) == DialogueUnits(pieces[i].text)
           split == [i \in DOMAIN pieces |->
                       IF Len(units(i)) <= 1 THEN <<pieces[i]>> ELSE Spread(pieces[i], units(i))]
<1>1. DOMAIN pieces = 1..Len(pieces) /\ Len(pieces) \in Nat /\ \A i \in DOMAIN pieces : pieces[i] \in Pieces(S)
  BY Indices
<1>2. ASSUME NEW i \in DOMAIN pieces
      PROVE  split[i] \in Seq(Pieces(S))
  <2>1. pieces[i] \in Pieces(S) /\ pieces[i].text \in Texts
    BY <1>1 DEF Pieces
  <2>2. units(i) \in Seq(Spoken)
    BY <2>1, UnitsType
  <2>3. CASE Len(units(i)) <= 1
    BY <2>1, <2>3
  <2>4. CASE ~(Len(units(i)) <= 1)
    <3>1. units(i) # <<>>
      BY <2>4
    <3>2. Spread(pieces[i], units(i)) \in Seq(Pieces(S))
      BY <2>1, <2>2, <3>1, SpreadType
    <3>. QED  BY <2>4, <3>2
  <2>. QED  BY <2>3, <2>4
<1>3. SplitByUnits(pieces) = FlattenSeq(split)
  BY DEF SplitByUnits
<1> HIDE DEF split
<1>4. split \in Seq(Seq(Pieces(S)))
  BY <1>1, <1>2 DEF split
<1>. QED  BY <1>3, <1>4, FlattenSeqType

\* What is not noise has a text.
LEMMA ExtractKeeps ==
    ASSUME NEW X, NEW segments \in Seq(X)
    PROVE  ExtractSegments(segments) = Kept(segments, {i \in DOMAIN segments : ~IsNoise(segments[i])})
<1> DEFINE keep == {i \in DOMAIN segments : ~IsNoise(segments[i])}
<1>1. [i \in DOMAIN segments |-> IF i \in keep THEN <<segments[i]>> ELSE <<>>]
        = [i \in DOMAIN segments |-> IF ~IsNoise(segments[i]) THEN <<segments[i]>> ELSE <<>>]
  OBVIOUS
<1>. QED  BY <1>1 DEF Kept, ExtractSegments, Filter

\* Without the noise, every segment has a text.
LEMMA ExtractType ==
    ASSUME NEW segments \in Seq(Segments)
    PROVE  ExtractSegments(segments) \in Seq(Pieces({0}))
<1> DEFINE keep == {i \in DOMAIN segments : ~IsNoise(segments[i])}
           kept == Kept(segments, keep)
<1>1. segments \in Line(Segments, Segments \X Segments)
  BY DEF Line
<1> HIDE DEF keep
<1>2. /\ kept \in Line(Segments, Segments \X Segments)
      /\ \A m \in DOMAIN kept : \E i \in DOMAIN segments : i \in keep /\ kept[m] = segments[i]
  BY <1>1, KeptLine
<1> HIDE DEF kept
<1>3. /\ kept \in Seq(Segments) /\ DOMAIN kept = 1..Len(kept) /\ Len(kept) \in Nat
      /\ \A m \in DOMAIN kept : kept[m] \in Segments
  BY <1>2, Indices DEF Line
<1>4. \A m \in DOMAIN kept : kept[m] \in Pieces({0})
  BY <1>2, <1>3 DEF keep, IsNoise, Segments, Pieces
<1>5. kept \in Seq(Pieces({0}))
  BY <1>3, <1>4
<1>. QED  BY <1>5, ExtractKeeps DEF kept, keep

\* Cutting off the announcements at the start leaves the rest of the sequence.
LEMMA TrimCuts ==
    ASSUME NEW X, NEW segments \in Seq(X)
    PROVE  \/ TrimSystem(segments) = segments
           \/ \E m \in 1..Len(segments) : TrimSystem(segments) = SubSeq(segments, m, Len(segments))
<1> DEFINE found == {i \in 1..Len(segments) : ~IsSystem(segments[i].text)}
<1>1. found # {} => Min(found) \in 1..Len(segments)
  <2>1. IsFiniteSet(1..Len(segments)) /\ 1..Len(segments) \in SUBSET Int
    BY FS_Interval
  <2>2. found \in SUBSET (1..Len(segments))
    OBVIOUS
  <2> HIDE DEF found
  <2>3. IsFiniteSet(found) /\ found \in SUBSET Int
    BY <2>1, <2>2, FS_Subset
  <2>. QED  BY <2>2, <2>3, MaxMin
<1>2. TrimSystem(segments) = IF found = {} THEN segments
                             ELSE SubSeq(segments, Min(found), Len(segments))
  <2>1. SelectInSeq(segments, LAMBDA s : ~IsSystem(s.text)) = IF found # {} THEN Min(found) ELSE 0
    BY DEF SelectInSeq
  <2> HIDE DEF found
  <2>. QED  BY <1>1, <2>1 DEF TrimSystem
<1> HIDE DEF found
<1>. QED  BY <1>1, <1>2

\* It is a sequence of the same elements.
LEMMA TrimType ==
    ASSUME NEW X, NEW segments \in Seq(X)
    PROVE  TrimSystem(segments) \in Seq(X)
<1>1. \A m \in 1..Len(segments) : SubSeq(segments, m, Len(segments)) \in Seq(X)
  OBVIOUS
<1>. QED  BY <1>1, TrimCuts

\* Announcements and noise are dropped, or all pieces, or none.
LEMMA DropKeeps ==
    ASSUME NEW X, NEW pieces \in Seq(X)
    PROVE  \/ DropSystem(pieces) \in {<<>>, pieces}
           \/ \E keep : DropSystem(pieces) = Kept(pieces, keep)
<1> DEFINE Keep(i) == /\ ~IsNoise(pieces[i])
                      /\ (\E j \in 1..(i - 1) : Opens(pieces[j])) => ~IsSystem(pieces[i].text)
                      /\ ~(\E j \in 1..(i - 1) : Opens(pieces[j])) =>
                           ~IsLowValue(pieces[i].text) /\ ~Has(pieces[i].text, "ivr")
           keep == {i \in DOMAIN pieces : Keep(i)}
           parts == [i \in DOMAIN pieces |-> IF Keep(i) THEN <<pieces[i]>> ELSE <<>>]
<1>1. DropSystem(pieces) \in {FlattenSeq(parts), <<>>, pieces}
  BY DEF DropSystem
<1>2. parts = [i \in DOMAIN pieces |-> IF i \in keep THEN <<pieces[i]>> ELSE <<>>]
  <2> HIDE DEF Keep
  <2>. QED  OBVIOUS
<1> HIDE DEF parts, keep
<1>3. FlattenSeq(parts) = Kept(pieces, keep)
  BY <1>2 DEF Kept
<1>. QED  BY <1>1, <1>3

\* What is left are pieces of the sequence.
LEMMA DropType ==
    ASSUME NEW X, NEW pieces \in Seq(X)
    PROVE  DropSystem(pieces) \in Seq(X)
<1>1. CASE DropSystem(pieces) \in {<<>>, pieces}
  <2>1. <<>> \in Seq(X)
    OBVIOUS
  <2>. QED  BY <1>1, <2>1
<1>2. CASE \E keep : DropSystem(pieces) = Kept(pieces, keep)
  BY <1>2, KeptType
<1>. QED  BY <1>1, <1>2, DropKeeps

-----------------------------------------------------------------------------
(* Sorting *)

\* the order of the stable sort by the time
SpanPrecedes(pieces, i, j) ==
    \/ EarlierSpan(pieces[i], pieces[j])
    \/ ~EarlierSpan(pieces[j], pieces[i]) /\ i < j

\* order is a permutation that sorts.
SortsSpans(order, pieces) ==
    /\ order \in [1..Len(pieces) -> 1..Len(pieces)]
    /\ \A k, l \in 1..Len(pieces) : k < l => SpanPrecedes(pieces, order[k], order[l])

\* Python's sort by the time permutes the pieces.
LEMMA SpansPermuted ==
    ASSUME NEW X, \A p \in X : p.from \in Int /\ p.to \in Int,
           NEW pieces \in Seq(X)
    PROVE  \E order : /\ SortsSpans(order, pieces)
                      /\ SortBy(pieces, EarlierSpan) = [k \in 1..Len(pieces) |-> pieces[order[k]]]
<1> DEFINE N == Len(pieces)
           R == {x \in (1..N) \X (1..N) : SpanPrecedes(pieces, x[1], x[2])}
           rank == [i \in 1..N |-> Cardinality({j \in 1..N : SpanPrecedes(pieces, j, i)})]
           order == [k \in 1..N |-> CHOOSE i \in 1..N : rank[i] = k - 1]
<1>1. DOMAIN pieces = 1..N /\ N \in Nat /\ \A i \in 1..N : pieces[i] \in X
  BY Indices
<1>2. \A i \in 1..N : pieces[i].from \in Int /\ pieces[i].to \in Int
  BY <1>1
<1>3. \A i, j \in 1..N : <<i, j>> \in R <=> SpanPrecedes(pieces, i, j)
  OBVIOUS
<1>4. \A i \in 1..N : {j \in 1..N : SpanPrecedes(pieces, j, i)} = {j \in 1..N : <<j, i>> \in R}
  <2> HIDE DEF R
  <2>. QED  BY <1>3
<1>5. IsRanking(rank, R, N)
  <2> HIDE DEF R
  <2>. QED  BY <1>4 DEF IsRanking
<1>6. SortBy(pieces, EarlierSpan) = [k \in 1..N |-> pieces[CHOOSE i \in 1..N : rank[i] = k - 1]]
  BY <1>1 DEF SortBy, SpanPrecedes
<1>7. SortBy(pieces, EarlierSpan) = [k \in 1..N |-> pieces[order[k]]]
  BY <1>6
<1>8. IsSorting(order, rank, N)
  BY DEF IsSorting
<1> HIDE DEF N, R, rank, order
<1>9. \A i \in 1..N : <<i, i>> \notin R
  BY <1>2, <1>3 DEF EarlierSpan, SpanPrecedes
<1>10. \A i, j \in 1..N : i # j => <<i, j>> \in R \/ <<j, i>> \in R
  BY <1>1, <1>2, <1>3 DEF EarlierSpan, SpanPrecedes
<1>11. ASSUME NEW i \in 1..N, NEW j \in 1..N, NEW k \in 1..N, <<i, j>> \in R, <<j, k>> \in R
       PROVE  <<i, k>> \in R
  <2>1. /\ pieces[i].from \in Int /\ pieces[i].to \in Int /\ pieces[j].from \in Int
        /\ pieces[j].to \in Int /\ pieces[k].from \in Int /\ pieces[k].to \in Int
        /\ i \in Int /\ j \in Int /\ k \in Int
    BY <1>1, <1>2
  <2>2. SpanPrecedes(pieces, i, j) /\ SpanPrecedes(pieces, j, k)
    BY <1>3, <1>11
  <2>3. SpanPrecedes(pieces, i, k)
    BY <2>1, <2>2 DEF EarlierSpan, SpanPrecedes
  <2>. QED  BY <1>3, <2>3
<1>12. /\ order \in [1..N -> 1..N]
       /\ \A k, l \in 1..N : k < l => <<order[k], order[l]>> \in R
  <2>1. IsStrictOrder(R, N)
    BY <1>9, <1>10, <1>11 DEF IsStrictOrder
  <2>. QED  BY <1>1, <1>5, <1>8, <2>1, RanksSort
<1>13. SortsSpans(order, pieces)
  BY <1>3, <1>12 DEF SortsSpans, N
<1>. QED  BY <1>7, <1>13 DEF N

\* A permuted sequence is one of the same elements.
LEMMA PermutedType ==
    ASSUME NEW X, NEW pieces \in Seq(X), NEW order \in [1..Len(pieces) -> 1..Len(pieces)],
           NEW new, new = [k \in 1..Len(pieces) |-> pieces[order[k]]]
    PROVE  /\ new \in Seq(X) /\ Len(new) = Len(pieces)
           /\ \A k \in 1..Len(pieces) : new[k] = pieces[order[k]]
<1>1. DOMAIN pieces = 1..Len(pieces) /\ Len(pieces) \in Nat /\ \A i \in 1..Len(pieces) : pieces[i] \in X
  BY Indices
<1>2. new \in [1..Len(pieces) -> X] /\ \A k \in 1..Len(pieces) : new[k] = pieces[order[k]]
  BY <1>1
<1>3. new \in Seq(X) /\ Len(new) = Len(pieces)
  BY <1>1, <1>2
<1>. QED  BY <1>2, <1>3

\* Python's sort by the time gives a sequence of the same pieces, the earlier first.
LEMMA SortSpans ==
    ASSUME NEW X, \A p \in X : p.from \in Int /\ p.to \in Int,
           NEW pieces \in Seq(X)
    PROVE  /\ SortBy(pieces, EarlierSpan) \in Seq(X)
           /\ Len(SortBy(pieces, EarlierSpan)) = Len(pieces)
           /\ \A i, j \in 1..Len(pieces) : i < j =>
                SortBy(pieces, EarlierSpan)[i].from <= SortBy(pieces, EarlierSpan)[j].from
<1> DEFINE N == Len(pieces)
           sorted == SortBy(pieces, EarlierSpan)
<1>1. PICK order : SortsSpans(order, pieces) /\ sorted = [k \in 1..N |-> pieces[order[k]]]
  BY SpansPermuted
<1>2. \A i \in 1..N : pieces[i] \in X /\ pieces[i].from \in Int /\ pieces[i].to \in Int
  BY Indices
<1> HIDE DEF sorted
<1>3. sorted \in Seq(X) /\ Len(sorted) = N /\ \A k \in 1..N : sorted[k] = pieces[order[k]]
  <2>1. order \in [1..N -> 1..N]
    BY <1>1 DEF SortsSpans
  <2>. QED  BY <1>1, <2>1, PermutedType
<1>4. ASSUME NEW i \in 1..N, NEW j \in 1..N, i < j
      PROVE  sorted[i].from <= sorted[j].from
  <2>1. SpanPrecedes(pieces, order[i], order[j]) /\ order[i] \in 1..N /\ order[j] \in 1..N
    BY <1>1, <1>4 DEF SortsSpans
  <2>. QED  BY <1>2, <1>3, <2>1 DEF SpanPrecedes, EarlierSpan
<1>. QED  BY <1>3, <1>4 DEF sorted

\* the order of the sort by time and speaker
TurnPrecedes(pieces, i, j) ==
    \/ pieces[i].from < pieces[j].from
    \/ pieces[i].from = pieces[j].from /\ pieces[i].to < pieces[j].to
    \/ /\ pieces[i].from = pieces[j].from /\ pieces[i].to = pieces[j].to
       /\ pieces[i].speaker < pieces[j].speaker \/ (pieces[i].speaker = pieces[j].speaker /\ i < j)

\* order is a permutation that sorts.
SortsTurns(order, pieces) ==
    /\ order \in [1..Len(pieces) -> 1..Len(pieces)]
    /\ \A k, l \in 1..Len(pieces) : k < l => TurnPrecedes(pieces, order[k], order[l])

\* The sort of the turns, by time and speaker, permutes them.
LEMMA TurnsPermuted ==
    ASSUME NEW S \in SUBSET Int, NEW pieces \in Seq(Pieces(S))
    PROVE  \E order : /\ SortsTurns(order, pieces)
                      /\ SortTurns(pieces) = [k \in 1..Len(pieces) |-> pieces[order[k]]]
<1> DEFINE N == Len(pieces)
           Before(p, q) == \/ EarlierSpan(p, q)
                           \/ ~EarlierSpan(q, p) /\ p.speaker < q.speaker
           Precedes(i, j) == \/ Before(pieces[i], pieces[j])
                             \/ ~Before(pieces[j], pieces[i]) /\ i < j
           From(i) == pieces[i].from
           To(i) == pieces[i].to
           Who(i) == pieces[i].speaker
           Lexical(i, j) ==
               \/ From(i) < From(j)
               \/ From(i) = From(j) /\ To(i) < To(j)
               \/ /\ From(i) = From(j) /\ To(i) = To(j)
                  /\ Who(i) < Who(j) \/ (Who(i) = Who(j) /\ i < j)
           R == {x \in (1..N) \X (1..N) : Precedes(x[1], x[2])}
           rank == [i \in 1..N |-> Cardinality({j \in 1..N : Precedes(j, i)})]
           order == [k \in 1..N |-> CHOOSE i \in 1..N : rank[i] = k - 1]
<1>1. DOMAIN pieces = 1..N /\ N \in Nat /\ \A i \in 1..N : pieces[i] \in Pieces(S)
  BY Indices
<1>2. \A i \in 1..N : /\ pieces[i].from \in Int /\ pieces[i].to \in Int
                      /\ pieces[i].speaker \in Int
  BY <1>1 DEF Pieces
<1>3. ASSUME NEW i \in 1..N, NEW j \in 1..N
       PROVE  Precedes(i, j) <=> Lexical(i, j)
  <2>1. /\ From(i) \in Int /\ To(i) \in Int /\ Who(i) \in Int
        /\ From(j) \in Int /\ To(j) \in Int /\ Who(j) \in Int /\ i \in Int /\ j \in Int
    BY <1>1, <1>2
  <2>2. /\ EarlierSpan(pieces[i], pieces[j]) <=>
             From(i) < From(j) \/ (From(i) = From(j) /\ To(i) < To(j))
        /\ EarlierSpan(pieces[j], pieces[i]) <=>
             From(j) < From(i) \/ (From(j) = From(i) /\ To(j) < To(i))
    BY DEF EarlierSpan
  <2> HIDE DEF From, To
  <2>. QED  BY <2>1, <2>2
<1>4. \A i, j \in 1..N : <<i, j>> \in R <=> Precedes(i, j)
  <2> HIDE DEF Precedes
  <2>. QED  OBVIOUS
<1>5. \A i \in 1..N : {j \in 1..N : Precedes(j, i)} = {j \in 1..N : <<j, i>> \in R}
  <2> HIDE DEF Precedes, R
  <2>. QED  BY <1>4
<1>6. IsRanking(rank, R, N)
  <2> HIDE DEF Precedes, R
  <2>. QED  BY <1>5 DEF IsRanking
<1>7. SortTurns(pieces) = [k \in 1..N |-> pieces[CHOOSE i \in 1..N : rank[i] = k - 1]]
  BY <1>1 DEF SortTurns, SortBy
<1>8. SortTurns(pieces) = [k \in 1..N |-> pieces[order[k]]]
  BY <1>7
<1>9. IsSorting(order, rank, N)
  BY DEF IsSorting
<1> HIDE DEF N, R, rank, order
<1>10. \A i \in 1..N : <<i, i>> \notin R
  BY <1>2, <1>4 DEF EarlierSpan
<1>11. \A i, j \in 1..N : i # j => <<i, j>> \in R \/ <<j, i>> \in R
  BY <1>1, <1>2, <1>4 DEF EarlierSpan
<1>12. ASSUME NEW i \in 1..N, NEW j \in 1..N, NEW k \in 1..N, <<i, j>> \in R, <<j, k>> \in R
       PROVE  <<i, k>> \in R
  <2>1. /\ From(i) \in Int /\ To(i) \in Int /\ Who(i) \in Int
        /\ From(j) \in Int /\ To(j) \in Int /\ Who(j) \in Int
        /\ From(k) \in Int /\ To(k) \in Int /\ Who(k) \in Int
        /\ i \in Int /\ j \in Int /\ k \in Int
    BY <1>1, <1>2
  <2>2. Precedes(i, j) /\ Precedes(j, k)
    BY <1>4, <1>12
  <2>3. Lexical(i, j) /\ Lexical(j, k)
    BY <1>3, <2>2
  <2> HIDE DEF From, To, Who
  <2>4. Lexical(i, k)
    BY <2>1, <2>3
  <2>5. Precedes(i, k)
    BY <1>3, <2>4
  <2>. QED  BY <1>4, <2>5
<1>13. /\ order \in [1..N -> 1..N]
       /\ \A k, l \in 1..N : k < l => <<order[k], order[l]>> \in R
  <2>1. IsStrictOrder(R, N)
    BY <1>10, <1>11, <1>12 DEF IsStrictOrder
  <2>. QED  BY <1>1, <1>6, <1>9, <2>1, RanksSort
<1>14. \A i, j \in 1..N : Lexical(i, j) => TurnPrecedes(pieces, i, j)
  BY DEF TurnPrecedes
<1>15. ASSUME NEW k \in 1..N, NEW l \in 1..N, k < l
       PROVE  TurnPrecedes(pieces, order[k], order[l])
  <2> HIDE DEF Lexical, Precedes
  <2>1. order[k] \in 1..N /\ order[l] \in 1..N /\ <<order[k], order[l]>> \in R
    BY <1>13, <1>15
  <2>. QED  BY <1>3, <1>4, <1>14, <2>1
<1>16. SortsTurns(order, pieces)
  BY <1>13, <1>15 DEF SortsTurns, N
<1>. QED  BY <1>8, <1>16 DEF N

\* So the sorted turns are turns of the same speakers.
LEMMA SortTurnsType ==
    ASSUME NEW S \in SUBSET Int, NEW pieces \in Seq(Pieces(S))
    PROVE  SortTurns(pieces) \in Seq(Pieces(S))
<1>1. PICK order : /\ SortsTurns(order, pieces)
                   /\ SortTurns(pieces) = [k \in 1..Len(pieces) |-> pieces[order[k]]]
  BY TurnsPermuted
<1>2. order \in [1..Len(pieces) -> 1..Len(pieces)]
  BY <1>1 DEF SortsTurns
<1>. QED  BY <1>1, <1>2, PermutedType

-----------------------------------------------------------------------------
(* Merging and smoothing *)

\* the merge rule, and what it does with the next piece
CanMerge(p, q) == p.speaker = q.speaker /\ Gap(p, q) <= MergeGap /\ ~EndsSentence(p.text)

Merged(merged, q) ==
    IF merged # <<>> /\ CanMerge(Last(merged), q)
    THEN [merged EXCEPT ![Len(merged)].to = Larger(@, q.to), ![Len(merged)].text = @ \o q.text]
    ELSE Append(merged, q)

\* Merging joins the last turn with the next piece whenever the rule allows it, and neither turn of
\* an earlier pair changes in what the rule looks at: the turns stay apart.
LEMMA ExtendKeepsApart ==
    ASSUME NEW S, NEW merged \in Seq(Pieces(S)), Apart(merged), NEW q \in Pieces(S)
    PROVE  Merged(merged, q) \in Seq(Pieces(S)) /\ Apart(Merged(merged, q))
<1> DEFINE n == Len(merged)
           joins == CanMerge(Last(merged), q)
           joined == [merged EXCEPT ![Len(merged)].to = Larger(@, q.to),
                                    ![Len(merged)].text = @ \o q.text]
<1>1. n \in Nat /\ DOMAIN merged = 1..n /\ \A i \in 1..n : merged[i] \in Pieces(S)
  BY Indices
<1>2. q.from \in Int /\ q.to \in Int /\ q.text \in Seq(Phrases) /\ q.text # <<>>
  BY DEF Pieces, Texts
<1>3. CASE merged # <<>> /\ joins
  <2> DEFINE last == merged[n]
             longer == [last EXCEPT !.to = Larger(@, q.to), !.text = @ \o q.text]
  <2>1. n \in 1..n /\ last \in Pieces(S)
    BY <1>1, <1>3
  <2>2. last.to \in Int /\ last.text \in Seq(Phrases) /\ last.text # <<>>
    BY <2>1 DEF Pieces, Texts
  <2>3. Larger(last.to, q.to) \in Int
    BY <1>2, <2>2 DEF Larger
  <2>4. last.text \o q.text \in Seq(Phrases) /\ last.text \o q.text # <<>>
    BY <1>2, <2>2
  <2>5. longer \in Pieces(S) /\ longer.speaker = last.speaker /\ longer.from = last.from
    BY <2>1, <2>3, <2>4 DEF Pieces, Texts
  <2>6. joined = [merged EXCEPT ![n] = longer]
    BY <1>1, <2>1 DEF Pieces
  <2> HIDE DEF longer
  <2>7. joined \in Seq(Pieces(S)) /\ Len(joined) = n
    BY <1>1, <2>1, <2>5, <2>6
  <2>8. \A i \in 1..n : /\ i # n => joined[i] = merged[i]
                        /\ joined[i].speaker = merged[i].speaker
                        /\ joined[i].from = merged[i].from
    BY <1>1, <2>1, <2>5, <2>6
  <2> HIDE DEF joined, n
  <2>9. Apart(joined)
    <3>1. SUFFICES ASSUME NEW i \in 2..n
                   PROVE  \/ joined[i - 1].speaker # joined[i].speaker
                          \/ Gap(joined[i - 1], joined[i]) > MergeGap
                          \/ EndsSentence(joined[i - 1].text)
      BY <2>7 DEF Apart
    <3>2. i \in 1..n /\ i - 1 \in 1..n /\ i - 1 # n
      BY <1>1
    <3>3. joined[i - 1] = merged[i - 1]
      BY <2>8, <3>2
    <3>4. Gap(joined[i - 1], joined[i]) = Gap(merged[i - 1], merged[i])
      BY <2>8, <3>2, <3>3 DEF Gap
    <3>5. \/ merged[i - 1].speaker # merged[i].speaker
          \/ Gap(merged[i - 1], merged[i]) > MergeGap
          \/ EndsSentence(merged[i - 1].text)
      BY DEF Apart, n
    <3>. QED  BY <2>8, <3>2, <3>3, <3>4, <3>5
  <2>. QED  BY <1>3, <2>7, <2>9 DEF joined, Merged
<1>4. CASE ~(merged # <<>> /\ joins)
  <2> DEFINE appended == Append(merged, q)
  <2>1. appended \in Seq(Pieces(S)) /\ Len(appended) = n + 1 /\ appended[n + 1] = q
    BY <1>1
  <2>2. \A i \in 1..n : appended[i] = merged[i]
    BY <1>1
  <2> HIDE DEF appended, n
  <2>3. Apart(appended)
    <3>1. SUFFICES ASSUME NEW i \in 2..(n + 1)
                   PROVE  \/ appended[i - 1].speaker # appended[i].speaker
                          \/ Gap(appended[i - 1], appended[i]) > MergeGap
                          \/ EndsSentence(appended[i - 1].text)
      BY <2>1 DEF Apart
    <3>2. CASE i \in 2..n
      <4>1. i \in 1..n /\ i - 1 \in 1..n
        BY <1>1, <3>2
      <4>2. appended[i] = merged[i] /\ appended[i - 1] = merged[i - 1]
        BY <2>2, <4>1
      <4>. QED  BY <3>2, <4>2 DEF Apart, n
    <3>3. CASE i = n + 1
      <4>1. n \in 1..n /\ i - 1 = n
        BY <1>1, <3>3
      <4>2. merged # <<>> /\ Last(merged) = merged[n]
        BY <4>1 DEF n, Last
      <4>3. appended[i] = q /\ appended[i - 1] = Last(merged)
        BY <2>1, <2>2, <3>3, <4>1, <4>2
      <4>4. Gap(Last(merged), q) \in Int /\ MergeGap \in Int
        <5>1. Last(merged).to \in Int
          BY <1>1, <4>1, <4>2 DEF Pieces
        <5>2. Gap(Last(merged), q) \in Int
          BY <1>2, <5>1 DEF Gap, Larger
        <5>3. MergeGap \in Nat
          BY GapsAreNatural
        <5>. QED  BY <5>2, <5>3
      <4>. QED  BY <1>4, <4>2, <4>3, <4>4 DEF CanMerge
    <3>. QED  BY <1>1, <3>2, <3>3
  <2>. QED  BY <1>4, <2>1, <2>3 DEF appended, Merged
<1>. QED  BY <1>3, <1>4

\* Merging goes through the sorted pieces, and the turns are apart after each.
LEMMA MergeSteps ==
    ASSUME NEW S \in SUBSET Int, NEW pieces \in Seq(Pieces(S)),
           NEW sorted, sorted = SortTurns(pieces)
    PROVE  \E g \in [0..Len(sorted) -> {m \in Seq(Pieces(S)) : Apart(m)}] :
               /\ g[0] = <<>> /\ g[Len(sorted)] = MergeTurns(pieces)
               /\ \A k \in 1..Len(sorted) : g[k] = Merged(g[k - 1], sorted[k])
<1> DEFINE n == Len(sorted)
           D == DOMAIN sorted
           V == {m \in Seq(Pieces(S)) : Apart(m)}
           Eq(f) == f = [s \in SUBSET D |-> IF s = {} THEN <<>>
                            ELSE Merged(f[s \ {Max(s)}], sorted[Max(s)])]
           F == CHOOSE f : Eq(f)
           step == [i \in D |-> [v \in V |-> Merged(v, sorted[i])]]
<1>1. MergeTurns(pieces) = F[D]
  BY DEF MergeTurns, FoldLeft, MapThenFoldSet, Merged, CanMerge
<1>2. sorted \in Seq(Pieces(S))
  BY SortTurnsType
<1>3. /\ D = 1..n /\ n \in Nat
      /\ D \in SUBSET Int /\ IsFiniteSet(D) /\ \A i \in D : sorted[i] \in Pieces(S)
  BY <1>2, Indices
<1>4. <<>> \in V
  <2>1. Len(<<>>) = 0
    OBVIOUS
  <2>. QED  BY <2>1 DEF Apart
<1>5. ASSUME NEW v \in V, NEW q \in Pieces(S)
      PROVE  Merged(v, q) \in V
  BY ExtendKeepsApart
<1> HIDE DEF V, D, n
<1>6. step \in [D -> [V -> V]]
  BY <1>3, <1>5
<1>7. \A s \in SUBSET D : s # {} => Max(s) \in D
  BY <1>3, FS_Subset, MaxMin
<1>8. Eq(F)
  <2>1. PICK f : IsLeftFold(f, D, V, <<>>, step)
    <3> HIDE DEF step
    <3>. QED  BY <1>3, <1>4, <1>6, LeftFoldExists
  <2>2. Eq(f)
    BY <1>7, <2>1 DEF IsLeftFold
  <2> HIDE DEF Eq
  <2>. QED  BY <2>2
<1> HIDE DEF F
<1>9. step \in [1..n -> [V -> V]] /\ LeftFolds(F, n, V, <<>>, step)
  <2>1. F[{}] = <<>> /\ \A s \in SUBSET D : s # {} => F[s] = Merged(F[s \ {Max(s)}], sorted[Max(s)])
    BY <1>8
  <2>. QED  BY <1>3, <1>6, <1>7, <2>1 DEF LeftFolds
<1>10. \A k \in 1..n : k \in D
  BY <1>3
<1> HIDE DEF step
<1>11. PICK g : IsRun(g, n, V, <<>>, step, F[1..n])
  BY <1>3, <1>4, <1>9, LeftFoldRuns
<1>12. ASSUME NEW k \in 1..n
       PROVE  g[k] = Merged(g[k - 1], sorted[k])
  <2>1. k - 1 \in 0..n
    BY <1>3
  <2>2. g[k] = step[k][g[k - 1]] /\ g[k - 1] \in V
    BY <1>11, <2>1 DEF IsRun
  <2>. QED  BY <1>10, <2>2 DEF step
<1>. QED  BY <1>1, <1>3, <1>11, <1>12 DEF n, V, IsRun

\* Merging gives turns of the same speakers, and no two neighbours that the rule joins.
LEMMA MergeType ==
    ASSUME NEW S \in SUBSET Int, NEW pieces \in Seq(Pieces(S))
    PROVE  MergeTurns(pieces) \in Seq(Pieces(S)) /\ Apart(MergeTurns(pieces))
<1> DEFINE sorted == SortTurns(pieces)
<1>1. sorted \in Seq(Pieces(S))
  BY SortTurnsType
<1> HIDE DEF sorted
<1>2. PICK g \in [0..Len(sorted) -> {m \in Seq(Pieces(S)) : Apart(m)}] :
        g[Len(sorted)] = MergeTurns(pieces)
  BY MergeSteps DEF sorted
<1>3. Len(sorted) \in 0..Len(sorted)
  BY <1>1, Indices
<1>. QED  BY <1>2, <1>3

\* The pass over the turns gives a turn its own speaker or a neighbour's.
LEMMA SmoothedType ==
    ASSUME NEW S, NEW pieces \in Seq(Pieces(S)), NEW i \in 1..Len(pieces), i # 1, i # Len(pieces)
    PROVE  SmoothedSpeaker(pieces, i) \in S
<1>1. \A k \in {i - 1, i, i + 1} : k \in DOMAIN pieces
  BY Indices
<1>2. \A k \in {i - 1, i, i + 1} : pieces[k].speaker \in S
  <2>1. \A k \in DOMAIN pieces : pieces[k] \in Pieces(S)
    BY Indices
  <2>2. \A k \in DOMAIN pieces : pieces[k].speaker \in S
    BY <2>1 DEF Pieces
  <2>. QED  BY <1>1, <2>2
<1>3. SmoothedSpeaker(pieces, i) \in {pieces[i - 1].speaker, pieces[i].speaker, pieces[i + 1].speaker}
  BY DEF SmoothedSpeaker
<1>. QED  BY <1>2, <1>3

\* the pieces with other speakers
Relabelled(pieces, label) == [k \in DOMAIN pieces |-> [pieces[k] EXCEPT !.speaker = label[k]]]

\* Only their speakers: the pieces say the same at the same times.
LEMMA RelabelledIs ==
    ASSUME NEW S, NEW pieces \in Seq(Pieces(S)), NEW L, NEW label \in [DOMAIN pieces -> L]
    PROVE  /\ Relabelled(pieces, label) \in Seq(Pieces(L))
           /\ Len(Relabelled(pieces, label)) = Len(pieces)
           /\ \A k \in DOMAIN pieces :
                /\ Relabelled(pieces, label)[k] = [pieces[k] EXCEPT !.speaker = label[k]]
                /\ Relabelled(pieces, label)[k].speaker = label[k]
                /\ Relabelled(pieces, label)[k].from = pieces[k].from
                /\ Relabelled(pieces, label)[k].to = pieces[k].to
                /\ Relabelled(pieces, label)[k].text = pieces[k].text
<1> DEFINE new == Relabelled(pieces, label)
<1>1. /\ DOMAIN pieces = 1..Len(pieces) /\ Len(pieces) \in Nat
      /\ \A k \in DOMAIN pieces : pieces[k] \in Pieces(S)
  BY Indices
<1>2. DOMAIN new = 1..Len(pieces)
  BY <1>1 DEF Relabelled
<1>3. \A k \in DOMAIN pieces : new[k] = [pieces[k] EXCEPT !.speaker = label[k]]
  BY DEF Relabelled
<1>4. \A k \in DOMAIN pieces : [pieces[k] EXCEPT !.speaker = label[k]] \in Pieces(L)
  BY <1>1 DEF Pieces
<1>5. \A k \in DOMAIN pieces : /\ new[k].speaker = label[k] /\ new[k].from = pieces[k].from
                               /\ new[k].to = pieces[k].to /\ new[k].text = pieces[k].text
  BY <1>1, <1>3 DEF Pieces
<1> HIDE DEF new
<1>6. new \in Seq(Pieces(L)) /\ Len(new) = Len(pieces)
  <2>1. new \in [1..Len(pieces) -> Pieces(L)]
    <3>1. \A k \in 1..Len(pieces) : new[k] \in Pieces(L)
      BY <1>1, <1>3, <1>4
    <3>2. new = [k \in 1..Len(pieces) |-> new[k]]
      BY <1>1, <1>2 DEF new, Relabelled
    <3>. QED  BY <3>1, <3>2
  <2>. QED  BY <1>1, <2>1
<1>. QED  BY <1>3, <1>5, <1>6 DEF new

\* The pass over the speakers gives every piece one of the speakers, and the merge follows.
LEMMA SmoothRelabels ==
    ASSUME NEW S \in SUBSET Int, NEW pieces \in Seq(Pieces(S))
    PROVE  \E label \in [DOMAIN pieces -> S] :
             SmoothTurns(pieces) = IF Len(pieces) < 3 THEN pieces
                                   ELSE MergeTurns(Relabelled(pieces, label))
<1> DEFINE D == DOMAIN pieces
           V == {Relabelled(pieces, label) : label \in [D -> S]}
           Relabel(ps, i) == IF i \in {1, Len(ps)} THEN ps
                             ELSE [ps EXCEPT ![i].speaker = SmoothedSpeaker(ps, i)]
           positions == [i \in D |-> i]
           F == CHOOSE f : f = [s \in SUBSET DOMAIN positions |-> IF s = {} THEN pieces
                                    ELSE Relabel(f[s \ {Max(s)}], positions[Max(s)])]
           step == [i \in D |-> [v \in V |-> Relabel(v, i)]]
<1>1. SmoothTurns(pieces) = IF Len(pieces) < 3 THEN pieces ELSE MergeTurns(F[DOMAIN positions])
  BY DEF SmoothTurns, FoldLeftDomain, FoldLeft, MapThenFoldSet
<1>2. D \in SUBSET Int /\ IsFiniteSet(D) /\ D = 1..Len(pieces) /\ \A i \in D : pieces[i] \in Pieces(S)
  BY Indices
<1>3. DOMAIN positions = D /\ \A i \in D : positions[i] = i
  OBVIOUS
<1>4. ASSUME NEW ps \in V, NEW i \in D
      PROVE  Relabel(ps, i) \in V
  <2>1. CASE i \in {1, Len(ps)}
    BY <2>1
  <2>2. CASE i \notin {1, Len(ps)}
    <3>1. PICK label \in [D -> S] : ps = Relabelled(pieces, label)
      OBVIOUS
    <3>2. ps \in Seq(Pieces(S)) /\ Len(ps) = Len(pieces)
      BY <3>1, RelabelledIs
    <3> DEFINE who == SmoothedSpeaker(ps, i)
               relabel == [label EXCEPT ![i] = who]
    <3>3. who \in S
      BY <1>2, <2>2, <3>2, SmoothedType
    <3> HIDE DEF who
    <3>4. relabel \in [D -> S]
      BY <3>3
    <3>5. [ps EXCEPT ![i].speaker = who] = Relabelled(pieces, relabel)
      <4>1. ps = [k \in D |-> [pieces[k] EXCEPT !.speaker = label[k]]]
        BY <3>1 DEF Relabelled
      <4>2. \A k \in D : [ps EXCEPT ![i].speaker = who][k] = [pieces[k] EXCEPT !.speaker = relabel[k]]
        <5>1. SUFFICES ASSUME NEW k \in D
                       PROVE  [ps EXCEPT ![i].speaker = who][k] = [pieces[k] EXCEPT !.speaker = relabel[k]]
          OBVIOUS
        <5>2. CASE k = i
          <6>1. pieces[k] \in Pieces(S) /\ ps[k] = [pieces[k] EXCEPT !.speaker = label[k]]
            BY <1>2, <4>1
          <6>2. [ps[k] EXCEPT !.speaker = who] = [pieces[k] EXCEPT !.speaker = who]
            BY <6>1 DEF Pieces
          <6>. QED  BY <4>1, <5>2, <6>2
        <5>3. CASE k # i
          BY <4>1, <5>3
        <5>. QED  BY <5>2, <5>3
      <4>3. [ps EXCEPT ![i].speaker = who] = [k \in D |-> [ps EXCEPT ![i].speaker = who][k]]
        BY <4>1
      <4> HIDE DEF relabel
      <4>. QED  BY <4>2, <4>3 DEF Relabelled
    <3> HIDE DEF relabel
    <3>6. Relabel(ps, i) = Relabelled(pieces, relabel)
      BY <2>2, <3>5 DEF who
    <3>. QED  BY <3>4, <3>6
  <2>. QED  BY <2>1, <2>2
<1>5. step \in [D -> [V -> V]]
  <2> HIDE DEF Relabel, V, D
  <2>. QED  BY <1>4
<1>6. \A s \in SUBSET D : s # {} => Max(s) \in D
  BY <1>2, FS_Subset, MaxMin
<1>7. pieces \in V
  <2> DEFINE label == [k \in D |-> pieces[k].speaker]
  <2>1. label \in [D -> S]
    BY <1>2 DEF Pieces
  <2>2. \A k \in D : [pieces[k] EXCEPT !.speaker = label[k]] = pieces[k]
    BY <1>2 DEF Pieces
  <2>3. pieces = [k \in D |-> pieces[k]]
    OBVIOUS
  <2> HIDE DEF label
  <2>4. pieces = Relabelled(pieces, label)
    BY <2>2, <2>3 DEF Relabelled
  <2>. QED  BY <2>1, <2>4
<1> HIDE DEF Relabel, V, D, positions
<1>8. F = [s \in SUBSET D |-> IF s = {} THEN pieces ELSE Relabel(F[s \ {Max(s)}], Max(s))]
  <2>1. PICK f : IsLeftFold(f, D, V, pieces, step)
    <3> HIDE DEF step
    <3>. QED  BY <1>2, <1>5, <1>7, LeftFoldExists
  <2>2. ASSUME NEW s \in SUBSET D, s # {}
        PROVE  f[s] = Relabel(f[s \ {Max(s)}], Max(s)) /\ positions[Max(s)] = Max(s)
    <3>1. f[s \ {Max(s)}] \in V /\ Max(s) \in D /\ f[s] = step[Max(s)][f[s \ {Max(s)}]]
      BY <1>6, <2>1, <2>2 DEF IsLeftFold
    <3>. QED  BY <1>3, <3>1
  <2>3. f = [s \in SUBSET D |-> IF s = {} THEN pieces
                                ELSE Relabel(f[s \ {Max(s)}], positions[Max(s)])]
    BY <2>1, <2>2 DEF IsLeftFold
  <2>4. F = [s \in SUBSET DOMAIN positions |-> IF s = {} THEN pieces
                                    ELSE Relabel(F[s \ {Max(s)}], positions[Max(s)])]
    BY <1>3, <2>3
  <2> HIDE DEF F
  <2>. QED  BY <1>3, <1>6, <2>4
<1> HIDE DEF F
<1>9. F[{}] \in V
  BY <1>7, <1>8
<1>10. ASSUME NEW s \in SUBSET D, s # {}, Max(s) \in D, F[s \ {Max(s)}] \in V
       PROVE  F[s] \in V
  <2>1. F[s] = Relabel(F[s \ {Max(s)}], Max(s))
    BY <1>8, <1>10
  <2>. QED  BY <1>4, <1>10, <2>1
<1>11. \A s \in SUBSET D : s # {} /\ Max(s) \in D /\ F[s \ {Max(s)}] \in V => F[s] \in V
  BY <1>10
<1>12. F[D] \in V
  <2> HIDE DEF step
  <2>1. \A s \in SUBSET D : F[s] \in V
    BY <1>2, <1>9, <1>11, LeftFoldIsIn
  <2>. QED  BY <2>1
<1>13. PICK label \in [D -> S] : F[D] = Relabelled(pieces, label)
  BY <1>12 DEF V
<1>. QED  BY <1>1, <1>3, <1>13 DEF D

\* The pass over the speakers, and the merge after it, keep the speakers and the distance.
LEMMA SmoothType ==
    ASSUME NEW S \in SUBSET Int, NEW pieces \in Seq(Pieces(S)), Apart(pieces)
    PROVE  SmoothTurns(pieces) \in Seq(Pieces(S)) /\ Apart(SmoothTurns(pieces))
<1>1. PICK label \in [DOMAIN pieces -> S] :
        SmoothTurns(pieces) = IF Len(pieces) < 3 THEN pieces
                              ELSE MergeTurns(Relabelled(pieces, label))
  BY SmoothRelabels
<1>2. Relabelled(pieces, label) \in Seq(Pieces(S))
  BY RelabelledIs
<1>3. MergeTurns(Relabelled(pieces, label)) \in Seq(Pieces(S)) /\ Apart(MergeTurns(Relabelled(pieces, label)))
  BY <1>2, MergeType
<1>. QED  BY <1>1, <1>3

\* What every stage ends with: merge and smooth.
LEMMA SettleType ==
    ASSUME NEW S \in SUBSET Int, NEW pieces \in Seq(Pieces(S))
    PROVE  Settle(pieces) \in Seq(Pieces(S)) /\ Apart(Settle(pieces))
BY MergeType, SmoothType DEF Settle

-----------------------------------------------------------------------------
(* Who speaks *)

VoicesOf(speakers) == [speaker : speakers, from : Nat, to : Nat]

\* the order a canonical diarization is in
InOrder(diar) == \A i, j \in DOMAIN diar : i < j => diar[i].from <= diar[j].from

\* Canonical diarization segments are numbered from 1 and in the order of their start.
LEMMA CanonicalizeType ==
    ASSUME NEW raw \in Seq(Voices)
    PROVE  Canonicalize(raw) \in Seq(VoicesOf(Nat \ {0})) /\ InOrder(Canonicalize(raw))
<1> DEFINE sorted == SortBy(raw, EarlierSpan)
           N == Len(raw)
           At(label) == {i \in 1..Len(sorted) : sorted[i].speaker = label}
           First(label) == IF At(label) # {} THEN Min(At(label)) ELSE 0
           Number(label) == Cardinality({sorted[k].speaker : k \in 1..First(label)})
           canonical == [k \in DOMAIN sorted |-> [sorted[k] EXCEPT !.speaker = Number(@)]]
<1>1. /\ sorted \in Seq(Voices) /\ Len(sorted) = N
      /\ \A i, j \in 1..N : i < j => sorted[i].from <= sorted[j].from
  <2>1. \A p \in Voices : p.from \in Int /\ p.to \in Int
    BY DEF Voices
  <2>. QED  BY <2>1, SortSpans
<1>2. N \in Nat /\ DOMAIN sorted = 1..N /\ \A i \in 1..N : sorted[i] \in Voices
  BY <1>1, Indices
<1>3. Canonicalize(raw) = canonical
  BY DEF Canonicalize, SelectInSeq
<1> HIDE DEF sorted
<1>4. ASSUME NEW i \in 1..N
      PROVE  Number(sorted[i].speaker) \in Nat \ {0}
  <2> DEFINE label == sorted[i].speaker
             m == Min(At(label))
             image == {sorted[k].speaker : k \in 1..m}
             speakerAt == [k \in 1..m |-> sorted[k].speaker]
  <2>1. i \in At(label) /\ At(label) \in SUBSET (1..N) /\ 1..N \in SUBSET Int
    BY <1>1
  <2>2. IsFiniteSet(1..N)
    BY <1>2, FS_Interval
  <2> HIDE DEF At
  <2>3. IsFiniteSet(At(label)) /\ At(label) \in SUBSET Int /\ At(label) # {}
    BY <2>1, <2>2, FS_Subset
  <2>4. m \in 1..N
    BY <2>1, <2>3, MaxMin
  <2>5. Number(label) = Cardinality(image)
    BY <2>3
  <2>6. IsFiniteSet(1..m)
    BY <2>4, FS_Interval
  <2>7. speakerAt \in Surjection(1..m, image)
    BY DEF Surjection
  <2>8. sorted[1].speaker \in image
    BY <2>4
  <2> HIDE DEF image, speakerAt
  <2>9. IsFiniteSet(image)
    BY <2>6, <2>7, FS_Surjection
  <2>10. Cardinality(image) \in Nat /\ Cardinality(image) # 0
    BY <2>8, <2>9, FS_CardinalityType, FS_EmptySet
  <2>. QED  BY <2>5, <2>10
<1> HIDE DEF Number
<1>5. \A k \in 1..N : canonical[k] \in VoicesOf(Nat \ {0})
  BY <1>2, <1>4 DEF Voices, VoicesOf
<1>6. \A k \in 1..N : canonical[k].from = sorted[k].from
  BY <1>2 DEF Voices
<1>7. DOMAIN canonical = 1..N
  BY <1>2
<1>8. canonical \in Seq(VoicesOf(Nat \ {0}))
  BY <1>2, <1>5
<1> HIDE DEF canonical
<1>. QED  BY <1>1, <1>3, <1>6, <1>7, <1>8 DEF InOrder

\* Of finitely many indices with integer weights there is a first one with the largest weight.
LEMMA FirstLargest ==
    ASSUME NEW K \in SUBSET Int, IsFiniteSet(K), K # {}, NEW w \in [K -> Int]
    PROVE  \E k \in K : \A j \in K : w[k] > w[j] \/ (w[k] = w[j] /\ k <= j)
<1> DEFINE Best(t, k) == k \in t /\ \A j \in t : w[k] > w[j] \/ (w[k] = w[j] /\ k <= j)
           T == {t \in SUBSET K : t # {} => \E k : Best(t, k)}
<1>1. {} \in T
  OBVIOUS
<1>2. ASSUME NEW t \in SUBSET K, t # {}
      PROVE  \E e \in t : t \ {e} \in T => t \in T
  <2>1. PICK e \in t : TRUE
    BY <1>2
  <2>2. ASSUME t \ {e} \in T
        PROVE  \E k : Best(t, k)
    <3>1. CASE t \ {e} = {}
      <4>1. \A j \in t : w[e] = w[j] /\ e <= j
        BY <3>1
      <4>2. Best(t, e)
        BY <4>1
      <4> HIDE DEF Best
      <4>. QED  BY <4>2
    <3>2. CASE t \ {e} # {}
      <4>1. PICK k : Best(t \ {e}, k)
        BY <2>2, <3>2
      <4>2. k \in Int /\ w[k] \in Int /\ e \in Int /\ w[e] \in Int /\ k \in t /\ k # e
        BY <2>1, <4>1
      <4>3. \A j \in t : j \in Int /\ w[j] \in Int
        OBVIOUS
      <4>4. CASE w[e] > w[k] \/ (w[e] = w[k] /\ e <= k)
        <5>1. \A j \in t : w[e] > w[j] \/ (w[e] = w[j] /\ e <= j)
          BY <4>1, <4>2, <4>3, <4>4
        <5>2. Best(t, e)
          BY <5>1
        <5> HIDE DEF Best
        <5>. QED  BY <5>2
      <4>5. CASE ~(w[e] > w[k] \/ (w[e] = w[k] /\ e <= k))
        <5>1. \A j \in t : w[k] > w[j] \/ (w[k] = w[j] /\ k <= j)
          BY <4>1, <4>2, <4>3, <4>5
        <5>2. Best(t, k)
          BY <4>2, <5>1
        <5> HIDE DEF Best
        <5>. QED  BY <5>2
      <4>. QED  BY <4>4, <4>5
    <3>. QED  BY <3>1, <3>2
  <2> HIDE DEF Best
  <2>. QED  BY <2>2
<1> HIDE DEF T
<1>3. SUBSET K \subseteq T
  BY <1>1, <1>2, SubsetInduction
<1> USE DEF T
<1>. QED  BY <1>3

\* The overlap of a piece with a segment, and with a speaker: a sum over the speaker's segments.
LEMMA OverlapIsNatural ==
    ASSUME NEW p, p.from \in Int, p.to \in Int, NEW d \in Voices
    PROVE  Overlap(p, d) \in Nat
<1>1. d.from \in Int /\ d.to \in Int
  BY DEF Voices
<1>. QED  BY <1>1 DEF Overlap, Larger

OverlapSum(f, speaker, p, ks, diar) ==
    IsSum(f, ks, [k \in ks |-> IF diar[k].speaker = speaker THEN Overlap(p, diar[k]) ELSE 0])

\* OverlapOf is a sum in the sense of the fold lemmas.
LEMMA OverlapIsSum ==
    ASSUME NEW speaker, NEW p, p.from \in Int, p.to \in Int, NEW diar \in Seq(Voices),
           NEW ks \in SUBSET DOMAIN diar
    PROVE  \E f : /\ OverlapSum(f, speaker, p, ks, diar)
                  /\ OverlapOf(speaker, p, ks, diar) = f[ks]
                  /\ f[ks] \in Nat
<1> DEFINE w == [k \in ks |-> IF diar[k].speaker = speaker THEN Overlap(p, diar[k]) ELSE 0]
           x(s) == CHOOSE k \in s : TRUE
           Eq(f) == f = [s \in SUBSET ks |-> IF s = {} THEN 0
                            ELSE (IF diar[x(s)].speaker = speaker THEN Overlap(p, diar[x(s)]) ELSE 0)
                                 + f[s \ {x(s)}]]
           F == CHOOSE f : Eq(f)
<1>1. IsFiniteSet(ks) /\ \A k \in ks : diar[k] \in Voices
  BY Indices, FS_Subset
<1>2. w \in [ks -> Nat]
  BY <1>1, OverlapIsNatural
<1>3. OverlapOf(speaker, p, ks, diar) = F[ks]
  BY DEF OverlapOf, MapThenSumSet, MapThenFoldSet
<1>4. \A s \in SUBSET ks : s # {} =>
        w[x(s)] = IF diar[x(s)].speaker = speaker THEN Overlap(p, diar[x(s)]) ELSE 0
  OBVIOUS
<1>5. PICK f : IsSum(f, ks, w)
  <2> HIDE DEF w
  <2>. QED  BY <1>1, <1>2, SumExists
<1>6. Eq(f)
  <2>1. /\ f \in [SUBSET ks -> Nat]
        /\ \A s \in SUBSET ks : f[s] = IF s = {} THEN 0 ELSE w[x(s)] + f[s \ {x(s)}]
    BY <1>5 DEF IsSum
  <2> HIDE DEF w, x
  <2>. QED  BY <1>4, <2>1
<1>7. Eq(F)
  <2> HIDE DEF Eq
  <2>. QED  BY <1>6
<1> HIDE DEF F
<1>8. IsSum(F, ks, w)
  <2>1. F = [s \in SUBSET ks |-> IF s = {} THEN 0 ELSE w[x(s)] + F[s \ {x(s)}]]
    <3> HIDE DEF w, x
    <3>. QED  BY <1>4, <1>7
  <2>2. f = [s \in SUBSET ks |-> IF s = {} THEN 0 ELSE w[x(s)] + f[s \ {x(s)}]]
    <3> HIDE DEF w, x
    <3>. QED  BY <1>4, <1>6
  <2> DEFINE T == {s \in SUBSET ks : F[s] = f[s]}
  <2>3. {} \in T
    BY <2>1, <2>2
  <2>4. ASSUME NEW s \in SUBSET ks, s # {}
        PROVE  \E e \in s : s \ {e} \in T => s \in T
    <3>1. x(s) \in s
      BY <2>4
    <3>2. F[s] = w[x(s)] + F[s \ {x(s)}] /\ f[s] = w[x(s)] + f[s \ {x(s)}]
      <4> HIDE DEF w, x
      <4>. QED  BY <2>1, <2>2, <2>4
    <3> HIDE DEF x, w
    <3>3. s \ {x(s)} \in T => s \in T
      BY <3>2
    <3> HIDE DEF T
    <3>. QED  BY <3>1, <3>3
  <2> HIDE DEF T
  <2>5. SUBSET ks \subseteq T
    BY <1>1, <2>3, <2>4, SubsetInduction
  <2> USE DEF T
  <2> HIDE DEF w, x
  <2>6. F = f
    BY <2>1, <2>2, <2>5
  <2>. QED  BY <1>5, <2>6
<1>9. F[ks] \in Nat
  BY <1>8 DEF IsSum
<1> HIDE DEF w
<1>10. OverlapSum(F, speaker, p, ks, diar)
  BY <1>8 DEF OverlapSum, w
<1>. QED  BY <1>3, <1>9, <1>10

\* Where segments were scanned, the speaker of one of them is taken, one with the largest overlap.
LEMMA SpeakerAtIsBest ==
    ASSUME NEW p, p.from \in Int, p.to \in Int, NEW diar \in Seq(Voices), NEW fallback
    PROVE  LET ks == Scanned(p, diar)
               Shared(k) == OverlapOf(diar[k].speaker, p, ks, diar)
           IN  /\ ks \in SUBSET DOMAIN diar
               /\ ks = {} => SpeakerAt(p, diar, fallback) = fallback
               /\ ks # {} => \E best \in ks : /\ SpeakerAt(p, diar, fallback) = diar[best].speaker
                                              /\ \A j \in ks : Shared(j) <= Shared(best)
<1> DEFINE ks == Scanned(p, diar)
           Shared(k) == OverlapOf(diar[k].speaker, p, ks, diar)
           w == [k \in ks |-> Shared(k)]
           First(k) == k \in ks /\ \A j \in ks : Shared(k) > Shared(j) \/ (Shared(k) = Shared(j) /\ k <= j)
           best == CHOOSE k \in ks : \A j \in ks :
                       Shared(k) > Shared(j) \/ (Shared(k) = Shared(j) /\ k <= j)
<1>1. ks \in SUBSET DOMAIN diar
  BY DEF Scanned
<1>2. SpeakerAt(p, diar, fallback) = IF ks = {} THEN fallback ELSE diar[best].speaker
  BY DEF SpeakerAt
<1>3. IsFiniteSet(ks) /\ ks \in SUBSET Int
  BY <1>1, Indices, FS_Subset
<1> HIDE DEF ks
<1>4. \A k \in ks : Shared(k) \in Nat
  BY <1>1, OverlapIsSum
<1> HIDE DEF Shared
<1>5. ASSUME ks # {}
      PROVE  First(best)
  <2>1. w \in [ks -> Int]
    BY <1>4
  <2>2. \E k \in ks : \A j \in ks : w[k] > w[j] \/ (w[k] = w[j] /\ k <= j)
    <3> HIDE DEF w
    <3>. QED  BY <1>3, <1>5, <2>1, FirstLargest
  <2>3. \E k \in ks : \A j \in ks : Shared(k) > Shared(j) \/ (Shared(k) = Shared(j) /\ k <= j)
    BY <2>2
  <2>. QED  BY <2>3
<1> HIDE DEF best
<1>6. ks # {} => best \in ks /\ \A j \in ks : Shared(j) <= Shared(best)
  BY <1>4, <1>5
<1>. QED  BY <1>1, <1>2, <1>6 DEF ks, Shared

\* The speaker of a piece is one of the diarization, or the fallback.
LEMMA SpeakerAtType ==
    ASSUME NEW L \in SUBSET Nat, NEW p, p.from \in Int, p.to \in Int,
           NEW diar \in Seq(VoicesOf(L)), NEW fallback \in L
    PROVE  SpeakerAt(p, diar, fallback) \in L
<1>1. \A k \in DOMAIN diar : diar[k] \in VoicesOf(L)
  BY Indices
<1>2. \A k \in DOMAIN diar : diar[k].speaker \in L
  BY <1>1 DEF VoicesOf
<1>3. diar \in Seq(Voices)
  <2>1. VoicesOf(L) \subseteq Voices
    BY DEF VoicesOf, Voices
  <2>2. DOMAIN diar = 1..Len(diar) /\ Len(diar) \in Nat
    BY Indices
  <2>. QED  BY <1>1, <2>1, <2>2
<1>4. Scanned(p, diar) = {} \/ \E best \in DOMAIN diar : SpeakerAt(p, diar, fallback) = diar[best].speaker
  BY <1>3, SpeakerAtIsBest
<1>5. Scanned(p, diar) = {} => SpeakerAt(p, diar, fallback) = fallback
  BY <1>3, SpeakerAtIsBest
<1>. QED  BY <1>2, <1>4, <1>5

\* The scan, which stops at the first segment that starts after the piece, misses no overlap.
LEMMA ScanMissesNothing ==
    ASSUME NEW p, p.from \in Int, p.to \in Int, NEW diar \in Seq(Voices), InOrder(diar),
           NEW k \in DOMAIN diar, Overlap(p, diar[k]) > 0
    PROVE  k \in Scanned(p, diar)
<1> DEFINE after == {i \in 1..Len(diar) : diar[i].to >= p.from /\ diar[i].from > p.to}
           stop == IF after # {} THEN Min(after) ELSE 0
<1>1. DOMAIN diar = 1..Len(diar) /\ Len(diar) \in Nat /\ \A i \in DOMAIN diar : diar[i] \in Voices
  BY Indices
<1>2. \A i \in DOMAIN diar : diar[i].from \in Int /\ diar[i].to \in Int
  BY <1>1 DEF Voices
<1>3. Scanned(p, diar) = {i \in DOMAIN diar : (stop = 0 \/ i < stop) /\ Overlap(p, diar[i]) > 0}
  BY DEF Scanned, SelectInSeq
<1>4. after # {} => stop \in after
  <2>1. IsFiniteSet(1..Len(diar)) /\ after \in SUBSET (1..Len(diar)) /\ 1..Len(diar) \in SUBSET Int
    BY <1>1, FS_Interval
  <2> HIDE DEF after
  <2>2. IsFiniteSet(after) /\ after \in SUBSET Int
    BY <2>1, FS_Subset
  <2>. QED  BY <2>2, MaxMin
<1>5. after = {} => stop = 0
  OBVIOUS
<1>6. after # {} => stop \in DOMAIN diar /\ diar[stop].from > p.to
  BY <1>1, <1>4
<1>7. diar[k].from <= p.to
  BY <1>2 DEF Overlap, Larger
<1> HIDE DEF after, stop
<1>8. after # {} => k < stop
  <2>1. SUFFICES ASSUME after # {}, ~(k < stop)
                 PROVE  FALSE
    OBVIOUS
  <2>2. stop \in Int /\ k \in Int /\ stop \in DOMAIN diar
    BY <1>1, <1>6, <2>1
  <2>3. diar[stop].from <= diar[k].from
    <3>1. CASE k = stop
      BY <1>2, <3>1
    <3>2. CASE k # stop
      BY <2>1, <2>2, <3>2 DEF InOrder
    <3>. QED  BY <3>1, <3>2
  <2>4. diar[stop].from \in Int /\ diar[k].from \in Int /\ diar[stop].from > p.to
    BY <1>2, <1>6, <2>1, <2>2
  <2>. QED  BY <1>7, <2>3, <2>4
<1>. QED  BY <1>3, <1>5, <1>8

\* A speaker's overlap is not 0 only if one of the segments is the speaker's and overlaps.
LEMMA PositiveOverlap ==
    ASSUME NEW speaker, NEW p, p.from \in Int, p.to \in Int, NEW diar \in Seq(Voices),
           NEW ks \in SUBSET DOMAIN diar, OverlapOf(speaker, p, ks, diar) > 0
    PROVE  \E k \in ks : diar[k].speaker = speaker /\ Overlap(p, diar[k]) > 0
<1> DEFINE w == [k \in ks |-> IF diar[k].speaker = speaker THEN Overlap(p, diar[k]) ELSE 0]
<1>1. IsFiniteSet(ks) /\ \A k \in ks : diar[k] \in Voices
  BY Indices, FS_Subset
<1>2. \A k \in ks : Overlap(p, diar[k]) \in Nat
  BY <1>1, OverlapIsNatural
<1>3. SUFFICES ASSUME \A k \in ks : ~(diar[k].speaker = speaker /\ Overlap(p, diar[k]) > 0)
               PROVE  FALSE
  OBVIOUS
<1>4. \A k \in ks : w[k] = 0
  BY <1>2, <1>3
<1>5. PICK f : OverlapSum(f, speaker, p, ks, diar) /\ OverlapOf(speaker, p, ks, diar) = f[ks]
  BY OverlapIsSum
<1>6. w \in [ks -> Nat] /\ IsSum(f, ks, w)
  BY <1>2, <1>5 DEF OverlapSum
<1> HIDE DEF w
<1>7. ks \in SUBSET ks /\ {} \in SUBSET ks /\ \A k \in ks \ {} : w[k] = 0
  BY <1>4
<1>8. f[ks] = f[{}]
  BY <1>1, <1>5, <1>6, <1>7, SumOfSupport
<1>9. f[{}] = 0
  BY <1>6 DEF IsSum
<1>. QED  BY <1>5, <1>8, <1>9

\* The overlap over the scanned segments is the overlap over all segments.
LEMMA ScannedIsWhole ==
    ASSUME NEW speaker, NEW p, p.from \in Int, p.to \in Int, NEW diar \in Seq(Voices), InOrder(diar)
    PROVE  OverlapOf(speaker, p, Scanned(p, diar), diar) = OverlapOf(speaker, p, DOMAIN diar, diar)
<1> DEFINE K == DOMAIN diar
           ks == Scanned(p, diar)
           weight(k) == IF diar[k].speaker = speaker THEN Overlap(p, diar[k]) ELSE 0
           w == [k \in K |-> weight(k)]
           v == [k \in ks |-> weight(k)]
<1>1. IsFiniteSet(K) /\ \A k \in K : diar[k] \in Voices
  BY Indices
<1>2. ks \in SUBSET K
  BY DEF Scanned
<1>3. \A k \in K : Overlap(p, diar[k]) \in Nat
  BY <1>1, OverlapIsNatural
<1>4. PICK f : OverlapSum(f, speaker, p, K, diar) /\ OverlapOf(speaker, p, K, diar) = f[K]
  BY OverlapIsSum
<1>5. PICK g : OverlapSum(g, speaker, p, ks, diar) /\ OverlapOf(speaker, p, ks, diar) = g[ks]
  BY <1>2, OverlapIsSum
<1>6. \A k \in K \ ks : w[k] = 0
  <2>1. SUFFICES ASSUME NEW k \in K \ ks
                 PROVE  Overlap(p, diar[k]) = 0
    OBVIOUS
  <2>2. ~(Overlap(p, diar[k]) > 0)
    BY ScanMissesNothing
  <2>. QED  BY <1>3, <2>2
<1>7. w \in [K -> Nat] /\ v \in [ks -> Nat] /\ \A k \in ks : v[k] = w[k]
  BY <1>2, <1>3
<1>8. IsSum(f, K, w) /\ IsSum(g, ks, v)
  BY <1>4, <1>5 DEF OverlapSum
<1> HIDE DEF w, v, K, ks
<1>9. g[ks] = f[ks]
  <2>1. Agree(g, ks, v, f, K, w)
    BY <1>1, <1>2, <1>7, <1>8 DEF Agree
  <2>2. ks \in SUBSET ks /\ \A s \in SUBSET ks : g[s] = f[s]
    BY <2>1, SumIsUnique
  <2>. QED  BY <2>2
<1>10. f[K] = f[ks]
  <2>1. K \in SUBSET K /\ ks \in SUBSET K
    BY <1>2
  <2>. QED  BY <1>1, <1>6, <1>7, <1>8, <2>1, SumOfSupport
<1>. QED  BY <1>4, <1>5, <1>9, <1>10 DEF K, ks

\* The speaker the scan finds has the largest overlap among all.
LEMMA SpeakerAtWins ==
    ASSUME NEW p, p.from \in Int, p.to \in Int, NEW diar \in Seq(Voices), InOrder(diar),
           NEW fallback,
           NEW m \in DOMAIN diar, OverlapOf(diar[m].speaker, p, DOMAIN diar, diar) > 0,
           NEW n \in DOMAIN diar
    PROVE  OverlapOf(diar[n].speaker, p, DOMAIN diar, diar) <=
               OverlapOf(SpeakerAt(p, diar, fallback), p, DOMAIN diar, diar)
<1> DEFINE ks == Scanned(p, diar)
           Whole(s) == OverlapOf(s, p, DOMAIN diar, diar)
           Shared(s) == OverlapOf(s, p, ks, diar)
<1>1. \A s : Whole(s) = Shared(s) /\ Whole(s) \in Nat
  <2>1. \A s : Whole(s) = Shared(s)
    BY ScannedIsWhole
  <2>2. \A s : Whole(s) \in Nat
    BY OverlapIsSum
  <2>. QED  BY <2>1, <2>2
<1>2. ASSUME NEW j \in DOMAIN diar, Whole(diar[j].speaker) > 0
      PROVE  \E k \in ks : diar[k].speaker = diar[j].speaker
  <2>1. PICK k \in DOMAIN diar : diar[k].speaker = diar[j].speaker /\ Overlap(p, diar[k]) > 0
    BY <1>2, PositiveOverlap
  <2>2. k \in ks
    BY <2>1, ScanMissesNothing
  <2>. QED  BY <2>1, <2>2
<1>3. ks # {}
  BY <1>2
<1>4. PICK best \in ks : /\ SpeakerAt(p, diar, fallback) = diar[best].speaker
                         /\ \A j \in ks : Shared(diar[j].speaker) <= Shared(diar[best].speaker)
  BY <1>3, SpeakerAtIsBest
<1> HIDE DEF Whole, Shared, ks
<1>5. Whole(diar[n].speaker) <= Whole(diar[best].speaker)
  <2>1. CASE Whole(diar[n].speaker) > 0
    <3>1. PICK k \in ks : diar[k].speaker = diar[n].speaker
      BY <1>2, <2>1
    <3>2. Shared(diar[k].speaker) <= Shared(diar[best].speaker)
      BY <1>4
    <3>. QED  BY <1>1, <3>1, <3>2
  <2>2. CASE ~(Whole(diar[n].speaker) > 0)
    <3>1. Whole(diar[n].speaker) = 0 /\ Whole(diar[best].speaker) \in Nat
      BY <1>1, <2>2
    <3>. QED  BY <3>1
  <2>. QED  BY <2>1, <2>2
<1>. QED  BY <1>4, <1>5 DEF Whole

\* So is the speaker of the nearest segment.
LEMMA NearestType ==
    ASSUME NEW L, NEW p, p.from \in Int, p.to \in Int,
           NEW diar \in Seq(VoicesOf(L)), diar # <<>>, NEW fallback \in L
    PROVE  NearestSpeaker(p, diar, fallback) \in L
<1> DEFINE D == DOMAIN diar
           Distance(k) == LET a == Absolute(p.from + p.to - 2 * diar[k].from)
                              b == Absolute(p.from + p.to - 2 * diar[k].to)
                          IN  IF a < b THEN a ELSE b
           w == [k \in D |-> -Distance(k)]
           nearest == CHOOSE k \in D : \A j \in D :
                          Distance(k) < Distance(j) \/ (Distance(k) = Distance(j) /\ k <= j)
<1>1. NearestSpeaker(p, diar, fallback) =
        IF Distance(nearest) <= 2 * NearGap THEN diar[nearest].speaker ELSE fallback
  BY DEF NearestSpeaker
<1>2. /\ D \in SUBSET Int /\ IsFiniteSet(D) /\ D # {}
      /\ \A k \in D : diar[k] \in VoicesOf(L)
  BY Indices
<1>3. \A k \in D : diar[k].speaker \in L /\ diar[k].from \in Int /\ diar[k].to \in Int
  BY <1>2 DEF VoicesOf
<1>4. \A k \in D : Distance(k) \in Int
  <2>1. \A a, b, c \in Int : Absolute(a + b - 2 * c) \in Int
    <3>1. \A n \in Int : Absolute(n) \in Int
      BY DEF Absolute, Larger
    <3>2. \A a, b, c \in Int : a + b - 2 * c \in Int
      OBVIOUS
    <3>. QED  BY <3>1, <3>2
  <2> HIDE DEF D
  <2>. QED  BY <1>3, <2>1
<1> HIDE DEF D, Distance
<1>5. nearest \in D
  <2>1. w \in [D -> Int]
    BY <1>4
  <2>2. \E k \in D : \A j \in D : w[k] > w[j] \/ (w[k] = w[j] /\ k <= j)
    <3> HIDE DEF w
    <3>. QED  BY <1>2, <2>1, FirstLargest
  <2>3. PICK k \in D : \A j \in D : w[k] > w[j] \/ (w[k] = w[j] /\ k <= j)
    BY <2>2
  <2>4. \A j \in D : -Distance(k) > -Distance(j) \/ (-Distance(k) = -Distance(j) /\ k <= j)
    BY <2>3
  <2>5. \A j \in D : Distance(k) < Distance(j) \/ (Distance(k) = Distance(j) /\ k <= j)
    BY <1>4, <2>4
  <2>. QED  BY <2>5
<1> HIDE DEF nearest
<1>. QED  BY <1>1, <1>3, <1>5

\* g appends one piece after the other, with a speaker of its own.
AppendsLabelled(g, n, pieces, L) ==
    /\ n = Len(pieces) /\ g \in [0..n -> Seq(Pieces(L))] /\ g[0] = <<>>
    /\ \A k \in 1..n : \E s \in L : g[k] = Append(g[k - 1], [pieces[k] EXCEPT !.speaker = s])

\* Such a pass only relabels the pieces.
LEMMA AppendedLabels ==
    ASSUME NEW S, NEW pieces \in Seq(Pieces(S)), NEW L, NEW n, NEW g, AppendsLabelled(g, n, pieces, L)
    PROVE  \E label \in [DOMAIN pieces -> L] : g[n] = Relabelled(pieces, label)
<1> USE DEF AppendsLabelled
<1> DEFINE Spoke(k, i) == g[k][i].speaker \in L /\ g[k][i] = [pieces[i] EXCEPT !.speaker = g[k][i].speaker]
           T == {k \in 0..n : Len(g[k]) = k /\ \A i \in 1..k : Spoke(k, i)}
<1>1. /\ DOMAIN pieces = 1..n /\ n \in Nat
      /\ \A k \in 1..n : pieces[k] \in Pieces(S)
  BY Indices
<1>2. 0 \in T
  <2>1. Len(<<>>) = 0 /\ 1..0 = {} /\ 0 \in 0..n
    BY <1>1
  <2>. QED  BY <2>1
<1>3. ASSUME NEW k \in 1..n, k - 1 \in T
      PROVE  k \in T
  <2>1. k - 1 \in 0..n /\ k \in 0..n /\ g[k - 1] \in Seq(Pieces(L)) /\ Len(g[k - 1]) = k - 1
    BY <1>1, <1>3
  <2>2. PICK s \in L : g[k] = Append(g[k - 1], [pieces[k] EXCEPT !.speaker = s])
    OBVIOUS
  <2> DEFINE p == [pieces[k] EXCEPT !.speaker = s]
  <2>3. p.speaker = s /\ p = [pieces[k] EXCEPT !.speaker = p.speaker]
    <3>1. pieces[k] \in Pieces(S)
      BY <1>1
    <3>. QED  BY <3>1 DEF Pieces
  <2> HIDE DEF p
  <2>4. /\ Len(g[k]) = k /\ g[k][k] = p
        /\ \A i \in 1..(k - 1) : g[k][i] = g[k - 1][i]
    BY <1>1, <2>1, <2>2 DEF p
  <2>5. \A i \in 1..(k - 1) : Spoke(k - 1, i)
    BY <1>3
  <2>6. \A i \in 1..k : Spoke(k, i)
    <3>1. SUFFICES ASSUME NEW i \in 1..k
                   PROVE  Spoke(k, i)
      OBVIOUS
    <3>2. CASE i = k
      BY <2>2, <2>3, <2>4, <3>2
    <3>3. CASE i # k
      <4>1. i \in 1..(k - 1)
        BY <1>1, <3>3
      <4>. QED  BY <2>4, <2>5, <4>1
    <3>. QED  BY <3>2, <3>3
  <2>. QED  BY <2>1, <2>4, <2>6
<1> HIDE DEF T
<1>4. \A k \in 0..n : k \in T
  BY <1>1, <1>2, <1>3, StepInduction
<1>5. n \in T
  BY <1>1, <1>4
<1> USE DEF T
<1> DEFINE label == [i \in 1..n |-> g[n][i].speaker]
<1>6. label \in [DOMAIN pieces -> L]
  BY <1>1, <1>5
<1>7. g[n] = Relabelled(pieces, label)
  <2>1. g[n] \in Seq(Pieces(L)) /\ Len(g[n]) = n
    BY <1>1, <1>5
  <2>2. g[n] = [i \in 1..n |-> g[n][i]]
    BY <2>1
  <2>3. \A i \in 1..n : g[n][i] = [pieces[i] EXCEPT !.speaker = label[i]]
    BY <1>5
  <2> HIDE DEF label, T
  <2>4. Relabelled(pieces, label) = [i \in 1..n |-> [pieces[i] EXCEPT !.speaker = label[i]]]
    BY <1>1 DEF Relabelled
  <2>. QED  BY <2>2, <2>3, <2>4
<1>. QED  BY <1>6, <1>7

\* Every piece gets a speaker of the diarization.
LEMMA DiarizationRelabels ==
    ASSUME NEW S, NEW pieces \in Seq(Pieces(S)), NEW L \in SUBSET Nat,
           NEW diar \in Seq(VoicesOf(L)), diar # <<>>
    PROVE  \E label \in [DOMAIN pieces -> L] :
             AssignByDiarization(pieces, diar) = Settle(Relabelled(pieces, label))
<1> DEFINE n == Len(pieces)
           D == DOMAIN pieces
           V == Seq(Pieces(L))
           Speaker(done, p) ==
               SpeakerAt(p, diar, NearestSpeaker(p, diar, LastSpeaker(done, diar)))
           Extend(done, p) == Append(done, [p EXCEPT !.speaker = Speaker(done, p)])
           Eq(f) == f = [s \in SUBSET D |-> IF s = {} THEN <<>>
                                    ELSE Extend(f[s \ {Max(s)}], pieces[Max(s)])]
           F == CHOOSE f : Eq(f)
           step == [i \in D |-> [v \in V |-> Extend(v, pieces[i])]]
<1>1. AssignByDiarization(pieces, diar) = Settle(F[D])
  BY DEF AssignByDiarization, FoldLeft, MapThenFoldSet
<1>2. /\ D = 1..n /\ n \in Nat
      /\ D \in SUBSET Int /\ IsFiniteSet(D) /\ \A i \in D : pieces[i] \in Pieces(S)
  BY Indices
<1>3. ASSUME NEW done \in V, NEW p \in Pieces(S)
      PROVE  Speaker(done, p) \in L
  <2>1. p.from \in Int /\ p.to \in Int
    BY DEF Pieces
  <2>2. LastSpeaker(done, diar) \in L
    <3>1. CASE done = <<>>
      <4>1. 1 \in DOMAIN diar /\ \A k \in DOMAIN diar : diar[k] \in VoicesOf(L)
        BY Indices
      <4>2. diar[1].speaker \in L
        BY <4>1 DEF VoicesOf
      <4>. QED  BY <3>1, <4>2 DEF LastSpeaker
    <3>2. CASE done # <<>>
      <4>1. Len(done) \in DOMAIN done /\ \A k \in DOMAIN done : done[k] \in Pieces(L)
        BY <3>2, Indices
      <4>2. done[Len(done)].speaker \in L
        BY <4>1 DEF Pieces
      <4>. QED  BY <3>2, <4>2 DEF LastSpeaker, Last
    <3>. QED  BY <3>1, <3>2
  <2>3. NearestSpeaker(p, diar, LastSpeaker(done, diar)) \in L
    BY <2>1, <2>2, NearestType
  <2>. QED  BY <2>1, <2>3, SpeakerAtType
<1> HIDE DEF Speaker
<1>4. ASSUME NEW done \in V, NEW p \in Pieces(S)
      PROVE  Extend(done, p) \in V
  <2>1. [p EXCEPT !.speaker = Speaker(done, p)] \in Pieces(L)
    BY <1>3 DEF Pieces
  <2>. QED  BY <2>1
<1>5. step \in [D -> [V -> V]]
  <2> HIDE DEF Extend, V, D
  <2>. QED  BY <1>2, <1>4
<1>6. \A s \in SUBSET D : s # {} => Max(s) \in D
  BY <1>2, FS_Subset, MaxMin
<1>7. <<>> \in V
  OBVIOUS
<1> HIDE DEF Extend, V, D, n
<1>8. Eq(F)
  <2>1. PICK f : IsLeftFold(f, D, V, <<>>, step)
    <3> HIDE DEF step
    <3>. QED  BY <1>2, <1>5, <1>7, LeftFoldExists
  <2>2. Eq(f)
    BY <1>6, <2>1 DEF IsLeftFold
  <2> HIDE DEF Eq
  <2>. QED  BY <2>2
<1> HIDE DEF F
<1>9. step \in [1..n -> [V -> V]] /\ LeftFolds(F, n, V, <<>>, step)
  <2>1. F[{}] = <<>> /\ \A s \in SUBSET D : s # {} => F[s] = Extend(F[s \ {Max(s)}], pieces[Max(s)])
    BY <1>8
  <2>. QED  BY <1>2, <1>5, <1>6, <2>1 DEF LeftFolds
<1>10. \A k \in 1..n : k \in D
  BY <1>2
<1> HIDE DEF step
<1>11. PICK g : IsRun(g, n, V, <<>>, step, F[1..n])
  BY <1>2, <1>7, <1>9, LeftFoldRuns
<1>12. ASSUME NEW k \in 1..n
       PROVE  \E s \in L : g[k] = Append(g[k - 1], [pieces[k] EXCEPT !.speaker = s])
  <2>1. k - 1 \in 0..n
    BY <1>2
  <2>2. g[k] = step[k][g[k - 1]] /\ g[k - 1] \in V
    BY <1>11, <2>1 DEF IsRun
  <2>3. g[k] = Extend(g[k - 1], pieces[k]) /\ pieces[k] \in Pieces(S)
    BY <1>2, <1>10, <2>2 DEF step
  <2>4. Speaker(g[k - 1], pieces[k]) \in L
    BY <1>3, <2>2, <2>3
  <2>. QED  BY <2>3, <2>4 DEF Extend
<1>13. \E label \in [DOMAIN pieces -> L] : g[n] = Relabelled(pieces, label)
  <2>1. AppendsLabelled(g, n, pieces, L)
    BY <1>11, <1>12 DEF V, n, IsRun, AppendsLabelled
  <2>. QED  BY <2>1, AppendedLabels
<1>. QED  BY <1>1, <1>2, <1>11, <1>13 DEF IsRun

\* The pieces with other speakers, settled.
LEMMA RelabelledType ==
    ASSUME NEW S, NEW pieces \in Seq(Pieces(S)), NEW L \in SUBSET Int,
           NEW label \in [DOMAIN pieces -> L]
    PROVE  /\ Settle(Relabelled(pieces, label)) \in Seq(Pieces(L))
           /\ Apart(Settle(Relabelled(pieces, label)))
BY RelabelledIs, SettleType

\* What is assigned are turns of the diarization's speakers.
LEMMA AssignByDiarizationType ==
    ASSUME NEW S, NEW pieces \in Seq(Pieces(S)), NEW L \in SUBSET Nat,
           NEW diar \in Seq(VoicesOf(L)), diar # <<>>
    PROVE  /\ AssignByDiarization(pieces, diar) \in Seq(Pieces(L))
           /\ Apart(AssignByDiarization(pieces, diar))
<1>1. PICK label \in [DOMAIN pieces -> L] :
        AssignByDiarization(pieces, diar) = Settle(Relabelled(pieces, label))
  BY DiarizationRelabels
<1>. QED  BY <1>1, RelabelledType, L \in SUBSET Int

\* the turn before the first word, and the state of the pass: the turns so far and the open one
Nobody == [speaker |-> 0, from |-> 0, to |-> 0, text |-> <<>>]

WordStates(L) == [done : Seq(Pieces(L)), open : Pieces(L) \union {Nobody}]

Flushed(acc) == IF IsNoise(acc.open) THEN acc.done ELSE Append(acc.done, acc.open)

WordSpeaker(acc, w, diar) ==
    SpeakerAt(w, diar, IF acc.open.text = <<>> THEN diar[1].speaker ELSE acc.open.speaker)

Breaks(acc, w, diar) == \/ acc.open.text = <<>>
                        \/ WordSpeaker(acc, w, diar) # acc.open.speaker
                        \/ Gap(acc.open, w) >= PauseGap
                        \/ EndsSentence(acc.open.text)

WithWord(acc, w, diar) ==
    IF Breaks(acc, w, diar)
    THEN [done |-> Flushed(acc), open |-> [w EXCEPT !.speaker = WordSpeaker(acc, w, diar)]]
    ELSE [acc EXCEPT !.open.to = w.to, !.open.text = @ \o w.text]

\* What is flushed are turns that say something.
LEMMA FlushedType ==
    ASSUME NEW L, NEW acc \in WordStates(L)
    PROVE  /\ Flushed(acc) \in Seq(Pieces(L)) /\ acc.done \in Seq(Pieces(L))
           /\ acc.open.text # <<>> => acc.open \in Pieces(L)
<1>1. /\ acc.done \in Seq(Pieces(L))
      /\ acc.open.text # <<>> => acc.open \in Pieces(L)
  BY DEF WordStates, Nobody
<1>2. Flushed(acc) \in Seq(Pieces(L))
  <2>1. CASE acc.open.text = <<>>
    BY <1>1, <2>1 DEF IsNoise, Flushed
  <2>2. CASE acc.open.text # <<>>
    BY <1>1, <2>2 DEF Flushed
  <2>. QED  BY <2>1, <2>2
<1>. QED  BY <1>1, <1>2

\* A word starts a turn of a speaker of the diarization, or it joins the open turn.
LEMMA WithWordIs ==
    ASSUME NEW S, NEW w \in Pieces(S), NEW L \in SUBSET Nat,
           NEW diar \in Seq(VoicesOf(L)), diar # <<>>, NEW acc \in WordStates(L)
    PROVE  /\ WithWord(acc, w, diar) \in WordStates(L)
           /\ \/ \E s \in L : /\ [w EXCEPT !.speaker = s] \in Pieces(L)
                              /\ WithWord(acc, w, diar)
                                   = [done |-> Flushed(acc), open |-> [w EXCEPT !.speaker = s]]
              \/ /\ acc.open \in Pieces(L)
                 /\ [acc.open EXCEPT !.to = w.to, !.text = @ \o w.text] \in Pieces(L)
                 /\ WithWord(acc, w, diar)
                      = [done |-> acc.done,
                         open |-> [acc.open EXCEPT !.to = w.to, !.text = @ \o w.text]]
<1> DEFINE who == WordSpeaker(acc, w, diar)
           longer == [acc.open EXCEPT !.to = w.to, !.text = @ \o w.text]
<1>1. w.from \in Int /\ w.to \in Int /\ w.text \in Seq(Phrases) /\ w.text # <<>>
  BY DEF Pieces, Texts
<1>2. who \in L
  <2>1. 1 \in DOMAIN diar /\ \A k \in DOMAIN diar : diar[k] \in VoicesOf(L)
    BY Indices
  <2>2. diar[1].speaker \in L
    BY <2>1 DEF VoicesOf
  <2>3. acc.open.text # <<>> => acc.open.speaker \in L
    BY FlushedType DEF Pieces
  <2>. QED  BY <1>1, <2>2, <2>3, SpeakerAtType DEF WordSpeaker
<1> HIDE DEF who
<1>3. CASE Breaks(acc, w, diar)
  <2>1. [w EXCEPT !.speaker = who] \in Pieces(L)
    BY <1>2 DEF Pieces
  <2>2. WithWord(acc, w, diar) = [done |-> Flushed(acc), open |-> [w EXCEPT !.speaker = who]]
    BY <1>3 DEF WithWord, who
  <2>3. Flushed(acc) \in Seq(Pieces(L))
    BY FlushedType
  <2>4. WithWord(acc, w, diar) \in WordStates(L)
    BY <2>1, <2>2, <2>3 DEF WordStates
  <2>. QED  BY <1>2, <2>1, <2>2, <2>4
<1>4. CASE ~Breaks(acc, w, diar)
  <2>1. acc.done \in Seq(Pieces(L)) /\ acc.open \in Pieces(L)
    BY <1>4, FlushedType DEF Breaks
  <2>2. acc.open.text \o w.text \in Seq(Phrases) /\ acc.open.text \o w.text # <<>>
    <3>1. acc.open.text \in Seq(Phrases)
      BY <2>1 DEF Pieces, Texts
    <3>. QED  BY <1>1, <3>1
  <2>3. longer \in Pieces(L)
    BY <1>1, <2>1, <2>2 DEF Pieces, Texts
  <2>4. WithWord(acc, w, diar) = [done |-> acc.done, open |-> longer]
    <3>1. acc \in [done : Seq(Pieces(L)), open : Pieces(L)]
      BY <2>1 DEF WordStates
    <3>2. WithWord(acc, w, diar) = [acc EXCEPT !.open.to = w.to, !.open.text = @ \o w.text]
      BY <1>4 DEF WithWord
    <3>. QED  BY <2>1, <3>1, <3>2 DEF Pieces
  <2> HIDE DEF longer
  <2>5. WithWord(acc, w, diar) \in WordStates(L)
    BY <2>1, <2>3, <2>4 DEF WordStates
  <2>. QED  BY <2>1, <2>3, <2>4, <2>5 DEF longer
<1>. QED  BY <1>3, <1>4

\* the pass over the words
IsWordRun(g, words, diar, L) ==
    /\ g \in [0..Len(words) -> WordStates(L)] /\ g[0] = [done |-> <<>>, open |-> Nobody]
    /\ \A k \in 1..Len(words) : g[k] = WithWord(g[k - 1], words[k], diar)
    /\ WordTurns(words, diar) = Flushed(g[Len(words)])

\* Words are grouped one after the other.
LEMMA WordSteps ==
    ASSUME NEW S, NEW words \in Seq(Pieces(S)), NEW L \in SUBSET Nat,
           NEW diar \in Seq(VoicesOf(L)), diar # <<>>
    PROVE  \E g : IsWordRun(g, words, diar, L)
<1> DEFINE n == Len(words)
           D == DOMAIN words
           nothing == [done |-> <<>>, open |-> Nobody]
           V == WordStates(L)
           Eq(f) == f = [s \in SUBSET D |-> IF s = {} THEN nothing
                                    ELSE WithWord(f[s \ {Max(s)}], words[Max(s)], diar)]
           F == CHOOSE f : Eq(f)
           step == [i \in D |-> [v \in V |-> WithWord(v, words[i], diar)]]
<1>1. WordTurns(words, diar) = Flushed(F[D])
  BY DEF WordTurns, FoldLeft, MapThenFoldSet, Nobody, Flushed, WithWord, Breaks, WordSpeaker
<1>2. /\ D = 1..n /\ n \in Nat
      /\ D \in SUBSET Int /\ IsFiniteSet(D) /\ \A i \in D : words[i] \in Pieces(S)
  BY Indices
<1>3. \A acc \in V : \A w \in Pieces(S) : WithWord(acc, w, diar) \in V
  BY WithWordIs
<1>4. nothing \in V
  <2>1. <<>> \in Seq(Pieces(L))
    OBVIOUS
  <2>. QED  BY <2>1 DEF WordStates
<1> HIDE DEF V, D, n, nothing
<1>5. step \in [D -> [V -> V]]
  BY <1>2, <1>3
<1>6. \A s \in SUBSET D : s # {} => Max(s) \in D
  BY <1>2, FS_Subset, MaxMin
<1>7. Eq(F)
  <2>1. PICK f : IsLeftFold(f, D, V, nothing, step)
    <3> HIDE DEF step
    <3>. QED  BY <1>2, <1>4, <1>5, LeftFoldExists
  <2>2. Eq(f)
    BY <1>6, <2>1 DEF IsLeftFold
  <2> HIDE DEF Eq
  <2>. QED  BY <2>2
<1> HIDE DEF F
<1>8. step \in [1..n -> [V -> V]] /\ LeftFolds(F, n, V, nothing, step)
  <2>1. F[{}] = nothing
    BY <1>7
  <2>2. \A s \in SUBSET D : s # {} => F[s] = WithWord(F[s \ {Max(s)}], words[Max(s)], diar)
    BY <1>7
  <2>. QED  BY <1>2, <1>5, <1>6, <2>1, <2>2 DEF LeftFolds
<1>9. \A k \in 1..n : k \in D
  BY <1>2
<1> HIDE DEF step
<1>10. PICK g : IsRun(g, n, V, nothing, step, F[1..n])
  BY <1>2, <1>4, <1>8, LeftFoldRuns
<1>11. ASSUME NEW k \in 1..n
       PROVE  g[k] = WithWord(g[k - 1], words[k], diar)
  <2>1. k - 1 \in 0..n
    BY <1>2
  <2>2. g[k] = step[k][g[k - 1]] /\ g[k - 1] \in V
    BY <1>10, <2>1 DEF IsRun
  <2>. QED  BY <1>9, <2>2 DEF step
<1>12. IsWordRun(g, words, diar, L)
  BY <1>1, <1>2, <1>10, <1>11 DEF n, V, nothing, IsRun, IsWordRun
<1>. QED  BY <1>12

\* They become turns that say something and have a speaker of the diarization.
LEMMA WordTurnsType ==
    ASSUME NEW S, NEW words \in Seq(Pieces(S)), NEW L \in SUBSET Nat,
           NEW diar \in Seq(VoicesOf(L)), diar # <<>>
    PROVE  WordTurns(words, diar) \in Seq(Pieces(L))
<1>1. PICK g : IsWordRun(g, words, diar, L)
  BY WordSteps
<1>2. Len(words) \in 0..Len(words)
  BY Indices
<1>3. g[Len(words)] \in WordStates(L)
  BY <1>1, <1>2 DEF IsWordRun
<1>. QED  BY <1>1, <1>3, FlushedType DEF IsWordRun

\* A sequence of no turns has no neighbours.
LEMMA NothingIsApart == Apart(<<>>)
<1>1. Len(<<>>) = 0 /\ 2..0 = {}
  OBVIOUS
<1>. QED  BY <1>1 DEF Apart

\* The word turns, cut and assigned again, have speakers of the diarization.
LEMMA AssignByWordsType ==
    ASSUME NEW S, NEW words \in Seq(Pieces(S)), NEW L \in SUBSET Nat,
           NEW diar \in Seq(VoicesOf(L)), diar # <<>>
    PROVE  /\ AssignByWords(words, diar) \in Seq(Pieces(L))
           /\ Apart(AssignByWords(words, diar))
<1> DEFINE pieces == WordTurns(words, diar)
           assigned == AssignByDiarization(DropSystem(SplitByUnits(pieces)), diar)
<1>1. pieces \in Seq(Pieces(L))
  BY WordTurnsType
<1>2. AssignByWords(words, diar) = IF pieces = <<>> THEN <<>> ELSE Settle(assigned)
  BY DEF AssignByWords
<1> HIDE DEF pieces
<1>3. DropSystem(SplitByUnits(pieces)) \in Seq(Pieces(L))
  BY <1>1, SplitType, DropType
<1>4. assigned \in Seq(Pieces(L))
  BY <1>3, AssignByDiarizationType
<1> HIDE DEF assigned
<1>5. Settle(assigned) \in Seq(Pieces(L)) /\ Apart(Settle(assigned))
  BY <1>4, SettleType, L \in SUBSET Int
<1>. QED  BY <1>2, <1>5, NothingIsApart

\* Without a diarization the roles are the speakers.
LEMMA TextRelabels ==
    ASSUME NEW S, NEW pieces \in Seq(Pieces(S))
    PROVE  \E label \in [DOMAIN pieces -> {1, 2}] :
             AssignByText(pieces) = Settle(Relabelled(pieces, label))
<1> DEFINE n == Len(pieces)
           D == DOMAIN pieces
           V == Seq(Pieces({1, 2}))
           Switches(prev, p) ==
               Gap(prev, p) >= PauseGap \/ Asks(prev.text) \/ IsAcknowledgement(p.text)
           SpeakerOf(done, p) ==
               IF IsAcknowledgement(p.text) /\ done # <<>> THEN Other(Last(done).speaker)
               ELSE IF AgentScore(p.text) > CustomerScore(p.text) THEN 2
               ELSE IF CustomerScore(p.text) > AgentScore(p.text) THEN 1
               ELSE IF done = <<>> THEN 2
               ELSE IF Switches(Last(done), p) THEN Other(Last(done).speaker)
               ELSE Last(done).speaker
           Extend(done, p) == Append(done, [p EXCEPT !.speaker = SpeakerOf(done, p)])
           Eq(f) == f = [s \in SUBSET D |-> IF s = {} THEN <<>>
                                    ELSE Extend(f[s \ {Max(s)}], pieces[Max(s)])]
           F == CHOOSE f : Eq(f)
           step == [i \in D |-> [v \in V |-> Extend(v, pieces[i])]]
<1>1. AssignByText(pieces) = Settle(F[D])
  BY DEF AssignByText, FoldLeft, MapThenFoldSet
<1>2. /\ D = 1..n /\ n \in Nat
      /\ D \in SUBSET Int /\ IsFiniteSet(D) /\ \A i \in D : pieces[i] \in Pieces(S)
  BY Indices
<1>3. ASSUME NEW done \in V, NEW p \in Pieces(S)
      PROVE  SpeakerOf(done, p) \in {1, 2}
  <2>1. done # <<>> => Last(done).speaker \in {1, 2}
    <3>1. done # <<>> => Len(done) \in DOMAIN done
      BY Indices
    <3>2. \A k \in DOMAIN done : done[k] \in Pieces({1, 2})
      BY Indices
    <3>3. \A k \in DOMAIN done : done[k].speaker \in {1, 2}
      BY <3>2 DEF Pieces
    <3>. QED  BY <3>1, <3>3 DEF Last
  <2>2. done # <<>> => Other(Last(done).speaker) \in {1, 2}
    BY <2>1 DEF Other
  <2> HIDE DEF Switches
  <2>3. CASE done = <<>>
    BY <2>3
  <2>4. CASE done # <<>>
    <3> DEFINE last == Last(done).speaker
               other == Other(Last(done).speaker)
    <3>1. SpeakerOf(done, p) \in {1, 2, last, other}
      <4> HIDE DEF last, other
      <4>. QED  BY <2>4 DEF last, other
    <3>. QED  BY <2>1, <2>2, <2>4, <3>1
  <2>. QED  BY <2>3, <2>4
<1> HIDE DEF SpeakerOf
<1>4. ASSUME NEW done \in V, NEW p \in Pieces(S)
      PROVE  Extend(done, p) \in V
  <2>1. [p EXCEPT !.speaker = SpeakerOf(done, p)] \in Pieces({1, 2})
    BY <1>3 DEF Pieces
  <2>. QED  BY <2>1
<1>5. step \in [D -> [V -> V]]
  <2> HIDE DEF Extend, V, D
  <2>. QED  BY <1>2, <1>4
<1>6. \A s \in SUBSET D : s # {} => Max(s) \in D
  BY <1>2, FS_Subset, MaxMin
<1>7. <<>> \in V
  OBVIOUS
<1> HIDE DEF Extend, V, D, n
<1>8. Eq(F)
  <2>1. PICK f : IsLeftFold(f, D, V, <<>>, step)
    <3> HIDE DEF step
    <3>. QED  BY <1>2, <1>5, <1>7, LeftFoldExists
  <2>2. Eq(f)
    BY <1>6, <2>1 DEF IsLeftFold
  <2> HIDE DEF Eq
  <2>. QED  BY <2>2
<1> HIDE DEF F
<1>9. step \in [1..n -> [V -> V]] /\ LeftFolds(F, n, V, <<>>, step)
  <2>1. F[{}] = <<>> /\ \A s \in SUBSET D : s # {} => F[s] = Extend(F[s \ {Max(s)}], pieces[Max(s)])
    BY <1>8
  <2>. QED  BY <1>2, <1>5, <1>6, <2>1 DEF LeftFolds
<1>10. \A k \in 1..n : k \in D
  BY <1>2
<1> HIDE DEF step
<1>11. PICK g : IsRun(g, n, V, <<>>, step, F[1..n])
  BY <1>2, <1>7, <1>9, LeftFoldRuns
<1>12. ASSUME NEW k \in 1..n
       PROVE  \E s \in {1, 2} : g[k] = Append(g[k - 1], [pieces[k] EXCEPT !.speaker = s])
  <2>1. k - 1 \in 0..n
    BY <1>2
  <2>2. g[k] = step[k][g[k - 1]] /\ g[k - 1] \in V
    BY <1>11, <2>1 DEF IsRun
  <2>3. g[k] = Extend(g[k - 1], pieces[k]) /\ pieces[k] \in Pieces(S)
    BY <1>2, <1>10, <2>2 DEF step
  <2>4. SpeakerOf(g[k - 1], pieces[k]) \in {1, 2}
    BY <1>3, <2>2, <2>3
  <2>. QED  BY <2>3, <2>4 DEF Extend
<1>13. \E label \in [DOMAIN pieces -> {1, 2}] : g[n] = Relabelled(pieces, label)
  <2>1. AppendsLabelled(g, n, pieces, {1, 2})
    BY <1>11, <1>12 DEF V, n, IsRun, AppendsLabelled
  <2>. QED  BY <2>1, AppendedLabels
<1>. QED  BY <1>1, <1>2, <1>11, <1>13 DEF IsRun

\* So they get turns of the speakers 1 and 2.
LEMMA AssignByTextType ==
    ASSUME NEW S, NEW pieces \in Seq(Pieces(S))
    PROVE  AssignByText(pieces) \in Seq(Pieces({1, 2})) /\ Apart(AssignByText(pieces))
<1>1. PICK label \in [DOMAIN pieces -> {1, 2}] :
        AssignByText(pieces) = Settle(Relabelled(pieces, label))
  BY TextRelabels
<1>. QED  BY <1>1, RelabelledType, {1, 2} \in SUBSET Int

\* Without the announcements, every piece gets the label of its speaker's role.
LEMMA RoleRelabels ==
    ASSUME NEW S, NEW pieces \in Seq(Pieces(S)),
           NEW kept, kept = Kept(pieces, {i \in DOMAIN pieces : ~IsSystem(pieces[i].text)})
    PROVE  /\ kept \in Seq(Pieces(S))
           /\ \E label \in [DOMAIN kept -> {1, 2}] :
                LabelByRole(pieces) = Settle(Relabelled(kept, label))
<1> DEFINE Of(seq, speaker) == {k \in DOMAIN seq : seq[k].speaker = speaker}
           Customer(seq, s) == MapThenSumSet(LAMBDA k : CustomerScore(seq[k].text), Of(seq, s))
           Agent(seq, s) == MapThenSumSet(LAMBDA k : AgentScore(seq[k].text), Of(seq, s))
           Label(seq, s) == CASE Agent(seq, s) > Customer(seq, s) -> 2
                              [] Customer(seq, s) > Agent(seq, s) -> 1
                              [] OTHER -> IF s = seq[1].speaker THEN 1 ELSE 2
           Labelled(seq) == [k \in DOMAIN seq |-> [seq[k] EXCEPT !.speaker = Label(seq, @)]]
           label == [k \in DOMAIN kept |-> Label(kept, kept[k].speaker)]
           speech == FlattenSeq([i \in DOMAIN pieces |->
                         IF ~IsSystem(pieces[i].text) THEN <<pieces[i]>> ELSE <<>>])
<1>1. kept = speech
  <2> DEFINE keep == {i \in DOMAIN pieces : ~IsSystem(pieces[i].text)}
  <2>1. [i \in DOMAIN pieces |-> IF i \in keep THEN <<pieces[i]>> ELSE <<>>]
          = [i \in DOMAIN pieces |-> IF ~IsSystem(pieces[i].text) THEN <<pieces[i]>> ELSE <<>>]
    OBVIOUS
  <2>. QED  BY <2>1 DEF Kept
<1>2. LabelByRole(pieces) = Settle(Labelled(speech))
  BY DEF LabelByRole, Filter
<1> HIDE DEF speech, Customer, Agent
<1>3. kept \in Seq(Pieces(S))
  BY KeptType
<1>4. \A s : Label(kept, s) \in {1, 2}
  OBVIOUS
<1> HIDE DEF Label
<1>5. label \in [DOMAIN kept -> {1, 2}]
  BY <1>4
<1>6. Labelled(kept) = Relabelled(kept, label)
  <2>1. \A k \in DOMAIN kept :
          [kept[k] EXCEPT !.speaker = Label(kept, @)] = [kept[k] EXCEPT !.speaker = label[k]]
    <3>1. \A k \in DOMAIN kept : kept[k] \in Pieces(S)
      BY <1>3, Indices
    <3>. QED  BY <3>1 DEF Pieces
  <2>. QED  BY <2>1 DEF Relabelled
<1> HIDE DEF Labelled, label
<1>. QED  BY <1>1, <1>2, <1>3, <1>5, <1>6

\* The labels of the roles are 1 and 2.
LEMMA LabelByRoleType ==
    ASSUME NEW S, NEW pieces \in Seq(Pieces(S))
    PROVE  LabelByRole(pieces) \in Seq(Pieces({1, 2})) /\ Apart(LabelByRole(pieces))
<1> DEFINE kept == Kept(pieces, {i \in DOMAIN pieces : ~IsSystem(pieces[i].text)})
<1>1. kept \in Seq(Pieces(S)) /\ \E label \in [DOMAIN kept -> {1, 2}] :
        LabelByRole(pieces) = Settle(Relabelled(kept, label))
  BY RoleRelabels
<1> HIDE DEF kept
<1>. QED  BY <1>1, RelabelledType, {1, 2} \in SUBSET Int

\* Refining the labels of units gives no other labels.
LEMMA RefineRelabels ==
    ASSUME NEW L, {1, 2} \subseteq L, NEW pieces \in Seq(Pieces(L))
    PROVE  \E label \in [DOMAIN SplitByUnits(pieces) -> L] :
             RefineByText(pieces) = Settle(Relabelled(SplitByUnits(pieces), label))
<1> DEFINE units == SplitByUnits(pieces)
           label == [k \in DOMAIN units |-> RefinedSpeaker(units[k])]
<1>1. units \in Seq(Pieces(L))
  BY SplitType
<1> HIDE DEF units
<1>2. \A k \in DOMAIN units : units[k].speaker \in L
  <2>1. \A k \in DOMAIN units : units[k] \in Pieces(L)
    BY <1>1, Indices
  <2>. QED  BY <2>1 DEF Pieces
<1>3. label \in [DOMAIN units -> L]
  BY <1>2 DEF RefinedSpeaker
<1>4. RefineByText(pieces) = Settle(Relabelled(units, label))
  BY DEF RefineByText, units, Relabelled
<1> HIDE DEF label
<1>. QED  BY <1>3, <1>4 DEF units

\* So the turns after it are of the speakers 1 and 2.
LEMMA RefineByTextType ==
    ASSUME NEW pieces \in Seq(Pieces({1, 2}))
    PROVE  RefineByText(pieces) \in Seq(Pieces({1, 2})) /\ Apart(RefineByText(pieces))
<1>1. SplitByUnits(pieces) \in Seq(Pieces({1, 2})) /\ {1, 2} \in SUBSET Int
  BY SplitType
<1>2. PICK label \in [DOMAIN SplitByUnits(pieces) -> {1, 2}] :
        RefineByText(pieces) = Settle(Relabelled(SplitByUnits(pieces), label))
  BY RefineRelabels
<1>. QED  BY <1>1, <1>2, RelabelledType

-----------------------------------------------------------------------------
(* The stages *)

\* Whisper's answer to one recording is a sequence of segments.
LEMMA HeardType ==
    ASSUME IsRecording(recording)
    PROVE  Heard \in Seq(Segments)
<1>1. FlattenSeq(recording.channels) \in Seq(Segments)
  BY FlattenSeqType DEF IsRecording
<1>2. \A p \in Segments : p.from \in Int /\ p.to \in Int
  BY DEF Segments
<1>. QED  BY <1>1, <1>2, SortSpans DEF Heard

\* Whisper's words are pieces of one phrase.
LEMMA WordsType ==
    ASSUME IsRecording(recording)
    PROVE  Words \in Seq(Pieces({0}))
<1> DEFINE Share(s, k) == s.from + (Duration(s) * k) \div Len(s.text)
           End(s, k) == Share(s, IF s.text[k] \in recording.mute THEN k - 1 ELSE k)
           Word(s, k) == [s EXCEPT !.from = Share(s, k - 1), !.to = End(s, k), !.text = <<s.text[k]>>]
           All(s) == [k \in DOMAIN s.text |-> Word(s, k)]
           WordsOf(s) == Filter(All(s), LAMBDA w : w.to > w.from)
           parts == [i \in DOMAIN Heard |-> WordsOf(Heard[i])]
<1>1. /\ DOMAIN Heard = 1..Len(Heard) /\ Len(Heard) \in Nat
      /\ \A i \in DOMAIN Heard : Heard[i] \in Segments
  BY HeardType, Indices
<1>2. ASSUME NEW s \in Segments
      PROVE  WordsOf(s) \in Seq(Pieces({0}))
  <2>1. s.from \in Int /\ s.to \in Int /\ s.text \in Seq(Phrases) /\ s.speaker = 0
    BY DEF Segments, Texts
  <2>2. /\ DOMAIN s.text = 1..Len(s.text) /\ Len(s.text) \in Nat
        /\ \A k \in DOMAIN s.text : s.text[k] \in Phrases
    BY <2>1, Indices
  <2>3. ASSUME NEW k \in Int, Len(s.text) > 0
        PROVE  Share(s, k) \in Int
    <3>1. Duration(s) * k \in Int
      BY <2>1 DEF Duration, Larger
    <3>2. (Duration(s) * k) \div Len(s.text) \in Int
      BY <2>2, <2>3, <3>1
    <3>. QED  BY <2>1, <3>2
  <2> HIDE DEF Share
  <2>4. ASSUME NEW k \in DOMAIN s.text
        PROVE  Word(s, k) \in Pieces({0})
    <3>1. k \in Int /\ k - 1 \in Int /\ Len(s.text) > 0
      BY <2>2
    <3>2. Share(s, k - 1) \in Int /\ End(s, k) \in Int
      BY <2>3, <3>1
    <3>3. <<s.text[k]>> \in Texts /\ <<s.text[k]>> # <<>>
      BY <2>2 DEF Texts
    <3>. QED  BY <2>1, <3>2, <3>3 DEF Segments, Pieces
  <2> HIDE DEF Word
  <2>5. All(s) \in Seq(Pieces({0}))
    BY <2>2, <2>4
  <2> DEFINE all == All(s)
             lasting == {k \in DOMAIN all : all[k].to > all[k].from}
  <2>6. all \in Line(Pieces({0}), Pieces({0}) \X Pieces({0}))
    <3>1. all \in Seq(Pieces({0})) /\ \A k \in DOMAIN all : all[k] \in Pieces({0})
      BY <2>2, <2>4, <2>5
    <3> HIDE DEF all
    <3>. QED  BY <3>1 DEF Line
  <2>7. WordsOf(s) = Kept(all, lasting)
    BY DEF Filter, Kept
  <2> HIDE DEF all, lasting, WordsOf
  <2>8. Kept(all, lasting) \in Line(Pieces({0}), Pieces({0}) \X Pieces({0}))
    BY <2>6, KeptLine
  <2>. QED  BY <2>7, <2>8 DEF Line
<1>3. Words = IF recording.words THEN FlattenSeq(parts) ELSE <<>>
  BY DEF Words
<1> HIDE DEF WordsOf
<1>4. \A i \in DOMAIN Heard : parts[i] \in Seq(Pieces({0}))
  BY <1>1, <1>2
<1>5. parts \in Seq(Seq(Pieces({0})))
  BY <1>1, <1>4
<1> HIDE DEF parts
<1>6. FlattenSeq(parts) \in Seq(Pieces({0}))
  BY <1>5, FlattenSeqType
<1>. QED  BY <1>3, <1>6

\* The prepared segments are pieces without a speaker.
LEMMA PrepareType ==
    ASSUME NEW segments \in Seq(Segments)
    PROVE  Prepare(segments) \in Seq(Pieces({0}))
BY ExtractType, TrimType, SplitType, DropType DEF Prepare

\* The channels of a stereo file are the speakers 1 and 2.
LEMMA ChannelTurnsType ==
    ASSUME IsRecording(recording)
    PROVE  ChannelTurns \in Seq(Pieces({1, 2}))
<1> DEFINE Turns(c) == LET pieces == Prepare(recording.channels[c])
                       IN  [k \in DOMAIN pieces |-> [pieces[k] EXCEPT !.speaker = c]]
<1>1. ASSUME NEW c \in {1, 2}, Len(recording.channels) = 2
      PROVE  Turns(c) \in Seq(Pieces({1, 2}))
  <2> DEFINE pieces == Prepare(recording.channels[c])
  <2>1. recording.channels[c] \in Seq(Segments)
    BY <1>1 DEF IsRecording
  <2>2. pieces \in Seq(Pieces({0}))
    BY <2>1, PrepareType
  <2> HIDE DEF pieces
  <2>3. /\ DOMAIN pieces = 1..Len(pieces) /\ Len(pieces) \in Nat
        /\ \A k \in DOMAIN pieces : pieces[k] \in Pieces({0})
    BY <2>2, Indices
  <2>4. \A k \in DOMAIN pieces : [pieces[k] EXCEPT !.speaker = c] \in Pieces({1, 2})
    BY <2>3 DEF Pieces
  <2>5. [k \in DOMAIN pieces |-> [pieces[k] EXCEPT !.speaker = c]] \in Seq(Pieces({1, 2}))
    BY <2>3, <2>4
  <2>. QED  BY <2>5 DEF pieces
<1>2. ChannelTurns = IF Len(recording.channels) = 2 THEN Turns(1) \o Turns(2) ELSE <<>>
  BY DEF ChannelTurns
<1> HIDE DEF Turns
<1>. QED  BY <1>1, <1>2

\* The text of pieces is a text.
LEMMA TextOfType ==
    ASSUME NEW S, NEW pieces \in Seq(Pieces(S))
    PROVE  TextOf(pieces) \in Texts
<1> DEFINE texts == [i \in DOMAIN pieces |-> pieces[i].text]
<1>1. /\ DOMAIN pieces = 1..Len(pieces) /\ Len(pieces) \in Nat
      /\ \A k \in DOMAIN pieces : pieces[k] \in Pieces(S)
  BY Indices
<1>2. \A i \in DOMAIN pieces : texts[i] \in Seq(Phrases)
  BY <1>1 DEF Pieces, Texts
<1>3. texts \in Seq(Seq(Phrases))
  BY <1>1, <1>2
<1> HIDE DEF texts
<1>4. FlattenSeq(texts) \in Seq(Phrases)
  BY <1>3, FlattenSeqType
<1>. QED  BY <1>4 DEF TextOf, texts, Texts

\* Pieces of fewer speakers are pieces of more.
LEMMA PiecesGrow ==
    ASSUME NEW S, NEW L, S \subseteq L, NEW pieces \in Seq(Pieces(S))
    PROVE  pieces \in Seq(Pieces(L))
<1>1. Pieces(S) \subseteq Pieces(L)
  BY DEF Pieces
<1>2. /\ DOMAIN pieces = 1..Len(pieces) /\ Len(pieces) \in Nat
      /\ \A k \in DOMAIN pieces : pieces[k] \in Pieces(S)
  BY Indices
<1>. QED  BY <1>1, <1>2

-----------------------------------------------------------------------------
(* Theorems *)

\* The initial states are typed.
LEMMA TypeHoldsInitially == Init => TypeOK
<1> SUFFICES ASSUME Init
             PROVE  TypeOK
  OBVIOUS
<1>1. IsRecording(recording)
  BY RecordingsAreSegments DEF Init
<1>. QED  BY <1>1 DEF Init, TypeOK, Texts

\* the turns of both ways to hear a recording
LEMMA TranscribeKeepsType ==
    ASSUME TypeOK, TranscribeStereo \/ TranscribeMono
    PROVE  TypeOK' /\ (phase' = "refined" => Apart(turns'))
<1>1. IsRecording(recording) /\ recording' = recording /\ diarization' = diarization
  BY DEF TypeOK, TranscribeStereo, TranscribeMono
<1>2. CASE TranscribeStereo
  <2>1. SortTurns(ChannelTurns) \in Seq(Pieces({1, 2})) /\ {1, 2} \in SUBSET Int
    BY <1>1, ChannelTurnsType, SortTurnsType, {1, 2} \in SUBSET Int
  <2>2. turns' \in Seq(Pieces({1, 2})) /\ Apart(turns')
    BY <1>2, <2>1, SettleType DEF TranscribeStereo
  <2>3. turns' \in Seq(Pieces(Nat))
    BY <2>2, PiecesGrow, {1, 2} \subseteq Nat
  <2>4. transcript' \in Texts
    BY <1>2, <2>2, TextOfType DEF TranscribeStereo
  <2>5. phase' = "refined"
    BY <1>2 DEF TranscribeStereo, Goto
  <2>. QED  BY <1>1, <2>2, <2>3, <2>4, <2>5 DEF TypeOK
<1>3. CASE TranscribeMono
  <2>1. Heard \in Seq(Segments)
    BY <1>1, HeardType
  <2>2. turns' \in Seq(Pieces({0}))
    BY <1>3, <2>1, PrepareType DEF TranscribeMono
  <2>3. turns' \in Seq(Pieces(Nat))
    BY <2>2, PiecesGrow, {0} \subseteq Nat
  <2>4. ExtractSegments(Heard) \in Seq(Pieces({0}))
    BY <2>1, ExtractType
  <2>5. transcript' \in Texts
    BY <1>3, <2>4, TextOfType DEF TranscribeMono
  <2>6. phase' = "prepared"
    BY <1>3 DEF TranscribeMono, Goto
  <2>. QED  BY <1>1, <2>3, <2>5, <2>6 DEF TypeOK
<1>. QED  BY <1>2, <1>3

\* the three ways to assign speakers
LEMMA AssignKeepsType ==
    ASSUME TypeOK, AssignFromWords \/ AssignFromTurns \/ AssignFromText
    PROVE  TypeOK' /\ phase' = "assigned" /\ Apart(turns')
<1>1. /\ IsRecording(recording) /\ diarization \in Seq(VoicesOf(Nat \ {0}))
      /\ turns \in Seq(Pieces(Nat)) /\ transcript \in Texts
  BY DEF TypeOK, VoicesOf
<1>2. phase' = "assigned" /\ UNCHANGED <<recording, diarization, transcript>>
  BY DEF AssignFromWords, AssignFromTurns, AssignFromText, Assign, Goto
<1>3. Nat \ {0} \in SUBSET Nat /\ {1, 2} \subseteq Nat \ {0} /\ Nat \ {0} \subseteq Nat
  OBVIOUS
<1>4. turns' \in Seq(Pieces(Nat \ {0})) /\ Apart(turns')
  <2>1. CASE AssignFromWords
    <3>1. diarization # <<>> /\ turns' = AssignByWords(Words, diarization)
      BY <2>1 DEF AssignFromWords, ByWords, Assign
    <3>2. Words \in Seq(Pieces({0}))
      BY <1>1, WordsType
    <3>. QED  BY <1>1, <1>3, <3>1, <3>2, AssignByWordsType
  <2>2. CASE AssignFromTurns
    <3>1. diarization # <<>> /\ turns' = AssignByDiarization(turns, diarization)
      BY <2>2 DEF AssignFromTurns, Assign
    <3>. QED  BY <1>1, <1>3, <3>1, AssignByDiarizationType
  <2>3. CASE AssignFromText
    <3>1. turns' = AssignByText(turns)
      BY <2>3 DEF AssignFromText, Assign
    <3>2. turns' \in Seq(Pieces({1, 2})) /\ Apart(turns')
      BY <1>1, <3>1, AssignByTextType
    <3>. QED  BY <1>3, <3>2, PiecesGrow
  <2>. QED  BY <2>1, <2>2, <2>3
<1>5. turns' \in Seq(Pieces(Nat))
  BY <1>3, <1>4, PiecesGrow
<1>6. /\ IsRecording(recording') /\ transcript' \in Texts
      /\ diarization' \in Seq([speaker : Nat \ {0}, from : Nat, to : Nat])
  BY <1>1, <1>2 DEF VoicesOf
<1>. QED  BY <1>2, <1>4, <1>5, <1>6 DEF TypeOK

\* the passes over the labels, and the last cut
LEMMA LabelsKeepType ==
    ASSUME TypeOK, NormalizeLabels \/ RefineLabels \/ SplitTurns
    PROVE  /\ TypeOK' /\ phase' \in {"normalized", "refined", "done"}
           /\ phase' # "done" => Apart(turns')
<1>1. UNCHANGED <<recording, diarization, transcript>>
  BY DEF NormalizeLabels, RefineLabels, SplitTurns
<1>2. /\ turns' \in Seq(Pieces({1, 2})) /\ phase' \in {"normalized", "refined", "done"}
      /\ phase' # "done" => Apart(turns')
  <2>1. CASE NormalizeLabels
    <3>1. turns \in Seq(Pieces(Nat)) /\ turns' = LabelByRole(turns) /\ phase' = "normalized"
      BY <2>1 DEF TypeOK, NormalizeLabels, Goto
    <3>. QED  BY <3>1, LabelByRoleType
  <2>2. CASE RefineLabels
    <3>1. turns \in Seq(Pieces({1, 2})) /\ turns' = RefineByText(turns) /\ phase' = "refined"
      BY <2>2 DEF TypeOK, RefineLabels, Goto
    <3>. QED  BY <3>1, RefineByTextType
  <2>3. CASE SplitTurns
    <3>1. /\ turns \in Seq(Pieces({1, 2})) /\ phase' = "done"
          /\ turns' = SortTurns(SplitByUnits(SortTurns(turns)))
      BY <2>3 DEF TypeOK, SplitTurns, Goto
    <3>2. {1, 2} \in SUBSET Int
      OBVIOUS
    <3>3. SplitByUnits(SortTurns(turns)) \in Seq(Pieces({1, 2}))
      BY <3>1, <3>2, SortTurnsType, SplitType
    <3>. QED  BY <3>1, <3>2, <3>3, SortTurnsType
  <2>. QED  BY <2>1, <2>2, <2>3
<1>3. turns' \in Seq(Pieces(Nat))
  BY <1>2, PiecesGrow, {1, 2} \subseteq Nat
<1>4. /\ IsRecording(recording') /\ transcript' \in Texts
      /\ diarization' \in Seq([speaker : Nat \ {0}, from : Nat, to : Nat])
  BY <1>1 DEF TypeOK
<1>. QED  BY <1>2, <1>3, <1>4 DEF TypeOK

\* what the invariants need of the diarization, besides its type
Canonical == InOrder(diarization)

\* Every step keeps the type, and the order of the diarization.
LEMMA StepKeepsType ==
    ASSUME TypeOK, Canonical, [Next]_vars
    PROVE  TypeOK' /\ Canonical'
<1>1. CASE TranscribeStereo \/ TranscribeMono
  <2>1. TypeOK'
    BY <1>1, TranscribeKeepsType
  <2>2. diarization' = diarization
    BY <1>1 DEF TranscribeStereo, TranscribeMono
  <2>. QED  BY <2>1, <2>2 DEF Canonical
<1>2. CASE RaiseEmpty
  BY <1>2 DEF RaiseEmpty, Goto, TypeOK, Canonical
<1>3. CASE RunDiarization
  <2>1. PICK raw \in Diarizations : diarization' = Canonicalize(raw)
    BY <1>3 DEF RunDiarization
  <2>2. raw \in Seq(Voices)
    BY DiarizationsAreVoices
  <2>3. diarization' \in Seq(VoicesOf(Nat \ {0})) /\ InOrder(diarization')
    BY <2>1, <2>2, CanonicalizeType
  <2>4. UNCHANGED <<recording, turns, transcript>> /\ phase' = "diarized"
    BY <1>3 DEF RunDiarization, Goto
  <2>. QED  BY <2>3, <2>4 DEF TypeOK, Canonical, VoicesOf
<1>4. CASE AssignFromWords \/ AssignFromTurns \/ AssignFromText
  <2>1. TypeOK'
    BY <1>4, AssignKeepsType
  <2>2. diarization' = diarization
    BY <1>4 DEF AssignFromWords, AssignFromTurns, AssignFromText, Assign
  <2>. QED  BY <2>1, <2>2 DEF Canonical
<1>5. CASE NormalizeLabels \/ RefineLabels \/ SplitTurns
  <2>1. TypeOK'
    BY <1>5, LabelsKeepType
  <2>2. diarization' = diarization
    BY <1>5 DEF NormalizeLabels, RefineLabels, SplitTurns
  <2>. QED  BY <2>1, <2>2 DEF Canonical
<1>6. CASE UNCHANGED vars
  BY <1>6 DEF vars, TypeOK, Canonical
<1>. QED  BY <1>1, <1>2, <1>3, <1>4, <1>5, <1>6 DEF Next

\* The inductive invariant: the type, and the order that the early stop of the scan relies on.
LEMMA TypedAndInOrder == Spec => [](TypeOK /\ Canonical)
<1>1. Init => TypeOK /\ Canonical
  BY TypeHoldsInitially DEF Init, Canonical, InOrder
<1>2. TypeOK /\ Canonical /\ [Next]_vars => (TypeOK /\ Canonical)'
  BY StepKeepsType
<1>. QED  BY <1>1, <1>2, PTL DEF Spec

\* Every stage passes on pieces of text with integer times; the diarization numbers its speakers
\* from 1; assigned pieces have a speaker, and normalized ones one of the two roles.
THEOREM TypeCorrect == Spec => []TypeOK
<1>. QED  BY TypedAndInOrder, PTL

\* After assigning, normalizing and refining the labels, no two neighbours are left that the merge
\* rule would join: the relabelling of _smooth_speaker_turns is followed by a merge.
THEOREM MergedIsMaximal == Spec => []MergedMaximally
<1>1. Init => MergedMaximally
  BY DEF Init, MergedMaximally
<1>2. TypeOK /\ MergedMaximally /\ [Next]_vars => MergedMaximally'
  <2> SUFFICES ASSUME TypeOK, MergedMaximally, [Next]_vars
               PROVE  MergedMaximally'
    OBVIOUS
  <2>1. CASE TranscribeStereo \/ TranscribeMono
    <3>1. phase' \in {"refined", "prepared"}
      BY <2>1 DEF TranscribeStereo, TranscribeMono, Goto
    <3>. QED  BY <2>1, <3>1, TranscribeKeepsType DEF MergedMaximally
  <2>2. CASE RaiseEmpty
    BY <2>2 DEF RaiseEmpty, Goto, MergedMaximally
  <2>3. CASE RunDiarization
    BY <2>3 DEF RunDiarization, Goto, MergedMaximally
  <2>4. CASE AssignFromWords \/ AssignFromTurns \/ AssignFromText
    BY <2>4, AssignKeepsType DEF MergedMaximally
  <2>5. CASE NormalizeLabels \/ RefineLabels \/ SplitTurns
    BY <2>5, LabelsKeepType DEF MergedMaximally
  <2>6. CASE UNCHANGED vars
    BY <2>6 DEF vars, MergedMaximally
  <2>. QED  BY <2>1, <2>2, <2>3, <2>4, <2>5, <2>6 DEF Next
<1>. QED  BY <1>1, <1>2, TypeCorrect, PTL DEF Spec

\* The speaker of a word is one with the largest overlap among all segments of the diarization,
\* although _speaker_for_time_range stops its scan at the first segment that starts after the word:
\* the canonical diarization is in the order of the start.
THEOREM LargestOverlapWins == Spec => []OverlapWins
<1>1. TypeOK /\ Canonical => OverlapWins
  <2> SUFFICES ASSUME TypeOK, Canonical
               PROVE  OverlapWins
    OBVIOUS
  <2>1. diarization \in Seq(Voices) /\ InOrder(diarization)
    <3>1. VoicesOf(Nat \ {0}) \subseteq Voices
      BY DEF VoicesOf, Voices
    <3>2. diarization \in Seq(VoicesOf(Nat \ {0}))
      BY DEF TypeOK, VoicesOf
    <3>3. /\ DOMAIN diarization = 1..Len(diarization) /\ Len(diarization) \in Nat
          /\ \A k \in DOMAIN diarization : diarization[k] \in VoicesOf(Nat \ {0})
      BY <3>2, Indices
    <3>4. \A k \in DOMAIN diarization : diarization[k] \in Voices
      BY <3>1, <3>3
    <3>5. diarization \in Seq(Voices)
      BY <3>2, <3>3, <3>4
    <3>. QED  BY <3>5 DEF Canonical
  <2>2. ASSUME NEW word \in ToSet(Words)
        PROVE  word.from \in Int /\ word.to \in Int
    <3>1. Words \in Seq(Pieces({0}))
      BY WordsType DEF TypeOK
    <3>2. word \in Pieces({0})
      BY <3>1, Indices DEF ToSet
    <3>. QED  BY <3>2 DEF Pieces
  <2>3. ASSUME NEW word \in ToSet(Words),
               NEW m \in DOMAIN diarization,
               OverlapOf(diarization[m].speaker, word, DOMAIN diarization, diarization) > 0,
               NEW n \in DOMAIN diarization
        PROVE  OverlapOf(diarization[n].speaker, word, DOMAIN diarization, diarization) <=
                 OverlapOf(SpeakerAt(word, diarization, 0), word, DOMAIN diarization, diarization)
    BY <2>1, <2>2, <2>3, SpeakerAtWins
  <2>. QED  BY <2>3 DEF OverlapWins
<1>. QED  BY <1>1, TypedAndInOrder, PTL
=============================================================================
