-------------------------- MODULE SpeakerOrderProofs --------------------------
(***************************************************************************)
(* The order of speech and the times of the turns: for recordings whose    *)
(* segments are in turn (SegmentsInTurn) no stage swaps two phrases of a   *)
(* channel, and the segments of one channel do not overlap.                *)
(*                                                                         *)
(* Of one channel, the turns of every stage are a line: a later turn       *)
(* begins when an earlier one has ended or after it, and its phrases have  *)
(* larger numbers.  Sorting, merging and relabelling keep a line.  Cutting *)
(* a turn into units keeps it if every unit gets some time; the cuts are   *)
(* rounded down, so that each of them costs the turns half of the time     *)
(* that they have for a character (Paced).                                 *)
(***************************************************************************)
EXTENDS SpeakerTurnsProofs, SequenceTheorems

\* what may be said: the phrases of a channel, or all of them
Vocabularies == SUBSET Phrases

IdsRise == {x \in Phrases \X Phrases : x[1].id < x[2].id}

\* texts of phrases of C in the order of their numbers
RisingTexts(C) == Line(C, IdsRise)

\* the characters of a text and a blank after each phrase
Weight(text) == Total(Chars, text) + Len(text)

\* pieces of phrases of C with k units of time for each character
Timed(C, k) ==
    {p \in [speaker : Int, from : Nat, to : Int, text : RisingTexts(C)] :
        k * Weight(p.text) <= p.to - p.from}

Paced(C, k) == {p \in Timed(C, k) : p.text # <<>>}

Spans == [speaker : Int, from : Int, to : Int, text : Texts]

\* a text and a later one
Earlier(s, t) == \A i \in DOMAIN s, j \in DOMAIN t : <<s[i], t[j]>> \in IdsRise

\* a piece and a later one
Follows == {x \in Spans \X Spans : x[1].to <= x[2].from /\ Earlier(x[1].text, x[2].text)}

-----------------------------------------------------------------------------
(* Texts *)

\* The weight of a text is a number, and positive if it has a phrase.
LEMMA WeightType ==
    ASSUME NEW text \in Texts
    PROVE  /\ Weight(text) \in Nat /\ Length(text) = Weight(text) - 1
           /\ text # <<>> => Weight(text) > 1
<1>1. Len(text) \in Nat /\ (text # <<>> => Len(text) > 0)
  BY Indices DEF Texts
<1>2. Total(Chars, text) \in Nat /\ (text # <<>> => Total(Chars, text) > 0)
  BY TotalChars
<1>. QED  BY <1>1, <1>2 DEF Weight, Length

\* the terms of a weight
CharsOf(text) == [k \in 1..Len(text) |-> Chars[text[k].kind]]

\* The characters of a text are added phrase by phrase.
LEMMA CharsAdd ==
    ASSUME NEW text \in Texts
    PROVE  /\ \E g : IsAdding(g, Len(text), CharsOf(text), Total(Chars, text))
           /\ Len(text) \in Nat
           /\ \A k \in 1..Len(text) : CharsOf(text)[k] = Chars[text[k].kind] /\ CharsOf(text)[k] \in 1..15
<1>1. PICK g \in [0..Len(text) -> Nat] :
          /\ g[0] = 0 /\ g[Len(text)] = Total(Chars, text)
          /\ \A k \in 1..Len(text) : g[k] = g[k - 1] + Chars[text[k].kind]
  BY TotalSteps
<1>2. IsAdding(g, Len(text), CharsOf(text), Total(Chars, text))
  BY <1>1 DEF IsAdding, CharsOf
<1>3. Len(text) \in Nat /\ \A k \in 1..Len(text) : text[k] \in Phrases
  BY Indices DEF Texts
<1>4. \A k \in 1..Len(text) : Chars[text[k].kind] \in 1..15
  BY <1>3 DEF Phrases, Kinds, Chars
<1>. QED  BY <1>2, <1>3, <1>4 DEF CharsOf

\* A phrase weighs its characters and a blank, at most 16.
LEMMA WeightOfOne ==
    ASSUME NEW u \in Phrases
    PROVE  Weight(<<u>>) = Chars[u.kind] + 1 /\ Chars[u.kind] \in 1..15
<1>1. <<u>> \in Texts /\ Len(<<u>>) = 1 /\ <<u>>[1] = u
  BY DEF Texts
<1>2. PICK g : IsAdding(g, Len(<<u>>), CharsOf(<<u>>), Total(Chars, <<u>>))
  BY <1>1, CharsAdd
<1>3. 1 \in 1..Len(<<u>>) /\ 1 - 1 = 0
  BY <1>1
<1>4. CharsOf(<<u>>)[1] = Chars[u.kind] /\ CharsOf(<<u>>)[1] \in 1..15
  BY <1>1, <1>3, CharsAdd
<1>5. g[1] = g[0] + CharsOf(<<u>>)[1] /\ g[0] = 0 /\ g[1] = Total(Chars, <<u>>)
  BY <1>1, <1>2, <1>3 DEF IsAdding
<1>. QED  BY <1>1, <1>4, <1>5 DEF Weight

\* Two runs of additions, one after the other, are one.
LEMMA AddingConcat ==
    ASSUME NEW n \in Nat, NEW m \in Nat, NEW w, NEW v, NEW u, NEW x, NEW y, NEW z,
           NEW f, IsAdding(f, n, w, x), NEW g, IsAdding(g, m, v, y),
           NEW h, IsAdding(h, n + m, u, z),
           \A k \in 1..n : u[k] = w[k],
           \A k \in 1..m : u[n + k] = v[k], \A k \in 1..m : v[k] \in Nat
    PROVE  z = x + y /\ x \in Nat /\ y \in Nat
<1>1. /\ f[0] = 0 /\ f[n] = x /\ \A k \in 1..n : f[k] = f[k - 1] + w[k]
      /\ f[n] \in Nat
  BY DEF IsAdding
<1>2. /\ g[0] = 0 /\ g[m] = y /\ \A k \in 1..m : g[k] = g[k - 1] + v[k]
      /\ g[m] \in Nat
  BY DEF IsAdding
<1>3. /\ h \in [0..(n + m) -> Nat] /\ h[0] = 0 /\ h[n + m] = z
      /\ \A k \in 1..(n + m) : h[k] = h[k - 1] + u[k]
  BY DEF IsAdding
<1>4. \A k \in 1..n : h[k] = h[k - 1] + w[k]
  <2>1. \A k \in 1..n : k \in 1..(n + m)
    OBVIOUS
  <2>. QED  BY <1>3, <2>1
<1>5. h[n] = f[n]
  <2>1. h[0] = f[0] /\ \A k \in 1..n : f[k] = f[k - 1] + w[k]
    BY <1>1, <1>3
  <2>2. \A k \in 0..n : h[k] = f[k]
    BY <1>4, <2>1, SumsAgree
  <2>. QED  BY <2>2
<1> DEFINE e == [k \in 0..m |-> h[n + k] - h[n]]
<1>6. e[0] = 0 /\ e[m] = z - x /\ z \in Nat
  <2>1. n \in 0..(n + m) /\ 0 \in 0..m /\ m \in 0..m /\ n + m \in 0..(n + m) /\ n + 0 = n
    OBVIOUS
  <2>2. h[n] \in Nat /\ h[n + m] \in Nat
    BY <1>3, <2>1
  <2>. QED  BY <1>1, <1>3, <1>5, <2>1, <2>2
<1>7. ASSUME NEW k \in 1..m
      PROVE  e[k] = e[k - 1] + v[k]
  <2>1. /\ n + k \in 1..(n + m) /\ n + k \in 0..(n + m) /\ n \in 0..(n + m)
        /\ (n + k) - 1 = n + (k - 1) /\ n + (k - 1) \in 0..(n + m)
        /\ k \in 0..m /\ k - 1 \in 0..m /\ k - 1 \in Int
    OBVIOUS
  <2>2. h[n + k] = h[n + (k - 1)] + v[k]
    BY <1>3, <2>1
  <2>3. h[n + k] \in Nat /\ h[n + (k - 1)] \in Nat /\ h[n] \in Nat
    BY <1>3, <2>1
  <2>. QED  BY <2>1, <2>2, <2>3
<1> HIDE DEF e
<1>8. e[m] = g[m]
  <2>1. e[0] = g[0]
    BY <1>2, <1>6
  <2>2. \A k \in 1..m : g[k] = g[k - 1] + v[k]
    BY <1>2
  <2>3. \A k \in 1..m : e[k] = e[k - 1] + v[k]
    BY <1>7
  <2>4. \A k \in 0..m : e[k] = g[k]
    BY <2>1, <2>2, <2>3, SumsAgree
  <2>. QED  BY <2>4
<1>. QED  BY <1>1, <1>2, <1>6, <1>8

\* The weights of two texts add up.
LEMMA WeightConcat ==
    ASSUME NEW s \in Texts, NEW t \in Texts
    PROVE  s \o t \in Texts /\ Weight(s \o t) = Weight(s) + Weight(t)
<1>1. /\ s \o t \in Texts /\ Len(s \o t) = Len(s) + Len(t) /\ Len(s) \in Nat /\ Len(t) \in Nat
      /\ \A k \in 1..Len(s) : (s \o t)[k] = s[k] /\ k \in 1..Len(s \o t)
      /\ \A k \in 1..Len(t) : (s \o t)[Len(s) + k] = t[k] /\ Len(s) + k \in 1..Len(s \o t)
  BY DEF Texts
<1>2. PICK f : IsAdding(f, Len(s), CharsOf(s), Total(Chars, s))
  BY CharsAdd
<1>3. PICK g : IsAdding(g, Len(t), CharsOf(t), Total(Chars, t))
  BY CharsAdd
<1>4. PICK h : IsAdding(h, Len(s \o t), CharsOf(s \o t), Total(Chars, s \o t))
  BY <1>1, CharsAdd
<1>5. /\ \A k \in 1..Len(s) : CharsOf(s \o t)[k] = CharsOf(s)[k]
      /\ \A k \in 1..Len(t) : CharsOf(s \o t)[Len(s) + k] = CharsOf(t)[k]
  BY <1>1 DEF CharsOf
<1>7. \A k \in 1..Len(t) : CharsOf(t)[k] \in Nat
  BY CharsAdd
<1>6. /\ Total(Chars, s \o t) = Total(Chars, s) + Total(Chars, t)
      /\ Total(Chars, s) \in Nat /\ Total(Chars, t) \in Nat
  <2>1. IsAdding(h, Len(s) + Len(t), CharsOf(s \o t), Total(Chars, s \o t))
    BY <1>1, <1>4
  <2>. QED  BY <1>1, <1>2, <1>3, <1>5, <1>7, <2>1, AddingConcat
<1>. QED  BY <1>1, <1>6 DEF Weight

\* A text of C is a text.
LEMMA RisingIsText ==
    ASSUME NEW C \in Vocabularies, NEW text \in RisingTexts(C)
    PROVE  text \in Texts /\ \A i \in DOMAIN text : text[i] \in C
<1>1. text \in Seq(C)
  BY DEF RisingTexts, Line
<1>2. DOMAIN text = 1..Len(text) /\ Len(text) \in Nat /\ \A i \in DOMAIN text : text[i] \in C
  BY <1>1, Indices
<1>3. text \in Seq(Phrases)
  BY <1>1, <1>2 DEF Vocabularies
<1>. QED  BY <1>2, <1>3 DEF Texts

\* A text after another one extends it.
LEMMA EarlierConcat ==
    ASSUME NEW C, NEW s \in RisingTexts(C), NEW t \in RisingTexts(C), Earlier(s, t)
    PROVE  /\ s \o t \in RisingTexts(C)
           /\ \A u : /\ Earlier(u, s) /\ Earlier(u, t) => Earlier(u, s \o t)
                     /\ Earlier(s, u) /\ Earlier(t, u) => Earlier(s \o t, u)
<1>1. s \in Line(C, IdsRise) /\ t \in Line(C, IdsRise)
  BY DEF RisingTexts
<1>2. \A i \in DOMAIN s, j \in DOMAIN t : <<s[i], t[j]>> \in IdsRise
  BY DEF Earlier
<1>3. /\ s \o t \in Line(C, IdsRise)
      /\ \A k \in DOMAIN (s \o t) :
           (\E i \in DOMAIN s : (s \o t)[k] = s[i]) \/ (\E j \in DOMAIN t : (s \o t)[k] = t[j])
  BY <1>1, <1>2, LineConcat
<1> DEFINE st == s \o t
<1>4. \A k \in DOMAIN st :
        (\E i \in DOMAIN s : st[k] = s[i]) \/ (\E j \in DOMAIN t : st[k] = t[j])
  BY <1>3
<1> HIDE DEF st
<1>5. \A u : /\ Earlier(u, s) /\ Earlier(u, t) => Earlier(u, st)
             /\ Earlier(s, u) /\ Earlier(t, u) => Earlier(st, u)
  BY <1>4 DEF Earlier
<1>. QED  BY <1>3, <1>5 DEF RisingTexts, st

-----------------------------------------------------------------------------
(* Pieces *)

\* What a piece of C is.
LEMMA PacedIs ==
    ASSUME NEW C \in Vocabularies, NEW k \in Nat, NEW p \in Timed(C, k)
    PROVE  /\ p \in Spans /\ p.speaker \in Int /\ p.from \in Nat /\ p.to \in Int
           /\ p.text \in RisingTexts(C) /\ p.text \in Texts
           /\ \A i \in DOMAIN p.text : p.text[i] \in C
           /\ p = [speaker |-> p.speaker, from |-> p.from, to |-> p.to, text |-> p.text]
           /\ Weight(p.text) \in Nat /\ k * Weight(p.text) <= p.to - p.from
           /\ p.from <= p.to
           /\ p \in Paced(C, k) => p \in Pieces(Int) /\ p.text # <<>>
           /\ p \in Paced(C, k) /\ k > 0 => p.from < p.to
<1>1. /\ p \in [speaker : Int, from : Nat, to : Int, text : RisingTexts(C)]
      /\ k * Weight(p.text) <= p.to - p.from
  BY DEF Timed
<1>2. /\ p.speaker \in Int /\ p.from \in Nat /\ p.to \in Int /\ p.text \in RisingTexts(C)
      /\ p = [speaker |-> p.speaker, from |-> p.from, to |-> p.to, text |-> p.text]
  BY <1>1
<1>3. p.text \in Texts /\ \A i \in DOMAIN p.text : p.text[i] \in C
  BY <1>2, RisingIsText
<1>4. Weight(p.text) \in Nat /\ (p.text # <<>> => Weight(p.text) > 1)
  BY <1>3, WeightType
<1>5. k * Weight(p.text) \in Nat /\ (k > 0 /\ p.text # <<>> => k * Weight(p.text) > 0)
  BY <1>4
<1>6. p \in Paced(C, k) => p.text # <<>>
  BY DEF Paced
<1>7. p \in Spans /\ (p \in Paced(C, k) => p \in Pieces(Int))
  BY <1>2, <1>3, <1>6 DEF Spans, Pieces
<1>8. p.from <= p.to /\ (p \in Paced(C, k) /\ k > 0 => p.from < p.to)
  BY <1>1, <1>2, <1>5, <1>6
<1>. QED  BY <1>1, <1>2, <1>3, <1>4, <1>6, <1>7, <1>8

\* The same, without its weight.
LEMMA TimedIs ==
    ASSUME NEW C \in Vocabularies, NEW k \in Nat, NEW p \in Timed(C, k)
    PROVE  /\ p \in Spans /\ p.speaker \in Int /\ p.from \in Nat /\ p.to \in Int
           /\ p.text \in RisingTexts(C) /\ p.from <= p.to
BY PacedIs

CutOut(p, a, b, t) == [p EXCEPT !.from = a, !.to = b, !.text = t]

\* A piece cut out of another one.
LEMMA CutPiece ==
    ASSUME NEW S, NEW p \in Pieces(S), NEW a \in Int, NEW b \in Int, NEW t \in Texts
    PROVE  CutOut(p, a, b, t) = [speaker |-> p.speaker, from |-> a, to |-> b, text |-> t]
<1> DEFINE x == CutOut(p, a, b, t)
<1>1. p \in [speaker : S, from : Int, to : Int, text : Texts]
  BY DEF Pieces
<1>2. /\ x \in [speaker : S, from : Int, to : Int, text : Texts]
      /\ x.speaker = p.speaker /\ x.from = a /\ x.to = b /\ x.text = t
  BY <1>1 DEF CutOut
<1> HIDE DEF x
<1>3. x = [speaker |-> x.speaker, from |-> x.from, to |-> x.to, text |-> x.text]
  BY <1>2
<1>. QED  BY <1>2, <1>3 DEF x

LastAs(s, y) == [s EXCEPT ![Len(s)] = y]

\* A sequence with another last element.
LEMMA LastReplaced ==
    ASSUME NEW X, NEW s \in Seq(X), NEW x \in X, NEW y \in X
    PROVE  LastAs(Append(s, x), y) = Append(s, y)
<1> DEFINE old == Append(s, x)
           n == Len(s)
           m == Len(old)
           new == [old EXCEPT ![m] = y]
<1>1. n \in Nat /\ m \in Nat /\ m = n + 1 /\ old \in Seq(X) /\ old # <<>> /\ old[m] = x
      /\ \A i \in 1..n : old[i] = s[i]
  BY AppendProperties
<1> HIDE DEF old
<1>2. /\ Append(s, y) \in Seq(X) /\ Len(Append(s, y)) = m /\ Append(s, y)[m] = y
      /\ \A i \in 1..n : Append(s, y)[i] = s[i]
  BY <1>1, AppendProperties
<1> HIDE DEF m, n
<1>3. new \in Seq(X) /\ Len(new) = m /\ \A i \in 1..m : new[i] = IF i = m THEN y ELSE old[i]
  <2>1. DOMAIN old = 1..m /\ m \in 1..m
    BY <1>1 DEF m
  <2>2. DOMAIN new = 1..m /\ \A i \in 1..m : new[i] = IF i = m THEN y ELSE old[i]
    BY <2>1
  <2>3. \A i \in 1..m : old[i] \in X
    BY <1>1, <2>1
  <2>4. new = [i \in 1..m |-> new[i]]
    BY <2>1
  <2> HIDE DEF new
  <2>5. \A i \in 1..m : new[i] \in X
    BY <2>2, <2>3
  <2>6. m \in Nat
    BY <1>1
  <2>7. new \in Seq(X)
    BY <2>4, <2>5, <2>6
  <2>8. Len(new) = m
    BY <2>4, <2>6
  <2>. QED  BY <2>2, <2>7, <2>8
<1> HIDE DEF new
<1>4. \A i \in 1..m : new[i] = Append(s, y)[i]
  BY <1>1, <1>2, <1>3
<1>5. new = Append(s, y)
  BY <1>2, <1>3, <1>4, SeqEqual
<1>. QED  BY <1>5 DEF new, m, LastAs, old

\* A piece follows another one.
LEMMA FollowsIs ==
    ASSUME NEW p \in Spans, NEW q \in Spans
    PROVE  <<p, q>> \in Follows <=> p.to <= q.from /\ Earlier(p.text, q.text)
BY DEF Follows

-----------------------------------------------------------------------------
(* Sorting and merging lines *)

\* sequences of elements of X, any two of them in Q
Tangle(X, Q) == {s \in Seq(X) : \A i, j \in DOMAIN s : i # j => <<s[i], s[j]>> \in Q}

\* what Q and the times tell of the order R
Sortable(X, Q, R) ==
    /\ X \subseteq Pieces(Int)
    /\ \A p, q \in X : <<p, q>> \in Q /\ p.from <= q.from => <<p, q>> \in R

\* Sorted by time, pieces are in the order that follows from their times.
LEMMA SortedLine ==
    ASSUME NEW X, NEW Q, NEW R, Sortable(X, Q, R), NEW pieces \in Tangle(X, Q)
    PROVE  SortTurns(pieces) \in Line(X, R)
<1> DEFINE n == Len(pieces)
           sorted == SortTurns(pieces)
<1>1. /\ pieces \in Seq(X) /\ pieces \in Seq(Pieces(Int)) /\ n \in Nat /\ DOMAIN pieces = 1..n
      /\ \A i \in 1..n : pieces[i] \in X /\ pieces[i] \in Pieces(Int)
  <2>1. pieces \in Seq(X) /\ X \subseteq Pieces(Int)
    BY DEF Tangle, Sortable
  <2>2. DOMAIN pieces = 1..n /\ n \in Nat /\ \A i \in 1..n : pieces[i] \in X
    BY <2>1, Indices
  <2>3. pieces \in Seq(Pieces(Int))
    BY <2>1, <2>2
  <2>. QED  BY <2>1, <2>2, <2>3
<1>2. PICK order : /\ SortsTurns(order, pieces)
                   /\ sorted = [k \in 1..n |-> pieces[order[k]]]
  BY <1>1, TurnsPermuted
<1>3. order \in [1..n -> 1..n]
  BY <1>2 DEF SortsTurns
<1>4. sorted \in Seq(X) /\ Len(sorted) = n /\ \A k \in 1..n : sorted[k] = pieces[order[k]]
  BY <1>1, <1>2, <1>3, PermutedType
<1>5. DOMAIN sorted = 1..n
  BY <1>4, Indices
<1>6. ASSUME NEW k \in 1..n, NEW l \in 1..n, k < l
      PROVE  <<sorted[k], sorted[l]>> \in R
  <2>1. order[k] \in 1..n /\ order[l] \in 1..n /\ TurnPrecedes(pieces, order[k], order[l])
    BY <1>2, <1>3, <1>6 DEF SortsTurns
  <2>2. /\ pieces[order[k]].from \in Int /\ pieces[order[l]].from \in Int
        /\ pieces[order[k]].to \in Int /\ pieces[order[l]].to \in Int
        /\ pieces[order[k]].speaker \in Int /\ pieces[order[l]].speaker \in Int
    BY <1>1, <2>1 DEF Pieces
  <2>3. pieces[order[k]].from <= pieces[order[l]].from /\ order[k] # order[l]
    BY <2>1, <2>2 DEF TurnPrecedes
  <2>4. <<pieces[order[k]], pieces[order[l]]>> \in Q
    BY <1>1, <2>1, <2>3 DEF Tangle
  <2>. QED  BY <1>1, <1>4, <2>1, <2>3, <2>4 DEF Sortable
<1>. QED  BY <1>4, <1>5, <1>6 DEF Line

\* x is R-after every element of the sequence
Leads(seq, x, R) == \A i \in DOMAIN seq : <<seq[i], x>> \in R

\* new is a line if old is one that leads to q, and what old and q lead to comes after new as well
Extends(new, old, q, X, R) ==
    old \in Line(X, R) /\ Leads(old, q, R) =>
        /\ new \in Line(X, R)
        /\ \A o \in X : Leads(old, o, R) /\ <<q, o>> \in R => Leads(new, o, R)

\* what comes before p and q, or after both, comes before or after j
Between(j, p, q, X, R) ==
    \A o \in X : /\ <<o, p>> \in R /\ <<o, q>> \in R => <<o, j>> \in R
                 /\ <<p, o>> \in R /\ <<q, o>> \in R => <<j, o>> \in R

\* j may take the place of p and q.
Joins(j, p, q, X, R) == <<p, q>> \in R => j \in X /\ Between(j, p, q, X, R)

\* A line is extended by what comes next.
LEMMA AppendExtends ==
    ASSUME NEW X, NEW R, NEW old, NEW q \in X
    PROVE  Extends(Append(old, q), old, q, X, R)
<1> SUFFICES ASSUME old \in Line(X, R), Leads(old, q, R)
             PROVE  /\ Append(old, q) \in Line(X, R)
                    /\ \A o \in X : Leads(old, o, R) /\ <<q, o>> \in R => Leads(Append(old, q), o, R)
  BY DEF Extends
<1>1. /\ Append(old, q) \in Line(X, R)
      /\ \A k \in DOMAIN Append(old, q) :
           Append(old, q)[k] = q \/ \E i \in DOMAIN old : Append(old, q)[k] = old[i]
  BY LineAppend DEF Leads
<1>. QED  BY <1>1 DEF Leads

\* So it is when the last element and the next one are joined.
LEMMA JoinExtends ==
    ASSUME NEW X, NEW R, NEW old \in Seq(X), old # <<>>, NEW q \in X, NEW j,
           Joins(j, old[Len(old)], q, X, R)
    PROVE  Extends([old EXCEPT ![Len(old)] = j], old, q, X, R)
<1> SUFFICES ASSUME old \in Line(X, R), Leads(old, q, R)
             PROVE  /\ [old EXCEPT ![Len(old)] = j] \in Line(X, R)
                    /\ \A o \in X : Leads(old, o, R) /\ <<q, o>> \in R =>
                                      Leads([old EXCEPT ![Len(old)] = j], o, R)
  BY DEF Extends
<1> DEFINE n == Len(old)
           new == [old EXCEPT ![n] = j]
           last == old[n]
<1>1. /\ n \in 1..n /\ DOMAIN old = 1..n /\ n \in Nat /\ \A i \in 1..n : old[i] \in X
  BY Indices
<1>2. j \in X /\ Between(j, last, q, X, R)
  BY <1>1 DEF Leads, Joins
<1>11. j \in X
  BY <1>2
<1>3. /\ new \in Seq(X) /\ DOMAIN new = 1..n /\ new[n] = j
      /\ \A i \in 1..n : i # n => new[i] = old[i]
  <2>1. DOMAIN new = 1..n
    BY <1>1
  <2>2. new[n] = j /\ \A i \in 1..n : i # n => new[i] = old[i]
    BY <1>1
  <2>3. \A i \in 1..n : new[i] \in X
    BY <1>1, <1>11, <2>2
  <2>4. new = [i \in 1..n |-> new[i]]
    BY <1>1
  <2> HIDE DEF new
  <2>5. new \in Seq(X)
    BY <1>1, <2>3, <2>4
  <2>. QED  BY <2>1, <2>2, <2>5
<1>4. \A i, l \in 1..n : i < l => <<old[i], old[l]>> \in R
  BY <1>1 DEF Line
<1>5. \A i \in 1..n : <<old[i], q>> \in R
  BY <1>1 DEF Leads
<1>6. last \in X
  BY <1>1
<1> HIDE DEF new, last, n
<1>7. ASSUME NEW i \in 1..n, NEW l \in 1..n, i < l
      PROVE  <<new[i], new[l]>> \in R
  <2>1. CASE l # n
    BY <1>1, <1>3, <1>4, <1>7, <2>1
  <2>2. CASE l = n
    <3>1. <<old[i], last>> \in R /\ <<old[i], q>> \in R /\ old[i] \in X
      BY <1>1, <1>4, <1>5, <1>7, <2>2 DEF last
    <3>2. new[i] = old[i] /\ new[l] = j
      BY <1>1, <1>3, <1>7, <2>2
    <3>. QED  BY <1>2, <3>1, <3>2 DEF Between
  <2>. QED  BY <2>1, <2>2
<1>8. ASSUME NEW o \in X, Leads(old, o, R), <<q, o>> \in R, NEW i \in 1..n
      PROVE  <<new[i], o>> \in R
  <2>1. CASE i # n
    BY <1>1, <1>3, <1>8, <2>1 DEF Leads
  <2>2. CASE i = n
    <3>1. <<last, o>> \in R
      BY <1>1, <1>8 DEF Leads, last
    <3>. QED  BY <1>2, <1>3, <1>8, <2>2, <3>1 DEF Between
  <2>. QED  BY <2>1, <2>2
<1>9. new \in Line(X, R)
  BY <1>3, <1>7 DEF Line
<1>10. \A o \in X : Leads(old, o, R) /\ <<q, o>> \in R => Leads(new, o, R)
  BY <1>3, <1>8 DEF Leads
<1>. QED  BY <1>9, <1>10 DEF new, n

\* g is extended by one element of seq after the other.
ExtendsAlong(g, seq, X, R) ==
    g[0] = <<>> /\ \A k \in 1..Len(seq) : Extends(g[k], g[k - 1], seq[k], X, R)

\* Extended by the elements of a line, it stays a line.
LEMMA ExtendedLine ==
    ASSUME NEW X, NEW R, NEW seq \in Line(X, R), NEW g, ExtendsAlong(g, seq, X, R)
    PROVE  g[Len(seq)] \in Line(X, R)
<1> DEFINE n == Len(seq)
<1>1. /\ n \in Nat /\ DOMAIN seq = 1..n /\ \A k \in 1..n : seq[k] \in X
      /\ \A k, l \in 1..n : k < l => <<seq[k], seq[l]>> \in R
  <2>1. seq \in Seq(X)
    BY DEF Line
  <2>2. n \in Nat /\ DOMAIN seq = 1..n /\ \A k \in 1..n : seq[k] \in X
    BY <2>1, Indices
  <2>. QED  BY <2>2 DEF Line
<1>2. g[0] = <<>> /\ \A k \in 1..n : Extends(g[k], g[k - 1], seq[k], X, R)
  BY DEF ExtendsAlong
<1> HIDE DEF n
<1> DEFINE T == {k \in 0..n : /\ g[k] \in Line(X, R)
                              /\ \A l \in 1..n : k < l => Leads(g[k], seq[l], R)}
<1>3. 0 \in T
  <2>1. <<>> \in Seq(X) /\ DOMAIN <<>> = {}
    OBVIOUS
  <2>2. <<>> \in Line(X, R)
    BY <2>1 DEF Line
  <2>. QED  BY <1>1, <1>2, <2>1, <2>2 DEF Leads
<1>4. ASSUME NEW k \in 1..n, k - 1 \in T
      PROVE  k \in T
  <2>1. k \in 0..n /\ k - 1 < k /\ seq[k] \in X
    BY <1>1
  <2>2. g[k - 1] \in Line(X, R) /\ Leads(g[k - 1], seq[k], R)
    BY <1>4, <2>1
  <2>3. /\ g[k] \in Line(X, R)
        /\ \A o \in X : Leads(g[k - 1], o, R) /\ <<seq[k], o>> \in R => Leads(g[k], o, R)
    BY <1>2, <2>2 DEF Extends
  <2>4. ASSUME NEW l \in 1..n, k < l
        PROVE  Leads(g[k], seq[l], R)
    <3>1. seq[l] \in X /\ <<seq[k], seq[l]>> \in R /\ k - 1 < l
      BY <1>1, <2>4
    <3>2. Leads(g[k - 1], seq[l], R)
      BY <1>4, <3>1
    <3>. QED  BY <2>3, <3>1, <3>2
  <2>. QED  BY <2>1, <2>3, <2>4
<1> HIDE DEF T
<1>5. \A k \in 0..n : k \in T
  BY <1>1, <1>3, <1>4, StepInduction
<1>. QED  BY <1>1, <1>5 DEF T, n

\* the merge rule's result
Joined(p, q) == [p EXCEPT !.to = Larger(@, q.to), !.text = @ \o q.text]

\* joining keeps to X and to the order R
MergesWell(X, R) ==
    /\ X \subseteq Pieces(Int)
    /\ \A p, q \in X : <<p, q>> \in R /\ CanMerge(p, q) =>
         Joined(p, q) \in X /\ Between(Joined(p, q), p, q, X, R)

\* The merge rule joins the last turn with the next one or appends it.
LEMMA MergedExtends ==
    ASSUME NEW X, NEW R, MergesWell(X, R), NEW merged \in Seq(X), NEW q \in X
    PROVE  Extends(Merged(merged, q), merged, q, X, R)
<1>1. CASE merged # <<>> /\ CanMerge(Last(merged), q)
  <2> DEFINE n == Len(merged)
             last == merged[n]
  <2>1. n \in 1..n /\ last \in X /\ Last(merged) = last /\ DOMAIN merged = 1..n
    BY <1>1 DEF Last
  <2>2. Joins(Joined(last, q), last, q, X, R)
    BY <1>1, <2>1 DEF MergesWell, Joins
  <2>3. Merged(merged, q) = [merged EXCEPT ![n] = Joined(last, q)]
    <3>1. Merged(merged, q) = [merged EXCEPT ![n].to = Larger(@, q.to), ![n].text = @ \o q.text]
      BY <1>1 DEF Merged
    <3>2. last \in Pieces(Int)
      BY <2>1 DEF MergesWell
    <3>. QED  BY <2>1, <3>1, <3>2 DEF Joined, Pieces
  <2>4. merged # <<>> /\ Joins(Joined(last, q), merged[Len(merged)], q, X, R)
    BY <1>1, <2>2
  <2>5. Extends([merged EXCEPT ![Len(merged)] = Joined(last, q)], merged, q, X, R)
    BY <2>4, JoinExtends
  <2>. QED  BY <2>3, <2>5
<1>2. CASE ~(merged # <<>> /\ CanMerge(Last(merged), q))
  BY <1>2, AppendExtends DEF Merged
<1>. QED  BY <1>1, <1>2

\* Merging keeps the order of the sorted pieces.
LEMMA MergeLine ==
    ASSUME NEW X, NEW R, MergesWell(X, R), NEW pieces \in Seq(Pieces(Int)),
           SortTurns(pieces) \in Line(X, R)
    PROVE  MergeTurns(pieces) \in Line(X, R)
<1> DEFINE sorted == SortTurns(pieces)
           n == Len(sorted)
           V == {m \in Seq(Pieces(Int)) : Apart(m)}
<1>1. PICK g \in [0..n -> V] :
          /\ g[0] = <<>> /\ g[n] = MergeTurns(pieces)
          /\ \A k \in 1..n : g[k] = Merged(g[k - 1], sorted[k])
  BY MergeSteps
<1>2. \A k \in 1..n : sorted[k] \in X
  <2>1. sorted \in Seq(X)
    BY DEF Line
  <2>. QED  BY <2>1, Indices
<1> HIDE DEF sorted, V
<1>3. ASSUME NEW k \in 1..n
      PROVE  Extends(g[k], g[k - 1], sorted[k], X, R)
  <2>1. g[k] = Merged(g[k - 1], sorted[k]) /\ sorted[k] \in X
    BY <1>1, <1>2
  <2>2. CASE g[k - 1] \in Seq(X)
    BY <2>1, <2>2, MergedExtends
  <2>3. CASE g[k - 1] \notin Seq(X)
    BY <2>3 DEF Extends, Line
  <2>. QED  BY <2>2, <2>3
<1>4. ExtendsAlong(g, sorted, X, R)
  BY <1>1, <1>3 DEF ExtendsAlong
<1>5. sorted \in Line(X, R)
  BY DEF sorted
<1>. QED  BY <1>1, <1>4, <1>5, ExtendedLine

\* Joining a piece with one that follows it gives a piece of C, which follows what both of them
\* follow and which is followed by what follows both.
LEMMA JoinFollowing ==
    ASSUME NEW C \in Vocabularies, NEW k \in Nat, NEW p \in Paced(C, k), NEW q \in Paced(C, k),
           <<p, q>> \in Follows
    PROVE  /\ Joined(p, q) \in Paced(C, k)
           /\ Joined(p, q).speaker = p.speaker /\ Joined(p, q).from = p.from
           /\ Joined(p, q).text = p.text \o q.text
           /\ Between(Joined(p, q), p, q, Paced(C, k), Follows)
<1> DEFINE j == Joined(p, q)
<1>1. /\ p \in Spans /\ p.speaker \in Int /\ p.from \in Nat /\ p.to \in Int
      /\ p.text \in RisingTexts(C) /\ p.text \in Texts /\ Weight(p.text) \in Nat
      /\ k * Weight(p.text) <= p.to - p.from /\ p.from <= p.to /\ p.text # <<>>
      /\ p = [speaker |-> p.speaker, from |-> p.from, to |-> p.to, text |-> p.text]
  BY PacedIs DEF Paced
<1>2. /\ q \in Spans /\ q.from \in Nat /\ q.to \in Int
      /\ q.text \in RisingTexts(C) /\ q.text \in Texts /\ Weight(q.text) \in Nat
      /\ k * Weight(q.text) <= q.to - q.from /\ q.from <= q.to
  BY PacedIs DEF Paced
<1>3. p.to <= q.from /\ Earlier(p.text, q.text)
  BY <1>1, <1>2, FollowsIs
<1> DEFINE text == p.text \o q.text
<1>4. /\ text \in RisingTexts(C)
      /\ \A u : /\ Earlier(u, p.text) /\ Earlier(u, q.text) => Earlier(u, text)
                /\ Earlier(p.text, u) /\ Earlier(q.text, u) => Earlier(text, u)
  BY <1>1, <1>2, <1>3, EarlierConcat
<1>5. text # <<>>
  BY <1>1, <1>2 DEF Texts
<1>6. Weight(text) = Weight(p.text) + Weight(q.text)
  BY <1>1, <1>2, WeightConcat
<1>7. Larger(p.to, q.to) = q.to
  BY <1>1, <1>2, <1>3 DEF Larger
<1>8. j = [p EXCEPT !.to = q.to, !.text = text]
  BY <1>7 DEF Joined
<1> HIDE DEF j, text
<1>9. k * Weight(text) <= q.to - p.from
  <2> DEFINE a == k * Weight(p.text)
             b == k * Weight(q.text)
  <2>1. k * Weight(text) = a + b
    BY <1>1, <1>2, <1>6
  <2>2. a \in Int /\ b \in Int /\ a <= p.to - p.from /\ b <= q.to - q.from
    BY <1>1, <1>2
  <2>3. p.from \in Int /\ p.to \in Int /\ q.from \in Int /\ q.to \in Int
    BY <1>1, <1>2
  <2> HIDE DEF a, b
  <2>. QED  BY <1>3, <2>1, <2>2, <2>3
<1>11. /\ j.from = p.from /\ j.to = q.to /\ j.text = text /\ j.speaker = p.speaker
       /\ j \in [speaker : Int, from : Nat, to : Int, text : RisingTexts(C)]
  BY <1>1, <1>2, <1>4, <1>8
<1>10. j \in Paced(C, k) /\ j \in Spans
  <2>1. j \in Paced(C, k)
    BY <1>5, <1>9, <1>11 DEF Paced, Timed
  <2>. QED  BY <2>1, PacedIs DEF Paced
<1>12. ASSUME NEW o \in Paced(C, k)
       PROVE  /\ <<o, p>> \in Follows /\ <<o, q>> \in Follows => <<o, j>> \in Follows
              /\ <<p, o>> \in Follows /\ <<q, o>> \in Follows => <<j, o>> \in Follows
  <2>1. o \in Spans
    BY PacedIs DEF Paced
  <2>2. ASSUME <<o, p>> \in Follows, <<o, q>> \in Follows
        PROVE  <<o, j>> \in Follows
    <3>1. o.to <= p.from
      BY <1>1, <2>1, <2>2, FollowsIs
    <3>2. Earlier(o.text, p.text) /\ Earlier(o.text, q.text)
      BY <1>1, <1>2, <2>1, <2>2, FollowsIs
    <3>3. Earlier(o.text, text)
      BY <1>4, <3>2
    <3>. QED  BY <1>10, <1>11, <2>1, <3>1, <3>3, FollowsIs
  <2>3. ASSUME <<p, o>> \in Follows, <<q, o>> \in Follows
        PROVE  <<j, o>> \in Follows
    <3>1. q.to <= o.from
      BY <1>2, <2>1, <2>3, FollowsIs
    <3>2. Earlier(p.text, o.text) /\ Earlier(q.text, o.text)
      BY <1>1, <1>2, <2>1, <2>3, FollowsIs
    <3>3. Earlier(text, o.text)
      BY <1>4, <3>2
    <3>. QED  BY <1>10, <1>11, <2>1, <3>1, <3>3, FollowsIs
  <2>. QED  BY <2>2, <2>3
<1>13. Between(j, p, q, Paced(C, k), Follows)
  BY <1>12 DEF Between
<1>. QED  BY <1>10, <1>11, <1>13 DEF j, text

-----------------------------------------------------------------------------
(* One channel *)

\* a piece before or after another one
Apiece == {x \in Spans \X Spans : x \in Follows \/ <<x[2], x[1]>> \in Follows}

\* The order of pieces that last is that of their times.
LEMMA FollowsSorts ==
    ASSUME NEW C \in Vocabularies, NEW k \in Nat, k > 0
    PROVE  /\ Sortable(Paced(C, k), Apiece, Follows)
           /\ Line(Paced(C, k), Follows) \subseteq Tangle(Paced(C, k), Apiece)
<1>1. ASSUME NEW p \in Paced(C, k)
      PROVE  p \in Spans /\ p \in Pieces(Int) /\ p.from \in Int /\ p.to \in Int /\ p.from < p.to
  <2>1. p \in Timed(C, k) /\ k \in Nat /\ p \in Paced(C, k)
    BY DEF Paced
  <2>2. /\ p \in Spans /\ p.from \in Nat /\ p.to \in Int
        /\ p \in Paced(C, k) => p \in Pieces(Int) /\ p.text # <<>>
        /\ p \in Paced(C, k) /\ k > 0 => p.from < p.to
    BY <2>1, PacedIs
  <2>. QED  BY <2>1, <2>2
<1>2. ASSUME NEW p \in Paced(C, k), NEW q \in Paced(C, k), <<p, q>> \in Apiece, p.from <= q.from
      PROVE  <<p, q>> \in Follows
  <2>1. CASE <<q, p>> \in Follows
    BY <1>1, <1>2, <2>1, FollowsIs
  <2>. QED  BY <1>2, <2>1 DEF Apiece
<1>3. ASSUME NEW s \in Line(Paced(C, k), Follows)
      PROVE  s \in Tangle(Paced(C, k), Apiece)
  <2>1. s \in Seq(Paced(C, k))
    BY DEF Line
  <2>2. DOMAIN s \in SUBSET Int /\ \A i \in DOMAIN s : s[i] \in Paced(C, k)
    BY <2>1, Indices
  <2>3. ASSUME NEW i \in DOMAIN s, NEW j \in DOMAIN s, i # j
        PROVE  <<s[i], s[j]>> \in Apiece
    <3>1. i < j \/ j < i
      BY <2>2, <2>3
    <3>2. <<s[i], s[j]>> \in Follows \/ <<s[j], s[i]>> \in Follows
      BY <3>1 DEF Line
    <3>. QED  BY <1>1, <2>2, <3>2 DEF Apiece
  <2>. QED  BY <2>1, <2>3 DEF Tangle
<1>. QED  BY <1>1, <1>2, <1>3 DEF Sortable

\* Pieces of C are merged well.
LEMMA FollowsMerges ==
    ASSUME NEW C \in Vocabularies, NEW k \in Nat
    PROVE  MergesWell(Paced(C, k), Follows)
<1>1. Paced(C, k) \subseteq Pieces(Int)
  BY PacedIs DEF Paced
<1>2. ASSUME NEW p \in Paced(C, k), NEW q \in Paced(C, k), <<p, q>> \in Follows
      PROVE  /\ Joined(p, q) \in Paced(C, k)
             /\ Between(Joined(p, q), p, q, Paced(C, k), Follows)
  BY <1>2, JoinFollowing
<1>. QED  BY <1>1, <1>2 DEF MergesWell

\* pieces of C one after the other, with k units of time for each character
InTurn(C, k) == Line(Paced(C, k), Follows)

\* They are pieces.
LEMMA InTurnType ==
    ASSUME NEW C \in Vocabularies, NEW k \in Nat, NEW pieces \in InTurn(C, k)
    PROVE  /\ pieces \in Seq(Paced(C, k)) /\ pieces \in Seq(Pieces(Int))
           /\ DOMAIN pieces = 1..Len(pieces) /\ Len(pieces) \in Nat
           /\ \A i \in DOMAIN pieces : pieces[i] \in Paced(C, k)
<1>1. pieces \in Seq(Paced(C, k))
  BY DEF InTurn, Line
<1>2. /\ DOMAIN pieces = 1..Len(pieces) /\ Len(pieces) \in Nat
      /\ \A i \in DOMAIN pieces : pieces[i] \in Paced(C, k)
  BY <1>1, Indices
<1>3. Paced(C, k) \subseteq Pieces(Int)
  BY FollowsMerges DEF MergesWell
<1>4. pieces \in Seq(Pieces(Int))
  BY <1>1, <1>2, <1>3
<1>. QED  BY <1>1, <1>2, <1>4

\* Sorting, merging and another speaker for each piece keep the order of one channel.
LEMMA SortedInTurn ==
    ASSUME NEW C \in Vocabularies, NEW k \in Nat, k > 0, NEW pieces \in InTurn(C, k)
    PROVE  SortTurns(pieces) \in InTurn(C, k)
<1>1. Sortable(Paced(C, k), Apiece, Follows) /\ pieces \in Tangle(Paced(C, k), Apiece)
  BY FollowsSorts DEF InTurn
<1>. QED  BY <1>1, SortedLine DEF InTurn

\* Sorting and merging joins neighbours only: what was in turn stays in turn.
LEMMA MergedInTurn ==
    ASSUME NEW C \in Vocabularies, NEW k \in Nat, k > 0, NEW pieces \in InTurn(C, k)
    PROVE  MergeTurns(pieces) \in InTurn(C, k)
<1>1. SortTurns(pieces) \in Line(Paced(C, k), Follows)
  BY SortedInTurn DEF InTurn
<1>2. pieces \in Seq(Pieces(Int))
  BY InTurnType
<1>3. MergesWell(Paced(C, k), Follows)
  BY FollowsMerges
<1>. QED  BY <1>1, <1>2, <1>3, MergeLine DEF InTurn

\* Other speakers for the same pieces change neither times nor texts, nor their order.
LEMMA RelabelledInTurn ==
    ASSUME NEW C \in Vocabularies, NEW k \in Nat, NEW pieces \in InTurn(C, k),
           NEW label \in [DOMAIN pieces -> Int]
    PROVE  Relabelled(pieces, label) \in InTurn(C, k)
<1> DEFINE new == Relabelled(pieces, label)
<1>1. /\ pieces \in Seq(Pieces(Int)) /\ DOMAIN pieces = 1..Len(pieces) /\ Len(pieces) \in Nat
      /\ \A i \in DOMAIN pieces : pieces[i] \in Paced(C, k)
  BY InTurnType
<1>2. /\ DOMAIN new = DOMAIN pieces
      /\ \A i \in DOMAIN pieces : new[i] = [pieces[i] EXCEPT !.speaker = label[i]]
  BY DEF Relabelled
<1> HIDE DEF new
<1>3. ASSUME NEW i \in DOMAIN pieces
      PROVE  /\ new[i] \in Paced(C, k) /\ new[i] \in Spans /\ new[i].from = pieces[i].from
             /\ new[i].to = pieces[i].to /\ new[i].text = pieces[i].text /\ pieces[i] \in Spans
  <2>1. /\ pieces[i] \in Timed(C, k) /\ pieces[i].text # <<>> /\ label[i] \in Int
        /\ pieces[i] \in Spans
    BY <1>1, PacedIs DEF Paced
  <2>2. pieces[i] \in [speaker : Int, from : Nat, to : Int, text : RisingTexts(C)]
    BY <2>1 DEF Timed
  <2>3. /\ new[i] \in [speaker : Int, from : Nat, to : Int, text : RisingTexts(C)]
        /\ new[i].from = pieces[i].from /\ new[i].to = pieces[i].to /\ new[i].text = pieces[i].text
    BY <1>2, <2>1, <2>2
  <2>4. new[i] \in Paced(C, k)
    BY <2>1, <2>3 DEF Paced, Timed
  <2>5. new[i] \in Spans
    BY <2>4, PacedIs DEF Paced
  <2>. QED  BY <2>1, <2>3, <2>4, <2>5
<1>4. ASSUME NEW i \in DOMAIN pieces, NEW j \in DOMAIN pieces, i < j
      PROVE  <<new[i], new[j]>> \in Follows
  <2>1. <<pieces[i], pieces[j]>> \in Follows
    BY <1>4 DEF InTurn, Line
  <2>. QED  BY <1>3, <2>1, FollowsIs
<1>5. new \in Seq(Paced(C, k))
  <2>1. new = [i \in 1..Len(pieces) |-> new[i]]
    BY <1>1, <1>2 DEF new, Relabelled
  <2>. QED  BY <1>1, <1>3, <2>1
<1>. QED  BY <1>2, <1>4, <1>5 DEF InTurn, Line, new

\* So does settling the turns.
LEMMA SettledInTurn ==
    ASSUME NEW C \in Vocabularies, NEW k \in Nat, k > 0, NEW pieces \in InTurn(C, k)
    PROVE  Settle(pieces) \in InTurn(C, k)
<1> DEFINE merged == MergeTurns(pieces)
<1>1. merged \in InTurn(C, k)
  BY MergedInTurn
<1>2. merged \in Seq(Pieces(Int))
  BY <1>1, InTurnType
<1> HIDE DEF merged
<1>3. PICK label \in [DOMAIN merged -> Int] :
        SmoothTurns(merged) = IF Len(merged) < 3 THEN merged ELSE MergeTurns(Relabelled(merged, label))
  BY <1>2, SmoothRelabels, Int \in SUBSET Int
<1>4. MergeTurns(Relabelled(merged, label)) \in InTurn(C, k)
  BY <1>1, RelabelledInTurn, MergedInTurn
<1>. QED  BY <1>1, <1>3, <1>4 DEF Settle, merged

\* An assignment of speakers, with the merging and smoothing that end it, keeps pieces in turn.
LEMMA AssignedInTurn ==
    ASSUME NEW C \in Vocabularies, NEW k \in Nat, k > 0, NEW pieces \in InTurn(C, k),
           NEW L \in SUBSET Int, NEW label \in [DOMAIN pieces -> L]
    PROVE  Settle(Relabelled(pieces, label)) \in InTurn(C, k)
<1>1. label \in [DOMAIN pieces -> Int]
  OBVIOUS
<1>. QED  BY <1>1, RelabelledInTurn, SettledInTurn

\* Dropping pieces keeps their order.
LEMMA KeptInTurn ==
    ASSUME NEW C \in Vocabularies, NEW k \in Nat, NEW pieces \in InTurn(C, k), NEW keep
    PROVE  Kept(pieces, keep) \in InTurn(C, k)
BY KeptLine DEF InTurn

\* So does leaving out the pieces of the announcement system (_drop_system_turns).
LEMMA DroppedInTurn ==
    ASSUME NEW C \in Vocabularies, NEW k \in Nat, NEW pieces \in InTurn(C, k)
    PROVE  DropSystem(pieces) \in InTurn(C, k)
<1>1. pieces \in Seq(Paced(C, k))
  BY InTurnType
<1>2. <<>> \in InTurn(C, k)
  <2>1. <<>> \in Seq(Paced(C, k)) /\ DOMAIN <<>> = {}
    OBVIOUS
  <2>. QED  BY <2>1 DEF InTurn, Line
<1>. QED  BY <1>1, <1>2, DropKeeps, KeptInTurn

-----------------------------------------------------------------------------
(* The units of a text *)

\* the terms of the lengths of units
LengthsOf(units) == [k \in 1..Len(units) |-> Length(units[k])]

\* The lengths of units are added unit by unit.
LEMMA LengthsAdd ==
    ASSUME NEW units \in Seq(Spoken)
    PROVE  /\ \E g : IsAdding(g, Len(units), LengthsOf(units), Lengths(units))
           /\ Len(units) \in Nat
           /\ \A k \in 1..Len(units) : LengthsOf(units)[k] = Length(units[k]) /\ LengthsOf(units)[k] \in Nat
<1>1. PICK g \in [0..Len(units) -> Nat] :
          /\ g[0] = 0 /\ g[Len(units)] = Lengths(units)
          /\ \A k \in 1..Len(units) : g[k] = g[k - 1] + Length(units[k])
  BY LengthsSteps
<1>2. IsAdding(g, Len(units), LengthsOf(units), Lengths(units))
  BY <1>1 DEF IsAdding, LengthsOf
<1>3. Len(units) \in Nat /\ \A k \in 1..Len(units) : units[k] \in Spoken
  BY Indices
<1>4. \A k \in 1..Len(units) : Length(units[k]) \in Nat
  BY <1>3, LengthIsPositive
<1>. QED  BY <1>2, <1>3, <1>4 DEF LengthsOf

\* One more unit adds its length.
LEMMA LengthsAppend ==
    ASSUME NEW units \in Seq(Spoken), NEW x \in Spoken
    PROVE  /\ Lengths(Append(units, x)) = Lengths(units) + Length(x)
           /\ Append(units, x) \in Seq(Spoken) /\ Lengths(units) \in Nat /\ Length(x) \in Nat
<1> DEFINE n == Len(units)
           more == Append(units, x)
<1>1. /\ more \in Seq(Spoken) /\ n \in Nat /\ Len(more) = n + 1 /\ more[n + 1] = x
      /\ \A k \in 1..n : more[k] = units[k]
  OBVIOUS
<1>2. PICK g : IsAdding(g, n, LengthsOf(units), Lengths(units))
  BY LengthsAdd
<1>3. PICK h : IsAdding(h, Len(more), LengthsOf(more), Lengths(more))
  BY <1>1, LengthsAdd
<1>4. Length(x) \in Nat /\ Lengths(units) \in Nat
  BY LengthIsPositive, LengthsAddUp
<1> DEFINE v == [k \in 1..1 |-> Length(x)]
           f == [k \in 0..1 |-> IF k = 0 THEN 0 ELSE Length(x)]
<1>5. IsAdding(f, 1, v, Length(x))
  BY <1>4 DEF IsAdding
<1>6. /\ \A k \in 1..n : LengthsOf(more)[k] = LengthsOf(units)[k]
      /\ \A k \in 1..1 : LengthsOf(more)[n + k] = v[k] /\ v[k] \in Nat
  BY <1>1, <1>4 DEF LengthsOf
<1> HIDE DEF more, v, f, n
<1>7. Lengths(more) = Lengths(units) + Length(x)
  <2>1. IsAdding(h, n + 1, LengthsOf(more), Lengths(more))
    BY <1>1, <1>3
  <2>. QED  BY <1>1, <1>2, <1>5, <1>6, <2>1, AddingConcat
<1>. QED  BY <1>1, <1>4, <1>7 DEF more

\* No units have no length.
LEMMA LengthsOfNone == Lengths(<<>>) = 0
<1>1. <<>> \in Seq(Spoken) /\ Len(<<>>) = 0
  OBVIOUS
<1>2. PICK g : IsAdding(g, Len(<<>>), LengthsOf(<<>>), Lengths(<<>>))
  BY <1>1, LengthsAdd
<1>. QED  BY <1>1, <1>2 DEF IsAdding

\* the length of the first k units
Until(units, k) == Lengths(SubSeq(units, 1, k))

\* It grows by the length of each unit.
LEMMA UntilSteps ==
    ASSUME NEW units \in Seq(Spoken)
    PROVE  /\ Until(units, 0) = 0 /\ Until(units, Len(units)) = Lengths(units)
           /\ \A k \in 0..Len(units) : Until(units, k) \in Nat
           /\ \A k \in 1..Len(units) :
                Until(units, k) = Until(units, k - 1) + Length(units[k]) /\ Length(units[k]) \in Nat
<1>1. Until(units, 0) = 0
  <2>1. SubSeq(units, 1, 0) = <<>>
    OBVIOUS
  <2>. QED  BY <2>1, LengthsOfNone DEF Until
<1>2. Until(units, Len(units)) = Lengths(units)
  <2>1. SubSeq(units, 1, Len(units)) = units
    OBVIOUS
  <2>. QED  BY <2>1 DEF Until
<1>3. ASSUME NEW k \in 0..Len(units)
      PROVE  Until(units, k) \in Nat
  <2>1. SubSeq(units, 1, k) \in Seq(Spoken)
    OBVIOUS
  <2>. QED  BY <2>1, LengthsAddUp DEF Until
<1>4. ASSUME NEW k \in 1..Len(units)
      PROVE  Until(units, k) = Until(units, k - 1) + Length(units[k]) /\ Length(units[k]) \in Nat
  <2> DEFINE before == SubSeq(units, 1, k - 1)
  <2>1. SubSeq(units, 1, k) = Append(before, units[k]) /\ before \in Seq(Spoken) /\ units[k] \in Spoken
    OBVIOUS
  <2>2. Until(units, k - 1) = Lengths(before)
    BY DEF Until
  <2> HIDE DEF before
  <2>3. /\ Lengths(Append(before, units[k])) = Lengths(before) + Length(units[k])
        /\ Length(units[k]) \in Nat
    BY <2>1, LengthsAppend
  <2>. QED  BY <2>1, <2>2, <2>3 DEF Until
<1>. QED  BY <1>1, <1>2, <1>3, <1>4

\* The first elements of a sequence, one more each time.
LEMMA Prefix ==
    ASSUME NEW X, NEW s \in Seq(X), NEW k \in 1..Len(s)
    PROVE  /\ SubSeq(s, 1, k) = Append(SubSeq(s, 1, k - 1), s[k])
           /\ SubSeq(s, 1, k - 1) \in Seq(X) /\ s[k] \in X
<1>1. SubSeq(s, 1, k - 1) \in Seq(X)
  OBVIOUS
<1>2. s[k] \in X
  OBVIOUS
<1>3. SubSeq(s, 1, k) = Append(SubSeq(s, 1, k - 1), s[k])
  OBVIOUS
<1>. QED  BY <1>1, <1>2, <1>3

\* A phrase that follows the parts makes a part longer or one of its own.
LEMMA WithPhraseAdds ==
    ASSUME NEW parts \in Seq(Spoken), NEW u \in Phrases
    PROVE  Lengths(WithPhrase(parts, u)) <= Lengths(parts) + Chars[u.kind] + 1
<1>1. Chars[u.kind] \in Nat /\ Weight(<<u>>) = Chars[u.kind] + 1
  BY WeightOfOne
<1>2. <<u>> \in Texts /\ <<u>> \in Spoken /\ <<u>> # <<>>
  BY DEF Texts, Spoken
<1>3. Length(<<u>>) = Chars[u.kind]
  BY <1>1, <1>2, WeightType
<1>4. CASE WithPhrase(parts, u) = Append(parts, <<u>>)
  <2>1. Lengths(Append(parts, <<u>>)) = Lengths(parts) + Length(<<u>>) /\ Lengths(parts) \in Nat
    BY <1>2, LengthsAppend
  <2>. QED  BY <1>1, <1>3, <1>4, <2>1
<1>5. CASE WithPhrase(parts, u) # Append(parts, <<u>>)
  <2> DEFINE n == Len(parts)
             rest == SubSeq(parts, 1, n - 1)
             last == parts[n]
             longer == Append(last, u)
  <2>1. parts # <<>> /\ WithPhrase(parts, u) = [parts EXCEPT ![n] = Append(@, u)]
    BY <1>5 DEF WithPhrase
  <2>2. n \in 1..n /\ n \in Nat
    BY <2>1
  <2>3. parts = Append(rest, last) /\ rest \in Seq(Spoken) /\ last \in Spoken
    <3>1. SubSeq(parts, 1, n) = Append(rest, last) /\ rest \in Seq(Spoken) /\ last \in Spoken
      BY <2>2, Prefix
    <3>2. SubSeq(parts, 1, n) = parts
      BY <2>2
    <3>. QED  BY <3>1, <3>2
  <2>4. last \in Texts /\ longer = last \o <<u>> /\ longer \in Spoken
    BY <2>3 DEF Spoken, Texts
  <2>5. [parts EXCEPT ![n] = Append(@, u)] = Append(rest, longer)
    BY <2>2, <2>3
  <2>12. Weight(longer) = Weight(last) + Weight(<<u>>)
    BY <1>2, <2>4, WeightConcat
  <2>6. /\ Weight(longer) = Weight(last) + (Chars[u.kind] + 1) /\ Weight(last) \in Nat
        /\ Length(last) = Weight(last) - 1 /\ Length(longer) = Weight(longer) - 1
    <3>1. longer \in Texts
      BY <2>4 DEF Spoken
    <3>. QED  BY <1>1, <2>4, <2>12, <3>1, WeightType
  <2>8. WithPhrase(parts, u) = Append(rest, longer)
    BY <2>1, <2>5
  <2> HIDE DEF rest, last, longer, n
  <2>7. /\ Lengths(Append(rest, last)) = Lengths(rest) + Length(last)
        /\ Lengths(Append(rest, longer)) = Lengths(rest) + Length(longer)
        /\ Lengths(rest) \in Nat
    BY <2>3, <2>4, LengthsAppend
  <2>9. Length(longer) = Length(last) + Chars[u.kind] + 1 /\ Length(last) \in Int
    <3>1. PICK a \in Nat : a = Weight(last)
      BY <2>6
    <3>2. PICK c \in Nat : c = Chars[u.kind]
      BY <1>1
    <3>3. Length(last) = a - 1 /\ Length(longer) = (a + (c + 1)) - 1
      BY <2>6, <3>1, <3>2
    <3>. QED  BY <3>2, <3>3
  <2>10. Lengths(parts) = Lengths(rest) + Length(last)
    BY <2>3, <2>7
  <2>11. Lengths(WithPhrase(parts, u)) = Lengths(rest) + Length(longer)
    BY <2>7, <2>8
  <2>. QED  BY <1>1, <2>7, <2>9, <2>10, <2>11
<1>. QED  BY <1>4, <1>5

\* Together the parts are not longer than the text with its blanks.
LEMMA PartsLength ==
    ASSUME NEW text \in Texts
    PROVE  Lengths(Parts(text)) <= Weight(text)
<1> DEFINE n == Len(text)
<1>1. PICK g \in [0..n -> Seq(Spoken)] :
          /\ g[0] = <<>> /\ g[n] = Parts(text)
          /\ \A k \in 1..n : g[k] = WithPhrase(g[k - 1], text[k])
  BY PartsSteps
<1>2. PICK h : IsAdding(h, n, CharsOf(text), Total(Chars, text))
  BY CharsAdd
<1>3. n \in Nat /\ \A k \in 1..n : text[k] \in Phrases /\ CharsOf(text)[k] = Chars[text[k].kind]
                                   /\ CharsOf(text)[k] \in Nat
  <2>1. n \in Nat /\ \A k \in 1..n : text[k] \in Phrases
    BY Indices DEF Texts
  <2>2. \A k \in 1..n : CharsOf(text)[k] = Chars[text[k].kind] /\ CharsOf(text)[k] \in 1..15
    BY CharsAdd
  <2>3. 1..15 \subseteq Nat
    OBVIOUS
  <2>4. \A k \in 1..n : CharsOf(text)[k] \in Nat
    BY <2>2, <2>3, Zenon
  <2>5. \A k \in 1..n : CharsOf(text)[k] = Chars[text[k].kind]
    BY <2>2, Zenon
  <2>. QED  BY <2>1, <2>4, <2>5
<1>4. /\ h \in [0..n -> Nat] /\ h[0] = 0 /\ h[n] = Total(Chars, text)
      /\ \A k \in 1..n : h[k] = h[k - 1] + CharsOf(text)[k]
  BY <1>2 DEF IsAdding
<1> HIDE DEF n
<1> DEFINE T == {k \in 0..n : Lengths(g[k]) <= h[k] + k}
<1>5. 0 \in T
  BY <1>1, <1>3, <1>4, LengthsOfNone
<1>6. ASSUME NEW k \in 1..n, k - 1 \in T
      PROVE  k \in T
  <2>1. /\ k - 1 \in 0..n /\ k \in 0..n /\ g[k - 1] \in Seq(Spoken) /\ h[k] \in Nat /\ h[k - 1] \in Nat
        /\ g[k] \in Seq(Spoken)
    <3> HIDE DEF T
    <3>1. k - 1 \in 0..n /\ k \in 0..n
      BY <1>3
    <3>. QED  BY <1>4, <3>1
  <2>2. Lengths(WithPhrase(g[k - 1], text[k])) <= Lengths(g[k - 1]) + Chars[text[k].kind] + 1
    BY <1>3, <2>1, WithPhraseAdds
  <2>3. Lengths(g[k - 1]) <= h[k - 1] + (k - 1)
    BY <1>6
  <2>4. Lengths(g[k - 1]) \in Nat /\ Lengths(g[k]) \in Nat /\ Chars[text[k].kind] \in Nat
    BY <1>3, <2>1, LengthsAddUp
  <2>5. g[k] = WithPhrase(g[k - 1], text[k]) /\ h[k] = h[k - 1] + Chars[text[k].kind]
    BY <1>1, <1>3, <1>4
  <2>6. Lengths(g[k]) <= h[k] + k
    <3> HIDE DEF T
    <3> DEFINE c == Chars[text[k].kind]
               a == Lengths(g[k - 1])
               b == Lengths(g[k])
               old == h[k - 1]
               new == h[k]
    <3>1. b <= a + c + 1 /\ a <= old + (k - 1) /\ new = old + c
      BY <2>2, <2>3, <2>5
    <3>2. a \in Nat /\ b \in Nat /\ c \in Nat /\ old \in Nat /\ new \in Nat /\ k \in Nat
      BY <1>3, <2>1, <2>4
    <3> HIDE DEF a, b, c, old, new
    <3>3. b <= new + k
      BY <3>1, <3>2
    <3>. QED  BY <3>3 DEF b, new
  <2>. QED  BY <2>1, <2>6
<1> HIDE DEF T
<1>7. \A k \in 0..n : k \in T
  BY <1>3, <1>5, <1>6, StepInduction
<1>. QED  BY <1>1, <1>3, <1>4, <1>7 DEF T, Weight, n

\* Some of the units are not longer than all.
LEMMA KeptLength ==
    ASSUME NEW units \in Seq(Spoken), NEW keep
    PROVE  Lengths(Kept(units, keep)) <= Lengths(units)
<1> DEFINE n == Len(units)
           parts == [i \in DOMAIN units |-> IF i \in keep THEN <<units[i]>> ELSE <<>>]
<1>1. DOMAIN units = 1..n /\ n \in Nat /\ \A i \in 1..n : units[i] \in Spoken
  BY Indices
<1>2. parts \in Seq(Seq(Spoken)) /\ Len(parts) = n
  BY <1>1
<1>3. \A i \in 1..n : parts[i] = <<units[i]>> \/ parts[i] = <<>>
  BY <1>1
<1> HIDE DEF n, parts
<1>4. PICK g \in [0..n -> Seq(Spoken)] : /\ g[0] = <<>> /\ g[n] = FlattenSeq(parts)
                                         /\ \A i \in 1..n : g[i] = g[i - 1] \o parts[i]
  BY <1>2, FlattenSteps
<1> DEFINE T == {k \in 0..n : Lengths(g[k]) <= Until(units, k)}
<1>8. /\ Until(units, 0) = 0 /\ Until(units, n) = Lengths(units)
      /\ \A k \in 0..n : Until(units, k) \in Nat
      /\ \A k \in 1..n : Until(units, k) = Until(units, k - 1) + Length(units[k])
  BY UntilSteps DEF n
<1>5. 0 \in T
  BY <1>1, <1>4, <1>8, LengthsOfNone
<1>6. ASSUME NEW k \in 1..n, k - 1 \in T
      PROVE  k \in T
  <2> DEFINE u == units[k]
  <2>1. u \in Spoken
    BY <1>1
  <2>2. k - 1 \in 0..n /\ k \in 0..n /\ g[k - 1] \in Seq(Spoken)
    BY <1>1, <1>4
  <2>3. g[k] = Append(g[k - 1], u) \/ g[k] = g[k - 1]
    <3>1. g[k] = g[k - 1] \o parts[k]
      BY <1>4
    <3>2. g[k - 1] \o <<u>> = Append(g[k - 1], u) /\ g[k - 1] \o <<>> = g[k - 1]
      BY <2>1, <2>2
    <3>3. parts[k] = <<u>> \/ parts[k] = <<>>
      BY <1>3
    <3>. QED  BY <3>1, <3>2, <3>3
  <2>4. /\ Lengths(g[k - 1]) <= Until(units, k - 1) /\ Until(units, k - 1) \in Nat
        /\ Until(units, k) = Until(units, k - 1) + Length(u)
    BY <1>6, <1>8, <2>2
  <2> HIDE DEF u
  <2>5. /\ Lengths(Append(g[k - 1], u)) = Lengths(g[k - 1]) + Length(u)
        /\ Length(u) \in Nat /\ Lengths(g[k - 1]) \in Nat
    BY <2>1, <2>2, LengthsAppend
  <2>6. Lengths(g[k]) <= Until(units, k)
    <3>1. CASE g[k] = Append(g[k - 1], u)
      BY <2>4, <2>5, <3>1
    <3>2. CASE g[k] = g[k - 1]
      BY <2>4, <2>5, <3>2
    <3>. QED  BY <2>3, <3>1, <3>2
  <2>. QED  BY <2>2, <2>6
<1> HIDE DEF T
<1>7. \A k \in 0..n : k \in T
  BY <1>1, <1>5, <1>6, StepInduction
<1>9. Lengths(g[n]) <= Lengths(units) /\ g[n] = FlattenSeq(parts)
  BY <1>1, <1>4, <1>7, <1>8 DEF T
<1>. QED  BY <1>9 DEF Kept, parts

\* units of C, and a unit and a later one
UnitsOf(C) == RisingTexts(C) \ {<<>>}

EarlierTexts == {x \in Texts \X Texts : Earlier(x[1], x[2])}

\* A phrase continues a line of parts.
LEMMA WithPhraseExtends ==
    ASSUME NEW C \in Vocabularies, NEW parts \in Seq(UnitsOf(C)), NEW u \in C
    PROVE  /\ <<u>> \in UnitsOf(C)
           /\ Extends(WithPhrase(parts, u), parts, <<u>>, UnitsOf(C), EarlierTexts)
<1> DEFINE X == UnitsOf(C)
           one == <<u>>
<1>1. one \in RisingTexts(C) /\ one # <<>>
  <2>1. one \in Seq(C) /\ DOMAIN one = {1}
    OBVIOUS
  <2>2. \A i, l \in DOMAIN one : ~(i < l)
    BY <2>1
  <2>. QED  BY <2>1, <2>2 DEF RisingTexts, Line
<1>2. one \in X
  BY <1>1 DEF UnitsOf
<1>3. CASE WithPhrase(parts, u) = Append(parts, one)
  <2> HIDE DEF X, one
  <2>1. Extends(Append(parts, one), parts, one, X, EarlierTexts)
    BY <1>2, AppendExtends
  <2>. QED  BY <1>2, <1>3, <2>1 DEF X, one
<1>4. CASE WithPhrase(parts, u) # Append(parts, one)
  <2> DEFINE n == Len(parts)
             last == parts[n]
             longer == last \o one
  <2>1. parts # <<>> /\ WithPhrase(parts, u) = [parts EXCEPT ![n] = Append(@, u)]
    BY <1>4 DEF WithPhrase
  <2>2. n \in 1..n /\ DOMAIN parts = 1..n /\ last \in X
    BY <2>1
  <2>3. last \in RisingTexts(C) /\ last \in Seq(C)
    BY <2>2 DEF UnitsOf, RisingTexts, Line
  <2>4. WithPhrase(parts, u) = [parts EXCEPT ![n] = longer]
    <3>1. Append(last, u) = last \o one
      BY <2>3
    <3>2. [parts EXCEPT ![n] = Append(@, u)] = [parts EXCEPT ![n] = Append(parts[n], u)]
      BY <2>2
    <3>. QED  BY <2>1, <3>1, <3>2
  <2>5. ASSUME <<last, one>> \in EarlierTexts
        PROVE  longer \in X /\ Between(longer, last, one, X, EarlierTexts)
    <3> HIDE DEF one, last
    <3>1. Earlier(last, one)
      BY <2>5 DEF EarlierTexts
    <3>2. /\ longer \in RisingTexts(C)
          /\ \A t : /\ Earlier(t, last) /\ Earlier(t, one) => Earlier(t, longer)
                    /\ Earlier(last, t) /\ Earlier(one, t) => Earlier(longer, t)
      BY <1>1, <2>3, <3>1, EarlierConcat
    <3>3. longer # <<>> /\ longer \in Texts
      <4>1. one \in Seq(C)
        BY <1>1 DEF RisingTexts, Line
      <4>. QED  BY <1>1, <2>3, <3>2, <4>1, RisingIsText
    <3> HIDE DEF longer
    <3>4. \A o \in X : o \in Texts
      BY RisingIsText DEF UnitsOf
    <3>. QED  BY <3>2, <3>3, <3>4 DEF Between, EarlierTexts, UnitsOf
  <2>6. Joins(longer, parts[Len(parts)], one, X, EarlierTexts)
    BY <2>5 DEF Joins
  <2> HIDE DEF longer, one, X
  <2>7. Extends([parts EXCEPT ![Len(parts)] = longer], parts, one, X, EarlierTexts)
    BY <1>2, <2>1, <2>6, JoinExtends DEF X
  <2>. QED  BY <1>2, <2>4, <2>7 DEF X, one
<1>. QED  BY <1>3, <1>4

\* The parts of a text are in the order of its phrases.
LEMMA PartsInOrder ==
    ASSUME NEW C \in Vocabularies, NEW text \in RisingTexts(C)
    PROVE  Parts(text) \in Line(UnitsOf(C), EarlierTexts)
<1> DEFINE n == Len(text)
           X == UnitsOf(C)
           seq == [k \in 1..n |-> <<text[k]>>]
<1>1. text \in Texts /\ n \in Nat /\ DOMAIN text = 1..n /\ \A k \in 1..n : text[k] \in C
  <2>1. text \in Texts /\ \A i \in DOMAIN text : text[i] \in C
    BY RisingIsText
  <2>. QED  BY <2>1, Indices DEF Texts
<1>2. PICK g \in [0..n -> Seq(Spoken)] :
          /\ g[0] = <<>> /\ g[n] = Parts(text)
          /\ \A k \in 1..n : g[k] = WithPhrase(g[k - 1], text[k])
  BY <1>1, PartsSteps
<1>3. /\ Len(seq) = n /\ DOMAIN seq = 1..n
      /\ \A k \in 1..n : seq[k] = <<text[k]>>
  BY <1>1
<1>4. ASSUME NEW k \in 1..n
      PROVE  /\ seq[k] \in X
             /\ g[k - 1] \in Seq(X) => Extends(g[k], g[k - 1], seq[k], X, EarlierTexts)
  <2>1. <<text[k]>> \in UnitsOf(C)
    <3>1. <<>> \in Seq(UnitsOf(C))
      OBVIOUS
    <3>. QED  BY <1>1, <3>1, WithPhraseExtends
  <2>2. ASSUME g[k - 1] \in Seq(X)
        PROVE  Extends(WithPhrase(g[k - 1], text[k]), g[k - 1], <<text[k]>>, X, EarlierTexts)
    BY <1>1, <2>2, WithPhraseExtends
  <2>. QED  BY <1>2, <1>3, <2>1, <2>2
<1>5. \A k \in 1..n : Extends(g[k], g[k - 1], seq[k], X, EarlierTexts)
  <2>1. ASSUME NEW k \in 1..n, g[k - 1] \notin Seq(X)
        PROVE  Extends(g[k], g[k - 1], seq[k], X, EarlierTexts)
    BY <2>1 DEF Extends, Line
  <2>. QED  BY <1>4, <2>1
<1>6. ASSUME NEW k \in 1..n, NEW l \in 1..n, k < l
      PROVE  <<seq[k], seq[l]>> \in EarlierTexts
  <2>1. <<text[k], text[l]>> \in IdsRise
    BY <1>1, <1>6 DEF RisingTexts, Line
  <2>2. <<text[k]>> \in Texts /\ <<text[l]>> \in Texts
    BY <1>1 DEF Texts
  <2>3. Earlier(<<text[k]>>, <<text[l]>>)
    BY <2>1 DEF Earlier
  <2>. QED  BY <1>3, <2>2, <2>3 DEF EarlierTexts
<1>7. seq \in Line(X, EarlierTexts)
  <2>1. \A k \in 1..n : seq[k] \in X
    BY <1>4
  <2>2. seq = [k \in 1..n |-> seq[k]]
    BY <1>3
  <2> HIDE DEF seq, X, n
  <2>3. seq \in Seq(X)
    BY <1>1, <2>1, <2>2
  <2>. QED  BY <1>3, <1>6, <2>3 DEF Line
<1> HIDE DEF seq, X, n
<1>8. ExtendsAlong(g, seq, X, EarlierTexts)
  BY <1>2, <1>3, <1>5 DEF ExtendsAlong
<1>9. g[Len(seq)] \in Line(X, EarlierTexts)
  BY <1>7, <1>8, ExtendedLine
<1>. QED  BY <1>2, <1>3, <1>9 DEF X

\* The units of a text are in the order of its phrases and made of them, and together not longer
\* than it is.
LEMMA UnitsInOrder ==
    ASSUME NEW C \in Vocabularies, NEW text \in RisingTexts(C), NEW units, units = DialogueUnits(text)
    PROVE  /\ units \in Line(UnitsOf(C), EarlierTexts)
           /\ units \in Seq(Spoken) /\ Lengths(units) <= Weight(text)
           /\ \A k \in DOMAIN units : \A m \in DOMAIN units[k] : \E i \in DOMAIN text : units[k][m] = text[i]
<1> DEFINE B == {text[i] : i \in DOMAIN text}
           parts == Parts(text)
<1>1. text \in Texts /\ B \in SUBSET C /\ B \in Vocabularies
  BY RisingIsText DEF Vocabularies
<1>2. text \in RisingTexts(B)
  <2>1. text \in Seq(B)
    BY <1>1 DEF Texts
  <2>. QED  BY <2>1 DEF RisingTexts, Line
<1>3. parts \in Line(UnitsOf(B), EarlierTexts)
  BY <1>1, <1>2, PartsInOrder
<1>4. parts \in Seq(Spoken) /\ Lengths(parts) <= Weight(text)
  BY <1>1, PartsType, PartsLength
<1> HIDE DEF parts
<1>5. PICK keep : units = Kept(parts, keep)
  BY <1>1, UnitsAreKept DEF parts
<1>6. units \in Line(UnitsOf(B), EarlierTexts)
  BY <1>3, <1>5, KeptLine
<1>7. units \in Seq(Spoken) /\ Lengths(units) <= Weight(text)
  <2>1. Lengths(Kept(parts, keep)) <= Lengths(parts) /\ Kept(parts, keep) \in Seq(Spoken)
    BY <1>4, KeptLength, KeptType
  <2>2. Lengths(Kept(parts, keep)) \in Nat /\ Lengths(parts) \in Nat /\ Weight(text) \in Nat
    BY <1>1, <1>4, <2>1, LengthsAddUp, WeightType
  <2>. QED  BY <1>4, <1>5, <2>1, <2>2
<1>8. units \in Seq(UnitsOf(B))
  BY <1>6 DEF Line
<1>9. UnitsOf(B) \subseteq UnitsOf(C)
  <2>1. ASSUME NEW t \in UnitsOf(B)
        PROVE  t \in UnitsOf(C)
    <3>1. t \in Seq(B) /\ t # <<>> /\ \A i, j \in DOMAIN t : i < j => <<t[i], t[j]>> \in IdsRise
      BY DEF UnitsOf, RisingTexts, Line
    <3>2. t \in Seq(C)
      BY <1>1, <3>1
    <3>. QED  BY <3>1, <3>2 DEF UnitsOf, RisingTexts, Line
  <2>. QED  BY <2>1
<1>10. units \in Line(UnitsOf(C), EarlierTexts)
  <2>1. units \in Seq(UnitsOf(C))
    BY <1>8, <1>9
  <2>. QED  BY <1>6, <2>1 DEF Line
<1>11. ASSUME NEW k \in DOMAIN units, NEW m \in DOMAIN units[k]
       PROVE  \E i \in DOMAIN text : units[k][m] = text[i]
  <2>1. units[k] \in UnitsOf(B)
    BY <1>8, Indices
  <2>2. units[k] \in Seq(B)
    BY <2>1 DEF UnitsOf, RisingTexts, Line
  <2>3. units[k][m] \in B
    BY <2>2, Indices
  <2>. QED  BY <2>3
<1>. QED  BY <1>7, <1>10, <1>11

-----------------------------------------------------------------------------
(* Cutting a piece into units *)

\* Division grows with what is divided.
LEMMA DivShift ==
    ASSUME NEW a \in Nat, NEW b \in Nat, NEW c \in Nat, NEW d \in Nat, d > 0, a + c * d <= b
    PROVE  a \div d + c <= b \div d /\ a \div d \in Nat
<1> DEFINE q == a \div d
           r == a % d
           s == b \div d
           t == b % d
<1>1. q \in Nat /\ r \in 0..(d - 1) /\ a = d * q + r
  OBVIOUS
<1>2. s \in Nat /\ t \in 0..(d - 1) /\ b = d * s + t
  OBVIOUS
<1> HIDE DEF q, r, s, t
<1>3. d * q + c * d < d * s + d
  BY <1>1, <1>2
<1>4. d * (q + c) < d * (s + 1)
  BY <1>1, <1>2, <1>3
<1>5. q + c < s + 1
  <2>1. SUFFICES ASSUME s + 1 <= q + c
                 PROVE  FALSE
    BY <1>1, <1>2
  <2>2. d * (s + 1) <= d * (q + c)
    BY <1>1, <1>2, <2>1
  <2>. QED  BY <1>1, <1>2, <1>4, <2>2
<1>. QED  BY <1>1, <1>2, <1>5 DEF q, s

\* Division undoes a multiplication.
LEMMA DivExact ==
    ASSUME NEW a \in Nat, NEW d \in Nat, d > 0
    PROVE  (a * d) \div d = a /\ 0 \div d = 0
<1> DEFINE b == a * d
           s == b \div d
           t == b % d
<1>1. b \in Nat /\ b = d * a
  OBVIOUS
<1> HIDE DEF b
<1>2. s \in Nat /\ t \in 0..(d - 1) /\ b = d * s + t
  BY <1>1
<1>3. 0 \div d = 0
  OBVIOUS
<1> HIDE DEF s, t
<1>4. a <= s
  <2>1. SUFFICES ASSUME s + 1 <= a
                 PROVE  FALSE
    BY <1>2
  <2>2. d * (s + 1) <= d * a
    BY <1>2, <2>1
  <2>3. d * (s + 1) = d * s + d
    BY <1>2
  <2>. QED  BY <1>1, <1>2, <2>2, <2>3
<1>5. s <= a
  <2>1. SUFFICES ASSUME a + 1 <= s
                 PROVE  FALSE
    BY <1>2
  <2>2. d * (a + 1) <= d * s
    BY <1>2, <2>1
  <2>3. d * (a + 1) = d * a + d
    OBVIOUS
  <2>. QED  BY <1>1, <1>2, <2>2, <2>3
<1>. QED  BY <1>2, <1>3, <1>4, <1>5 DEF s, b

\* where the k-th unit ends
CutAt(p, units, k) == p.from + (Duration(p) * Until(units, k)) \div Until(units, Len(units))

\* A later unit ends later, or at the same time.
LEMMA CutsGrow ==
    ASSUME NEW S, NEW p \in Pieces(S), 0 <= p.from, p.from <= p.to,
           NEW units \in Seq(Spoken), units # <<>>,
           NEW i \in 0..Len(units), NEW j \in 0..Len(units), i <= j
    PROVE  CutAt(p, units, i) <= CutAt(p, units, j)
<1> DEFINE n == Len(units)
           D == Duration(p)
           T == Until(units, n)
           M == {k \in 0..n : i <= k => Until(units, i) <= Until(units, k)}
<1>1. n \in Nat /\ D \in Nat /\ p.from \in Nat
  BY Indices DEF Duration, Larger, Pieces
<1>2. /\ T \in Nat /\ T > 0 /\ \A k \in 0..n : Until(units, k) \in Nat
      /\ \A k \in 1..n : Until(units, k) = Until(units, k - 1) + Length(units[k]) /\ Length(units[k]) \in Nat
  <2>1. T = Lengths(units) /\ T > 0 /\ T \in Nat
    BY UntilSteps, LengthsAddUp
  <2>. QED  BY <2>1, UntilSteps
<1> HIDE DEF n, D, T
<1>3. 0 \in M
  BY <1>1, <1>2 DEF n
<1>4. ASSUME NEW k \in 1..n, k - 1 \in M
      PROVE  k \in M
  <2>1. k \in 0..n /\ k - 1 \in 0..n /\ k - 1 < k
    BY <1>1
  <2>2. Until(units, k - 1) <= Until(units, k) /\ Until(units, k) \in Nat /\ Until(units, k - 1) \in Nat
    BY <1>2, <2>1
  <2>3. ASSUME i <= k
        PROVE  Until(units, i) <= Until(units, k)
    <3>1. CASE i = k
      BY <2>2, <3>1
    <3>2. CASE i # k
      <4>1. i <= k - 1
        BY <1>1, <2>3, <3>2 DEF n
      <4>2. Until(units, i) <= Until(units, k - 1) /\ Until(units, i) \in Nat
        BY <1>2, <1>4, <4>1 DEF n
      <4>. QED  BY <2>2, <4>2
    <3>. QED  BY <3>1, <3>2
  <2>. QED  BY <2>1, <2>3
<1> HIDE DEF M
<1>5. \A k \in 0..n : k \in M
  BY <1>1, <1>3, <1>4, StepInduction
<1>6. Until(units, i) <= Until(units, j) /\ Until(units, i) \in Nat /\ Until(units, j) \in Nat
  BY <1>2, <1>5 DEF M, n
<1> DEFINE a == D * Until(units, i)
           b == D * Until(units, j)
<1>7. a \in Nat /\ b \in Nat /\ a + 0 * T <= b
  BY <1>1, <1>2, <1>6
<1> HIDE DEF a, b
<1>8. a \div T + 0 <= b \div T /\ a \div T \in Nat
  BY <1>2, <1>7, DivShift
<1>9. b \div T \in Int
  BY <1>2, <1>7
<1>10. CutAt(p, units, i) = p.from + a \div T /\ CutAt(p, units, j) = p.from + b \div T
  BY DEF CutAt, a, b, D, T, n
<1>. QED  BY <1>1, <1>8, <1>9, <1>10

\* The units share the time of the piece, from its start to its end.
LEMMA SpreadIs ==
    ASSUME NEW S, NEW p \in Pieces(S), 0 <= p.from, p.from <= p.to,
           NEW units \in Seq(Spoken), units # <<>>
    PROVE  /\ DOMAIN Spread(p, units) = 1..Len(units)
           /\ \A k \in 1..Len(units) :
                Spread(p, units)[k] = [speaker |-> p.speaker, from |-> CutAt(p, units, k - 1),
                                       to |-> CutAt(p, units, k), text |-> units[k]]
           /\ CutAt(p, units, 0) = p.from /\ CutAt(p, units, Len(units)) = p.to
           /\ \A k \in 0..Len(units) : CutAt(p, units, k) \in Nat
<1> DEFINE n == Len(units)
           D == Duration(p)
           T == Until(units, n)
           Share(k) == (D * Until(units, k)) \div T
           Cut(k) == CASE k = 0 -> p.from
                       [] k = n -> p.to
                       [] OTHER -> Smaller(p.to, p.from + Share(k))
<1>1. n \in Nat /\ n > 0 /\ DOMAIN units = 1..n
  BY Indices
<1>2. p.from \in Nat /\ p.to \in Nat /\ D \in Nat /\ p.from + D = p.to
  BY DEF Pieces, Duration, Larger
<1>3. Until(units, 0) = 0 /\ T \in Nat /\ T > 0 /\ \A k \in 0..n : Until(units, k) \in Nat
  <2>1. T = Lengths(units) /\ T > 0 /\ T \in Nat
    BY UntilSteps, LengthsAddUp
  <2>. QED  BY <2>1, UntilSteps
<1>4. Spread(p, units) = [k \in 1..n |-> CutOut(p, Cut(k - 1), Cut(k), units[k])]
  BY <1>1 DEF Spread, Until, Lengths, CutOut
<1> HIDE DEF D, T, n
<1>5. (D * 0) \div T = 0 /\ (D * T) \div T = D
  <2>1. D * 0 = 0
    BY <1>2
  <2>. QED  BY <1>2, <1>3, <2>1, DivExact
<1>6. CutAt(p, units, 0) = p.from /\ CutAt(p, units, n) = p.to
  <2>1. /\ CutAt(p, units, 0) = p.from + (D * Until(units, 0)) \div T
        /\ CutAt(p, units, n) = p.from + (D * T) \div T
    BY DEF CutAt, D, T, n
  <2>2. CutAt(p, units, 0) = p.from + 0 /\ CutAt(p, units, n) = p.from + D
    BY <1>3, <1>5, <2>1
  <2>. QED  BY <1>2, <2>2
<1>7. ASSUME NEW k \in 0..n
      PROVE  Cut(k) = CutAt(p, units, k) /\ CutAt(p, units, k) \in Nat
  <2>1. D * Until(units, k) \in Nat
    BY <1>2, <1>3
  <2>2. (D * Until(units, k)) \div T \in Nat
    BY <1>3, <2>1
  <2>3. CutAt(p, units, k) = p.from + (D * Until(units, k)) \div T
    BY DEF CutAt, D, T, n
  <2>4. CutAt(p, units, k) <= p.to
    <3>1. n \in 0..n /\ k <= n
      BY <1>1
    <3>. QED  BY <1>6, <3>1, CutsGrow DEF n
  <2>. QED  BY <1>2, <1>6, <2>2, <2>3, <2>4 DEF Smaller
<1>8. \A k \in 1..n : k \in 0..n /\ k - 1 \in 0..n
  BY <1>1
<1> HIDE DEF Cut
<1>9. DOMAIN Spread(p, units) = 1..n
  BY <1>4
<1>10. ASSUME NEW k \in 1..n
       PROVE  Spread(p, units)[k] = [speaker |-> p.speaker, from |-> CutAt(p, units, k - 1),
                                     to |-> CutAt(p, units, k), text |-> units[k]]
  <2>1. k - 1 \in 0..n /\ k \in 0..n /\ units[k] \in Texts
    BY <1>1, <1>8 DEF Spoken, n
  <2>2. /\ Cut(k - 1) = CutAt(p, units, k - 1) /\ CutAt(p, units, k - 1) \in Int
        /\ Cut(k) = CutAt(p, units, k) /\ CutAt(p, units, k) \in Int
    BY <1>7, <2>1
  <2>3. Spread(p, units)[k] = CutOut(p, CutAt(p, units, k - 1), CutAt(p, units, k), units[k])
    BY <1>4, <2>2
  <2>. QED  BY <2>1, <2>2, <2>3, CutPiece
<1>. QED  BY <1>6, <1>7, <1>9, <1>10 DEF n

\* What is left of the time of a character after the rounding.
LEMMA HalfIsLeft ==
    ASSUME NEW d \in Nat, NEW u \in Nat, NEW l \in Nat, l > 0, NEW t \in Nat, NEW k \in Nat,
           NEW w \in Nat, t <= w, (2 * k) * w <= d
    PROVE  d * u + (k * (l + 1)) * t <= d * (u + l)
<1>1. (2 * k) * t <= d
  <2>1. (2 * k) * t <= (2 * k) * w
    OBVIOUS
  <2>. QED  BY <2>1
<1>2. ((2 * k) * t) * l <= d * l
  BY <1>1
<1>3. k * (l + 1) <= k * (2 * l)
  OBVIOUS
<1>4. (k * (l + 1)) * t <= (k * (2 * l)) * t
  BY <1>3
<1>5. (k * (2 * l)) * t = ((2 * k) * t) * l
  OBVIOUS
<1>6. d * (u + l) = d * u + d * l
  OBVIOUS
<1> DEFINE x == (k * (l + 1)) * t
           y == ((2 * k) * t) * l
           z == d * l
           v == d * u
<1>7. x \in Nat /\ y \in Nat /\ z \in Nat /\ v \in Nat /\ x <= y /\ y <= z
  BY <1>2, <1>4, <1>5
<1> HIDE DEF x, y, z, v
<1>8. v + x <= v + z
  BY <1>7
<1>. QED  BY <1>6, <1>8 DEF v, x, z

\* Of a piece with 2k units of time for each character every unit gets k for each of its own.
LEMMA CutLasts ==
    ASSUME NEW C \in Vocabularies, NEW K \in Nat, NEW p \in Paced(C, 2 * K),
           NEW units \in Seq(Spoken), units # <<>>, Lengths(units) <= Weight(p.text),
           NEW k \in 1..Len(units)
    PROVE  K * Weight(units[k]) <= CutAt(p, units, k) - CutAt(p, units, k - 1)
<1> DEFINE n == Len(units)
           D == Duration(p)
           T == Until(units, n)
           u == Until(units, k - 1)
           L == Length(units[k])
           a == D * u
           b == D * (u + L)
           c == K * (L + 1)
<1>1. /\ p.from \in Nat /\ p.to \in Int /\ p.from <= p.to /\ Weight(p.text) \in Nat
      /\ (2 * K) * Weight(p.text) <= p.to - p.from
  <2>1. p \in Timed(C, 2 * K) /\ 2 * K \in Nat
    BY DEF Paced
  <2>. QED  BY <2>1, PacedIs
<1>2. D \in Nat /\ (2 * K) * Weight(p.text) <= D
  BY <1>1 DEF Duration, Larger
<1>3. T \in Nat /\ T > 0 /\ T <= Weight(p.text)
  BY UntilSteps, LengthsAddUp
<1>4. u \in Nat /\ Until(units, k) = u + L
  <2>1. k - 1 \in 0..Len(units)
    OBVIOUS
  <2>. QED  BY <2>1, UntilSteps
<1>5. L \in Nat /\ L > 0 /\ Weight(units[k]) = L + 1
  <2>1. units[k] \in Spoken /\ units[k] \in Texts
    BY Indices DEF Spoken
  <2>. QED  BY <2>1, LengthIsPositive, WeightType
<1> HIDE DEF n, D, T, u, L
<1>6. a + c * T <= b
  BY <1>1, <1>2, <1>3, <1>4, <1>5, HalfIsLeft
<1>7. a \in Nat /\ b \in Nat /\ c \in Nat
  BY <1>2, <1>4, <1>5
<1> HIDE DEF a, b, c
<1>8. a \div T + c <= b \div T /\ a \div T \in Nat
  BY <1>3, <1>6, <1>7, DivShift
<1>9. b \div T \in Int
  BY <1>3, <1>7
<1>10. CutAt(p, units, k) = p.from + b \div T
  BY <1>4 DEF CutAt, b, D, T, n
<1>11. CutAt(p, units, k - 1) = p.from + a \div T
  BY DEF CutAt, a, D, T, n, u
<1>12. K * Weight(units[k]) = c
  BY <1>5 DEF c
<1> DEFINE x == a \div T
           y == b \div T
<1>13. /\ x \in Int /\ y \in Int /\ c \in Int /\ x + c <= y /\ p.from \in Int
       /\ CutAt(p, units, k) = p.from + y /\ CutAt(p, units, k - 1) = p.from + x
  BY <1>1, <1>7, <1>8, <1>9, <1>10, <1>11
<1> HIDE DEF x, y
<1>14. c <= CutAt(p, units, k) - CutAt(p, units, k - 1)
  BY <1>13
<1>. QED  BY <1>12, <1>14

\* The piece x is in the time of p and says nothing that p does not say.
Within(x, p) ==
    /\ p.from <= x.from /\ x.to <= p.to
    /\ \A m \in DOMAIN x.text : \E i \in DOMAIN p.text : x.text[m] = p.text[i]

\* What is within a piece follows what is within an earlier one.
LEMMA WithinFollows ==
    ASSUME NEW p \in Spans, NEW q \in Spans, <<p, q>> \in Follows,
           NEW x \in Spans, Within(x, p), NEW y \in Spans, Within(y, q)
    PROVE  <<x, y>> \in Follows
<1>1. p.to <= q.from /\ Earlier(p.text, q.text)
  BY FollowsIs
<1>2. x.to <= y.from
  BY <1>1 DEF Within, Spans
<1>3. Earlier(x.text, y.text)
  BY <1>1 DEF Earlier, Within
<1>. QED  BY <1>2, <1>3, FollowsIs

\* The units of a piece are pieces one after the other, within it.
LEMMA SpreadInTurn ==
    ASSUME NEW C \in Vocabularies, NEW K \in Nat, K > 0, NEW p \in Paced(C, 2 * K),
           NEW units, units = DialogueUnits(p.text), units # <<>>
    PROVE  /\ Spread(p, units) \in InTurn(C, K)
           /\ \A k \in DOMAIN Spread(p, units) : Within(Spread(p, units)[k], p)
<1> DEFINE n == Len(units)
           new == Spread(p, units)
<1>1. /\ p \in Pieces(Int) /\ p \in Spans /\ p.speaker \in Int /\ p.from \in Nat /\ p.to \in Int
      /\ p.from <= p.to /\ p.text \in RisingTexts(C) /\ Weight(p.text) \in Nat
      /\ p = [speaker |-> p.speaker, from |-> p.from, to |-> p.to, text |-> p.text]
  <2>1. p \in Timed(C, 2 * K) /\ 2 * K \in Nat /\ p \in Paced(C, 2 * K)
    BY DEF Paced
  <2>. QED  BY <2>1, PacedIs
<1>2. /\ units \in Line(UnitsOf(C), EarlierTexts)
      /\ units \in Seq(Spoken) /\ Lengths(units) <= Weight(p.text)
      /\ \A k \in DOMAIN units : \A m \in DOMAIN units[k] : \E i \in DOMAIN p.text : units[k][m] = p.text[i]
  BY <1>1, UnitsInOrder
<1>3. /\ DOMAIN units = 1..n /\ n \in Nat /\ units \in Seq(UnitsOf(C))
      /\ \A k \in 1..n : units[k] \in UnitsOf(C)
  <2>1. units \in Seq(UnitsOf(C))
    BY <1>2 DEF Line
  <2>. QED  BY <2>1, Indices
<1>4. /\ DOMAIN new = 1..n
      /\ \A k \in 1..n : new[k] = [speaker |-> p.speaker, from |-> CutAt(p, units, k - 1),
                                    to |-> CutAt(p, units, k), text |-> units[k]]
      /\ CutAt(p, units, 0) = p.from /\ CutAt(p, units, n) = p.to
      /\ \A k \in 0..n : CutAt(p, units, k) \in Nat
  BY <1>1, <1>2, SpreadIs
<1>5. new \in Seq(Pieces(Int))
  BY <1>1, <1>2, SpreadType
<1> HIDE DEF new
<1>6. ASSUME NEW k \in 1..n
      PROVE  /\ new[k].from = CutAt(p, units, k - 1) /\ new[k].to = CutAt(p, units, k)
             /\ new[k].text = units[k] /\ new[k].speaker = p.speaker
             /\ new[k] \in Paced(C, K) /\ new[k] \in Spans
             /\ k - 1 \in 0..n /\ k \in 0..n
  <2>1. k - 1 \in 0..n /\ k \in 0..n
    BY <1>3
  <2>2. CutAt(p, units, k - 1) \in Nat /\ CutAt(p, units, k) \in Nat /\ units[k] \in UnitsOf(C)
    BY <1>3, <1>4, <2>1
  <2>3. units[k] \in RisingTexts(C) /\ units[k] # <<>>
    BY <2>2 DEF UnitsOf
  <2>4. /\ new[k] = [speaker |-> p.speaker, from |-> CutAt(p, units, k - 1),
                     to |-> CutAt(p, units, k), text |-> units[k]]
    BY <1>1, <1>4
  <2>5. /\ new[k].from = CutAt(p, units, k - 1) /\ new[k].to = CutAt(p, units, k)
        /\ new[k].text = units[k] /\ new[k].speaker = p.speaker
        /\ new[k] \in [speaker : Int, from : Nat, to : Int, text : RisingTexts(C)]
    BY <1>1, <2>2, <2>3, <2>4
  <2>6. K * Weight(units[k]) <= CutAt(p, units, k) - CutAt(p, units, k - 1)
    BY <1>2, CutLasts
  <2>7. new[k] \in Paced(C, K)
    BY <2>3, <2>5, <2>6 DEF Paced, Timed
  <2>8. new[k] \in Spans
    BY <2>7, TimedIs DEF Paced
  <2>. QED  BY <2>1, <2>5, <2>7, <2>8
<1>7. ASSUME NEW k \in 1..n, NEW l \in 1..n, k < l
      PROVE  <<new[k], new[l]>> \in Follows
  <2>1. <<units[k], units[l]>> \in EarlierTexts
    BY <1>2, <1>3, <1>7 DEF Line
  <2>2. Earlier(units[k], units[l])
    BY <2>1 DEF EarlierTexts
  <2>3. k \in 0..n /\ l - 1 \in 0..n /\ k <= l - 1
    BY <1>3, <1>7
  <2>4. CutAt(p, units, k) <= CutAt(p, units, l - 1)
    BY <1>1, <1>2, <2>3, CutsGrow
  <2>. QED  BY <1>6, <2>2, <2>4, FollowsIs
<1>8. ASSUME NEW k \in 1..n
      PROVE  Within(new[k], p)
  <2>1. /\ 0 \in 0..n /\ n \in 0..n /\ k - 1 \in 0..n /\ k \in 0..n /\ 0 <= k - 1 /\ k <= n
    BY <1>3
  <2>2. CutAt(p, units, 0) <= CutAt(p, units, k - 1) /\ CutAt(p, units, k) <= CutAt(p, units, n)
    BY <1>1, <1>2, <2>1, CutsGrow
  <2>3. p.from <= new[k].from /\ new[k].to <= p.to
    BY <1>4, <1>6, <2>2
  <2>4. \A m \in DOMAIN new[k].text : \E i \in DOMAIN p.text : new[k].text[m] = p.text[i]
    BY <1>2, <1>3, <1>6
  <2>. QED  BY <2>3, <2>4 DEF Within
<1>9. new \in Seq(Paced(C, K))
  <2>1. \A k \in 1..n : new[k] \in Paced(C, K)
    BY <1>6
  <2>2. new = [k \in 1..n |-> new[k]]
    <3>1. DOMAIN new = 1..n
      BY <1>4
    <3>2. Len(new) = n /\ new = [k \in 1..Len(new) |-> new[k]]
      BY <1>3, <1>5, <3>1
    <3>. QED  BY <3>2
  <2>. QED  BY <1>3, <2>1, <2>2
<1>10. new \in InTurn(C, K)
  BY <1>4, <1>7, <1>9 DEF InTurn, Line
<1>. QED  BY <1>4, <1>8, <1>10 DEF new

\* Less time is enough for less.
LEMMA PacedSlower ==
    ASSUME NEW C \in Vocabularies, NEW K \in Nat, NEW p \in Paced(C, 2 * K)
    PROVE  p \in Paced(C, K) /\ p \in Spans /\ Within(p, p)
<1>1. /\ p \in [speaker : Int, from : Nat, to : Int, text : RisingTexts(C)] /\ p.text # <<>>
      /\ (2 * K) * Weight(p.text) <= p.to - p.from /\ p \in Timed(C, 2 * K)
  BY DEF Paced, Timed
<1>2. Weight(p.text) \in Nat /\ p \in Spans /\ p.from \in Int /\ p.to \in Int
  <2>1. 2 * K \in Nat
    OBVIOUS
  <2>. QED  BY <1>1, <2>1, PacedIs
<1>3. K * Weight(p.text) <= (2 * K) * Weight(p.text)
  BY <1>2
<1>4. K * Weight(p.text) <= p.to - p.from
  BY <1>1, <1>2, <1>3
<1>5. Within(p, p)
  BY <1>2 DEF Within
<1>. QED  BY <1>1, <1>2, <1>4, <1>5 DEF Paced, Timed

\* Cutting the pieces at sentence ends and cues keeps their order and half of their time.
LEMMA SplitInTurn ==
    ASSUME NEW C \in Vocabularies, NEW K \in Nat, K > 0, NEW pieces \in InTurn(C, 2 * K)
    PROVE  SplitByUnits(pieces) \in InTurn(C, K)
<1> DEFINE units(i) == DialogueUnits(pieces[i].text)
           split == [i \in DOMAIN pieces |->
                       IF Len(units(i)) <= 1 THEN <<pieces[i]>> ELSE Spread(pieces[i], units(i))]
           X == Paced(C, K)
<1>1. /\ DOMAIN pieces = 1..Len(pieces) /\ Len(pieces) \in Nat
      /\ \A i \in DOMAIN pieces : pieces[i] \in Paced(C, 2 * K)
  <2>1. 2 * K \in Nat
    OBVIOUS
  <2>. QED  BY <2>1, InTurnType
<1>2. ASSUME NEW i \in DOMAIN pieces
      PROVE  /\ pieces[i] \in Spans /\ split[i] \in InTurn(C, K)
             /\ \A k \in DOMAIN split[i] : Within(split[i][k], pieces[i]) /\ split[i][k] \in Spans
  <2>1. /\ pieces[i] \in Paced(C, 2 * K) /\ pieces[i] \in X /\ pieces[i] \in Spans
        /\ Within(pieces[i], pieces[i])
    BY <1>1, PacedSlower
  <2>2. CASE Len(units(i)) <= 1
    <3> DEFINE one == <<pieces[i]>>
    <3>1. one \in Seq(X) /\ DOMAIN one = {1} /\ one[1] = pieces[i]
      BY <2>1
    <3>2. split[i] = one
      BY <2>2
    <3> HIDE DEF one, X, split
    <3>3. \A k, l \in DOMAIN one : ~(k < l)
      BY <3>1
    <3>4. one \in InTurn(C, K)
      BY <3>1, <3>3 DEF InTurn, Line, X
    <3>. QED  BY <2>1, <3>1, <3>2, <3>4
  <2>3. CASE ~(Len(units(i)) <= 1)
    <3>1. split[i] = Spread(pieces[i], units(i)) /\ units(i) # <<>>
      BY <2>3
    <3> HIDE DEF split
    <3>2. /\ Spread(pieces[i], units(i)) \in InTurn(C, K)
          /\ \A k \in DOMAIN Spread(pieces[i], units(i)) : Within(Spread(pieces[i], units(i))[k], pieces[i])
      BY <2>1, <3>1, SpreadInTurn
    <3>3. split[i] \in InTurn(C, K) /\ \A k \in DOMAIN split[i] : Within(split[i][k], pieces[i])
      BY <3>1, <3>2
    <3>4. ASSUME NEW k \in DOMAIN split[i]
          PROVE  split[i][k] \in Spans
      <4>1. split[i][k] \in Paced(C, K)
        BY <3>3, InTurnType
      <4>. QED  BY <4>1, PacedIs DEF Paced
    <3>. QED  BY <2>1, <3>3, <3>4
  <2>. QED  BY <2>2, <2>3
<1>3. SplitByUnits(pieces) = FlattenSeq(split) /\ DOMAIN split = DOMAIN pieces
  BY DEF SplitByUnits
<1> HIDE DEF split, units
<1>4. split \in Seq(Line(X, Follows))
  <2>1. split = [i \in DOMAIN pieces |-> split[i]]
    BY DEF split
  <2>2. \A i \in DOMAIN pieces : split[i] \in Line(X, Follows)
    BY <1>2 DEF InTurn
  <2> HIDE DEF X
  <2>. QED  BY <1>1, <2>1, <2>2
<1>5. ASSUME NEW i \in DOMAIN split, NEW j \in DOMAIN split, i < j,
             NEW k \in DOMAIN split[i], NEW l \in DOMAIN split[j]
      PROVE  <<split[i][k], split[j][l]>> \in Follows
  <2>1. <<pieces[i], pieces[j]>> \in Follows
    BY <1>3, <1>5 DEF InTurn, Line
  <2>. QED  BY <1>2, <1>3, <1>5, <2>1, WithinFollows
<1>6. FlattenSeq(split) \in Line(X, Follows)
  BY <1>4, <1>5, FlattenLine
<1>. QED  BY <1>3, <1>6 DEF InTurn

-----------------------------------------------------------------------------
(* The words of the speakers *)

\* A line without its last element is a line.
LEMMA AllButLast ==
    ASSUME NEW Y, NEW old \in Seq(Y), NEW x \in Y, NEW X, NEW R, Append(old, x) \in Line(X, R)
    PROVE  /\ old \in Line(X, R) /\ x \in X /\ Leads(old, x, R)
           /\ \A o : Leads(Append(old, x), o, R) => Leads(old, o, R) /\ <<x, o>> \in R
<1> DEFINE n == Len(old)
           more == Append(old, x)
<1>1. /\ n \in Nat /\ DOMAIN old = 1..n /\ DOMAIN more = 1..(n + 1) /\ more[n + 1] = x
      /\ \A i \in 1..n : more[i] = old[i] /\ i \in 1..(n + 1) /\ i < n + 1
  OBVIOUS
<1>2. more \in Seq(X) /\ \A i, j \in DOMAIN more : i < j => <<more[i], more[j]>> \in R
  BY DEF Line
<1> HIDE DEF n, more
<1>3. n + 1 \in 1..(n + 1)
  BY <1>1
<1>4. \A i \in DOMAIN more : more[i] \in X
  BY <1>2, Indices
<1>5. \A i \in 1..n : old[i] \in X
  BY <1>1, <1>4
<1>6. old \in Seq(X)
  <2>1. old = [i \in 1..n |-> old[i]]
    BY <1>1
  <2>. QED  BY <1>1, <1>5, <2>1
<1>7. \A i, j \in 1..n : i < j => <<old[i], old[j]>> \in R
  BY <1>1, <1>2
<1>8. old \in Line(X, R)
  BY <1>1, <1>6, <1>7 DEF Line
<1>9. x \in X
  BY <1>1, <1>3, <1>4
<1>10. Leads(old, x, R)
  BY <1>1, <1>2, <1>3 DEF Leads
<1>11. \A o : Leads(more, o, R) => Leads(old, o, R) /\ <<x, o>> \in R
  BY <1>1, <1>3 DEF Leads
<1>. QED  BY <1>8, <1>9, <1>10, <1>11 DEF more

\* the turns of the pass so far, the open one included
TurnsOf(acc) == IF acc.open.text = <<>> THEN acc.done ELSE Append(acc.done, acc.open)

Renamed(p, s) == [p EXCEPT !.speaker = s]

\* Another speaker changes nothing in the order.
LEMMA OtherSpeaker ==
    ASSUME NEW C \in Vocabularies, NEW k \in Nat, NEW p \in Paced(C, k), NEW s \in Int,
           NEW q, q = Renamed(p, s)
    PROVE  /\ q \in Paced(C, k) /\ q.text = p.text /\ q.from = p.from /\ q.to = p.to
           /\ \A o \in Paced(C, k) : /\ <<o, p>> \in Follows <=> <<o, q>> \in Follows
                                     /\ <<p, o>> \in Follows <=> <<q, o>> \in Follows
<1>1. /\ p \in [speaker : Int, from : Nat, to : Int, text : RisingTexts(C)] /\ p.text # <<>>
      /\ k * Weight(p.text) <= p.to - p.from
  BY DEF Paced, Timed
<1>2. /\ q \in [speaker : Int, from : Nat, to : Int, text : RisingTexts(C)]
      /\ q.text = p.text /\ q.from = p.from /\ q.to = p.to
  BY <1>1 DEF Renamed
<1>3. q \in Paced(C, k)
  BY <1>1, <1>2 DEF Paced, Timed
<1>4. \A o \in Paced(C, k) : o \in Spans
  BY PacedIs DEF Paced
<1>. QED  BY <1>2, <1>3, <1>4, FollowsIs

\* A word continues the turns: it is appended, instead of a turn that is noise or not, or it
\* makes the open one longer.
LEMMA WithWordExtends ==
    ASSUME NEW C \in Vocabularies, NEW K \in Nat, NEW w \in Paced(C, K), w \in Pieces(Int),
           NEW L \in SUBSET Nat, NEW diar \in Seq(VoicesOf(L)), diar # <<>>, NEW acc \in WordStates(L)
    PROVE  Extends(TurnsOf(WithWord(acc, w, diar)), TurnsOf(acc), w, Paced(C, K), Follows)
<1> DEFINE X == Paced(C, K)
           old == TurnsOf(acc)
           acc2 == WithWord(acc, w, diar)
           new == TurnsOf(acc2)
<1> SUFFICES ASSUME old \in Line(X, Follows), Leads(old, w, Follows)
             PROVE  /\ new \in Line(X, Follows)
                    /\ \A o \in X : Leads(old, o, Follows) /\ <<w, o>> \in Follows => Leads(new, o, Follows)
  BY DEF Extends
<1>1. /\ acc.done \in Seq(Pieces(L)) /\ (acc.open.text # <<>> => acc.open \in Pieces(L))
      /\ Nobody.text = <<>>
  BY FlushedType DEF Nobody
<1>2. acc.open.text # <<>> =>
        /\ acc.done \in Line(X, Follows) /\ acc.open \in X
        /\ \A o : Leads(old, o, Follows) => Leads(acc.done, o, Follows) /\ <<acc.open, o>> \in Follows
  BY <1>1, AllButLast DEF TurnsOf
<1>3. ASSUME NEW s \in L, acc2 = [done |-> Flushed(acc), open |-> [w EXCEPT !.speaker = s]]
      PROVE  /\ new \in Line(X, Follows)
             /\ \A o \in X : Leads(old, o, Follows) /\ <<w, o>> \in Follows => Leads(new, o, Follows)
  <2> DEFINE q == [w EXCEPT !.speaker = s]
             rest == Flushed(acc)
  <2>1. /\ q \in X /\ q.text = w.text /\ w.text # <<>>
        /\ \A o \in X : /\ <<o, w>> \in Follows <=> <<o, q>> \in Follows
                        /\ <<w, o>> \in Follows <=> <<q, o>> \in Follows
    <3>1. s \in Int /\ w \in X /\ q = Renamed(w, s)
      BY DEF Renamed
    <3>2. w.text # <<>>
      BY DEF Paced
    <3> HIDE DEF q, rest, old, new, acc2
    <3>3. q \in X /\ q.text = w.text
      BY <3>1, OtherSpeaker
    <3>4. \A o \in X : /\ <<o, w>> \in Follows <=> <<o, q>> \in Follows
                       /\ <<w, o>> \in Follows <=> <<q, o>> \in Follows
      BY <3>1, OtherSpeaker
    <3>. QED  BY <3>2, <3>3, <3>4
  <2>2. new = Append(rest, q)
    <3>1. acc2.done = rest /\ acc2.open = q
      BY <1>3
    <3> HIDE DEF q, rest, acc2
    <3>. QED  BY <2>1, <3>1 DEF TurnsOf
  <2> HIDE DEF q, rest, X, old, new
  <2>3. rest \in Line(X, Follows) /\ \A o : Leads(old, o, Follows) => Leads(rest, o, Follows)
    <3>1. CASE acc.open.text = <<>>
      BY <3>1 DEF rest, Flushed, IsNoise, old, TurnsOf
    <3>2. CASE acc.open.text # <<>>
      BY <1>2, <3>2 DEF rest, Flushed, old, TurnsOf
    <3>. QED  BY <3>1, <3>2
  <2>4. Leads(rest, q, Follows)
    <3>1. rest \in Seq(X) /\ Leads(rest, w, Follows)
      BY <2>3 DEF Line
    <3>2. \A i \in DOMAIN rest : rest[i] \in X
      BY <3>1, Indices
    <3>. QED  BY <2>1, <3>1, <3>2 DEF Leads
  <2>5. Extends(Append(rest, q), rest, q, X, Follows)
    BY <2>1, AppendExtends
  <2>. QED  BY <2>1, <2>2, <2>3, <2>4, <2>5 DEF Extends
<1>4. ASSUME acc.open \in Pieces(L),
             acc2 = [done |-> acc.done, open |-> [acc.open EXCEPT !.to = w.to, !.text = @ \o w.text]]
      PROVE  /\ new \in Line(X, Follows)
             /\ \A o \in X : Leads(old, o, Follows) /\ <<w, o>> \in Follows => Leads(new, o, Follows)
  <2> DEFINE p == acc.open
             j == Joined(p, w)
  <2>1. p.text # <<>> /\ p \in X /\ old = Append(acc.done, p) /\ acc.done \in Line(X, Follows)
    BY <1>2, <1>4 DEF Pieces, TurnsOf
  <2>2. <<p, w>> \in Follows
    BY <1>2, <2>1
  <2>3. j \in X /\ j.text = p.text \o w.text /\ Between(j, p, w, X, Follows)
    BY <2>1, <2>2, JoinFollowing
  <2>4. j = [p EXCEPT !.to = w.to, !.text = @ \o w.text]
    <3>1. /\ p \in Spans /\ w \in Spans /\ p.to \in Int /\ w.from \in Int /\ w.to \in Int
          /\ w.from <= w.to
      <4>1. p \in Timed(C, K) /\ w \in Timed(C, K)
        BY <2>1 DEF Paced
      <4> HIDE DEF p
      <4>. QED  BY <4>1, TimedIs
    <3>2. p.to <= w.from
      BY <2>2, <3>1, FollowsIs
    <3>3. Larger(p.to, w.to) = w.to
      BY <3>1, <3>2 DEF Larger
    <3>. QED  BY <3>3 DEF Joined
  <2>5. j.text # <<>>
    BY <2>3 DEF Paced
  <2>6. new = Append(acc.done, j)
    <3>1. acc2.done = acc.done /\ acc2.open = j
      BY <1>4, <2>4
    <3> HIDE DEF acc2, j
    <3>. QED  BY <2>5, <3>1 DEF TurnsOf
  <2> DEFINE n == Len(old)
  <2>7. old # <<>> /\ n \in Nat /\ old[n] = p /\ LastAs(old, j) = Append(acc.done, j) /\ old \in Seq(X)
    <3>1. acc.done \in Seq(X)
      BY <2>1 DEF Line
    <3> DEFINE done == acc.done
    <3> HIDE DEF j, p, X, old, new, acc2, n
    <3>3. done \in Seq(X) /\ p \in X /\ j \in X /\ old = Append(done, p)
      BY <2>1, <2>3, <3>1
    <3> HIDE DEF done
    <3>2. LastAs(old, j) = Append(done, j)
      BY <3>3, LastReplaced, Zenon
    <3>4. old \in Seq(X) /\ old # <<>> /\ Len(old) \in Nat /\ old[Len(old)] = p
      BY <3>3, AppendProperties
    <3>. QED  BY <3>2, <3>4 DEF done, n
  <2>8. Joins(j, old[Len(old)], w, X, Follows)
    BY <2>3, <2>7 DEF Joins
  <2> HIDE DEF j, X, old
  <2>9. Extends(LastAs(old, j), old, w, X, Follows)
    BY <2>7, <2>8, JoinExtends DEF X, LastAs
  <2>. QED  BY <2>6, <2>7, <2>9 DEF Extends
<1>. QED  BY <1>3, <1>4, WithWordIs

\* The words of one channel are grouped to turns in their order.
LEMMA WordTurnsInOrder ==
    ASSUME NEW C \in Vocabularies, NEW K \in Nat, NEW words \in InTurn(C, K),
           NEW L \in SUBSET Nat, NEW diar \in Seq(VoicesOf(L)), diar # <<>>
    PROVE  WordTurns(words, diar) \in InTurn(C, K)
<1> DEFINE n == Len(words)
           X == Paced(C, K)
<1>1. /\ words \in Seq(Pieces(Int)) /\ n \in Nat /\ DOMAIN words = 1..n
      /\ \A k \in 1..n : words[k] \in X /\ words[k] \in Pieces(Int)
  <2>1. /\ words \in Seq(Pieces(Int)) /\ n \in Nat /\ DOMAIN words = 1..n
        /\ \A k \in 1..n : words[k] \in X
    BY InTurnType
  <2>. QED  BY <2>1, Indices
<1>2. PICK g : IsWordRun(g, words, diar, L)
  BY <1>1, WordSteps
<1>3. /\ g \in [0..n -> WordStates(L)] /\ g[0] = [done |-> <<>>, open |-> Nobody]
      /\ \A k \in 1..n : g[k] = WithWord(g[k - 1], words[k], diar)
      /\ WordTurns(words, diar) = Flushed(g[n])
  BY <1>2 DEF IsWordRun
<1> HIDE DEF n, X
<1> DEFINE h == [k \in 0..n |-> TurnsOf(g[k])]
<1>4. h[0] = <<>>
  BY <1>1, <1>3 DEF TurnsOf, Nobody
<1>5. ASSUME NEW k \in 1..n
      PROVE  Extends(h[k], h[k - 1], words[k], X, Follows)
  <2>1. k \in 0..n /\ k - 1 \in 0..n /\ g[k - 1] \in WordStates(L)
    BY <1>1, <1>3
  <2>2. Extends(TurnsOf(WithWord(g[k - 1], words[k], diar)), TurnsOf(g[k - 1]), words[k], X, Follows)
    BY <1>1, <2>1, WithWordExtends DEF X
  <2>. QED  BY <1>3, <2>1, <2>2
<1>6. n \in 0..n /\ h[n] = TurnsOf(g[n]) /\ g[n] \in WordStates(L)
  BY <1>1, <1>3
<1> HIDE DEF h
<1>7. ExtendsAlong(h, words, X, Follows)
  BY <1>4, <1>5 DEF ExtendsAlong, n
<1>8. h[n] \in Line(X, Follows)
  BY <1>7, ExtendedLine DEF InTurn, X, n
<1>9. CASE g[n].open.text = <<>>
  BY <1>3, <1>6, <1>8, <1>9 DEF InTurn, X, Flushed, IsNoise, TurnsOf
<1>10. CASE g[n].open.text # <<>>
  <2>1. g[n].done \in Seq(Pieces(L)) /\ g[n].open \in Pieces(L)
    BY <1>6, <1>10, FlushedType
  <2>2. Append(g[n].done, g[n].open) \in Line(X, Follows)
    BY <1>6, <1>8, <1>10 DEF TurnsOf
  <2>3. g[n].done \in Line(X, Follows)
    BY <2>1, <2>2, AllButLast
  <2>. QED  BY <1>3, <2>2, <2>3 DEF InTurn, X, Flushed
<1>. QED  BY <1>9, <1>10

-----------------------------------------------------------------------------
(* What is heard of one channel *)

\* A phrase has at most 15 characters, so a text weighs at most 16 for each phrase.
LEMMA WeightIsSmall ==
    ASSUME NEW text \in Texts
    PROVE  Weight(text) <= 16 * Len(text) /\ Len(text) \in Nat /\ Weight(text) \in Nat
<1> DEFINE n == Len(text)
<1>1. PICK g : IsAdding(g, n, CharsOf(text), Total(Chars, text))
  BY CharsAdd
<1>2. n \in Nat /\ \A k \in 1..n : CharsOf(text)[k] \in 1..15
  BY CharsAdd
<1>3. /\ g \in [0..n -> Nat] /\ g[0] = 0 /\ g[n] = Total(Chars, text)
      /\ \A k \in 1..n : g[k] = g[k - 1] + CharsOf(text)[k]
  BY <1>1 DEF IsAdding
<1> HIDE DEF n
<1> DEFINE T == {k \in 0..n : g[k] <= 15 * k}
<1>4. 0 \in T
  BY <1>2, <1>3
<1>5. ASSUME NEW k \in 1..n, k - 1 \in T
      PROVE  k \in T
  <2>1. k \in 0..n /\ k - 1 \in 0..n /\ g[k] \in Nat /\ g[k - 1] \in Nat
    BY <1>2, <1>3
  <2>2. CharsOf(text)[k] \in 1..15 /\ g[k] = g[k - 1] + CharsOf(text)[k] /\ g[k - 1] <= 15 * (k - 1)
    BY <1>2, <1>3, <1>5
  <2>. QED  BY <2>1, <2>2
<1> HIDE DEF T
<1>6. \A k \in 0..n : k \in T
  BY <1>2, <1>4, <1>5, StepInduction
<1>7. n \in 0..n
  BY <1>2
<1>8. g[n] <= 15 * n /\ g[n] \in Nat
  BY <1>3, <1>6, <1>7 DEF T
<1>. QED  BY <1>2, <1>3, <1>8 DEF Weight, n

\* segments with 128 units of time for each phrase, so 8 for each character
Spelled(C) == {s \in Timed(C, 8) : 128 * Len(s.text) <= s.to - s.from}

\* Segments in turn are pieces of their phrases with 8 units of time for each character.
LEMMA SegmentsAreTimed ==
    ASSUME NEW C \in Vocabularies, NEW segs \in Seq(Segments), ChannelInTurn(segs),
           \A i \in DOMAIN segs : \A k \in DOMAIN segs[i].text : segs[i].text[k] \in C
    PROVE  segs \in Line(Spelled(C), Follows)
<1>1. DOMAIN segs = 1..Len(segs) /\ Len(segs) \in Nat /\ \A i \in DOMAIN segs : segs[i] \in Segments
  BY Indices
<1>2. ASSUME NEW i \in DOMAIN segs
      PROVE  segs[i] \in Spelled(C) /\ segs[i] \in Spans
  <2> DEFINE s == segs[i]
  <2>1. s \in [speaker : {0}, from : Nat, to : Nat, text : Texts]
    BY <1>1 DEF Segments
  <2>2. s.from \in Nat /\ s.to \in Nat /\ s.text \in Texts
    BY <2>1
  <2>3. s.text \in Seq(C)
    <3>1. \A k \in DOMAIN s.text : s.text[k] \in C
      OBVIOUS
    <3>2. DOMAIN s.text = 1..Len(s.text) /\ Len(s.text) \in Nat /\ s.text \in Seq(Phrases)
      BY <2>2, Indices DEF Texts
    <3> HIDE DEF s
    <3>. QED  BY <3>1, <3>2
  <2>4. \A k, l \in DOMAIN s.text : k < l => <<s.text[k], s.text[l]>> \in IdsRise
    <3>1. \A k, l \in DOMAIN s.text : k < l => s.text[k].id < s.text[l].id
      BY DEF ChannelInTurn
    <3>2. \A k \in DOMAIN s.text : s.text[k] \in Phrases
      BY <2>2, Indices DEF Texts
    <3>. QED  BY <3>1, <3>2 DEF IdsRise
  <2>5. s.text \in RisingTexts(C)
    BY <2>3, <2>4 DEF RisingTexts, Line
  <2>6. 8 * Weight(s.text) <= s.to - s.from
    <3>1. s.to - s.from >= 128 * Len(s.text)
      BY DEF ChannelInTurn
    <3>2. Weight(s.text) <= 16 * Len(s.text) /\ Len(s.text) \in Nat /\ Weight(s.text) \in Nat
      BY <2>2, WeightIsSmall
    <3>. QED  BY <2>2, <3>1, <3>2
  <2>9. 128 * Len(s.text) <= s.to - s.from
    <3>1. s.to - s.from >= 128 * Len(s.text)
      BY DEF ChannelInTurn
    <3>2. Len(s.text) \in Nat
      BY <2>2, WeightIsSmall
    <3>. QED  BY <2>2, <3>1, <3>2
  <2> HIDE DEF s
  <2>7. s \in Spelled(C)
    <3>1. s \in Timed(C, 8)
      BY <2>1, <2>5, <2>6 DEF Timed
    <3>. QED  BY <2>9, <3>1 DEF Spelled
  <2>8. s \in Spans
    BY <2>1 DEF Spans
  <2>. QED  BY <2>7, <2>8 DEF s
<1>3. ASSUME NEW i \in DOMAIN segs, NEW j \in DOMAIN segs, i < j
      PROVE  <<segs[i], segs[j]>> \in Follows
  <2>1. segs[i].to <= segs[j].from
    BY <1>3 DEF ChannelInTurn
  <2>2. ASSUME NEW k \in DOMAIN segs[i].text, NEW l \in DOMAIN segs[j].text
        PROVE  <<segs[i].text[k], segs[j].text[l]>> \in IdsRise
    <3>1. segs[i].text[k].id < segs[j].text[l].id
      BY <1>3 DEF ChannelInTurn
    <3>. QED  BY <3>1 DEF IdsRise, Vocabularies
  <2>3. Earlier(segs[i].text, segs[j].text)
    BY <2>2 DEF Earlier
  <2>. QED  BY <1>2, <2>1, <2>3, FollowsIs
<1>4. segs \in Seq(Spelled(C))
  <2>1. segs = [i \in 1..Len(segs) |-> segs[i]]
    BY <1>1
  <2>. QED  BY <1>1, <1>2, <2>1
<1>. QED  BY <1>3, <1>4 DEF Line

\* The sort by the time leaves segments in turn where they are.
LEMMA SortedSegments ==
    ASSUME NEW C \in Vocabularies, NEW segs \in Line(Spelled(C), Follows)
    PROVE  SortBy(segs, EarlierSpan) \in Line(Spelled(C), Follows)
<1> DEFINE X == Spelled(C)
           n == Len(segs)
           sorted == SortBy(segs, EarlierSpan)
<1>1. /\ segs \in Seq(X) /\ n \in Nat /\ DOMAIN segs = 1..n /\ \A i \in 1..n : segs[i] \in X
      /\ \A i, j \in 1..n : i < j => <<segs[i], segs[j]>> \in Follows
  <2>1. segs \in Seq(X)
    BY DEF Line
  <2>2. n \in Nat /\ DOMAIN segs = 1..n /\ \A i \in 1..n : segs[i] \in X
    BY <2>1, Indices
  <2>. QED  BY <2>1, <2>2 DEF Line
<1>2. \A p \in X : p.from \in Int /\ p.to \in Int /\ p \in Spans /\ p.from <= p.to
  <2>1. 8 \in Nat /\ \A p \in X : p \in Timed(C, 8)
    BY DEF Spelled
  <2>. QED  BY <2>1, TimedIs
<1> HIDE DEF X
<1>3. PICK order : SortsSpans(order, segs) /\ sorted = [l \in 1..n |-> segs[order[l]]]
  BY <1>1, <1>2, SpansPermuted
<1>4. order \in [1..n -> 1..n]
  BY <1>3 DEF SortsSpans
<1>5. sorted \in Seq(X) /\ Len(sorted) = n /\ \A l \in 1..n : sorted[l] = segs[order[l]]
  BY <1>1, <1>3, <1>4, PermutedType
<1>6. DOMAIN sorted = 1..n
  BY <1>5, Indices
<1>7. ASSUME NEW i \in 1..n, NEW j \in 1..n, SpanPrecedes(segs, i, j)
      PROVE  i < j
  <2>1. SUFFICES ASSUME j <= i
                 PROVE  FALSE
    BY <1>1
  <2>2. /\ segs[i].from \in Int /\ segs[i].to \in Int /\ segs[j].from \in Int /\ segs[j].to \in Int
        /\ segs[i].from <= segs[i].to /\ segs[j].from <= segs[j].to
        /\ segs[i] \in Spans /\ segs[j] \in Spans
    BY <1>1, <1>2
  <2>3. CASE i = j
    BY <1>7, <2>2, <2>3 DEF SpanPrecedes, EarlierSpan
  <2>4. CASE i # j
    <3>1. j < i
      BY <1>1, <2>1, <2>4
    <3>2. segs[j].to <= segs[i].from
      BY <1>1, <2>2, <3>1, FollowsIs
    <3>. QED  BY <1>1, <1>7, <2>2, <3>1, <3>2 DEF SpanPrecedes, EarlierSpan
  <2>. QED  BY <2>3, <2>4
<1>8. ASSUME NEW i \in 1..n, NEW j \in 1..n, i < j
      PROVE  <<sorted[i], sorted[j]>> \in Follows
  <2>1. order[i] \in 1..n /\ order[j] \in 1..n /\ SpanPrecedes(segs, order[i], order[j])
    BY <1>3, <1>4, <1>8 DEF SortsSpans
  <2>. QED  BY <1>1, <1>5, <1>7, <2>1
<1>. QED  BY <1>5, <1>6, <1>8 DEF Line, X

\* The rest of a line is a line.
LEMMA RestOfLine ==
    ASSUME NEW X, NEW R, NEW seq \in Line(X, R), NEW m \in 1..Len(seq)
    PROVE  SubSeq(seq, m, Len(seq)) \in Line(X, R)
<1> DEFINE n == Len(seq)
           rest == SubSeq(seq, m, n)
<1>1. seq \in Seq(X) /\ n \in Nat /\ \A i, j \in 1..n : i < j => <<seq[i], seq[j]>> \in R
  BY DEF Line
<1>2. /\ rest \in Seq(X) /\ DOMAIN rest = 1..(n - m + 1)
      /\ \A i \in 1..(n - m + 1) : rest[i] = seq[m + i - 1] /\ m + i - 1 \in 1..n
  BY <1>1
<1> HIDE DEF rest, n
<1>3. ASSUME NEW i \in DOMAIN rest, NEW j \in DOMAIN rest, i < j
      PROVE  <<rest[i], rest[j]>> \in R
  <2>1. /\ rest[i] = seq[m + i - 1] /\ m + i - 1 \in 1..n
        /\ rest[j] = seq[m + j - 1] /\ m + j - 1 \in 1..n
    BY <1>2
  <2>2. m + i - 1 < m + j - 1
    BY <1>1, <1>2, <1>3 DEF n
  <2>. QED  BY <1>1, <2>1, <2>2
<1>. QED  BY <1>2, <1>3 DEF Line, rest, n

\* Without the noise and the announcements at the start, cut into units, they are pieces with 4
\* units of time for each character.
LEMMA PreparedInTurn ==
    ASSUME NEW C \in Vocabularies, NEW segs \in Line(Spelled(C), Follows)
    PROVE  Prepare(segs) \in InTurn(C, 4)
<1> DEFINE X == Spelled(C)
           kept == ExtractSegments(segs)
           trimmed == TrimSystem(kept)
<1>1. segs \in Seq(X)
  BY DEF Line
<1>2. kept = Kept(segs, {i \in DOMAIN segs : ~IsNoise(segs[i])})
  BY <1>1, ExtractKeeps
<1>3. /\ kept \in Line(X, Follows)
      /\ \A m \in DOMAIN kept : \E i \in DOMAIN segs : ~IsNoise(segs[i]) /\ kept[m] = segs[i]
  <2> DEFINE keep == {i \in DOMAIN segs : ~IsNoise(segs[i])}
  <2>1. /\ Kept(segs, keep) \in Line(X, Follows)
        /\ \A m \in DOMAIN Kept(segs, keep) :
             \E i \in DOMAIN segs : i \in keep /\ Kept(segs, keep)[m] = segs[i]
    <3> HIDE DEF keep, X
    <3>. QED  BY KeptLine DEF X
  <2>. QED  BY <1>2, <2>1
<1> HIDE DEF kept
<1>4. kept \in Seq(X) /\ DOMAIN kept = 1..Len(kept) /\ Len(kept) \in Nat /\ \A m \in DOMAIN kept : kept[m] \in X
  <2>1. kept \in Seq(X)
    BY <1>3 DEF Line
  <2>. QED  BY <2>1, Indices
<1>5. kept \in InTurn(C, 8)
  <2>1. \A m \in DOMAIN kept : kept[m].text # <<>>
    BY <1>3 DEF IsNoise
  <2>2. \A m \in DOMAIN kept : kept[m] \in Paced(C, 8)
    BY <1>4, <2>1 DEF Paced, Spelled
  <2>3. kept = [m \in 1..Len(kept) |-> kept[m]]
    BY <1>4
  <2>4. kept \in Seq(Paced(C, 8))
    BY <1>4, <2>2, <2>3
  <2>. QED  BY <1>3, <2>4 DEF InTurn, Line
<1>6. trimmed \in InTurn(C, 8)
  BY <1>4, <1>5, TrimCuts, RestOfLine DEF InTurn
<1> HIDE DEF trimmed
<1>7. SplitByUnits(trimmed) \in InTurn(C, 4)
  <2>1. 2 * 4 = 8 /\ 4 \in Nat /\ 4 > 0
    OBVIOUS
  <2>2. trimmed \in InTurn(C, 2 * 4)
    BY <1>6, <2>1
  <2>. QED  BY <2>1, <2>2, SplitInTurn
<1>8. DropSystem(SplitByUnits(trimmed)) \in InTurn(C, 4)
  BY <1>7, DroppedInTurn
<1>. QED  BY <1>8 DEF Prepare, trimmed, kept

=============================================================================
