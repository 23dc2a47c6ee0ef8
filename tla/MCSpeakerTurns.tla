--------------------------- MODULE MCSpeakerTurns ---------------------------
(***************************************************************************)
(* Recordings and diarizations for TLC.  A segment is given by its kinds;  *)
(* the unit of time is 0.0025 s, fine enough for what is proved about the  *)
(* cuts; a short phrase takes 0.5 s and any other one 1.75 s.              *)
(***************************************************************************)
EXTENDS SpeakerTurns

CONSTANTS MCKinds, MCGaps, MCDoubleKinds, MCStereoKinds

Time(kind) == IF kind \in {"yes", "info", "okay"} THEN 200 ELSE 700

\* segments one after the other, with the same pause between them; units numbered after `base`
Sequel(kinds, gap, base) ==
    LET Numbered(n, ks) == [i \in DOMAIN ks |-> [id |-> n + i, kind |-> ks[i]]]
        Span(ks) == FoldLeft(LAMBDA n, k : n + Time(k), 0, ks)
        Extend(segs, ks) ==
            LET start == IF segs = <<>> THEN 0 ELSE Last(segs).to + gap
                count == base + Len(FlattenSeq([i \in DOMAIN segs |-> segs[i].text]))
            IN  Append(segs, [speaker |-> 0, from |-> start, to |-> start + Span(ks),
                              text |-> Numbered(count, ks)])
    IN  FoldLeft(Extend, <<>>, kinds)

OneEach(n, kinds) == {[i \in 1..n |-> <<f[i]>>] : f \in [1..n -> kinds]}

Mono(kinds, gaps) ==
    {[channels |-> <<Sequel(k, g, 0)>>, words |-> w, mute |-> {}] :
        k \in kinds, g \in gaps, w \in BOOLEAN}

\* every phrase with and without a time of its own
Muted(kinds, gaps) ==
    UNION {{[r EXCEPT !.mute = m] : m \in SUBSET ToSet(TextOf(r.channels[1]))} :
        r \in {x \in Mono(kinds, gaps) : x.words}}

Stereo(left, right, gaps) ==
    {[channels |-> <<Sequel(l, g, 0), Sequel(r, 2 * g, 10)>>, words |-> TRUE, mute |-> {}] :
        l \in left, r \in right, g \in gaps}

Pairs(kinds) == kinds \X kinds

MCRecordings ==
    UNION {
        Mono(OneEach(2, Kinds) \union OneEach(3, MCKinds), MCGaps),
        Mono(OneEach(4, MCDoubleKinds), MCGaps),
        Mono({<<a, b>> : a \in Pairs(MCDoubleKinds), b \in Pairs(MCDoubleKinds)}, MCGaps),
        Stereo(OneEach(1, MCStereoKinds) \union OneEach(2, MCStereoKinds),
               OneEach(1, MCStereoKinds) \union OneEach(2, MCStereoKinds), MCGaps),
        Muted({<<<<"info", "cust">>, <<"agent">>>>, <<<<"yes", "yes", "yes", "yes", "info">>>>},
              MCGaps)}

D(speaker, from, to) == [speaker |-> speaker, from |-> from, to |-> to]

\* none; one change; back and forth, reported out of order, with an overlap; three speakers
MCDiarizations ==
    {<<>>,
     <<D(2, 0, 980), D(1, 980, 1800)>>,
     <<D(1, 1120, 1840), D(1, 0, 600), D(2, 480, 1240), D(2, 2000, 4800)>>,
     <<D(3, 600, 720), D(1, 120, 480), D(2, 1500, 3600)>>}

\* the hypothesis of the theorems about the order and the times
ASSUME TheInstanceIsInTurn == SegmentsInTurn

-----------------------------------------------------------------------------
(* Properties *)

\* one of these texts has a stretch that counts as noise when it is said fast enough, such as "네"
\* four times and one word more (_is_repeated_low_signal_hallucination)
Repetitive(texts) ==
    \E text \in texts : \E i, j \in DOMAIN text :
        i <= j /\ IsNoise([speaker |-> 0, from |-> 0, to |-> 1, text |-> SubSeq(text, i, j)])

\* Words are taken, and this phrase has none that lasts.
Untimed(u) == Words # <<>> /\ u \notin ToSet(TextOf(Words))

\* Between Whisper and the speaker segments a phrase with content is lost for three reasons alone,
\* by whichever way speakers are assigned: an announcement in the call, a stretch of the call that
\* says a word of low value again and again, or a word to which Whisper gives no time.
ContentKept ==
    LET texts == {TextOf(Heard), TextOf(Words)} \union
                     {TextOf(recording.channels[c]) : c \in DOMAIN recording.channels}
    IN  phase = "done" /\ ~Has(TextOf(Heard), "ivr") /\ ~Repetitive(texts) =>
            \A u \in ToSet(TextOf(Heard)) :
                u.kind # "yes" /\ ~Untimed(u) => u \in ToSet(TextOf(turns))

\* A segment that is long enough and speaks for one role alone ends with that role's label,
\* whatever diarization, smoothing and merging made of it.
ClearRoleWins ==
    phase = "done" /\ Len(recording.channels) = 1 =>
        \A i \in DOMAIN turns : RefinedSpeaker(turns[i]) = turns[i].speaker
=============================================================================
