---------------------------- MODULE SpeakerTurns ----------------------------
(***************************************************************************)
(* How app/pipeline.py turns the answer of Whisper into speaker segments:  *)
(* the default (stt_only) path of transcribe_and_summarize, one action per *)
(* stage.  A text is a sequence of phrases; a phrase is the least that one *)
(* speaker says at a time (Whisper's words have no finer times here), with *)
(* an identity and a kind, and a kind stands for all the phrases that the  *)
(* regular expressions of the code treat alike:                            *)
(*                                                                         *)
(*   ivr    "보험은 2번입니다."            greet  "상담사 홍길동입니다."         *)
(*   yes    "네" (low value)             okay   "알겠습니다"                  *)
(*   noise  "네 네 네 네 네 네 네 네"       info   "3월"                       *)
(*   say    "물건이 늦었어요."             ask    "맞으실까요?"                 *)
(*   cust   "제가 이사하려고"              agent  "고객님 잠시만 기다려주세요."    *)
(*                                                                         *)
(* Times are integers, in the unit of the thresholds.  The sLLM and the    *)
(* summaries are not reached by this path.                                 *)
(***************************************************************************)
EXTENDS Integers, FiniteSets, SequencesExt

CONSTANTS
    Recordings,     \* what Whisper may return: channels of segments, and words or not
    Diarizations,   \* what pyannote may return; <<>> when it is disabled or fails
    MergeGap,       \* SPEAKER_MAX_TURN_MERGE_SEC
    ContextGap,     \* SPEAKER_SHORT_TURN_CONTEXT_GAP_SEC
    PauseGap,       \* SPEAKER_PAUSE_THRESHOLD_SEC
    AckGap,         \* the 10 s within which an acknowledgement belongs to the next speaker
    FragmentSpan,   \* the 1.2 s of short fragments of information
    NearGap,        \* the 1.0 s within which a diarized segment is near a turn
    ShortTurn,      \* SPEAKER_SHORT_TURN_MAX_SEC
    ShortText,      \* SPEAKER_SHORT_TURN_MAX_CHARS
    RefineTurn,     \* SPEAKER_ROLE_REFINE_MIN_SEC
    RefineText,     \* SPEAKER_ROLE_REFINE_MIN_CHARS
    RefineMargin,   \* SPEAKER_ROLE_REFINE_SCORE_MARGIN
    BurstSpan,      \* the 2.5 s in which four low words are noise
    DenseSpan,      \* the 2.0 s in which thirty characters that repeat a word are noise
    DenseText       \* those thirty characters

ASSUME GapsAreNatural ==
    {MergeGap, ContextGap, PauseGap, AckGap, FragmentSpan, NearGap, ShortTurn,
     ShortText, RefineTurn, RefineText, RefineMargin, BurstSpan, DenseSpan, DenseText} \subseteq Nat

Chars == [ivr |-> 10, greet |-> 11, yes |-> 1, okay |-> 5, noise |-> 15,
          info |-> 2, say |-> 9, ask |-> 6, cust |-> 8, agent |-> 15]

\* those of them that are no blank, comma, full stop or hyphen
Letters == [ivr |-> 8, greet |-> 9, yes |-> 1, okay |-> 5, noise |-> 8,
            info |-> 2, say |-> 7, ask |-> 6, cust |-> 7, agent |-> 12]

Kinds == DOMAIN Chars

Phrases == [id : Nat, kind : Kinds]

Texts == Seq(Phrases)

\* a segment of Whisper and one of pyannote
Segments == [speaker : {0}, from : Nat, to : Nat, text : Texts]

Voices == [speaker : Nat, from : Nat, to : Nat]

\* of one channel or two; with words or not, and with no time for the words in `mute`
IsRecording(r) ==
    /\ r.channels \in Seq(Seq(Segments)) /\ Len(r.channels) \in {1, 2}
    /\ r.words \in BOOLEAN /\ r.mute \subseteq Phrases

ASSUME RecordingsAreSegments == \A r \in Recordings : IsRecording(r)

ASSUME DiarizationsAreVoices == Diarizations \subseteq Seq(Voices)

VARIABLES
    phase,        \* the stage transcribe_and_summarize has reached
    recording,    \* Whisper's answer
    diarization,  \* canonical diarization segments
    turns,        \* the segments or turns of the stage, each with its text
    transcript    \* transcript_text

vars == <<phase, recording, diarization, turns, transcript>>

-----------------------------------------------------------------------------
(* Texts *)

\* words of a phrase, and those of them that are "네"
Tokens == [ivr |-> 2, greet |-> 2, yes |-> 1, okay |-> 1, noise |-> 8,
           info |-> 1, say |-> 2, ask |-> 1, cust |-> 2, agent |-> 3]

LowTokens == [k \in Kinds |-> IF k \in {"yes", "noise"} THEN Tokens[k] ELSE 0]

\* a cue of _split_dialogue_units begins the phrase
Cues == {"okay", "cust", "agent"}

Has(text, kind) == \E i \in DOMAIN text : text[i].kind = kind

Only(text, kinds) == \A i \in DOMAIN text : text[i].kind \in kinds

Total(count, text) == FoldLeft(LAMBDA n, u : n + count[u.kind], 0, text)

\* with a blank between two phrases
Length(text) == Total(Chars, text) + Len(text) - 1

Asks(text) == Last(text).kind = "ask"

EndsSentence(text) == Last(text).kind \in {"ivr", "greet", "say", "ask", "agent"}

\* an IVR marker without a marker of conversation
IsSystem(text) == Has(text, "ivr") /\ ~Has(text, "greet")

IsLowValue(text) == Len(text) = 1 /\ Only(text, {"yes"})

IsAcknowledgement(text) ==
    [i \in DOMAIN text |-> text[i].kind] \in {<<"yes">>, <<"okay">>, <<"yes", "okay">>}

\* _is_repeated_low_signal_hallucination: "네" six times, or most of eight words, or of four words
\* that are soon over, or one word again and again in a hurry
IsNoise(p) ==
    LET words == Total(Tokens, p.text)
        low == Total(LowTokens, p.text)
        Times(kind) == Cardinality({i \in DOMAIN p.text : p.text[i].kind = kind})
        Within(span) == p.to - p.from \in 1 .. span
    IN  \/ p.text = <<>>
        \/ low = words /\ low >= 6
        \/ words >= 8 /\ 100 * low >= 85 * words
        \/ Within(BurstSpan) /\ words >= 4 /\ 10 * low >= 8 * words
        \/ /\ Within(DenseSpan) /\ Length(p.text) >= DenseText
           /\ \E n \in {low} \union {Times(k) : k \in Kinds} : 10 * n >= 7 * words

\* _has_customer_phrase: also a yes that leads to a question
HasCustomerPhrase(text) ==
    \/ Has(text, "cust")
    \/ \E i, j \in DOMAIN text :
          i < j /\ text[i].kind \in {"yes", "okay", "noise"} /\ text[j].kind = "ask"

CustomerScore(text) ==
    (IF Has(text, "cust") THEN 2 ELSE 0) + (IF Has(text, "okay") THEN 1 ELSE 0)
        + (IF HasCustomerPhrase(text) THEN 2 ELSE 0)

AgentScore(text) == IF Has(text, "agent") THEN 4 ELSE 0

HasRole(text) == CustomerScore(text) + AgentScore(text) > 0

\* the parts a text falls into at sentence ends and cues
Parts(text) ==
    LET Extend(parts, u) ==
            IF parts = <<>> \/ u.kind \in Cues \/ EndsSentence(Last(parts))
            THEN Append(parts, <<u>>)
            ELSE [parts EXCEPT ![Len(parts)] = Append(@, u)]
    IN  FoldLeft(Extend, <<>>, text)

\* the elements that pass, in their order (SelectSeq, of which the proofs cannot see the definition)
Filter(seq, Test(_)) ==
    FlattenSeq([i \in DOMAIN seq |-> IF Test(seq[i]) THEN <<seq[i]>> ELSE <<>>])

DialogueUnits(text) ==
    Filter(Parts(text), LAMBDA p : ~IsLowValue(p) /\ ~IsSystem(p))

-----------------------------------------------------------------------------
(* Pieces: transcript segments (speaker 0) and speaker turns *)

Larger(m, n) == IF m > n THEN m ELSE n

Smaller(m, n) == IF m < n THEN m ELSE n

Duration(p) == Larger(0, p.to - p.from)

Gap(p, q) == Larger(0, q.from - p.to)

\* A mutant: every unit starts where the piece does.
SpreadFromStart(p, units) ==
    [k \in DOMAIN units |->
        [p EXCEPT !.to = p.from + (Duration(p) * k) \div Len(units), !.text = units[k]]]

\* each unit gets its share of the time of p, by its length, up to the end of p
Spread(p, units) ==
    LET Until(k) == FoldLeft(LAMBDA n, u : n + Length(u), 0, SubSeq(units, 1, k))
        Share(k) == (Duration(p) * Until(k)) \div Until(Len(units))
        Cut(k) == CASE k = 0 -> p.from
                    [] k = Len(units) -> p.to
                    [] OTHER -> Smaller(p.to, p.from + Share(k))
    IN  [k \in DOMAIN units |->
            [p EXCEPT !.from = Cut(k - 1), !.to = Cut(k), !.text = units[k]]]

SplitByUnits(pieces) ==
    FlattenSeq([i \in DOMAIN pieces |->
        LET units == DialogueUnits(pieces[i].text)
        IN  IF Len(units) <= 1 THEN <<pieces[i]>> ELSE Spread(pieces[i], units)])

\* Python's sorted(), which is stable: a piece comes after those it does not precede
SortBy(pieces, Before(_, _)) ==
    LET Precedes(i, j) == \/ Before(pieces[i], pieces[j])
                          \/ ~Before(pieces[j], pieces[i]) /\ i < j
        rank == [i \in DOMAIN pieces |-> Cardinality({j \in DOMAIN pieces : Precedes(j, i)})]
    IN  [k \in DOMAIN pieces |-> pieces[CHOOSE i \in DOMAIN pieces : rank[i] = k - 1]]

EarlierSpan(p, q) == p.from < q.from \/ (p.from = q.from /\ p.to < q.to)

SortTurns(pieces) ==
    SortBy(pieces, LAMBDA p, q :
        \/ EarlierSpan(p, q)
        \/ ~EarlierSpan(q, p) /\ p.speaker < q.speaker)

ExtractSegments(segments) ==
    Filter(segments, LAMBDA s : ~IsNoise(s))

TrimSystem(segments) ==
    LET first == SelectInSeq(segments, LAMBDA s : ~IsSystem(s.text))
    IN  IF first = 0 THEN segments ELSE SubSeq(segments, first, Len(segments))

\* a piece that sets conversation_started
Opens(p) == Has(p.text, "greet") /\ ~Has(p.text, "ivr") /\ ~IsNoise(p)

DropSystem(pieces) ==
    LET Started(i) == \E j \in 1..(i - 1) : Opens(pieces[j])
        Keep(i) == LET text == pieces[i].text IN
            /\ ~IsNoise(pieces[i])
            /\ Started(i) => ~IsSystem(text)
            /\ ~Started(i) => ~IsLowValue(text) /\ ~Has(text, "ivr")
        kept == FlattenSeq([i \in DOMAIN pieces |-> IF Keep(i) THEN <<pieces[i]>> ELSE <<>>])
        Worthless(p) == IsLowValue(p.text) \/ IsNoise(p)
    IN  CASE kept # <<>> -> kept
          [] Len(pieces) >= 4 /\ (\A i \in DOMAIN pieces : Worthless(pieces[i])) -> <<>>
          [] OTHER -> pieces

-----------------------------------------------------------------------------
(* Merging and smoothing *)

\* A mutant: the later text comes first.
MergeTurnsBackwards(pieces) ==
    LET CanMerge(p, q) ==
            p.speaker = q.speaker /\ Gap(p, q) <= MergeGap /\ ~EndsSentence(p.text)
        Extend(merged, q) ==
            IF merged # <<>> /\ CanMerge(Last(merged), q)
            THEN [merged EXCEPT ![Len(merged)].to = Larger(@, q.to),
                                ![Len(merged)].text = q.text \o @]
            ELSE Append(merged, q)
    IN  FoldLeft(Extend, <<>>, SortTurns(pieces))

MergeTurns(pieces) ==
    LET CanMerge(p, q) ==
            p.speaker = q.speaker /\ Gap(p, q) <= MergeGap /\ ~EndsSentence(p.text)
        Extend(merged, q) ==
            IF merged # <<>> /\ CanMerge(Last(merged), q)
            THEN [merged EXCEPT ![Len(merged)].to = Larger(@, q.to),
                                ![Len(merged)].text = @ \o q.text]
            ELSE Append(merged, q)
    IN  FoldLeft(Extend, <<>>, SortTurns(pieces))

IsFragment(p) ==
    /\ ~Asks(p.text) /\ ~IsAcknowledgement(p.text) /\ ~HasRole(p.text)
    /\ Duration(p) <= Larger(ShortTurn, FragmentSpan)
    /\ Total(Letters, p.text) <= ShortText
    /\ Has(p.text, "info") \/ Has(p.text, "ivr")

IsUncertain(p) ==
    \/ IsAcknowledgement(p.text)
    \/ /\ ~HasRole(p.text) /\ ~Asks(p.text)
       /\ Duration(p) <= ShortTurn /\ Length(p.text) <= ShortText

\* the speaker the pass over the turns gives the i-th, the earlier ones done
SmoothedSpeaker(pieces, i) ==
    LET prev == pieces[i - 1]
        turn == pieces[i]
        next == pieces[i + 1]
        AnswersQuestion ==
            /\ IsAcknowledgement(turn.text)
            /\ turn.speaker = prev.speaker /\ Asks(prev.text)
            /\ next.speaker # turn.speaker /\ Gap(turn, next) <= Larger(ContextGap, AckGap)
        ContinuesFragment ==
            /\ IsFragment(turn) /\ IsFragment(prev)
            /\ turn.speaker # prev.speaker
            /\ Gap(prev, turn) <= Larger(ContextGap, FragmentSpan)
            /\ next.speaker # turn.speaker \/ Gap(turn, next) > Gap(prev, turn)
        IsBetween ==
            /\ ~IsFragment(turn) /\ ~IsAcknowledgement(turn.text) /\ ~Asks(prev.text)
            /\ IsUncertain(turn)
            /\ prev.speaker = next.speaker /\ turn.speaker # prev.speaker
            /\ Gap(prev, turn) <= ContextGap /\ Gap(turn, next) <= ContextGap
    IN  CASE AnswersQuestion -> next.speaker
          [] ContinuesFragment \/ IsBetween -> prev.speaker
          [] OTHER -> turn.speaker

\* A mutant: what the relabelling makes neighbours is not merged.
SmoothTurnsOnly(pieces) ==
    LET Relabel(ps, i) == IF i \in {1, Len(ps)} THEN ps
                          ELSE [ps EXCEPT ![i].speaker = SmoothedSpeaker(ps, i)]
    IN  IF Len(pieces) < 3 THEN pieces ELSE FoldLeftDomain(Relabel, pieces, pieces)

SmoothTurns(pieces) ==
    LET Relabel(ps, i) == IF i \in {1, Len(ps)} THEN ps
                          ELSE [ps EXCEPT ![i].speaker = SmoothedSpeaker(ps, i)]
    IN  IF Len(pieces) < 3 THEN pieces
        ELSE MergeTurns(FoldLeftDomain(Relabel, pieces, pieces))

Settle(pieces) == SmoothTurns(MergeTurns(pieces))

-----------------------------------------------------------------------------
(* Who speaks *)

\* A mutant: the segments stay in the order of the model's answer.
CanonicalizeUnsorted(raw) ==
    LET FirstOf(label) == SelectInSeq(raw, LAMBDA d : d.speaker = label)
        Number(label) == Cardinality({raw[k].speaker : k \in 1..FirstOf(label)})
    IN  [k \in DOMAIN raw |-> [raw[k] EXCEPT !.speaker = Number(@)]]

Canonicalize(raw) ==
    LET sorted == SortBy(raw, EarlierSpan)
        FirstOf(label) == SelectInSeq(sorted, LAMBDA d : d.speaker = label)
        Number(label) == Cardinality({sorted[k].speaker : k \in 1..FirstOf(label)})
    IN  [k \in DOMAIN sorted |-> [sorted[k] EXCEPT !.speaker = Number(@)]]

Overlap(p, d) ==
    LET end == IF p.to < d.to THEN p.to ELSE d.to
    IN  Larger(0, end - Larger(p.from, d.from))

\* the loop over the sorted diarization stops at the first segment after p
Scanned(p, diar) ==
    LET stop == SelectInSeq(diar, LAMBDA d : d.to >= p.from /\ d.from > p.to)
    IN  {k \in DOMAIN diar : (stop = 0 \/ k < stop) /\ Overlap(p, diar[k]) > 0}

OverlapOf(speaker, p, ks, diar) ==
    MapThenSumSet(LAMBDA k : IF diar[k].speaker = speaker THEN Overlap(p, diar[k]) ELSE 0, ks)

SpeakerAt(p, diar, fallback) ==
    LET ks == Scanned(p, diar)
        Shared(k) == OverlapOf(diar[k].speaker, p, ks, diar)
        best == CHOOSE k \in ks : \A j \in ks :
                    Shared(k) > Shared(j) \/ (Shared(k) = Shared(j) /\ k <= j)
    IN  IF ks = {} THEN fallback ELSE diar[best].speaker

Absolute(n) == Larger(n, -n)

\* without overlap: the nearest diarized segment, if near enough; distances are doubled
NearestSpeaker(p, diar, fallback) ==
    LET Distance(k) == LET a == Absolute(p.from + p.to - 2 * diar[k].from)
                           b == Absolute(p.from + p.to - 2 * diar[k].to)
                       IN  IF a < b THEN a ELSE b
        nearest == CHOOSE k \in DOMAIN diar : \A j \in DOMAIN diar :
                       Distance(k) < Distance(j) \/ (Distance(k) = Distance(j) /\ k <= j)
    IN  IF Distance(nearest) <= 2 * NearGap THEN diar[nearest].speaker ELSE fallback

LastSpeaker(pieces, diar) == IF pieces = <<>> THEN diar[1].speaker ELSE Last(pieces).speaker

AssignByDiarization(pieces, diar) ==
    LET Assign(done, p) ==
            LET far == NearestSpeaker(p, diar, LastSpeaker(done, diar))
            IN  Append(done, [p EXCEPT !.speaker = SpeakerAt(p, diar, far)])
    IN  Settle(FoldLeft(Assign, <<>>, pieces))

\* words of one speaker without a pause or a sentence end form a turn; noise is flushed away
WordTurns(words, diar) ==
    LET Flush(acc) == IF IsNoise(acc.open) THEN acc.done ELSE Append(acc.done, acc.open)
        Take(acc, w) ==
            LET first == acc.open.text = <<>>
                speaker == SpeakerAt(w, diar, IF first THEN diar[1].speaker ELSE acc.open.speaker)
                breaks == \/ first
                          \/ speaker # acc.open.speaker
                          \/ Gap(acc.open, w) >= PauseGap
                          \/ EndsSentence(acc.open.text)
            IN  IF breaks THEN [done |-> Flush(acc), open |-> [w EXCEPT !.speaker = speaker]]
                ELSE [acc EXCEPT !.open.to = w.to, !.open.text = @ \o w.text]
        nothing == [done |-> <<>>, open |-> [speaker |-> 0, from |-> 0, to |-> 0, text |-> <<>>]]
    IN  Flush(FoldLeft(Take, nothing, words))

\* A mutant: the turn that is open after the last word is forgotten.
AssignByWordsButLast(words, diar) ==
    LET pieces == WordTurns(words, diar)
    IN  IF Len(pieces) < 2 THEN <<>>
        ELSE Settle(AssignByDiarization(DropSystem(SplitByUnits(Front(pieces))), diar))

AssignByWords(words, diar) ==
    LET pieces == WordTurns(words, diar)
    IN  IF pieces = <<>> THEN <<>>
        ELSE Settle(AssignByDiarization(DropSystem(SplitByUnits(pieces)), diar))

Other(speaker) == 3 - speaker

AssignByText(pieces) ==
    LET Switches(prev, p) ==
            Gap(prev, p) >= PauseGap \/ Asks(prev.text) \/ IsAcknowledgement(p.text)
        SpeakerOf(done, p) ==
            IF IsAcknowledgement(p.text) /\ done # <<>> THEN Other(Last(done).speaker)
            ELSE IF AgentScore(p.text) > CustomerScore(p.text) THEN 2
            ELSE IF CustomerScore(p.text) > AgentScore(p.text) THEN 1
            ELSE IF done = <<>> THEN 2
            ELSE IF Switches(Last(done), p) THEN Other(Last(done).speaker)
            ELSE Last(done).speaker
        Assign(done, p) == Append(done, [p EXCEPT !.speaker = SpeakerOf(done, p)])
    IN  Settle(FoldLeft(Assign, <<>>, pieces))

\* A mutant: a speaker with no role of its own keeps its number.
LabelByScore(pieces) ==
    LET Of(speaker) == {k \in DOMAIN pieces : pieces[k].speaker = speaker}
        Customer(s) == MapThenSumSet(LAMBDA k : CustomerScore(pieces[k].text), Of(s))
        Agent(s) == MapThenSumSet(LAMBDA k : AgentScore(pieces[k].text), Of(s))
        Label(s) == CASE Agent(s) > Customer(s) -> 2
                      [] Customer(s) > Agent(s) -> 1
                      [] OTHER -> s
    IN  Settle([k \in DOMAIN pieces |-> [pieces[k] EXCEPT !.speaker = Label(@)]])

\* speaker_1 is the customer and speaker_2 the agent
LabelByRole(pieces) ==
    LET kept == Filter(pieces, LAMBDA p : ~IsSystem(p.text))
        Of(speaker) == {k \in DOMAIN kept : kept[k].speaker = speaker}
        Customer(s) == MapThenSumSet(LAMBDA k : CustomerScore(kept[k].text), Of(s))
        Agent(s) == MapThenSumSet(LAMBDA k : AgentScore(kept[k].text), Of(s))
        Label(s) == CASE Agent(s) > Customer(s) -> 2
                      [] Customer(s) > Agent(s) -> 1
                      [] OTHER -> IF s = kept[1].speaker THEN 1 ELSE 2
    IN  Settle([k \in DOMAIN kept |-> [kept[k] EXCEPT !.speaker = Label(@)]])

\* a unit that is long enough and clearly of one role gets that role's label
RefinedSpeaker(p) ==
    LET can == /\ Length(p.text) >= RefineText /\ Duration(p) >= RefineTurn
               /\ ~IsAcknowledgement(p.text)
    IN  IF can /\ AgentScore(p.text) >= CustomerScore(p.text) + RefineMargin THEN 2
        ELSE IF can /\ CustomerScore(p.text) >= AgentScore(p.text) + RefineMargin THEN 1
        ELSE p.speaker

\* A mutant: a turn is refined as a whole.
RefineByTurn(pieces) ==
    Settle([k \in DOMAIN pieces |-> [pieces[k] EXCEPT !.speaker = RefinedSpeaker(pieces[k])]])

RefineByText(pieces) ==
    LET units == SplitByUnits(pieces)
    IN  Settle([k \in DOMAIN units |-> [units[k] EXCEPT !.speaker = RefinedSpeaker(units[k])]])

-----------------------------------------------------------------------------
(* transcribe_and_summarize *)

TextOf(pieces) == FlattenSeq([i \in DOMAIN pieces |-> pieces[i].text])

\* one recording of both channels, as Whisper hears it
Heard == SortBy(FlattenSeq(recording.channels), EarlierSpan)

\* Whisper's words: every phrase has an equal share of its segment, or no time; a word that does
\* not end after it starts is skipped
Words ==
    LET Share(s, k) == s.from + (Duration(s) * k) \div Len(s.text)
        End(s, k) == Share(s, IF s.text[k] \in recording.mute THEN k - 1 ELSE k)
        Word(s, k) == [s EXCEPT !.from = Share(s, k - 1), !.to = End(s, k), !.text = <<s.text[k]>>]
        WordsOf(s) == Filter([k \in DOMAIN s.text |-> Word(s, k)], LAMBDA w : w.to > w.from)
    IN  IF recording.words THEN FlattenSeq([i \in DOMAIN Heard |-> WordsOf(Heard[i])]) ELSE <<>>

Prepare(segments) == DropSystem(SplitByUnits(TrimSystem(ExtractSegments(segments))))

\* the two channels of a stereo file are the two speakers
ChannelTurns ==
    LET Of(c, pieces) == [k \in DOMAIN pieces |-> [pieces[k] EXCEPT !.speaker = c]]
        Turns(c) == Of(c, Prepare(recording.channels[c]))
    IN  IF Len(recording.channels) = 2 THEN Turns(1) \o Turns(2) ELSE <<>>

Init ==
    /\ phase = "received"
    /\ recording \in Recordings
    /\ diarization = <<>> /\ turns = <<>> /\ transcript = <<>>

Goto(from, to) == phase = from /\ phase' = to

TranscribeStereo ==
    /\ Goto("received", "refined")
    /\ ChannelTurns # <<>>
    /\ turns' = Settle(SortTurns(ChannelTurns))
    /\ transcript' = TextOf(turns')
    /\ UNCHANGED <<recording, diarization>>

TranscribeMono ==
    /\ Goto("received", "prepared")
    /\ ChannelTurns = <<>>
    /\ transcript' = TextOf(ExtractSegments(Heard))
    /\ transcript' # <<>>
    /\ turns' = Prepare(Heard)
    /\ UNCHANGED <<recording, diarization>>

\* "transcript is empty"
RaiseEmpty ==
    /\ Goto("received", "failed")
    /\ ChannelTurns = <<>> /\ ExtractSegments(Heard) = <<>>
    /\ UNCHANGED <<recording, diarization, turns, transcript>>

RunDiarization ==
    /\ Goto("prepared", "diarized")
    /\ \E raw \in Diarizations : diarization' = Canonicalize(raw)
    /\ UNCHANGED <<recording, turns, transcript>>

Assign(pieces) ==
    /\ Goto("diarized", "assigned")
    /\ turns' = pieces
    /\ UNCHANGED <<recording, diarization, transcript>>

ByWords == IF diarization = <<>> \/ Words = <<>> THEN <<>> ELSE AssignByWords(Words, diarization)

AssignFromWords == ByWords # <<>> /\ Assign(ByWords)

AssignFromTurns ==
    diarization # <<>> /\ ByWords = <<>> /\ Assign(AssignByDiarization(turns, diarization))

AssignFromText == diarization = <<>> /\ Assign(AssignByText(turns))

NormalizeLabels ==
    /\ Goto("assigned", "normalized")
    /\ turns' = LabelByRole(turns)
    /\ UNCHANGED <<recording, diarization, transcript>>

RefineLabels ==
    /\ Goto("normalized", "refined")
    /\ turns' = RefineByText(turns)
    /\ UNCHANGED <<recording, diarization, transcript>>

SplitTurns ==
    /\ Goto("refined", "done")
    /\ turns' = SortTurns(SplitByUnits(SortTurns(turns)))
    /\ UNCHANGED <<recording, diarization, transcript>>

Next ==
    \/ TranscribeStereo \/ TranscribeMono \/ RaiseEmpty \/ RunDiarization
    \/ AssignFromWords \/ AssignFromTurns \/ AssignFromText
    \/ NormalizeLabels \/ RefineLabels \/ SplitTurns

Spec == Init /\ [][Next]_vars

-----------------------------------------------------------------------------
(* Properties *)

Pieces(speakers) == [speaker : speakers, from : Int, to : Int, text : Texts \ {<<>>}]

\* Every stage passes on pieces of text with a time and, once assigned, a speaker; at the end of
\* the path for one channel the labels are those of the two roles.
TypeOK ==
    /\ phase \in {"received", "prepared", "diarized", "assigned", "normalized", "refined",
                  "done", "failed"}
    /\ IsRecording(recording)
    /\ diarization \in Seq([speaker : Nat \ {0}, from : Nat, to : Nat])
    /\ transcript \in Texts
    /\ turns \in Seq(Pieces(Nat))
    /\ phase = "assigned" => turns \in Seq(Pieces(Nat \ {0}))
    /\ phase \in {"normalized", "refined", "done"} => turns \in Seq(Pieces({1, 2}))

\* The scan over the diarization, which stops early, finds a speaker with the largest overlap
\* among all its segments.
OverlapWins ==
    phase = "diarized" => \A w \in ToSet(Words) :
        LET Whole(s) == OverlapOf(s, w, DOMAIN diarization, diarization)
            speakers == {diarization[k].speaker : k \in DOMAIN diarization}
        IN  (\E s \in speakers : Whole(s) > 0) =>
                \A s \in speakers : Whole(s) <= Whole(SpeakerAt(w, diarization, 0))

\* the units of channel c, in the order the turns have them
Said(c) ==
    LET spoken == ToSet(TextOf(recording.channels[c]))
    IN  Filter(TextOf(turns), LAMBDA u : u \in spoken)

Rising(text) == \A i, j \in DOMAIN text : i < j => text[i].id < text[j].id

\* one channel, or two that both channels' turns are made of
IsMono == Len(recording.channels) = 1

IsStereo == ChannelTurns # <<>>

\* No stage says a phrase twice or swaps two phrases of one channel: cutting at sentence ends,
\* grouping words by speaker, merging, relabelling and sorting keep the order of speech.  Two
\* channels are in order when they are merged; the last cut can put a phrase that smoothing gave
\* to the other speaker behind a later one, because it gets its time from that speaker's turn.
SpokenOrder ==
    IsMono \/ (IsStereo /\ phase = "refined") =>
        \A c \in DOMAIN recording.channels : Rising(Said(c))

\* No piece ends before it starts.  The segments of one channel have positive length and do not
\* overlap, so that a training clip cut at a segment's times holds no other segment's speech.
ClipsAreDisjoint ==
    /\ IsMono \/ IsStereo => \A i \in DOMAIN turns : 0 <= turns[i].from /\ turns[i].from <= turns[i].to
    /\ phase = "done" /\ IsMono =>
        /\ \A i \in DOMAIN turns : turns[i].from < turns[i].to
        /\ \A i, j \in DOMAIN turns : i < j => turns[i].to <= turns[j].from

\* The segments of a channel follow each other without an overlap, their phrases are numbered in
\* the order of speech, and the unit of time is so small that every phrase lasts 128 of them.
ChannelInTurn(segs) ==
    /\ \A i \in DOMAIN segs : segs[i].to - segs[i].from >= 128 * Len(segs[i].text)
    /\ \A i, j \in DOMAIN segs : i < j => segs[i].to <= segs[j].from
    /\ \A i, j \in DOMAIN segs : \A k \in DOMAIN segs[i].text, l \in DOMAIN segs[j].text :
          i < j \/ (i = j /\ k < l) => segs[i].text[k].id < segs[j].text[l].id

\* So it is in every channel, and the phrases of two channels are not the same.
SegmentsInTurn ==
    \A r \in Recordings : \A c \in DOMAIN r.channels :
        /\ ChannelInTurn(r.channels[c])
        /\ \A d \in DOMAIN r.channels \ {c} :
              ToSet(TextOf(r.channels[c])) \cap ToSet(TextOf(r.channels[d])) = {}

\* no two neighbours are left that the merge rule joins
Apart(pieces) ==
    \A i \in 2..Len(pieces) :
        \/ pieces[i - 1].speaker # pieces[i].speaker
        \/ Gap(pieces[i - 1], pieces[i]) > MergeGap
        \/ EndsSentence(pieces[i - 1].text)

\* After each pass no two neighbours are left that the merge rule joins.
MergedMaximally == phase \in {"assigned", "normalized", "refined"} => Apart(turns)
=============================================================================
