---------------------------- MODULE MCCallUpload ----------------------------
(***************************************************************************)
(* Uploads for TLC.                                                        *)
(***************************************************************************)
EXTENDS CallUpload, TLC

CONSTANTS OwnKey, OtherKey

Padded(bytes) == bytes \o [i \in 1 .. PadSize(Len(bytes)) |-> 0]

Sealed(bytes) ==
    [magic |-> TRUE, cipher |-> "aria256", compressed |-> FALSE, length |-> Len(bytes),
     bytes |-> Padded(bytes), key |-> OwnKey, digest |-> bytes]

Recorded == <<1, 0, 1>>

\* plain: empty, good, too large; encrypted: padded, in whole blocks, empty; under another key,
\* altered, cut in the blocks and before the digest, another cipher, compressed
MCFiles ==
    {PlainFile(<<>>), PlainFile(Recorded), PlainFile(<<0, 0, 0, 0, 0, 0>>),
     Sealed(Recorded), Sealed(<<0, 1>>), Sealed(<<>>),
     [Sealed(Recorded) EXCEPT !.key = OtherKey],
     [Sealed(Recorded) EXCEPT !.bytes[2] = 1],
     [Sealed(Recorded) EXCEPT !.bytes = <<1, 0>>],
     [Sealed(<<0, 1>>) EXCEPT !.digest = NoDigest],
     [Sealed(Recorded) EXCEPT !.cipher = "aes256"],
     [Sealed(Recorded) EXCEPT !.compressed = TRUE]}

Input(file, suffix, name, form) ==
    [file |-> file, suffix |-> suffix, name |-> name, form |-> form]

Named(year, start, end) == <<Word, 7, year>> \o start \o end
Morning == <<1, 1, 0, 0, 5>>
Night == <<12, 31, 23, 59, 50>>
LeapDay == <<2, 29, 12, 0, 0>>

\* in order; over New Year, also from and to 29 February and in the last year; no such date, no
\* such time; a part missing or none
MCNames ==
    {Named(2028, Morning, LeapDay), Named(2025, Night, Morning), Named(28, LeapDay, Morning),
     Named(2028, Night, LeapDay), Named(9999, Night, Morning), Named(2026, Morning, LeapDay),
     Named(2026, <<4, 31, 0, 0, 0>>, Night), Named(2026, Morning, <<1, 2, 24, 0, 0>>),
     <<Word, 7, 2026, 1>>, <<Word, Blank, 7, 2026>> \o Morning \o Night}

\* beside the name over New Year: one time that is filled in
MCForms ==
    {[NoForm EXCEPT !.started = <<2026>> \o Morning], [NoForm EXCEPT !.ended = <<2026>> \o Morning]}

Filled == [caller |-> 1, extension |-> 2, callee |-> 3,
           started |-> <<2026>> \o Morning, ended |-> <<2026>> \o Night]

\* a container may come under the suffix its recording is deciphered to
AllInputs ==
    {Input(f, IF f.magic THEN "bin" ELSE "wav", <<Word>>, NoForm) : f \in MCFiles}
    \union {Input(Sealed(bytes), "wav", <<Word>>, NoForm) : bytes \in {Recorded, <<0, 1>>}}
    \union {Input(PlainFile(Recorded), "wav", n, NoForm) : n \in MCNames}
    \union {Input(PlainFile(Recorded), "wav", Named(2025, Night, Morning), form) : form \in MCForms}
    \union {Input(PlainFile(Recorded), "wav", <<Word>>, Filled)}

\* every input as one of the uploads, next to another recording, enciphered
MCInputs ==
    LET first == CHOOSE u \in Upload : TRUE
    IN  [u \in Upload |->
            IF u = first THEN AllInputs ELSE {Input(Sealed(<<0, 1>>), "bin", <<Word>>, NoForm)}]
=============================================================================
