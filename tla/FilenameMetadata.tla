-------------------------- MODULE FilenameMetadata --------------------------
(***************************************************************************)
(* app/filename_metadata.py: what the name of a collected recording says.  *)
(* A name is the sequence of its parts between underscores; a part is the  *)
(* number its digits write, or Word when it is not all digits, or Blank.   *)
(***************************************************************************)
EXTENDS Integers, Sequences

Word == -1
Blank == -2
NoMetadata == [caller |-> Blank, extension |-> Blank, started |-> <<>>, ended |-> <<>>]

IsLeapYear(y) == y % 4 = 0 /\ (y % 100 # 0 \/ y % 400 = 0)

DaysIn(y, month) ==
    CASE month = 2 -> IF IsLeapYear(y) THEN 29 ELSE 28
      [] month \in {4, 6, 9, 11} -> 30
      [] OTHER -> 31

\* what the constructor of datetime accepts; a moment is <<year, month, day, hour, minute, second>>
IsMoment(t) ==
    /\ t \in [1 .. 6 -> Int]
    /\ t[1] \in 1 .. 9999 /\ t[2] \in 1 .. 12 /\ t[3] \in 1 .. DaysIn(t[1], t[2])
    /\ t[4] \in 0 .. 23 /\ t[5] \in 0 .. 59 /\ t[6] \in 0 .. 59

Before(s, t) == \E i \in 1 .. 6 : s[i] < t[i] /\ \A j \in 1 .. (i - 1) : s[j] = t[j]

\* A mutant: the end keeps the year of the start.
CallEndSameYear(start, end) == end

\* a call that ends before it starts ends in the next year
CallEnd(start, end) == IF Before(end, start) THEN [end EXCEPT ![1] = @ + 1] ELSE end

\* a year, and month to second from the five parts that begin with the given one
Moment(year, parts, first) == [i \in 1 .. 6 |-> IF i = 1 THEN year ELSE parts[first + i - 2]]

NonEmpty(name) == SelectSeq(name, LAMBDA p : p # Blank)

ParseFilename(name) ==
    LET parts == NonEmpty(name)
        year == IF parts[3] < 100 THEN 2000 + parts[3] ELSE parts[3]
        start == Moment(year, parts, 4)
        end == Moment(year, parts, 9)
        ended == CallEnd(start, end)
        Matches == /\ Len(parts) = 13
                   /\ \A i \in 3 .. 13 : parts[i] # Word
                   /\ IsMoment(start) /\ IsMoment(end) /\ IsMoment(ended)
    IN  IF Matches
        THEN [caller |-> parts[1], extension |-> parts[2], started |-> start, ended |-> ended]
        ELSE NoMetadata
=============================================================================
