-------------------------- MODULE RepositoryTools --------------------------
(***************************************************************************)
(* RepositoryTools (tools/repository.py) on the text of one file: which    *)
(* requests are refused, what read_file shows and what replace_text makes  *)
(* of a text.  A text is a sequence of pieces, two of which end a line;    *)
(* its length stands for its bytes.                                        *)
(***************************************************************************)
EXTENDS Integers, Sequences, FiniteSetsExt, SequencesExt

CONSTANTS
    Piece,          \* what texts are made of
    Name,           \* paths the model asks for
    File,           \* those that _resolve accepts
    Protected,      \* files below protected_paths
    Missing,        \* no such file
    MaxFile,        \* max_file_bytes
    MaxLines,       \* max_read_lines
    MaxWrite        \* max_write_bytes

LF == "lf"
CRLF == "crlf"

ASSUME ToolsAssumption ==
    /\ File \subseteq Name
    /\ Protected \subseteq File
    /\ {MaxFile, MaxLines, MaxWrite} \subseteq Nat \ {0}
    /\ {LF, CRLF} \subseteq Piece
    /\ Missing \notin Seq(Piece)

(***************************************************************************)
(* read_text translates every line ending; write_text leaves them alone.   *)
(***************************************************************************)
ReadText(text) ==
    [i \in DOMAIN text |-> IF text[i] = CRLF THEN LF ELSE text[i]]

-----------------------------------------------------------------------------
(***************************************************************************)
(* read_file: splitlines, and the lines from start to end of them.  The    *)
(* last line need not be ended.                                            *)
(***************************************************************************)
LineOf(text, i) == 1 + Cardinality({j \in 1..(i - 1) : text[j] = LF})

LineCount(text) == IF text = << >> THEN 0 ELSE LineOf(text, Len(text))

RequestedEnd(start, end) ==
    IF end = Missing THEN start + MaxLines - 1 ELSE end

(***************************************************************************)
(* Mutated form: a page ends before the line asked for.                    *)
(***************************************************************************)
BeforeEnd(text, start, end, i) == LineOf(text, i) \in start..(end - 1)

InRange(text, start, end, i) == LineOf(text, i) \in start..end

Page(text, start, end) ==
    LET shown == {i \in DOMAIN text : InRange(text, start, end, i)}
    IN  IF shown = {} THEN << >> ELSE SubSeq(text, Min(shown), Max(shown))

RangeRefused(start, end) ==
    \/ start < 1
    \/ RequestedEnd(start, end) < start
    \/ RequestedEnd(start, end) - start + 1 > MaxLines

Unreadable(name, content) ==
    \/ name \notin File
    \/ content = Missing
    \/ Len(content) > MaxFile

ReadRefused(name, content, start, end) ==
    \/ RangeRefused(start, end)
    \/ Unreadable(name, content)
    \/ /\ content # << >>
       /\ start > LineCount(ReadText(content))

ReadFile(content, start, end) ==
    Page(ReadText(content), start, RequestedEnd(start, end))

-----------------------------------------------------------------------------
(***************************************************************************)
(* _resolve and _ensure_writable, then write_file's own conditions.        *)
(***************************************************************************)
Unwritable(name) == name \notin File \ Protected

WriteRefused(name, content, text, overwrite) ==
    \/ Unwritable(name)
    \/ content # Missing /\ ~overwrite
    \/ Len(text) > MaxWrite

-----------------------------------------------------------------------------
(***************************************************************************)
(* str.count and str.replace: occurrences are found from the left and do   *)
(* not overlap.  StartsFrom lists where they start, from each position on; *)
(* ReplaceFrom is the text from a position on with so many replaced.       *)
(***************************************************************************)
OccursAt(text, old, i) ==
    /\ i + Len(old) - 1 <= Len(text)
    /\ SubSeq(text, i, i + Len(old) - 1) = old

StartsFrom(text, old) ==
    LET from[i \in 1..(Len(text) + 1)] ==
            IF i + Len(old) - 1 > Len(text) THEN << >>
            ELSE IF OccursAt(text, old, i) THEN <<i>> \o from[i + Len(old)]
            ELSE from[i + 1]
    IN  from

Count(text, old) == Len(StartsFrom(text, old)[1])

ReplaceFrom(text, old, new, count) ==
    LET from[i \in 1..(Len(text) + 1)] ==
            [left \in 0..count |->
                IF left = 0 \/ i + Len(old) - 1 > Len(text)
                THEN SubSeq(text, i, Len(text))
                ELSE IF OccursAt(text, old, i)
                THEN new \o from[i + Len(old)][left - 1]
                ELSE <<text[i]>> \o from[i + 1][left]]
    IN  from

Replace(text, old, new, count) == ReplaceFrom(text, old, new, count)[1][count]

(***************************************************************************)
(* The number of occurrences must be the expected one.  Mutated form: it   *)
(* may be greater.                                                         *)
(***************************************************************************)
EnoughOccurrences(text, old, expected) == Count(text, old) >= expected

ExpectedOccurrences(text, old, expected) == Count(text, old) = expected

ReplaceAccepted(name, content, old, new, expected) ==
    /\ old # << >> /\ expected >= 1
    /\ ~Unwritable(name)
    /\ ~Unreadable(name, content)
    /\ ExpectedOccurrences(ReadText(content), old, expected)
    /\ Len(Replace(ReadText(content), old, new, expected)) <= MaxWrite

-----------------------------------------------------------------------------
(***************************************************************************)
(* Reference: text with the occurrences of old that start in S put as new; *)
(* a set of occurrences of which no two overlap.                           *)
(***************************************************************************)
Substituted(text, old, new, S) ==
    FlattenSeq([i \in DOMAIN text |->
        IF i \in S THEN new
        ELSE IF \E s \in S : i \in s..(s + Len(old) - 1) THEN << >>
        ELSE <<text[i]>>])

DisjointOccurrences(text, old) ==
    {S \in SUBSET DOMAIN text :
        /\ \A s \in S : OccursAt(text, old, s)
        /\ \A s, t \in S : s < t => s + Len(old) <= t}

Pages(content) ==
    LET lines == LineCount(ReadText(content))
        n == (lines + MaxLines - 1) \div MaxLines
    IN  [k \in 1..n |-> ReadFile(content, (k - 1) * MaxLines + 1, Missing)]
=============================================================================
