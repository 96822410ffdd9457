------------------------------- MODULE MCRepair -------------------------------
(* Repair for TLC: contents of the file in which places are unique, tied,   *)
(* or hidden behind a missing newline, and a diff for each way a check can  *)
(* end.                                                                     *)
EXTENDS Repair

CONSTANTS a, ab, c

LongerTexts == {<<a, ab>>}

Contents == {<<Line(a), Line(c), Line(ab)>>,
             <<Line(a), Line(c), Line(a)>>,
             <<Line(ab), Line(c), LastLine(a)>>}

Keep(line) == [op |-> "keep", line |-> line]
Drop(line) == [op |-> "drop", line |-> line]
Add(line) == [op |-> "add", line |-> line]

OneFile(hunks) == [files |-> 1, binary |-> FALSE, escapes |-> FALSE, hunks |-> hunks]
Middle == <<Keep(Line(c)), Add(Line(ab))>>
Good == OneFile(<<Middle>>)

Answers ==
  {Good,
   OneFile(<<<<Drop(Line(a)), Add(Line(c))>>>>),              \* one place, two, or none
   OneFile(<<<<Drop(LastLine(a)), Add(LastLine(c))>>>>),      \* a block that lacks its newline
   OneFile(<<<<Drop(Line(a))>>, <<Drop(Line(c))>>>>),         \* two hunks
   OneFile(<<<<Keep(Line(a)), Drop(Line(c))>>, Middle>>),     \* ... that overlap
   OneFile(<<Middle, <<Drop(Line(a))>>>>),                    \* ... in the wrong order, for some
   OneFile(<<<<Add(Line(a))>>>>),                             \* nothing to anchor on
   OneFile(<<<<Keep(Line(c))>>>>),                            \* nothing changed
   [Good EXCEPT !.files = 2],
   [Good EXCEPT !.binary = TRUE],
   [Good EXCEPT !.escapes = TRUE]}
=============================================================================
