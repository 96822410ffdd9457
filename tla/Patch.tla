-------------------------------- MODULE Patch ---------------------------------
(***************************************************************************)
(* commit.ApplyDiff: every hunk of a one-file diff is pinned to the only    *)
(* place its old side occurs at, whatever its header says, and the strict   *)
(* applier of the gitdiff library does the rest.                            *)
(*                                                                         *)
(* A file is a sequence of lines, a line a text that ends with a newline or *)
(* not; a hunk is a sequence of lines each kept, dropped or added.          *)
(***************************************************************************)
EXTENDS Integers, SequencesExt

CONSTANTS
  Texts,   \* what a line may say
  Begins   \* pairs <<t, u>> of texts such that t is a proper prefix of u

ASSUME TextAssumption == Begins \subseteq Texts \X Texts

Line(text) == [text |-> text, nl |-> TRUE]
LastLine(text) == [text |-> text, nl |-> FALSE]

(* The file's lines a hunk replaces, and the lines it puts there. *)
OldSide(hunk) ==
  FlattenSeq([i \in DOMAIN hunk |-> IF hunk[i].op = "add" THEN <<>> ELSE <<hunk[i].line>>])
NewSide(hunk) ==
  FlattenSeq([i \in DOMAIN hunk |-> IF hunk[i].op = "drop" THEN <<>> ELSE <<hunk[i].line>>])

-----------------------------------------------------------------------------
(* The bytes of a block's line stand at the beginning of a line of the      *)
(* file.  A block that stops before the newline also matches a longer line. *)
StandsAt(line, l) ==
  \/ line = l
  \/ ~line.nl /\ (line.text = l.text \/ <<line.text, l.text>> \in Begins)

lineMatches(content, block) ==
  {s \in 1 .. Len(content) - Len(block) + 1 :
     \A i \in DOMAIN block : StandsAt(block[i], content[s + i - 1])}

(* reanchorFragments: the one match of each hunk's old side, in the order   *)
(* of the hunks, or no anchors at all.                                      *)
FirstAnchors(content, hunks) ==
  {starts \in [DOMAIN hunks -> 1 .. Len(content)] :
     \A i \in DOMAIN hunks :
       LET places == lineMatches(content, OldSide(hunks[i]))
       IN  /\ OldSide(hunks[i]) # <<>>
           /\ starts[i] \in places
           /\ \A p \in places : starts[i] =< p
           /\ i > 1 => starts[i - 1] < starts[i]}
reanchorFragments(content, hunks) ==
  {starts \in [DOMAIN hunks -> 1 .. Len(content)] :
     \A i \in DOMAIN hunks :
       /\ OldSide(hunks[i]) # <<>>
       /\ lineMatches(content, OldSide(hunks[i])) = {starts[i]}
       /\ i > 1 => starts[i - 1] < starts[i]}

(* gitdiff.Apply: hunks must not overlap, and their old sides are compared  *)
(* with the file line by line.                                              *)
After(hunks, starts, i) == IF i = 0 THEN 1 ELSE starts[i] + Len(OldSide(hunks[i]))

Agrees(content, hunks, starts) ==
  \A i \in DOMAIN hunks :
    /\ After(hunks, starts, i - 1) =< starts[i]
    /\ SubSeq(content, starts[i], After(hunks, starts, i) - 1) = OldSide(hunks[i])

Rewrite(content, hunks, starts) ==
  FlattenSeq([i \in DOMAIN hunks |->
                SubSeq(content, After(hunks, starts, i - 1), starts[i] - 1) \o NewSide(hunks[i])])
  \o SubSeq(content, After(hunks, starts, Len(hunks)), Len(content))

(* What ApplyDiff returns: one patched file, or an error.                   *)
ApplyDiff(content, diff) ==
  {Rewrite(content, diff.hunks, starts) :
     starts \in {a \in reanchorFragments(content, diff.hunks) :
                   diff.files = 1 /\ Agrees(content, diff.hunks, a)}}

-----------------------------------------------------------------------------
(* What a patched file is, said without positions in the code's terms: the  *)
(* file falls into kept pieces with the hunks' old sides between them, each *)
(* old side stands there and nowhere else, and the patched file has the new *)
(* sides in their stead.                                                    *)
Weave(kept, sides) ==
  FlattenSeq([i \in DOMAIN kept |-> IF i \in DOMAIN sides THEN kept[i] \o sides[i] ELSE kept[i]])

Occurrences(content, lines) ==
  {s \in 1 .. Len(content) - Len(lines) + 1 : SubSeq(content, s, s + Len(lines) - 1) = lines}

ChangedAtTheOnlyPlace(content, hunks, patched) ==
  /\ \A i \in DOMAIN hunks : \E s \in 1 .. Len(content) : Occurrences(content, OldSide(hunks[i])) = {s}
  /\ \E kept \in [1 .. Len(hunks) + 1 -> SubSeqs(content)] :
       /\ content = Weave(kept, [i \in DOMAIN hunks |-> OldSide(hunks[i])])
       /\ patched = Weave(kept, [i \in DOMAIN hunks |-> NewSide(hunks[i])])
=============================================================================
