----------------------------- MODULE RepairProofs -----------------------------
(* Proofs about Repair for any contents, diffs, edits and iterations: what  *)
(* a prompt shows, what an approved patch is, and what the ledger tells.    *)
EXTENDS Repair, SequenceTheorems, WellFoundedInduction, TLAPS

(* Induction over a set of naturals.                                        *)
LEMMA Induct ==
  ASSUME NEW P, 0 \in P, \A n \in Nat : n \in P => n + 1 \in P
  PROVE  \A n \in Nat : n \in P
<1> DEFINE T == Nat \ P
<1> SUFFICES ASSUME T # {} PROVE FALSE
  OBVIOUS
<1>1. T \subseteq Nat
  OBVIOUS
<1> HIDE DEF T
<1>2. PICK m \in T : \A y \in T : ~ (<<y, m>> \in OpToRel(<, Nat))
  BY ONLY <1>1, T # {}, WFMin, NatLessThanWellFounded
<1>3. \A y \in T : ~ (y < m)
  BY <1>1, <1>2 DEF OpToRel
<1>4. m \in Nat /\ m # 0
  BY <1>1 DEF T
<1>5. m - 1 \in Nat /\ m - 1 \notin T
  BY <1>3, <1>4
<1> QED
  BY <1>4, <1>5 DEF T

(* f gives what the first i of the sequences ss come to in a row.           *)
Joins(f, ss, n) == f = [i \in 1 .. n |-> IF i = 1 THEN ss[i] ELSE f[i - 1] \o ss[i]]

(* Each element of the row from the one before it.                          *)
LEMMA JoinsAt ==
  ASSUME NEW ss, NEW n, NEW f, Joins(f, ss, n), NEW i \in 1 .. n
  PROVE  f[i] = IF i = 1 THEN ss[i] ELSE f[i - 1] \o ss[i]
<1> DEFINE g == [j \in 1 .. n |-> IF j = 1 THEN ss[j] ELSE f[j - 1] \o ss[j]]
<1>1. f = g
  BY DEF Joins
<1>2. g[i] = IF i = 1 THEN ss[i] ELSE f[i - 1] \o ss[i]
  OBVIOUS
<1> HIDE DEF g
<1> QED
  BY <1>1, <1>2

(* There is such a row of any length.                                       *)
LEMMA JoinsExist ==
  ASSUME NEW ss
  PROVE  \A n \in Nat : \E f : Joins(f, ss, n)
<1> DEFINE P == {n \in Nat : \E f : Joins(f, ss, n)}
<1>1. 0 \in P
  <2>1. \E f : f = [i \in 1 .. 0 |-> {}]
    OBVIOUS
  <2>2. PICK f : f = [i \in 1 .. 0 |-> {}]
    BY <2>1
  <2>3. Joins(f, ss, 0)
    BY <2>2 DEF Joins
  <2> QED
    BY <2>3
<1>2. ASSUME NEW n \in Nat, n \in P PROVE n + 1 \in P
  <2>1. PICK f : Joins(f, ss, n)
    BY <1>2
  <2> DEFINE g == [i \in 1 .. n + 1 |-> IF i = 1 THEN ss[i] ELSE f[i - 1] \o ss[i]]
  <2>2. \A i \in 1 .. n : g[i] = f[i]
    BY <2>1, JoinsAt
  <2>3. \A i \in 1 .. n + 1 : i # 1 => i - 1 \in 1 .. n
    OBVIOUS
  <2>4. \A i \in 1 .. n + 1 : i # 1 => g[i - 1] = f[i - 1]
    BY <2>2, <2>3
  <2>5. g = [i \in 1 .. n + 1 |-> IF i = 1 THEN ss[i] ELSE g[i - 1] \o ss[i]]
    BY <2>4
  <2>6. Joins(g, ss, n + 1)
    BY <2>5 DEF Joins
  <2> QED
    BY <2>6
<1> HIDE DEF P
<1>3. \A n \in Nat : n \in P
  BY <1>1, <1>2, Induct
<1> QED
  BY <1>3 DEF P

(* ... and only one.                                                        *)
LEMMA JoinsAgree ==
  ASSUME NEW ss, NEW N \in Nat, NEW f, NEW g, Joins(f, ss, N), Joins(g, ss, N)
  PROVE  f = g
<1> DEFINE P == {n \in Nat : n \in 1 .. N => f[n] = g[n]}
<1>1. 0 \in P
  OBVIOUS
<1>2. ASSUME NEW n \in Nat, n \in P PROVE n + 1 \in P
  <2> SUFFICES ASSUME n + 1 \in 1 .. N PROVE f[n + 1] = g[n + 1]
    OBVIOUS
  <2>1. /\ f[n + 1] = IF n = 0 THEN ss[n + 1] ELSE f[n] \o ss[n + 1]
        /\ g[n + 1] = IF n = 0 THEN ss[n + 1] ELSE g[n] \o ss[n + 1]
    <3>1. (n + 1) - 1 = n /\ (n + 1 = 1 <=> n = 0)
      OBVIOUS
    <3> QED
      BY <3>1, JoinsAt
  <2>2. n # 0 => n \in 1 .. N
    OBVIOUS
  <2> QED
    BY <1>2, <2>1, <2>2
<1> HIDE DEF P
<1>3. \A n \in Nat : n \in P
  BY <1>1, <1>2, Induct
<1>4. \A n \in 1 .. N : f[n] = g[n]
  BY <1>3 DEF P
<1> QED
  BY <1>4 DEF Joins

(* FlattenSeq returns the last of any such row.                             *)
LEMMA FlattenIsLast ==
  ASSUME NEW ss, NEW N \in Nat, Len(ss) = N, N > 0, NEW f, Joins(f, ss, N)
  PROVE  FlattenSeq(ss) = f[N]
<1> DEFINE c == CHOOSE g : Joins(g, ss, N)
<1>1. Joins(c, ss, N)
  OBVIOUS
<1>2. c = f
  BY <1>1, JoinsAgree
<1>3. FlattenSeq(ss) = c[N]
  BY DEF FlattenSeq, Joins
<1> QED
  BY <1>2, <1>3

(* A sequence one longer that agrees with s on s is s with its last element *)
(* appended.                                                                *)
LEMMA AppendedAtEnd ==
  ASSUME NEW S, NEW s \in Seq(S), NEW e \in S, NEW t \in Seq(S), NEW n \in Nat,
         Len(s) = n, Len(t) = n + 1, t[n + 1] = e, \A k \in 1 .. n : t[k] = s[k]
  PROVE  t = Append(s, e)
OBVIOUS

(* Nothing in a row is nothing.                                             *)
LEMMA FlattenEmpty == ASSUME NEW ss, ss = <<>> PROVE FlattenSeq(ss) = <<>>
BY DEF FlattenSeq

(* A row that goes on with one more sequence.                               *)
LEMMA FlattenAppend ==
  ASSUME NEW S, NEW ss \in Seq(Seq(S)), NEW s \in Seq(S)
  PROVE  FlattenSeq(Append(ss, s)) = FlattenSeq(ss) \o s
<1> DEFINE N == Len(ss)
           tt == Append(ss, s)
<1>1. N \in Nat /\ Len(tt) = N + 1 /\ tt[N + 1] = s /\ \A i \in 1 .. N : tt[i] = ss[i]
  OBVIOUS
<1> HIDE DEF tt
<1>2. CASE N = 0
  <2>1. ss = <<>> /\ FlattenSeq(ss) = <<>>
    BY <1>2, FlattenEmpty
  <2> DEFINE f == [i \in 1 .. 1 |-> s]
  <2>2. f = [i \in 1 .. 1 |-> IF i = 1 THEN tt[i] ELSE f[i - 1] \o tt[i]]
    BY <1>1, <1>2
  <2>3. f[1] = s
    OBVIOUS
  <2> HIDE DEF f
  <2>4. Joins(f, tt, 1) /\ Len(tt) = 1
    BY <1>1, <1>2, <2>2 DEF Joins
  <2>5. FlattenSeq(tt) = s
    <3>1. 1 \in Nat /\ 1 > 0
      OBVIOUS
    <3>2. FlattenSeq(tt) = f[1]
      BY <3>1, <2>4, FlattenIsLast
    <3> QED
      BY <2>3, <3>2
  <2> QED
    BY <2>1, <2>5 DEF tt
<1>3. CASE N > 0
  <2>1. PICK f : Joins(f, ss, N)
    BY <1>1, JoinsExist
  <2>2. FlattenSeq(ss) = f[N]
    BY <1>1, <1>3, <2>1, FlattenIsLast
  <2> DEFINE g == [i \in 1 .. N + 1 |-> IF i = N + 1 THEN f[N] \o s ELSE f[i]]
  <2>3. ASSUME NEW i \in 1 .. N + 1
        PROVE  g[i] = IF i = 1 THEN tt[i] ELSE g[i - 1] \o tt[i]
    <3>1. CASE i = N + 1
      <4>1. /\ N + 1 \in 1 .. N + 1 /\ N \in 1 .. N + 1 /\ N + 1 # 1
            /\ (N + 1) - 1 = N /\ N # N + 1
        BY <1>1, <1>3
      <4>2. g[N + 1] = f[N] \o s /\ g[N] = f[N]
        BY <4>1
      <4> HIDE DEF g
      <4> QED
        BY <1>1, <3>1, <4>1, <4>2
    <3>2. CASE i \in 1 .. N
      <4>1. f[i] = IF i = 1 THEN ss[i] ELSE f[i - 1] \o ss[i]
        BY <2>1, <3>2, JoinsAt
      <4>2. g[i] = f[i] /\ (i # 1 => g[i - 1] = f[i - 1])
        BY <1>1, <3>2
      <4> QED
        BY <1>1, <3>2, <4>1, <4>2
    <3> QED
      BY <1>1, <3>1, <3>2
  <2>4. Joins(g, tt, N + 1)
    BY <2>3 DEF Joins
  <2>5. g[N + 1] = f[N] \o s
    BY <1>1
  <2> HIDE DEF g
  <2>6. FlattenSeq(tt) = g[N + 1]
    BY <1>1, <2>4, FlattenIsLast
  <2> QED
    BY <2>2, <2>5, <2>6 DEF tt
<1> QED
  BY <1>1, <1>2, <1>3

(* A row of sequences over S is a sequence over S.                          *)
LEMMA FlattenType ==
  ASSUME NEW S, NEW ss \in Seq(Seq(S))
  PROVE  FlattenSeq(ss) \in Seq(S)
<1>1. CASE Len(ss) = 0
  <2>1. ss = <<>>
    BY <1>1
  <2>2. FlattenSeq(ss) = <<>>
    BY <2>1, FlattenEmpty
  <2> QED
    BY <2>2
<1>2. CASE Len(ss) # 0
  <2>1. PICK f : Joins(f, ss, Len(ss))
    <3>1. Len(ss) \in Nat
      OBVIOUS
    <3> QED
      BY <3>1, JoinsExist
  <2> DEFINE P == {n \in Nat : n \in 1 .. Len(ss) => f[n] \in Seq(S)}
  <2>2. 0 \in P
    OBVIOUS
  <2>3. ASSUME NEW n \in Nat, n \in P PROVE n + 1 \in P
    <3> SUFFICES ASSUME n + 1 \in 1 .. Len(ss) PROVE f[n + 1] \in Seq(S)
      OBVIOUS
    <3>1. (n + 1) - 1 = n /\ (n + 1 = 1 <=> n = 0) /\ (n # 0 => n \in 1 .. Len(ss))
      OBVIOUS
    <3>2. f[n + 1] = IF n = 0 THEN ss[n + 1] ELSE f[n] \o ss[n + 1]
      BY <2>1, <3>1, JoinsAt
    <3> QED
      BY <2>3, <3>1, <3>2
  <2> HIDE DEF P
  <2>4. \A n \in Nat : n \in P
    BY <2>2, <2>3, Induct
  <2>5. f[Len(ss)] \in Seq(S)
    BY <1>2, <2>4 DEF P
  <2> QED
    BY <1>2, <2>1, <2>5, FlattenIsLast
<1> QED
  BY <1>1, <1>2

(* The contents between the cuts of a sequence come to the sequence.        *)
LEMMA CutAndJoined ==
  ASSUME NEW S, NEW s \in Seq(S), NEW n \in Nat, n > 0, NEW cut \in [0 .. n -> 0 .. Len(s)],
         cut[0] = 0, cut[n] = Len(s), \A i \in 1 .. n : cut[i - 1] =< cut[i],
         NEW ss, Len(ss) = n, \A i \in 1 .. n : ss[i] = SubSeq(s, cut[i - 1] + 1, cut[i])
  PROVE  FlattenSeq(ss) = s
<1> DEFINE f == [i \in 1 .. n |-> SubSeq(s, 1, cut[i])]
<1>1. ASSUME NEW i \in 1 .. n
      PROVE  f[i] = IF i = 1 THEN ss[i] ELSE f[i - 1] \o ss[i]
  <2>1. CASE i = 1
    <3>1. 1 \in 1 .. n /\ 1 - 1 = 0 /\ 0 + 1 = 1
      OBVIOUS
    <3>2. ss[1] = SubSeq(s, cut[1 - 1] + 1, cut[1])
      BY <3>1
    <3>3. cut[1 - 1] + 1 = 1
      BY <3>1
    <3>4. ss[1] = SubSeq(s, 1, cut[1])
      BY <3>2, <3>3
    <3> QED
      BY <2>1, <3>1, <3>4
  <2>2. CASE i # 1
    <3>1. i - 1 \in 1 .. n /\ i - 1 \in 0 .. n /\ i \in 0 .. n
      BY <2>2
    <3>2. cut[i - 1] \in 0 .. Len(s) /\ cut[i] \in cut[i - 1] .. Len(s) /\ Len(s) \in Nat
      <4>1. Len(s) \in Nat
        OBVIOUS
      <4>2. cut[i - 1] \in 0 .. Len(s) /\ cut[i] \in 0 .. Len(s)
        BY <3>1
      <4>3. cut[i - 1] =< cut[i]
        OBVIOUS
      <4> HIDE DEF f
      <4> QED
        BY <4>1, <4>2, <4>3
    <3>3. 1 \in 1 .. Len(s) + 1 /\ cut[i - 1] \in 1 - 1 .. Len(s)
      BY <3>2
    <3>4. SubSeq(s, 1, cut[i - 1]) \o SubSeq(s, cut[i - 1] + 1, cut[i]) = SubSeq(s, 1, cut[i])
      BY <3>2, <3>3, ConcatAdjacentSubSeq
    <3> QED
      BY <2>2, <3>1, <3>4
  <2> QED
    BY <2>1, <2>2
<1>2. Joins(f, ss, n)
  BY <1>1 DEF Joins
<1>3. f[n] = s
  <2>1. n \in 1 .. n
    OBVIOUS
  <2>2. SubSeq(s, 1, Len(s)) = s
    OBVIOUS
  <2> QED
    BY <2>1, <2>2
<1> HIDE DEF f
<1> QED
  BY <1>2, <1>3, FlattenIsLast

-----------------------------------------------------------------------------
(* The two sides of a hunk over S are sequences over S.                     *)
LEMMA SidesType ==
  ASSUME NEW S, NEW hunk \in Seq([op : {"keep", "drop", "add"}, line : S])
  PROVE  OldSide(hunk) \in Seq(S) /\ NewSide(hunk) \in Seq(S)
<1> DEFINE old == [i \in DOMAIN hunk |-> IF hunk[i].op = "add" THEN <<>> ELSE <<hunk[i].line>>]
           new == [i \in DOMAIN hunk |-> IF hunk[i].op = "drop" THEN <<>> ELSE <<hunk[i].line>>]
<1>1. old \in Seq(Seq(S)) /\ new \in Seq(Seq(S))
  <2>1. \A i \in DOMAIN hunk : hunk[i].line \in S
    <3> DEFINE T == [op : {"keep", "drop", "add"}, line : S]
    <3>1. hunk \in Seq(T)
      OBVIOUS
    <3>2. \A e \in T : e.line \in S
      OBVIOUS
    <3> HIDE DEF T
    <3>3. \A i \in DOMAIN hunk : hunk[i] \in T
      BY <3>1
    <3> QED
      BY <3>2, <3>3
  <2>2. \A e \in S : <<e>> \in Seq(S)
    OBVIOUS
  <2>3. <<>> \in Seq(S)
    OBVIOUS
  <2>4. /\ \A i \in DOMAIN hunk : old[i] \in Seq(S)
        /\ \A i \in DOMAIN hunk : new[i] \in Seq(S)
    BY <2>1, <2>2, <2>3
  <2>5. DOMAIN hunk = 1 .. Len(hunk) /\ Len(hunk) \in Nat
    OBVIOUS
  <2> QED
    BY <2>4, <2>5
<1> QED
  BY <1>1, FlattenType DEF OldSide, NewSide

(* ApplyDiff, commit/coordinator.go:114-183: where the anchors are the only *)
(* matches of the old sides and agree with the content, the rewritten       *)
(* content is the old one with its old sides, each in the only place it     *)
(* occurs, replaced by the new ones, however many hunks there are.          *)
LEMMA RewriteInPlace ==
  ASSUME NEW S, NEW content \in Seq(S),
         NEW hunks \in Seq(Seq([op : {"keep", "drop", "add"}, line : S])),
         NEW starts \in reanchorFragments(content, hunks), Agrees(content, hunks, starts)
  PROVE  ChangedAtTheOnlyPlace(content, hunks, Rewrite(content, hunks, starts))
<1> DEFINE m == Len(hunks)
           L == Len(content)
           Old(i) == OldSide(hunks[i])
           New(i) == NewSide(hunks[i])
           A(i) == After(hunks, starts, i)
           tail == SubSeq(content, A(m), L)
           kept == [i \in 1 .. m + 1 |->
                      IF i \in 1 .. m THEN SubSeq(content, A(i - 1), starts[i] - 1) ELSE tail]
<1>1. m \in Nat /\ L \in Nat /\ DOMAIN hunks = 1 .. m
  OBVIOUS
<1>2. ASSUME NEW i \in 1 .. m
      PROVE  Old(i) \in Seq(S) /\ New(i) \in Seq(S) /\ Len(Old(i)) \in Nat
  <2>1. hunks[i] \in Seq([op : {"keep", "drop", "add"}, line : S])
    BY <1>1
  <2>2. Old(i) \in Seq(S) /\ New(i) \in Seq(S)
    BY <2>1, SidesType
  <2> HIDE DEF Old
  <2> QED
    BY <2>2
<1>3. ASSUME NEW i \in 1 .. m
      PROVE  /\ starts[i] \in 1 .. L
             /\ lineMatches(content, Old(i)) = {starts[i]}
             /\ starts[i] + Len(Old(i)) =< L + 1
             /\ A(i) = starts[i] + Len(Old(i))
             /\ A(i - 1) =< starts[i]
             /\ SubSeq(content, starts[i], A(i) - 1) = Old(i)
  <2>1. starts[i] \in 1 .. L /\ lineMatches(content, Old(i)) = {starts[i]}
    BY <1>1 DEF reanchorFragments
  <2>2. starts[i] \in 1 .. L - Len(Old(i)) + 1
    BY <2>1 DEF lineMatches
  <2>3. starts[i] + Len(Old(i)) =< L + 1
    BY <1>1, <1>2, <2>2
  <2>4. A(i) = starts[i] + Len(Old(i))
    BY <1>1 DEF After
  <2>5. A(i - 1) =< starts[i] /\ SubSeq(content, starts[i], A(i) - 1) = Old(i)
    BY <1>1 DEF Agrees
  <2> QED
    BY <2>1, <2>3, <2>4, <2>5
<1>4. A(0) = 1
  BY DEF After
<1> HIDE DEF Old, New, A
<1>5. \A i \in 0 .. m : A(i) \in 1 .. L + 1
  <2>1. \A i \in 0 .. m : i = 0 \/ i \in 1 .. m
    BY <1>1
  <2>2. \A i \in 1 .. m : A(i) \in 1 .. L + 1
    <3> SUFFICES ASSUME NEW i \in 1 .. m PROVE A(i) \in 1 .. L + 1
      OBVIOUS
    <3>1. /\ starts[i] \in 1 .. L /\ Len(Old(i)) \in Nat
          /\ starts[i] + Len(Old(i)) =< L + 1 /\ A(i) = starts[i] + Len(Old(i))
      BY <1>2, <1>3
    <3> QED
      BY <1>1, <3>1
  <2> QED
    BY <1>1, <1>4, <2>1, <2>2
<1>6. ASSUME NEW i \in 1 .. m PROVE Occurrences(content, Old(i)) = {starts[i]}
  <2> DEFINE o == Old(i)
  <2>1. o \in Seq(S) /\ Len(o) \in Nat /\ DOMAIN o = 1 .. Len(o)
    BY <1>2
  <2> HIDE DEF o
  <2>2. ASSUME NEW s \in Occurrences(content, o) PROVE s \in lineMatches(content, o)
    <3>1. s \in 1 .. L - Len(o) + 1 /\ SubSeq(content, s, s + Len(o) - 1) = o
      BY <2>2 DEF Occurrences
    <3>2. ASSUME NEW j \in 1 .. Len(o) PROVE o[j] = content[s + j - 1]
      <4>1. /\ s \in Int /\ s + Len(o) - 1 \in Int /\ j \in Int
            /\ j \in 1 .. (s + Len(o) - 1) - s + 1
        BY <1>1, <2>1, <3>1
      <4>2. SubSeq(content, s, s + Len(o) - 1)[j] = content[s + j - 1]
        BY <4>1
      <4> QED
        BY <3>1, <4>2
    <3> QED
      BY <2>1, <3>1, <3>2 DEF lineMatches, StandsAt
  <2>3. starts[i] \in Occurrences(content, o)
    <3>1. starts[i] \in 1 .. L - Len(o) + 1
      BY <1>1, <1>3, <2>1 DEF o
    <3>2. SubSeq(content, starts[i], starts[i] + Len(o) - 1) = o
      BY <1>3 DEF o
    <3> QED
      BY <3>1, <3>2 DEF Occurrences
  <2>4. lineMatches(content, o) = {starts[i]}
    BY <1>3 DEF o
  <2>5. Occurrences(content, o) = {starts[i]}
    BY <2>2, <2>3, <2>4
  <2> QED
    BY <2>5 DEF o
<1> DEFINE cut == [i \in 0 .. m + 1 |-> IF i \in 0 .. m THEN A(i) - 1 ELSE L]
           old == [i \in DOMAIN hunks |-> Old(i)]
           new == [i \in DOMAIN hunks |-> New(i)]
           oldPieces == [i \in 1 .. m + 1 |-> IF i \in DOMAIN old THEN kept[i] \o old[i] ELSE kept[i]]
           newPieces == [i \in 1 .. m + 1 |-> IF i \in DOMAIN new THEN kept[i] \o new[i] ELSE kept[i]]
<1>7. /\ \A i \in 1 .. m : kept[i] = SubSeq(content, A(i - 1), starts[i] - 1)
      /\ \A i \in 1 .. m : oldPieces[i] = kept[i] \o Old(i) /\ newPieces[i] = kept[i] \o New(i)
      /\ kept[m + 1] = tail /\ oldPieces[m + 1] = tail /\ newPieces[m + 1] = tail
  <2>1. /\ \A i \in 1 .. m : i \in 1 .. m + 1
        /\ m + 1 \in 1 .. m + 1 /\ m + 1 \notin 1 .. m
        /\ DOMAIN old = 1 .. m /\ DOMAIN new = 1 .. m
    BY <1>1
  <2>2. \A i \in 1 .. m : kept[i] = SubSeq(content, A(i - 1), starts[i] - 1)
    BY <2>1
  <2>3. kept[m + 1] = tail
    BY <2>1
  <2> HIDE DEF kept, tail
  <2>4. \A i \in 1 .. m : old[i] = Old(i) /\ new[i] = New(i)
    BY <1>1
  <2> HIDE DEF old, new
  <2>5. \A i \in 1 .. m : oldPieces[i] = kept[i] \o Old(i) /\ newPieces[i] = kept[i] \o New(i)
    BY <2>1, <2>4
  <2>6. oldPieces[m + 1] = tail /\ newPieces[m + 1] = tail
    BY <2>1, <2>3
  <2> QED
    BY <2>2, <2>3, <2>5, <2>6
<1>8. ASSUME NEW i \in 1 .. m
      PROVE  kept[i] \o Old(i) = SubSeq(content, A(i - 1), A(i) - 1)
  <2>1. /\ i - 1 \in 0 .. m /\ i \in 0 .. m /\ i \in 1 .. m + 1
    BY <1>1
  <2>2. /\ A(i - 1) \in 1 .. L + 1 /\ A(i) \in 1 .. L + 1 /\ starts[i] \in 1 .. L
        /\ A(i - 1) =< starts[i] /\ A(i) = starts[i] + Len(Old(i)) /\ Len(Old(i)) \in Nat
    BY <1>2, <1>3, <1>5, <2>1
  <2>3. /\ starts[i] - 1 \in A(i - 1) - 1 .. L /\ A(i) - 1 \in starts[i] - 1 .. L
        /\ (starts[i] - 1) + 1 = starts[i]
    <3>1. ASSUME NEW a \in Int, NEW b \in Int, NEW c \in Int, NEW k \in Nat, NEW l \in Nat,
                 a =< b, c = b + k, c =< l + 1, b =< l
          PROVE  b - 1 \in a - 1 .. l /\ c - 1 \in b - 1 .. l /\ (b - 1) + 1 = b
      BY <3>1
    <3>2. /\ A(i - 1) \in Int /\ starts[i] \in Int /\ A(i) \in Int
          /\ A(i) =< L + 1 /\ starts[i] =< L
      BY <1>1, <2>2
    <3> HIDE DEF L
    <3> QED
      BY <1>1, <2>2, <3>1, <3>2
  <2>4. SubSeq(content, A(i - 1), starts[i] - 1) \o SubSeq(content, (starts[i] - 1) + 1, A(i) - 1)
          = SubSeq(content, A(i - 1), A(i) - 1)
    BY <2>2, <2>3, ConcatAdjacentSubSeq
  <2>5. kept[i] = SubSeq(content, A(i - 1), starts[i] - 1)
    BY <1>7
  <2>6. SubSeq(content, starts[i], A(i) - 1) = Old(i)
    BY <1>3
  <2> QED
    BY <2>3, <2>4, <2>5, <2>6
<1>9. content = FlattenSeq(oldPieces)
  <2>1. /\ cut \in [0 .. m + 1 -> 0 .. L] /\ cut[0] = 0 /\ cut[m + 1] = L
        /\ \A i \in 0 .. m : cut[i] = A(i) - 1
    <3>1. \A i \in 0 .. m : A(i) - 1 \in 0 .. L
      BY <1>1, <1>5
    <3>2. /\ 0 \in 0 .. m /\ m + 1 \notin 0 .. m /\ m + 1 \in 0 .. m + 1 /\ L \in 0 .. L
          /\ \A i \in 0 .. m : i \in 0 .. m + 1
      BY <1>1
    <3>3. A(0) - 1 = 0
      BY <1>4
    <3> QED
      BY <3>1, <3>2, <3>3
  <2>2. ASSUME NEW i \in 1 .. m + 1
        PROVE  cut[i - 1] =< cut[i] /\ oldPieces[i] = SubSeq(content, cut[i - 1] + 1, cut[i])
    <3>1. i - 1 \in 0 .. m /\ cut[i - 1] = A(i - 1) - 1 /\ A(i - 1) \in 1 .. L + 1
      BY <1>1, <1>5, <2>1
    <3>2. cut[i - 1] + 1 = A(i - 1)
      BY <1>1, <3>1
    <3>3. CASE i \in 1 .. m
      <4>1. i \in 0 .. m /\ cut[i] = A(i) - 1 /\ A(i) \in 1 .. L + 1
        BY <1>1, <1>5, <2>1, <3>3
      <4>2. A(i - 1) =< starts[i] /\ A(i) = starts[i] + Len(Old(i))
            /\ Len(Old(i)) \in Nat /\ starts[i] \in 1 .. L
        BY <1>2, <1>3, <3>3
      <4>3. oldPieces[i] = kept[i] \o Old(i)
        BY <1>7, <3>3
      <4> HIDE DEF kept, oldPieces, newPieces, old, new, cut, tail, m, L
      <4>4. A(i - 1) \in Int /\ A(i) \in Int /\ starts[i] \in Int
        BY <1>1, <3>1, <4>1, <4>2
      <4>5. starts[i] =< A(i)
        BY <4>2, <4>4
      <4>6. A(i - 1) =< A(i)
        BY <4>2, <4>4, <4>5
      <4>7. cut[i - 1] =< cut[i]
        BY <3>1, <4>1, <4>4, <4>6
      <4>8. oldPieces[i] = SubSeq(content, A(i - 1), A(i) - 1)
        BY <1>8, <3>3, <4>3
      <4> QED
        BY <3>2, <4>1, <4>7, <4>8
    <3>4. CASE i = m + 1
      <4>1. cut[i] = L /\ (m + 1) - 1 = m
        BY <1>1, <2>1, <3>4
      <4>2. oldPieces[i] = tail
        BY <1>7, <3>4
      <4>3. cut[i - 1] =< cut[i]
        BY <1>1, <3>1, <4>1
      <4> QED
        BY <3>2, <3>4, <4>1, <4>2, <4>3
    <3>5. i \in 1 .. m \/ i = m + 1
      BY <1>1
    <3> HIDE DEF cut, oldPieces, m
    <3> QED
      BY <3>3, <3>4, <3>5
  <2>3. m + 1 \in Nat /\ m + 1 > 0 /\ Len(oldPieces) = m + 1
    BY <1>1
  <2> HIDE DEF cut, oldPieces, m
  <2> QED
    BY <2>1, <2>2, <2>3, CutAndJoined
<1>10. Rewrite(content, hunks, starts) = FlattenSeq(newPieces)
  <2> DEFINE front == [i \in DOMAIN hunks |->
                         SubSeq(content, A(i - 1), starts[i] - 1) \o New(i)]
  <2>1. Rewrite(content, hunks, starts) = FlattenSeq(front) \o tail
    BY DEF Rewrite, A, New
  <2>2. tail \in Seq(S)
    <3>1. m \in 0 .. m
      BY <1>1
    <3>2. A(m) \in 1 .. L + 1
      BY <1>5, <3>1
    <3> QED
      BY <1>1, <3>2
  <2>3. front \in Seq(Seq(S)) /\ Len(front) = m
    <3>1. ASSUME NEW i \in 1 .. m PROVE front[i] \in Seq(S)
      <4>1. i - 1 \in 0 .. m
        BY <1>1
      <4>2. A(i - 1) \in 1 .. L + 1 /\ starts[i] \in 1 .. L
        BY <1>3, <1>5, <4>1
      <4>3. SubSeq(content, A(i - 1), starts[i] - 1) \in Seq(S)
        BY <1>1, <4>2
      <4>4. New(i) \in Seq(S)
        BY <1>2
      <4> QED
        BY <1>1, <4>3, <4>4
    <3> QED
      BY <1>1, <3>1
  <2>4. newPieces = Append(front, tail)
    <3>1. \A i \in 1 .. m : newPieces[i] = front[i]
      <4>1. \A i \in 1 .. m : front[i] = SubSeq(content, A(i - 1), starts[i] - 1) \o New(i)
        BY <1>1
      <4> HIDE DEF front, newPieces, kept
      <4> QED
        BY <1>7, <4>1
    <3>2. newPieces[m + 1] = tail
      BY <1>7
    <3>3. newPieces \in Seq(Seq(S)) /\ Len(newPieces) = m + 1
      <4>1. \A i \in 1 .. m + 1 : newPieces[i] \in Seq(S)
        <5>1. \A i \in 1 .. m + 1 : i \in 1 .. m \/ i = m + 1
          BY <1>1
        <5> HIDE DEF newPieces, front, tail, m
        <5>2. \A i \in 1 .. m : front[i] \in Seq(S)
          BY <2>3
        <5> QED
          BY <2>2, <3>1, <3>2, <5>1, <5>2
      <4>2. newPieces \in [1 .. m + 1 -> Seq(S)]
        BY <4>1
      <4>3. m + 1 \in Nat
        BY <1>1
      <4> HIDE DEF newPieces, m
      <4> QED
        BY <4>2, <4>3
    <3> HIDE DEF newPieces, front, tail, m
    <3> QED
      BY <1>1, <2>2, <2>3, <3>1, <3>2, <3>3, AppendedAtEnd
  <2> HIDE DEF front, tail, newPieces
  <2> QED
    BY <2>1, <2>2, <2>3, <2>4, FlattenAppend
<1>11. kept \in [1 .. m + 1 -> SubSeqs(content)]
  <2>1. ASSUME NEW i \in 0 .. L, NEW j \in 0 .. L PROVE SubSeq(content, i + 1, j) \in SubSeqs(content)
    BY DEF SubSeqs
  <2>2. ASSUME NEW i \in 1 .. m PROVE SubSeq(content, A(i - 1), starts[i] - 1) \in SubSeqs(content)
    <3>1. i - 1 \in 0 .. m
      BY <1>1
    <3>2. A(i - 1) - 1 \in 0 .. L /\ starts[i] - 1 \in 0 .. L /\ (A(i - 1) - 1) + 1 = A(i - 1)
      <4>1. A(i - 1) \in 1 .. L + 1 /\ starts[i] \in 1 .. L
        BY <1>3, <1>5, <3>1
      <4> QED
        BY <1>1, <4>1
    <3>3. SubSeq(content, (A(i - 1) - 1) + 1, starts[i] - 1) \in SubSeqs(content)
      BY <2>1, <3>2
    <3> QED
      BY <3>2, <3>3
  <2>3. tail \in SubSeqs(content)
    <3>1. m \in 0 .. m /\ L \in 0 .. L
      BY <1>1
    <3>2. A(m) - 1 \in 0 .. L /\ (A(m) - 1) + 1 = A(m)
      BY <1>1, <1>5, <3>1
    <3>3. SubSeq(content, (A(m) - 1) + 1, L) \in SubSeqs(content)
      BY <2>1, <3>1, <3>2
    <3> QED
      BY <3>2, <3>3
  <2> QED
    BY <2>2, <2>3
<1>12. /\ FlattenSeq(oldPieces) = Weave(kept, [i \in DOMAIN hunks |-> OldSide(hunks[i])])
       /\ FlattenSeq(newPieces) = Weave(kept, [i \in DOMAIN hunks |-> NewSide(hunks[i])])
  BY <1>1 DEF Weave, Old, New
<1>13. \A i \in DOMAIN hunks :
         \E s \in 1 .. Len(content) : Occurrences(content, OldSide(hunks[i])) = {s}
  BY <1>1, <1>3, <1>6 DEF Old
<1> HIDE DEF kept, oldPieces, newPieces
<1> QED
  BY <1>9, <1>10, <1>11, <1>12, <1>13 DEF ChangedAtTheOnlyPlace

-----------------------------------------------------------------------------
Verdict == {"multi_file", "binary", "path_traversal", "empty_hunks", "ok"}
Running == {"read", "asking", "judging"}

(* The approved patch is that of a recorded answer that passed the checks,  *)
(* applied to the content its prompt showed.                                *)
ApprovedIsApplied ==
  at = "approved" =>
    /\ answer.entry = "GEMINI_GENERATE_OK"
    /\ answer.diff = result.diff
    /\ validateDiff[result.diff] = "ok"
    /\ result.orig = prompt.target
    /\ result.diff \in Diffs /\ result.orig \in Versions
    /\ result.patched \in ApplyDiff(result.orig, result.diff)

(* The file is among its contents since the last verdict; the loop goes on  *)
(* with less than two fruitless iterations behind it; and only an answer    *)
(* that was recorded brings a diff.                                         *)
RepairInv ==
  /\ TypeOK
  /\ file \in fresh
  /\ PromptIsFresh
  /\ at \in Running => emptyCount < 2
  /\ at \in {"asking", "judging"} => iter < MaxIterations /\ prompt.target \in Versions
  /\ answer.diff \in Diffs => answer.reason = "none" /\ answer.entry = "GEMINI_GENERATE_OK"
  /\ ApprovedIsApplied

-----------------------------------------------------------------------------
(* validateDiff names one of its reasons.                                   *)
LEMMA VerdictType == ASSUME NEW d \in Diffs PROVE validateDiff[d] \in Verdict
BY DEF validateDiff, Verdict

(* Generate brings a text only with its entry.                              *)
LEMMA GenerateFacts ==
  ASSUME NEW reply \in Replies \cup {"no_token"}, NEW noted \in BOOLEAN
  PROVE  /\ Generate(reply, noted).entry \in {"none", "GEMINI_GENERATE_OK", "GEMINI_GENERATE_FAILED"}
         /\ Generate(reply, noted).answer # "error" <=> Generate(reply, noted).entry = "GEMINI_GENERATE_OK"
BY DEF Generate, Outcome, Entry, Replies

(* An append leaves missed a truth value.                                   *)
LEMMA NoteType == ASSUME missed \in BOOLEAN, NEW entries, Note(entries) PROVE missed' \in BOOLEAN
BY DEF Note

(* The invariant holds at first.                                            *)
LEMMA RepairInit == Init => RepairInv
<1> SUFFICES ASSUME Init PROVE RepairInv
  OBVIOUS
<1>1. TypeOK
  <2>1. 0 \in 0 .. MaxEdits /\ 0 \in 0 .. MaxIterations /\ 0 \in 0 .. 2
    BY IterationAssumption, FaultAssumption
  <2>2. prompt \in [target : Versions \cup {NoDiff}, feedback : Reasons \cup {"none"}]
    BY DEF Init, NoPrompt
  <2>3. /\ answer.diff = NoDiff /\ answer.reason = "none" /\ answer.entry = "none"
        /\ result.diff = NoDiff /\ result.orig = NoDiff
    BY DEF Init, NoAnswer, NoResult
  <2>4. /\ file \in Versions /\ fresh = {file} /\ expired = FALSE /\ missed = FALSE
        /\ edits = 0 /\ iter = 0 /\ emptyCount = 0 /\ at = "read" /\ feedback = "none"
    BY DEF Init
  <2> QED
    BY <2>1, <2>2, <2>3, <2>4 DEF TypeOK
<1>2. answer.diff \notin Diffs
  BY NoDiffAssumption DEF Init, NoAnswer
<1> QED
  BY <1>1, <1>2 DEF Init, RepairInv, PromptIsFresh, ApprovedIsApplied, Running

-----------------------------------------------------------------------------
(* Others edit the file, or the deadline passes.                            *)
LEMMA WorldKeeps ==
  ASSUME RepairInv, (\E v \in Versions : Edit(v)) \/ Expire
  PROVE  RepairInv'
<1>1. CASE \E v \in Versions : Edit(v)
  <2>1. PICK v \in Versions : Edit(v)
    BY <1>1
  <2>2. edits' \in 0 .. MaxEdits
    BY <2>1, FaultAssumption DEF RepairInv, TypeOK, Edit
  <2>3. TypeOK'
    BY <2>1, <2>2 DEF RepairInv, TypeOK, Edit
  <2> QED
    BY <2>1, <2>3 DEF RepairInv, Edit, PromptIsFresh, ApprovedIsApplied
<1>2. CASE Expire
  <2>1. TypeOK'
    BY <1>2 DEF RepairInv, TypeOK, Expire
  <2> QED
    BY <1>2, <2>1 DEF RepairInv, Expire, PromptIsFresh, ApprovedIsApplied
<1> QED
  BY <1>1, <1>2

(* The iteration reads the file it shows.                                   *)
LEMMA ReadKeeps ==
  ASSUME RepairInv, Read
  PROVE  RepairInv'
<1>1. missed' \in BOOLEAN
  BY NoteType DEF Read, RepairInv, TypeOK
<1>2. /\ UNCHANGED <<file, edits, expired, fresh, iter, emptyCount, feedback, answer, result>>
      /\ at' = "asking" /\ prompt' = [target |-> file, feedback |-> feedback] /\ iter < MaxIterations
      /\ at = "read" /\ file \in Versions
  BY DEF Read, world, RepairInv, TypeOK
<1>3. TypeOK'
  BY <1>1, <1>2 DEF RepairInv, TypeOK
<1> QED
  BY <1>2, <1>3 DEF RepairInv, PromptIsFresh, ApprovedIsApplied, Running

(* The loop ends without an answer.                                         *)
LEMMA EndKeeps ==
  ASSUME RepairInv, ReadError \/ Exhaust
  PROVE  RepairInv'
<1>1. missed' \in BOOLEAN
  BY NoteType DEF ReadError, Exhaust, RepairInv, TypeOK
<1>2. /\ UNCHANGED <<file, edits, expired, fresh, iter, emptyCount, feedback, prompt, answer, result>>
      /\ at' \in {"target_read_error", "max_iterations"}
  BY DEF ReadError, Exhaust, world
<1>3. TypeOK'
  BY <1>1, <1>2 DEF RepairInv, TypeOK
<1> QED
  BY <1>2, <1>3 DEF RepairInv, PromptIsFresh, ApprovedIsApplied, Running

(* Generate returns.                                                        *)
LEMMA AnswerKeeps ==
  ASSUME RepairInv, Answer
  PROVE  RepairInv'
<1>1. PICK noted \in BOOLEAN, reply \in Replies \cup {"no_token"} :
        LET outcome == Generate(reply, noted) IN
        /\ answer' \in
             IF outcome.answer = "error"
             THEN {[NoAnswer EXCEPT !.reason = "gemini_error", !.entry = outcome.entry]}
             ELSE [diff : Diffs, reason : {"none"}, entry : {outcome.entry}]
                  \cup [diff : {NoDiff}, reason : {"parse_error", "no_hunks"}, entry : {outcome.entry}]
        /\ missed' = (missed \/ ~noted)
  BY DEF Answer
<1>2. /\ answer'.diff \in Diffs \cup {NoDiff}
      /\ answer'.reason \in NoUsableDiff \cup {"none"}
      /\ answer'.entry \in {"none", "GEMINI_GENERATE_OK", "GEMINI_GENERATE_FAILED"}
      /\ answer'.diff \in Diffs => answer'.reason = "none" /\ answer'.entry = "GEMINI_GENERATE_OK"
  <2> DEFINE outcome == Generate(reply, noted)
  <2>1. /\ outcome.entry \in {"none", "GEMINI_GENERATE_OK", "GEMINI_GENERATE_FAILED"}
        /\ outcome.answer # "error" => outcome.entry = "GEMINI_GENERATE_OK"
    BY GenerateFacts
  <2>2. answer' \in IF outcome.answer = "error"
                    THEN {[NoAnswer EXCEPT !.reason = "gemini_error", !.entry = outcome.entry]}
                    ELSE [diff : Diffs, reason : {"none"}, entry : {outcome.entry}]
                         \cup [diff : {NoDiff}, reason : {"parse_error", "no_hunks"}, entry : {outcome.entry}]
    BY <1>1
  <2> HIDE DEF outcome
  <2> QED
    BY <2>1, <2>2, NoDiffAssumption DEF NoAnswer, NoUsableDiff
<1>3. missed' \in BOOLEAN
  BY <1>1
<1>4. /\ UNCHANGED <<file, edits, expired, fresh, iter, emptyCount, feedback, prompt, result>>
      /\ at = "asking" /\ at' = "judging"
  BY DEF Answer, world
<1>5. TypeOK'
  BY <1>2, <1>3, <1>4 DEF RepairInv, TypeOK
<1> QED
  BY <1>2, <1>4, <1>5 DEF RepairInv, PromptIsFresh, ApprovedIsApplied, Running

(* A rejection, after which the loop goes on or ends.                       *)
LEMMA RejectKeeps ==
  ASSUME RepairInv, at = "judging", NEW reason \in Reasons, NEW n \in 0 .. 2, Reject(reason, n),
         \/ NextIteration(reason) /\ n < 2
         \/ at' = "two_consecutive_empty" /\ UNCHANGED <<iter, feedback>>
  PROVE  RepairInv'
<1>1. missed' \in BOOLEAN
  BY NoteType DEF Reject, RepairInv, TypeOK
<1>2. /\ UNCHANGED <<file, edits, expired, prompt, result>>
      /\ fresh' = {file} /\ emptyCount' = n /\ answer' = NoAnswer
  BY DEF Reject, world
<1>3. iter' \in 0 .. MaxIterations /\ feedback' \in Reasons \cup {"none"}
  BY IterationAssumption DEF RepairInv, TypeOK, NextIteration
<1>4. at' \in {"read", "two_consecutive_empty"} /\ (at' = "read" => n < 2)
  BY DEF NextIteration
<1>5. TypeOK'
  BY <1>1, <1>2, <1>3, <1>4 DEF RepairInv, TypeOK, NoAnswer
<1>6. answer'.diff \notin Diffs
  BY <1>2, NoDiffAssumption DEF NoAnswer
<1> QED
  BY <1>2, <1>4, <1>5, <1>6 DEF RepairInv, PromptIsFresh, ApprovedIsApplied, Running

(* The diff is approved as it was applied to the content of the prompt.     *)
LEMMA ApproveKeeps ==
  ASSUME RepairInv, NEW d \in Diffs, Approve(d)
  PROVE  RepairInv'
<1>1. missed' \in BOOLEAN
  BY NoteType DEF Approve, RepairInv, TypeOK
<1>2. /\ UNCHANGED <<file, edits, expired, fresh, iter, feedback, prompt, answer>>
      /\ at = "judging" /\ at' = "approved" /\ emptyCount' = 0
      /\ answer.diff = d /\ validateDiff[d] = "ok"
  BY DEF Approve, world
<1>3. PICK patched \in Applied[prompt.target][d] :
        result' = [diff |-> d, orig |-> prompt.target, patched |-> patched]
  BY DEF Approve
<1>4. prompt.target \in Versions /\ answer.entry = "GEMINI_GENERATE_OK"
  BY <1>2 DEF RepairInv
<1>5. Applied[prompt.target][d] = ApplyDiff(prompt.target, d)
  BY <1>4 DEF Applied
<1>6. TypeOK'
  BY <1>1, <1>2, <1>3, <1>4 DEF RepairInv, TypeOK
<1>7. ApprovedIsApplied'
  BY <1>2, <1>3, <1>4, <1>5 DEF ApprovedIsApplied, validateDiff, ApplyDiff
<1> QED
  BY <1>2, <1>6, <1>7 DEF RepairInv, PromptIsFresh, Running

(* Every step keeps the invariant.                                          *)
LEMMA RepairNext == RepairInv /\ [Next]_vars => RepairInv'
<1> SUFFICES ASSUME RepairInv, [Next]_vars PROVE RepairInv'
  OBVIOUS
<1>1. ASSUME NEW r \in NoUsableDiff, Empty(r) PROVE RepairInv'
  <2>1. at = "judging" /\ emptyCount \in 0 .. 1 /\ r \in Reasons
    BY <1>1 DEF Empty, RepairInv, TypeOK, Running, Reasons
  <2>2. emptyCount + 1 \in 0 .. 2
    BY <2>1
  <2> QED
    BY <1>1, <2>1, <2>2, RejectKeeps DEF Empty
<1>2. ASSUME NEW d \in Diffs, Refuse(d) PROVE RepairInv'
  <2> DEFINE reason == IF validateDiff[d] # "ok" THEN validateDiff[d] ELSE "apply_conflict"
  <2>1. reason \in Reasons
    BY VerdictType DEF Verdict, Reasons
  <2>2. at = "judging" /\ Reject(reason, 0) /\ NextIteration(reason)
    BY <1>2 DEF Refuse
  <2> HIDE DEF reason
  <2> QED
    BY <2>1, <2>2, RejectKeeps
<1>3. CASE UNCHANGED vars
  BY <1>3 DEF vars, RepairInv, TypeOK, PromptIsFresh, ApprovedIsApplied, validateDiff, ApplyDiff
<1> QED
  BY <1>1, <1>2, <1>3, WorldKeeps, ReadKeeps, EndKeeps, AnswerKeeps, ApproveKeeps DEF Next, LoopStep

(* The invariant holds of every state the loop reaches.                     *)
LEMMA RepairAlways == Spec => []RepairInv
BY RepairInit, RepairNext, PTL DEF Spec

-----------------------------------------------------------------------------
(* The loop keeps to its types: its counter stays within MaxIterations, and *)
(* two fruitless iterations in a row are the most.                          *)
THEOREM RepairTypeCorrect == Spec => []TypeOK
<1>1. RepairInv => TypeOK
  BY DEF RepairInv
<1> QED
  BY <1>1, RepairAlways, PTL

(* repair/coordinator.go:33-36: an edit made during one iteration is in the *)
(* next prompt, however many edits and iterations there are.                *)
THEOREM PromptsAreFresh == Spec => []PromptIsFresh
<1>1. RepairInv => PromptIsFresh
  BY DEF RepairInv
<1> QED
  BY <1>1, RepairAlways, PTL

(* What ApplyDiff returns is the content changed in place.                  *)
LEMMA AppliedInPlace ==
  ASSUME NEW content \in Versions, NEW d \in Diffs, NEW patched \in ApplyDiff(content, d)
  PROVE  ChangedAtTheOnlyPlace(content, d.hunks, patched)
<1> DEFINE S == [text : Texts, nl : BOOLEAN]
<1>1. content \in Seq(S)
  BY DiffAssumption
<1>2. d.hunks \in Seq(Seq([op : {"keep", "drop", "add"}, line : S]))
  BY DiffAssumption
<1>3. PICK starts \in reanchorFragments(content, d.hunks) :
        Agrees(content, d.hunks, starts) /\ patched = Rewrite(content, d.hunks, starts)
  BY DEF ApplyDiff
<1> HIDE DEF S
<1> QED
  BY <1>1, <1>2, <1>3, RewriteInPlace

(* Coordinator.Repair, repair/coordinator.go:86-229: what is approved is    *)
(* the very content Gemini was shown, changed where the old sides of its    *)
(* hunks stand and nowhere else, by a diff that passed the checks and whose *)
(* answer is in the ledger.                                                 *)
THEOREM ApprovedFromItsPrompt == Spec => []ApprovedAsPrompted
<1>1. RepairInv => ApprovedAsPrompted
  <2> SUFFICES ASSUME RepairInv, at = "approved" PROVE ApprovedAsPrompted
    BY DEF ApprovedAsPrompted
  <2>1. /\ answer.entry = "GEMINI_GENERATE_OK" /\ validateDiff[result.diff] = "ok"
        /\ result.orig = prompt.target
        /\ result.orig \in Versions /\ result.diff \in Diffs
        /\ result.patched \in ApplyDiff(result.orig, result.diff)
    BY DEF RepairInv, ApprovedIsApplied
  <2>2. ChangedAtTheOnlyPlace(result.orig, result.diff.hunks, result.patched)
    BY <2>1, AppliedInPlace
  <2> QED
    BY <2>1, <2>2 DEF ApprovedAsPrompted
<1> QED
  BY <1>1, RepairAlways, PTL

-----------------------------------------------------------------------------
(* Entries of the loop and of Gemini.                                       *)
RepairActions == {"REPAIR_ATTEMPT", "REPAIR_REJECTED", "REPAIR_APPROVED"}
NotedReasons == Reasons \cup {"none", "target_read_error", "max_iterations"}
LogEntry ==
  [action : RepairActions, iteration : Int, reason : NotedReasons]
  \cup [action : {"GEMINI_GENERATE_OK", "GEMINI_GENERATE_FAILED"}]

(* How many of the loop's entries the current iteration has.                *)
EntriesHere ==
  IF at = "read" THEN 0
  ELSE IF at \in {"asking", "judging", "target_read_error", "max_iterations"} THEN 1 ELSE 2

(* An iteration that is over has its attempt and its verdict.               *)
RoundTold(i) ==
  /\ Verdicts[2 * i + 1].action = "REPAIR_ATTEMPT" /\ Verdicts[2 * i + 1].iteration = i
  /\ Verdicts[2 * i + 2].action = "REPAIR_REJECTED" /\ Verdicts[2 * i + 2].iteration = i
RoundsTold == \A i \in 0 .. iter - 1 : RoundTold(i)

(* Gemini's own entry stands before the verdict on its answer.              *)
Follows(before, e) ==
  /\ e.action = "REPAIR_APPROVED" => before.action = "GEMINI_GENERATE_OK"
  /\ e.action = "REPAIR_REJECTED" /\ e.reason \notin {"target_read_error", "max_iterations"} =>
       (before.action = "GEMINI_GENERATE_OK" <=> e.reason # "gemini_error")
AnswersTold == \A n \in 2 .. Len(ledger) : Follows(ledger[n - 1], ledger[n])

(* What the verdict to come will find in front of it.                       *)
LastTold ==
  /\ at \in {"asking", "judging"} =>
       /\ ledger # <<>>
       /\ ledger[Len(ledger)].action =
            IF at = "asking" \/ answer.entry = "none" THEN "REPAIR_ATTEMPT" ELSE answer.entry
  /\ at = "judging" => (answer.reason = "gemini_error" <=> answer.entry # "GEMINI_GENERATE_OK")

(* The reason the next prompt names is that of the last verdict.            *)
LastReason == IF iter = 0 THEN "none" ELSE Verdicts[2 * iter].reason
FeedbackTold ==
  /\ at = "read" => feedback = LastReason
  /\ at \in {"asking", "judging"} =>
       /\ Verdicts[2 * iter + 1] = Item("REPAIR_ATTEMPT", iter, "none")
       /\ prompt.feedback = LastReason

(* emptyCount tells whether the last iteration was fruitless.               *)
FruitCounted ==
  /\ at \in Running => (emptyCount = 1 <=> iter > 0 /\ Fruitless(iter - 1))
  /\ at = "two_consecutive_empty" => iter > 0 /\ Fruitless(iter) /\ Fruitless(iter - 1)
  /\ \A i \in 1 .. iter - 1 : ~(Fruitless(i) /\ Fruitless(i - 1))

TrailInv ==
  ~missed =>
    /\ ledger \in Seq(LogEntry)
    /\ Len(Verdicts) = 2 * iter + EntriesHere
    /\ RoundsTold /\ AnswersTold /\ LastTold /\ FeedbackTold /\ FruitCounted

(* The loop's entries among the first entries stay; one of the loop joins   *)
(* them at their end, one of Gemini's does not.                             *)
LEMMA VerdictsGrow ==
  ASSUME ledger \in Seq(LogEntry), NEW e \in LogEntry, ledger' = Append(ledger, e)
  PROVE  /\ Verdicts \in Seq(LogEntry)
         /\ Verdicts' = IF e.action \in RepairActions THEN Append(Verdicts, e) ELSE Verdicts
<1> DEFINE Piece(x) == IF x.action \in RepairActions THEN <<x>> ELSE <<>>
           n == Len(ledger)
           pieces == [k \in 1 .. n |-> Piece(ledger[k])]
           next == [k \in 1 .. n + 1 |-> Piece(Append(ledger, e)[k])]
<1>1. n \in Nat /\ DOMAIN ledger = 1 .. n /\ DOMAIN (ledger') = 1 .. n + 1
  OBVIOUS
<1>2. Verdicts = FlattenSeq(pieces) /\ Verdicts' = FlattenSeq(next)
  BY <1>1 DEF Verdicts, RepairActions
<1>3. \A x \in LogEntry : Piece(x) \in Seq(LogEntry)
  OBVIOUS
<1> HIDE DEF Piece
<1>4. pieces \in Seq(Seq(LogEntry)) /\ Len(pieces) = n
  <2>1. \A k \in 1 .. n : ledger[k] \in LogEntry
    OBVIOUS
  <2>2. pieces \in [1 .. n -> Seq(LogEntry)]
    BY <1>3, <2>1
  <2> HIDE DEF n, pieces
  <2> QED
    BY <1>1, <2>2
<1>5. /\ Append(ledger, e)[n + 1] = e
      /\ \A k \in 1 .. n : Append(ledger, e)[k] = ledger[k] /\ ledger[k] \in LogEntry
  OBVIOUS
<1>6. next = Append(pieces, Piece(e))
  <2>1. next[n + 1] = Piece(e)
    BY <1>1, <1>5
  <2>2. \A k \in 1 .. n : next[k] = pieces[k]
    BY <1>1, <1>5
  <2>3. next \in Seq(Seq(LogEntry)) /\ Len(next) = n + 1
    <3>1. \A k \in 1 .. n + 1 : k \in 1 .. n \/ k = n + 1
      BY <1>1
    <3>2. \A k \in 1 .. n + 1 : Append(ledger, e)[k] \in LogEntry
      BY <1>5, <3>1
    <3>3. next \in [1 .. n + 1 -> Seq(LogEntry)]
      BY <1>3, <3>2
    <3>4. n + 1 \in Nat
      BY <1>1
    <3> HIDE DEF n, next
    <3> QED
      BY <3>3, <3>4
  <2> HIDE DEF n, pieces, next
  <2> QED
    BY <1>1, <1>3, <1>4, <2>1, <2>2, <2>3, AppendedAtEnd
<1>7. Piece(e) \in Seq(LogEntry)
  BY <1>3
<1> HIDE DEF pieces, next, n
<1>8. Verdicts \in Seq(LogEntry)
  BY <1>2, <1>4, FlattenType
<1>9. Verdicts' = Verdicts \o Piece(e)
  BY <1>2, <1>4, <1>6, <1>7, FlattenAppend
<1>10. CASE e.action \in RepairActions
  <2>1. Piece(e) = <<e>>
    BY <1>10 DEF Piece
  <2>2. Verdicts \o <<e>> = Append(Verdicts, e)
    BY <1>8
  <2> QED
    BY <1>8, <1>9, <1>10, <2>1, <2>2
<1>11. CASE e.action \notin RepairActions
  <2>1. Piece(e) = <<>>
    BY <1>11 DEF Piece
  <2>2. Verdicts \o <<>> = Verdicts
    BY <1>8
  <2> QED
    BY <1>8, <1>9, <1>11, <2>1, <2>2
<1> QED
  BY <1>10, <1>11

(* What an entry of the loop says.                                          *)
LEMMA ItemFacts ==
  ASSUME NEW action \in RepairActions, NEW i \in Int, NEW reason \in NotedReasons
  PROVE  /\ Item(action, i, reason) \in LogEntry
         /\ Item(action, i, reason).action = action
         /\ Item(action, i, reason).iteration = i
         /\ Item(action, i, reason).reason = reason
BY DEF Item, LogEntry

(* An append that did not fail, in a trail that has missed nothing.         *)
LEMMA NoteAppends ==
  ASSUME RepairInv, TrailInv, ~missed', NEW e \in LogEntry, Note(<<e>>)
  PROVE  ~missed /\ ledger \in Seq(LogEntry) /\ ledger' = Append(ledger, e)
<1>1. ~missed /\ ledger' = ledger \o <<e>>
  BY DEF Note
<1>2. ledger \in Seq(LogEntry)
  BY <1>1 DEF TrailInv
<1> QED
  BY <1>1, <1>2

(* A loop's entry joins the trail: the rounds told before stay told.        *)
LEMMA EntryJoins ==
  ASSUME ledger \in Seq(LogEntry), AnswersTold, NEW e \in LogEntry, e.action \in RepairActions,
         ledger' = Append(ledger, e), ledger # <<>> => Follows(ledger[Len(ledger)], e)
  PROVE  /\ ledger' \in Seq(LogEntry) /\ AnswersTold'
         /\ ledger' # <<>> /\ ledger'[Len(ledger')] = e
         /\ Len(Verdicts) \in Nat /\ Len(Verdicts') = Len(Verdicts) + 1
         /\ Verdicts'[Len(Verdicts) + 1] = e
         /\ \A k \in 1 .. Len(Verdicts) : Verdicts'[k] = Verdicts[k]
         /\ \A i \in Nat : 2 * i + 2 =< Len(Verdicts) =>
              (RoundTold(i)' <=> RoundTold(i)) /\ (Fruitless(i)' <=> Fruitless(i))
<1> DEFINE V == Verdicts
           W == Verdicts'
<1>1. V \in Seq(LogEntry) /\ W = Append(V, e)
  BY VerdictsGrow
<1> HIDE DEF V, W
<1>2. /\ Len(V) \in Nat /\ Len(W) = Len(V) + 1 /\ W[Len(V) + 1] = e
      /\ \A k \in 1 .. Len(V) : W[k] = V[k]
  BY <1>1
<1>3. \A i \in Nat : 2 * i + 2 =< Len(V) => W[2 * i + 1] = V[2 * i + 1] /\ W[2 * i + 2] = V[2 * i + 2]
  BY <1>2
<1>4. \A i \in Nat : 2 * i + 2 =< Len(Verdicts) =>
         (RoundTold(i)' <=> RoundTold(i)) /\ (Fruitless(i)' <=> Fruitless(i))
  BY <1>3 DEF V, W, RoundTold, Fruitless
<1>5. /\ Len(ledger) \in Nat /\ Len(ledger') = Len(ledger) + 1 /\ ledger' \in Seq(LogEntry)
      /\ ledger'[Len(ledger) + 1] = e
      /\ \A k \in 1 .. Len(ledger) : ledger'[k] = ledger[k]
  OBVIOUS
<1>6. AnswersTold'
  <2> SUFFICES ASSUME NEW n \in 2 .. Len(ledger') PROVE Follows(ledger'[n - 1], ledger'[n])
    BY DEF AnswersTold, Follows
  <2>1. CASE n = Len(ledger) + 1
    <3>1. n - 1 = Len(ledger) /\ Len(ledger) \in 1 .. Len(ledger)
      BY <1>5, <2>1
    <3>2. ledger # <<>>
      BY <3>1
    <3>3. ledger'[n - 1] = ledger[Len(ledger)] /\ ledger'[n] = e
      BY <1>5, <2>1, <3>1
    <3> QED
      BY <3>2, <3>3
  <2>2. CASE n \in 2 .. Len(ledger)
    <3>1. ledger'[n - 1] = ledger[n - 1] /\ ledger'[n] = ledger[n]
      BY <1>5, <2>2
    <3> QED
      BY <2>2, <3>1 DEF AnswersTold
  <2> QED
    BY <1>5, <2>1, <2>2
<1>7. ledger' # <<>>
  BY <1>5
<1> QED
  BY <1>2, <1>4, <1>5, <1>6, <1>7 DEF V, W

-----------------------------------------------------------------------------
(* An empty trail tells no iteration.                                       *)
LEMMA TrailInit == Init => TrailInv
<1> SUFFICES ASSUME Init PROVE TrailInv
  OBVIOUS
<1>1. ledger = <<>> /\ iter = 0 /\ at = "read" /\ feedback = "none" /\ emptyCount = 0
  BY DEF Init
<1>2. Verdicts = <<>>
  <2> DEFINE ss == [n \in DOMAIN ledger |->
                      IF ledger[n].action \in {"REPAIR_ATTEMPT", "REPAIR_REJECTED", "REPAIR_APPROVED"}
                      THEN <<ledger[n]>> ELSE <<>>]
  <2>1. ss = <<>>
    BY <1>1
  <2> HIDE DEF ss
  <2>2. FlattenSeq(ss) = <<>>
    BY <2>1, FlattenEmpty
  <2> QED
    BY <2>2 DEF Verdicts, ss
<1>3. ledger \in Seq(LogEntry) /\ Len(Verdicts) = 0
  BY <1>1, <1>2
<1> QED
  BY <1>1, <1>3 DEF TrailInv, EntriesHere, RoundsTold, AnswersTold, LastTold, FeedbackTold,
                    FruitCounted, LastReason

(* Where neither the trail nor the loop moves.                              *)
LEMMA WorldTrail ==
  ASSUME TrailInv, UNCHANGED <<at, iter, emptyCount, feedback, prompt, answer, missed, ledger>>
  PROVE  TrailInv'
<1>1. Verdicts' = Verdicts
  BY DEF Verdicts
<1> QED
  BY <1>1 DEF TrailInv, EntriesHere, RoundsTold, RoundTold, AnswersTold, Follows, LastTold,
              FeedbackTold, FruitCounted, LastReason, Fruitless

(* The attempt of the iteration, and the prompt that names the last reason. *)
LEMMA ReadTrail ==
  ASSUME RepairInv, TrailInv, Read
  PROVE  TrailInv'
<1> SUFFICES ASSUME ~missed' PROVE TrailInv'
  BY DEF TrailInv
<1> DEFINE e == Item("REPAIR_ATTEMPT", iter, "none")
<1>1. iter \in Nat /\ e \in LogEntry /\ e.action = "REPAIR_ATTEMPT"
  <2>1. iter \in Nat /\ iter \in Int
    BY IterationAssumption DEF RepairInv, TypeOK
  <2>2. "REPAIR_ATTEMPT" \in RepairActions /\ "none" \in NotedReasons
    BY DEF RepairActions, NotedReasons
  <2> QED
    BY <2>1, <2>2, ItemFacts
<1>2. ~missed /\ ledger \in Seq(LogEntry) /\ ledger' = Append(ledger, e)
  BY <1>1, NoteAppends DEF Read
<1>3. /\ at = "read" /\ at' = "asking" /\ UNCHANGED <<iter, emptyCount, feedback>>
      /\ prompt'.feedback = feedback
  BY DEF Read
<1>4. /\ Len(Verdicts) = 2 * iter
      /\ RoundsTold /\ AnswersTold /\ FeedbackTold /\ FruitCounted
  BY <1>1, <1>2, <1>3 DEF TrailInv, EntriesHere
<1>5. e.action \in RepairActions /\ (ledger # <<>> => Follows(ledger[Len(ledger)], e))
  BY <1>1 DEF RepairActions, Follows
<1> HIDE DEF e
<1>6. /\ ledger' \in Seq(LogEntry) /\ AnswersTold'
      /\ ledger' # <<>> /\ ledger'[Len(ledger')] = e
      /\ Len(Verdicts') = 2 * iter + 1
      /\ Verdicts'[2 * iter + 1] = e
      /\ \A k \in 1 .. 2 * iter : Verdicts'[k] = Verdicts[k]
      /\ \A i \in Nat : 2 * i + 2 =< 2 * iter =>
           (RoundTold(i)' <=> RoundTold(i)) /\ (Fruitless(i)' <=> Fruitless(i))
  BY <1>1, <1>2, <1>4, <1>5, EntryJoins
<1>7. \A i \in 0 .. iter - 1 : i \in Nat /\ 2 * i + 2 =< 2 * iter
  BY <1>1
<1>8. RoundsTold'
  BY <1>3, <1>4, <1>6, <1>7 DEF RoundsTold
<1>9. FruitCounted'
  <2>1. \A i \in 0 .. iter - 1 : Fruitless(i)' <=> Fruitless(i)
    BY <1>6, <1>7
  <2>2. /\ iter > 0 => iter - 1 \in 0 .. iter - 1
        /\ \A i \in 1 .. iter - 1 : i \in 0 .. iter - 1 /\ i - 1 \in 0 .. iter - 1
    BY <1>1
  <2> QED
    BY <1>3, <1>4, <2>1, <2>2 DEF FruitCounted, Running
<1>10. FeedbackTold'
  <2>1. iter # 0 => 2 * iter \in 1 .. 2 * iter
    BY <1>1
  <2>2. LastReason' = LastReason
    BY <1>3, <1>6, <2>1 DEF LastReason
  <2>3. prompt'.feedback = LastReason'
    BY <1>3, <1>4, <2>2 DEF FeedbackTold
  <2> QED
    BY <1>3, <1>6, <2>3 DEF FeedbackTold, e
<1>11. LastTold'
  BY <1>1, <1>3, <1>6 DEF LastTold, e
<1>12. EntriesHere' = 1
  BY <1>3 DEF EntriesHere
<1> QED
  BY <1>3, <1>6, <1>8, <1>9, <1>10, <1>11, <1>12 DEF TrailInv

(* The loop ends with an entry that is no verdict on an answer.             *)
LEMMA EndTrail ==
  ASSUME RepairInv, TrailInv, ReadError \/ Exhaust
  PROVE  TrailInv'
<1> SUFFICES ASSUME ~missed' PROVE TrailInv'
  BY DEF TrailInv
<1>1. iter \in Nat
  BY IterationAssumption DEF RepairInv, TypeOK
<1>2. PICK e \in LogEntry :
        /\ Note(<<e>>) /\ e.action = "REPAIR_REJECTED"
        /\ e.reason \in {"target_read_error", "max_iterations"}
  <2>1. /\ "REPAIR_REJECTED" \in RepairActions
        /\ "target_read_error" \in NotedReasons /\ "max_iterations" \in NotedReasons
    BY DEF RepairActions, NotedReasons
  <2>2. iter \in Int /\ iter - 1 \in Int
    BY <1>1
  <2>3. CASE ReadError
    <3> DEFINE e == Item("REPAIR_REJECTED", iter, "target_read_error")
    <3>1. e \in LogEntry /\ e.action = "REPAIR_REJECTED" /\ e.reason = "target_read_error"
      BY <2>1, <2>2, ItemFacts
    <3>2. Note(<<e>>)
      BY <2>3 DEF ReadError
    <3> HIDE DEF e
    <3> QED
      BY <3>1, <3>2
  <2>4. CASE Exhaust
    <3> DEFINE e == Item("REPAIR_REJECTED", iter - 1, "max_iterations")
    <3>1. e \in LogEntry /\ e.action = "REPAIR_REJECTED" /\ e.reason = "max_iterations"
      BY <2>1, <2>2, ItemFacts
    <3>2. Note(<<e>>)
      BY <2>4 DEF Exhaust
    <3> HIDE DEF e
    <3> QED
      BY <3>1, <3>2
  <2> QED
    BY <2>3, <2>4
<1>3. ~missed /\ ledger \in Seq(LogEntry) /\ ledger' = Append(ledger, e)
  BY <1>2, NoteAppends
<1>4. /\ at = "read" /\ at' \in {"target_read_error", "max_iterations"}
      /\ iter' = iter
  BY DEF ReadError, Exhaust
<1>5. /\ Len(Verdicts) = 2 * iter
      /\ RoundsTold /\ AnswersTold /\ FruitCounted
  BY <1>1, <1>3, <1>4 DEF TrailInv, EntriesHere
<1>6. e.action \in RepairActions /\ (ledger # <<>> => Follows(ledger[Len(ledger)], e))
  BY <1>2 DEF RepairActions, Follows
<1>7. /\ ledger' \in Seq(LogEntry) /\ AnswersTold'
      /\ Len(Verdicts') = 2 * iter + 1
      /\ \A i \in Nat : 2 * i + 2 =< 2 * iter =>
           (RoundTold(i)' <=> RoundTold(i)) /\ (Fruitless(i)' <=> Fruitless(i))
  BY <1>1, <1>3, <1>5, <1>6, EntryJoins
<1>8. \A i \in 0 .. iter - 1 : i \in Nat /\ 2 * i + 2 =< 2 * iter
  BY <1>1
<1>9. RoundsTold'
  BY <1>4, <1>5, <1>7, <1>8 DEF RoundsTold
<1>10. FruitCounted'
  <2>1. \A i \in 0 .. iter - 1 : Fruitless(i)' <=> Fruitless(i)
    BY <1>7, <1>8
  <2>2. \A i \in 1 .. iter - 1 : i \in 0 .. iter - 1 /\ i - 1 \in 0 .. iter - 1
    BY <1>1
  <2> QED
    BY <1>4, <1>5, <2>1, <2>2 DEF FruitCounted, Running
<1> QED
  BY <1>4, <1>7, <1>9, <1>10 DEF TrailInv, EntriesHere, LastTold, FeedbackTold

(* Gemini's entry is none of the loop's, and stands before the verdict.     *)
LEMMA AnswerTrail ==
  ASSUME RepairInv, TrailInv, Answer
  PROVE  TrailInv'
<1> SUFFICES ASSUME ~missed' PROVE TrailInv'
  BY DEF TrailInv
<1>1. PICK noted \in BOOLEAN, reply \in Replies \cup {"no_token"} :
        LET outcome == Generate(reply, noted) IN
        /\ answer' \in
             IF outcome.answer = "error"
             THEN {[NoAnswer EXCEPT !.reason = "gemini_error", !.entry = outcome.entry]}
             ELSE [diff : Diffs, reason : {"none"}, entry : {outcome.entry}]
                  \cup [diff : {NoDiff}, reason : {"parse_error", "no_hunks"}, entry : {outcome.entry}]
        /\ missed' = (missed \/ ~noted)
        /\ ledger' = IF missed \/ outcome.entry = "none" THEN ledger
                     ELSE Append(ledger, [action |-> outcome.entry])
  BY DEF Answer
<1> DEFINE outcome == Generate(reply, noted)
           entry == outcome.entry
<1>2. /\ entry \in {"none", "GEMINI_GENERATE_OK", "GEMINI_GENERATE_FAILED"}
      /\ outcome.answer # "error" <=> entry = "GEMINI_GENERATE_OK"
  BY GenerateFacts
<1>3. answer'.entry = entry /\ (answer'.reason = "gemini_error" <=> entry # "GEMINI_GENERATE_OK")
  <2>1. answer' \in IF outcome.answer = "error"
                    THEN {[NoAnswer EXCEPT !.reason = "gemini_error", !.entry = entry]}
                    ELSE [diff : Diffs, reason : {"none"}, entry : {entry}]
                         \cup [diff : {NoDiff}, reason : {"parse_error", "no_hunks"}, entry : {entry}]
    BY <1>1
  <2> HIDE DEF outcome, entry
  <2> QED
    BY <1>2, <2>1 DEF NoAnswer
<1>4. ~missed /\ ledger' = IF entry = "none" THEN ledger ELSE Append(ledger, [action |-> entry])
  BY <1>1
<1>5. /\ at = "asking" /\ at' = "judging"
      /\ UNCHANGED <<iter, emptyCount, feedback, prompt>>
  BY DEF Answer, world
<1> HIDE DEF outcome, entry
<1>6. /\ ledger \in Seq(LogEntry) /\ ledger # <<>>
      /\ ledger[Len(ledger)].action = "REPAIR_ATTEMPT"
      /\ Len(Verdicts) = 2 * iter + 1
      /\ RoundsTold /\ AnswersTold /\ FeedbackTold /\ FruitCounted
  BY <1>4, <1>5 DEF TrailInv, EntriesHere, LastTold
<1>7. /\ ledger' \in Seq(LogEntry) /\ ledger' # <<>> /\ Verdicts' = Verdicts /\ AnswersTold'
      /\ ledger'[Len(ledger')].action = IF entry = "none" THEN "REPAIR_ATTEMPT" ELSE entry
  <2>1. CASE entry = "none"
    <3>1. ledger' = ledger /\ Verdicts' = Verdicts
      BY <1>4, <2>1 DEF Verdicts
    <3> QED
      BY <1>6, <2>1, <3>1 DEF AnswersTold, Follows
  <2>2. CASE entry # "none"
    <3> DEFINE e == [action |-> entry]
    <3>1. e \in LogEntry /\ e.action = entry /\ e.action \notin RepairActions
      BY <1>2, <2>2 DEF LogEntry, RepairActions
    <3>2. ledger' = Append(ledger, e)
      BY <1>4, <2>2
    <3> HIDE DEF e
    <3>3. Verdicts' = Verdicts
      BY <1>6, <3>1, <3>2, VerdictsGrow
    <3>4. /\ Len(ledger) \in Nat /\ Len(ledger') = Len(ledger) + 1 /\ ledger' \in Seq(LogEntry)
          /\ ledger'[Len(ledger) + 1] = e
          /\ \A k \in 1 .. Len(ledger) : ledger'[k] = ledger[k]
      BY <1>6, <3>1, <3>2
    <3>5. AnswersTold'
      <4> SUFFICES ASSUME NEW n \in 2 .. Len(ledger') PROVE Follows(ledger'[n - 1], ledger'[n])
        BY DEF AnswersTold, Follows
      <4>1. CASE n = Len(ledger) + 1
        BY <3>1, <3>4, <4>1 DEF Follows, RepairActions
      <4>2. CASE n \in 2 .. Len(ledger)
        <5>1. ledger'[n - 1] = ledger[n - 1] /\ ledger'[n] = ledger[n]
          BY <3>4, <4>2
        <5> QED
          BY <1>6, <4>2, <5>1 DEF AnswersTold
      <4> QED
        BY <3>4, <4>1, <4>2
    <3> QED
      BY <2>2, <3>1, <3>3, <3>4, <3>5
  <2> QED
    BY <2>1, <2>2
<1>8. LastTold'
  BY <1>2, <1>3, <1>5, <1>7 DEF LastTold
<1> QED
  BY <1>4, <1>5, <1>6, <1>7, <1>8
  DEF TrailInv, EntriesHere, RoundsTold, RoundTold, FeedbackTold, FruitCounted, LastReason,
      Fruitless, Running

(* The verdict ends the iteration; the second fruitless one in a row ends   *)
(* the loop.                                                                *)
LEMMA RejectTrail ==
  ASSUME RepairInv, TrailInv, at = "judging", NEW reason \in Reasons, NEW n \in Nat, Reject(reason, n),
         ~missed => (answer.entry = "GEMINI_GENERATE_OK" <=> reason # "gemini_error"),
         n = IF reason \in NoUsableDiff THEN emptyCount + 1 ELSE 0,
         IF n >= 2 THEN at' = "two_consecutive_empty" /\ iter' = iter ELSE NextIteration(reason)
  PROVE  TrailInv'
<1> SUFFICES ASSUME ~missed' PROVE TrailInv'
  BY DEF TrailInv
<1> DEFINE e == Item("REPAIR_REJECTED", iter, reason)
<1>1. iter \in Nat /\ emptyCount \in {0, 1}
  <2>1. iter \in Nat /\ emptyCount \in 0 .. 2 /\ emptyCount < 2
    BY IterationAssumption DEF RepairInv, TypeOK, Running
  <2> QED
    BY <2>1
<1>2. /\ e \in LogEntry /\ e.action = "REPAIR_REJECTED" /\ e.iteration = iter /\ e.reason = reason
  <2>1. "REPAIR_REJECTED" \in RepairActions /\ reason \in NotedReasons /\ iter \in Int
    BY <1>1 DEF RepairActions, NotedReasons
  <2> QED
    BY <2>1, ItemFacts
<1>3. ~missed /\ ledger \in Seq(LogEntry) /\ ledger' = Append(ledger, e)
  BY <1>2, NoteAppends DEF Reject
<1>4. emptyCount' = n
  BY DEF Reject
<1>5. /\ ledger # <<>>
      /\ ledger[Len(ledger)].action = IF answer.entry = "none" THEN "REPAIR_ATTEMPT" ELSE answer.entry
      /\ Len(Verdicts) = 2 * iter + 1
      /\ Verdicts[2 * iter + 1] = Item("REPAIR_ATTEMPT", iter, "none")
      /\ RoundsTold /\ AnswersTold /\ FruitCounted
  BY <1>1, <1>3 DEF TrailInv, EntriesHere, LastTold, FeedbackTold
<1>6. e.action \in RepairActions /\ Follows(ledger[Len(ledger)], e)
  BY <1>2, <1>3, <1>5 DEF RepairActions, Follows
<1> HIDE DEF e
<1>7. /\ ledger' \in Seq(LogEntry) /\ AnswersTold'
      /\ Len(Verdicts') = 2 * iter + 2
      /\ Verdicts'[2 * iter + 2] = e
      /\ \A k \in 1 .. 2 * iter + 1 : Verdicts'[k] = Verdicts[k]
      /\ \A i \in Nat : 2 * i + 2 =< 2 * iter + 1 =>
           (RoundTold(i)' <=> RoundTold(i)) /\ (Fruitless(i)' <=> Fruitless(i))
  <2>1. /\ ledger' \in Seq(LogEntry) /\ AnswersTold'
        /\ Len(Verdicts') = (2 * iter + 1) + 1
        /\ Verdicts'[(2 * iter + 1) + 1] = e
        /\ \A k \in 1 .. 2 * iter + 1 : Verdicts'[k] = Verdicts[k]
        /\ \A i \in Nat : 2 * i + 2 =< 2 * iter + 1 =>
             (RoundTold(i)' <=> RoundTold(i)) /\ (Fruitless(i)' <=> Fruitless(i))
    BY <1>2, <1>3, <1>5, <1>6, EntryJoins
  <2>2. (2 * iter + 1) + 1 = 2 * iter + 2
    BY <1>1
  <2> QED
    BY <2>1, <2>2
<1>8. \A i \in 0 .. iter - 1 : i \in Nat /\ 2 * i + 2 =< 2 * iter + 1
  BY <1>1
<1>9. /\ \A i \in 0 .. iter - 1 : RoundTold(i)'
      /\ \A i \in 0 .. iter - 1 : Fruitless(i)' <=> Fruitless(i)
  BY <1>5, <1>7, <1>8 DEF RoundsTold
<1>10. /\ Verdicts'[2 * iter + 1].action = "REPAIR_ATTEMPT" /\ Verdicts'[2 * iter + 1].iteration = iter
       /\ Verdicts'[2 * iter + 2].action = "REPAIR_REJECTED" /\ Verdicts'[2 * iter + 2].iteration = iter
       /\ Verdicts'[2 * iter + 2].reason = reason
  <2>1. 2 * iter + 1 \in 1 .. 2 * iter + 1
    BY <1>1
  <2>2. Verdicts'[2 * iter + 1] = Item("REPAIR_ATTEMPT", iter, "none")
    BY <1>5, <1>7, <2>1
  <2> QED
    BY <1>2, <1>7, <2>2 DEF Item
<1>11. /\ \A i \in 1 .. iter - 1 : ~(Fruitless(i)' /\ Fruitless(i - 1)')
       /\ emptyCount = 1 <=> iter > 0 /\ Verdicts'[2 * (iter - 1) + 2].reason \in NoUsableDiff
  <2>1. \A i \in 1 .. iter - 1 : i \in 0 .. iter - 1 /\ i - 1 \in 0 .. iter - 1
    BY <1>1
  <2>2. iter > 0 => /\ 2 * (iter - 1) + 2 \in 1 .. 2 * iter + 1
                    /\ Verdicts'[2 * (iter - 1) + 2] = Verdicts[2 * (iter - 1) + 2]
    BY <1>1, <1>7
  <2>3. emptyCount = 1 <=> iter > 0 /\ Fruitless(iter - 1)
    BY <1>5 DEF FruitCounted, Running
  <2>4. emptyCount = 1 <=> iter > 0 /\ Verdicts'[2 * (iter - 1) + 2].reason \in NoUsableDiff
    BY <2>2, <2>3 DEF Fruitless
  <2>5. \A i \in 1 .. iter - 1 : ~(Fruitless(i) /\ Fruitless(i - 1))
    BY <1>5 DEF FruitCounted
  <2>6. \A i \in 1 .. iter - 1 : ~(Fruitless(i)' /\ Fruitless(i - 1)')
    BY <1>9, <2>1, <2>5
  <2> QED
    BY <2>4, <2>6
<1>12. CASE n >= 2
  <2>1. at' = "two_consecutive_empty" /\ iter' = iter /\ emptyCount = 1 /\ reason \in NoUsableDiff
    BY <1>1, <1>12
  <2>2. FruitCounted'
    BY <1>10, <1>11, <2>1 DEF FruitCounted, Fruitless, Running
  <2>3. RoundsTold'
    BY <1>9, <2>1 DEF RoundsTold
  <2> QED
    BY <1>7, <2>1, <2>2, <2>3 DEF TrailInv, EntriesHere, LastTold, FeedbackTold
<1>13. CASE ~ (n >= 2)
  <2>1. at' = "read" /\ iter' = iter + 1 /\ feedback' = reason
    BY <1>13 DEF NextIteration
  <2>2. /\ \A i \in 0 .. iter' - 1 : i \in 0 .. iter - 1 \/ i = iter
        /\ \A i \in 1 .. iter' - 1 : i \in 1 .. iter - 1 \/ (i = iter /\ iter > 0)
        /\ iter' > 0 /\ iter' - 1 = iter /\ 2 * iter' = 2 * iter + 2
    BY <1>1, <2>1
  <2>3. RoundsTold'
    <3> SUFFICES ASSUME NEW i \in 0 .. iter' - 1 PROVE RoundTold(i)'
      BY DEF RoundsTold
    <3>1. CASE i \in 0 .. iter - 1
      BY <1>9, <3>1
    <3>2. CASE i = iter
      BY <1>10, <3>2 DEF RoundTold
    <3> QED
      BY <2>2, <3>1, <3>2
  <2>4. FeedbackTold'
    BY <1>10, <2>1, <2>2 DEF FeedbackTold, LastReason
  <2>5. FruitCounted'
    <3>1. emptyCount' = 1 <=> reason \in NoUsableDiff
      BY <1>1, <1>4, <1>13
    <3>2. emptyCount' = 1 <=> iter' > 0 /\ Verdicts'[2 * (iter' - 1) + 2].reason \in NoUsableDiff
      BY <1>10, <2>2, <3>1
    <3>3. ASSUME NEW i \in 1 .. iter' - 1
          PROVE  ~(Verdicts'[2 * i + 2].reason \in NoUsableDiff
                   /\ Verdicts'[2 * (i - 1) + 2].reason \in NoUsableDiff)
      <4>1. CASE i \in 1 .. iter - 1
        BY <1>11, <4>1 DEF Fruitless
      <4>2. CASE i = iter /\ iter > 0
        BY <1>1, <1>10, <1>11, <1>13, <4>2
      <4> QED
        BY <2>2, <4>1, <4>2
    <3> QED
      BY <2>1, <3>2, <3>3 DEF FruitCounted, Fruitless
  <2>6. Len(Verdicts') = 2 * iter' + EntriesHere'
    BY <1>1, <1>7, <2>1, <2>2 DEF EntriesHere
  <2> QED
    BY <1>7, <2>1, <2>3, <2>4, <2>5, <2>6 DEF TrailInv, LastTold
<1> QED
  BY <1>12, <1>13

(* The approval stands behind Gemini's own entry.                           *)
LEMMA ApproveTrail ==
  ASSUME RepairInv, TrailInv, NEW d \in Diffs, Approve(d)
  PROVE  TrailInv'
<1> SUFFICES ASSUME ~missed' PROVE TrailInv'
  BY DEF TrailInv
<1> DEFINE e == Item("REPAIR_APPROVED", iter, "none")
<1>1. iter \in Nat
  BY IterationAssumption DEF RepairInv, TypeOK
<1>2. e \in LogEntry /\ e.action = "REPAIR_APPROVED"
  <2>1. "REPAIR_APPROVED" \in RepairActions /\ "none" \in NotedReasons /\ iter \in Int
    BY <1>1 DEF RepairActions, NotedReasons
  <2> QED
    BY <2>1, ItemFacts
<1>3. ~missed /\ ledger \in Seq(LogEntry) /\ ledger' = Append(ledger, e)
  BY <1>2, NoteAppends DEF Approve
<1>4. /\ at = "judging" /\ at' = "approved" /\ iter' = iter
      /\ answer.entry = "GEMINI_GENERATE_OK"
  BY DEF Approve, RepairInv
<1>5. /\ ledger[Len(ledger)].action = "GEMINI_GENERATE_OK"
      /\ Len(Verdicts) = 2 * iter + 1
      /\ RoundsTold /\ AnswersTold /\ FruitCounted
  BY <1>1, <1>3, <1>4 DEF TrailInv, EntriesHere, LastTold
<1>6. e.action \in RepairActions /\ Follows(ledger[Len(ledger)], e)
  BY <1>2, <1>5 DEF RepairActions, Follows
<1> HIDE DEF e
<1>7. /\ ledger' \in Seq(LogEntry) /\ AnswersTold'
      /\ Len(Verdicts') = (2 * iter + 1) + 1
      /\ \A i \in Nat : 2 * i + 2 =< 2 * iter + 1 =>
           (RoundTold(i)' <=> RoundTold(i)) /\ (Fruitless(i)' <=> Fruitless(i))
  BY <1>2, <1>3, <1>5, <1>6, EntryJoins
<1>8. \A i \in 0 .. iter - 1 : i \in Nat /\ 2 * i + 2 =< 2 * iter + 1
  BY <1>1
<1>9. RoundsTold'
  BY <1>4, <1>5, <1>7, <1>8 DEF RoundsTold
<1>10. FruitCounted'
  <2>1. \A i \in 0 .. iter - 1 : Fruitless(i)' <=> Fruitless(i)
    BY <1>7, <1>8
  <2>2. \A i \in 1 .. iter - 1 : i \in 0 .. iter - 1 /\ i - 1 \in 0 .. iter - 1
    BY <1>1
  <2> QED
    BY <1>4, <1>5, <2>1, <2>2 DEF FruitCounted, Running
<1>11. Len(Verdicts') = 2 * iter' + EntriesHere'
  BY <1>1, <1>4, <1>7 DEF EntriesHere
<1> QED
  BY <1>4, <1>7, <1>9, <1>10, <1>11 DEF TrailInv, LastTold, FeedbackTold

(* Every step keeps the trail.                                              *)
LEMMA TrailNext == RepairInv /\ TrailInv /\ [Next]_vars => TrailInv'
<1> SUFFICES ASSUME RepairInv, TrailInv, [Next]_vars PROVE TrailInv'
  OBVIOUS
<1>1. ASSUME NEW r \in NoUsableDiff, Empty(r) PROVE TrailInv'
  <2>1. /\ at = "judging" /\ r \in Reasons /\ answer.reason = r
        /\ emptyCount + 1 \in Nat /\ Reject(r, emptyCount + 1)
    BY <1>1 DEF Empty, RepairInv, TypeOK, Reasons
  <2>2. ~missed => (answer.entry = "GEMINI_GENERATE_OK" <=> r # "gemini_error")
    BY <2>1 DEF TrailInv, LastTold
  <2>3. IF emptyCount + 1 >= 2 THEN at' = "two_consecutive_empty" /\ iter' = iter
        ELSE NextIteration(r)
    BY <1>1 DEF Empty
  <2> QED
    BY <2>1, <2>2, <2>3, RejectTrail
<1>2. ASSUME NEW d \in Diffs, Refuse(d) PROVE TrailInv'
  <2> DEFINE reason == IF validateDiff[d] # "ok" THEN validateDiff[d] ELSE "apply_conflict"
  <2>1. reason \in Reasons /\ reason \notin NoUsableDiff
    BY VerdictType DEF Verdict, Reasons, NoUsableDiff
  <2>2. at = "judging" /\ answer.diff = d /\ Reject(reason, 0) /\ NextIteration(reason)
    BY <1>2 DEF Refuse
  <2>3. answer.entry = "GEMINI_GENERATE_OK" /\ reason # "gemini_error"
    BY <2>1, <2>2 DEF RepairInv, NoUsableDiff
  <2>4. 0 \in Nat /\ ~ (0 >= 2)
    OBVIOUS
  <2> HIDE DEF reason
  <2> QED
    BY <2>1, <2>2, <2>3, <2>4, RejectTrail
<1>3. CASE UNCHANGED vars
  BY <1>3, WorldTrail DEF vars
<1>4. ASSUME (\E v \in Versions : Edit(v)) \/ Expire PROVE TrailInv'
  BY <1>4, WorldTrail DEF Edit, Expire
<1> QED
  BY <1>1, <1>2, <1>3, <1>4, ReadTrail, EndTrail, AnswerTrail, ApproveTrail DEF Next, LoopStep

(* The trail of every state the loop reaches.                               *)
LEMMA TrailAlways == Spec => []TrailInv
BY TrailInit, TrailNext, RepairAlways, PTL DEF Spec

(* writeAudit, repair/coordinator.go, and Generate's own append: the ledger *)
(* of a Repair that missed no append tells the loop, iteration by           *)
(* iteration, for any number of them.                                       *)
THEOREM LedgerTellsTheLoop == Spec => []TrailTellsTheLoop
<1>1. RepairInv /\ TrailInv => TrailTellsTheLoop
  <2> SUFFICES ASSUME RepairInv, TrailInv, ~missed PROVE TrailTellsTheLoop
    BY DEF TrailTellsTheLoop
  <2>1. iter \in Nat
    BY IterationAssumption DEF RepairInv, TypeOK
  <2>2. Len(Verdicts) >= 2 * iter
    <3>1. Len(Verdicts) = 2 * iter + EntriesHere /\ EntriesHere \in Nat
      BY DEF TrailInv, EntriesHere
    <3> QED
      BY <2>1, <3>1
  <2>3. RoundsTold /\ AnswersTold /\ FeedbackTold
    BY DEF TrailInv
  <2>4. \A n \in 2 .. Len(ledger) :
          /\ ledger[n].action = "REPAIR_APPROVED" => ledger[n - 1].action = "GEMINI_GENERATE_OK"
          /\ ledger[n].action = "REPAIR_REJECTED"
               /\ ledger[n].reason \notin {"target_read_error", "max_iterations"} =>
               (ledger[n - 1].action = "GEMINI_GENERATE_OK" <=> ledger[n].reason # "gemini_error")
    BY <2>3 DEF AnswersTold, Follows
  <2> QED
    BY <2>2, <2>3, <2>4 DEF TrailTellsTheLoop, RoundsTold, RoundTold, FeedbackTold, LastReason
<1> QED
  BY <1>1, RepairAlways, TrailAlways, PTL

(* ErrTwoConsecutiveEmpty, repair/coordinator.go: Repair gives up after two *)
(* fruitless iterations in a row, neither later nor for two that a refused  *)
(* diff keeps apart.                                                        *)
THEOREM GivesUpAfterTwo == Spec => []StopsAfterTwo
<1>1. TrailInv => StopsAfterTwo
  BY DEF TrailInv, FruitCounted, StopsAfterTwo
<1> QED
  BY <1>1, TrailAlways, PTL
=============================================================================
