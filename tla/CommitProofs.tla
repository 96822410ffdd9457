----------------------------- MODULE CommitProofs -----------------------------
(* Proofs about Commit for any number of jobs, edits and retries: what the  *)
(* ledger and the merge requests of a job say of its branch, and when it    *)
(* may call GitLab.                                                         *)
EXTENDS Commit, SequenceTheorems, TLAPS

Wires == {"idle", "pending", "ok", "garbled", "refused", "failed"}
ContentType == [by : Jobs, orig : 0 .. MaxEdits]

(* A job's branch holds its content; and nothing else.                      *)
Holds(j) == \E k \in DOMAIN commits[Source(j)] : commits[Source(j)][k] = Content(j)
HoldsOnly(j) == \A k \in DOMAIN commits[Source(j)] : commits[Source(j)][k] = Content(j)

(* What a job noted, by where it is, when appends may have failed; and what *)
(* it noted when none had.                                                  *)
MayHaveNoted(j) ==
  /\ step[j] \in {"read", "commit"} => trail[j] = <<>>
  /\ step[j] = "mr" => trail[j] \in {<<>>, <<"COMMIT_OK">>}
  /\ step[j] = "returned" =>
       trail[j] \in Documented \cup {<<>>, <<"COMMIT_OK">>, <<"MR_FAILED">>, <<"MR_CREATED">>}
HasNoted(j) ==
  /\ step[j] = "mr" => trail[j] = <<"COMMIT_OK">>
  /\ step[j] = "returned" => trail[j] \in Documented

(* A job that reads has pushed nothing, one past the push has its content   *)
(* on the branch; a usable answer stands for an effect; and so do entries.  *)
JobInv(j) ==
  /\ MayHaveNoted(j)
  /\ j \notin missed => HasNoted(j)
  /\ step[j] \in {"read", "returned"} => wire[j] = "idle"
  /\ wire[j] = "idle" => tries[j] < MaxRetries
  /\ step[j] = "read" => commits[Source(j)] = <<>>
  /\ (step[j] = "commit" /\ wire[j] = "ok") \/ step[j] = "mr" => Holds(j)
  /\ HoldsOnly(j)
  /\ step[j] = "mr" /\ wire[j] = "ok" => Source(j) \in open
  /\ Noted("COMMIT_OK", j) => Holds(j)
  /\ Noted("MR_CREATED", j) => Source(j) \in open

CommitInv == TypeOK /\ \A j \in Jobs : JobInv(j)

(* A step leaves alone all that concerns a job. *)
Frame(i) ==
  /\ step'[i] = step[i] /\ orig'[i] = orig[i] /\ wire'[i] = wire[i] /\ tries'[i] = tries[i]
  /\ trail'[i] = trail[i]
  /\ i \in missed' <=> i \in missed
  /\ commits'[Source(i)] = commits[Source(i)]
  /\ Source(i) \in open' <=> Source(i) \in open

-----------------------------------------------------------------------------
(* What an append does to a sequence. *)
LEMMA AppendFacts ==
  ASSUME NEW S, NEW l \in Seq(S), NEW e \in S
  PROVE  /\ Append(l, e) \in Seq(S)
         /\ \A k \in DOMAIN Append(l, e) :
              Append(l, e)[k] = e \/ \E i \in DOMAIN l : Append(l, e)[k] = l[i]
<1>1. /\ Len(l) \in Nat /\ DOMAIN l = 1 .. Len(l) /\ DOMAIN Append(l, e) = 1 .. Len(l) + 1
      /\ \A i \in 1 .. Len(l) : Append(l, e)[i] = l[i]
      /\ Append(l, e)[Len(l) + 1] = e
  OBVIOUS
<1> QED
  BY <1>1

(* The second entry of a job. *)
LEMMA AppendPair ==
  ASSUME NEW S, NEW a \in S, NEW b \in S
  PROVE  Append(<<a>>, b) = <<a, b>>
<1>1. <<a>> \in Seq(S) /\ <<a, b>> \in Seq(S) /\ Len(<<a>>) = 1 /\ Len(<<a, b>>) = 2
  OBVIOUS
<1>2. Append(<<a>>, b) \in Seq(S) /\ Len(Append(<<a>>, b)) = 2
  BY <1>1
<1>3. \A i \in 1 .. 2 : Append(<<a>>, b)[i] = <<a, b>>[i]
  BY <1>1
<1> QED
  BY <1>1, <1>2, <1>3, SeqEqual

(* Every job has a branch of its own. *)
LEMMA OwnBranch == \A j \in Jobs : Source(j) \in Branches /\ \A i \in Jobs : Source(i) = Source(j) => i = j
BY TokenAssumption DEF Source, Branches, BranchName

(* What is left alone stays true. *)
LEMMA FrameKeeps ==
  ASSUME NEW i \in Jobs, JobInv(i), Frame(i)
  PROVE  JobInv(i)'
<1>1. Content(i)' = Content(i)
  BY DEF Content, Frame
<1>2. (Holds(i) => Holds(i)') /\ HoldsOnly(i)'
  BY <1>1 DEF Holds, HoldsOnly, JobInv, Frame, Source
<1>3. (Noted("COMMIT_OK", i)' => Noted("COMMIT_OK", i)) /\ (Noted("MR_CREATED", i)' => Noted("MR_CREATED", i))
  BY DEF Noted, Frame
<1>4. MayHaveNoted(i)' /\ (i \notin missed' => HasNoted(i)')
  BY DEF MayHaveNoted, HasNoted, JobInv, Frame
<1> QED
  BY <1>2, <1>3, <1>4 DEF JobInv, Frame, Source

(* The invariant holds at first. *)
LEMMA CommitInit == Init => CommitInv
<1> SUFFICES ASSUME Init PROVE CommitInv
  OBVIOUS
<1>1. TypeOK
  BY RetryAssumption, FaultAssumption DEF Init, TypeOK
<1>2. ASSUME NEW j \in Jobs PROVE JobInv(j)
  <2>1. commits[Source(j)] = <<>>
    BY OwnBranch DEF Init
  <2>2. HoldsOnly(j)
    BY <2>1 DEF HoldsOnly
  <2>3. trail[j] = <<>> /\ step[j] = "read" /\ wire[j] = "idle" /\ tries[j] = 0
    BY DEF Init
  <2>4. ~Noted("COMMIT_OK", j) /\ ~Noted("MR_CREATED", j)
    BY <2>3 DEF Noted
  <2> QED
    BY <2>1, <2>2, <2>3, <2>4, RetryAssumption DEF JobInv, MayHaveNoted, HasNoted
<1> QED
  BY <1>1, <1>2 DEF CommitInv

(* A step of one job is none of the others'. *)
LEMMA JobStep ==
  ASSUME CommitInv, NEW j \in Jobs, TypeOK', JobInv(j)', \A i \in Jobs \ {j} : Frame(i)
  PROVE  CommitInv'
BY FrameKeeps DEF CommitInv

-----------------------------------------------------------------------------
(* The steps that move only the wire: sending, losing, refusing, giving up, *)
(* trying again.                                                            *)
LEMMA WireKeeps ==
  ASSUME CommitInv, NEW j \in Jobs, NEW w \in Wires \ {"ok"}, NEW t \in 0 .. MaxRetries,
         step[j] \in {"commit", "mr"}, w = "idle" => t < MaxRetries,
         wire' = [wire EXCEPT ![j] = w], tries' = [tries EXCEPT ![j] = t],
         UNCHANGED <<gitlab, step, orig, expired, record>>
  PROVE  CommitInv'
<1>1. wire \in [Jobs -> Wires] /\ tries \in [Jobs -> 0 .. MaxRetries]
  BY DEF CommitInv, TypeOK, Wires
<1>2. TypeOK'
  BY <1>1 DEF CommitInv, TypeOK, Wires, gitlab, record
<1>3. \A i \in Jobs \ {j} : Frame(i)
  BY <1>1 DEF Frame, gitlab, record, Source
<1>4. wire'[j] = w /\ tries'[j] = t
  BY <1>1
<1>5. JobInv(j)'
  <2>1. JobInv(j)
    BY DEF CommitInv
  <2>2. /\ Content(j)' = Content(j) /\ Source(j)' = Source(j)
        /\ UNCHANGED <<commits, open, step, missed, trail>>
    BY DEF Content, Source, gitlab, record
  <2>3. (Holds(j) => Holds(j)') /\ HoldsOnly(j)'
    BY <2>1, <2>2 DEF Holds, HoldsOnly, JobInv, Source
  <2>4. (Noted("COMMIT_OK", j)' => Noted("COMMIT_OK", j)) /\ (Noted("MR_CREATED", j)' => Noted("MR_CREATED", j))
    BY <2>2 DEF Noted
  <2>5. MayHaveNoted(j)' /\ (j \notin missed' => HasNoted(j)')
    BY <2>1, <2>2 DEF MayHaveNoted, HasNoted, JobInv
  <2> QED
    BY <1>4, <2>1, <2>2, <2>3, <2>4, <2>5 DEF JobInv
<1> QED
  BY <1>2, <1>3, <1>5, JobStep

(* What a job reads becomes the base of its content before it pushes any. *)
LEMMA ReadKeeps ==
  ASSUME CommitInv, NEW j \in Jobs, Read(j)
  PROVE  CommitInv'
<1>1. /\ step[j] = "read" /\ head \in 0 .. MaxEdits
      /\ step' = [step EXCEPT ![j] = "commit"] /\ orig' = [orig EXCEPT ![j] = head]
      /\ step \in [Jobs -> {"read", "commit", "mr", "returned"}] /\ orig \in [Jobs -> 0 .. MaxEdits]
      /\ UNCHANGED <<head, commits, cutFrom, open, wire, tries, expired, missed, trail>>
  BY DEF Read, CommitInv, TypeOK, gitlab, record
<1>2. TypeOK'
  BY <1>1 DEF CommitInv, TypeOK
<1>3. \A i \in Jobs \ {j} : Frame(i)
  BY <1>1 DEF Frame, Source
<1>4. JobInv(j)'
  <2>1. JobInv(j) /\ trail[j] = <<>> /\ commits[Source(j)] = <<>> /\ wire[j] = "idle"
    BY <1>1 DEF CommitInv, JobInv, MayHaveNoted
  <2>2. HoldsOnly(j)'
    BY <1>1, <2>1 DEF HoldsOnly, Source
  <2>3. ~Noted("COMMIT_OK", j)' /\ ~Noted("MR_CREATED", j)'
    BY <1>1, <2>1 DEF Noted
  <2>4. MayHaveNoted(j)' /\ HasNoted(j)'
    BY <1>1, <2>1 DEF MayHaveNoted, HasNoted
  <2> QED
    BY <1>1, <2>1, <2>2, <2>3, <2>4 DEF JobInv, Source
<1> QED
  BY <1>2, <1>3, <1>4, JobStep

(* A push puts the job's content at the end of its own branch. *)
LEMMA PushKeeps ==
  ASSUME CommitInv, NEW j \in Jobs, Push(j)
  PROVE  CommitInv'
<1> DEFINE b == Source(j)
<1>1. /\ step[j] = "commit"
      /\ commits' = [commits EXCEPT ![b] = Append(@, Content(j))]
      /\ cutFrom' \in [Branches -> 0 .. MaxEdits]
      /\ UNCHANGED <<head, open, step, orig, tries, expired, missed, trail>>
  BY OwnBranch DEF Push, CommitInv, TypeOK, record
<1>2. PICK a \in Answers : wire' = [wire EXCEPT ![j] = a]
  BY DEF Push
<1>3. /\ commits \in [Branches -> Seq(ContentType)] /\ b \in Branches
      /\ Content(j) \in ContentType /\ wire \in [Jobs -> Wires]
  BY OwnBranch DEF CommitInv, TypeOK, Wires, ContentType, Content
<1>4. /\ commits' \in [Branches -> Seq(ContentType)]
      /\ commits'[b] = Append(commits[b], Content(j))
      /\ \A c \in Branches \ {b} : commits'[c] = commits[c]
      /\ commits[b] \in Seq(ContentType)
  BY <1>1, <1>3
<1>5. wire' \in [Jobs -> Wires] /\ wire'[j] = a /\ a # "idle" /\ \A i \in Jobs \ {j} : wire'[i] = wire[i]
  BY <1>2, <1>3 DEF Answers, Wires
<1>6. TypeOK'
  BY <1>1, <1>4, <1>5 DEF CommitInv, TypeOK, Wires, ContentType
<1>7. \A i \in Jobs \ {j} : Frame(i)
  <2>1. \A i \in Jobs \ {j} : Source(i) \in Branches \ {b}
    BY OwnBranch
  <2> QED
    BY <1>1, <1>4, <1>5, <2>1 DEF Frame, Source
<1>8. JobInv(j)'
  <2>1. JobInv(j) /\ trail[j] = <<>>
    BY <1>1 DEF CommitInv, JobInv, MayHaveNoted
  <2>2. /\ Len(commits[b]) \in Nat /\ DOMAIN commits'[b] = 1 .. Len(commits[b]) + 1
        /\ \A k \in 1 .. Len(commits[b]) : commits'[b][k] = commits[b][k]
        /\ commits'[b][Len(commits[b]) + 1] = Content(j)
        /\ DOMAIN commits[b] = 1 .. Len(commits[b])
    BY <1>3, <1>4
  <2>3. Content(j)' = Content(j) /\ Source(j)' = Source(j)
    BY <1>1 DEF Content, Source
  <2>4. Holds(j)' /\ HoldsOnly(j)'
    <3>1. \A k \in 1 .. Len(commits[b]) : commits[b][k] = Content(j)
      BY <2>1, <2>2 DEF JobInv, HoldsOnly
    <3>2. \A k \in DOMAIN commits'[b] : commits'[b][k] = Content(j)
      BY <2>2, <3>1
    <3>3. Len(commits[b]) + 1 \in DOMAIN commits'[b]
      BY <2>2
    <3> QED
      BY <2>3, <3>2, <3>3 DEF Holds, HoldsOnly
  <2>5. ~Noted("COMMIT_OK", j)' /\ ~Noted("MR_CREATED", j)'
    BY <1>1, <2>1 DEF Noted
  <2>6. MayHaveNoted(j)' /\ HasNoted(j)'
    BY <1>1, <2>1 DEF MayHaveNoted, HasNoted
  <2> QED
    BY <1>1, <1>5, <2>4, <2>5, <2>6 DEF JobInv
<1> QED
  BY <1>6, <1>7, <1>8, JobStep

(* A merge request is opened for the job's own branch. *)
LEMMA OpenKeeps ==
  ASSUME CommitInv, NEW j \in Jobs, Open(j)
  PROVE  CommitInv'
<1>1. /\ step[j] = "mr"
      /\ open' = open \cup {Source(j)}
      /\ UNCHANGED <<head, commits, cutFrom, step, orig, tries, expired, missed, trail>>
  BY DEF Open, record
<1>2. PICK a \in Answers : wire' = [wire EXCEPT ![j] = a]
  BY DEF Open
<1>3. /\ wire \in [Jobs -> Wires] /\ wire' \in [Jobs -> Wires]
      /\ wire'[j] = a /\ a # "idle" /\ \A i \in Jobs \ {j} : wire'[i] = wire[i]
  BY <1>2 DEF CommitInv, TypeOK, Answers, Wires
<1>4. TypeOK'
  BY <1>1, <1>3, OwnBranch DEF CommitInv, TypeOK, Wires
<1>5. \A i \in Jobs \ {j} : Frame(i)
  BY <1>1, <1>3, OwnBranch DEF Frame, Source
<1>6. JobInv(j)'
  <2>1. JobInv(j)
    BY DEF CommitInv
  <2>2. Content(j)' = Content(j) /\ Source(j)' = Source(j)
    BY <1>1 DEF Content, Source
  <2>3. Holds(j)' /\ HoldsOnly(j)'
    BY <1>1, <2>1, <2>2 DEF Holds, HoldsOnly, JobInv
  <2>4. MayHaveNoted(j)' /\ (j \notin missed' => HasNoted(j)')
    BY <1>1, <2>1 DEF MayHaveNoted, HasNoted, JobInv
  <2>5. Source(j)' \in open'
    BY <1>1, <2>2
  <2> QED
    BY <1>1, <1>3, <2>3, <2>4, <2>5 DEF JobInv
<1> QED
  BY <1>4, <1>5, <1>6, JobStep

(* A call has returned: the job notes a, which GitLab bears out, and is at  *)
(* its next step.                                                           *)
LEMMA ReturnKeeps ==
  ASSUME CommitInv, NEW j \in Jobs,
         NEW a \in {"COMMIT_OK", "COMMIT_FAILED", "MR_CREATED", "MR_FAILED"},
         NEW s \in {"mr", "returned"},
         \/ step[j] = "commit" /\ a = "COMMIT_FAILED" /\ s = "returned"
         \/ step[j] = "commit" /\ wire[j] = "ok" /\ a = "COMMIT_OK" /\ s = "mr"
         \/ step[j] = "mr" /\ a = "MR_FAILED" /\ s = "returned"
         \/ step[j] = "mr" /\ wire[j] = "ok" /\ a = "MR_CREATED" /\ s = "returned",
         Note(a, j), step' = [step EXCEPT ![j] = s], Hangup(j),
         UNCHANGED <<gitlab, orig, expired>>
  PROVE  CommitInv'
<1> DEFINE Actions == {"COMMIT_OK", "COMMIT_FAILED", "MR_CREATED", "MR_FAILED"}
<1>1. /\ step \in [Jobs -> {"read", "commit", "mr", "returned"}]
      /\ wire \in [Jobs -> Wires] /\ tries \in [Jobs -> 0 .. MaxRetries]
      /\ trail \in [Jobs -> Seq(Actions)] /\ missed \subseteq Jobs
  BY DEF CommitInv, TypeOK, Wires
<1>2. /\ UNCHANGED <<head, commits, cutFrom, open, orig, expired>>
      /\ wire' = [wire EXCEPT ![j] = "idle"] /\ tries' = [tries EXCEPT ![j] = 0]
      /\ step'[j] = s /\ wire'[j] = "idle" /\ tries'[j] = 0
      /\ \A i \in Jobs \ {j} : step'[i] = step[i] /\ wire'[i] = wire[i] /\ tries'[i] = tries[i]
  BY <1>1 DEF Hangup, gitlab
<1>3. \/ trail' = [trail EXCEPT ![j] = Append(@, a)] /\ missed' = missed
      \/ missed' = missed \cup {j} /\ trail' = trail
  BY DEF Note
<1>4. /\ trail' \in [Jobs -> Seq(Actions)] /\ missed' \subseteq Jobs
      /\ \A i \in Jobs \ {j} : trail'[i] = trail[i] /\ (i \in missed' <=> i \in missed)
      /\ \/ trail'[j] = Append(trail[j], a) /\ (j \in missed' <=> j \in missed)
         \/ trail'[j] = trail[j] /\ j \in missed'
  <2>1. trail[j] \in Seq(Actions) /\ Append(trail[j], a) \in Seq(Actions)
    BY <1>1, AppendFacts
  <2> DEFINE l == Append(trail[j], a)
  <2>2. \/ trail' = [trail EXCEPT ![j] = l] /\ missed' = missed
        \/ missed' = missed \cup {j} /\ trail' = trail
    BY <1>3
  <2> HIDE DEF l
  <2>3. l \in Seq(Actions)
    BY <2>1 DEF l
  <2>4. CASE trail' = [trail EXCEPT ![j] = l] /\ missed' = missed
    <3>1. trail' \in [Jobs -> Seq(Actions)] /\ trail'[j] = l
          /\ \A i \in Jobs \ {j} : trail'[i] = trail[i]
      BY <1>1, <2>3, <2>4
    <3> QED
      BY <1>1, <2>4, <3>1 DEF l
  <2>5. CASE missed' = missed \cup {j} /\ trail' = trail
    BY <1>1, <2>5
  <2> QED
    BY <2>2, <2>4, <2>5
<1>5. TypeOK'
  <2>1. step' \in [Jobs -> {"read", "commit", "mr", "returned"}]
    BY <1>1
  <2>2. wire' \in [Jobs -> Wires] /\ tries' \in [Jobs -> 0 .. MaxRetries]
    BY <1>1, <1>2, RetryAssumption DEF Wires
  <2> QED
    BY <1>2, <1>4, <2>1, <2>2 DEF CommitInv, TypeOK, Wires
<1>6. \A i \in Jobs \ {j} : Frame(i)
  BY <1>2, <1>4 DEF Frame, Source
<1>7. JobInv(j)'
  <2>1. JobInv(j)
    BY DEF CommitInv
  <2>2. Content(j)' = Content(j) /\ Source(j)' = Source(j)
    BY <1>2 DEF Content, Source
  <2>3. (Holds(j) => Holds(j)') /\ HoldsOnly(j)'
    BY <1>2, <2>1, <2>2 DEF Holds, HoldsOnly, JobInv
  <2>4. MayHaveNoted(j)' /\ (j \notin missed' => HasNoted(j)')
    <3>1. CASE step[j] = "commit"
      <4>1. trail[j] = <<>>
        BY <2>1, <3>1 DEF JobInv, MayHaveNoted
      <4>2. trail'[j] \in {<<>>, <<a>>} /\ (j \notin missed' => trail'[j] = <<a>>)
        <5>1. Append(<<>>, a) = <<a>>
          OBVIOUS
        <5> QED
          BY <1>4, <4>1, <5>1
      <4> QED
        BY <1>2, <3>1, <4>2 DEF MayHaveNoted, HasNoted, Documented
    <3>2. CASE step[j] = "mr"
      <4>1. trail[j] \in {<<>>, <<"COMMIT_OK">>} /\ (j \notin missed => trail[j] = <<"COMMIT_OK">>)
        BY <2>1, <3>2 DEF JobInv, MayHaveNoted, HasNoted
      <4>2. /\ trail'[j] \in {<<>>, <<"COMMIT_OK">>, <<a>>, <<"COMMIT_OK", a>>}
            /\ j \notin missed' => trail'[j] = <<"COMMIT_OK", a>>
        <5>1. Append(<<>>, a) = <<a>>
          OBVIOUS
        <5>2. Append(<<"COMMIT_OK">>, a) = <<"COMMIT_OK", a>>
          BY AppendPair, a \in Actions, "COMMIT_OK" \in Actions
        <5>3. trail'[j] = Append(trail[j], a) \/ (trail'[j] = trail[j] /\ j \in missed')
          BY <1>4
        <5>4. CASE trail[j] = <<>>
          <6>1. trail[j] # <<"COMMIT_OK">>
            BY <5>4
          <6>2. j \in missed /\ j \in missed'
            BY <1>4, <4>1, <6>1
          <6>3. trail'[j] \in {<<>>, <<a>>}
            BY <5>1, <5>3, <5>4
          <6> QED
            BY <6>2, <6>3
        <5>5. CASE trail[j] = <<"COMMIT_OK">>
          BY <1>4, <4>1, <5>2, <5>3, <5>5
        <5> QED
          BY <4>1, <5>4, <5>5
      <4>3. a \in {"MR_FAILED", "MR_CREATED"} /\ s = "returned"
        BY <3>2
      <4> QED
        BY <1>2, <4>2, <4>3 DEF MayHaveNoted, HasNoted, Documented
    <3> QED
      BY <3>1, <3>2
  <2>5. ASSUME NEW x, Noted(x, j)' PROVE Noted(x, j) \/ x = a
    <3>1. trail[j] \in Seq(Actions)
      BY <1>1
    <3>2. PICK k \in DOMAIN trail'[j] : trail'[j][k] = x
      BY <2>5 DEF Noted
    <3>3. CASE trail'[j] = trail[j]
      BY <3>2, <3>3 DEF Noted
    <3>4. CASE trail'[j] = Append(trail[j], a)
      <4>1. x = a \/ \E i \in DOMAIN trail[j] : x = trail[j][i]
        BY <3>1, <3>2, <3>4, AppendFacts, a \in Actions
      <4> QED
        BY <4>1 DEF Noted
    <3> QED
      BY <1>4, <3>3, <3>4
  <2>6. a = "COMMIT_OK" \/ s = "mr" => Holds(j)
    BY <2>1 DEF JobInv
  <2>7. a = "MR_CREATED" => Source(j) \in open
    BY <2>1 DEF JobInv
  <2>8. Noted("COMMIT_OK", j)' => Holds(j)'
    BY <2>1, <2>3, <2>5, <2>6 DEF JobInv
  <2>9. Noted("MR_CREATED", j)' => Source(j)' \in open'
    BY <1>2, <2>1, <2>2, <2>5, <2>7 DEF JobInv
  <2> QED
    BY <1>2, <2>3, <2>4, <2>6, <2>8, <2>9, RetryAssumption DEF JobInv
<1> QED
  BY <1>5, <1>6, <1>7, JobStep

(* Edits of the target branch and deadlines are none of these. *)
LEMMA RestKeeps ==
  ASSUME CommitInv, Edit \/ (\E j \in Jobs : Expire(j)) \/ UNCHANGED vars
  PROVE  CommitInv'
<1>1. /\ UNCHANGED <<commits, cutFrom, open, step, orig, wire, tries, missed, trail>>
      /\ head' \in 0 .. MaxEdits /\ expired' \in [Jobs -> BOOLEAN]
  <2>1. head \in 0 .. MaxEdits /\ expired \in [Jobs -> BOOLEAN] /\ MaxEdits \in Nat
    BY FaultAssumption DEF CommitInv, TypeOK
  <2>2. CASE Edit
    BY <2>1, <2>2 DEF Edit, record
  <2>3. ASSUME NEW j \in Jobs, Expire(j)
        PROVE  /\ UNCHANGED <<head, commits, cutFrom, open, step, orig, wire, tries, missed, trail>>
               /\ expired' = [expired EXCEPT ![j] = TRUE]
    BY <2>3 DEF Expire, gitlab, record
  <2>4. CASE UNCHANGED vars
    BY <2>1, <2>4 DEF vars
  <2> QED
    BY <2>1, <2>2, <2>3, <2>4
<1>2. TypeOK'
  BY <1>1 DEF CommitInv, TypeOK
<1>3. \A i \in Jobs : Frame(i)
  BY <1>1 DEF Frame, Source
<1> QED
  BY <1>2, <1>3, FrameKeeps DEF CommitInv

(* Every step keeps the invariant. *)
LEMMA CommitNext == CommitInv /\ [Next]_vars => CommitInv'
<1> SUFFICES ASSUME CommitInv, [Next]_vars PROVE CommitInv'
  OBVIOUS
<1>1. ASSUME NEW j \in Jobs
      PROVE  /\ JobInv(j)
             /\ wire[j] \in Wires /\ tries[j] \in 0 .. MaxRetries
             /\ wire[j] # "idle" => step[j] \in {"commit", "mr"}
             /\ wire[j] = "idle" => tries[j] + 1 \in 0 .. MaxRetries
             /\ tries = [tries EXCEPT ![j] = tries[j]]
  <2>1. wire[j] \in Wires /\ tries[j] \in 0 .. MaxRetries /\ tries = [tries EXCEPT ![j] = tries[j]]
        /\ step[j] \in {"read", "commit", "mr", "returned"} /\ JobInv(j)
    BY DEF CommitInv, TypeOK, Wires
  <2> QED
    BY <2>1, RetryAssumption DEF JobInv
<1>2. ASSUME NEW j \in Jobs, Send(j) PROVE CommitInv'
  <2> DEFINE w == IF expired[j] THEN "failed" ELSE "pending"
  <2>1. /\ wire' = [wire EXCEPT ![j] = w] /\ w \in Wires \ {"ok", "idle"}
        /\ tries' = [tries EXCEPT ![j] = tries[j] + 1]
        /\ wire[j] = "idle" /\ step[j] \in {"commit", "mr"}
        /\ UNCHANGED <<gitlab, step, orig, expired, record>>
    BY <1>2 DEF Send, Wires
  <2> HIDE DEF w
  <2> QED
    BY <1>1, <2>1, WireKeeps
<1>3. ASSUME NEW j \in Jobs, Drop(j) \/ Refuse(j) \/ Abort(j) PROVE CommitInv'
  <2>1. PICK w \in {"failed", "refused"} : wire' = [wire EXCEPT ![j] = w]
    BY <1>3 DEF Drop, Refuse, Abort
  <2>2. wire[j] = "pending" /\ UNCHANGED <<gitlab, step, orig, tries, expired, record>>
    BY <1>3 DEF Drop, Refuse, Abort
  <2>3. tries' = [tries EXCEPT ![j] = tries[j]] /\ w \in Wires \ {"ok", "idle"}
    BY <1>1, <2>2 DEF Wires
  <2> QED
    BY <1>1, <2>1, <2>2, <2>3, WireKeeps
<1>4. ASSUME NEW j \in Jobs, Retry(j) PROVE CommitInv'
  <2>1. /\ wire' = [wire EXCEPT ![j] = "idle"] /\ wire[j] = "failed" /\ tries[j] < MaxRetries
        /\ UNCHANGED <<gitlab, step, orig, tries, expired, record>>
    BY <1>4 DEF Retry
  <2>2. tries' = [tries EXCEPT ![j] = tries[j]] /\ "idle" \in Wires \ {"ok"}
    BY <1>1, <2>1 DEF Wires
  <2> QED
    BY <1>1, <2>1, <2>2, WireKeeps
<1>5. ASSUME NEW j \in Jobs, CommitFailed(j) PROVE CommitInv'
  BY <1>5, ReturnKeeps DEF CommitFailed
<1>6. ASSUME NEW j \in Jobs, CommitOK(j) PROVE CommitInv'
  BY <1>6, ReturnKeeps DEF CommitOK, Succeeded
<1>7. ASSUME NEW j \in Jobs, MRFailed(j) PROVE CommitInv'
  BY <1>7, ReturnKeeps DEF MRFailed
<1>8. ASSUME NEW j \in Jobs, MRCreated(j) PROVE CommitInv'
  BY <1>8, ReturnKeeps DEF MRCreated, Succeeded
<1>9. ASSUME NEW j \in Jobs, ClientStep(j) PROVE CommitInv'
  BY <1>2, <1>3, <1>4, <1>5, <1>6, <1>7, <1>8, <1>9 DEF ClientStep
<1>10. ASSUME NEW j \in Jobs, ServerStep(j) PROVE CommitInv'
  BY <1>3, <1>10, PushKeeps, OpenKeeps DEF ServerStep
<1> QED
  BY <1>9, <1>10, ReadKeeps, RestKeeps DEF Next

(* The invariant holds in every state of every behaviour. *)
LEMMA CommitAlways == Spec => []CommitInv
BY CommitInit, CommitNext, PTL DEF Spec

-----------------------------------------------------------------------------
(* The commit stage and GitLab keep to their types. *)
THEOREM CommitTypeCorrect == Spec => []TypeOK
<1>1. CommitInv => TypeOK
  BY DEF CommitInv
<1> QED
  BY <1>1, CommitAlways, PTL

(* ApplyAndOpenMR, commit/coordinator.go: COMMIT_OK and MR_CREATED in the   *)
(* ledger stand for what GitLab did, whatever requests and answers were     *)
(* lost and however often they were repeated.                               *)
THEOREM EntriesAreTrue == Spec => []DoneWasDone
<1>1. CommitInv => DoneWasDone
  BY DEF CommitInv, JobInv, DoneWasDone, Holds
<1> QED
  BY <1>1, CommitAlways, PTL

(* A branch holds what its own job had approved: other jobs have branches   *)
(* of their own, and a repeated push repeats the content.                   *)
THEOREM OwnContentOnly == Spec => []ReviewedIsApproved
<1>1. CommitInv => ReviewedIsApproved
  BY DEF CommitInv, JobInv, ReviewedIsApproved, HoldsOnly
<1> QED
  BY <1>1, CommitAlways, PTL

(* A job that returned and lost no append left a documented sequence.       *)
THEOREM DocumentedTrail == Spec => []TrailIsDocumented
<1>1. CommitInv => TrailIsDocumented
  BY DEF CommitInv, JobInv, TrailIsDocumented, HasNoted
<1> QED
  BY <1>1, CommitAlways, PTL

(* httputil.Do: no attempt after the deadline or after an answer, and       *)
(* MaxRetries of one call at most.                                          *)
THEOREM AttemptsAreBounded == Spec => NothingSentLate
<1> DEFINE Sent(j) == wire'[j] = "pending" /\ wire[j] # "pending" => Due(j)
           Again(j) ==
             step'[j] = step[j] =>
               /\ wire'[j] = "idle" /\ wire[j] # "idle" => wire[j] = "failed"
               /\ tries'[j] >= tries[j]
           Bounded(j) == Sent(j) /\ Again(j)
<1>1. ASSUME CommitInv, [Next]_vars
      PROVE  \A j \in Jobs : Bounded(j)
  <2>1. /\ wire \in [Jobs -> Wires] /\ tries \in [Jobs -> Nat]
        /\ step \in [Jobs -> {"read", "commit", "mr", "returned"}]
        /\ \A j \in Jobs : wire[j] = "idle" => tries[j] < MaxRetries
    BY <1>1, RetryAssumption DEF CommitInv, TypeOK, JobInv, Wires
  <2>2. ASSUME NEW j \in Jobs, Send(j) PROVE \A i \in Jobs : Bounded(i)
    <3>1. /\ wire[j] = "idle" /\ step' = step
          /\ wire' = [wire EXCEPT ![j] = IF expired[j] THEN "failed" ELSE "pending"]
          /\ tries' = [tries EXCEPT ![j] = @ + 1]
      BY <2>2 DEF Send
    <3>2. Sent(j) /\ Again(j)
      BY <2>1, <3>1 DEF Due
    <3>3. \A i \in Jobs \ {j} : Sent(i) /\ Again(i)
      BY <2>1, <3>1
    <3> QED
      BY <3>2, <3>3
  <2>3. ASSUME NEW j \in Jobs, NEW w \in Wires \ {"pending"}, wire' = [wire EXCEPT ![j] = w],
               w = "idle" => wire[j] = "failed", UNCHANGED <<step, tries>>
        PROVE  \A i \in Jobs : Bounded(i)
    BY <2>1, <2>3
  <2>4. ASSUME NEW j \in Jobs, Hangup(j), NEW s \in {"mr", "returned"}, s # step[j],
               step' = [step EXCEPT ![j] = s]
        PROVE  \A i \in Jobs : Bounded(i)
    <3>1. wire' = [wire EXCEPT ![j] = "idle"] /\ tries' = [tries EXCEPT ![j] = 0]
      BY <2>4 DEF Hangup
    <3>2. step'[j] # step[j] /\ wire'[j] = "idle"
      BY <2>1, <2>4, <3>1
    <3>3. \A i \in Jobs \ {j} : wire'[i] = wire[i] /\ tries'[i] = tries[i]
      BY <2>1, <3>1
    <3> QED
      BY <2>1, <3>2, <3>3
  <2>5. ASSUME UNCHANGED <<wire, tries>> PROVE \A j \in Jobs : Bounded(j)
    BY <2>1, <2>5
  <2> HIDE DEF Bounded
  <2>6. ASSUME NEW j \in Jobs, ClientStep(j) PROVE \A i \in Jobs : Bounded(i)
    <3>1. CASE Abort(j)
      BY <2>3, <3>1 DEF Abort, Wires
    <3>2. CASE Retry(j)
      BY <2>3, <3>2 DEF Retry, Wires
    <3>3. CASE CommitFailed(j)
      BY <2>4, <3>3 DEF CommitFailed
    <3>4. CASE CommitOK(j)
      BY <2>4, <3>4 DEF CommitOK
    <3>5. CASE MRFailed(j)
      BY <2>4, <3>5 DEF MRFailed
    <3>6. CASE MRCreated(j)
      BY <2>4, <3>6 DEF MRCreated
    <3> QED
      BY <2>2, <2>6, <3>1, <3>2, <3>3, <3>4, <3>5, <3>6 DEF ClientStep
  <2>7. ASSUME NEW j \in Jobs, ServerStep(j) PROVE \A i \in Jobs : Bounded(i)
    <3>1. /\ \E w \in {"failed", "refused", "ok", "garbled"} : wire' = [wire EXCEPT ![j] = w]
          /\ UNCHANGED <<step, tries>>
      BY <2>7 DEF ServerStep, Drop, Refuse, Push, Open, Answers
    <3> QED
      BY <2>3, <3>1 DEF Wires
  <2>8. CASE Edit \/ (\E j \in Jobs : Read(j) \/ Expire(j)) \/ UNCHANGED vars
    BY <2>5, <2>8 DEF Edit, Read, Expire, vars
  <2> QED
    BY <1>1, <2>6, <2>7, <2>8 DEF Next
<1>2. CommitInv /\ [Next]_vars =>
        [\A j \in Jobs :
           /\ wire'[j] = "pending" /\ wire[j] # "pending" => Due(j)
           /\ step'[j] = step[j] =>
                /\ wire'[j] = "idle" /\ wire[j] # "idle" => wire[j] = "failed"
                /\ tries'[j] >= tries[j]]_vars
  BY <1>1
<1> QED
  BY <1>2, CommitAlways, PTL DEF Spec, NothingSentLate
=============================================================================
