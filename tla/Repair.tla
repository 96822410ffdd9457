-------------------------------- MODULE Repair --------------------------------
(***************************************************************************)
(* repair.Coordinator.Repair: the loop that reads the target file, prompts  *)
(* Gemini, checks and applies its diff and retries with feedback, while     *)
(* other people edit the file and the pipeline's deadline may pass.         *)
(***************************************************************************)
EXTENDS Patch, Clients

CONSTANTS
  Versions,       \* contents the target file takes
  Diffs,          \* diffs Gemini may answer with, see DiffAssumption
  NoDiff,         \* no diff
  MaxIterations,  \* iterations of the loop
  StoreFaults,    \* whether an append may fail for a reason other than its context
  MaxEdits        \* bound: edits of the file

(* What the checks tell apart in a diff: how many files it names, binary    *)
(* content, a path out of the tree, and the hunks of its first file.        *)
ASSUME DiffAssumption ==
  /\ Versions \subseteq Seq([text : Texts, nl : BOOLEAN])
  /\ Diffs \subseteq
       [files : Nat, binary : BOOLEAN, escapes : BOOLEAN,
        hunks : Seq(Seq([op : {"keep", "drop", "add"}, line : [text : Texts, nl : BOOLEAN]]))]
ASSUME NoDiffAssumption == NoDiff \notin Diffs
ASSUME IterationAssumption == MaxIterations \in Nat
ASSUME FaultAssumption == StoreFaults \in BOOLEAN /\ MaxEdits \in Nat /\ Versions # {}

VARIABLES
  file,        \* the target file on the target branch
  edits,       \* how often it was edited
  fresh,       \* history: the contents it had since the last verdict
  expired,     \* whether the pipeline's context is done
  at,          \* "read", "asking", "judging", or how Repair returned
  iter,        \* the loop's counter
  emptyCount,  \* failures in a row to get a diff at all
  feedback,    \* the reason the next prompt names
  prompt,      \* the last prompt: the file and the feedback in it
  answer,      \* what the last Generate returned, and its entry
  result,      \* the approved patch
  missed,      \* whether an append failed
  ledger       \* the audit entries of this stage up to the first failed append, oldest first

vars == <<file, edits, fresh, expired, at, iter, emptyCount, feedback, prompt, answer,
          result, missed, ledger>>
world == <<file, edits, expired>>

-----------------------------------------------------------------------------
(* validateDiff; a parsed diff names at least one file. *)
countAddRemove(d) == Len(SelectSeq(FlattenSeq(d.hunks), LAMBDA l : l.op # "keep"))
validateDiff == [d \in Diffs |->
  IF d.files > 1 THEN "multi_file"
  ELSE IF d.binary THEN "binary"
  ELSE IF d.escapes THEN "path_traversal"
  ELSE IF countAddRemove(d) = 0 THEN "empty_hunks"
  ELSE "ok"]

(* The Applier, commit.ApplyDiff: the patched file, or nothing.             *)
Applied == [content \in Versions |-> [d \in Diffs |-> ApplyDiff(content, d)]]

NoPrompt == [target |-> NoDiff, feedback |-> "none"]
NoAnswer == [diff |-> NoDiff, reason |-> "none", entry |-> "none"]
NoResult == [diff |-> NoDiff, orig |-> NoDiff, patched |-> NoDiff]

Item(action, i, reason) == [action |-> action, iteration |-> i, reason |-> reason]

(* writeAudit: the error of an append is dropped. *)
Note(entries) ==
  \/ /\ ~expired
     /\ ledger' = IF missed THEN ledger ELSE ledger \o entries
     /\ UNCHANGED missed
  \/ /\ expired \/ StoreFaults
     /\ missed' = TRUE
     /\ UNCHANGED ledger

-----------------------------------------------------------------------------
Init ==
  /\ file \in Versions
  /\ edits = 0
  /\ fresh = {file}
  /\ expired = FALSE
  /\ at = "read"
  /\ iter = 0
  /\ emptyCount = 0
  /\ feedback = "none"
  /\ prompt = NoPrompt
  /\ answer = NoAnswer
  /\ result = NoResult
  /\ missed = FALSE
  /\ ledger = <<>>

(* Somebody changes the file on the target branch while Repair runs. *)
Edit(v) ==
  /\ at \in {"read", "asking"}
  /\ edits < MaxEdits
  /\ edits' = edits + 1
  /\ file' = v
  /\ fresh' = fresh \cup {v}
  /\ UNCHANGED <<expired, at, iter, emptyCount, feedback, prompt, answer, result, missed, ledger>>

(* PipelineTimeout passes. *)
Expire ==
  /\ at \in {"read", "asking", "judging"}
  /\ ~expired
  /\ expired' = TRUE
  /\ UNCHANGED <<file, edits, fresh, at, iter, emptyCount, feedback, prompt, answer,
                 result, missed, ledger>>

(* The iteration reads the file, notes the attempt and sends its prompt. *)
ReadOnce ==
  /\ at = "read"
  /\ iter < MaxIterations
  /\ ~expired
  /\ prompt' = [target |-> IF iter = 0 THEN file ELSE prompt.target, feedback |-> feedback]
  /\ at' = "asking"
  /\ Note(<<Item("REPAIR_ATTEMPT", iter, "none")>>)
  /\ UNCHANGED <<world, fresh, iter, emptyCount, feedback, answer, result>>
ReadOnceTooOften ==
  /\ at = "read"
  /\ iter =< MaxIterations
  /\ ~expired
  /\ prompt' = [target |-> file, feedback |-> feedback]
  /\ at' = "asking"
  /\ Note(<<Item("REPAIR_ATTEMPT", iter, "none")>>)
  /\ UNCHANGED <<world, fresh, iter, emptyCount, feedback, answer, result>>
Read ==
  /\ at = "read"
  /\ iter < MaxIterations
  /\ ~expired
  /\ prompt' = [target |-> file, feedback |-> feedback]
  /\ at' = "asking"
  /\ Note(<<Item("REPAIR_ATTEMPT", iter, "none")>>)
  /\ UNCHANGED <<world, fresh, iter, emptyCount, feedback, answer, result>>

(* The file cannot be read: Repair returns that error. *)
ReadError ==
  /\ at = "read"
  /\ iter < MaxIterations
  /\ at' = "target_read_error"
  /\ Note(<<Item("REPAIR_REJECTED", iter, "target_read_error")>>)
  /\ UNCHANGED <<world, fresh, iter, emptyCount, feedback, prompt, answer, result>>

(* Gemini failed, its answer does not parse, or it holds no diff. *)
NoUsableDiff == {"gemini_error", "parse_error", "no_hunks"}

(* Generate returns.  An edit from here on is as good as one after the      *)
(* verdict, which only looks at the prompt and the answer.                  *)
Answer ==
  /\ at = "asking"
  /\ at' = "judging"
  /\ \E noted \in (IF expired THEN {} ELSE {TRUE}) \cup (IF expired \/ StoreFaults THEN {FALSE} ELSE {}),
        reply \in Replies \cup {"no_token"} :
       LET outcome == Generate(reply, noted) IN
       /\ answer' \in
            IF outcome.answer = "error"
            THEN {[NoAnswer EXCEPT !.reason = "gemini_error", !.entry = outcome.entry]}
            ELSE [diff : Diffs, reason : {"none"}, entry : {outcome.entry}]
                 \cup [diff : {NoDiff}, reason : {"parse_error", "no_hunks"}, entry : {outcome.entry}]
       /\ missed' = (missed \/ ~noted)
       /\ ledger' = IF missed \/ outcome.entry = "none" THEN ledger
                    ELSE Append(ledger, [action |-> outcome.entry])
  /\ UNCHANGED <<world, fresh, iter, emptyCount, feedback, prompt, result>>

(* The verdict on it; the deadline may have passed in between.              *)
Reject(reason, n) ==
  /\ answer' = NoAnswer
  /\ Note(<<Item("REPAIR_REJECTED", iter, reason)>>)
  /\ emptyCount' = n
  /\ fresh' = {file}
  /\ UNCHANGED <<world, prompt, result>>

NextIteration(reason) ==
  /\ at' = "read"
  /\ iter' = iter + 1
  /\ feedback' = reason

(* The second iteration in a row without a usable diff ends Repair.         *)
EmptySilent(reason) ==
  /\ at = "judging"
  /\ answer.reason = reason
  /\ Reject(reason, emptyCount + 1)
  /\ IF emptyCount + 1 >= 2
     THEN at' = "two_consecutive_empty" /\ UNCHANGED <<iter, feedback>>
     ELSE at' = "read" /\ iter' = iter + 1 /\ UNCHANGED feedback
EmptyRetried(reason) ==
  /\ at = "judging"
  /\ answer.reason = reason
  /\ Reject(reason, emptyCount)
  /\ at' = "read"
  /\ feedback' = reason
  /\ UNCHANGED iter
Empty(reason) ==
  /\ at = "judging"
  /\ answer.reason = reason
  /\ Reject(reason, emptyCount + 1)
  /\ IF emptyCount + 1 >= 2
     THEN at' = "two_consecutive_empty" /\ UNCHANGED <<iter, feedback>>
     ELSE NextIteration(reason)

(* The diff fails the structural checks, or a hunk has no place in the file *)
(* the prompt showed.                                                       *)
RefuseKeepingCount(d) ==
  /\ at = "judging"
  /\ answer.diff = d
  /\ validateDiff[d] # "ok" \/ Applied[prompt.target][d] = {}
  /\ LET reason == IF validateDiff[d] # "ok" THEN validateDiff[d] ELSE "apply_conflict"
     IN  Reject(reason, emptyCount) /\ NextIteration(reason)
Refuse(d) ==
  /\ at = "judging"
  /\ answer.diff = d
  /\ validateDiff[d] # "ok" \/ Applied[prompt.target][d] = {}
  /\ LET reason == IF validateDiff[d] # "ok" THEN validateDiff[d] ELSE "apply_conflict"
     IN  Reject(reason, 0) /\ NextIteration(reason)

(* The diff is approved, with the content it was applied to and the patched *)
(* content the gate and the commit stage use.                               *)
Approve(d) ==
  /\ at = "judging"
  /\ answer.diff = d
  /\ validateDiff[d] = "ok"
  /\ \E patched \in Applied[prompt.target][d] :
       result' = [diff |-> d, orig |-> prompt.target, patched |-> patched]
  /\ at' = "approved"
  /\ emptyCount' = 0
  /\ Note(<<Item("REPAIR_APPROVED", iter, "none")>>)
  /\ UNCHANGED <<world, fresh, iter, feedback, prompt, answer>>

(* The loop is over. *)
Exhaust ==
  /\ at = "read"
  /\ iter = MaxIterations
  /\ at' = "max_iterations"
  /\ Note(<<Item("REPAIR_REJECTED", iter - 1, "max_iterations")>>)
  /\ UNCHANGED <<world, fresh, iter, emptyCount, feedback, prompt, answer, result>>

LoopStep ==
  \/ Read
  \/ ReadError
  \/ Answer
  \/ \E r \in NoUsableDiff : Empty(r)
  \/ \E d \in Diffs : Refuse(d)
  \/ \E d \in Diffs : Approve(d)
  \/ Exhaust

Next ==
  \/ LoopStep
  \/ \E v \in Versions : Edit(v)
  \/ Expire

Spec == Init /\ [][Next]_vars

(* Every call of the loop returns, at the latest with the context.          *)
FairSpec == Spec /\ WF_vars(LoopStep)

-----------------------------------------------------------------------------
Reasons == NoUsableDiff \cup {"multi_file", "binary", "path_traversal", "empty_hunks",
                              "apply_conflict"}

TypeOK ==
  /\ file \in Versions
  /\ edits \in 0 .. MaxEdits
  /\ fresh \subseteq Versions
  /\ expired \in BOOLEAN
  /\ at \in {"read", "asking", "judging", "approved", "target_read_error", "two_consecutive_empty",
             "max_iterations"}
  /\ iter \in 0 .. MaxIterations
  /\ emptyCount \in 0 .. 2
  /\ feedback \in Reasons \cup {"none"}
  /\ prompt \in [target : Versions \cup {NoDiff}, feedback : Reasons \cup {"none"}]
  /\ answer.diff \in Diffs \cup {NoDiff}
  /\ answer.reason \in NoUsableDiff \cup {"none"}
  /\ answer.entry \in {"none", "GEMINI_GENERATE_OK", "GEMINI_GENERATE_FAILED"}
  /\ result.diff \in Diffs \cup {NoDiff}
  /\ result.orig \in Versions \cup {NoDiff}
  /\ missed \in BOOLEAN

(* The approved patch comes from an answer that is in the ledger, passes    *)
(* the structural checks and is the file Gemini was shown, whatever was     *)
(* edited while it answered, changed where its old sides stand: a hunk      *)
(* whose place is in doubt never lands.                                     *)
ApprovedAsPrompted ==
  at = "approved" =>
    /\ answer.entry = "GEMINI_GENERATE_OK"
    /\ validateDiff[result.diff] = "ok"
    /\ result.orig = prompt.target
    /\ ChangedAtTheOnlyPlace(prompt.target, result.diff.hunks, result.patched)

(* repair/coordinator.go:33-36: an edit made during one iteration is in the *)
(* next prompt: what a prompt shows was the file's content at some moment   *)
(* after the previous verdict.                                              *)
PromptIsFresh == at = "asking" => prompt.target \in fresh

(* The entries of a Repair none of whose appends failed are, iteration by   *)
(* iteration, one attempt and one verdict, with Gemini's own entry between  *)
(* them: OK before every verdict on an answer, and not OK before the        *)
(* verdict that there is none.  A prompt names the reason the ledger gives  *)
(* for the iteration before.                                                *)
Verdicts ==
  FlattenSeq([n \in DOMAIN ledger |->
                IF ledger[n].action \in {"REPAIR_ATTEMPT", "REPAIR_REJECTED", "REPAIR_APPROVED"}
                THEN <<ledger[n]>> ELSE <<>>])
TrailTellsTheLoop ==
  ~missed =>
    /\ Len(Verdicts) >= 2 * iter
    /\ \A i \in 0 .. iter - 1 :
         /\ Verdicts[2 * i + 1].action = "REPAIR_ATTEMPT" /\ Verdicts[2 * i + 1].iteration = i
         /\ Verdicts[2 * i + 2].action = "REPAIR_REJECTED" /\ Verdicts[2 * i + 2].iteration = i
    /\ \A n \in 2 .. Len(ledger) :
         /\ ledger[n].action = "REPAIR_APPROVED" => ledger[n - 1].action = "GEMINI_GENERATE_OK"
         /\ ledger[n].action = "REPAIR_REJECTED"
              /\ ledger[n].reason \notin {"target_read_error", "max_iterations"} =>
              (ledger[n - 1].action = "GEMINI_GENERATE_OK" <=> ledger[n].reason # "gemini_error")
    /\ at \in {"asking", "judging"} =>
         /\ Verdicts[2 * iter + 1] = Item("REPAIR_ATTEMPT", iter, "none")
         /\ prompt.feedback = IF iter = 0 THEN "none" ELSE Verdicts[2 * iter].reason

(* Repair stops with ErrTwoConsecutiveEmpty when its last two iterations    *)
(* brought no usable diff, and never goes on after two such iterations.     *)
Fruitless(i) == Verdicts[2 * i + 2].reason \in NoUsableDiff
StopsAfterTwo ==
  ~missed =>
    /\ at = "two_consecutive_empty" => iter > 0 /\ Fruitless(iter) /\ Fruitless(iter - 1)
    /\ \A i \in 1 .. iter - 1 : ~(Fruitless(i) /\ Fruitless(i - 1))

(* Repair returns, within MaxIterations prompts.                            *)
RepairReturns == <>(at \notin {"read", "asking", "judging"})
=============================================================================
