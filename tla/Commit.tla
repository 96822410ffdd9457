-------------------------------- MODULE Commit --------------------------------
(***************************************************************************)
(* commit.Coordinator.ApplyAndOpenMR over gitlab.httpClient and             *)
(* httputil.Do: pipelines that read a file, later push its patched content  *)
(* to a branch of their own and open a merge request, over a network that   *)
(* loses requests and answers, on a target branch other people edit.        *)
(***************************************************************************)
EXTENDS Naturals, Sequences

CONSTANTS
  Jobs,        \* pipelines that reached their repair stage
  Token,       \* by job: its correlation token
  NoToken,     \* the empty token
  AutoPatch,   \* the name of the branch of a job without a token
  MaxRetries,  \* attempts httputil.Do makes
  StoreFaults, \* whether an append may fail for a reason other than its context
  MaxEdits     \* bound: edits of the file by other people

ASSUME TokenAssumption ==
  /\ \A i, j \in Jobs : i # j => Token[i] # Token[j]
  /\ \A j \in Jobs : Token[j] # AutoPatch
ASSUME RetryAssumption == MaxRetries \in Nat \ {0}
ASSUME FaultAssumption == StoreFaults \in BOOLEAN /\ MaxEdits \in Nat

VARIABLES
  head,     \* which edit of the file the target branch holds
  commits,  \* by source branch: what was pushed to it, oldest first
  cutFrom,  \* by source branch: the edit it was branched from
  open,     \* the source branches with an open merge request
  step,     \* by job: "read", "commit", "mr" or "returned"
  orig,     \* by job: the edit its patch was computed against
  wire,     \* by job: the state of its HTTP call
  tries,    \* by job: attempts of the call
  expired,  \* by job: whether its context is done
  missed,   \* jobs one of whose appends failed
  trail     \* by job: its entries in the ledger, oldest first

vars == <<head, commits, cutFrom, open, step, orig, wire, tries, expired, missed, trail>>
gitlab == <<head, commits, cutFrom, open>>
record == <<missed, trail>>

-----------------------------------------------------------------------------
(* branchName, without the prefix all branches share. *)
OneBranch(token) == AutoPatch
BranchName(token) == IF token = NoToken THEN AutoPatch ELSE token
Branches == {BranchName(Token[j]) : j \in Jobs}
Source(j) == BranchName(Token[j])

(* The bytes pushed: the file as j patched it. *)
Content(j) == [by |-> j, orig |-> orig[j]]

(* An append whose error is dropped; with its context done it fails. *)
Note(action, j) ==
  \/ /\ ~expired[j]
     /\ trail' = [trail EXCEPT ![j] = Append(@, action)]
     /\ UNCHANGED missed
  \/ /\ expired[j] \/ StoreFaults
     /\ missed' = missed \cup {j}
     /\ UNCHANGED trail

-----------------------------------------------------------------------------
Init ==
  /\ head = 0
  /\ commits = [b \in Branches |-> <<>>]
  /\ cutFrom = [b \in Branches |-> 0]
  /\ open = {}
  /\ step = [j \in Jobs |-> "read"]
  /\ orig = [j \in Jobs |-> 0]
  /\ wire = [j \in Jobs |-> "idle"]
  /\ tries = [j \in Jobs |-> 0]
  /\ expired = [j \in Jobs |-> FALSE]
  /\ missed = {}
  /\ trail = [j \in Jobs |-> <<>>]

(* Somebody changes the file on the target branch. *)
Edit ==
  /\ head < MaxEdits
  /\ head' = head + 1
  /\ UNCHANGED <<commits, cutFrom, open, step, orig, wire, tries, expired, record>>

(* PipelineTimeout ends the job's context. *)
Expire(j) ==
  /\ step[j] \in {"commit", "mr"}
  /\ ~expired[j]
  /\ expired' = [expired EXCEPT ![j] = TRUE]
  /\ UNCHANGED <<gitlab, step, orig, wire, tries, record>>

(* gitlabFileReader.Read in the iteration of Repair that is approved. *)
Read(j) ==
  /\ step[j] = "read"
  /\ orig' = [orig EXCEPT ![j] = head]
  /\ step' = [step EXCEPT ![j] = "commit"]
  /\ UNCHANGED <<gitlab, wire, tries, expired, record>>

(* httputil.Do: an attempt; with the context done nothing is sent. *)
SendLate(j) ==
  /\ step[j] \in {"commit", "mr"}
  /\ wire[j] = "idle"
  /\ tries' = [tries EXCEPT ![j] = @ + 1]
  /\ wire' = [wire EXCEPT ![j] = "pending"]
  /\ UNCHANGED <<gitlab, step, orig, expired, record>>
Send(j) ==
  /\ step[j] \in {"commit", "mr"}
  /\ wire[j] = "idle"
  /\ tries' = [tries EXCEPT ![j] = @ + 1]
  /\ wire' = [wire EXCEPT ![j] = IF expired[j] THEN "failed" ELSE "pending"]
  /\ UNCHANGED <<gitlab, step, orig, expired, record>>

(* The request does not reach GitLab, or is answered 5xx without effect. *)
Drop(j) ==
  /\ wire[j] = "pending"
  /\ wire' = [wire EXCEPT ![j] = "failed"]
  /\ UNCHANGED <<gitlab, step, orig, tries, expired, record>>

(* GitLab answers 4xx. *)
Refuse(j) ==
  /\ wire[j] = "pending"
  /\ wire' = [wire EXCEPT ![j] = "refused"]
  /\ UNCHANGED <<gitlab, step, orig, tries, expired, record>>

(* What becomes of the answer to a request that took effect: it arrives, it *)
(* arrives unreadable, or it is lost or turned into a 5xx on the way.       *)
Answers == {"ok", "garbled", "failed"}

(* CreateCommit at GitLab: the source branch is cut from the target branch  *)
(* if there is none yet, and the file replaced as a whole.                  *)
Push(j) ==
  LET b == Source(j)
  IN  /\ wire[j] = "pending"
      /\ step[j] = "commit"
      /\ cutFrom' = IF commits[b] = <<>> THEN [cutFrom EXCEPT ![b] = head] ELSE cutFrom
      /\ commits' = [commits EXCEPT ![b] = Append(@, Content(j))]
      /\ \E a \in Answers : wire' = [wire EXCEPT ![j] = a]
      /\ UNCHANGED <<head, open, step, orig, tries, expired, record>>

(* CreateMR at GitLab, which refuses a second one for the same branch. *)
Open(j) ==
  LET b == Source(j)
  IN  /\ wire[j] = "pending"
      /\ step[j] = "mr"
      /\ b \notin open
      /\ commits[b] # <<>>
      /\ open' = open \cup {b}
      /\ \E a \in Answers : wire' = [wire EXCEPT ![j] = a]
      /\ UNCHANGED <<head, commits, cutFrom, step, orig, tries, expired, record>>

(* The request is abandoned with its context. *)
NeverAbort(j) == FALSE /\ UNCHANGED vars
Abort(j) ==
  /\ wire[j] = "pending"
  /\ expired[j]
  /\ wire' = [wire EXCEPT ![j] = "failed"]
  /\ UNCHANGED <<gitlab, step, orig, tries, expired, record>>

(* httputil.Do: after the backoff, another attempt. *)
RetryOnceMore(j) ==
  /\ wire[j] = "failed"
  /\ tries[j] =< MaxRetries
  /\ ~expired[j]
  /\ wire' = [wire EXCEPT ![j] = "idle"]
  /\ UNCHANGED <<gitlab, step, orig, tries, expired, record>>
RetryAnswered(j) ==
  /\ wire[j] \in {"failed", "refused"}
  /\ tries[j] < MaxRetries
  /\ ~expired[j]
  /\ wire' = [wire EXCEPT ![j] = "idle"]
  /\ UNCHANGED <<gitlab, step, orig, tries, expired, record>>
Retry(j) ==
  /\ wire[j] = "failed"
  /\ tries[j] < MaxRetries
  /\ ~expired[j]
  /\ wire' = [wire EXCEPT ![j] = "idle"]
  /\ UNCHANGED <<gitlab, step, orig, tries, expired, record>>

(* The call of CreateCommit or CreateMR returns an error: a 4xx, an answer  *)
(* it cannot read, no attempt left, or the context done during backoff.     *)
Failed(j) ==
  \/ wire[j] \in {"refused", "garbled"}
  \/ wire[j] = "failed" /\ (tries[j] >= MaxRetries \/ expired[j])

Hangup(j) ==
  /\ wire' = [wire EXCEPT ![j] = "idle"]
  /\ tries' = [tries EXCEPT ![j] = 0]

(* ApplyAndOpenMR: CreateCommit failed ... *)
CommitFailedGoesOn(j) ==
  /\ step[j] = "commit"
  /\ Failed(j)
  /\ Note("COMMIT_FAILED", j)
  /\ step' = [step EXCEPT ![j] = "mr"]
  /\ Hangup(j)
  /\ UNCHANGED <<gitlab, orig, expired>>
CommitFailed(j) ==
  /\ step[j] = "commit"
  /\ Failed(j)
  /\ Note("COMMIT_FAILED", j)
  /\ step' = [step EXCEPT ![j] = "returned"]
  /\ Hangup(j)
  /\ UNCHANGED <<gitlab, orig, expired>>

(* ... or succeeded, and CreateMR is next. *)
StatusIgnored(j) == wire[j] \in {"ok", "refused"}
Succeeded(j) == wire[j] = "ok"

CommitOK(j) ==
  /\ step[j] = "commit"
  /\ Succeeded(j)
  /\ Note("COMMIT_OK", j)
  /\ step' = [step EXCEPT ![j] = "mr"]
  /\ Hangup(j)
  /\ UNCHANGED <<gitlab, orig, expired>>

MRFailed(j) ==
  /\ step[j] = "mr"
  /\ Failed(j)
  /\ Note("MR_FAILED", j)
  /\ step' = [step EXCEPT ![j] = "returned"]
  /\ Hangup(j)
  /\ UNCHANGED <<gitlab, orig, expired>>

MRCreated(j) ==
  /\ step[j] = "mr"
  /\ Succeeded(j)
  /\ Note("MR_CREATED", j)
  /\ step' = [step EXCEPT ![j] = "returned"]
  /\ Hangup(j)
  /\ UNCHANGED <<gitlab, orig, expired>>

ClientStep(j) ==
  \/ Send(j) \/ Abort(j) \/ Retry(j)
  \/ CommitFailed(j) \/ CommitOK(j) \/ MRFailed(j) \/ MRCreated(j)
ServerStep(j) == Drop(j) \/ Refuse(j) \/ Push(j) \/ Open(j)

Next ==
  \/ Edit
  \/ \E j \in Jobs : Read(j)
  \/ \E j \in Jobs : ClientStep(j)
  \/ \E j \in Jobs : ServerStep(j)
  \/ \E j \in Jobs : Expire(j)

Spec == Init /\ [][Next]_vars

(* The client goes on and its context's timer fires; GitLab need not answer.*)
Fairness == \A j \in Jobs : WF_vars(ClientStep(j)) /\ WF_vars(Expire(j))
FairSpec == Spec /\ Fairness

-----------------------------------------------------------------------------
Noted(action, j) == \E k \in DOMAIN trail[j] : trail[j][k] = action

TypeOK ==
  /\ head \in 0 .. MaxEdits
  /\ commits \in [Branches -> Seq([by : Jobs, orig : 0 .. MaxEdits])]
  /\ cutFrom \in [Branches -> 0 .. MaxEdits]
  /\ open \subseteq Branches
  /\ step \in [Jobs -> {"read", "commit", "mr", "returned"}]
  /\ orig \in [Jobs -> 0 .. MaxEdits]
  /\ wire \in [Jobs -> {"idle", "pending", "ok", "garbled", "refused", "failed"}]
  /\ tries \in [Jobs -> 0 .. MaxRetries]
  /\ expired \in [Jobs -> BOOLEAN]
  /\ missed \subseteq Jobs
  /\ trail \in [Jobs -> Seq({"COMMIT_OK", "COMMIT_FAILED", "MR_CREATED", "MR_FAILED"})]

(* What the ledger says was done was done at GitLab, whatever was lost on   *)
(* the way: COMMIT_OK means the branch holds the job's content, MR_CREATED  *)
(* that it also has a merge request.                                        *)
DoneWasDone ==
  \A j \in Jobs :
    /\ Noted("COMMIT_OK", j) =>
         \E k \in DOMAIN commits[Source(j)] : commits[Source(j)][k] = Content(j)
    /\ Noted("MR_CREATED", j) => Source(j) \in open

(* A branch under review holds what its own job had approved and nothing of *)
(* another job's, however often a push was repeated.                        *)
ReviewedIsApproved ==
  \A j \in Jobs :
    Source(j) \in open =>
      \A k \in DOMAIN commits[Source(j)] : commits[Source(j)][k] = Content(j)

(* A job none of whose appends failed left one of the documented sequences: *)
(* COMMIT_FAILED, COMMIT_OK MR_FAILED, or COMMIT_OK MR_CREATED.             *)
Documented ==
  {<<"COMMIT_FAILED">>, <<"COMMIT_OK", "MR_FAILED">>, <<"COMMIT_OK", "MR_CREATED">>}
TrailIsDocumented ==
  \A j \in Jobs : step[j] = "returned" /\ j \notin missed => trail[j] \in Documented

(* Of one call, httputil.Do sends an attempt only before the deadline, as   *)
(* the first or after one that failed, never after an answer, and MaxRetries *)
(* at most: the count starts anew only with the next call.                  *)
Due(j) == wire[j] = "idle" /\ ~expired[j] /\ tries[j] < MaxRetries
NothingSentLate ==
  [][\A j \in Jobs :
       /\ wire'[j] = "pending" /\ wire[j] # "pending" => Due(j)
       /\ step'[j] = step[j] =>
            /\ wire'[j] = "idle" /\ wire[j] # "idle" => wire[j] = "failed"
            /\ tries'[j] >= tries[j]]_vars

(* ApplyAndOpenMR returns even if GitLab never answers.                     *)
EveryJobReturns == \A j \in Jobs : step[j] \in {"commit", "mr"} ~> step[j] = "returned"

(* gitlab/client.go:21-23, "the patched file is computed against the same   *)
(* content GitLab will accept": a branch is cut from the edit its content   *)
(* was computed against.                                                    *)
PatchedWhatItReplaces ==
  \A j \in Jobs : commits[Source(j)] # <<>> => cutFrom[Source(j)] = orig[j]
=============================================================================
