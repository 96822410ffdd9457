--------------------------------- MODULE Gate ---------------------------------
(***************************************************************************)
(* evaluate.Gate.Evaluate, called by concurrent pipelines: the set of       *)
(* rejected diffs, the local check, the audit entry, and the goroutine that *)
(* indexes a rejected diff on a context of its own.                         *)
(***************************************************************************)
EXTENDS LocalCheck

CONSTANTS
  Calls,        \* calls of Evaluate
  Changes,      \* what they may be called with
  Of,           \* by change: the diff, the file before and the file after it
  NoChange,     \* no change
  StoreFaults,  \* whether an append may fail for a reason other than its context
  MaxStarts     \* bound: starts of the process

ASSUME ChangeAssumption ==
  \A c \in Changes : Of[c].diff \in STRING /\ Of[c].orig \in File /\ Of[c].patched \in File
(* The file on the target branch compiles, if it is Go at all. *)
ASSUME OrigAssumption == \A c \in Changes : DeclaredOnce(Of[c].orig)
ASSUME BoundAssumption == StoreFaults \in BOOLEAN /\ MaxStarts \in Nat \ {0}

VARIABLES
  start,     \* which start of the process runs
  dedup,     \* Gate.dedup: the diffs rejected since then
  job,       \* by call: where it is, the start it belongs to and its change
  over,      \* calls whose context is done
  indexing,  \* calls whose indexing goroutine has not called the indexer yet
  indexed,   \* calls whose diff was handed to the indexer
  missed,    \* calls whose append failed
  ledger     \* the audit entries of the gate

vars == <<start, dedup, job, over, indexing, indexed, missed, ledger>>
world == <<start, over>>
indexVars == <<indexing, indexed>>
ledgerVars == <<missed, ledger>>

-----------------------------------------------------------------------------
Working == {"load", "check", "store", "block", "pass"}
Returned == {"ALLOW", "BLOCK", "DEDUPLICATED"}

Idle == [at |-> "idle", start |-> 0, change |-> NoChange]

Item(action, e) ==
  [action |-> action, sha |-> Of[job[e].change].diff, start |-> start, call |-> e]

(* The error of an append is dropped. *)
Note(action, e) ==
  \/ /\ e \notin over
     /\ ledger' = ledger \cup {Item(action, e)}
     /\ UNCHANGED missed
  \/ /\ e \in over \/ StoreFaults
     /\ missed' = missed \cup {e}
     /\ UNCHANGED ledger

GoTo(e, at) == job' = [job EXCEPT ![e].at = at]

(* The reasons the local check has against a change.                        *)
LocalReasons == [c \in Changes |-> RunLocal(Of[c].orig, Of[c].patched)]

Init ==
  /\ start = 1
  /\ dedup = {}
  /\ job = [e \in Calls |-> Idle]
  /\ over = {}
  /\ indexing = {}
  /\ indexed = {}
  /\ missed = {}
  /\ ledger = {}

(* A pipeline calls Evaluate with its approved patch. *)
Call(e, change) ==
  /\ job[e].at = "idle"
  /\ job' = [job EXCEPT ![e] = [at |-> "load", start |-> start, change |-> change]]
  /\ UNCHANGED <<world, dedup, indexVars, ledgerVars>>

(* A diff rejected before is blocked, whatever file it is for. *)
Load(e) ==
  /\ job[e].at = "load"
  /\ GoTo(e, IF Of[job[e].change].diff \in dedup THEN "DEDUPLICATED" ELSE "check")
  /\ UNCHANGED <<world, dedup, indexVars, ledgerVars>>

(* The local check; two calls may both have passed Load with one diff. *)
Check(e) ==
  /\ job[e].at = "check"
  /\ GoTo(e, IF LocalReasons[job[e].change] = {} THEN "pass" ELSE "store")
  /\ UNCHANGED <<world, dedup, indexVars, ledgerVars>>

(* LoadOrStore: the first call to reject a diff goes on. *)
StoreAlways(e) ==
  /\ job[e].at = "store"
  /\ GoTo(e, "block")
  /\ dedup' = dedup \cup {Of[job[e].change].diff}
  /\ UNCHANGED <<world, indexVars, ledgerVars>>
StoreByChange(e) ==
  /\ job[e].at = "store"
  /\ GoTo(e, IF job[e].change \in dedup THEN "DEDUPLICATED" ELSE "block")
  /\ dedup' = dedup \cup {job[e].change}
  /\ UNCHANGED <<world, indexVars, ledgerVars>>
LoadOrStore(e) ==
  /\ job[e].at = "store"
  /\ GoTo(e, IF Of[job[e].change].diff \in dedup THEN "DEDUPLICATED" ELSE "block")
  /\ dedup' = dedup \cup {Of[job[e].change].diff}
  /\ UNCHANGED <<world, indexVars, ledgerVars>>

(* The rejection is noted, and only then handed to a goroutine. *)
Block(e) ==
  /\ job[e].at = "block"
  /\ Note("EVALUATE_LOCAL_BLOCK", e)
  /\ indexing' = indexing \cup {e}
  /\ GoTo(e, "BLOCK")
  /\ UNCHANGED <<world, dedup, indexed>>

Pass(e) ==
  /\ job[e].at = "pass"
  /\ Note("EVALUATE_PASS", e)
  /\ GoTo(e, "ALLOW")
  /\ UNCHANGED <<world, dedup, indexVars>>

Step(e) == Load(e) \/ Check(e) \/ LoadOrStore(e) \/ Block(e) \/ Pass(e)

(* indexRejected: the indexer is called on a detached context, and its      *)
(* error is dropped.                                                        *)
IndexInTime(e) ==
  /\ e \in indexing
  /\ e \notin over
  /\ indexing' = indexing \ {e}
  /\ indexed' = indexed \cup {e}
  /\ UNCHANGED <<world, dedup, job, ledgerVars>>
Index(e) ==
  /\ e \in indexing
  /\ indexing' = indexing \ {e}
  /\ indexed' = indexed \cup {e}
  /\ UNCHANGED <<world, dedup, job, ledgerVars>>

(* The context of a pipeline is done: its deadline, or the pipeline ended.  *)
(* Only appends, and the code after them, could notice.                     *)
Expire(e) ==
  /\ job[e].at \in {"block", "pass", "BLOCK"}
  /\ e \notin over
  /\ over' = over \cup {e}
  /\ UNCHANGED <<start, dedup, job, indexVars, ledgerVars>>

(* The process ends and starts anew: the ledger stays. *)
Restart ==
  /\ start < MaxStarts
  /\ start' = start + 1
  /\ dedup' = {}
  /\ job' = [e \in Calls |-> IF job[e].at \in Working THEN [job[e] EXCEPT !.at = "lost"] ELSE job[e]]
  /\ indexing' = {}
  /\ UNCHANGED <<over, indexed, ledgerVars>>

Next ==
  \/ \E e \in Calls, change \in Changes : Call(e, change)
  \/ \E e \in Calls : Step(e)
  \/ \E e \in Calls : Index(e)
  \/ \E e \in Calls : Expire(e)
  \/ Restart

Spec == Init /\ [][Next]_vars

(* Goroutines run, and an append returns, at the latest with its context.   *)
FairSpec == Spec /\ \A e \in Calls : WF_vars(Step(e)) /\ WF_vars(Index(e))

-----------------------------------------------------------------------------
TypeOK ==
  /\ start \in 1 .. MaxStarts
  /\ dedup \subseteq {Of[c].diff : c \in Changes}
  /\ \A e \in Calls :
       /\ job[e].at \in Working \cup Returned \cup {"idle", "lost"}
       /\ job[e].start \in 0 .. start
       /\ job[e].change \in Changes \cup {NoChange}
  /\ over \subseteq Calls /\ missed \subseteq Calls
  /\ indexing \subseteq Calls /\ indexed \subseteq Calls
  /\ \A x \in ledger : x.action \in {"EVALUATE_PASS", "EVALUATE_LOCAL_BLOCK"} /\ x.call \in Calls

Noted(action, e) == \E x \in ledger : x.action = action /\ x.call = e
SameDiff(e, f) == Of[job[e].change].diff = Of[job[f].change].diff

Kept(c, In(_)) == Of[c].orig.parses => KeepsExported(Of[c].orig, Of[c].patched, In)

(* A verdict has its cause: ALLOW stands for a patched file that parses and *)
(* keeps the exported functions of a file that did, with their parameters,  *)
(* and BLOCK for a local check that failed in the same run of the process,  *)
(* of this very change or, if deduplicated, of one with the same diff; and  *)
(* the ledger says so, unless the append failed.                            *)
VerdictHasCause ==
  \A e \in Calls :
    /\ job[e].at = "ALLOW" =>
         /\ Of[job[e].change].patched.parses
         /\ Kept(job[e].change, Parameters)
         /\ e \in missed \/ Noted("EVALUATE_PASS", e)
    /\ job[e].at = "BLOCK" =>
         /\ LocalReasons[job[e].change] # {}
         /\ e \in missed \/ Noted("EVALUATE_LOCAL_BLOCK", e)
    /\ job[e].at = "DEDUPLICATED" =>
         \E f \in Calls \ {e} :
           /\ job[f].at \in {"block", "BLOCK", "lost"}
           /\ job[f].start = job[e].start
           /\ SameDiff(e, f)
           /\ LocalReasons[job[f].change] # {}

(* However many pipelines race for it, a rejected diff is noted once and    *)
(* indexed once per run of the process, and indexed only after the attempt  *)
(* to note it: an indexed diff is in the ledger unless that append failed.  *)
RejectedOnce ==
  /\ \A x, y \in {z \in ledger : z.action = "EVALUATE_LOCAL_BLOCK"} :
       x.sha = y.sha /\ x.start = y.start => x = y
  /\ \A e, f \in indexing \cup indexed :
       SameDiff(e, f) /\ job[e].start = job[f].start => e = f
  /\ \A e \in indexing \cup indexed : e \in missed \/ Noted("EVALUATE_LOCAL_BLOCK", e)

(* Every call returns, and what it rejected reaches the indexer even if the *)
(* pipeline that asked is over by then; unless the process ends.            *)
EvaluationsSettle ==
  \A e \in Calls :
    job[e].at \in Working ~>
      \/ start # job[e].start
      \/ job[e].at \in Returned /\ (job[e].at = "BLOCK" => e \in indexed)
=============================================================================
