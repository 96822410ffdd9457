------------------------------- MODULE Webhook -------------------------------
(***************************************************************************)
(* The webhook receiver (fivetran.Receiver) and the pipeline it spawns      *)
(* (main.go runPipeline), in a process that is shut down, crashes and       *)
(* starts again.  A pipeline's stages are one call each here; AuditLedger   *)
(* is what lies behind the ledger, whose appends are atomic.                *)
(***************************************************************************)
EXTENDS Naturals, Sequences

CONSTANTS
  Events,       \* event identifiers (event type and sync_id)
  Triggering,   \* those for which TriggersRepair holds
  Deliveries,   \* webhook requests Fivetran sends, redeliveries included
  NoEvent,      \* a delivery not sent yet
  StoreFaults,  \* whether an append may fail for a reason other than its context
  MaxStarts     \* bound: starts of the process

ASSUME EventAssumption == Triggering \subseteq Events /\ NoEvent \notin Events
ASSUME StoreAssumption == StoreFaults \in BOOLEAN
ASSUME StartAssumption == MaxStarts \in Nat \ {0}

VARIABLES
  service,  \* the process: "up", "draining" or "down"
  starts,   \* how often it started
  event,    \* by delivery: its event
  handler,  \* by delivery: where ServeHTTP stands
  answer,   \* by delivery: the response written
  stage,    \* by delivery: where its pipeline stands
  overdue,  \* by delivery: whether PipelineTimeout has passed
  missed,   \* by delivery: whether an append of its pipeline failed
  verdict,  \* by delivery: what Evaluate returned
  mr,       \* deliveries for which GitLab opened a merge request
  ledger    \* the entries of the audit ledger, oldest first

vars == <<service, starts, event, handler, answer, stage, overdue, missed, verdict,
          mr, ledger>>
pipeVars == <<stage, overdue, missed, verdict, mr>>
webVars == <<event, handler, answer>>

-----------------------------------------------------------------------------
Stages == {"validate_connector", "diagnose", "validate", "repair", "evaluate", "commit"}
Running == Stages \cup {"complete", "flush"}

(* runPipeline calls the stages one after the other. *)
After(s) ==
  CASE s = "validate_connector" -> "diagnose"
    [] s = "diagnose"           -> "validate"
    [] s = "validate"           -> "repair"
    [] s = "repair"             -> "evaluate"
    [] s = "evaluate"           -> "commit"
    [] s = "commit"             -> "complete"

(* The stages whose calls end with the context; the others are local. *)
Remote == {"diagnose", "repair", "commit"}

AnonymousEntry(action, d) == [action |-> action, event |-> NoEvent, by |-> d]
Entry(action, d) == [action |-> action, event |-> event[d], by |-> d]

Entries(action, e) == {k \in DOMAIN ledger : ledger[k].action = action /\ ledger[k].event = e}

(* The unique index on source_event_id. *)
RunningOnly(e) == \E d \in Deliveries : event[d] = e /\ stage[d] \in Running
Received(e) == \E k \in DOMAIN ledger :
                 ledger[k].action = "FIVETRAN_RECEIVED" /\ ledger[k].event = e

(* An append whose error is dropped; past its context's deadline it fails.  *)
Note(action, d, expired) ==
  \/ /\ ~expired
     /\ ledger' = Append(ledger, Entry(action, d))
     /\ UNCHANGED missed
  \/ /\ expired \/ StoreFaults
     /\ missed' = [missed EXCEPT ![d] = TRUE]
     /\ UNCHANGED ledger

-----------------------------------------------------------------------------
Init ==
  /\ service = "up"
  /\ starts = 1
  /\ event = [d \in Deliveries |-> NoEvent]
  /\ handler = [d \in Deliveries |-> "none"]
  /\ answer = [d \in Deliveries |-> "none"]
  /\ stage = [d \in Deliveries |-> "none"]
  /\ overdue = [d \in Deliveries |-> FALSE]
  /\ missed = [d \in Deliveries |-> FALSE]
  /\ verdict = [d \in Deliveries |-> "none"]
  /\ mr = {}
  /\ ledger = <<>>

(* Fivetran sends an event, for the first time or again. *)
Deliver(d, e) ==
  /\ service = "up"
  /\ handler[d] = "none"
  /\ handler' = [handler EXCEPT ![d] = "received"]
  /\ event' = [event EXCEPT ![d] = e]
  /\ UNCHANGED <<service, starts, answer, ledger, pipeVars>>

Answer(d, a) ==
  /\ handler' = [handler EXCEPT ![d] = "done"]
  /\ answer' = [answer EXCEPT ![d] = a]

(* ServeHTTP: unreadable body, bad signature or malformed payload. *)
Refuse(d) ==
  /\ handler[d] = "received"
  /\ Answer(d, "refused")
  /\ UNCHANGED <<service, starts, event, ledger, pipeVars>>

(* ServeHTTP: AppendWithEvent wrote FIVETRAN_RECEIVED. *)
Record(d) ==
  /\ handler[d] = "received"
  /\ ~Received(event[d])
  /\ ledger' = Append(ledger, Entry("FIVETRAN_RECEIVED", d))
  /\ handler' = [handler EXCEPT ![d] = "recorded"]
  /\ UNCHANGED <<service, starts, event, answer, pipeVars>>

(* ServeHTTP: AppendWithEvent returned ErrDuplicateEvent. *)
Duplicate(d) ==
  /\ handler[d] = "received"
  /\ Received(event[d])
  /\ Answer(d, "duplicate")
  /\ UNCHANGED <<service, starts, event, ledger, pipeVars>>

(* ServeHTTP: AppendWithEvent failed, before or after its commit. *)
AppendError(d) ==
  /\ StoreFaults
  /\ handler[d] = "received"
  /\ Answer(d, "failed")
  /\ \/ UNCHANGED ledger
     \/ /\ ~Received(event[d])
        /\ ledger' = Append(ledger, Entry("FIVETRAN_RECEIVED", d))
  /\ UNCHANGED <<service, starts, event, pipeVars>>

(* ServeHTTP: an event that triggers no repair is only acknowledged. *)
Acknowledge(d) ==
  /\ handler[d] = "recorded"
  /\ event[d] \notin Triggering
  /\ Answer(d, "acknowledged")
  /\ UNCHANGED <<service, starts, event, ledger, pipeVars>>

(* ServeHTTP: spawnPipeline, then 202. *)
AcceptAtOnce(d) ==
  /\ handler[d] \in {"received", "recorded"}
  /\ event[d] \in Triggering
  /\ stage' = [stage EXCEPT ![d] = "validate_connector"]
  /\ Answer(d, "accepted")
  /\ UNCHANGED <<service, starts, event, ledger, overdue, missed, verdict, mr>>
Accept(d) ==
  /\ handler[d] = "recorded"
  /\ event[d] \in Triggering
  /\ stage' = [stage EXCEPT ![d] = "validate_connector"]
  /\ Answer(d, "accepted")
  /\ UNCHANGED <<service, starts, event, ledger, overdue, missed, verdict, mr>>

-----------------------------------------------------------------------------
(* runPipeline: a stage returned without error. *)
BlindPass(d) ==
  /\ stage[d] \in Stages
  /\ stage[d] \in Remote => ~overdue[d]
  /\ stage' = [stage EXCEPT ![d] = After(stage[d])]
  /\ verdict' = IF stage[d] = "evaluate" THEN [verdict EXCEPT ![d] = "BLOCK"] ELSE verdict
  /\ mr' = IF stage[d] = "commit" THEN mr \cup {d} ELSE mr
  /\ UNCHANGED <<service, starts, ledger, overdue, missed, webVars>>
Pass(d) ==
  /\ stage[d] \in Stages
  /\ stage[d] \in Remote => ~overdue[d]
  /\ stage' = [stage EXCEPT ![d] = After(stage[d])]
  /\ verdict' = IF stage[d] = "evaluate" THEN [verdict EXCEPT ![d] = "ALLOW"] ELSE verdict
  /\ mr' = IF stage[d] = "commit" THEN mr \cup {d} ELSE mr
  /\ UNCHANGED <<service, starts, ledger, overdue, missed, webVars>>

(* runPipeline: a stage returned an error, or Evaluate its BLOCK, and       *)
(* fail wrote PIPELINE_FAILED on the pipeline's context.  An error of       *)
(* ApplyAndOpenMR does not tell that GitLab opened no merge request.        *)
FallThrough(d) ==
  /\ stage[d] \in Stages
  /\ Note("PIPELINE_FAILED", d, overdue[d])
  /\ stage' = [stage EXCEPT ![d] = After(stage[d])]
  /\ UNCHANGED <<service, starts, verdict, mr, overdue, webVars>>
SilentFail(d) ==
  /\ stage[d] \in Stages
  /\ stage' = [stage EXCEPT ![d] = "flush"]
  /\ UNCHANGED <<service, starts, ledger, missed, verdict, mr, overdue, webVars>>
Fail(d) ==
  /\ stage[d] \in Stages
  /\ Note("PIPELINE_FAILED", d, overdue[d])
  /\ stage' = [stage EXCEPT ![d] = "flush"]
  /\ verdict' = IF stage[d] = "evaluate" THEN [verdict EXCEPT ![d] = "BLOCK"] ELSE verdict
  /\ \/ stage[d] = "commit" /\ mr' = mr \cup {d}
     \/ UNCHANGED mr
  /\ UNCHANGED <<service, starts, overdue, webVars>>

(* runPipeline: PIPELINE_COMPLETE, again on the pipeline's context. *)
CompleteOnlyInTime(d) ==
  /\ stage[d] = "complete"
  /\ ~overdue[d]
  /\ Note("PIPELINE_COMPLETE", d, FALSE)
  /\ stage' = [stage EXCEPT ![d] = "flush"]
  /\ UNCHANGED <<service, starts, overdue, verdict, mr, webVars>>
Complete(d) ==
  /\ stage[d] = "complete"
  /\ Note("PIPELINE_COMPLETE", d, overdue[d])
  /\ stage' = [stage EXCEPT ![d] = "flush"]
  /\ UNCHANGED <<service, starts, overdue, verdict, mr, webVars>>

(* spawnPipeline: the spans are flushed and the goroutine ends. *)
Flush(d) ==
  /\ stage[d] = "flush"
  /\ stage' = [stage EXCEPT ![d] = "ended"]
  /\ UNCHANGED <<service, starts, ledger, overdue, missed, verdict, mr, webVars>>

(* spawnPipeline: a panic is recovered and recorded without a deadline. *)
Panic(d) ==
  /\ stage[d] \in Running
  /\ Note("PIPELINE_PANICKED", d, FALSE)
  /\ stage' = [stage EXCEPT ![d] = "ended"]
  /\ UNCHANGED <<service, starts, overdue, verdict, mr, webVars>>

(* PipelineTimeout passes. *)
Expire(d) ==
  /\ stage[d] \in Running \ {"flush"}
  /\ ~overdue[d]
  /\ overdue' = [overdue EXCEPT ![d] = TRUE]
  /\ UNCHANGED <<service, starts, ledger, stage, missed, verdict, mr, webVars>>

-----------------------------------------------------------------------------
(* run: SIGTERM; Shutdown takes no new request. *)
Terminate ==
  /\ service = "up"
  /\ service' = "draining"
  /\ UNCHANGED <<starts, ledger, webVars, pipeVars>>

(* The process is gone, and with it every handler and every pipeline. *)
Die ==
  /\ service' = "down"
  /\ handler' = [d \in Deliveries |->
                   IF handler[d] \in {"received", "recorded"} THEN "lost" ELSE handler[d]]
  /\ stage' = [d \in Deliveries |-> IF stage[d] \in Running THEN "killed" ELSE stage[d]]
  /\ UNCHANGED <<starts, event, answer, overdue, missed, verdict, mr, ledger>>

(* run: Shutdown returned since every handler answered: nothing waits for   *)
(* the pipelines.                                                           *)
Stop ==
  /\ service = "draining"
  /\ \A d \in Deliveries : handler[d] \notin {"received", "recorded"}
  /\ Die

(* A crash, or shutdownTimeout with a handler still at work. *)
Crash ==
  /\ service # "down"
  /\ Die

Start ==
  /\ service = "down"
  /\ starts < MaxStarts
  /\ service' = "up"
  /\ starts' = starts + 1
  /\ UNCHANGED <<ledger, webVars, pipeVars>>

HandlerStep(d) ==
  Refuse(d) \/ Record(d) \/ Duplicate(d) \/ AppendError(d) \/ Acknowledge(d) \/ Accept(d)
PipelineStep(d) == Pass(d) \/ Fail(d) \/ Complete(d) \/ Flush(d)

Next ==
  \/ \E d \in Deliveries, e \in Events : Deliver(d, e)
  \/ \E d \in Deliveries : HandlerStep(d)
  \/ \E d \in Deliveries : PipelineStep(d)
  \/ \E d \in Deliveries : Panic(d)
  \/ \E d \in Deliveries : Expire(d)
  \/ Terminate
  \/ Stop
  \/ Crash
  \/ Start

Spec == Init /\ [][Next]_vars

(* A handler's and a pipeline's calls return: each has a timeout of its own *)
(* or ends with its context.  Nothing is assumed of Fivetran or of signals. *)
Fairness == \A d \in Deliveries : WF_vars(HandlerStep(d)) /\ WF_vars(PipelineStep(d))
FairSpec == Spec /\ Fairness

-----------------------------------------------------------------------------
TypeOK ==
  /\ service \in {"up", "draining", "down"}
  /\ starts \in 1 .. MaxStarts
  /\ event \in [Deliveries -> Events \cup {NoEvent}]
  /\ handler \in [Deliveries -> {"none", "received", "recorded", "done", "lost"}]
  /\ answer \in [Deliveries -> {"none", "refused", "duplicate", "failed",
                                "acknowledged", "accepted"}]
  /\ stage \in [Deliveries -> Running \cup {"none", "ended", "killed"}]
  /\ overdue \in [Deliveries -> BOOLEAN]
  /\ missed \in [Deliveries -> BOOLEAN]
  /\ verdict \in [Deliveries -> {"none", "ALLOW", "BLOCK"}]
  /\ mr \subseteq Deliveries
  /\ ledger \in Seq([action : {"FIVETRAN_RECEIVED", "PIPELINE_FAILED", "PIPELINE_COMPLETE",
                               "PIPELINE_PANICKED"},
                     event : Events, by : Deliveries])

(* However often an event is delivered, at once or after a restart, at most *)
(* one pipeline is ever started for it.                                     *)
OnePipelinePerEvent ==
  \A c, d \in Deliveries :
    c # d /\ stage[c] # "none" /\ stage[d] # "none" => event[c] # event[d]

(* A 2xx answer stands for a receipt in the ledger, and a 202 for a         *)
(* pipeline that was started for the receipt this very delivery wrote.      *)
AnswersAreTrue ==
  \A d \in Deliveries :
    /\ answer[d] \in {"duplicate", "acknowledged", "accepted"} => Received(event[d])
    /\ answer[d] = "accepted" =>
         /\ stage[d] # "none"
         /\ \E k \in DOMAIN ledger : ledger[k].action = "FIVETRAN_RECEIVED" /\ ledger[k].by = d

(* The ledger holds at most one of PIPELINE_FAILED and PIPELINE_COMPLETE    *)
(* for an event, and holds it after the event's only receipt; a pipeline    *)
(* that ran to its end without a failed append has left its outcome there.  *)
Outcome(e) ==
  \E a \in {"PIPELINE_FAILED", "PIPELINE_COMPLETE", "PIPELINE_PANICKED"} : Entries(a, e) # {}
OneOutcome ==
  /\ \A e \in Events :
       LET outcomes == Entries("PIPELINE_FAILED", e) \cup Entries("PIPELINE_COMPLETE", e)
       IN  \A j, k \in outcomes :
             /\ j = k
             /\ \E r \in Entries("FIVETRAN_RECEIVED", e) :
                  r < k /\ Entries("FIVETRAN_RECEIVED", e) = {r}
  /\ \A d \in Deliveries : stage[d] = "ended" /\ ~missed[d] => Outcome(event[d])

(* A merge request is opened only for a patch the gate allowed, and an      *)
(* event recorded as complete has one.                                      *)
MergeRequestsAreGated ==
  /\ \A d \in mr : verdict[d] = "ALLOW"
  /\ \A k \in DOMAIN ledger : ledger[k].action = "PIPELINE_COMPLETE" => ledger[k].by \in mr

(* Every request is answered and every pipeline ends, unless the process    *)
(* goes down under it.                                                      *)
EverythingEnds ==
  \A d \in Deliveries :
    /\ handler[d] = "received" ~> handler[d] \in {"done", "lost"}
    /\ answer[d] = "accepted" ~> stage[d] \in {"ended", "killed"}
=============================================================================
