------------------------------- MODULE Diagnose -------------------------------
(***************************************************************************)
(* diagnose.Engine.Diagnose: two legs that look up the contract (Elastic)   *)
(* and the consumers' health (Dynatrace) under one deadline, an optional    *)
(* third that reads prior repairs (Phoenix) under a deadline of its own,    *)
(* and the caller that joins them.  A leg may answer at any time or never.  *)
(* The Phoenix session is shared with other diagnoses (PhoenixSession).     *)
(***************************************************************************)
EXTENDS Naturals, Sequences, FiniteSets, Clients

CONSTANTS
  Sessions,    \* bound: see PhoenixSession
  StoreFaults  \* whether an append may fail for a reason other than its context

ASSUME SessionAssumption == Sessions \subseteq Nat \ {0}
ASSUME FaultAssumption == StoreFaults \in BOOLEAN

VARIABLES
  leg,       \* by leg of the fan-out: its answer and its own audit entry
  sent,      \* legs whose goroutine has ended
  results,   \* the channel the legs send to
  joined,    \* legs the caller has received from
  status, session, mu, query, on, failed,  \* the Phoenix query, see PhoenixSession
  inner,     \* the channel from the query to the watcher
  watcher,   \* the watcher: "off", "waiting" or "ended"
  outer,     \* the channel from the watcher to the caller
  done,      \* the contexts that are done: "parent", "fanout", "phoenix"
  main,      \* the caller: "joining", "judging", "attaching", "concluding" or "returned"
  priors,    \* whether prior repairs are attached
  returned,  \* "none", "result", "degraded" or "error"
  missed,    \* whether an append failed
  ledger     \* the audit entries of the caller, oldest first

legVars == <<leg, sent, results>>
sessionVars == <<status, session, mu, query, on, failed>>
phoenixVars == <<sessionVars, inner, watcher, outer>>
callerVars == <<joined, main, priors, returned, missed, ledger>>
vars == <<legVars, phoenixVars, callerVars, done>>

Phoenix == INSTANCE PhoenixSession WITH over <- "phoenix" \in done

-----------------------------------------------------------------------------
Legs == {"elastic", "dynatrace"}

(* What a leg may come back with: its entry is appended on the fan-out's    *)
(* context.  That context has a token, as the receiver always mints one.    *)
Noted == (IF "fanout" \in done THEN {} ELSE {TRUE})
         \cup (IF "fanout" \in done \/ StoreFaults THEN {FALSE} ELSE {})
OutcomesOf(l) ==
  IF l = "elastic"
  THEN {LookupContract(fetch, rrf, bm25, noted) :
          fetch \in Replies, rrf \in Replies, bm25 \in Replies, noted \in Noted}
  ELSE {QueryConsumerHealth(reply, noted) : reply \in Replies, noted \in Noted}
Asking == Outcome("asking", "none")

(* The buffer of the results channel. *)
ShortBuffer == 1
Capacity == 2

(* The results the caller waits for. *)
FirstOnly == 1
Awaited == 2

Note(action) ==
  \/ /\ "parent" \notin done
     /\ ledger' = Append(ledger, action)
     /\ UNCHANGED missed
  \/ /\ "parent" \in done \/ StoreFaults
     /\ missed' = TRUE
     /\ UNCHANGED ledger

-----------------------------------------------------------------------------
(* Diagnose has started its goroutines; Phoenix may be disabled. *)
Init ==
  /\ leg = [l \in Legs |-> Asking]
  /\ sent = {}
  /\ results = <<>>
  /\ joined = {}
  /\ done = {}
  /\ Phoenix!Init
  /\ watcher = IF query = "off" THEN "off" ELSE "waiting"
  /\ inner = <<>>
  /\ outer = <<>>
  /\ main = "joining"
  /\ priors = FALSE
  /\ returned = "none"
  /\ missed = FALSE
  /\ ledger = <<>>

(* A deadline passes; the parent's ends both others. *)
Expire(c) ==
  /\ c \notin done
  /\ done' = IF c = "parent" THEN {"parent", "fanout", "phoenix"} ELSE done \cup {c}
  /\ UNCHANGED <<legVars, phoenixVars, callerVars>>

(* LookupContract or QueryConsumerHealth returns ... *)
LegAnswers(l) ==
  /\ leg[l] = Asking
  /\ \E outcome \in OutcomesOf(l) : leg' = [leg EXCEPT ![l] = outcome]
  /\ UNCHANGED <<sent, results, done, phoenixVars, callerVars>>

(* ... and its goroutine sends the result, whether or not anyone waits. *)
LegSends(l) ==
  /\ leg[l] # Asking
  /\ l \notin sent
  /\ Len(results) < Capacity
  /\ results' = Append(results, l)
  /\ sent' = sent \cup {l}
  /\ UNCHANGED <<leg, done, phoenixVars, callerVars>>

(* QuerySpans goes on, or other queries use the session it shares. *)
QueryStep ==
  /\ UNCHANGED <<legVars, inner, watcher, outer, done, callerVars>>
  /\ Phoenix!QueryStep
OtherQueries ==
  /\ query # "off"
  /\ UNCHANGED <<legVars, inner, watcher, outer, done, callerVars>>
  /\ Phoenix!Others

(* queryPriorRepairs returns: prior repairs, or nothing for any error. *)
QueryAnswers ==
  /\ query \in {"spans", "error"}
  /\ query' = "ended"
  /\ on' = 0 /\ failed' = 0
  /\ inner' = Append(inner, IF query = "spans" THEN "history" ELSE "empty_optional")
  /\ UNCHANGED <<legVars, status, session, mu, watcher, outer, done, callerVars>>

(* launchPhoenix: the watcher passes the answer on, or gives up on it. *)
WatchUnbounded ==
  /\ watcher = "waiting"
  /\ inner # <<>>
  /\ outer' = Append(outer, Head(inner))
  /\ inner' = Tail(inner)
  /\ watcher' = "ended"
  /\ UNCHANGED <<legVars, sessionVars, done, callerVars>>
WatchAgain ==
  /\ watcher = "waiting"
  /\ \/ /\ inner # <<>>
        /\ outer' = Append(outer, Head(inner))
        /\ inner' = Tail(inner)
     \/ /\ "phoenix" \in done
        /\ outer' = Append(outer, "timeout")
        /\ watcher' = "ended"
        /\ UNCHANGED inner
  /\ watcher' \in {"waiting", "ended"}
  /\ UNCHANGED <<legVars, sessionVars, done, callerVars>>
Watch ==
  /\ watcher = "waiting"
  /\ \/ /\ inner # <<>>
        /\ outer' = Append(outer, Head(inner))
        /\ inner' = Tail(inner)
     \/ /\ "phoenix" \in done
        /\ outer' = Append(outer, "timeout")
        /\ UNCHANGED inner
  /\ watcher' = "ended"
  /\ UNCHANGED <<legVars, sessionVars, done, callerVars>>

-----------------------------------------------------------------------------
(* The caller receives a result. *)
Join ==
  /\ main = "joining"
  /\ results # <<>>
  /\ joined' = joined \cup {Head(results)}
  /\ results' = Tail(results)
  /\ main' = IF Cardinality(joined') >= Awaited THEN "judging" ELSE "joining"
  /\ UNCHANGED <<leg, sent, done, phoenixVars, priors, returned, missed, ledger>>

Return(action, value) ==
  /\ Note(action)
  /\ main' = "returned"
  /\ returned' = value
  /\ UNCHANGED <<joined, priors>>

(* The fan-out's deadline passes first; select may also prefer it. *)
TimeOut ==
  /\ main = "joining"
  /\ "fanout" \in done
  /\ Return("DIAGNOSIS_FAILED", "error")
  /\ UNCHANGED <<legVars, phoenixVars, done>>

(* What was received of a leg; the zero value before.  An error of either   *)
(* leg fails the diagnosis, unless it only says that telemetry is missing.  *)
Received(l) == IF l \in joined THEN leg[l].answer ELSE "zero"
HardFailed == \E l \in Legs : Received(l) = "error"
Degraded == Received("dynatrace") = "outage"

JudgeGoesOn ==
  /\ main = "judging"
  /\ main' = "attaching"
  /\ IF HardFailed THEN Note("DIAGNOSIS_FAILED") ELSE UNCHANGED <<missed, ledger>>
  /\ UNCHANGED <<legVars, phoenixVars, done, joined, priors, returned>>
Judge ==
  /\ main = "judging"
  /\ IF HardFailed
     THEN Return("DIAGNOSIS_FAILED", "error")
     ELSE main' = "attaching" /\ UNCHANGED <<joined, priors, returned, missed, ledger>>
  /\ UNCHANGED <<legVars, phoenixVars, done>>

(* attachPhoenix: nothing if Phoenix is disabled, else the watcher's answer *)
(* or, with the pipeline's context done, none.                              *)
Attach(mode) ==
  /\ priors' = (mode = "history")
  /\ Note(IF mode = "history" THEN "PHOENIX_HISTORY_OK" ELSE "PHOENIX_HISTORY_DEGRADED")
  /\ main' = "concluding"
  /\ UNCHANGED <<legVars, sessionVars, inner, watcher, done, joined, returned>>

AttachNothing ==
  /\ main = "attaching"
  /\ query = "off"
  /\ main' = "concluding"
  /\ UNCHANGED <<legVars, phoenixVars, done, joined, priors, returned, missed, ledger>>

AttachOrFail ==
  /\ main = "attaching"
  /\ outer # <<>>
  /\ IF Head(outer) = "timeout"
     THEN Return("DIAGNOSIS_FAILED", "error") /\ UNCHANGED <<legVars, sessionVars, inner, watcher, done>>
     ELSE Attach(Head(outer))
  /\ outer' = Tail(outer)
AttachAnswer ==
  /\ main = "attaching"
  /\ outer # <<>>
  /\ Attach(Head(outer))
  /\ outer' = Tail(outer)

AttachGivesUp ==
  /\ main = "attaching"
  /\ query # "off"
  /\ "parent" \in done
  /\ Attach("empty_optional")
  /\ UNCHANGED outer

(* The verdict is noted and the result returned. *)
Conclude ==
  /\ main = "concluding"
  /\ IF Degraded THEN Return("DIAGNOSIS_DEGRADED", "degraded")
     ELSE Return("DIAGNOSIS_OK", "result")
  /\ UNCHANGED <<legVars, phoenixVars, done>>

CallerStep ==
  Join \/ TimeOut \/ Judge \/ AttachNothing \/ AttachAnswer \/ AttachGivesUp \/ Conclude

Next ==
  \/ \E c \in {"parent", "fanout", "phoenix"} : Expire(c)
  \/ \E l \in Legs : LegAnswers(l)
  \/ \E l \in Legs : LegSends(l)
  \/ QueryStep
  \/ OtherQueries
  \/ QueryAnswers
  \/ Watch
  \/ CallerStep

Spec == Init /\ [][Next]_vars

(* Goroutines that can run do, and both deadlines pass.  The services need  *)
(* not answer, and nothing is assumed of the pipeline's own deadline.       *)
Fairness ==
  /\ WF_vars(CallerStep)
  /\ WF_vars(Watch)
  /\ \A l \in Legs : WF_vars(LegSends(l))
  /\ WF_vars(Expire("fanout"))
  /\ WF_vars(Expire("phoenix"))
FairSpec == Spec /\ Fairness

-----------------------------------------------------------------------------
Entries == {"none", "ELASTIC_LOOKUP_OK", "ELASTIC_LOOKUP_DEGRADED", "ELASTIC_LOOKUP_FAILED",
            "DYNATRACE_DQL_OK", "DYNATRACE_DQL_FAILED"}

TypeOK ==
  /\ leg \in [Legs -> [answer : {"asking", "contract", "health", "outage", "error"}, entry : Entries]]
  /\ sent \subseteq Legs
  /\ results \in Seq(Legs) /\ Len(results) =< Capacity
  /\ joined \subseteq Legs
  /\ Phoenix!SessionTypeOK
  /\ inner \in Seq({"history", "empty_optional"}) /\ Len(inner) =< 1
  /\ watcher \in {"off", "waiting", "ended"}
  /\ outer \in Seq({"history", "empty_optional", "timeout"}) /\ Len(outer) =< 1
  /\ done \subseteq {"parent", "fanout", "phoenix"}
  /\ main \in {"joining", "judging", "attaching", "concluding", "returned"}
  /\ priors \in BOOLEAN
  /\ returned \in {"none", "result", "degraded", "error"}
  /\ missed \in BOOLEAN
  /\ ledger \in Seq({"DIAGNOSIS_OK", "DIAGNOSIS_DEGRADED", "DIAGNOSIS_FAILED",
                    "PHOENIX_HISTORY_OK", "PHOENIX_HISTORY_DEGRADED"})

(* A diagnosis rests on a contract that was received and whose lookup is in *)
(* the ledger, and claims consumer health exactly if that was received and  *)
(* recorded too: never on the zero value of a leg that was still on its     *)
(* way.  And an error has its cause in the fan-out: an error that was       *)
(* received from a leg, or its deadline while an answer was missing.        *)
(* Phoenix alone, however its session fares, never costs a diagnosis.  Of   *)
(* Dynatrace this is what engine.go:83-87 says; README.md and program.md    *)
(* promise more, see OnlyElasticIsFatal.                                    *)
VerdictHasCause ==
  /\ returned \in {"result", "degraded"} =>
       /\ Legs \subseteq joined
       /\ leg["elastic"].answer = "contract"
       /\ leg["elastic"].entry \in {"ELASTIC_LOOKUP_OK", "ELASTIC_LOOKUP_DEGRADED"}
       /\ IF returned = "result"
          THEN leg["dynatrace"] = Outcome("health", "DYNATRACE_DQL_OK")
          ELSE leg["dynatrace"].answer = "outage"
  /\ returned = "error" =>
       \/ \E l \in joined : leg[l].answer = "error"
       \/ "fanout" \in done /\ joined # Legs

(* The ledger of a diagnosis none of whose appends failed ends with the     *)
(* verdict that was returned, after at most one Phoenix entry, which says   *)
(* OK exactly if prior repairs are attached.                                *)
VerdictOf(value) ==
  CASE value = "result"   -> "DIAGNOSIS_OK"
    [] value = "degraded" -> "DIAGNOSIS_DEGRADED"
    [] value = "error"    -> "DIAGNOSIS_FAILED"
History == IF priors THEN "PHOENIX_HISTORY_OK" ELSE "PHOENIX_HISTORY_DEGRADED"
TrailMatchesReturn ==
  returned # "none" /\ ~missed =>
    ledger = IF query = "off" \/ returned = "error" THEN <<VerdictOf(returned)>>
             ELSE <<History, VerdictOf(returned)>>

(* No subprocess is left behind: a session that was dialled and not closed  *)
(* is the one the client holds, however queries dial, fail and reset; and   *)
(* a query calls again only on another session than the one that failed it. *)
NoStraySession == Phoenix!NoStraySession
RetryUsesAnother == Phoenix!RetryUsesAnother

(* README.md:57-58, "Elastic failure is a hard fail. Dynatrace and Phoenix  *)
(* failures are soft fails, and the diagnosis proceeds in degraded mode":   *)
(* with the contract in hand and time left in the pipeline no diagnosis     *)
(* fails.  In the code a Dynatrace fails it that is silent until the        *)
(* fan-out's deadline, and one whose answer is neither health nor an outage.*)
OnlyElasticIsFatal ==
  returned = "error" /\ "parent" \notin done /\ "elastic" \in joined
    => leg["elastic"].answer = "error"

(* Diagnose returns even if no service ever answers, and a leg that gets    *)
(* its answer ends, also when Diagnose returned before it.                  *)
DiagnoseEnds ==
  /\ <>(main = "returned")
  /\ \A l \in Legs : leg[l] # Asking ~> l \in sent
=============================================================================
