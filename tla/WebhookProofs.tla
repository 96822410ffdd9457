---------------------------- MODULE WebhookProofs ----------------------------
(* Proofs about Webhook for any number of deliveries, events and restarts:  *)
(* one pipeline per event and one outcome, true answers, merge requests     *)
(* only past the gate.                                                      *)
EXTENDS Webhook, TLAPS

Actions == {"FIVETRAN_RECEIVED", "PIPELINE_FAILED", "PIPELINE_COMPLETE", "PIPELINE_PANICKED"}
EntryType == [action : Actions, event : Events, by : Deliveries]

(* Ledger l holds a receipt of event e; one that d wrote; one per event     *)
(* only; and completions of deliveries in m only.                           *)
IsReceipt(x, e) == x.action = "FIVETRAN_RECEIVED" /\ x.event = e
HasReceipt(l, e) == \E k \in 1 .. Len(l) : IsReceipt(l[k], e)
Wrote(l, d, e) == \E k \in 1 .. Len(l) : IsReceipt(l[k], e) /\ l[k].by = d
Single(l) ==
  \A e \in Events : \A j, k \in 1 .. Len(l) : IsReceipt(l[j], e) /\ IsReceipt(l[k], e) => j = k
Completed(l, m) == \A k \in 1 .. Len(l) : l[k].action = "PIPELINE_COMPLETE" => l[k].by \in m

(* A delivery has an event once it is sent, and neither an answer nor a     *)
(* pipeline before its handler is done.                                     *)
Phases ==
  \A d \in Deliveries :
    /\ handler[d] # "none" => event[d] \in Events
    /\ handler[d] # "done" => stage[d] = "none" /\ answer[d] = "none"

(* A recorded delivery and one with a pipeline wrote the receipt of its     *)
(* event, the only one there is.                                            *)
Receipts ==
  /\ Single(ledger)
  /\ \A d \in Deliveries :
       handler[d] = "recorded" \/ stage[d] # "none" => Wrote(ledger, d, event[d])

(* What an answer says. *)
Answered ==
  \A d \in Deliveries :
    /\ answer[d] \in {"duplicate", "acknowledged", "accepted"} => HasReceipt(ledger, event[d])
    /\ answer[d] = "accepted" => stage[d] # "none"

(* A pipeline that committed is past the gate, and never comes back to it.  *)
Gated ==
  /\ \A d \in mr : verdict[d] = "ALLOW" /\ stage[d] \in {"complete", "flush", "ended", "killed"}
  /\ \A d \in Deliveries :
       /\ stage[d] = "commit" => verdict[d] = "ALLOW"
       /\ stage[d] = "complete" => d \in mr
  /\ Completed(ledger, mr)

WebInv == TypeOK /\ Phases /\ Receipts /\ Answered /\ Gated

-----------------------------------------------------------------------------
(* What an append does to a ledger. *)
LEMMA AppendFacts ==
  ASSUME NEW l \in Seq(EntryType), NEW e \in EntryType
  PROVE  /\ Append(l, e) \in Seq(EntryType)
         /\ Len(l) \in Nat
         /\ DOMAIN l = 1 .. Len(l)
         /\ Len(Append(l, e)) = Len(l) + 1
         /\ \A k \in 1 .. Len(l) : Append(l, e)[k] = l[k]
         /\ Append(l, e)[Len(l) + 1] = e
OBVIOUS

(* A receipt stays in a ledger that grows by one entry.                     *)
LEMMA ReceiptsStay ==
  ASSUME NEW l \in Seq(EntryType), NEW e \in EntryType, NEW m
  PROVE  /\ \A x : HasReceipt(l, x) => HasReceipt(Append(l, e), x)
         /\ \A d, x : Wrote(l, d, x) => Wrote(Append(l, e), d, x)
         /\ Completed(l, m) /\ e.action # "PIPELINE_COMPLETE" => Completed(Append(l, e), m)
         /\ Completed(l, m) /\ e.by \in m => Completed(Append(l, e), m)
<1> DEFINE n == Append(l, e)
<1>1. /\ Len(l) \in Nat /\ Len(n) = Len(l) + 1
      /\ \A k \in 1 .. Len(l) : n[k] = l[k]
      /\ n[Len(l) + 1] = e
  BY AppendFacts
<1> HIDE DEF n
<1>2. ASSUME NEW k \in 1 .. Len(l) PROVE k \in 1 .. Len(n)
  BY <1>1
<1>3. \A x : HasReceipt(l, x) => HasReceipt(n, x)
  BY <1>1, <1>2 DEF HasReceipt
<1>4. \A d, x : Wrote(l, d, x) => Wrote(n, d, x)
  BY <1>1, <1>2 DEF Wrote
<1>5. ASSUME NEW k \in 1 .. Len(n) PROVE k \in 1 .. Len(l) \/ k = Len(l) + 1
  BY <1>1
<1>6. Completed(l, m) /\ e.action # "PIPELINE_COMPLETE" => Completed(n, m)
  BY <1>1, <1>5 DEF Completed
<1>7. Completed(l, m) /\ e.by \in m => Completed(n, m)
  BY <1>1, <1>5 DEF Completed
<1>8. QED
  BY <1>3, <1>4, <1>6, <1>7 DEF n

(* A ledger that grows by no second receipt has one per event still.        *)
LEMMA ReceiptsSingle ==
  ASSUME NEW l \in Seq(EntryType), NEW e \in EntryType, Single(l),
         e.action # "FIVETRAN_RECEIVED" \/ ~HasReceipt(l, e.event)
  PROVE  Single(Append(l, e))
<1> DEFINE n == Append(l, e)
<1>1. /\ Len(l) \in Nat /\ Len(n) = Len(l) + 1
      /\ \A k \in 1 .. Len(l) : n[k] = l[k]
      /\ n[Len(l) + 1] = e
  BY AppendFacts
<1> HIDE DEF n
<1>2. ASSUME NEW k \in 1 .. Len(n) PROVE k \in 1 .. Len(l) \/ k = Len(l) + 1
  BY <1>1
<1>3. ASSUME NEW x, NEW k \in 1 .. Len(l), IsReceipt(n[k], x), IsReceipt(e, x) PROVE FALSE
  BY <1>1, <1>3 DEF IsReceipt, HasReceipt
<1>4. ASSUME NEW x \in Events, NEW j \in 1 .. Len(n), NEW k \in 1 .. Len(n),
             IsReceipt(n[j], x), IsReceipt(n[k], x)
      PROVE  j = k
  <2>1. CASE j \in 1 .. Len(l) /\ k \in 1 .. Len(l)
    BY <1>1, <1>4, <2>1 DEF Single
  <2>2. CASE j = Len(l) + 1 \/ k = Len(l) + 1
    BY <1>1, <1>2, <1>3, <1>4, <2>2
  <2>3. QED
    BY <1>2, <2>1, <2>2
<1>5. QED
  BY <1>4 DEF Single, n

(* The delivery that appends a receipt wrote it.                            *)
LEMMA WroteNew ==
  ASSUME NEW l \in Seq(EntryType), NEW e \in EntryType, e.action = "FIVETRAN_RECEIVED"
  PROVE  HasReceipt(Append(l, e), e.event) /\ Wrote(Append(l, e), e.by, e.event)
<1>1. Len(l) + 1 \in 1 .. Len(Append(l, e))
  BY AppendFacts
<1>2. Append(l, e)[Len(l) + 1] = e
  BY AppendFacts
<1>3. QED
  BY <1>1, <1>2 DEF HasReceipt, Wrote, IsReceipt

(* The index rejects an event exactly if the ledger has its receipt.        *)
LEMMA ReceivedIs ==
  ASSUME ledger \in Seq(EntryType), NEW e
  PROVE  Received(e) <=> HasReceipt(ledger, e)
BY DEF Received, HasReceipt, IsReceipt

(* The stages of a pipeline and what follows each.                          *)
LEMMA StageFacts ==
  ASSUME NEW s \in Stages
  PROVE  /\ After(s) \in Running
         /\ After(s) = "commit" <=> s = "evaluate"
         /\ After(s) = "complete" <=> s = "commit"
         /\ s \in Running
BY DEF Stages, Running, After

(* At the start nothing is sent, noted or running.                          *)
LEMMA WebInvInit == ASSUME Init PROVE WebInv
<1>1. TypeOK
  BY StartAssumption DEF Init, TypeOK
<1>2. Phases /\ Receipts /\ Answered /\ Gated
  BY DEF Init, Phases, Receipts, Answered, Gated, Single, HasReceipt, Completed
<1>3. QED
  BY <1>1, <1>2 DEF WebInv

-----------------------------------------------------------------------------
(* The steps of a handler. *)
LEMMA DeliverKeeps ==
  ASSUME WebInv, NEW d \in Deliveries, NEW e \in Events, Deliver(d, e)
  PROVE  WebInv'
<1> USE DEF WebInv, Deliver, pipeVars
<1>1. TypeOK'
  BY DEF TypeOK
<1>2. Phases'
  BY DEF TypeOK, Phases
<1>3. Receipts'
  BY DEF TypeOK, Phases, Receipts
<1>4. Answered'
  BY DEF TypeOK, Phases, Answered
<1>5. Gated'
  BY DEF Gated
<1>6. QED
  BY <1>1, <1>2, <1>3, <1>4, <1>5

(* A request that fails its checks is refused and leaves no entry.          *)
LEMMA RefuseKeeps ==
  ASSUME WebInv, NEW d \in Deliveries, Refuse(d)
  PROVE  WebInv'
<1> USE DEF WebInv, Refuse, Answer, pipeVars
<1>1. TypeOK'
  BY DEF TypeOK
<1>2. Phases'
  BY DEF TypeOK, Phases
<1>3. Receipts'
  BY DEF TypeOK, Phases, Receipts
<1>4. Answered'
  BY DEF TypeOK, Phases, Answered
<1>5. Gated'
  BY DEF Gated
<1>6. QED
  BY <1>1, <1>2, <1>3, <1>4, <1>5

(* The receipt joins the ledger, and no receipt of its event was there. *)
LEMMA ReceiptKeeps ==
  ASSUME WebInv, NEW d \in Deliveries, handler[d] = "received", ~Received(event[d]),
         ledger' = Append(ledger, Entry("FIVETRAN_RECEIVED", d)),
         UNCHANGED <<event, stage, verdict, mr>>
  PROVE  /\ ledger' \in Seq(EntryType)
         /\ Single(ledger')
         /\ Wrote(ledger', d, event[d])
         /\ HasReceipt(ledger', event[d])
         /\ \A x : HasReceipt(ledger, x) => HasReceipt(ledger', x)
         /\ \A c, x : Wrote(ledger, c, x) => Wrote(ledger', c, x)
         /\ Gated'
<1> DEFINE e == Entry("FIVETRAN_RECEIVED", d)
<1>1. e \in EntryType /\ e.action = "FIVETRAN_RECEIVED" /\ e.event = event[d] /\ e.by = d
  BY DEF WebInv, Phases, Entry, EntryType, Actions
<1>2. ledger \in Seq(EntryType)
  BY DEF WebInv, TypeOK, EntryType, Actions
<1>3. ~HasReceipt(ledger, e.event)
  BY <1>1, <1>2, ReceivedIs
<1> HIDE DEF e
<1>4. ledger' = Append(ledger, e)
  BY DEF e
<1>5. Single(ledger')
  BY <1>1, <1>2, <1>3, <1>4, ReceiptsSingle DEF WebInv, Receipts
<1>6. Completed(ledger', mr)
  BY <1>1, <1>2, <1>4, ReceiptsStay DEF WebInv, Gated
<1>7. ledger' \in Seq(EntryType)
  BY <1>1, <1>2, <1>4, AppendFacts
<1>8. Wrote(ledger', d, event[d]) /\ HasReceipt(ledger', event[d])
  BY <1>1, <1>2, <1>4, WroteNew
<1>9. /\ \A x : HasReceipt(ledger, x) => HasReceipt(ledger', x)
      /\ \A c, x : Wrote(ledger, c, x) => Wrote(ledger', c, x)
  BY <1>1, <1>2, <1>4, ReceiptsStay
<1>10. Gated'
  BY <1>6 DEF WebInv, Gated
<1>11. QED
  BY <1>5, <1>7, <1>8, <1>9, <1>10

(* The delivery that records the receipt is the first to.                   *)
LEMMA RecordKeeps ==
  ASSUME WebInv, NEW d \in Deliveries, Record(d)
  PROVE  WebInv'
<1> USE DEF WebInv
<1>1. /\ ledger' \in Seq(EntryType)
      /\ Single(ledger')
      /\ Wrote(ledger', d, event[d])
      /\ \A x : HasReceipt(ledger, x) => HasReceipt(ledger', x)
      /\ \A c, x : Wrote(ledger, c, x) => Wrote(ledger', c, x)
      /\ Gated'
  BY ReceiptKeeps DEF Record, pipeVars
<1>2. /\ handler[d] = "received"
      /\ handler' = [handler EXCEPT ![d] = "recorded"]
      /\ UNCHANGED <<service, starts, event, answer, stage, overdue, missed, verdict, mr>>
  BY DEF Record, pipeVars
<1>3. TypeOK'
  BY <1>1, <1>2 DEF TypeOK, EntryType, Actions
<1>4. Phases'
  BY <1>2 DEF TypeOK, Phases
<1>5. Receipts'
  BY <1>1, <1>2 DEF TypeOK, Phases, Receipts
<1>6. Answered'
  BY <1>1, <1>2 DEF TypeOK, Answered
<1>7. QED
  BY <1>1, <1>3, <1>4, <1>5, <1>6

(* A duplicate is answered, and its receipt is in the ledger.               *)
LEMMA DuplicateKeeps ==
  ASSUME WebInv, NEW d \in Deliveries, Duplicate(d)
  PROVE  WebInv'
<1> USE DEF WebInv, Duplicate, Answer, pipeVars
<1>1. TypeOK'
  BY DEF TypeOK
<1>2. Phases'
  BY DEF TypeOK, Phases
<1>3. Receipts'
  BY DEF TypeOK, Phases, Receipts
<1>4. HasReceipt(ledger, event[d])
  BY ReceivedIs DEF TypeOK, EntryType, Actions
<1>5. Answered'
  BY <1>4 DEF TypeOK, Phases, Answered
<1>6. Gated'
  BY DEF Gated
<1>7. QED
  BY <1>1, <1>2, <1>3, <1>5, <1>6

(* A failed append claims nothing, whether or not the receipt is stored.    *)
LEMMA AppendErrorKeeps ==
  ASSUME WebInv, NEW d \in Deliveries, AppendError(d)
  PROVE  WebInv'
<1> USE DEF WebInv
<1>1. /\ handler[d] = "received"
      /\ handler' = [handler EXCEPT ![d] = "done"]
      /\ answer' = [answer EXCEPT ![d] = "failed"]
      /\ UNCHANGED <<service, starts, event, stage, overdue, missed, verdict, mr>>
  BY DEF AppendError, Answer, pipeVars
<1>2. /\ ledger' \in Seq(EntryType)
      /\ Single(ledger')
      /\ \A x : HasReceipt(ledger, x) => HasReceipt(ledger', x)
      /\ \A c, x : Wrote(ledger, c, x) => Wrote(ledger', c, x)
      /\ Gated'
  <2>1. CASE UNCHANGED ledger
    BY <1>1, <2>1 DEF TypeOK, EntryType, Actions, Receipts, Gated
  <2>2. CASE ~Received(event[d]) /\ ledger' = Append(ledger, Entry("FIVETRAN_RECEIVED", d))
    BY <1>1, <2>2, ReceiptKeeps
  <2>3. QED
    BY <2>1, <2>2 DEF AppendError
<1>3. TypeOK'
  BY <1>1, <1>2 DEF TypeOK, EntryType, Actions
<1>4. Phases'
  BY <1>1 DEF TypeOK, Phases
<1>5. Receipts'
  BY <1>1, <1>2 DEF TypeOK, Phases, Receipts
<1>6. Answered'
  BY <1>1, <1>2 DEF TypeOK, Answered
<1>7. QED
  BY <1>2, <1>3, <1>4, <1>5, <1>6
(* An event without repair is answered 200 after its receipt.               *)
LEMMA AcknowledgeKeeps ==
  ASSUME WebInv, NEW d \in Deliveries, Acknowledge(d)
  PROVE  WebInv'
<1> USE DEF WebInv, Acknowledge, Answer, pipeVars
<1>1. TypeOK'
  BY DEF TypeOK
<1>2. Phases'
  BY DEF TypeOK, Phases
<1>3. Receipts'
  BY DEF TypeOK, Phases, Receipts
<1>4. HasReceipt(ledger, event[d])
  BY DEF Receipts, Wrote, HasReceipt
<1>5. Answered'
  BY <1>4 DEF TypeOK, Phases, Answered
<1>6. Gated'
  BY DEF Gated
<1>7. QED
  BY <1>1, <1>2, <1>3, <1>5, <1>6

(* A pipeline starts for the delivery that wrote the receipt.               *)
LEMMA AcceptKeeps ==
  ASSUME WebInv, NEW d \in Deliveries, Accept(d)
  PROVE  WebInv'
<1> USE DEF WebInv, Accept, Answer
<1>1. TypeOK'
  BY DEF TypeOK, Running, Stages
<1>2. Phases'
  BY DEF TypeOK, Phases
<1>3. Receipts'
  BY DEF TypeOK, Receipts
<1>4. HasReceipt(ledger, event[d])
  BY DEF Receipts, Wrote, HasReceipt
<1>5. Answered'
  BY <1>4 DEF TypeOK, Answered
<1>6. d \notin mr
  BY DEF Phases, Gated
<1>7. Gated'
  BY <1>6 DEF TypeOK, Gated
<1>8. QED
  BY <1>1, <1>2, <1>3, <1>5, <1>7

-----------------------------------------------------------------------------
(* The steps of a pipeline.  What it notes is no receipt, and a completion  *)
(* is noted only after the commit.                                          *)
LEMMA NoteKeeps ==
  ASSUME WebInv, NEW d \in Deliveries, stage[d] # "none", NEW x, NEW a \in Actions,
         a # "FIVETRAN_RECEIVED", a = "PIPELINE_COMPLETE" => d \in mr, Note(a, d, x)
  PROVE  /\ ledger' \in Seq(EntryType)
         /\ missed' \in [Deliveries -> BOOLEAN]
         /\ Single(ledger')
         /\ \A y : HasReceipt(ledger, y) => HasReceipt(ledger', y)
         /\ \A c, y : Wrote(ledger, c, y) => Wrote(ledger', c, y)
         /\ Completed(ledger', mr)
<1> DEFINE e == Entry(a, d)
<1>1. e \in EntryType /\ e.action = a /\ e.by = d
  BY DEF WebInv, Phases, Entry, EntryType
<1>2. ledger \in Seq(EntryType) /\ missed \in [Deliveries -> BOOLEAN]
  BY DEF WebInv, TypeOK, EntryType, Actions
<1>3. Single(ledger) /\ Completed(ledger, mr)
  BY DEF WebInv, Receipts, Gated
<1>4. (ledger' = Append(ledger, e) /\ missed' = missed)
      \/ (missed' = [missed EXCEPT ![d] = TRUE] /\ ledger' = ledger)
  BY DEF Note
<1> HIDE DEF e
<1>5. CASE ledger' = Append(ledger, e) /\ missed' = missed
  <2>1. Single(ledger')
    BY <1>1, <1>2, <1>3, <1>5, ReceiptsSingle
  <2>2. ledger' \in Seq(EntryType)
    BY <1>1, <1>2, <1>5, AppendFacts
  <2>3. /\ \A y : HasReceipt(ledger, y) => HasReceipt(ledger', y)
        /\ \A c, y : Wrote(ledger, c, y) => Wrote(ledger', c, y)
    BY <1>1, <1>2, <1>5, ReceiptsStay
  <2>4. Completed(ledger', mr)
    BY <1>1, <1>2, <1>3, <1>5, ReceiptsStay
  <2>5. QED
    BY <1>2, <1>5, <2>1, <2>2, <2>3, <2>4
<1>6. CASE missed' = [missed EXCEPT ![d] = TRUE] /\ ledger' = ledger
  BY <1>2, <1>3, <1>6
<1>7. QED
  BY <1>4, <1>5, <1>6

(* A stage passes on to the next one; only the gate leads to the commit.    *)
LEMMA PassKeeps ==
  ASSUME WebInv, NEW d \in Deliveries, Pass(d)
  PROVE  WebInv'
<1> USE DEF WebInv
<1>1. /\ stage[d] \in Stages
      /\ stage' = [stage EXCEPT ![d] = After(stage[d])]
      /\ verdict' = IF stage[d] = "evaluate" THEN [verdict EXCEPT ![d] = "ALLOW"] ELSE verdict
      /\ mr' = IF stage[d] = "commit" THEN mr \cup {d} ELSE mr
      /\ UNCHANGED <<service, starts, ledger, overdue, missed, event, handler, answer>>
  BY DEF Pass, webVars
<1>2. /\ After(stage[d]) \in Running
      /\ After(stage[d]) = "commit" <=> stage[d] = "evaluate"
      /\ After(stage[d]) = "complete" <=> stage[d] = "commit"
      /\ stage[d] \notin {"none", "complete", "flush", "ended", "killed"}
      /\ After(stage[d]) # "none"
  BY <1>1, StageFacts DEF Stages, Running
<1>3. TypeOK'
  BY <1>1, <1>2 DEF TypeOK
<1>4. Phases'
  BY <1>1, <1>2 DEF TypeOK, Phases
<1>5. Receipts'
  BY <1>1, <1>2 DEF TypeOK, Receipts
<1>6. Answered'
  BY <1>1, <1>2 DEF TypeOK, Answered
<1>7. Gated'
  <2>1. ASSUME NEW c \in mr'
        PROVE  verdict'[c] = "ALLOW" /\ stage'[c] \in {"complete", "flush", "ended", "killed"}
    <3>1. CASE c = d
      BY <1>1, <1>2, <2>1, <3>1 DEF TypeOK, Gated
    <3>2. CASE c # d
      BY <1>1, <2>1, <3>2 DEF TypeOK, Gated
    <3>3. QED
      BY <3>1, <3>2
  <2>2. ASSUME NEW c \in Deliveries
        PROVE  /\ stage'[c] = "commit" => verdict'[c] = "ALLOW"
               /\ stage'[c] = "complete" => c \in mr'
    <3>1. CASE c = d
      BY <1>1, <1>2, <3>1 DEF TypeOK
    <3>2. CASE c # d
      BY <1>1, <3>2 DEF TypeOK, Gated
    <3>3. QED
      BY <3>1, <3>2
  <2>3. Completed(ledger', mr')
    BY <1>1 DEF Gated, Completed
  <2>4. QED
    BY <2>1, <2>2, <2>3 DEF Gated
<1>8. QED
  BY <1>3, <1>4, <1>5, <1>6, <1>7
(* A pipeline leaves its stages, with a note or without one, and may have   *)
(* opened a merge request if the gate let it through.                       *)
LEMMA EndKeeps ==
  ASSUME WebInv, NEW d \in Deliveries, stage[d] # "none", NEW s \in {"flush", "ended"},
         stage' = [stage EXCEPT ![d] = s],
         verdict' \in [Deliveries -> {"none", "ALLOW", "BLOCK"}],
         \A c \in Deliveries \ {d} : verdict'[c] = verdict[c],
         mr' = mr \/ mr' = mr \cup {d},
         d \in mr' => verdict'[d] = "ALLOW",
         ledger' \in Seq(EntryType),
         missed' \in [Deliveries -> BOOLEAN],
         Single(ledger'),
         \A y : HasReceipt(ledger, y) => HasReceipt(ledger', y),
         \A c, y : Wrote(ledger, c, y) => Wrote(ledger', c, y),
         Completed(ledger', mr),
         UNCHANGED <<service, starts, overdue, event, handler, answer>>
  PROVE  WebInv'
<1> USE DEF WebInv
<1>1. TypeOK'
  BY DEF TypeOK, EntryType, Actions, Running
<1>2. Phases'
  BY DEF TypeOK, Phases
<1>3. Receipts'
  BY DEF TypeOK, Receipts
<1>4. Answered'
  BY DEF TypeOK, Answered
<1>5. ASSUME NEW c \in mr'
      PROVE  verdict'[c] = "ALLOW" /\ stage'[c] \in {"complete", "flush", "ended", "killed"}
  <2>1. CASE c = d
    BY <1>5, <2>1 DEF TypeOK
  <2>2. CASE c # d
    BY <1>5, <2>2 DEF TypeOK, Gated
  <2>3. QED
    BY <2>1, <2>2
<1>6. ASSUME NEW c \in Deliveries
      PROVE  /\ stage'[c] = "commit" => verdict'[c] = "ALLOW"
             /\ stage'[c] = "complete" => c \in mr'
  <2>1. CASE c = d
    BY <2>1 DEF TypeOK
  <2>2. CASE c # d
    BY <2>2 DEF TypeOK, Gated
  <2>3. QED
    BY <2>1, <2>2
<1>7. Completed(ledger', mr')
  BY DEF Completed
<1>8. Gated'
  BY <1>5, <1>6, <1>7 DEF Gated
<1>9. QED
  BY <1>1, <1>2, <1>3, <1>4, <1>8

(* A stage fails and the pipeline ends.                                     *)
LEMMA FailKeeps ==
  ASSUME WebInv, NEW d \in Deliveries, Fail(d)
  PROVE  WebInv'
<1>1. /\ stage[d] \in Stages
      /\ Note("PIPELINE_FAILED", d, overdue[d])
      /\ stage' = [stage EXCEPT ![d] = "flush"]
      /\ verdict' = IF stage[d] = "evaluate" THEN [verdict EXCEPT ![d] = "BLOCK"] ELSE verdict
      /\ (stage[d] = "commit" /\ mr' = mr \cup {d}) \/ mr' = mr
      /\ UNCHANGED <<service, starts, overdue, event, handler, answer>>
  BY DEF Fail, webVars
<1>2. stage[d] \notin {"none", "complete", "flush", "ended", "killed"}
  BY <1>1 DEF Stages
<1>3. /\ ledger' \in Seq(EntryType)
      /\ missed' \in [Deliveries -> BOOLEAN]
      /\ Single(ledger')
      /\ \A y : HasReceipt(ledger, y) => HasReceipt(ledger', y)
      /\ \A c, y : Wrote(ledger, c, y) => Wrote(ledger', c, y)
      /\ Completed(ledger', mr)
  BY <1>1, <1>2, NoteKeeps DEF Actions
<1>4. /\ verdict' \in [Deliveries -> {"none", "ALLOW", "BLOCK"}]
      /\ \A c \in Deliveries \ {d} : verdict'[c] = verdict[c]
  BY <1>1 DEF WebInv, TypeOK
<1>5. d \in mr' => verdict'[d] = "ALLOW"
  BY <1>1, <1>2 DEF WebInv, Gated
<1>6. QED
  BY <1>1, <1>2, <1>3, <1>4, <1>5, EndKeeps

(* The completion is noted after the commit.                                *)
LEMMA CompleteKeeps ==
  ASSUME WebInv, NEW d \in Deliveries, Complete(d)
  PROVE  WebInv'
<1>1. /\ stage[d] = "complete"
      /\ Note("PIPELINE_COMPLETE", d, overdue[d])
      /\ stage' = [stage EXCEPT ![d] = "flush"]
      /\ UNCHANGED <<service, starts, overdue, verdict, mr, event, handler, answer>>
  BY DEF Complete, webVars
<1>2. d \in mr /\ verdict[d] = "ALLOW"
  BY <1>1 DEF WebInv, Gated
<1>3. /\ ledger' \in Seq(EntryType)
      /\ missed' \in [Deliveries -> BOOLEAN]
      /\ Single(ledger')
      /\ \A y : HasReceipt(ledger, y) => HasReceipt(ledger', y)
      /\ \A c, y : Wrote(ledger, c, y) => Wrote(ledger', c, y)
      /\ Completed(ledger', mr)
  BY <1>1, <1>2, NoteKeeps DEF Actions
<1>4. verdict' \in [Deliveries -> {"none", "ALLOW", "BLOCK"}]
  BY <1>1 DEF WebInv, TypeOK
<1>5. QED
  BY <1>1, <1>2, <1>3, <1>4, EndKeeps

(* A panic is recovered, noted, and ends the pipeline.                      *)
LEMMA PanicKeeps ==
  ASSUME WebInv, NEW d \in Deliveries, Panic(d)
  PROVE  WebInv'
<1>1. /\ stage[d] # "none"
      /\ Note("PIPELINE_PANICKED", d, FALSE)
      /\ stage' = [stage EXCEPT ![d] = "ended"]
      /\ UNCHANGED <<service, starts, overdue, verdict, mr, event, handler, answer>>
  BY DEF Panic, webVars, Running, Stages
<1>2. /\ ledger' \in Seq(EntryType)
      /\ missed' \in [Deliveries -> BOOLEAN]
      /\ Single(ledger')
      /\ \A y : HasReceipt(ledger, y) => HasReceipt(ledger', y)
      /\ \A c, y : Wrote(ledger, c, y) => Wrote(ledger', c, y)
      /\ Completed(ledger', mr)
  BY <1>1, NoteKeeps DEF Actions
<1>3. /\ verdict' \in [Deliveries -> {"none", "ALLOW", "BLOCK"}]
      /\ d \in mr' => verdict'[d] = "ALLOW"
  BY <1>1 DEF WebInv, TypeOK, Gated
<1>4. QED
  BY <1>1, <1>2, <1>3, EndKeeps

(* The spans are flushed and the goroutine ends.                            *)
LEMMA FlushKeeps ==
  ASSUME WebInv, NEW d \in Deliveries, Flush(d)
  PROVE  WebInv'
<1>1. /\ stage[d] = "flush"
      /\ stage' = [stage EXCEPT ![d] = "ended"]
      /\ UNCHANGED <<service, starts, ledger, overdue, missed, verdict, mr, event, handler, answer>>
  BY DEF Flush, webVars
<1>2. /\ ledger \in Seq(EntryType)
      /\ missed \in [Deliveries -> BOOLEAN]
      /\ verdict \in [Deliveries -> {"none", "ALLOW", "BLOCK"}]
      /\ Single(ledger)
      /\ Completed(ledger, mr)
      /\ d \in mr => verdict[d] = "ALLOW"
  BY DEF WebInv, TypeOK, EntryType, Actions, Receipts, Gated
<1>3. QED
  BY <1>1, <1>2, EndKeeps

(* The five-minute context expires.                                         *)
LEMMA ExpireKeeps ==
  ASSUME WebInv, NEW d \in Deliveries, Expire(d)
  PROVE  WebInv'
<1>1. TypeOK'
  BY DEF WebInv, Expire, webVars, TypeOK
<1>2. UNCHANGED <<event, handler, answer, stage, verdict, mr, ledger>>
  BY DEF Expire, webVars
<1>3. Phases' /\ Receipts' /\ Answered' /\ Gated'
  BY <1>2 DEF WebInv, Phases, Receipts, Answered, Gated
<1>4. QED
  BY <1>1, <1>3 DEF WebInv

-----------------------------------------------------------------------------
(* The process goes down, comes up, or nothing happens. *)
LEMMA DieKeeps ==
  ASSUME WebInv, Die
  PROVE  WebInv'
<1> USE DEF WebInv, Die
<1>1. ASSUME NEW d \in Deliveries
      PROVE  /\ stage'[d] # stage[d] => stage'[d] = "killed" /\ stage[d] # "none"
             /\ handler'[d] # handler[d] => handler'[d] = "lost" /\ handler[d] # "none"
             /\ handler'[d] # handler[d] => handler[d] # "done"
  BY DEF Running, Stages
<1>2. TypeOK'
  BY DEF TypeOK
<1>3. Phases'
  BY <1>1 DEF Phases
<1>4. Receipts'
  BY <1>1 DEF Receipts
<1>5. Answered'
  BY <1>1 DEF Answered
<1>6. Gated'
  BY <1>1 DEF TypeOK, Gated
<1>7. QED
  BY <1>2, <1>3, <1>4, <1>5, <1>6

(* SIGTERM, a new start, or nothing happens.                                *)
LEMMA ServiceKeeps ==
  ASSUME WebInv, Terminate \/ Start \/ UNCHANGED vars
  PROVE  WebInv'
<1>1. UNCHANGED <<event, handler, answer, stage, overdue, missed, verdict, mr, ledger>>
  BY DEF Terminate, Start, vars, webVars, pipeVars
<1>2. service' \in {"up", "draining", "down"} /\ starts' \in 1 .. MaxStarts
  BY StartAssumption DEF WebInv, TypeOK, Terminate, Start, vars
<1>3. TypeOK'
  BY <1>1, <1>2 DEF WebInv, TypeOK
<1>4. Phases' /\ Receipts' /\ Answered' /\ Gated'
  BY <1>1 DEF WebInv, Phases, Receipts, Answered, Gated
<1>5. QED
  BY <1>3, <1>4 DEF WebInv

(* Every step of the program keeps the invariant.                           *)
LEMMA WebInvStep ==
  ASSUME WebInv, [Next]_vars
  PROVE  WebInv'
<1>1. CASE \E d \in Deliveries, e \in Events : Deliver(d, e)
  BY <1>1, DeliverKeeps
<1>2. CASE \E d \in Deliveries : HandlerStep(d)
  BY <1>2, RefuseKeeps, RecordKeeps, DuplicateKeeps, AppendErrorKeeps, AcknowledgeKeeps,
     AcceptKeeps DEF HandlerStep
<1>3. CASE \E d \in Deliveries : PipelineStep(d)
  BY <1>3, PassKeeps, FailKeeps, CompleteKeeps, FlushKeeps DEF PipelineStep
<1>4. CASE \E d \in Deliveries : Panic(d)
  BY <1>4, PanicKeeps
<1>5. CASE \E d \in Deliveries : Expire(d)
  BY <1>5, ExpireKeeps
<1>6. CASE Stop \/ Crash
  BY <1>6, DieKeeps DEF Stop, Crash
<1>7. CASE Terminate \/ Start \/ UNCHANGED vars
  BY <1>7, ServiceKeeps
<1>8. QED
  BY <1>1, <1>2, <1>3, <1>4, <1>5, <1>6, <1>7 DEF Next

-----------------------------------------------------------------------------
(* The invariant holds in every reachable state.                            *)
LEMMA WebInvAlways == Spec => []WebInv
<1>1. Init => WebInv
  BY WebInvInit
<1>2. WebInv /\ [Next]_vars => WebInv'
  BY WebInvStep
<1>3. QED
  BY <1>1, <1>2, PTL DEF Spec

(* The receiver and its pipelines keep to their types. *)
THEOREM WebTypeCorrect == Spec => []TypeOK
<1>1. WebInv => TypeOK
  BY DEF WebInv
<1>2. QED
  BY <1>1, WebInvAlways, PTL

(* However often Fivetran delivers an event, to however many starts of the  *)
(* process, it starts one pipeline at most: the two would both have written *)
(* the event's only receipt.                                                *)
THEOREM SinglePipeline == Spec => []OnePipelinePerEvent
<1>1. ASSUME WebInv PROVE OnePipelinePerEvent
  <2>1. SUFFICES ASSUME NEW c \in Deliveries, NEW d \in Deliveries,
                        stage[c] # "none", stage[d] # "none", event[c] = event[d]
                 PROVE  c = d
    BY DEF OnePipelinePerEvent
  <2>2. event[d] \in Events
    BY <1>1, <2>1 DEF WebInv, Phases
  <2>3. Single(ledger) /\ Wrote(ledger, c, event[d]) /\ Wrote(ledger, d, event[d])
    BY <1>1, <2>1 DEF WebInv, Receipts
  <2>4. QED
    BY <2>2, <2>3 DEF Single, Wrote
<1>2. QED
  BY <1>1, WebInvAlways, PTL

(* A 2xx answer stands for a receipt in the ledger, and a 202 for a started *)
(* pipeline and the receipt this delivery wrote, through any restart.       *)
THEOREM TrueAnswers == Spec => []AnswersAreTrue
<1>1. ASSUME WebInv PROVE AnswersAreTrue
  <2>1. ledger \in Seq(EntryType)
    BY <1>1 DEF WebInv, TypeOK, EntryType, Actions
  <2>2. ASSUME NEW d \in Deliveries, answer[d] \in {"duplicate", "acknowledged", "accepted"}
        PROVE  Received(event[d])
    BY <1>1, <2>1, <2>2, ReceivedIs DEF WebInv, Answered
  <2>3. ASSUME NEW d \in Deliveries, answer[d] = "accepted"
        PROVE  stage[d] # "none" /\ Wrote(ledger, d, event[d])
    BY <1>1, <2>3 DEF WebInv, Answered, Receipts
  <2>4. DOMAIN ledger = 1 .. Len(ledger)
    BY <2>1
  <2>5. QED
    BY <2>2, <2>3, <2>4 DEF AnswersAreTrue, Wrote, IsReceipt
<1>2. QED
  BY <1>1, WebInvAlways, PTL

(* No merge request without an ALLOW of the gate, and no event recorded as  *)
(* complete without its merge request.                                      *)
THEOREM GatedMergeRequests == Spec => []MergeRequestsAreGated
<1>1. ASSUME WebInv PROVE MergeRequestsAreGated
  <2>1. DOMAIN ledger = 1 .. Len(ledger)
    BY <1>1 DEF WebInv, TypeOK
  <2>2. QED
    BY <1>1, <2>1 DEF WebInv, Gated, Completed, MergeRequestsAreGated
<1>2. QED
  BY <1>1, WebInvAlways, PTL

-----------------------------------------------------------------------------
(* Outcomes. *)
Outcomes == {"PIPELINE_FAILED", "PIPELINE_COMPLETE"}

(* An outcome in the ledger was noted by a pipeline that has ended since,   *)
(* once and after a receipt of its event; and a pipeline that ended left    *)
(* one unless an append failed.                                             *)
Ends ==
  /\ \A k \in 1 .. Len(ledger) :
       ledger[k].action \in Outcomes =>
         /\ stage[ledger[k].by] \in {"flush", "ended", "killed"}
         /\ event[ledger[k].by] = ledger[k].event
         /\ \E r \in 1 .. Len(ledger) : r < k /\ IsReceipt(ledger[r], ledger[k].event)
         /\ \A j \in 1 .. Len(ledger) :
              ledger[j].action \in Outcomes /\ ledger[j].by = ledger[k].by => j = k
  /\ \A d \in Deliveries :
       stage[d] \in {"flush", "ended"} /\ ~missed[d] => Outcome(event[d])

(* What a step may do with a pipeline, and what it notes for it. *)
EndsNow(d) == stage[d] \in Stages \cup {"complete"} /\ stage'[d] = "flush"
Turn(d) ==
  \/ stage'[d] = stage[d] /\ missed'[d] = missed[d]
  \/ stage[d] \in Stages \cup {"none"} /\ stage'[d] \in Stages \cup {"complete"}
  \/ EndsNow(d) /\ (missed'[d] \/ \E a \in Outcomes : ledger' = Append(ledger, Entry(a, d)))
  \/ stage[d] = "flush" /\ stage'[d] = "ended" /\ missed'[d] = missed[d]
  \/ /\ stage[d] \in Running /\ stage'[d] = "ended"
     /\ missed'[d] \/ ledger' = Append(ledger, Entry("PIPELINE_PANICKED", d))
  \/ stage[d] \in Running /\ stage'[d] = "killed"
Grows ==
  \/ ledger' = ledger
  \/ \E d \in Deliveries, a \in Actions :
       ledger' = Append(ledger, Entry(a, d)) /\ event[d] \in Events /\ (a \in Outcomes => EndsNow(d))

(* Every step turns pipelines, keeps their events and grows the ledger so. *)
LEMMA NextTurns ==
  ASSUME WebInv, [Next]_vars
  PROVE  /\ \A d \in Deliveries : Turn(d)
         /\ \A d \in Deliveries : stage[d] # "none" => event'[d] = event[d]
         /\ Grows
<1> DEFINE Goal == /\ \A d \in Deliveries : Turn(d)
                   /\ \A d \in Deliveries : stage[d] # "none" => event'[d] = event[d]
                   /\ Grows
<1>1. /\ stage \in [Deliveries -> Running \cup {"none", "ended", "killed"}]
      /\ missed \in [Deliveries -> BOOLEAN]
      /\ event \in [Deliveries -> Events \cup {NoEvent}]
      /\ \A d \in Deliveries : stage[d] # "none" \/ handler[d] # "none" => event[d] \in Events
      /\ \A d \in Deliveries : handler[d] # "done" => stage[d] = "none"
  BY DEF WebInv, TypeOK, Phases
<1>2. CASE UNCHANGED <<stage, missed, event, ledger>>
  BY <1>2 DEF Turn, Grows
<1>3. ASSUME NEW d \in Deliveries, NEW e \in Events, Deliver(d, e) PROVE Goal
  BY <1>1, <1>3 DEF Deliver, pipeVars, Turn, Grows
<1>4. ASSUME NEW d \in Deliveries, Record(d) \/ AppendError(d) PROVE Goal
  <2>1. /\ UNCHANGED <<stage, missed, event>>
        /\ handler[d] = "received"
        /\ ledger' = ledger \/ ledger' = Append(ledger, Entry("FIVETRAN_RECEIVED", d))
    BY <1>4 DEF Record, AppendError, pipeVars
  <2>2. event[d] \in Events
    BY <1>1, <2>1
  <2> QED
    BY <2>1, <2>2 DEF Turn, Grows, Actions, Outcomes
<1>5. ASSUME NEW d \in Deliveries, Accept(d) PROVE Goal
  <2>1. stage[d] = "none"
    BY <1>1, <1>5 DEF Accept
  <2> QED
    BY <1>1, <1>5, <2>1 DEF Accept, Turn, Grows, Stages
<1>6. ASSUME NEW d \in Deliveries, Pass(d) PROVE Goal
  <2>1. After(stage[d]) \in Stages \cup {"complete"}
    BY <1>6 DEF Pass, After, Stages
  <2>2. /\ stage[d] \in Stages /\ stage' = [stage EXCEPT ![d] = After(stage[d])]
        /\ UNCHANGED <<event, missed, ledger>>
    BY <1>6 DEF Pass, webVars
  <2> QED
    BY <1>1, <2>1, <2>2 DEF Turn, Grows
<1>7. ASSUME NEW d \in Deliveries, Fail(d) \/ Complete(d) PROVE Goal
  <2>1. PICK a \in Outcomes, x \in BOOLEAN : Note(a, d, x)
    BY <1>7 DEF Fail, Complete, Outcomes, WebInv, TypeOK
  <2>2. /\ stage[d] \in Stages \cup {"complete"}
        /\ stage' = [stage EXCEPT ![d] = "flush"]
        /\ UNCHANGED event
    BY <1>7 DEF Fail, Complete, webVars
  <2>3. event[d] \in Events /\ EndsNow(d)
    BY <1>1, <2>2 DEF EndsNow, Stages
  <2>4. \/ ledger' = Append(ledger, Entry(a, d)) /\ UNCHANGED missed
        \/ ledger' = ledger /\ missed' = [missed EXCEPT ![d] = TRUE]
    BY <2>1 DEF Note
  <2>5. Turn(d)
    BY <1>1, <2>3, <2>4 DEF Turn
  <2>6. \A c \in Deliveries \ {d} : Turn(c)
    BY <1>1, <2>2, <2>4 DEF Turn
  <2>7. Grows
    BY <2>3, <2>4 DEF Grows, Actions, Outcomes
  <2> QED
    BY <2>2, <2>5, <2>6, <2>7
<1>8. ASSUME NEW d \in Deliveries, Panic(d) PROVE Goal
  <2>1. /\ stage[d] \in Running
        /\ stage' = [stage EXCEPT ![d] = "ended"]
        /\ UNCHANGED event
    BY <1>8 DEF Panic, webVars
  <2>2. event[d] \in Events
    BY <1>1, <2>1 DEF Running, Stages
  <2>3. \/ ledger' = Append(ledger, Entry("PIPELINE_PANICKED", d)) /\ UNCHANGED missed
        \/ ledger' = ledger /\ missed' = [missed EXCEPT ![d] = TRUE]
    BY <1>8 DEF Panic, Note
  <2>4. Turn(d)
    BY <1>1, <2>1, <2>3 DEF Turn
  <2>5. \A c \in Deliveries \ {d} : Turn(c)
    BY <1>1, <2>1, <2>3 DEF Turn
  <2>6. Grows
    BY <2>2, <2>3 DEF Grows, Actions, Outcomes
  <2> QED
    BY <2>1, <2>4, <2>5, <2>6
<1>9. ASSUME NEW d \in Deliveries, Flush(d) PROVE Goal
  BY <1>1, <1>9 DEF Flush, webVars, Turn, Grows
<1>10. CASE Die
  <2>1. \A d \in Deliveries :
          stage'[d] = stage[d] \/ (stage[d] \in Running /\ stage'[d] = "killed")
    BY <1>10 DEF Die
  <2> QED
    BY <1>10, <2>1 DEF Die, Turn, Grows
<1>11. ASSUME NEW d \in Deliveries, HandlerStep(d) PROVE Goal
  <2>1. CASE Refuse(d) \/ Duplicate(d) \/ Acknowledge(d)
    BY <1>2, <2>1 DEF Refuse, Duplicate, Acknowledge, pipeVars
  <2> QED
    BY <1>4, <1>5, <1>11, <2>1 DEF HandlerStep
<1>12. ASSUME NEW d \in Deliveries, PipelineStep(d) PROVE Goal
  BY <1>6, <1>7, <1>9, <1>12 DEF PipelineStep
<1>13. CASE Terminate \/ Start \/ UNCHANGED vars \/ \E d \in Deliveries : Expire(d)
  BY <1>2, <1>13 DEF Terminate, Start, vars, Expire, webVars, pipeVars
<1> QED
  BY <1>3, <1>8, <1>10, <1>11, <1>12, <1>13 DEF Next, Stop, Crash

(* Once in the ledger an outcome stays there. *)
LEMMA OutcomeStays ==
  ASSUME WebInv, Grows, NEW e, Outcome(e)
  PROVE  \E a \in {"PIPELINE_FAILED", "PIPELINE_COMPLETE", "PIPELINE_PANICKED"} :
           \E k \in DOMAIN ledger' : ledger'[k].action = a /\ ledger'[k].event = e
<1>1. PICK a \in {"PIPELINE_FAILED", "PIPELINE_COMPLETE", "PIPELINE_PANICKED"}, k \in DOMAIN ledger :
         ledger[k].action = a /\ ledger[k].event = e
  BY DEF Outcome, Entries
<1>2. ledger \in Seq(EntryType)
  BY DEF WebInv, TypeOK, EntryType, Actions
<1>3. CASE ledger' = ledger
  BY <1>1, <1>3
<1>4. ASSUME NEW d \in Deliveries, NEW b \in Actions, event[d] \in Events,
             ledger' = Append(ledger, Entry(b, d))
      PROVE  k \in DOMAIN ledger' /\ ledger'[k] = ledger[k]
  <2>1. Entry(b, d) \in EntryType
    BY <1>4 DEF Entry, EntryType
  <2> QED
    BY <1>1, <1>2, <1>4, <2>1, AppendFacts
<1> QED
  BY <1>1, <1>3, <1>4 DEF Grows

(* Every step keeps it: a pipeline notes its outcome as it leaves its stages, and stays away. *)
LEMMA EndsKept == WebInv /\ Ends /\ [Next]_vars => Ends'
<1> SUFFICES ASSUME WebInv, Ends, [Next]_vars PROVE Ends'
  OBVIOUS
<1>1. /\ \A d \in Deliveries : Turn(d)
      /\ \A d \in Deliveries : stage[d] # "none" => event'[d] = event[d]
      /\ Grows
  BY NextTurns
<1>2. ledger \in Seq(EntryType)
  BY DEF WebInv, TypeOK, EntryType, Actions
<1>3. \A d \in Deliveries :
        stage[d] \in {"flush", "ended", "killed"} => stage'[d] \in {"flush", "ended", "killed"}
  BY <1>1 DEF Turn, EndsNow, Stages, Running
<1>4. \A k \in 1 .. Len(ledger) : ledger[k].by \in Deliveries
  <2>1. \A k \in 1 .. Len(ledger) : ledger[k] \in EntryType
    BY <1>2
  <2> QED
    BY <2>1 DEF EntryType
<1>5. ASSUME NEW k \in 1 .. Len(ledger'), ledger'[k].action \in Outcomes
      PROVE  /\ stage'[ledger'[k].by] \in {"flush", "ended", "killed"}
             /\ event'[ledger'[k].by] = ledger'[k].event
             /\ \E r \in 1 .. Len(ledger') : r < k /\ IsReceipt(ledger'[r], ledger'[k].event)
             /\ \A j \in 1 .. Len(ledger') :
                  ledger'[j].action \in Outcomes /\ ledger'[j].by = ledger'[k].by => j = k
  <2>1. CASE ledger' = ledger
    BY <1>1, <1>3, <1>4, <1>5, <2>1 DEF Ends
  <2>2. ASSUME NEW d \in Deliveries, NEW a \in Actions, ledger' = Append(ledger, Entry(a, d)),
               event[d] \in Events, a \in Outcomes => EndsNow(d)
        PROVE  /\ stage'[ledger'[k].by] \in {"flush", "ended", "killed"}
               /\ event'[ledger'[k].by] = ledger'[k].event
               /\ \E r \in 1 .. Len(ledger') : r < k /\ IsReceipt(ledger'[r], ledger'[k].event)
               /\ \A j \in 1 .. Len(ledger') :
                    ledger'[j].action \in Outcomes /\ ledger'[j].by = ledger'[k].by => j = k
    <3> DEFINE n == Len(ledger)
    <3>1. Entry(a, d) \in EntryType /\ Entry(a, d).by = d /\ Entry(a, d).event = event[d]
          /\ Entry(a, d).action = a
      BY <2>2 DEF Entry, EntryType
    <3>2. /\ n \in Nat /\ Len(ledger') = n + 1
          /\ \A j \in 1 .. n : ledger'[j] = ledger[j]
          /\ ledger'[n + 1] = Entry(a, d)
      BY <1>2, <2>2, <3>1, AppendFacts
    <3> HIDE DEF n
    <3>3. \A j \in 1 .. n : ledger[j].by \in Deliveries
      BY <1>4 DEF n
    <3>4. ASSUME a \in Outcomes, NEW j \in 1 .. n, ledger[j].action \in Outcomes
          PROVE  ledger[j].by # d
      <4>1. stage[ledger[j].by] \in {"flush", "ended", "killed"}
        BY <3>4 DEF Ends, n
      <4>2. stage[d] \in Stages \cup {"complete"}
        BY <2>2, <3>4 DEF EndsNow
      <4> QED
        BY <4>1, <4>2 DEF Stages
    <3>5. CASE k \in 1 .. n
      <4>1. /\ stage[ledger[k].by] \in {"flush", "ended", "killed"}
            /\ event[ledger[k].by] = ledger[k].event
            /\ \E r \in 1 .. n : r < k /\ IsReceipt(ledger[r], ledger[k].event)
            /\ \A j \in 1 .. n : ledger[j].action \in Outcomes /\ ledger[j].by = ledger[k].by => j = k
        BY <1>5, <3>2, <3>5 DEF Ends, n
      <4>2. /\ stage'[ledger'[k].by] \in {"flush", "ended", "killed"}
            /\ event'[ledger'[k].by] = ledger'[k].event
        BY <1>1, <1>3, <3>2, <3>3, <3>5, <4>1
      <4>3. \E r \in 1 .. Len(ledger') : r < k /\ IsReceipt(ledger'[r], ledger'[k].event)
        BY <3>2, <3>5, <4>1
      <4>4. ASSUME NEW j \in 1 .. Len(ledger'), ledger'[j].action \in Outcomes,
                   ledger'[j].by = ledger'[k].by
            PROVE  j = k
        <5>1. CASE j \in 1 .. n
          BY <3>2, <3>5, <4>1, <4>4, <5>1
        <5>2. CASE j = n + 1
          BY <1>5, <3>1, <3>2, <3>4, <3>5, <4>4, <5>2
        <5> QED
          BY <3>2, <5>1, <5>2
      <4> QED
        BY <4>2, <4>3, <4>4
    <3>6. CASE k = n + 1
      <4>1. a \in Outcomes /\ stage[d] # "none"
        BY <1>5, <2>2, <3>1, <3>2, <3>6 DEF EndsNow, Stages
      <4>2. stage'[d] = "flush" /\ event'[d] = event[d]
        BY <1>1, <2>2, <4>1 DEF EndsNow
      <4>3. Wrote(ledger, d, event[d])
        BY <4>1 DEF WebInv, Receipts
      <4>4. \E r \in 1 .. n : IsReceipt(ledger[r], event[d])
        BY <4>3 DEF Wrote, n
      <4>5. \E r \in 1 .. Len(ledger') : r < k /\ IsReceipt(ledger'[r], ledger'[k].event)
        BY <3>1, <3>2, <3>6, <4>4
      <4>6. ASSUME NEW j \in 1 .. Len(ledger'), ledger'[j].action \in Outcomes,
                   ledger'[j].by = ledger'[k].by
            PROVE  j = k
        <5>1. CASE j \in 1 .. n
          BY <3>1, <3>2, <3>4, <3>6, <4>1, <4>6, <5>1
        <5> QED
          BY <3>2, <3>6, <5>1
      <4> QED
        BY <3>1, <3>2, <3>6, <4>2, <4>5, <4>6
    <3> QED
      BY <3>2, <3>5, <3>6
  <2> QED
    BY <1>1, <2>1, <2>2 DEF Grows
<1>6. ASSUME NEW d \in Deliveries, stage'[d] \in {"flush", "ended"}, ~missed'[d]
      PROVE  Outcome(event[d])'
  <2>1. stage[d] # "none"
    BY <1>1, <1>6 DEF Turn, EndsNow, Stages, Running
  <2>2. event'[d] = event[d] /\ event[d] \in Events
    BY <1>1, <2>1 DEF WebInv, Phases
  <2>3. CASE stage[d] \in {"flush", "ended"} /\ ~missed[d]
    <3>1. Outcome(event[d])
      BY <2>3 DEF Ends
    <3> QED
      BY <1>1, <2>2, <3>1, OutcomeStays DEF Outcome, Entries
  <2>4. ASSUME NEW a \in {"PIPELINE_FAILED", "PIPELINE_COMPLETE", "PIPELINE_PANICKED"},
               ledger' = Append(ledger, Entry(a, d))
        PROVE  Outcome(event[d])'
    <3>1. Entry(a, d) \in EntryType /\ Entry(a, d).action = a /\ Entry(a, d).event = event[d]
      BY <2>2 DEF Entry, EntryType, Actions
    <3>2. /\ Len(ledger) \in Nat /\ Len(ledger') = Len(ledger) + 1
          /\ ledger'[Len(ledger) + 1] = Entry(a, d) /\ ledger' \in Seq(EntryType)
      BY <1>2, <2>4, <3>1, AppendFacts
    <3>3. Len(ledger) + 1 \in DOMAIN ledger'
      BY <3>2
    <3> QED
      BY <2>2, <3>1, <3>2, <3>3 DEF Outcome, Entries
  <2> QED
    BY <1>1, <1>6, <2>3, <2>4 DEF Turn, EndsNow, Outcomes, Stages
<1> QED
  BY <1>5, <1>6 DEF Ends

(* It holds in every state of every behaviour. *)
LEMMA EndsAlways == Spec => []Ends
<1>1. Init => Ends
  BY DEF Init, Ends
<1> QED
  BY <1>1, EndsKept, WebInvAlways, PTL DEF Spec

(* runPipeline, main.go: an event gets one outcome at most, after its only  *)
(* receipt, through redeliveries, panics and restarts; and a pipeline that  *)
(* ended without a failed append left one.                                  *)
THEOREM SingleOutcome == Spec => []OneOutcome
<1>1. ASSUME WebInv, Ends PROVE OneOutcome
  <2>1. DOMAIN ledger = 1 .. Len(ledger) /\ ledger \in Seq(EntryType)
    BY <1>1 DEF WebInv, TypeOK, EntryType, Actions
  <2>2. ASSUME NEW e \in Events,
               NEW j \in Entries("PIPELINE_FAILED", e) \cup Entries("PIPELINE_COMPLETE", e),
               NEW k \in Entries("PIPELINE_FAILED", e) \cup Entries("PIPELINE_COMPLETE", e)
        PROVE  /\ j = k
               /\ \E r \in Entries("FIVETRAN_RECEIVED", e) :
                    r < k /\ Entries("FIVETRAN_RECEIVED", e) = {r}
    <3>1. /\ j \in 1 .. Len(ledger) /\ ledger[j].action \in Outcomes /\ ledger[j].event = e
          /\ k \in 1 .. Len(ledger) /\ ledger[k].action \in Outcomes /\ ledger[k].event = e
      BY <2>1 DEF Entries, Outcomes
    <3>2. ledger[j].by \in Deliveries /\ ledger[k].by \in Deliveries
      <4>1. ledger[j] \in EntryType /\ ledger[k] \in EntryType
        BY <2>1, <3>1
      <4> QED
        BY <4>1 DEF EntryType
    <3>3. /\ stage[ledger[j].by] # "none" /\ event[ledger[j].by] = e
          /\ stage[ledger[k].by] # "none" /\ event[ledger[k].by] = e
      BY <1>1, <3>1 DEF Ends
    <3>4. Wrote(ledger, ledger[j].by, e) /\ Wrote(ledger, ledger[k].by, e) /\ Single(ledger)
      BY <1>1, <3>2, <3>3 DEF WebInv, Receipts
    <3>5. ledger[j].by = ledger[k].by
      BY <3>4 DEF Wrote, Single
    <3>6. j = k
      BY <1>1, <3>1, <3>5 DEF Ends
    <3>7. PICK r \in 1 .. Len(ledger) : r < k /\ IsReceipt(ledger[r], e)
      BY <1>1, <3>1 DEF Ends
    <3>8. r \in Entries("FIVETRAN_RECEIVED", e)
      BY <2>1, <3>7 DEF Entries, IsReceipt
    <3>9. \A s \in Entries("FIVETRAN_RECEIVED", e) : s = r
      BY <2>1, <3>4, <3>7 DEF Entries, IsReceipt, Single
    <3> QED
      BY <3>6, <3>7, <3>8, <3>9
  <2>3. \A d \in Deliveries : stage[d] = "ended" /\ ~missed[d] => Outcome(event[d])
    BY <1>1 DEF Ends
  <2> QED
    BY <2>2, <2>3 DEF OneOutcome
<1> QED
  BY <1>1, WebInvAlways, EndsAlways, PTL
=============================================================================
