-------------------------- MODULE AuditLedgerProofs --------------------------
(* Proofs about AuditLedger for every set of instances, appenders and       *)
(* events, every clock and every bound.                                     *)
EXTENDS AuditLedger, FiniteSetTheorems, SequenceTheorems, TLAPS

(* Every reachable state is well typed.                                     *)
THEOREM TypeCorrect == Spec => []TypeOK
<1> USE HostAssumption, SentinelAssumption, ClockAssumption
<1>1. Init => TypeOK
  BY DEF Init, TypeOK
<1>2. TypeOK /\ [Next]_vars => TypeOK'
  <2> SUFFICES ASSUME TypeOK, [Next]_vars PROVE TypeOK'
    OBVIOUS
  <2> USE DEF TypeOK
  <2>1. ASSUME NEW i \in Instances, LoadHead(i) PROVE TypeOK'
    BY <2>1 DEF LoadHead
  <2>2. ASSUME NEW i \in Instances, CheckHead(i) PROVE TypeOK'
    BY <2>2 DEF CheckHead
  <2>3. ASSUME NEW i \in Instances, Crash(i) PROVE TypeOK'
    BY <2>3 DEF Crash
  <2>4. ASSUME NEW a \in Appenders, NEW ev \in Events \cup {NoEvent}, AppendInternal(a, ev)
        PROVE TypeOK'
    BY <2>4 DEF AppendInternal
  <2>5. ASSUME NEW a \in Appenders, Lock(a) PROVE TypeOK'
    BY <2>5 DEF Lock
  <2>6. ASSUME NEW a \in Appenders, ReadLatest(a) PROVE TypeOK'
    BY <2>6 DEF ReadLatest, Visible
  <2>7. ASSUME NEW a \in Appenders, Insert(a) PROVE TypeOK'
    <3>1. PICK d \in ClockSteps :
            /\ doc' = [doc EXCEPT ![a] = NewEntry(a, clock[Host[a]] + d)]
            /\ clock' = [clock EXCEPT ![Host[a]] = clock[Host[a]] + d]
      BY <2>7 DEF Insert
    <3>2. clock[Host[a]] + d \in Int
      OBVIOUS
    <3>3. IsEntry(NewEntry(a, clock[Host[a]] + d))
      BY <3>2 DEF NewEntry, IsEntry
    <3>4. /\ clock' \in [Instances -> Int]
          /\ pc' \in [Appenders -> {"idle", "lock", "begin", "read", "inserted", "committed"}]
      BY <2>7, <3>1, <3>2 DEF Insert
    <3>5. /\ doc' = [b \in Appenders |-> doc'[b]]
          /\ \A b \in Appenders :
               IF pc'[b] \in {"inserted", "committed"} THEN IsEntry(doc'[b]) ELSE doc'[b] = NoEntry
      BY <2>7, <3>1, <3>3 DEF Insert
    <3>6. UNCHANGED <<ledger, proc, head, mu, seq, tries, event, read, acked, dups>>
      BY <2>7 DEF Insert
    <3>7. QED
      BY <3>4, <3>5, <3>6
  <2>8. ASSUME NEW a \in Appenders, Return(a), acked' \subseteq acked \cup {<<a, seq[a]>>},
               dups' \subseteq dups \cup (Events \cap {event[a]})
        PROVE TypeOK'
    BY <2>8 DEF Return
  <2>9. ASSUME NEW a \in Appenders, Retry(a) PROVE TypeOK'
    BY <2>9 DEF Retry
  <2>10. ASSUME NEW a \in Appenders, Commit(a) PROVE TypeOK'
    BY <2>10 DEF Commit
  <2>11. ASSUME NEW a \in Appenders, TxnStep(a) PROVE TypeOK'
    BY <2>6, <2>7, <2>8, <2>9, <2>10, <2>11
    DEF TxnStep, InsertDuplicate, Fail, ReturnOK, ReturnUnknown, Recorded
  <2>12. CASE UNCHANGED vars
    BY <2>12 DEF vars
  <2>13. QED
    BY <2>1, <2>2, <2>3, <2>4, <2>5, <2>11, <2>12 DEF Next
<1>3. QED
  BY <1>1, <1>2, PTL DEF Spec

-----------------------------------------------------------------------------
(* Writer.mu: the appender inside a transaction is the one that holds it.   *)
MutexHeld == \A a \in Appenders : InTxn(a) => mu[Host[a]] = a

(* Lock takes the mutex, Return and Crash give it up, no other step does.   *)
LEMMA MutexHeldAlways == Spec => []MutexHeld
<1> USE HostAssumption, SentinelAssumption
<1>1. Init => MutexHeld
  BY DEF Init, MutexHeld, InTxn
<1>2. TypeOK /\ MutexHeld /\ [Next]_vars => MutexHeld'
  <2> SUFFICES ASSUME TypeOK, MutexHeld, [Next]_vars PROVE MutexHeld'
    OBVIOUS
  <2> USE DEF TypeOK, MutexHeld, InTxn
  <2>1. ASSUME NEW i \in Instances, LoadHead(i) \/ CheckHead(i) PROVE MutexHeld'
    BY <2>1 DEF LoadHead, CheckHead
  <2>2. ASSUME NEW i \in Instances, Crash(i) PROVE MutexHeld'
    BY <2>2 DEF Crash
  <2>3. ASSUME NEW a \in Appenders, NEW ev \in Events \cup {NoEvent}, AppendInternal(a, ev)
        PROVE MutexHeld'
    BY <2>3 DEF AppendInternal
  <2>4. ASSUME NEW a \in Appenders, Lock(a) PROVE MutexHeld'
    BY <2>4 DEF Lock, Free
  <2>5. ASSUME NEW a \in Appenders, InTxn(a), Return(a) PROVE MutexHeld'
    BY <2>5 DEF Return
  <2>6. ASSUME NEW a \in Appenders, TxnStep(a) PROVE MutexHeld'
    <3>1. CASE ReadLatest(a) \/ Insert(a) \/ Retry(a) \/ Commit(a)
      BY <3>1 DEF ReadLatest, Insert, Retry, BeforeCommit, Commit
    <3>2. CASE InsertDuplicate(a) \/ Fail(a) \/ ReturnOK(a) \/ ReturnUnknown(a)
      BY <3>2, <2>5 DEF InsertDuplicate, Fail, BeforeCommit, ReturnOK, ReturnUnknown
    <3>3. QED
      BY <2>6, <3>1, <3>2 DEF TxnStep
  <2>7. CASE UNCHANGED vars
    BY <2>7 DEF vars
  <2>8. QED
    BY <2>1, <2>2, <2>3, <2>4, <2>6, <2>7 DEF Next
<1>3. QED
  BY <1>1, <1>2, TypeCorrect, PTL DEF Spec

(* In one instance at most one transaction is open at a time.               *)
THEOREM MutualExclusion == Spec => []OneTxnPerInstance
<1>1. MutexHeld => OneTxnPerInstance
  BY DEF MutexHeld, OneTxnPerInstance
<1>2. QED
  BY <1>1, MutexHeldAlways, PTL

-----------------------------------------------------------------------------
(* Only a commit changes the ledger, and it adds the inserted entry.        *)
LEMMA LedgerGrows ==
  ASSUME [Next]_vars
  PROVE  ledger' = ledger \/ \E a \in Appenders : Commit(a)
BY DEF Next, vars, LoadHead, CheckHead, Crash, AppendInternal, Lock, TxnStep,
       ReadLatest, Insert, InsertDuplicate, Retry, Fail, ReturnOK, ReturnUnknown, Return

(* An inserted entry is the one appendInternal built for the current call.  *)
DocBuilt ==
  \A a \in Appenders :
    pc[a] \in {"inserted", "committed"} =>
      /\ doc[a].id = <<a, seq[a]>>
      /\ doc[a].event = event[a]
      /\ doc[a].prev = PrevHash(read[a])

(* Insert builds the document, and only Commit, Return and Crash end it.    *)
LEMMA DocBuiltAlways == Spec => []DocBuilt
<1> USE HostAssumption
<1>1. Init => DocBuilt
  BY DEF Init, DocBuilt
<1>2. TypeOK /\ DocBuilt /\ [Next]_vars => DocBuilt'
  <2> SUFFICES ASSUME TypeOK, DocBuilt, [Next]_vars PROVE DocBuilt'
    OBVIOUS
  <2> USE DEF TypeOK, DocBuilt
  <2>1. ASSUME NEW i \in Instances, LoadHead(i) \/ CheckHead(i) \/ Crash(i) PROVE DocBuilt'
    BY <2>1 DEF LoadHead, CheckHead, Crash
  <2>2. ASSUME NEW a \in Appenders, NEW ev \in Events \cup {NoEvent}, AppendInternal(a, ev)
        PROVE DocBuilt'
    BY <2>2 DEF AppendInternal
  <2>3. ASSUME NEW a \in Appenders, Lock(a) \/ ReadLatest(a) \/ Retry(a) \/ Commit(a)
        PROVE DocBuilt'
    BY <2>3 DEF Lock, ReadLatest, Retry, BeforeCommit, Commit
  <2>4. ASSUME NEW a \in Appenders, Insert(a) PROVE DocBuilt'
    <3>1. PICK now : doc' = [doc EXCEPT ![a] = NewEntry(a, now)]
      BY <2>4 DEF Insert
    <3>2. /\ NewEntry(a, now).id = <<a, seq[a]>>
          /\ NewEntry(a, now).event = event[a]
          /\ NewEntry(a, now).prev = PrevHash(read[a])
      BY DEF NewEntry
    <3>3. /\ pc' = [pc EXCEPT ![a] = "inserted"]
          /\ UNCHANGED <<seq, event, read>>
      BY <2>4 DEF Insert
    <3>4. ASSUME NEW b \in Appenders, pc'[b] \in {"inserted", "committed"}
          PROVE  /\ doc'[b].id = <<b, seq'[b]>>
                 /\ doc'[b].event = event'[b]
                 /\ doc'[b].prev = PrevHash(read'[b])
      <4>1. CASE b = a
        BY <4>1, <3>1, <3>2, <3>3
      <4>2. CASE b # a
        BY <4>2, <3>1, <3>3, <3>4
      <4>3. QED
        BY <4>1, <4>2
    <3>5. QED
      BY <3>4 DEF PrevHash
  <2>5. ASSUME NEW a \in Appenders, Return(a) PROVE DocBuilt'
    BY <2>5 DEF Return
  <2>6. CASE UNCHANGED vars
    BY <2>6 DEF vars
  <2>7. QED
    BY <2>1, <2>2, <2>3, <2>4, <2>5, <2>6
    DEF Next, TxnStep, InsertDuplicate, Fail, ReturnOK, ReturnUnknown
<1>3. QED
  BY <1>1, <1>2, TypeCorrect, PTL DEF Spec

(* Every link in the ledger leads to an entry of the ledger, so an insert   *)
(* that was rolled back is nobody's predecessor.                            *)
THEOREM LinksRecorded == Spec => []PredecessorRecorded
<1>1. Init => PredecessorRecorded
  BY DEF Init, PredecessorRecorded
<1>2. TypeOK /\ DocBuilt /\ PredecessorRecorded /\ [Next]_vars => PredecessorRecorded'
  <2> SUFFICES ASSUME TypeOK, DocBuilt, PredecessorRecorded, [Next]_vars
               PROVE  PredecessorRecorded'
    OBVIOUS
  <2>1. CASE ledger' = ledger
    BY <2>1 DEF PredecessorRecorded
  <2>2. ASSUME NEW a \in Appenders, Commit(a) PROVE PredecessorRecorded'
    <3>1. doc[a].prev = PrevHash(read[a]) /\ read[a] \in ledger \cup {NoEntry}
      BY <2>2 DEF DocBuilt, TypeOK, Commit
    <3>2. doc[a].prev = NoHash \/ \E p \in ledger : Hash(p) = doc[a].prev
      BY <3>1 DEF PrevHash
    <3>3. QED
      BY <2>2, <3>2 DEF Commit, PredecessorRecorded
  <2>3. QED
    BY <2>1, <2>2, LedgerGrows
<1>3. QED
  BY <1>1, <1>2, TypeCorrect, DocBuiltAlways, PTL DEF Spec

-----------------------------------------------------------------------------
(* An uncommitted insert is the only holder of its key in the unique index. *)
KeyHeld ==
  \A a \in Appenders :
    pc[a] = "inserted" /\ event[a] # NoEvent =>
      /\ \A e \in ledger : e.event # event[a]
      /\ \A b \in Appenders : pc[b] = "inserted" /\ event[b] = event[a] => b = a

(* The key of an open insert is neither recorded nor held twice, so no      *)
(* commit can record an event a second time.                                *)
LEMMA EventKeyed == Spec => [](KeyHeld /\ OneEntryPerEvent)
<1> USE HostAssumption DEF KeyHeld, OneEntryPerEvent
<1>1. Init => KeyHeld /\ OneEntryPerEvent
  BY DEF Init
<1>2. TypeOK /\ DocBuilt /\ KeyHeld /\ OneEntryPerEvent /\ [Next]_vars
        => KeyHeld' /\ OneEntryPerEvent'
  <2> SUFFICES ASSUME TypeOK, DocBuilt, KeyHeld, OneEntryPerEvent, [Next]_vars
               PROVE  KeyHeld' /\ OneEntryPerEvent'
    OBVIOUS
  <2> USE DEF TypeOK
  <2>1. ASSUME NEW i \in Instances, LoadHead(i) \/ CheckHead(i) \/ Crash(i)
        PROVE  KeyHeld' /\ OneEntryPerEvent'
    BY <2>1 DEF LoadHead, CheckHead, Crash
  <2>2. ASSUME NEW a \in Appenders, NEW ev \in Events \cup {NoEvent}, AppendInternal(a, ev)
        PROVE  KeyHeld' /\ OneEntryPerEvent'
    BY <2>2 DEF AppendInternal
  <2>3. ASSUME NEW a \in Appenders, Lock(a) \/ ReadLatest(a) \/ Retry(a)
        PROVE  KeyHeld' /\ OneEntryPerEvent'
    BY <2>3 DEF Lock, ReadLatest, Retry, BeforeCommit
  <2>4. ASSUME NEW a \in Appenders, Insert(a) PROVE KeyHeld' /\ OneEntryPerEvent'
    <3>1. event[a] # NoEvent => /\ \A e \in ledger : e.event # event[a]
                                /\ \A b \in Appenders : pc[b] = "inserted" => event[b] # event[a]
      BY <2>4 DEF Insert, Recorded, Claimed, Open
    <3>2. pc' = [pc EXCEPT ![a] = "inserted"] /\ UNCHANGED <<ledger, event>>
      BY <2>4 DEF Insert
    <3>3. QED
      BY <3>1, <3>2
  <2>5. ASSUME NEW a \in Appenders, Commit(a) PROVE KeyHeld' /\ OneEntryPerEvent'
    <3>1. doc[a].event = event[a]
      BY <2>5 DEF DocBuilt, Commit
    <3>2. QED
      BY <2>5, <3>1 DEF Commit
  <2>6. ASSUME NEW a \in Appenders, Return(a) PROVE KeyHeld' /\ OneEntryPerEvent'
    BY <2>6 DEF Return
  <2>7. CASE UNCHANGED vars
    BY <2>7 DEF vars
  <2>8. QED
    BY <2>1, <2>2, <2>3, <2>4, <2>5, <2>6, <2>7
    DEF Next, TxnStep, InsertDuplicate, Fail, ReturnOK, ReturnUnknown
<1>3. QED
  BY <1>1, <1>2, TypeCorrect, DocBuiltAlways, PTL DEF Spec

(* A webhook event is recorded once, whichever instances race for it.       *)
THEOREM EventOnce == Spec => []OneEntryPerEvent
BY EventKeyed, PTL

-----------------------------------------------------------------------------
(* The ids in the ledger belong to calls already made, and to the current   *)
(* call of an appender only once it has committed.                          *)
IdSpent ==
  /\ \A e \in ledger : \A a \in Appenders, n \in Nat : e.id = <<a, n>> => n =< seq[a]
  /\ \A a \in Appenders :
       pc[a] \in {"lock", "begin", "read", "inserted"} =>
         \A e \in ledger : e.id # <<a, seq[a]>>

(* A call stores at most one entry, however often its callback ran.         *)
THEOREM CallOnce == Spec => []OneEntryPerCall
<1> USE HostAssumption DEF IdSpent, OneEntryPerCall
<1>1. Init => IdSpent /\ OneEntryPerCall
  BY DEF Init
<1>2. TypeOK /\ DocBuilt /\ IdSpent /\ OneEntryPerCall /\ [Next]_vars
        => IdSpent' /\ OneEntryPerCall'
  <2> SUFFICES ASSUME TypeOK, DocBuilt, IdSpent, OneEntryPerCall, [Next]_vars
               PROVE  IdSpent' /\ OneEntryPerCall'
    OBVIOUS
  <2> USE DEF TypeOK
  <2>1. ASSUME NEW i \in Instances, LoadHead(i) \/ CheckHead(i) \/ Crash(i)
        PROVE  IdSpent' /\ OneEntryPerCall'
    BY <2>1 DEF LoadHead, CheckHead, Crash
  <2>2. ASSUME NEW a \in Appenders, NEW ev \in Events \cup {NoEvent}, AppendInternal(a, ev)
        PROVE  IdSpent' /\ OneEntryPerCall'
    <3>1. /\ ledger' = ledger
          /\ seq' = [seq EXCEPT ![a] = seq[a] + 1]
          /\ pc' = [pc EXCEPT ![a] = "lock"]
      BY <2>2 DEF AppendInternal
    <3>2. \A e \in ledger : e.id # <<a, seq[a] + 1>>
      OBVIOUS
    <3>3. QED
      BY <3>1, <3>2
  <2>3. ASSUME NEW a \in Appenders, Lock(a) \/ ReadLatest(a) \/ Insert(a) \/ Retry(a)
        PROVE  IdSpent' /\ OneEntryPerCall'
    BY <2>3 DEF Lock, ReadLatest, Insert, Retry, BeforeCommit
  <2>4. ASSUME NEW a \in Appenders, Commit(a) PROVE IdSpent' /\ OneEntryPerCall'
    <3>1. doc[a].id = <<a, seq[a]>>
      BY <2>4 DEF DocBuilt, Commit
    <3>2. QED
      BY <2>4, <3>1 DEF Commit
  <2>5. ASSUME NEW a \in Appenders, Return(a) PROVE IdSpent' /\ OneEntryPerCall'
    BY <2>5 DEF Return
  <2>6. CASE UNCHANGED vars
    BY <2>6 DEF vars
  <2>7. QED
    BY <2>1, <2>2, <2>3, <2>4, <2>5, <2>6
    DEF Next, TxnStep, InsertDuplicate, Fail, ReturnOK, ReturnUnknown
<1>3. QED
  BY <1>1, <1>2, TypeCorrect, DocBuiltAlways, PTL DEF Spec

-----------------------------------------------------------------------------
(* A committed call has its entry in the ledger.                            *)
CommittedStored == \A a \in Appenders : pc[a] = "committed" => doc[a] \in ledger

(* What a call answered is true of the ledger from then on: nil means the   *)
(* entry is stored, ErrDuplicateEvent that the event is.                    *)
THEOREM AnswersHold == Spec => []AnswersAreRecorded
<1> USE HostAssumption DEF CommittedStored, AnswersAreRecorded
<1> DEFINE Inv == CommittedStored /\ AnswersAreRecorded
<1>1. Init => Inv
  BY DEF Init
<1>2. TypeOK /\ DocBuilt /\ Inv /\ [Next]_vars => Inv'
  <2> SUFFICES ASSUME TypeOK, DocBuilt, Inv, [Next]_vars PROVE Inv'
    OBVIOUS
  <2> USE DEF TypeOK
  <2>1. ASSUME NEW i \in Instances, LoadHead(i) \/ CheckHead(i) \/ Crash(i) PROVE Inv'
    BY <2>1 DEF LoadHead, CheckHead, Crash
  <2>2. ASSUME NEW a \in Appenders, NEW ev \in Events \cup {NoEvent}, AppendInternal(a, ev)
        PROVE Inv'
    BY <2>2 DEF AppendInternal
  <2>3. ASSUME NEW a \in Appenders, Lock(a) \/ ReadLatest(a) \/ Insert(a) \/ Retry(a)
        PROVE Inv'
    BY <2>3 DEF Lock, ReadLatest, Insert, Retry, BeforeCommit
  <2>4. ASSUME NEW a \in Appenders, Commit(a) PROVE Inv'
    BY <2>4 DEF Commit
  <2>5. ASSUME NEW a \in Appenders, InsertDuplicate(a) PROVE Inv'
    BY <2>5 DEF InsertDuplicate, Recorded, Return
  <2>6. ASSUME NEW a \in Appenders, ReturnOK(a) PROVE Inv'
    <3>1. doc[a].id = <<a, seq[a]>> /\ doc[a] \in ledger
      BY <2>6 DEF DocBuilt, ReturnOK
    <3>2. QED
      BY <2>6, <3>1 DEF ReturnOK, Return
  <2>7. ASSUME NEW a \in Appenders, Fail(a) \/ ReturnUnknown(a) PROVE Inv'
    BY <2>7 DEF Fail, ReturnUnknown, Return
  <2>8. CASE UNCHANGED vars
    BY <2>8 DEF vars
  <2>9. QED
    BY <2>1, <2>2, <2>3, <2>4, <2>5, <2>6, <2>7, <2>8 DEF Next, TxnStep
<1>3. QED
  BY <1>1, <1>2, TypeCorrect, DocBuiltAlways, PTL DEF Spec

-----------------------------------------------------------------------------
(* One instance, whose clock moves on between two readings.                 *)
SoleTickingInstance ==
  /\ \A i, j \in Instances : i = j
  /\ \A d \in ClockSteps : d > 0

(* A stored entry is never the nil entry.                                   *)
LEMMA EntryIsNotNil == ASSUME NEW e, IsEntry(e) PROVE e # NoEntry
<1>1. e = [id |-> e.id, event |-> e.event, prev |-> e.prev, ts |-> e.ts]
  BY DEF IsEntry
<1>2. \A i, v, p, t : [id |-> i, event |-> v, prev |-> p, ts |-> t] # <<>>
  OBVIOUS
<1>3. [id |-> e.id, event |-> e.event, prev |-> e.prev, ts |-> e.ts] # <<>>
  BY <1>2
<1>4. QED
  BY <1>1, <1>3 DEF NoEntry

(* The clock is at or past every timestamp, strictly past for a new entry.  *)
ClockAhead ==
  /\ \A e \in ledger, i \in Instances : e.ts =< clock[i]
  /\ \A a \in Appenders : pc[a] = "inserted" =>
       /\ doc[a].ts =< clock[Host[a]]
       /\ \A e \in ledger : e.ts < doc[a].ts

(* An open transaction still sees the head it read.                         *)
HeadRead ==
  \A a \in Appenders : pc[a] \in {"read", "inserted"} => Latest(read[a])

(* Nobody appends before LoadHead is done, and the head it read stays head. *)
StartingQuietly ==
  /\ \A i \in Instances : proc[i] # "up" => \A a \in Appenders : pc[a] = "idle"
  /\ \A i \in Instances : proc[i] = "loading" => IsLatest(head[i], ledger)

SoleInv == ClockAhead /\ HeadRead /\ StartingQuietly /\ LinearChain /\ NeverRefused

(* The verdict of LoadHead on a linear chain.                               *)
LEMMA HeadAccepted ==
  ASSUME TypeOK, LinearChain, NEW h, IsLatest(h, ledger), NEW p, Penultimate(p)
  PROVE  h.prev = ExpectedPrev(h, p)
<1> USE DEF IsLatest
<1>1. h \in ledger /\ \A f \in ledger : IsEntry(f) /\ f.ts \in Int /\ f # NoEntry
  BY EntryIsNotNil DEF TypeOK, IsEntry
<1>2. CASE ~\E f, g \in ledger : f # g
  <2>1. p = NoEntry /\ \A f \in ledger : f = h
    BY <1>1, <1>2 DEF Penultimate
  <2>2. h.prev = NoHash
    BY <1>1, <2>1 DEF LinearChain, JustBefore
  <2>3. QED
    BY <2>1, <2>2 DEF ExpectedPrev
<1>3. CASE \E f, g \in ledger : f # g
  <2>1. p \in ledger \ {h} /\ \A f \in ledger \ {h} : f.ts =< p.ts
    <3>1. PICK k \in ledger : IsLatest(k, ledger) /\ IsLatest(p, ledger \ {k})
      BY <1>3 DEF Penultimate
    <3>2. k.ts = h.ts
      BY <1>1, <3>1
    <3>3. k = h
      BY <1>1, <3>2 DEF LinearChain
    <3>4. QED
      BY <3>1, <3>3
  <2>2. p.ts < h.ts
    BY <1>1, <2>1 DEF LinearChain
  <2>3. PICK q \in ledger : JustBefore(q, h) /\ h.prev = Hash(q)
    BY <1>1, <2>1, <2>2 DEF LinearChain
  <2>4. q = p
    <3>1. q.ts = p.ts
      BY <1>1, <2>1, <2>2, <2>3 DEF JustBefore
    <3>2. QED
      BY <2>1, <3>1 DEF LinearChain
  <2>5. QED
    BY <1>1, <2>1, <2>2, <2>3, <2>4 DEF ExpectedPrev
<1>4. QED
  BY <1>2, <1>3

(* A commit of the only open transaction extends the chain at its end.      *)
LEMMA CommitExtends ==
  ASSUME SoleTickingInstance, TypeOK, MutexHeld, DocBuilt, SoleInv,
         NEW a \in Appenders, Commit(a)
  PROVE  SoleInv'
<1> USE HostAssumption, ClockAssumption DEF SoleInv
<1>1. /\ pc[a] = "inserted"
      /\ ledger' = ledger \cup {doc[a]}
      /\ pc' = [pc EXCEPT ![a] = "committed"]
      /\ UNCHANGED <<proc, head, mu, clock, read, doc>>
  BY DEF Commit
<1>2. /\ doc[a].ts \in Int
      /\ \A e \in ledger : e.ts \in Int /\ e.ts < doc[a].ts
      /\ doc[a].ts =< clock[Host[a]]
      /\ clock[Host[a]] \in Int
  BY <1>1 DEF TypeOK, IsEntry, ClockAhead
<1>3. \A b \in Appenders : b # a => pc[b] \notin {"read", "inserted"}
  BY <1>1 DEF MutexHeld, InTxn, SoleTickingInstance
<1>4. ClockAhead'
  BY <1>1, <1>2, <1>3 DEF ClockAhead, TypeOK, SoleTickingInstance
<1>5. HeadRead'
  BY <1>1, <1>3 DEF HeadRead, TypeOK
<1>6. proc[Host[a]] = "up"
  BY <1>1 DEF StartingQuietly
<1>7. StartingQuietly' /\ NeverRefused'
  BY <1>1, <1>6 DEF StartingQuietly, NeverRefused, SoleTickingInstance
<1>8. LinearChain'
  <2>1. \A e, f \in ledger' : e.ts = f.ts => e = f
    BY <1>1, <1>2 DEF LinearChain
  <2>2. ASSUME NEW e \in ledger
        PROVE  \/ e.prev = NoHash /\ \A q \in ledger' : e.ts =< q.ts
               \/ \E p \in ledger' : JustBefore(p, e)' /\ e.prev = Hash(p)
    <3>1. CASE e.prev = NoHash /\ \A q \in ledger : e.ts =< q.ts
      BY <1>1, <1>2, <3>1
    <3>2. CASE \E p \in ledger : JustBefore(p, e) /\ e.prev = Hash(p)
      BY <1>1, <1>2, <3>2 DEF JustBefore
    <3>3. QED
      BY <3>1, <3>2 DEF LinearChain
  <2>3. \/ doc[a].prev = NoHash /\ \A q \in ledger' : doc[a].ts =< q.ts
        \/ \E p \in ledger' : JustBefore(p, doc[a])' /\ doc[a].prev = Hash(p)
    <3>1. doc[a].prev = PrevHash(read[a]) /\ Latest(read[a])
      BY <1>1 DEF DocBuilt, HeadRead
    <3>2. CASE ledger = {}
      BY <1>1, <1>2, <3>1, <3>2 DEF Latest, Visible, PrevHash
    <3>3. CASE ledger # {}
      <4>1. IsLatest(read[a], ledger)
        BY <3>1, <3>3 DEF Latest, Visible
      <4>2. read[a] \in ledger /\ read[a] # NoEntry
        BY <4>1, EntryIsNotNil DEF IsLatest, TypeOK
      <4>3. JustBefore(read[a], doc[a])'
        BY <1>1, <1>2, <4>1, <4>2 DEF JustBefore, IsLatest
      <4>4. QED
        BY <1>1, <3>1, <4>2, <4>3 DEF PrevHash
    <3>4. QED
      BY <3>2, <3>3
  <2>4. QED
    BY <1>1, <2>1, <2>2, <2>3 DEF LinearChain, Hash
<1>9. QED
  BY <1>4, <1>5, <1>7, <1>8

(* With one instance and a ticking clock every step keeps the chain.        *)
LEMMA SoleInvAlways ==
  ASSUME SoleTickingInstance
  PROVE  Spec => []SoleInv
<1> USE HostAssumption, ClockAssumption, SentinelAssumption
<1>1. Init => SoleInv
  BY DEF Init, SoleInv, ClockAhead, HeadRead, StartingQuietly, LinearChain, NeverRefused
<1>2. TypeOK /\ MutexHeld /\ DocBuilt /\ SoleInv /\ [Next]_vars => SoleInv'
  <2> SUFFICES ASSUME TypeOK, MutexHeld, DocBuilt, SoleInv, [Next]_vars PROVE SoleInv'
    OBVIOUS
  <2>1. ASSUME ledger' = ledger PROVE LinearChain'
    BY <2>1 DEF SoleInv, LinearChain, JustBefore
  <2> USE DEF SoleInv, TypeOK
  <2>2. ASSUME NEW i \in Instances, LoadHead(i) PROVE SoleInv'
    <3>1. /\ UNCHANGED <<ledger, clock, pc, read, doc>>
          /\ ClockAhead' /\ HeadRead' /\ LinearChain'
      BY <2>1, <2>2 DEF LoadHead, ClockAhead, HeadRead, Latest, Visible, IsLatest
    <3>2. NeverRefused' /\ \A j \in Instances : j = i
      BY <2>2 DEF LoadHead, NeverRefused, SoleTickingInstance
    <3>3. \A a \in Appenders : pc[a] = "idle"
      BY <2>2 DEF LoadHead, StartingQuietly
    <3>4. proc'[i] = "loading" => IsLatest(head'[i], ledger)
      BY <2>2 DEF LoadHead, Latest, Visible
    <3>5. StartingQuietly'
      BY <3>1, <3>2, <3>3, <3>4 DEF StartingQuietly, IsLatest
    <3>6. QED
      BY <3>1, <3>2, <3>5
  <2>3. ASSUME NEW i \in Instances, CheckHead(i) PROVE SoleInv'
    <3>1. PICK p \in ledger \cup {NoEntry} :
            /\ Penultimate(p)
            /\ proc' = [proc EXCEPT ![i] =
                 IF head[i].prev = ExpectedPrev(head[i], p) THEN "up" ELSE "refused"]
      BY <2>3 DEF CheckHead
    <3>2. IsLatest(head[i], ledger)
      BY <2>3 DEF CheckHead, StartingQuietly
    <3>3. proc'[i] = "up" /\ \A j \in Instances : j = i
      BY <3>1, <3>2, HeadAccepted DEF SoleTickingInstance
    <3>4. /\ UNCHANGED <<ledger, clock, pc, read, doc>>
          /\ ClockAhead' /\ HeadRead' /\ LinearChain'
      BY <2>1, <2>3 DEF CheckHead, ClockAhead, HeadRead, Latest, Visible, IsLatest
    <3>5. QED
      BY <3>3, <3>4 DEF StartingQuietly, NeverRefused
  <2>4. ASSUME NEW i \in Instances, Crash(i) PROVE SoleInv'
    BY <2>1, <2>4 DEF Crash, ClockAhead, HeadRead, StartingQuietly, NeverRefused,
                      SoleTickingInstance, Latest, Visible, IsLatest
  <2>5. ASSUME NEW a \in Appenders, NEW ev \in Events \cup {NoEvent}, AppendInternal(a, ev)
        PROVE SoleInv'
    BY <2>1, <2>5 DEF AppendInternal, ClockAhead, HeadRead, StartingQuietly, NeverRefused,
                      SoleTickingInstance, Latest, Visible, IsLatest
  <2>6. ASSUME NEW a \in Appenders, Lock(a) \/ ReadLatest(a) \/ Retry(a) PROVE SoleInv'
    BY <2>1, <2>6 DEF Lock, ReadLatest, Retry, BeforeCommit, ClockAhead, HeadRead,
                      StartingQuietly, NeverRefused, SoleTickingInstance, Latest, Visible, IsLatest
  <2>7. ASSUME NEW a \in Appenders, Insert(a) PROVE SoleInv'
    <3>1. PICK d \in ClockSteps :
            /\ doc' = [doc EXCEPT ![a] = NewEntry(a, clock[Host[a]] + d)]
            /\ clock' = [clock EXCEPT ![Host[a]] = clock[Host[a]] + d]
      BY <2>7 DEF Insert
    <3>2. d \in Int /\ d > 0 /\ clock[Host[a]] \in Int
      BY DEF SoleTickingInstance
    <3>3. doc'[a].ts = clock'[Host[a]] /\ \A e \in ledger : e.ts < doc'[a].ts
      BY <3>1, <3>2 DEF NewEntry, ClockAhead, IsEntry
    <3>4. /\ pc' = [pc EXCEPT ![a] = "inserted"]
          /\ pc[a] = "read"
          /\ UNCHANGED <<ledger, proc, head, mu, read>>
      BY <2>7 DEF Insert
    <3>5. \A b \in Appenders : b # a => pc[b] # "inserted"
      BY <3>4 DEF MutexHeld, InTxn, SoleTickingInstance
    <3>6. ClockAhead'
      BY <3>1, <3>2, <3>3, <3>4, <3>5 DEF ClockAhead, SoleTickingInstance, IsEntry
    <3>7. HeadRead' /\ StartingQuietly' /\ NeverRefused'
      BY <3>4 DEF HeadRead, StartingQuietly, NeverRefused, Latest, Visible, IsLatest,
                  SoleTickingInstance
    <3>8. QED
      BY <2>1, <3>4, <3>6, <3>7
  <2>8. ASSUME NEW a \in Appenders, Commit(a) PROVE SoleInv'
    BY <2>8, CommitExtends
  <2>9. ASSUME NEW a \in Appenders, Return(a) PROVE SoleInv'
    BY <2>1, <2>9 DEF Return, ClockAhead, HeadRead, StartingQuietly, NeverRefused,
                      SoleTickingInstance, Latest, Visible, IsLatest
  <2>10. CASE UNCHANGED vars
    BY <2>1, <2>10 DEF vars, ClockAhead, HeadRead, StartingQuietly, NeverRefused,
                       Latest, Visible, IsLatest
  <2>11. QED
    BY <2>2, <2>3, <2>4, <2>5, <2>6, <2>7, <2>8, <2>9, <2>10
    DEF Next, TxnStep, InsertDuplicate, Fail, ReturnOK, ReturnUnknown
<1>3. QED
  BY <1>1, <1>2, TypeCorrect, MutexHeldAlways, DocBuiltAlways, PTL DEF Spec

(* One instance with a ticking clock keeps a chain that VerifyChain accepts *)
(* in timestamp order, through any number of crashes, retries and appenders.*)
THEOREM ChainStaysLinear ==
  ASSUME SoleTickingInstance
  PROVE  Spec => []LinearChain
<1>1. SoleInv => LinearChain
  BY DEF SoleInv
<1>2. QED
  BY <1>1, SoleInvAlways, PTL

(* Then LoadHead never refuses the ledger at a restart.                     *)
THEOREM RestartAccepted ==
  ASSUME SoleTickingInstance
  PROVE  Spec => []NeverRefused
<1>1. SoleInv => NeverRefused
  BY DEF SoleInv
<1>2. QED
  BY <1>1, SoleInvAlways, PTL

-----------------------------------------------------------------------------
(* The log the ledger stands for is a sequence of its entries, and the last *)
(* of them is the head.                                                     *)
LogOK ==
  /\ IsFiniteSet(ledger)
  /\ Log \in Seq(ledger)
  /\ \A e \in ledger : e.ts =< Log[Cardinality(ledger)].ts

(* A sequence one longer that agrees with s on s is s with its last element *)
(* appended.                                                                *)
LEMMA AppendedAtEnd ==
  ASSUME NEW S, NEW s \in Seq(S), NEW e \in S, NEW t \in Seq(S), NEW n \in Nat,
         Len(s) = n, Len(t) = n + 1, t[n + 1] = e, \A k \in 1 .. n : t[k] = s[k]
  PROVE  t = Append(s, e)
OBVIOUS

(* An entry later than all others joins the log at its end: nobody else's   *)
(* rank changes.                                                            *)
LEMMA LogAppends ==
  ASSUME IsFiniteSet(ledger), Log \in Seq(ledger), \A e \in ledger : e.ts \in Int,
         NEW d, d.ts \in Int, \A e \in ledger : e.ts < d.ts, ledger' = ledger \cup {d}
  PROVE  Log' = Append(Log, d)
<1> DEFINE Earlier(e) == {f \in ledger : f.ts < e.ts}
           Nth(k) == {f \in ledger : Rank(f) = k - 1}
           NextNth(k) == {f \in ledger' : Rank(f)' = k - 1}
           First(T) == CHOOSE e \in T : TRUE
           n == Cardinality(ledger)
<1>1. d \notin ledger /\ n \in Nat /\ Cardinality(ledger') = n + 1
  BY FS_AddElement, FS_CardinalityType
<1>2. \A e \in ledger : Rank(e)' = Rank(e) /\ Rank(e) \in Nat /\ Rank(e) < n
  <2> SUFFICES ASSUME NEW e \in ledger
               PROVE  Rank(e)' = Rank(e) /\ Rank(e) \in Nat /\ Rank(e) < n
    OBVIOUS
  <2>1. {f \in ledger' : f.ts < e.ts} = Earlier(e)
    OBVIOUS
  <2>2. e \notin Earlier(e) /\ Earlier(e) \subseteq ledger
    OBVIOUS
  <2>3. Cardinality(Earlier(e)) \in Nat /\ Cardinality(Earlier(e)) < n
    BY <2>2, <1>1, FS_Subset, FS_CardinalityType
  <2>4. QED
    BY <2>1, <2>3 DEF Rank
<1>3. Rank(d)' = n
  <2>1. {f \in ledger' : f.ts < d.ts} = ledger
    OBVIOUS
  <2>2. QED
    BY <2>1 DEF Rank
<1>4. \A k \in 1 .. n : NextNth(k) = Nth(k)
  BY <1>1, <1>2, <1>3
<1>5. NextNth(n + 1) = {d}
  <2>1. (n + 1) - 1 = n
    BY <1>1
  <2>2. \A f \in ledger' : Rank(f)' = n <=> f = d
    BY <1>1, <1>2, <1>3
  <2>3. NextNth(n + 1) = {f \in ledger' : Rank(f)' = n}
    BY <2>1
  <2>4. QED
    BY <2>2, <2>3
<1>6. First({d}) = d
  OBVIOUS
<1>7. Log = [k \in 1 .. n |-> First(Nth(k))]
  BY DEF Log
<1>8. Log' = [k \in 1 .. n + 1 |-> First(NextNth(k))]
  BY <1>1 DEF Log
<1> HIDE DEF First, Nth, NextNth
<1>9. n + 1 \in 1 .. n + 1 /\ \A k \in 1 .. n : k \in 1 .. n + 1
  BY <1>1
<1>10. Log'[n + 1] = d
  BY <1>5, <1>6, <1>8, <1>9
<1>11. Len(Log) = n /\ \A k \in 1 .. n : Log[k] = First(Nth(k))
  BY <1>1, <1>7
<1>12. \A k \in 1 .. n : Log'[k] = Log[k]
  BY <1>4, <1>8, <1>9, <1>11
<1>13. Log' \in Seq(ledger') /\ Len(Log') = n + 1
  <2>1. \A k \in 1 .. n + 1 : k \in 1 .. n \/ k = n + 1
    BY <1>1
  <2>2. \A k \in 1 .. n + 1 : Log'[k] \in ledger'
    BY <2>1, <1>10, <1>11, <1>12
  <2>3. Log' \in [1 .. n + 1 -> ledger']
    BY <2>2, <1>8
  <2>4. QED
    BY <2>3, <1>1
<1> HIDE DEF n
<1>14. QED
  BY <1>1, <1>10, <1>11, <1>12, <1>13, AppendedAtEnd

(* Each commit records one entry at the end of the log, later than the rest *)
(* and linked to the tip it read inside its transaction, and no event twice.*)
LEMMA CommitRecords ==
  ASSUME SoleTickingInstance, TypeOK, DocBuilt, KeyHeld, SoleInv, LogOK,
         NEW a \in Appenders, Commit(a)
  PROVE  LogOK' /\ AbstractLog!Next
<1> USE HostAssumption
<1> DEFINE d == doc[a]
           n == Cardinality(ledger)
<1>1. pc[a] = "inserted" /\ ledger' = ledger \cup {d}
  BY DEF Commit
<1>2. /\ IsEntry(d) /\ d.ts \in Int
      /\ \A e \in ledger : IsEntry(e) /\ e.ts \in Int /\ e.ts < d.ts
  BY <1>1 DEF TypeOK, IsEntry, SoleInv, ClockAhead
<1>3. Log' = Append(Log, d)
  BY <1>1, <1>2, LogAppends DEF LogOK
<1>4. /\ n \in Nat /\ Len(Log) = n /\ Log \in Seq(ledger)
      /\ IsFiniteSet(ledger') /\ Cardinality(ledger') = n + 1
  BY <1>1, <1>2, FS_AddElement, FS_CardinalityType DEF LogOK, Log
<1>5. LogOK'
  <2>1. Append(Log, d) \in Seq(ledger') /\ Append(Log, d)[n + 1] = d
    BY <1>1, <1>4
  <2>2. QED
    <3>1. Log' \in Seq(ledger') /\ Log'[Cardinality(ledger')] = d
      BY <1>3, <1>4, <2>1
    <3>2. \A e \in ledger' : e.ts =< d.ts
      BY <1>1, <1>2
    <3>3. QED
      BY <1>4, <3>1, <3>2 DEF LogOK
<1>6. d.prev = AbstractLog!Tip
  <2>1. d.prev = PrevHash(read[a]) /\ Latest(read[a])
    BY <1>1 DEF DocBuilt, SoleInv, HeadRead
  <2>2. CASE ledger = {}
    <3>1. Log = <<>>
      BY <1>4, <2>2
    <3>2. QED
      BY <2>1, <2>2, <3>1 DEF Latest, Visible, PrevHash, NoHash, AbstractLog!Tip, AbstractLog!NoHash
  <2>3. CASE ledger # {}
    <3>1. IsLatest(read[a], ledger) /\ read[a] # NoEntry
      BY <1>2, <2>1, <2>3, EntryIsNotNil DEF Latest, Visible, IsLatest
    <3>2. n > 0 /\ Log[n] \in ledger
      BY <1>4, <2>3, FS_EmptySet DEF LogOK
    <3>3. Log[n].ts = read[a].ts
      BY <1>2, <3>1, <3>2 DEF LogOK, IsLatest
    <3>4. Log[n] = read[a]
      BY <3>1, <3>2, <3>3 DEF IsLatest, SoleInv, LinearChain
    <3>5. Log # <<>>
      BY <1>4, <3>2
    <3>6. QED
      BY <1>4, <2>1, <3>1, <3>4, <3>5 DEF PrevHash, Hash, AbstractLog!Tip, AbstractLog!Hash
  <2>4. QED
    BY <2>2, <2>3
<1>7. /\ d.event # NoEvent => \A k \in DOMAIN Log : Log[k].event # d.event
      /\ \A k \in DOMAIN Log : Log[k].ts < d.ts
  BY <1>1, <1>2, <1>4 DEF DocBuilt, KeyHeld
<1>8. Log' # <<>> /\ Log'[Len(Log')] = d
  BY <1>3, <1>4
<1>9. QED
  BY <1>3, <1>5, <1>6, <1>7, <1>8 DEF AbstractLog!Next, AbstractLog!Record

(* The initial ledger is the empty log.                                     *)
LEMMA LogInit ==
  ASSUME Init
  PROVE  LogOK /\ AbstractLog!Init
<1>1. ledger = {} /\ IsFiniteSet(ledger) /\ Cardinality(ledger) = 0
  BY FS_EmptySet DEF Init
<1>2. Log = <<>>
  BY <1>1 DEF Log
<1>3. QED
  BY <1>1, <1>2 DEF LogOK, AbstractLog!Init

(* A commit records one entry; every other step leaves the log alone.       *)
LEMMA LogStep ==
  ASSUME SoleTickingInstance, TypeOK, DocBuilt, KeyHeld, SoleInv, LogOK, [Next]_vars
  PROVE  LogOK' /\ [AbstractLog!Next]_Log
<1>1. CASE ledger' = ledger
  <2>1. Log' = Log
    BY <1>1 DEF Log, Rank
  <2>2. QED
    BY <1>1, <2>1 DEF LogOK
<1>2. ASSUME NEW a \in Appenders, Commit(a) PROVE LogOK' /\ [AbstractLog!Next]_Log
  BY <1>2, CommitRecords
<1>3. QED
  BY <1>1, <1>2, LedgerGrows

(* With one instance and a clock that moves on, the ledger implements the   *)
(* log its readers were promised (AuditLog), through every interleaving of  *)
(* the appenders, crash, retry and error return.                            *)
THEOREM LedgerImplementsLog ==
  ASSUME SoleTickingInstance
  PROVE  Spec => ImplementsLog
<1>1. Init => LogOK /\ AbstractLog!Init
  BY LogInit
<1>2. TypeOK /\ DocBuilt /\ KeyHeld /\ SoleInv /\ LogOK /\ [Next]_vars
        => LogOK' /\ [AbstractLog!Next]_Log
  BY LogStep
<1>3. QED
  BY <1>1, <1>2, TypeCorrect, DocBuiltAlways, EventKeyed, SoleInvAlways, PTL
  DEF Spec, ImplementsLog, AbstractLog!Spec

(* Log is a sequence, and one that the walk accepts.                        *)
WalkableLog == LogOK /\ AbstractLog!WalkAccepts

(* A step of the abstract log keeps it acceptable to the walk.              *)
LEMMA RecordAccepted ==
  ASSUME LogOK, LogOK', AbstractLog!WalkAccepts, [AbstractLog!Next]_Log
  PROVE  AbstractLog!WalkAccepts'
<1>1. CASE UNCHANGED Log
  BY <1>1 DEF AbstractLog!WalkAccepts
<1>2. CASE AbstractLog!Next
  <2>1. PICK e : AbstractLog!Record(e)
    BY <1>2 DEF AbstractLog!Next
  <2>2. PICK S : Log \in Seq(S)
    BY DEF LogOK
  <2>3. PICK n \in Nat : n = Len(Log) /\ DOMAIN Log = 1 .. n
    BY <2>2
  <2>4. /\ DOMAIN Log' = 1 .. n + 1
        /\ Log'[n + 1] = e
        /\ \A k \in 1 .. n : Log'[k] = Log[k]
    BY <2>1, <2>2, <2>3 DEF AbstractLog!Record
  <2>5. e.prev = (IF n + 1 = 1 THEN AbstractLog!NoHash ELSE AbstractLog!Hash(Log[n]))
    BY <2>1, <2>2, <2>3 DEF AbstractLog!Record, AbstractLog!Tip
  <2>6. ASSUME NEW k \in 1 .. n + 1
        PROVE  /\ Log'[k].prev = (IF k = 1 THEN AbstractLog!NoHash ELSE AbstractLog!Hash(Log'[k - 1]))
               /\ \A j \in 1 .. n + 1 : j < k => Log'[j].ts < Log'[k].ts
    <3>1. CASE k = n + 1
      BY <2>1, <2>3, <2>4, <2>5, <3>1 DEF AbstractLog!Record
    <3>2. CASE k \in 1 .. n
      <4>1. \A j \in 1 .. n + 1 : j < k => j \in 1 .. n
        BY <2>3, <3>2
      <4>2. k # 1 => k - 1 \in 1 .. n
        BY <2>3, <3>2
      <4>3. QED
        BY <2>3, <2>4, <3>2, <4>1, <4>2 DEF AbstractLog!WalkAccepts
    <3>3. QED
      BY <2>3, <3>1, <3>2
  <2>7. QED
    BY <2>4, <2>6 DEF AbstractLog!WalkAccepts, AbstractLog!Hash
<1>3. QED
  BY <1>1, <1>2

(* So the ledger of one ticking instance, read oldest-first, is at every    *)
(* moment what VerifyChain accepts: this is the writer ChainWalk starts     *)
(* from, whose entries link and whose timestamps grow.                      *)
THEOREM LedgerCanBeWalked ==
  ASSUME SoleTickingInstance
  PROVE  Spec => []AbstractLog!WalkAccepts
<1>1. Init => WalkableLog
  <2>1. Log = <<>> => DOMAIN Log = {}
    OBVIOUS
  <2>2. QED
    BY <2>1, LogInit DEF WalkableLog, AbstractLog!Init, AbstractLog!WalkAccepts
<1>2. TypeOK /\ DocBuilt /\ KeyHeld /\ SoleInv /\ WalkableLog /\ [Next]_vars
        => WalkableLog'
  <2> SUFFICES ASSUME TypeOK, DocBuilt, KeyHeld, SoleInv, WalkableLog, [Next]_vars
               PROVE  WalkableLog'
    OBVIOUS
  <2>1. LogOK /\ AbstractLog!WalkAccepts
    BY DEF WalkableLog
  <2>2. LogOK' /\ [AbstractLog!Next]_Log
    BY <2>1, LogStep
  <2>3. AbstractLog!WalkAccepts'
    BY <2>1, <2>2, RecordAccepted
  <2>4. QED
    BY <2>2, <2>3 DEF WalkableLog
<1>3. WalkableLog => AbstractLog!WalkAccepts
  BY DEF WalkableLog
<1>4. QED
  BY <1>1, <1>2, <1>3, TypeCorrect, DocBuiltAlways, EventKeyed, SoleInvAlways, PTL DEF Spec

(* And it never forks: two entries that link to one predecessor are the     *)
(* outcome of two instances alone (the run ledger_fork).                    *)
THEOREM SoleInstanceNeverForks ==
  ASSUME SoleTickingInstance
  PROVE  Spec => []NoFork
<1>1. TypeOK /\ LinearChain => NoFork
  <2> SUFFICES ASSUME TypeOK, LinearChain PROVE NoFork
    OBVIOUS
  <2>1. \A g \in ledger : g.ts \in Int
    BY DEF TypeOK, IsEntry
  <2>2. ASSUME NEW e \in ledger, NEW f \in ledger, e.prev = f.prev, e.ts < f.ts
        PROVE  FALSE
    <3>1. PICK p \in ledger : JustBefore(p, f) /\ f.prev = Hash(p)
      BY <2>1, <2>2 DEF LinearChain
    <3>2. Len(f.prev) = 3 /\ f.prev[3] = p.ts /\ Len(NoHash) = 0
      BY <3>1 DEF Hash, NoHash
    <3>3. PICK q \in ledger : JustBefore(q, e) /\ e.prev = Hash(q)
      BY <2>2, <3>2 DEF LinearChain
    <3>4. p.ts = q.ts
      BY <2>2, <3>2, <3>3 DEF Hash
    <3>5. QED
      BY <2>1, <2>2, <3>1, <3>3, <3>4 DEF JustBefore
  <2>3. \A e, f \in ledger : e.ts < f.ts \/ f.ts < e.ts \/ e.ts = f.ts
    BY <2>1
  <2>4. QED
    BY <2>2, <2>3 DEF NoFork, LinearChain
<1>2. QED
  BY <1>1, TypeCorrect, ChainStaysLinear, PTL
=============================================================================
