----------------------------- MODULE AuditLedger -----------------------------
(***************************************************************************)
(* The audit ledger: internal/audit/mongodb (Writer, mongoStore) and the   *)
(* start-up check main.go makes of it.                                     *)
(*                                                                         *)
(* Several service instances share one MongoDB collection.  In an instance *)
(* any number of goroutines (appenders) call Writer.Append*; they are      *)
(* serialised by Writer.mu, and each call runs one WithTransaction whose   *)
(* callback reads the head, builds and signs an entry linked to it, and    *)
(* inserts it.  Across instances there is only the transaction: a snapshot *)
(* and a conflict on the unique index over source_event_id, nothing else.  *)
(***************************************************************************)
EXTENDS Integers, FiniteSets

CONSTANTS
  Instances,   \* service processes that share the collection
  Appenders,   \* goroutines that call Append, AppendWithThought, AppendWithEvent
  Host,        \* Host[a] is the instance appender a runs in
  Events,      \* webhook event ids (SourceEventID)
  NoEvent,     \* the empty SourceEventID of an ordinary entry
  Nobody,      \* nobody holds Writer.mu
  ClockSteps,  \* by how much an instance's clock may move between two readings, in ms
  MaxCalls,    \* bound: Append calls an appender makes
  MaxTries     \* bound: times the driver runs the callback of one call

ASSUME HostAssumption == Host \in [Appenders -> Instances]
ASSUME SentinelAssumption ==
  /\ NoEvent \notin Events
  /\ Nobody \notin Appenders
ASSUME ClockAssumption == ClockSteps \subseteq Int
ASSUME BoundAssumption == MaxCalls \in Nat /\ MaxTries \in Nat

VARIABLES
  ledger,    \* the committed documents of audit_ledger
  proc,      \* proc[i]: "down", "loading" (inside LoadHead), "up" or "refused"
  head,      \* head[i]: the entry LoadHead got from Latest
  mu,        \* mu[i]: the appender that holds Writer.mu
  clock,     \* clock[i]: the last time.Now() reading, truncated to ms
  pc,        \* pc[a]: where appender a is in appendInternal
  seq,       \* seq[a]: number of a's current call
  tries,     \* tries[a]: runs of the callback in the current call
  event,     \* event[a]: the eventID argument
  read,      \* read[a]: what Latest returned in the current transaction
  doc,       \* doc[a]: the entry the current transaction inserted
  acked,     \* history: the ids of the entries whose call returned nil
  dups       \* history: the events whose call returned ErrDuplicateEvent

vars == <<ledger, proc, head, mu, clock, pc, seq, tries, event, read, doc,
          acked, dups>>

-----------------------------------------------------------------------------
(* Entries.  The hash covers PreviousHash, Action, Payload, Thought and the *)
(* timestamp, but neither the ID nor the correlation token.  The bytes an   *)
(* entry carries are told apart by its event only: the payload of a receipt *)
(* is its event, and every other entry has the same bytes, the worst case   *)
(* for a hash that leaves the ID out.  SHA-256 is injective.                *)

NoHash == <<>>
NoEntry == <<>>   \* a nil *audit.Entry

Hash(e) == <<e.prev, e.event, e.ts>>

PrevHash(e) == IF e = NoEntry THEN NoHash ELSE Hash(e)

NewEntry(a, now) ==
  [id |-> <<a, seq[a]>>, event |-> event[a], prev |-> PrevHash(read[a]), ts |-> now]

(* What a transaction's snapshot shows: committed entries only. *)
DirtyVisible == ledger \cup {doc[a] : a \in {b \in Appenders : pc[b] = "inserted"}}
Visible == ledger

(* FindOne sorted by timestamp: entries with equal timestamps come in any order. *)
UnsortedFirst(e, docs) == e \in docs
IsLatest(e, docs) == e \in docs /\ \A f \in docs : f.ts =< e.ts

Latest(e) == IF Visible = {} THEN e = NoEntry ELSE IsLatest(e, Visible)

(* The same sort with skip 1: some order puts h first and e second. *)
AscendingPenultimate(e) ==
  IF \E f, g \in ledger : f # g
  THEN \E h \in ledger : /\ e \in ledger \ {h}
                         /\ \A f \in ledger : h.ts =< f.ts
                         /\ \A f \in ledger \ {h} : e.ts =< f.ts
  ELSE e = NoEntry
Penultimate(e) ==
  IF \E f, g \in ledger : f # g
  THEN \E h \in ledger : IsLatest(h, ledger) /\ IsLatest(e, ledger \ {h})
  ELSE e = NoEntry

(* The unique partial index over source_event_id: a committed entry has the *)
(* key, or an uncommitted insert of another transaction holds it.           *)
Open(ev) == \E b \in Appenders : pc[b] = "inserted" /\ event[b] = ev
NeverRecorded(ev) == FALSE
RecordedOrOpen(ev) == ev # NoEvent /\ (Open(ev) \/ \E e \in ledger : e.event = ev)
Recorded(ev) == ev # NoEvent /\ \E e \in ledger : e.event = ev

NeverClaimed(ev) == FALSE
Claimed(ev) == ev # NoEvent /\ Open(ev)

InTxn(a) == pc[a] \in {"begin", "read", "inserted", "committed"}

-----------------------------------------------------------------------------
Init ==
  /\ ledger = {}
  /\ proc = [i \in Instances |-> "down"]
  /\ head = [i \in Instances |-> NoEntry]
  /\ mu = [i \in Instances |-> Nobody]
  /\ clock = [i \in Instances |-> 0]
  /\ pc = [a \in Appenders |-> "idle"]
  /\ seq = [a \in Appenders |-> 0]
  /\ tries = [a \in Appenders |-> 0]
  /\ event = [a \in Appenders |-> NoEvent]
  /\ read = [a \in Appenders |-> NoEntry]
  /\ doc = [a \in Appenders |-> NoEntry]
  /\ acked = {}
  /\ dups = {}

(* buildDeps calls LoadHead, which reads the newest entry.  A fresh ledger  *)
(* (ErrEmpty) is accepted at once.                                          *)
LoadHead(i) ==
  /\ proc[i] \in {"down", "refused"}
  /\ \/ /\ ledger = {}
        /\ proc' = [proc EXCEPT ![i] = "up"]
        /\ UNCHANGED head
     \/ \E e \in ledger :
          /\ Latest(e)
          /\ head' = [head EXCEPT ![i] = e]
          /\ proc' = [proc EXCEPT ![i] = "loading"]
  /\ UNCHANGED <<ledger, mu, clock, pc, seq, tries, event, read, doc, acked, dups>>

(* The link LoadHead holds the head against: the hash of the second newest  *)
(* entry, nil if there is none, and no comparison at all on a tie.          *)
ExpectedPrev(h, p) ==
  IF p = NoEntry THEN NoHash ELSE IF p.ts = h.ts THEN h.prev ELSE Hash(p)

(* LoadHead's second query, outside any transaction, and the verdict on it. *)
(* The hash and the signature of a stored entry always verify here.         *)
CheckHead(i) ==
  /\ proc[i] = "loading"
  /\ \E p \in ledger \cup {NoEntry} :
       /\ Penultimate(p)
       /\ proc' = [proc EXCEPT ![i] =
                     IF head[i].prev = ExpectedPrev(head[i], p) THEN "up" ELSE "refused"]
  /\ head' = [head EXCEPT ![i] = NoEntry]
  /\ UNCHANGED <<ledger, mu, clock, pc, seq, tries, event, read, doc, acked, dups>>

(* A goroutine calls Append, AppendWithThought or AppendWithEvent and waits for mu. *)
AppendInternal(a, ev) ==
  /\ pc[a] = "idle"
  /\ proc[Host[a]] = "up"
  /\ seq[a] < MaxCalls
  /\ pc' = [pc EXCEPT ![a] = "lock"]
  /\ seq' = [seq EXCEPT ![a] = @ + 1]
  /\ event' = [event EXCEPT ![a] = ev]
  /\ UNCHANGED <<ledger, proc, head, mu, clock, tries, read, doc, acked, dups>>

AlwaysFree(i) == TRUE
Free(i) == mu[i] = Nobody

(* w.mu.Lock(), then the first run of the transaction callback starts. *)
Lock(a) ==
  /\ pc[a] = "lock"
  /\ Free(Host[a])
  /\ mu' = [mu EXCEPT ![Host[a]] = a]
  /\ pc' = [pc EXCEPT ![a] = "begin"]
  /\ tries' = [tries EXCEPT ![a] = 1]
  /\ UNCHANGED <<ledger, proc, head, clock, seq, event, read, doc, acked, dups>>

(* s.Latest(txCtx): the transaction's snapshot shows committed entries only. *)
ReadLatest(a) ==
  /\ pc[a] = "begin"
  /\ \E e \in Visible \cup {NoEntry} :
       /\ Latest(e)
       /\ read' = [read EXCEPT ![a] = e]
  /\ pc' = [pc EXCEPT ![a] = "read"]
  /\ UNCHANGED <<ledger, proc, head, mu, clock, seq, tries, event, doc, acked, dups>>

(* time.Now(), audit.Chain and s.Insert: the insert stays invisible until   *)
(* the commit, but it claims its key in the unique index.                   *)
Insert(a) ==
  /\ pc[a] = "read"
  /\ ~Recorded(event[a])
  /\ ~Claimed(event[a])
  /\ \E d \in ClockSteps :
       LET now == clock[Host[a]] + d IN
         /\ doc' = [doc EXCEPT ![a] = NewEntry(a, now)]
         /\ clock' = [clock EXCEPT ![Host[a]] = now]
  /\ pc' = [pc EXCEPT ![a] = "inserted"]
  /\ UNCHANGED <<ledger, proc, head, mu, seq, tries, event, read, acked, dups>>

(* The call returns and the deferred Unlock runs. *)
ReturnLocked(a) ==
  /\ pc' = [pc EXCEPT ![a] = "idle"]
  /\ tries' = [tries EXCEPT ![a] = 0]
  /\ event' = [event EXCEPT ![a] = NoEvent]
  /\ read' = [read EXCEPT ![a] = NoEntry]
  /\ doc' = [doc EXCEPT ![a] = NoEntry]
  /\ UNCHANGED <<ledger, proc, head, clock, seq, mu>>
Return(a) ==
  /\ pc' = [pc EXCEPT ![a] = "idle"]
  /\ mu' = [mu EXCEPT ![Host[a]] = Nobody]
  /\ tries' = [tries EXCEPT ![a] = 0]
  /\ event' = [event EXCEPT ![a] = NoEvent]
  /\ read' = [read EXCEPT ![a] = NoEntry]
  /\ doc' = [doc EXCEPT ![a] = NoEntry]
  /\ UNCHANGED <<ledger, proc, head, clock, seq>>

(* The unique index rejects the insert: Insert wraps the error as           *)
(* ErrDuplicateEvent, which carries no retry label, so the call returns it. *)
InsertDuplicate(a) ==
  /\ pc[a] = "read"
  /\ Recorded(event[a])
  /\ dups' = dups \cup {event[a]}
  /\ acked' = acked
  /\ Return(a)

BeforeCommitAck == {"begin", "read", "inserted", "committed"}
BeforeCommit == {"begin", "read", "inserted"}

(* A write conflict with an open transaction or another transient error     *)
(* before the commit: the driver aborts and runs the callback again.        *)
Retry(a) ==
  /\ pc[a] \in BeforeCommit
  /\ tries[a] < MaxTries
  /\ tries' = [tries EXCEPT ![a] = @ + 1]
  /\ pc' = [pc EXCEPT ![a] = "begin"]
  /\ read' = [read EXCEPT ![a] = NoEntry]
  /\ doc' = [doc EXCEPT ![a] = NoEntry]
  /\ UNCHANGED <<ledger, proc, head, mu, clock, seq, event, acked, dups>>

(* The context is cancelled, the retry window is over or the error is not   *)
(* transient: the transaction aborts and the call returns an error.         *)
Fail(a) ==
  /\ pc[a] \in BeforeCommit
  /\ Return(a)
  /\ UNCHANGED <<acked, dups>>

(* The server commits the transaction. *)
Commit(a) ==
  /\ pc[a] = "inserted"
  /\ ledger' = ledger \cup {doc[a]}
  /\ pc' = [pc EXCEPT ![a] = "committed"]
  /\ UNCHANGED <<proc, head, mu, clock, seq, tries, event, read, doc, acked, dups>>

EarlyReturnOK(a) ==
  /\ pc[a] \in {"inserted", "committed"}
  /\ acked' = acked \cup {<<a, seq[a]>>}
  /\ Return(a)
  /\ UNCHANGED dups

(* The commit is acknowledged and the call returns nil. *)
ReturnOK(a) ==
  /\ pc[a] = "committed"
  /\ acked' = acked \cup {<<a, seq[a]>>}
  /\ Return(a)
  /\ UNCHANGED dups

(* The acknowledgement is lost: the entry is stored, the call returns an error. *)
ReturnUnknown(a) ==
  /\ pc[a] = "committed"
  /\ Return(a)
  /\ UNCHANGED <<acked, dups>>

(* The instance is killed; the server aborts its open transactions. *)
Crash(i) ==
  /\ proc[i] # "down"
  /\ proc' = [proc EXCEPT ![i] = "down"]
  /\ head' = [head EXCEPT ![i] = NoEntry]
  /\ mu' = [mu EXCEPT ![i] = Nobody]
  /\ pc' = [a \in Appenders |-> IF Host[a] = i THEN "idle" ELSE pc[a]]
  /\ tries' = [a \in Appenders |-> IF Host[a] = i THEN 0 ELSE tries[a]]
  /\ event' = [a \in Appenders |-> IF Host[a] = i THEN NoEvent ELSE event[a]]
  /\ read' = [a \in Appenders |-> IF Host[a] = i THEN NoEntry ELSE read[a]]
  /\ doc' = [a \in Appenders |-> IF Host[a] = i THEN NoEntry ELSE doc[a]]
  /\ UNCHANGED <<ledger, clock, seq, acked, dups>>

(* What a call that holds mu may do next. *)
TxnStep(a) ==
  \/ ReadLatest(a)
  \/ Insert(a)
  \/ InsertDuplicate(a)
  \/ Retry(a)
  \/ Fail(a)
  \/ Commit(a)
  \/ ReturnOK(a)
  \/ ReturnUnknown(a)

Next ==
  \/ \E i \in Instances : LoadHead(i)
  \/ \E i \in Instances : CheckHead(i)
  \/ \E i \in Instances : Crash(i)
  \/ \E a \in Appenders, ev \in Events \cup {NoEvent} : AppendInternal(a, ev)
  \/ \E a \in Appenders : Lock(a)
  \/ \E a \in Appenders : TxnStep(a)

Spec == Init /\ [][Next]_vars

(* Every driver call ends (it has a deadline), and a sync.Mutex in its      *)
(* starvation mode hands itself to the longest waiter.                      *)
Fairness ==
  /\ \A a \in Appenders : SF_vars(Lock(a))
  /\ \A a \in Appenders : WF_vars(TxnStep(a))

FairSpec == Spec /\ Fairness

-----------------------------------------------------------------------------
IsEntry(e) ==
  /\ e = [id |-> e.id, event |-> e.event, prev |-> e.prev, ts |-> e.ts]
  /\ e.id \in Appenders \X Nat
  /\ e.event \in Events \cup {NoEvent}
  /\ e.ts \in Int

(* Type invariant of the ledger, the processes and the calls. *)
TypeOK ==
  /\ \A e \in ledger : IsEntry(e)
  /\ proc \in [Instances -> {"down", "loading", "up", "refused"}]
  /\ head \in [Instances -> ledger \cup {NoEntry}]
  /\ mu \in [Instances -> Appenders \cup {Nobody}]
  /\ clock \in [Instances -> Int]
  /\ pc \in [Appenders -> {"idle", "lock", "begin", "read", "inserted", "committed"}]
  /\ seq \in [Appenders -> Nat]
  /\ tries \in [Appenders -> Nat]
  /\ event \in [Appenders -> Events \cup {NoEvent}]
  /\ read \in [Appenders -> ledger \cup {NoEntry}]
  /\ doc = [a \in Appenders |-> doc[a]]
  /\ \A a \in Appenders :
       IF pc[a] \in {"inserted", "committed"} THEN IsEntry(doc[a]) ELSE doc[a] = NoEntry
  /\ acked \subseteq Appenders \X Nat
  /\ dups \subseteq Events

(* In an instance at most one appender is inside a transaction, whatever    *)
(* crashes, retries and error returns came before (Writer.mu).              *)
OneTxnPerInstance ==
  \A a, b \in Appenders : a # b /\ Host[a] = Host[b] => ~(InTxn(a) /\ InTxn(b))

(* No entry links to an entry that is not in the ledger: an insert that was *)
(* rolled back never becomes the predecessor of a stored entry.             *)
PredecessorRecorded ==
  \A e \in ledger : e.prev = NoHash \/ \E p \in ledger : Hash(p) = e.prev

(* A webhook event is recorded once, whichever instances race for it.       *)
OneEntryPerEvent ==
  \A e, f \in ledger : e.event # NoEvent /\ e.event = f.event => e = f

(* A call stores one entry at most, however often the driver ran its        *)
(* callback and whatever became of the acknowledgement.                     *)
OneEntryPerCall ==
  \A e, f \in ledger : e.id = f.id => e = f

(* A call that returned nil has its entry in the ledger for good, and       *)
(* ErrDuplicateEvent is only ever returned for an event that is recorded,   *)
(* not for one that a transaction still open, or rolled back, was writing.  *)
AnswersAreRecorded ==
  /\ \A id \in acked : \E e \in ledger : e.id = id
  /\ \A ev \in dups : \E e \in ledger : e.event = ev

(* Entry p is the one just before e in timestamp order. *)
JustBefore(p, e) == p.ts < e.ts /\ \A q \in ledger : q.ts < e.ts => q.ts =< p.ts

(* In timestamp order the entries form one chain from the nil hash, each    *)
(* linked to the one before it: what VerifyChain accepts.                   *)
LinearChain ==
  /\ \A e, f \in ledger : e.ts = f.ts => e = f
  /\ \A e \in ledger :
       \/ e.prev = NoHash /\ \A q \in ledger : e.ts =< q.ts
       \/ \E p \in ledger : JustBefore(p, e) /\ e.prev = Hash(p)

(* LoadHead accepts every ledger that only Writer has written.              *)
NeverRefused == \A i \in Instances : proc[i] # "refused"

(* The log the ledger stands for: its entries in timestamp order.           *)
Rank(e) == Cardinality({f \in ledger : f.ts < e.ts})
Log == [k \in 1 .. Cardinality(ledger) |-> CHOOSE e \in {f \in ledger : Rank(f) = k - 1} : TRUE]

AbstractLog == INSTANCE AuditLog WITH log <- Log

(* With one instance and a clock that moves on the ledger is what its       *)
(* readers were promised: each commit adds one entry at the end, linked to  *)
(* the one before it, and no event twice.                                   *)
ImplementsLog == AbstractLog!Spec

(* No two entries link to the same predecessor.                             *)
NoFork == \A e, f \in ledger : e.prev = f.prev => e = f

(* Every call returns or dies with its instance: mu is always handed on.    *)
EveryCallReturns == \A a \in Appenders : pc[a] = "lock" ~> pc[a] = "idle"
=============================================================================
