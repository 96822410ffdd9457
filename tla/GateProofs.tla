------------------------------ MODULE GateProofs ------------------------------
(* Proofs about Gate for any number of calls, changes and restarts: a       *)
(* rejected diff is noted and indexed once, and noted first; every verdict  *)
(* has its cause.                                                           *)
EXTENDS Gate, LocalCheckProofs, TLAPS

Diff(e) == Of[job[e].change].diff
Rejecting == {"block", "BLOCK"}

JobType ==
  [at : Working \cup Returned \cup {"idle", "lost"}, start : Nat, change : Changes \cup {NoChange}]
EntryType ==
  [action : {"EVALUATE_PASS", "EVALUATE_LOCAL_BLOCK"}, sha : STRING, start : Nat, call : Calls]

Types ==
  /\ start \in 1 .. MaxStarts
  /\ dedup \subseteq {Of[c].diff : c \in Changes}
  /\ job \in [Calls -> JobType]
  /\ ledger \subseteq EntryType
  /\ over \subseteq Calls /\ missed \subseteq Calls
  /\ indexing \subseteq Calls /\ indexed \subseteq Calls

(* A call has a change, and works in the current run of the process only.   *)
Phases ==
  \A e \in Calls :
    /\ job[e].start \in 0 .. start
    /\ job[e].at # "idle" => job[e].change \in Changes
    /\ job[e].at \in Working => job[e].start = start

(* The set holds the diff of every call that got past LoadOrStore in this   *)
(* run; in each run one call per diff did.                                  *)
Owners ==
  /\ \A e \in Calls : job[e].at \in Rejecting /\ job[e].start = start => Diff(e) \in dedup
  /\ \A e, f \in Calls :
       /\ job[e].at \in Rejecting /\ job[f].at \in Rejecting
       /\ job[e].start = job[f].start /\ Diff(e) = Diff(f)
       => e = f

(* What is in the ledger or with the indexer was put there by a call that   *)
(* got past LoadOrStore and returned, and in this order.                    *)
Trail ==
  /\ \A x \in ledger :
       x.action = "EVALUATE_LOCAL_BLOCK" =>
         /\ job[x.call].at = "BLOCK"
         /\ x.sha = Diff(x.call)
         /\ x.start = job[x.call].start
  /\ \A e \in indexing \cup indexed :
       job[e].at = "BLOCK" /\ (e \in missed \/ Noted("EVALUATE_LOCAL_BLOCK", e))

GateInv == Types /\ Phases /\ Owners /\ Trail

-----------------------------------------------------------------------------
(* The invariant holds at first. *)
LEMMA InitInv == Init => GateInv
<1> SUFFICES ASSUME Init PROVE GateInv
  OBVIOUS
<1>1. Types
  BY BoundAssumption DEF Init, Types, JobType, Idle, Working, Returned
<1>2. Phases
  BY BoundAssumption DEF Init, Phases, Idle, Working
<1>3. Owners
  BY DEF Init, Owners, Idle, Rejecting
<1>4. Trail
  BY DEF Init, Trail
<1> QED
  BY <1>1, <1>2, <1>3, <1>4 DEF GateInv

(* A step that only moves one call, and not into or out of Rejecting.       *)
LEMMA MoveKeeps ==
  ASSUME GateInv, NEW e \in Calls, NEW at \in {"check", "pass", "store", "DEDUPLICATED"},
         job[e].at \in {"load", "check", "store"}, GoTo(e, at),
         UNCHANGED <<world, dedup, indexVars, ledgerVars>>
  PROVE  GateInv'
<1>1. /\ job \in [Calls -> JobType]
      /\ job' = [job EXCEPT ![e].at = at]
      /\ job' \in [Calls -> JobType]
      /\ \A f \in Calls : job'[f].start = job[f].start /\ job'[f].change = job[f].change
      /\ \A f \in Calls \ {e} : job'[f] = job[f]
      /\ job'[e].at = at
  BY DEF GateInv, Types, JobType, GoTo, Working, Returned
<1>2. Types'
  BY <1>1 DEF GateInv, Types, world, indexVars, ledgerVars
<1>3. Phases'
  BY <1>1 DEF GateInv, Phases, Working, world
<1>4. Owners'
  <2>1. \A f \in Calls : Diff(f)' = Diff(f) /\ (job'[f].at \in Rejecting => job[f].at = job'[f].at)
    BY <1>1 DEF Diff, Rejecting
  <2> QED
    BY <2>1, <1>1 DEF GateInv, Owners, world, Rejecting
<1>5. Trail'
  <2>1. \A f \in Calls : job[f].at = "BLOCK" => job'[f] = job[f]
    BY <1>1
  <2> QED
    BY <2>1, <1>1 DEF GateInv, Types, EntryType, Trail, Diff, Noted, indexVars, ledgerVars
<1> QED
  BY <1>2, <1>3, <1>4, <1>5 DEF GateInv

(* A new call has done nothing yet. *)
LEMMA CallKeeps ==
  ASSUME GateInv, NEW e \in Calls, NEW c \in Changes, Call(e, c)
  PROVE  GateInv'
<1>1. /\ job \in [Calls -> JobType]
      /\ start \in Nat
      /\ job' = [job EXCEPT ![e] = [at |-> "load", start |-> start, change |-> c]]
      /\ job' \in [Calls -> JobType]
      /\ \A f \in Calls \ {e} : job'[f] = job[f]
      /\ job[e].at = "idle"
      /\ job'[e].at = "load" /\ job'[e].start = start /\ job'[e].change = c
  BY BoundAssumption DEF GateInv, Types, JobType, Call, Working, Returned
<1> USE DEF Call
<1>2. Types'
  BY <1>1 DEF GateInv, Types, world, indexVars, ledgerVars
<1>3. Phases'
  BY <1>1 DEF GateInv, Phases, Working, world
<1>4. Owners'
  <2>1. \A f \in Calls : job'[f].at \in Rejecting => f # e /\ job'[f] = job[f] /\ Diff(f)' = Diff(f)
    BY <1>1 DEF Diff, Rejecting
  <2> QED
    BY <2>1 DEF GateInv, Owners, world
<1>5. Trail'
  <2>1. \A f \in Calls : job[f].at = "BLOCK" => job'[f] = job[f]
    BY <1>1
  <2> QED
    BY <2>1, <1>1 DEF GateInv, Types, EntryType, Trail, Diff, Noted, indexVars, ledgerVars
<1> QED
  BY <1>2, <1>3, <1>4, <1>5 DEF GateInv

(* The first call to reject a diff in this run becomes its owner. *)
LEMMA StoreKeeps ==
  ASSUME GateInv, NEW e \in Calls, LoadOrStore(e)
  PROVE  GateInv'
<1> DEFINE at == IF Diff(e) \in dedup THEN "DEDUPLICATED" ELSE "block"
<1>1. /\ job[e].at = "store" /\ job[e].start = start /\ job[e].change \in Changes
      /\ job \in [Calls -> JobType]
      /\ job' = [job EXCEPT ![e].at = at]
      /\ dedup' = dedup \cup {Diff(e)}
      /\ UNCHANGED <<world, indexVars, ledgerVars>>
  BY DEF LoadOrStore, GateInv, Types, Phases, GoTo, Working, Diff
<1>2. /\ job' \in [Calls -> JobType]
      /\ \A f \in Calls : job'[f].start = job[f].start /\ job'[f].change = job[f].change
      /\ \A f \in Calls \ {e} : job'[f] = job[f]
      /\ job'[e].at = at
  BY <1>1 DEF JobType, Working, Returned
<1>3. \A f \in Calls : Diff(f)' = Diff(f)
  BY <1>2 DEF Diff
<1>4. Types'
  BY <1>1, <1>2 DEF GateInv, Types, world, indexVars, ledgerVars, Diff
<1>5. Phases'
  BY <1>1, <1>2 DEF GateInv, Phases, Working, world
<1>6. Owners'
  <2>1. \A f \in Calls \ {e} : job'[f].at \in Rejecting => job[f].at \in Rejecting
    BY <1>2
  <2>2. job'[e].at \in Rejecting => Diff(e) \notin dedup
    BY <1>2 DEF Rejecting
  <2>3. \A f \in Calls : job'[f].at \in Rejecting /\ job'[f].start = start' => Diff(f)' \in dedup'
    BY <2>1, <1>1, <1>2, <1>3 DEF GateInv, Owners, world
  <2>4. \A f \in Calls \ {e} :
          job'[f].at \in Rejecting /\ job'[f].start = job'[e].start /\ Diff(f)' = Diff(e)'
            => job'[e].at \notin Rejecting
    BY <2>1, <2>2, <1>1, <1>2, <1>3 DEF GateInv, Owners
  <2>5. \A f, g \in Calls \ {e} :
          /\ job'[f].at \in Rejecting /\ job'[g].at \in Rejecting
          /\ job'[f].start = job'[g].start /\ Diff(f)' = Diff(g)'
          => f = g
    BY <2>1, <1>2, <1>3 DEF GateInv, Owners
  <2> QED
    BY <2>3, <2>4, <2>5 DEF Owners
<1>7. Trail'
  <2>1. \A f \in Calls : job[f].at = "BLOCK" => job'[f] = job[f]
    BY <1>1, <1>2
  <2> QED
    BY <2>1, <1>1, <1>3 DEF GateInv, Types, EntryType, Trail, Noted, indexVars, ledgerVars
<1> QED
  BY <1>4, <1>5, <1>6, <1>7 DEF GateInv

(* What an append of call e leaves in the ledger. *)
LEMMA NoteFacts ==
  ASSUME GateInv, NEW e \in Calls, job[e].at \in Working,
         NEW action \in {"EVALUATE_PASS", "EVALUATE_LOCAL_BLOCK"}, Note(action, e)
  PROVE  /\ ledger' \subseteq EntryType
         /\ missed' \subseteq Calls
         /\ missed \subseteq missed'
         /\ ledger \subseteq ledger'
         /\ \A x \in ledger' \ ledger : x = Item(action, e)
         /\ e \in missed' \/ Item(action, e) \in ledger'
<1>1. job[e].change \in Changes /\ start \in Nat
  BY BoundAssumption DEF GateInv, Types, Phases, Working
<1>2. Item(action, e) \in EntryType
  BY <1>1, ChangeAssumption DEF Item, EntryType
<1> QED
  BY <1>2 DEF Note, GateInv, Types

(* A rejection is noted, or its append fails, before it is handed on. *)
LEMMA BlockKeeps ==
  ASSUME GateInv, NEW e \in Calls, Block(e)
  PROVE  GateInv'
<1> USE DEF Block
<1>1. /\ job[e].at = "block" /\ job[e].start = start /\ job[e].change \in Changes
      /\ job \in [Calls -> JobType]
      /\ job' = [job EXCEPT ![e].at = "BLOCK"]
      /\ indexing' = indexing \cup {e}
      /\ indexed' = indexed
      /\ UNCHANGED <<world, dedup>>
  BY DEF GateInv, Types, Phases, GoTo, Working
<1>2. /\ job' \in [Calls -> JobType]
      /\ \A f \in Calls : job'[f].start = job[f].start /\ job'[f].change = job[f].change
      /\ \A f \in Calls \ {e} : job'[f] = job[f]
      /\ job'[e].at = "BLOCK"
  BY <1>1 DEF JobType, Working, Returned
<1>3. \A f \in Calls : Diff(f)' = Diff(f)
  BY <1>2 DEF Diff
<1>4. /\ ledger' \subseteq EntryType
      /\ missed' \subseteq Calls
      /\ missed \subseteq missed'
      /\ ledger \subseteq ledger'
      /\ \A x \in ledger' \ ledger : x = Item("EVALUATE_LOCAL_BLOCK", e)
      /\ e \in missed' \/ Item("EVALUATE_LOCAL_BLOCK", e) \in ledger'
  BY NoteFacts, <1>1 DEF Working
<1>5. Types'
  BY <1>1, <1>2, <1>4 DEF GateInv, Types, world
<1>6. Phases'
  BY <1>1, <1>2 DEF GateInv, Phases, Working, world
<1>7. Owners'
  <2>1. \A f \in Calls : job'[f].at \in Rejecting => job[f].at \in Rejecting
    BY <1>1, <1>2 DEF Rejecting
  <2> QED
    BY <2>1, <1>1, <1>2, <1>3 DEF GateInv, Owners, world
<1>8. Trail'
  <2>1. \A x \in ledger' :
          x.action = "EVALUATE_LOCAL_BLOCK" =>
            job'[x.call].at = "BLOCK" /\ x.sha = Diff(x.call)' /\ x.start = job'[x.call].start
    <3> TAKE x \in ledger'
    <3>1. CASE x \in ledger
      <4>1. x.call \in Calls
        BY <3>1 DEF GateInv, Types, EntryType
      <4> QED
        BY <3>1, <4>1, <1>2, <1>3 DEF GateInv, Trail
    <3>2. CASE x \notin ledger
      <4>1. x = Item("EVALUATE_LOCAL_BLOCK", e)
        BY <3>2, <1>4
      <4> QED
        BY <4>1, <1>1, <1>2, <1>3 DEF Item, Diff
    <3> QED
      BY <3>1, <3>2
  <2>2. \A f \in Calls : Noted("EVALUATE_LOCAL_BLOCK", f) => Noted("EVALUATE_LOCAL_BLOCK", f)'
    BY <1>4 DEF Noted
  <2>3. e \in missed' \/ Noted("EVALUATE_LOCAL_BLOCK", e)'
    BY <1>4 DEF Noted, Item
  <2>4. \A f \in indexing' \cup indexed' :
          job'[f].at = "BLOCK" /\ (f \in missed' \/ Noted("EVALUATE_LOCAL_BLOCK", f)')
    BY <2>2, <2>3, <1>1, <1>2, <1>4 DEF GateInv, Types, Trail
  <2> QED
    BY <2>1, <2>4 DEF Trail
<1> QED
  BY <1>5, <1>6, <1>7, <1>8 DEF GateInv

(* A verdict ALLOW adds an entry of its own and touches no rejection. *)
LEMMA PassKeeps ==
  ASSUME GateInv, NEW e \in Calls, Pass(e)
  PROVE  GateInv'
<1> USE DEF Pass
<1>1. /\ job[e].at = "pass"
      /\ job \in [Calls -> JobType]
      /\ job' = [job EXCEPT ![e].at = "ALLOW"]
      /\ UNCHANGED <<world, dedup, indexVars>>
  BY DEF GateInv, Types, GoTo
<1>2. /\ job' \in [Calls -> JobType]
      /\ \A f \in Calls : job'[f].start = job[f].start /\ job'[f].change = job[f].change
      /\ \A f \in Calls \ {e} : job'[f] = job[f]
      /\ job'[e].at = "ALLOW"
  BY <1>1 DEF JobType, Working, Returned
<1>3. \A f \in Calls : Diff(f)' = Diff(f) /\ (job[f].at = "BLOCK" => job'[f] = job[f])
  BY <1>1, <1>2 DEF Diff
<1>4. /\ ledger' \subseteq EntryType
      /\ missed' \subseteq Calls
      /\ missed \subseteq missed'
      /\ ledger \subseteq ledger'
      /\ \A x \in ledger' \ ledger : x = Item("EVALUATE_PASS", e)
  BY NoteFacts, <1>1 DEF Working
<1>5. Types'
  BY <1>1, <1>2, <1>4 DEF GateInv, Types, world, indexVars
<1>6. Phases'
  BY <1>1, <1>2 DEF GateInv, Phases, Working, world
<1>7. Owners'
  <2>1. \A f \in Calls : job'[f].at \in Rejecting => job[f].at \in Rejecting
    BY <1>1, <1>2 DEF Rejecting
  <2> QED
    BY <2>1, <1>1, <1>2, <1>3 DEF GateInv, Owners, world
<1>8. Trail'
  <2>1. \A x \in ledger' : x.action = "EVALUATE_LOCAL_BLOCK" => x \in ledger /\ x.call \in Calls
    BY <1>4 DEF Item, EntryType
  <2>2. \A f \in Calls : Noted("EVALUATE_LOCAL_BLOCK", f) => Noted("EVALUATE_LOCAL_BLOCK", f)'
    BY <1>4 DEF Noted
  <2> QED
    BY <2>1, <2>2, <1>1, <1>3, <1>4 DEF GateInv, Types, Trail, indexVars
<1> QED
  BY <1>5, <1>6, <1>7, <1>8 DEF GateInv

(* Indexing follows the handing over. *)
LEMMA IndexKeeps ==
  ASSUME GateInv, NEW e \in Calls, Index(e)
  PROVE  GateInv'
<1> USE DEF Index
<1>1. Types'
  BY DEF GateInv, Types, world, ledgerVars
<1>2. Phases' /\ Owners'
  BY DEF GateInv, Phases, Owners, Diff, world
<1>3. Trail'
  BY DEF GateInv, Trail, Noted, Diff, ledgerVars
<1> QED
  BY <1>1, <1>2, <1>3 DEF GateInv

(* A context that is done changes no verdict. *)
LEMMA ExpireKeeps ==
  ASSUME GateInv, NEW e \in Calls, Expire(e)
  PROVE  GateInv'
BY DEF Expire, GateInv, Types, Phases, Owners, Trail, Diff, Noted, indexVars, ledgerVars

(* A call that had not returned is lost, one that had keeps what it did.    *)
LEMMA RestartKeeps ==
  ASSUME GateInv, Restart
  PROVE  GateInv'
<1> USE DEF Restart
<1>1. /\ job \in [Calls -> JobType]
      /\ start \in Nat
      /\ start' = start + 1
      /\ start' \in 1 .. MaxStarts
  BY BoundAssumption DEF GateInv, Types
<1>2. /\ job' \in [Calls -> JobType]
      /\ \A f \in Calls : job'[f].start = job[f].start /\ job'[f].change = job[f].change
      /\ \A f \in Calls : job[f].at \notin Working => job'[f] = job[f]
      /\ \A f \in Calls : job[f].at \in Working => job'[f].at = "lost"
  BY <1>1 DEF JobType
<1>3. \A f \in Calls : Diff(f)' = Diff(f) /\ (job[f].at = "BLOCK" => job'[f] = job[f])
  BY <1>2 DEF Diff, Working
<1>4. Types'
  BY <1>1, <1>2 DEF GateInv, Types, ledgerVars
<1>5. Phases'
  <2>1. \A f \in Calls : job'[f].at \notin Working
    BY <1>2 DEF Working
  <2> QED
    BY <2>1, <1>1, <1>2 DEF GateInv, Phases, Working
<1>6. Owners'
  <2>1. \A f \in Calls : job'[f].at \in Rejecting => job[f].at \in Rejecting
    BY <1>2 DEF Rejecting, Working
  <2>2. \A f \in Calls : job'[f].start # start'
    BY <1>1, <1>2 DEF GateInv, Phases
  <2>3. \A f, g \in Calls :
          /\ job'[f].at \in Rejecting /\ job'[g].at \in Rejecting
          /\ job'[f].start = job'[g].start /\ Diff(f)' = Diff(g)'
          => f = g
    <3> HIDE DEF Restart
    <3> QED
      BY <2>1, <1>2, <1>3 DEF GateInv, Owners
  <2> HIDE DEF Restart
  <2> QED
    BY <2>2, <2>3 DEF Owners
<1>7. Trail'
  <2>1. ledger' = ledger /\ missed' = missed /\ indexing' = {} /\ indexed' = indexed
    BY DEF ledgerVars
  <2>2. \A x \in ledger : x.call \in Calls
    BY DEF GateInv, Types, EntryType
  <2>3. \A f \in Calls : Noted("EVALUATE_LOCAL_BLOCK", f)' = Noted("EVALUATE_LOCAL_BLOCK", f)
    BY <2>1 DEF Noted
  <2>4. \A f \in indexed : f \in Calls
    BY DEF GateInv, Types
  <2>5. ASSUME NEW x \in ledger', x.action = "EVALUATE_LOCAL_BLOCK"
        PROVE  job'[x.call].at = "BLOCK" /\ x.sha = Diff(x.call)' /\ x.start = job'[x.call].start
    <3>1. /\ x.call \in Calls /\ job[x.call].at = "BLOCK"
          /\ x.sha = Diff(x.call) /\ x.start = job[x.call].start
      BY <2>1, <2>2, <2>5 DEF GateInv, Trail
    <3> HIDE DEF Restart
    <3> QED
      BY <1>3, <3>1
  <2>6. ASSUME NEW e \in indexing' \cup indexed'
        PROVE  job'[e].at = "BLOCK" /\ (e \in missed' \/ Noted("EVALUATE_LOCAL_BLOCK", e)')
    <3>1. e \in Calls /\ job[e].at = "BLOCK" /\ (e \in missed \/ Noted("EVALUATE_LOCAL_BLOCK", e))
      BY <2>1, <2>4, <2>6 DEF GateInv, Trail
    <3> HIDE DEF Restart
    <3> QED
      BY <1>3, <2>1, <2>3, <3>1
  <2> HIDE DEF Restart
  <2> QED
    BY <2>5, <2>6 DEF Trail
<1> HIDE DEF Restart
<1> QED
  BY <1>4, <1>5, <1>6, <1>7 DEF GateInv

(* Every step keeps the invariant. *)
LEMMA NextKeeps == GateInv /\ [Next]_vars => GateInv'
<1> SUFFICES ASSUME GateInv, [Next]_vars PROVE GateInv'
  OBVIOUS
<1>1. ASSUME NEW e \in Calls, NEW c \in Changes, Call(e, c) PROVE GateInv'
  BY <1>1, CallKeeps
<1>2. ASSUME NEW e \in Calls, Step(e) PROVE GateInv'
  <2>1. CASE Load(e)
    <3>1. PICK at \in {"check", "DEDUPLICATED"} : GoTo(e, at)
      BY <2>1 DEF Load
    <3> QED
      BY <2>1, <3>1, MoveKeeps DEF Load
  <2>2. CASE Check(e)
    <3>1. PICK at \in {"pass", "store"} : GoTo(e, at)
      BY <2>2 DEF Check
    <3> QED
      BY <2>2, <3>1, MoveKeeps DEF Check
  <2>3. CASE LoadOrStore(e)
    BY <2>3, StoreKeeps
  <2>4. CASE Block(e)
    BY <2>4, BlockKeeps
  <2>5. CASE Pass(e)
    BY <2>5, PassKeeps
  <2> QED
    BY <1>2, <2>1, <2>2, <2>3, <2>4, <2>5 DEF Step
<1>3. ASSUME NEW e \in Calls, Index(e) PROVE GateInv'
  BY <1>3, IndexKeeps
<1>4. ASSUME NEW e \in Calls, Expire(e) PROVE GateInv'
  BY <1>4, ExpireKeeps
<1>5. CASE Restart
  BY <1>5, RestartKeeps
<1>6. CASE UNCHANGED vars
  BY <1>6 DEF vars, GateInv, Types, Phases, Owners, Trail, Diff, Noted
<1> QED
  BY <1>1, <1>2, <1>3, <1>4, <1>5, <1>6 DEF Next

(* The invariant holds in every state of every behaviour. *)
LEMMA Invariance == Spec => []GateInv
BY InitInv, NextKeeps, PTL DEF Spec

-----------------------------------------------------------------------------
(* A call whose rejection keeps a diff from being evaluated in one run.     *)
Culprit(f, d, s) ==
  /\ job[f].at \in {"block", "BLOCK", "lost"}
  /\ job[f].start = s
  /\ Diff(f) = d
  /\ LocalReasons[job[f].change] # {}

(* What the local check said of a call, and whose verdict it repeats.       *)
Causes ==
  /\ \A e \in Calls :
       /\ job[e].at \in {"store", "block", "BLOCK"} => LocalReasons[job[e].change] # {}
       /\ job[e].at \in {"pass", "ALLOW"} => LocalReasons[job[e].change] = {}
       /\ job[e].at = "ALLOW" => e \in missed \/ Noted("EVALUATE_PASS", e)
       /\ job[e].at = "BLOCK" => e \in missed \/ Noted("EVALUATE_LOCAL_BLOCK", e)
       /\ job[e].at = "DEDUPLICATED" => \E f \in Calls : Culprit(f, Diff(e), job[e].start)
  /\ \A d \in dedup : \E f \in Calls : Culprit(f, d, start)

(* What a step may do with a call. *)
Moves(f) ==
  /\ job'[f].change = job[f].change /\ job'[f].start = job[f].start
  /\ \/ job[f].at = "load" /\ job'[f].at = "check"
     \/ job[f].at = "check" /\ job'[f].at = "pass" /\ LocalReasons[job[f].change] = {}
     \/ job[f].at = "check" /\ job'[f].at = "store" /\ LocalReasons[job[f].change] # {}
     \/ job[f].at \in {"load", "store"} /\ job'[f].at = "DEDUPLICATED" /\ Diff(f) \in dedup
     \/ job[f].at = "store" /\ job'[f].at = "block"
     \/ job[f].at = "block" /\ job'[f].at = "BLOCK"
         /\ (f \in missed' \/ Item("EVALUATE_LOCAL_BLOCK", f) \in ledger')
     \/ job[f].at = "pass" /\ job'[f].at = "ALLOW"
         /\ (f \in missed' \/ Item("EVALUATE_PASS", f) \in ledger')
     \/ job[f].at \in Working /\ job'[f].at = "lost"
Called(f) == job[f].at = "idle" /\ job'[f].at = "load"

(* What a step may do with the rest. *)
Around ==
  /\ missed \subseteq missed'
  /\ ledger \subseteq ledger'
  /\ \/ dedup' = {}
     \/ start' = start /\ dedup' = dedup
     \/ /\ start' = start
        /\ \E e \in Calls :
             /\ job[e].at = "store" /\ dedup' = dedup \cup {Diff(e)}
             /\ Diff(e) \in dedup \/ job'[e].at = "block"

(* A step of a call's own moves that call alone. *)
LEMMA StepMoves ==
  ASSUME GateInv, NEW e \in Calls, Step(e)
  PROVE  /\ \A f \in Calls \ {e} : job'[f] = job[f]
         /\ Moves(e)
         /\ Around
<1>1. job \in [Calls -> JobType]
  BY DEF GateInv, Types
<1>2. ASSUME NEW at, GoTo(e, at)
      PROVE  /\ \A f \in Calls \ {e} : job'[f] = job[f]
             /\ job'[e].at = at
             /\ job'[e].change = job[e].change /\ job'[e].start = job[e].start
  BY <1>1, <1>2 DEF GoTo, JobType
<1>3. CASE Load(e)
  <2>1. CASE Diff(e) \in dedup
    BY <1>2, <1>3, <2>1 DEF Load, Moves, Around, Diff, world, ledgerVars
  <2>2. CASE Diff(e) \notin dedup
    BY <1>2, <1>3, <2>2 DEF Load, Moves, Around, Diff, world, ledgerVars
  <2> QED
    BY <2>1, <2>2
<1>4. CASE Check(e)
  <2>1. CASE LocalReasons[job[e].change] = {}
    BY <1>2, <1>4, <2>1 DEF Check, Moves, Around, world, ledgerVars
  <2>2. CASE LocalReasons[job[e].change] # {}
    BY <1>2, <1>4, <2>2 DEF Check, Moves, Around, world, ledgerVars
  <2> QED
    BY <2>1, <2>2
<1>5. CASE LoadOrStore(e)
  <2>1. CASE Diff(e) \in dedup
    BY <1>2, <1>5, <2>1 DEF LoadOrStore, Moves, Around, Diff, world, ledgerVars
  <2>2. CASE Diff(e) \notin dedup
    BY <1>2, <1>5, <2>2 DEF LoadOrStore, Moves, Around, Diff, world, ledgerVars
  <2> QED
    BY <2>1, <2>2
<1>6. CASE Block(e)
  <2>1. /\ missed \subseteq missed' /\ ledger \subseteq ledger'
        /\ e \in missed' \/ Item("EVALUATE_LOCAL_BLOCK", e) \in ledger'
    BY <1>6, NoteFacts DEF Block, Working
  <2> QED
    BY <1>2, <1>6, <2>1 DEF Block, Moves, Around, world
<1>7. CASE Pass(e)
  <2>1. /\ missed \subseteq missed' /\ ledger \subseteq ledger'
        /\ e \in missed' \/ Item("EVALUATE_PASS", e) \in ledger'
    BY <1>7, NoteFacts DEF Pass, Working
  <2> QED
    BY <1>2, <1>7, <2>1 DEF Pass, Moves, Around, world
<1> QED
  BY <1>3, <1>4, <1>5, <1>6, <1>7 DEF Step

(* Every step moves calls and the rest so. *)
LEMMA NextMoves ==
  ASSUME GateInv, [Next]_vars
  PROVE  /\ \A f \in Calls : job'[f] = job[f] \/ Called(f) \/ Moves(f)
         /\ Around
<1>1. job \in [Calls -> JobType]
  BY DEF GateInv, Types
<1>2. ASSUME NEW e \in Calls, NEW c \in Changes, Call(e, c)
      PROVE  (\A f \in Calls : job'[f] = job[f] \/ Called(f) \/ Moves(f)) /\ Around
  <2>1. \A f \in Calls \ {e} : job'[f] = job[f]
    BY <1>1, <1>2 DEF Call
  <2>2. Called(e)
    BY <1>1, <1>2 DEF Call, Called
  <2> QED
    BY <1>2, <2>1, <2>2 DEF Call, Around, world, ledgerVars
<1>3. ASSUME NEW e \in Calls, Step(e)
      PROVE  (\A f \in Calls : job'[f] = job[f] \/ Called(f) \/ Moves(f)) /\ Around
  BY <1>3, StepMoves
<1>4. ASSUME NEW e \in Calls, Index(e) \/ Expire(e)
      PROVE  (\A f \in Calls : job'[f] = job[f] \/ Called(f) \/ Moves(f)) /\ Around
  BY <1>4 DEF Index, Expire, Around, world, ledgerVars
<1>5. CASE Restart
  <2>1. \A f \in Calls : job[f].at \notin Working => job'[f] = job[f]
    BY <1>5 DEF Restart
  <2>2. \A f \in Calls :
          job[f].at \in Working =>
            job'[f].at = "lost" /\ job'[f].change = job[f].change /\ job'[f].start = job[f].start
    BY <1>1, <1>5 DEF Restart, JobType
  <2> QED
    BY <1>5, <2>1, <2>2 DEF Restart, Moves, Around, ledgerVars
<1>6. CASE UNCHANGED vars
  BY <1>6 DEF vars, Around
<1> QED
  BY <1>2, <1>3, <1>4, <1>5, <1>6 DEF Next

(* Every step keeps the causes: what is blocked or lost stays so. *)
LEMMA CausesKept == GateInv /\ Causes /\ [Next]_vars => Causes'
<1> SUFFICES ASSUME GateInv, Causes, [Next]_vars PROVE Causes'
  OBVIOUS
<1>1. (\A f \in Calls : job'[f] = job[f] \/ Called(f) \/ Moves(f)) /\ Around
  BY NextMoves
<1>2. \A f \in Calls : Noted("EVALUATE_PASS", f) => Noted("EVALUATE_PASS", f)'
  BY <1>1 DEF Around, Noted
<1>3. \A f \in Calls : Noted("EVALUATE_LOCAL_BLOCK", f) => Noted("EVALUATE_LOCAL_BLOCK", f)'
  BY <1>1 DEF Around, Noted
<1>4. ASSUME NEW f \in Calls, NEW d, NEW s, Culprit(f, d, s)
      PROVE  Culprit(f, d, s)'
  <2>1. job[f].at \in {"block", "BLOCK", "lost"}
    BY <1>4 DEF Culprit
  <2>2. /\ job'[f].at \in {"block", "BLOCK", "lost"}
        /\ job'[f].start = job[f].start /\ job'[f].change = job[f].change
    BY <1>1, <2>1 DEF Called, Moves
  <2> QED
    BY <1>4, <2>2 DEF Culprit, Diff
<1>5. ASSUME NEW e \in Calls
      PROVE  /\ job'[e].at \in {"store", "block", "BLOCK"} => LocalReasons[job'[e].change] # {}
             /\ job'[e].at \in {"pass", "ALLOW"} => LocalReasons[job'[e].change] = {}
             /\ job'[e].at = "ALLOW" => e \in missed' \/ Noted("EVALUATE_PASS", e)'
             /\ job'[e].at = "BLOCK" => e \in missed' \/ Noted("EVALUATE_LOCAL_BLOCK", e)'
  <2>1. CASE job'[e] = job[e]
    BY <1>1, <1>2, <1>3, <2>1 DEF Causes, Around
  <2>2. CASE Called(e)
    BY <2>2 DEF Called
  <2>3. CASE Moves(e)
    BY <2>3 DEF Moves, Causes, Noted, Item
  <2> QED
    BY <1>1, <2>1, <2>2, <2>3
<1>6. ASSUME NEW e \in Calls, job'[e].at = "DEDUPLICATED"
      PROVE  \E f \in Calls : Culprit(f, Diff(e), job[e].start)'
  <2>1. \E f \in Calls : Culprit(f, Diff(e), job[e].start)
    <3>1. CASE job'[e] = job[e]
      BY <1>6, <3>1 DEF Causes
    <3>2. CASE Moves(e)
      <4>1. job[e].at \in {"load", "store"} /\ Diff(e) \in dedup
        BY <1>6, <3>2 DEF Moves
      <4>2. job[e].start = start
        BY <4>1 DEF GateInv, Phases, Working
      <4> QED
        BY <4>1, <4>2 DEF Causes
    <3> QED
      BY <1>1, <1>6, <3>1, <3>2 DEF Called
  <2>2. job'[e].start = job[e].start /\ job'[e].change = job[e].change
    BY <1>1, <1>6 DEF Called, Moves
  <2>3. Diff(e)' = Diff(e)
    BY <2>2 DEF Diff
  <2>4. PICK f \in Calls : Culprit(f, Diff(e), job[e].start)
    BY <2>1
  <2>5. job'[f].at \in {"block", "BLOCK", "lost"} /\ job'[f].start = job[f].start
        /\ job'[f].change = job[f].change
    BY <1>1, <2>4 DEF Called, Moves, Culprit
  <2> QED
    BY <2>2, <2>3, <2>4, <2>5 DEF Culprit, Diff
<1>7. ASSUME NEW d \in dedup'
      PROVE  \E f \in Calls : Culprit(f, d, start)'
  <2>1. start' = start
    BY <1>1, <1>7 DEF Around
  <2>2. CASE d \in dedup
    <3>1. PICK f \in Calls : Culprit(f, d, start)
      BY <2>2 DEF Causes
    <3>2. /\ job'[f].at \in {"block", "BLOCK", "lost"}
          /\ job'[f].start = job[f].start /\ job'[f].change = job[f].change
      BY <1>1, <3>1 DEF Called, Moves, Culprit
    <3> QED
      BY <2>1, <3>1, <3>2 DEF Culprit, Diff
  <2>3. CASE d \notin dedup
    <3>1. PICK e \in Calls : job[e].at = "store" /\ d = Diff(e) /\ job'[e].at = "block"
      BY <1>1, <1>7, <2>3 DEF Around
    <3>2. job'[e].change = job[e].change /\ job'[e].start = job[e].start
      BY <1>1, <3>1 DEF Called, Moves
    <3>3. job[e].start = start
      BY <3>1 DEF GateInv, Phases, Working
    <3>4. LocalReasons[job[e].change] # {}
      BY <3>1 DEF Causes
    <3> QED
      BY <2>1, <3>1, <3>2, <3>3, <3>4 DEF Culprit, Diff
  <2> QED
    BY <2>2, <2>3
<1> QED
  BY <1>5, <1>6, <1>7 DEF Causes

(* The causes hold in every state of every behaviour. *)
LEMMA CausesHold == Spec => []Causes
<1>1. Init => Causes
  BY DEF Init, Causes, Idle
<1> QED
  BY <1>1, CausesKept, Invariance, PTL DEF Spec

-----------------------------------------------------------------------------
(* The gate's state keeps to its types. *)
THEOREM GateTypeCorrect == Spec => []TypeOK
<1>1. GateInv => TypeOK
  BY DEF GateInv, Types, Phases, JobType, EntryType, TypeOK
<1> QED
  BY <1>1, Invariance, PTL

(* Gate.Evaluate, evaluate/gate.go:76-87: however many pipelines race for   *)
(* it, a rejected diff is noted and indexed by one of them per run of the   *)
(* process, and indexed only after the attempt to note it.                  *)
THEOREM OneRejection == Spec => []RejectedOnce
<1>1. GateInv => RejectedOnce
  <2> SUFFICES ASSUME GateInv PROVE RejectedOnce
    OBVIOUS
  <2>1. ASSUME NEW x \in ledger, NEW y \in ledger,
               x.action = "EVALUATE_LOCAL_BLOCK", y.action = "EVALUATE_LOCAL_BLOCK",
               x.sha = y.sha, x.start = y.start
        PROVE  x = y
    <3>1. x \in EntryType /\ y \in EntryType
      BY DEF GateInv, Types
    <3>2. x.call = y.call
      BY <2>1, <3>1 DEF GateInv, Trail, Owners, EntryType, Rejecting
    <3> QED
      BY <2>1, <3>1, <3>2 DEF EntryType
  <2>2. \A e, f \in indexing \cup indexed :
          SameDiff(e, f) /\ job[e].start = job[f].start => e = f
    BY DEF GateInv, Types, Trail, Owners, Rejecting, SameDiff, Diff
  <2>3. \A e \in indexing \cup indexed : e \in missed \/ Noted("EVALUATE_LOCAL_BLOCK", e)
    BY DEF GateInv, Trail
  <2> QED
    BY <2>1, <2>2, <2>3 DEF RejectedOnce
<1> QED
  BY <1>1, Invariance, PTL
(* Gate.Evaluate, evaluate/gate.go:61-107: a patch is allowed only if it    *)
(* parses and keeps the exported functions of the original with their       *)
(* parameters, and blocked only for a local check that failed in the same   *)
(* run of the process, its own or that of another call with the same diff;  *)
(* and the ledger says so, unless the append failed.                        *)
THEOREM VerdictsHaveCause == Spec => []VerdictHasCause
<1>1. GateInv /\ Causes => VerdictHasCause
  <2> SUFFICES ASSUME GateInv, Causes, NEW e \in Calls
               PROVE  /\ job[e].at = "ALLOW" =>
                           /\ Of[job[e].change].patched.parses
                           /\ Kept(job[e].change, Parameters)
                           /\ e \in missed \/ Noted("EVALUATE_PASS", e)
                      /\ job[e].at = "BLOCK" =>
                           /\ LocalReasons[job[e].change] # {}
                           /\ e \in missed \/ Noted("EVALUATE_LOCAL_BLOCK", e)
                      /\ job[e].at = "DEDUPLICATED" =>
                           \E f \in Calls \ {e} :
                             /\ job[f].at \in {"block", "BLOCK", "lost"}
                             /\ job[f].start = job[e].start
                             /\ SameDiff(e, f)
                             /\ LocalReasons[job[f].change] # {}
    BY DEF VerdictHasCause
  <2>1. ASSUME job[e].at = "ALLOW"
        PROVE  Of[job[e].change].patched.parses /\ Kept(job[e].change, Parameters)
    <3> DEFINE c == job[e].change
    <3>1. c \in Changes
      BY <2>1 DEF GateInv, Phases
    <3>2. LocalReasons[c] = {}
      BY <2>1 DEF Causes
    <3>3. RunLocal(Of[c].orig, Of[c].patched) = {}
      BY <3>1, <3>2 DEF LocalReasons
    <3>4. Of[c].orig \in File /\ Of[c].patched \in File /\ DeclaredOnce(Of[c].orig)
      BY <3>1, ChangeAssumption, OrigAssumption
    <3>5. /\ Of[c].patched.parses
          /\ Of[c].orig.parses => KeepsExported(Of[c].orig, Of[c].patched, Parameters)
      BY <3>3, <3>4, AllowedKeepsParameters
    <3> QED
      BY <3>5 DEF Kept
  <2>2. ASSUME job[e].at = "DEDUPLICATED"
        PROVE  \E f \in Calls \ {e} :
                 /\ job[f].at \in {"block", "BLOCK", "lost"}
                 /\ job[f].start = job[e].start
                 /\ SameDiff(e, f)
                 /\ LocalReasons[job[f].change] # {}
    <3>1. PICK f \in Calls : Culprit(f, Diff(e), job[e].start)
      BY <2>2 DEF Causes
    <3>2. f # e
      BY <2>2, <3>1 DEF Culprit
    <3> QED
      BY <3>1, <3>2 DEF Culprit, Diff, SameDiff
  <2> QED
    BY <2>1, <2>2 DEF Causes
<1> QED
  BY <1>1, Invariance, CausesHold, PTL
=============================================================================
