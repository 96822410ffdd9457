------------------------------ MODULE ChainWalk ------------------------------
(***************************************************************************)
(* The verify subcommand (main.go runVerify): ReadAllEntries reads the     *)
(* ledger oldest-first and audit.VerifyChain runs Verify on each entry     *)
(* against the hash of the one before it, while the service may go on      *)
(* writing.  Before the walk the stored documents may have been damaged in *)
(* the ways audit.go names: bytes altered, entries re-signed with another  *)
(* key, reordered (a timestamp altered), removed or stored twice.          *)
(***************************************************************************)
EXTENDS Integers, Sequences

CONSTANTS
  Bodies,      \* what Action, Payload and Thought can hold
  ClockSteps,  \* by how much the timestamp grows from one entry to the next, in ms
  MaxEntries,  \* bound: entries the service writes
  MaxFaults    \* bound: documents damaged

ASSUME StepAssumption == ClockSteps \subseteq Int
ASSUME SizeAssumption == MaxEntries \in Nat /\ MaxFaults \in Nat

VARIABLES
  honest,   \* the entries Chain built, in the order they were written
  docs,     \* the stored documents, by slot
  faults,   \* how many times a document was damaged
  walk,     \* "idle", "walking", "valid" or "invalid"
  unread,   \* the slots the cursor has still to return; Writer adds to them
  walked,   \* the entries that passed Verify so far
  reason    \* why the walk stopped, "none" while it has not

vars == <<honest, docs, faults, walk, unread, walked, reason>>

-----------------------------------------------------------------------------
NoHash == <<>>

(* computeHash: SHA-256 over the length-prefixed CanonicalFields, injective. *)
BodyOnlyHash(e) == <<e.prev, e.body>>
ComputeHash(e) == <<e.prev, e.body, e.ts>>

Sign(key, hash) == <<key, hash>>

(* audit.Chain, with the service's key or another one. *)
Chain(key, prev, body, ts) ==
  LET h == ComputeHash([prev |-> prev, body |-> body, ts |-> ts])
  IN  [prev |-> prev, body |-> body, ts |-> ts, hash |-> h, sig |-> Sign(key, h)]

(* audit.Verify: the first check that fails names the error. *)
UnlinkedVerify(e, prevHash) ==
  IF ComputeHash(e) # e.hash THEN "hash mismatch"
  ELSE IF e.sig # Sign("service", e.hash) THEN "invalid signature"
  ELSE "ok"
Verify(e, prevHash) ==
  IF e.prev # prevHash THEN "broken chain link"
  ELSE IF ComputeHash(e) # e.hash THEN "hash mismatch"
  ELSE IF e.sig # Sign("service", e.hash) THEN "invalid signature"
  ELSE "ok"

(* The prev variable of VerifyChain: nil, then the hash of the last entry. *)
PrevHash == IF walked = <<>> THEN NoHash ELSE walked[Len(walked)].hash

Tip == IF honest = <<>> THEN NoHash ELSE honest[Len(honest)].hash
LastTs == IF honest = <<>> THEN 0 ELSE honest[Len(honest)].ts

-----------------------------------------------------------------------------
Init ==
  /\ honest = <<>>
  /\ docs = <<>>
  /\ faults = 0
  /\ walk = "idle"
  /\ unread = {}
  /\ walked = <<>>
  /\ reason = "none"

(* Writer appends an entry; a cursor that is open will still come to it.    *)
Write(b, d) ==
  /\ Len(honest) < MaxEntries
  /\ LET e == Chain("service", Tip, b, LastTs + d)
     IN  /\ honest' = Append(honest, e)
         /\ docs' = Append(docs, e)
  /\ unread' = unread \cup {Len(docs) + 1}
  /\ UNCHANGED <<faults, walk, walked, reason>>

(* What a damaged field may hold: values seen elsewhere in the ledger.      *)
Times == {honest[k].ts : k \in DOMAIN honest} \cup {0}
Hashes == {honest[k].hash : k \in DOMAIN honest} \cup {NoHash}

Damaged(e) ==
  {[e EXCEPT !.body = b] : b \in Bodies}
    \cup {[e EXCEPT !.ts = t] : t \in Times}
    \cup {[e EXCEPT !.prev = h] : h \in Hashes}
    \cup {[e EXCEPT !.hash = h] : h \in Hashes}
    \cup {[e EXCEPT !.sig = Sign("other", e.hash)]}
    \cup {Chain("other", e.prev, b, e.ts) : b \in Bodies}

(* A stored document is altered, removed, or stored a second time. *)
Corrupt(k) ==
  /\ walk = "idle"
  /\ faults < MaxFaults
  /\ k \in unread
  /\ faults' = faults + 1
  /\ \/ /\ \E e \in Damaged(docs[k]) : docs' = [docs EXCEPT ![k] = e]
        /\ UNCHANGED unread
     \/ /\ unread' = unread \ {k}
        /\ UNCHANGED docs
     \/ /\ docs' = Append(docs, docs[k])
        /\ unread' = unread \cup {Len(docs) + 1}
  /\ UNCHANGED <<honest, walk, walked, reason>>

(* runVerify opens its cursor. *)
Start ==
  /\ walk = "idle"
  /\ walk' = "walking"
  /\ UNCHANGED <<honest, docs, faults, unread, walked, reason>>

(* The cursor's next document: an oldest one, ties in any order. *)
AnyUnread(k) == k \in unread
Oldest(k) == k \in unread /\ \A j \in unread : docs[k].ts =< docs[j].ts

(* The next entry passes Verify ... *)
VerifyNext(k) ==
  /\ walk = "walking"
  /\ Oldest(k)
  /\ Verify(docs[k], PrevHash) = "ok"
  /\ walked' = Append(walked, docs[k])
  /\ unread' = unread \ {k}
  /\ UNCHANGED <<honest, docs, faults, walk, reason>>

(* ... or is the first to fail: FailedIndex is Len(walked). *)
RejectNext(k) ==
  /\ walk = "walking"
  /\ Oldest(k)
  /\ Verify(docs[k], PrevHash) # "ok"
  /\ walk' = "invalid"
  /\ reason' = Verify(docs[k], PrevHash)
  /\ UNCHANGED <<honest, docs, faults, unread, walked>>

(* The cursor is exhausted. *)
Finish ==
  /\ walk = "walking"
  /\ unread = {}
  /\ walk' = "valid"
  /\ UNCHANGED <<honest, docs, faults, unread, walked, reason>>

Next ==
  \/ \E b \in Bodies, d \in ClockSteps : Write(b, d)
  \/ \E k \in DOMAIN docs : Corrupt(k)
  \/ Start
  \/ \E k \in unread : VerifyNext(k)
  \/ \E k \in unread : RejectNext(k)
  \/ Finish

Spec == Init /\ [][Next]_vars

-----------------------------------------------------------------------------
(* The fields a hash covers. *)
Covered(e) == [prev |-> e.prev, body |-> e.body, ts |-> e.ts]

(* The entries that passed are, in order, the first ones the service wrote, *)
(* at every moment of the walk.  So "chain intact" means that what is left  *)
(* of the ledger is an unaltered beginning of it, and FailedIndex points at *)
(* the first entry that is not.                                             *)
WalkedIsWritten ==
  /\ Len(walked) =< Len(honest)
  /\ \A k \in DOMAIN walked : Covered(walked[k]) = Covered(honest[k])

(* A ledger nobody damaged is never reported INVALID, even while it grows.  *)
UndamagedAccepted == faults = 0 => walk # "invalid"
=============================================================================
