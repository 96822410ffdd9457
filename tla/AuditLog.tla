------------------------------- MODULE AuditLog -------------------------------
(***************************************************************************)
(* What the audit ledger promises its readers: one append-only sequence of *)
(* entries, each later than the one before it and linked to its hash, each *)
(* webhook event recorded once.                                            *)
(***************************************************************************)
EXTENDS Integers, Sequences

CONSTANT NoEvent   \* the event of an entry that records no webhook
VARIABLE log

(* The hash the next entry must link to; see AuditLedger.                   *)
NoHash == <<>>
Hash(e) == <<e.prev, e.event, e.ts>>
Tip == IF log = <<>> THEN NoHash ELSE Hash(log[Len(log)])

Init == log = <<>>

(* Entry e joins the log at its end. *)
Record(e) ==
  /\ e.prev = Tip
  /\ \A k \in DOMAIN log : log[k].ts < e.ts
  /\ e.event # NoEvent => \A k \in DOMAIN log : log[k].event # e.event
  /\ log' = Append(log, e)

Next == log' # <<>> /\ Record(log'[Len(log')])

Spec == Init /\ [][Next]_log

(* What VerifyChain and the cursor it reads from need: oldest-first is the  *)
(* order of writing, and there each entry links to the one before it.       *)
WalkAccepts ==
  \A k \in DOMAIN log :
    /\ log[k].prev = (IF k = 1 THEN NoHash ELSE Hash(log[k - 1]))
    /\ \A j \in DOMAIN log : j < k => log[j].ts < log[k].ts
=============================================================================
