---------------------------- MODULE PhoenixSession ----------------------------
(***************************************************************************)
(* phoenix.stdioClient as one query sees it.  Concurrent diagnoses share    *)
(* the client's MCP session with a node subprocess: it is dialled when it   *)
(* is first needed, and a query whose call fails in the transport closes    *)
(* it, dials another and calls once more.  Of the other queries only the    *)
(* sections under the mutex matter, which are one step each.                *)
(***************************************************************************)
EXTENDS Naturals

CONSTANT Sessions  \* bound: numbers, from 1, for sessions; those nobody refers to are used again

VARIABLES
  status,   \* by session: "up", "dead" or "closed"
  session,  \* the client's session, 0 for none
  mu,       \* whether the query holds the mutex
  query,    \* where the query is
  on,       \* the session of its call, 0 before
  failed,   \* the session its first call failed on, 0 before
  over      \* whether its context is done

clientVars == <<status, session>>
queryVars == <<mu, query, on, failed>>
vars == <<clientVars, queryVars, over>>

-----------------------------------------------------------------------------
Free == ~mu

Opened(s) ==
  /\ status[s] = "closed"
  /\ s \notin {on, failed}
  /\ \A r \in Sessions : r < s => status[r] # "closed" \/ r \in {on, failed}
  /\ status' = [status EXCEPT ![s] = "up"]
  /\ session' = s

Closed ==
  /\ session' = 0
  /\ status' = IF session = 0 THEN status ELSE [status EXCEPT ![session] = "closed"]

Init ==
  /\ status = [s \in Sessions |-> "closed"]
  /\ session = 0
  /\ mu = FALSE
  /\ query \in {"off", "ensure"}
  /\ on = 0
  /\ failed = 0
  /\ over = FALSE

(* ensure: take the session there is, or keep the mutex and dial.           *)
EnsureUnlocked ==
  /\ query = "ensure"
  /\ Free
  /\ \/ session # 0 /\ query' = "call" /\ on' = session
     \/ session = 0 /\ query' = "dial" /\ UNCHANGED on
  /\ UNCHANGED <<clientVars, mu, failed, over>>
Ensure ==
  /\ query = "ensure"
  /\ Free
  /\ \/ session # 0 /\ query' = "call" /\ on' = session /\ UNCHANGED mu
     \/ session = 0 /\ query' = "dial" /\ mu' = TRUE /\ UNCHANGED on
  /\ UNCHANGED <<clientVars, failed, over>>

(* NodeDialer spawns a subprocess and connects ... *)
Dialled ==
  /\ query = "dial"
  /\ \E s \in Sessions : Opened(s)
  /\ mu' = FALSE
  /\ query' = "call"
  /\ on' = session'
  /\ UNCHANGED <<failed, over>>

(* ... or does not: a failed dial is not repeated.                          *)
DialFails ==
  /\ query = "dial"
  /\ mu' = FALSE
  /\ query' = "error"
  /\ UNCHANGED <<clientVars, on, failed, over>>

(* The subprocess answers: with spans, or with an error of the tool, of the *)
(* protocol or in the parsing, which a second call would only repeat.       *)
Answers ==
  /\ query = "call"
  /\ status[on] = "up"
  /\ query' \in {"spans", "error"}
  /\ UNCHANGED <<clientVars, mu, on, failed, over>>

(* The call fails in the transport, or ends with its context; the first     *)
(* that fails in time has the session reset.                                *)
CallFails ==
  /\ query = "call"
  /\ status[on] # "up" \/ over
  /\ \/ /\ failed = 0 /\ ~over
        /\ query' = "reset"
        /\ failed' = on
     \/ /\ failed # 0 \/ over
        /\ query' = "error"
        /\ UNCHANGED failed
  /\ UNCHANGED <<clientVars, mu, on, over>>

(* reset: the session the client has by now is closed under the mutex, also *)
(* one that another query has just dialled.  Closing may take its time.     *)
Lock ==
  /\ query = "reset"
  /\ Free
  /\ mu' = TRUE
  /\ query' = "close"
  /\ UNCHANGED <<clientVars, on, failed, over>>

ResetKeeping ==
  /\ query = "close"
  /\ mu' = FALSE
  /\ query' = "ensure"
  /\ UNCHANGED <<clientVars, on, failed, over>>
Reset ==
  /\ query = "close"
  /\ Closed
  /\ mu' = FALSE
  /\ query' = "ensure"
  /\ UNCHANGED <<on, failed, over>>

QueryStep == Ensure \/ Dialled \/ DialFails \/ Answers \/ CallFails \/ Lock \/ Reset

(* Another query dials; another query, or Close at shutdown, resets.        *)
OtherDials ==
  /\ Free
  /\ session = 0
  /\ \E s \in Sessions : Opened(s)
  /\ UNCHANGED <<queryVars, over>>
OtherResets ==
  /\ Free
  /\ session # 0
  /\ Closed
  /\ UNCHANGED <<queryVars, over>>

(* The subprocess dies. *)
Die ==
  /\ session # 0
  /\ status[session] = "up"
  /\ status' = [status EXCEPT ![session] = "dead"]
  /\ UNCHANGED <<session, queryVars, over>>

Others == OtherDials \/ OtherResets \/ Die

Next == QueryStep \/ Others

Spec == Init /\ [][Next]_vars

-----------------------------------------------------------------------------
SessionTypeOK ==
  /\ status \in [Sessions -> {"up", "dead", "closed"}]
  /\ session \in Sessions \cup {0}
  /\ mu \in BOOLEAN
  /\ query \in {"off", "ensure", "dial", "call", "reset", "close", "spans", "error", "ended"}
  /\ on \in Sessions \cup {0}
  /\ failed \in Sessions \cup {0}

(* No subprocess is left behind: a session that was dialled and not closed  *)
(* is the one the client holds, however queries dial, fail and reset.       *)
NoStraySession == \A s \in Sessions : status[s] # "closed" => s = session

(* A query calls again only on another session than the one that failed it. *)
RetryUsesAnother == query = "call" => on # failed
=============================================================================
