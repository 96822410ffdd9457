-------------------------------- MODULE Clients --------------------------------
(***************************************************************************)
(* What the Elastic, Dynatrace and Gemini clients make of the answers they  *)
(* get: what they return to their caller and what they leave in the ledger. *)
(***************************************************************************)

(* How a request ends in a client's do: a body that can be decoded or not,  *)
(* 404 or another error status, httputil.ErrUnavailable when the retries    *)
(* are spent, or another error: the context's, or of reading the body.      *)
Replies == {"body", "garbled", "missing", "refused", "unavailable", "failed"}

Entry(action, noted) == IF noted THEN action ELSE "none"
Outcome(answer, entry) == [answer |-> answer, entry |-> entry]

-----------------------------------------------------------------------------
(* retrieveMitigations: the vector search in a budget of its own, then BM25, *)
(* then nothing.                                                            *)
retrieveMitigations(rrf, bm25) ==
  IF rrf = "body" THEN "rrf" ELSE IF bm25 = "body" THEN "bm25_fallback" ELSE "empty_optional"

(* LookupContract: only the contract is needed, but so is the entry that    *)
(* says it was found.                                                       *)
LookupUnrecorded(fetch, rrf, bm25, noted) ==
  IF fetch # "body" THEN Outcome("error", Entry("ELASTIC_LOOKUP_FAILED", noted))
  ELSE Outcome("contract", Entry("ELASTIC_LOOKUP_OK", noted))
LookupContract(fetch, rrf, bm25, noted) ==
  IF fetch # "body" THEN Outcome("error", Entry("ELASTIC_LOOKUP_FAILED", noted))
  ELSE IF ~noted THEN Outcome("error", "none")
  ELSE Outcome("contract", IF retrieveMitigations(rrf, bm25) = "rrf" THEN "ELASTIC_LOOKUP_OK"
                           ELSE "ELASTIC_LOOKUP_DEGRADED")

(* QueryConsumerHealth, by what the engine tells apart: retries spent and   *)
(* error statuses are an outage, any other error is not.  Without a token   *)
(* in its context nothing is asked, and nothing recorded.                   *)
QueryConsumerHealth(reply, noted) ==
  CASE reply = "no_token"                -> Outcome("error", "none")
    [] reply = "body" /\ noted           -> Outcome("health", "DYNATRACE_DQL_OK")
    [] reply = "body" /\ ~noted          -> Outcome("error", "none")
    [] reply = "garbled"                 -> Outcome("error", "none")
    [] reply \in {"missing", "refused",
                  "unavailable"}         -> Outcome("outage", Entry("DYNATRACE_DQL_FAILED", noted))
    [] reply = "failed"                  -> Outcome("error", Entry("DYNATRACE_DQL_FAILED", noted))

(* Generate: an answer that cannot be recorded is thrown away; nothing is   *)
(* asked, and nothing recorded, without an access token.                    *)
GenerateUnrecorded(reply, noted) ==
  IF reply = "no_token" THEN Outcome("error", "none")
  ELSE IF reply # "body" THEN Outcome("error", Entry("GEMINI_GENERATE_FAILED", noted))
  ELSE Outcome("text", Entry("GEMINI_GENERATE_OK", noted))
Generate(reply, noted) ==
  CASE reply = "no_token"                -> Outcome("error", "none")
    [] reply \in Replies \ {"body"}      -> Outcome("error", Entry("GEMINI_GENERATE_FAILED", noted))
    [] reply = "body" /\ noted           -> Outcome("text", "GEMINI_GENERATE_OK")
    [] reply = "body" /\ ~noted          -> Outcome("error", "none")
=============================================================================
