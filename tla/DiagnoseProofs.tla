---------------------------- MODULE DiagnoseProofs ----------------------------
(* Proofs about Diagnose for any number of sessions: what a verdict rests   *)
(* on, what the ledger says of it, and that no subprocess is left behind.   *)
EXTENDS Diagnose, FiniteSetTheorems, SequenceTheorems, TLAPS

(* A session that was not closed is the client's; the mutex is held to dial *)
(* and to close; and once a call failed the client's session is another     *)
(* one before the query may call again.                                     *)
SessionInv ==
  /\ Phoenix!SessionTypeOK
  /\ NoStraySession
  /\ mu = TRUE <=> query \in {"dial", "close"}
  /\ query = "dial" => session = 0
  /\ query = "ensure" => session = 0 \/ session # failed
  /\ query = "call" => on \in Sessions /\ on # failed

(* What a leg came back with. *)
LegInv ==
  /\ leg \in [Legs -> [answer : {"asking", "contract", "health", "outage", "error"}, entry : Entries]]
  /\ leg["elastic"].answer \in {"asking", "contract", "error"}
  /\ leg["elastic"].answer = "contract" =>
       leg["elastic"].entry \in {"ELASTIC_LOOKUP_OK", "ELASTIC_LOOKUP_DEGRADED"}
  /\ leg["dynatrace"].answer \in {"asking", "outage", "error"} \/ leg["dynatrace"] = Outcome("health", "DYNATRACE_DQL_OK")
  /\ \A l \in Legs : leg[l].answer = "asking" => leg[l] = Asking

(* What was sent and received, and where the caller is with it. *)
JoinInv ==
  /\ sent \subseteq Legs /\ \A l \in sent : leg[l] # Asking
  /\ results \in Seq(Legs) /\ Len(results) =< Capacity
  /\ \A i \in 1 .. Len(results) : results[i] \in sent
  /\ joined \subseteq sent
  /\ main \in {"joining", "judging", "attaching", "concluding", "returned"}
  /\ main = "joining" => joined # Legs
  /\ main \in {"judging", "attaching", "concluding"} => joined = Legs
  /\ main \in {"attaching", "concluding"} => \A l \in Legs : leg[l].answer # "error"

(* The two channels of the Phoenix leg hold one answer at most. *)
ChannelInv ==
  /\ inner \in Seq({"history", "empty_optional"}) /\ Len(inner) =< 1
  /\ query # "ended" => inner = <<>>
  /\ watcher \in {"off", "waiting", "ended"}
  /\ outer \in Seq({"history", "empty_optional", "timeout"}) /\ Len(outer) =< 1
  /\ watcher # "ended" => outer = <<>>
  /\ watcher = "off" <=> query = "off"
  /\ done \subseteq {"parent", "fanout", "phoenix"}

(* The caller's entries so far. *)
Entry1 == {"DIAGNOSIS_OK", "DIAGNOSIS_DEGRADED", "DIAGNOSIS_FAILED", "PHOENIX_HISTORY_OK", "PHOENIX_HISTORY_DEGRADED"}
TrailInv ==
  /\ priors \in BOOLEAN /\ missed \in BOOLEAN
  /\ ledger \in Seq(Entry1)
  /\ main \in {"joining", "judging", "attaching"} => ledger = <<>>
  /\ main = "concluding" /\ ~missed => ledger = IF query = "off" THEN <<>> ELSE <<History>>
  /\ returned \in {"none", "result", "degraded", "error"}
  /\ main = "returned" <=> returned # "none"
  /\ VerdictHasCause
  /\ TrailMatchesReturn

DiagInv == SessionInv /\ LegInv /\ JoinInv /\ ChannelInv /\ TrailInv

-----------------------------------------------------------------------------
(* A new session is the only open one, and none a query used before.        *)
LEMMA OpenedKeeps ==
  ASSUME Phoenix!SessionTypeOK, NoStraySession, session = 0, NEW s \in Sessions, Phoenix!Opened(s)
  PROVE  /\ status' \in [Sessions -> {"up", "dead", "closed"}] /\ session' \in Sessions
         /\ NoStraySession'
         /\ session' \notin {0, on, failed}
<1>1. 0 \notin Sessions
  BY SessionAssumption
<1>2. \A r \in Sessions : status[r] = "closed"
  BY <1>1 DEF NoStraySession, Phoenix!NoStraySession
<1>3. status' = [status EXCEPT ![s] = "up"] /\ session' = s /\ s \notin {on, failed}
  BY DEF Phoenix!Opened
<1>4. status \in [Sessions -> {"up", "dead", "closed"}]
  BY DEF Phoenix!SessionTypeOK
<1> QED
  BY <1>1, <1>2, <1>3, <1>4 DEF NoStraySession, Phoenix!NoStraySession

(* Once its session is closed the client has none.                          *)
LEMMA ClosedKeeps ==
  ASSUME Phoenix!SessionTypeOK, NoStraySession, Phoenix!Closed
  PROVE  /\ status' \in [Sessions -> {"up", "dead", "closed"}] /\ session' = 0
         /\ NoStraySession'
<1>1. status \in [Sessions -> {"up", "dead", "closed"}]
  BY DEF Phoenix!SessionTypeOK
<1> QED
  BY <1>1 DEF Phoenix!Closed, NoStraySession, Phoenix!NoStraySession

(* Every step of a query keeps the sessions in order.                       *)
LEMMA QueryKeeps ==
  ASSUME SessionInv, Phoenix!QueryStep
  PROVE  /\ SessionInv'
         /\ query \notin {"off", "ended"} /\ query' \notin {"off", "ended"}
<1>1. /\ Phoenix!SessionTypeOK /\ NoStraySession /\ 0 \notin Sessions
      /\ mu = TRUE <=> query \in {"dial", "close"}
  BY SessionAssumption DEF SessionInv
<1>2. CASE Phoenix!Ensure
  BY <1>1, <1>2 DEF SessionInv, Phoenix!Ensure, Phoenix!Free, Phoenix!clientVars, Phoenix!SessionTypeOK,
     NoStraySession, Phoenix!NoStraySession
<1>3. CASE Phoenix!Dialled
  <2>1. PICK s \in Sessions : Phoenix!Opened(s)
    BY <1>3 DEF Phoenix!Dialled
  <2>2. session = 0
    BY <1>3 DEF SessionInv, Phoenix!Dialled
  <2>3. /\ status' \in [Sessions -> {"up", "dead", "closed"}] /\ session' \in Sessions
        /\ NoStraySession' /\ session' \notin {0, on, failed}
    BY <1>1, <2>1, <2>2, OpenedKeeps
  <2>4. query = "dial" /\ mu' = FALSE /\ query' = "call" /\ on' = session' /\ failed' = failed
    BY <1>3 DEF Phoenix!Dialled
  <2>5. Phoenix!SessionTypeOK'
    BY <1>1, <2>3, <2>4 DEF Phoenix!SessionTypeOK
  <2> QED
    BY <2>3, <2>4, <2>5 DEF SessionInv
<1>4. CASE Phoenix!DialFails \/ Phoenix!Answers \/ Phoenix!CallFails \/ Phoenix!Lock
  <2>1. status' = status /\ session' = session /\ on' = on
    BY <1>4 DEF Phoenix!DialFails, Phoenix!Answers, Phoenix!CallFails, Phoenix!Lock, Phoenix!clientVars
  <2>2. NoStraySession'
    BY <1>1, <2>1 DEF NoStraySession, Phoenix!NoStraySession
  <2>3. /\ query \in {"dial", "call", "reset"} /\ query' \in {"spans", "error", "reset", "close"}
        /\ failed' \in {failed, on} /\ mu' \in BOOLEAN
        /\ mu' = TRUE <=> query' = "close"
    BY <1>1, <1>4 DEF SessionInv, Phoenix!DialFails, Phoenix!Answers, Phoenix!CallFails, Phoenix!Lock,
       Phoenix!clientVars, Phoenix!SessionTypeOK
  <2>4. Phoenix!SessionTypeOK'
    BY <1>1, <2>1, <2>3 DEF Phoenix!SessionTypeOK
  <2> QED
    BY <2>2, <2>3, <2>4 DEF SessionInv
<1>5. CASE Phoenix!Reset
  <2>1. /\ status' \in [Sessions -> {"up", "dead", "closed"}] /\ session' = 0
        /\ NoStraySession'
    BY <1>1, <1>5, ClosedKeeps DEF Phoenix!Reset
  <2>2. query = "close" /\ mu' = FALSE /\ query' = "ensure" /\ on' = on /\ failed' = failed
    BY <1>5 DEF Phoenix!Reset
  <2>3. Phoenix!SessionTypeOK'
    BY <1>1, <2>1, <2>2 DEF Phoenix!SessionTypeOK
  <2> QED
    BY <2>1, <2>2, <2>3 DEF SessionInv
<1> QED
  BY <1>2, <1>3, <1>4, <1>5 DEF Phoenix!QueryStep

(* So does every other user of the client, and a subprocess that dies.      *)
LEMMA OthersKeep ==
  ASSUME SessionInv, Phoenix!Others
  PROVE  SessionInv' /\ query' = query
<1>1. /\ Phoenix!SessionTypeOK /\ NoStraySession /\ 0 \notin Sessions
      /\ mu = TRUE <=> query \in {"dial", "close"}
  BY SessionAssumption DEF SessionInv
<1>2. /\ mu' = mu /\ query' = query /\ on' = on /\ failed' = failed
  BY DEF Phoenix!Others, Phoenix!OtherDials, Phoenix!OtherResets, Phoenix!Die, Phoenix!queryVars
<1>3. CASE Phoenix!OtherDials
  <2>1. PICK s \in Sessions : Phoenix!Opened(s)
    BY <1>3 DEF Phoenix!OtherDials
  <2>2. session = 0 /\ mu # TRUE
    BY <1>3 DEF Phoenix!OtherDials, Phoenix!Free
  <2>3. /\ status' \in [Sessions -> {"up", "dead", "closed"}] /\ session' \in Sessions
        /\ NoStraySession' /\ session' \notin {0, on, failed}
    BY <1>1, <2>1, <2>2, OpenedKeeps
  <2>4. Phoenix!SessionTypeOK'
    BY <1>1, <1>2, <2>3 DEF Phoenix!SessionTypeOK
  <2> QED
    BY <1>1, <1>2, <2>2, <2>3, <2>4 DEF SessionInv
<1>4. CASE Phoenix!OtherResets
  <2>1. /\ status' \in [Sessions -> {"up", "dead", "closed"}] /\ session' = 0
        /\ NoStraySession'
    BY <1>1, <1>4, ClosedKeeps DEF Phoenix!OtherResets
  <2>2. Phoenix!SessionTypeOK'
    BY <1>1, <1>2, <2>1 DEF Phoenix!SessionTypeOK
  <2> QED
    BY <1>1, <1>2, <2>1, <2>2 DEF SessionInv
<1>5. CASE Phoenix!Die
  <2>1. status' = [status EXCEPT ![session] = "dead"] /\ session' = session /\ session # 0
    BY <1>5 DEF Phoenix!Die
  <2>2. status' \in [Sessions -> {"up", "dead", "closed"}]
    BY <1>1, <2>1 DEF Phoenix!SessionTypeOK
  <2>3. NoStraySession'
    BY <1>1, <2>1 DEF NoStraySession, Phoenix!NoStraySession, Phoenix!SessionTypeOK
  <2>4. Phoenix!SessionTypeOK'
    BY <1>1, <1>2, <2>1, <2>2 DEF Phoenix!SessionTypeOK
  <2> QED
    BY <1>1, <1>2, <2>1, <2>3, <2>4 DEF SessionInv
<1> QED
  BY <1>2, <1>3, <1>4, <1>5 DEF Phoenix!Others

-----------------------------------------------------------------------------
(* What the clients may return to their legs. *)
LEMMA OutcomeFacts ==
  /\ \A o \in OutcomesOf("elastic") :
       /\ o \in [answer : {"contract", "error"}, entry : Entries]
       /\ o.answer = "contract" => o.entry \in {"ELASTIC_LOOKUP_OK", "ELASTIC_LOOKUP_DEGRADED"}
  /\ \A o \in OutcomesOf("dynatrace") :
       /\ o \in [answer : {"health", "outage", "error"}, entry : Entries]
       /\ o.answer = "health" => o = Outcome("health", "DYNATRACE_DQL_OK")
<1>1. ASSUME NEW fetch \in Replies, NEW rrf \in Replies, NEW bm25 \in Replies, NEW noted \in BOOLEAN
      PROVE  LET o == LookupContract(fetch, rrf, bm25, noted)
             IN  /\ o \in [answer : {"contract", "error"}, entry : Entries]
                 /\ o.answer = "contract" => o.entry \in {"ELASTIC_LOOKUP_OK", "ELASTIC_LOOKUP_DEGRADED"}
  BY DEF LookupContract, Outcome, Entry, Entries
<1>2. ASSUME NEW reply \in Replies, NEW noted \in BOOLEAN
      PROVE  LET o == QueryConsumerHealth(reply, noted)
             IN  /\ o \in [answer : {"health", "outage", "error"}, entry : Entries]
                 /\ o.answer = "health" => o = Outcome("health", "DYNATRACE_DQL_OK")
  BY DEF Replies, QueryConsumerHealth, Outcome, Entry, Entries
<1>3. Noted \subseteq BOOLEAN
  BY DEF Noted
<1> HIDE DEF LookupContract, QueryConsumerHealth
<1>4. ASSUME NEW o \in OutcomesOf("elastic")
      PROVE  \E fetch \in Replies, rrf \in Replies, bm25 \in Replies, noted \in BOOLEAN :
               o = LookupContract(fetch, rrf, bm25, noted)
  BY <1>3 DEF OutcomesOf
<1>5. ASSUME NEW o \in OutcomesOf("dynatrace")
      PROVE  \E reply \in Replies, noted \in BOOLEAN : o = QueryConsumerHealth(reply, noted)
  BY <1>3 DEF OutcomesOf
<1> QED
  BY <1>1, <1>2, <1>4, <1>5

(* Two answers are both legs'. *)
LEMMA BothLegs == ASSUME NEW S, S \subseteq Legs PROVE Cardinality(S) >= 2 <=> S = Legs
<1>1. Legs = {"elastic"} \cup {"dynatrace"} /\ "dynatrace" \notin {"elastic"}
  BY DEF Legs
<1>2. IsFiniteSet({"elastic"}) /\ Cardinality({"elastic"}) = 1
  BY FS_Singleton
<1>3. IsFiniteSet(Legs) /\ Cardinality(Legs) = 2
  BY <1>1, <1>2, FS_AddElement
<1>4. Cardinality(S) =< 2 /\ (Cardinality(S) = 2 => S = Legs) /\ Cardinality(S) \in Nat
  BY <1>3, FS_Subset, FS_CardinalityType
<1> QED
  BY <1>3, <1>4

(* What an append to a sequence leaves and adds.                            *)
LEMMA AppendFacts ==
  ASSUME NEW S, NEW l \in Seq(S), NEW e \in S
  PROVE  /\ Append(l, e) \in Seq(S) /\ Len(Append(l, e)) = Len(l) + 1 /\ Len(l) \in Nat
         /\ \A k \in 1 .. Len(l) : Append(l, e)[k] = l[k]
         /\ Append(l, e)[Len(l) + 1] = e
OBVIOUS

(* An append to one element makes a pair.                                   *)
LEMMA AppendPair ==
  ASSUME NEW S, NEW a \in S, NEW b \in S
  PROVE  Append(<<a>>, b) = <<a, b>>
<1>1. <<a>> \in Seq(S) /\ <<a, b>> \in Seq(S) /\ Len(<<a>>) = 1 /\ Len(<<a, b>>) = 2
  OBVIOUS
<1>2. Append(<<a>>, b) \in Seq(S) /\ Len(Append(<<a>>, b)) = 2
  BY <1>1
<1>3. \A i \in 1 .. 2 : Append(<<a>>, b)[i] = <<a, b>>[i]
  BY <1>1
<1> QED
  BY <1>1, <1>2, <1>3, SeqEqual

(* The invariant holds at first. *)
LEMMA DiagInit == Init => DiagInv
<1> SUFFICES ASSUME Init PROVE DiagInv
  OBVIOUS
<1>1. SessionInv
  BY DEF Init, SessionInv, Phoenix!Init, Phoenix!SessionTypeOK, NoStraySession, Phoenix!NoStraySession
<1>2. LegInv
  BY DEF Init, LegInv, Asking, Outcome, Legs, Entries
<1>3. JoinInv
  BY DEF Init, JoinInv, Capacity, Legs
<1>4. ChannelInv
  <2>1. query \in {"off", "ensure"}
    BY DEF Init, Phoenix!Init
  <2>2. Len(<<>>) =< 1
    OBVIOUS
  <2>3. <<>> \in Seq({"history", "empty_optional"}) /\ <<>> \in Seq({"history", "empty_optional", "timeout"})
    OBVIOUS
  <2>4. inner = <<>> /\ outer = <<>> /\ done = {} /\ watcher = IF query = "off" THEN "off" ELSE "waiting"
    BY DEF Init
  <2>5. watcher \in {"off", "waiting", "ended"} /\ (watcher = "off" <=> query = "off")
    BY <2>4
  <2>6. Len(inner) =< 1 /\ Len(outer) =< 1
    BY <2>2, <2>4
  <2> QED
    BY <2>3, <2>4, <2>5, <2>6, Zenon DEF ChannelInv
<1>5. TrailInv
  <2>1. main = "joining" /\ returned = "none" /\ ledger = <<>> /\ priors = FALSE /\ missed = FALSE
    BY DEF Init
  <2>2. <<>> \in Seq(Entry1)
    OBVIOUS
  <2>3. VerdictHasCause /\ TrailMatchesReturn
    BY <2>1 DEF VerdictHasCause, TrailMatchesReturn
  <2>4. main # "concluding" /\ (main = "returned" <=> returned # "none")
    BY <2>1
  <2> QED
    BY <2>1, <2>2, <2>3, <2>4 DEF TrailInv
<1> QED
  BY <1>1, <1>2, <1>3, <1>4, <1>5 DEF DiagInv

-----------------------------------------------------------------------------
(* Parts of the invariant that a step leaves alone: the sessions ...        *)
LEMMA SameSession == SessionInv /\ UNCHANGED sessionVars => SessionInv'
BY DEF SessionInv, sessionVars, NoStraySession, Phoenix!NoStraySession, Phoenix!SessionTypeOK

(* Likewise for the legs ...                                                *)
LEMMA SameLegs == LegInv /\ UNCHANGED leg => LegInv'
BY DEF LegInv

(* ... for what was sent and received ...                                   *)
LEMMA SameJoin == JoinInv /\ UNCHANGED <<leg, sent, results, joined, main>> => JoinInv'
BY DEF JoinInv

(* ... and for the trail, also when more deadlines have passed.             *)
LEMMA SameTrail ==
  ASSUME TrailInv, UNCHANGED <<leg, callerVars>>, done \subseteq done', query' = "off" <=> query = "off"
  PROVE  TrailInv'
<1>1. UNCHANGED <<leg, joined, main, priors, returned, missed, ledger>>
  BY DEF callerVars
<1>2. VerdictHasCause'
  BY <1>1 DEF TrailInv, VerdictHasCause
<1>3. History' = History /\ VerdictOf(returned)' = VerdictOf(returned)
  BY <1>1 DEF History, VerdictOf
<1>4. TrailMatchesReturn'
  BY <1>1, <1>3 DEF TrailInv, TrailMatchesReturn
<1> QED
  BY <1>1, <1>2, <1>3, <1>4 DEF TrailInv

-----------------------------------------------------------------------------
(* The steps of others than the caller.  A deadline passes.                 *)
LEMMA ExpireKeeps ==
  ASSUME DiagInv, NEW c \in {"parent", "fanout", "phoenix"}, Expire(c)
  PROVE  DiagInv'
<1>1. /\ UNCHANGED <<legVars, phoenixVars, callerVars>>
      /\ done \subseteq done' /\ done' \subseteq {"parent", "fanout", "phoenix"}
  BY DEF Expire, DiagInv, ChannelInv
<1>2. UNCHANGED <<leg, sent, results, sessionVars, query, inner, watcher, outer, joined, main>>
  BY <1>1 DEF legVars, phoenixVars, sessionVars, callerVars
<1>3. ChannelInv'
  BY <1>1, <1>2 DEF DiagInv, ChannelInv
<1> QED
  BY <1>1, <1>2, <1>3, SameSession, SameLegs, SameJoin, SameTrail DEF DiagInv

(* A leg comes back with an answer its client may give.                     *)
LEMMA LegAnswersKeeps ==
  ASSUME DiagInv, NEW l \in Legs, LegAnswers(l)
  PROVE  DiagInv'
<1>1. PICK o \in OutcomesOf(l) : leg' = [leg EXCEPT ![l] = o]
  BY DEF LegAnswers
<1>2. /\ leg[l] = Asking
      /\ UNCHANGED <<sent, results, joined, main, priors, returned, missed, ledger>>
      /\ UNCHANGED <<sessionVars, query, inner, watcher, outer, done>>
  BY DEF LegAnswers, phoenixVars, sessionVars, callerVars
<1>3. leg \in [Legs -> [answer : {"asking", "contract", "health", "outage", "error"}, entry : Entries]]
  BY DEF DiagInv, LegInv
<1>4. /\ leg'[l] = o /\ \A k \in Legs \ {l} : leg'[k] = leg[k]
      /\ o # Asking /\ o \in [answer : {"contract", "health", "outage", "error"}, entry : Entries]
  <2>1. o \in [answer : {"contract", "health", "outage", "error"}, entry : Entries]
    BY OutcomeFacts DEF Legs
  <2>2. o # Asking
    BY <2>1 DEF Asking, Outcome
  <2> QED
    BY <1>1, <1>3, <2>1, <2>2
<1>5. LegInv'
  <2>1. leg' \in [Legs -> [answer : {"asking", "contract", "health", "outage", "error"}, entry : Entries]]
    BY <1>1, <1>3, <1>4
  <2>2. "elastic" \in Legs /\ "dynatrace" \in Legs /\ l \in {"elastic", "dynatrace"}
    BY DEF Legs
  <2>5. \A k \in Legs : leg'[k].answer = "asking" => leg'[k] = Asking
    <3>1. \A k \in Legs : leg[k].answer = "asking" => leg[k] = Asking
      BY DEF DiagInv, LegInv
    <3>2. o.answer # "asking"
      BY <1>4
    <3> QED
      BY <1>4, <3>1, <3>2
  <2>3. CASE l = "elastic"
    BY <1>4, <2>1, <2>2, <2>3, <2>5, OutcomeFacts DEF DiagInv, LegInv
  <2>4. CASE l = "dynatrace"
    <3>1. leg'["dynatrace"] = o /\ leg'["elastic"] = leg["elastic"]
      BY <1>4, <2>2, <2>4
    <3>2. o.answer \in {"outage", "error"} \/ o = Outcome("health", "DYNATRACE_DQL_OK")
      BY <2>4, OutcomeFacts
    <3> QED
      BY <2>1, <2>5, <3>1, <3>2 DEF DiagInv, LegInv
  <2> QED
    BY <2>2, <2>3, <2>4
<1>6. l \notin sent /\ l \notin joined
  BY <1>2 DEF DiagInv, JoinInv
<1>7. JoinInv'
  BY <1>2, <1>4, <1>6 DEF DiagInv, JoinInv
<1>8. ChannelInv'
  BY <1>2 DEF DiagInv, ChannelInv
<1>9. TrailInv'
  <2>1. VerdictHasCause'
    <3>1. joined' = joined /\ joined \subseteq Legs /\ \A k \in joined : leg'[k] = leg[k]
      BY <1>2, <1>4, <1>6 DEF DiagInv, JoinInv
    <3>2. returned \notin {"result", "degraded"}
      BY <1>6 DEF DiagInv, TrailInv, VerdictHasCause
    <3> QED
      BY <1>2, <3>1, <3>2 DEF DiagInv, TrailInv, VerdictHasCause
  <2>2. History' = History /\ VerdictOf(returned)' = VerdictOf(returned)
    BY <1>2 DEF History, VerdictOf
  <2>3. TrailMatchesReturn'
    BY <1>2, <2>2 DEF DiagInv, TrailInv, TrailMatchesReturn
  <2> QED
    BY <1>2, <2>1, <2>2, <2>3 DEF DiagInv, TrailInv
<1> QED
  BY <1>2, <1>5, <1>7, <1>8, <1>9, SameSession DEF DiagInv

(* It sends that to the caller.                                             *)
LEMMA LegSendsKeeps ==
  ASSUME DiagInv, NEW l \in Legs, LegSends(l)
  PROVE  DiagInv'
<1>1. /\ leg[l] # Asking /\ Len(results) < Capacity
      /\ results' = Append(results, l) /\ sent' = sent \cup {l}
      /\ UNCHANGED <<leg, done, sessionVars, query, inner, watcher, outer, callerVars, joined, main>>
  BY DEF LegSends, phoenixVars, sessionVars, callerVars
<1>2. JoinInv'
  <2>1. results \in Seq(Legs) /\ \A i \in 1 .. Len(results) : results[i] \in sent
    BY DEF DiagInv, JoinInv
  <2>2. /\ results' \in Seq(Legs) /\ Len(results') = Len(results) + 1 /\ Len(results) \in Nat
        /\ \A k \in 1 .. Len(results) : results'[k] = results[k]
        /\ results'[Len(results) + 1] = l
    BY <1>1, <2>1, AppendFacts
  <2>3. Len(results') =< Capacity
    BY <1>1, <2>2 DEF Capacity
  <2>4. \A i \in 1 .. Len(results') : results'[i] \in sent'
    BY <1>1, <2>1, <2>2
  <2> QED
    BY <1>1, <2>2, <2>3, <2>4 DEF DiagInv, JoinInv
<1>3. ChannelInv'
  BY <1>1 DEF DiagInv, ChannelInv
<1> QED
  BY <1>1, <1>2, <1>3, SameSession, SameLegs, SameTrail DEF DiagInv

(* A query and others that go on with the session. *)
LEMMA SessionStepKeeps ==
  ASSUME DiagInv, QueryStep \/ OtherQueries
  PROVE  DiagInv'
<1>1. /\ UNCHANGED <<legVars, inner, watcher, outer, done, callerVars>>
      /\ SessionInv'
      /\ query' = query \/ (query \notin {"off", "ended"} /\ query' \notin {"off", "ended"})
  BY QueryKeeps, OthersKeep DEF QueryStep, OtherQueries, DiagInv
<1>2. UNCHANGED <<leg, sent, results, joined, main>>
  BY <1>1 DEF legVars, callerVars
<1>3. ChannelInv'
  BY <1>1 DEF DiagInv, ChannelInv
<1> QED
  BY <1>1, <1>2, <1>3, SameLegs, SameJoin, SameTrail DEF DiagInv

(* The query puts its one answer in the inner channel.                      *)
LEMMA QueryAnswersKeeps ==
  ASSUME DiagInv, QueryAnswers
  PROVE  DiagInv'
<1>1. /\ query \in {"spans", "error"} /\ query' = "ended" /\ on' = 0 /\ failed' = 0
      /\ inner' = Append(inner, IF query = "spans" THEN "history" ELSE "empty_optional")
      /\ UNCHANGED <<leg, sent, results, status, session, mu, watcher, outer, done, callerVars, joined, main>>
  BY DEF QueryAnswers, legVars, callerVars
<1>2. SessionInv'
  BY <1>1 DEF DiagInv, SessionInv, NoStraySession, Phoenix!NoStraySession, Phoenix!SessionTypeOK
<1>3. ChannelInv'
  <2>1. inner = <<>>
    BY <1>1 DEF DiagInv, ChannelInv
  <2>2. inner' \in Seq({"history", "empty_optional"}) /\ Len(inner') =< 1
    BY <1>1, <2>1
  <2> QED
    BY <1>1, <2>2 DEF DiagInv, ChannelInv
<1> QED
  BY <1>1, <1>2, <1>3, SameLegs, SameJoin, SameTrail DEF DiagInv

(* The watcher moves it to the outer one, or gives up.                      *)
LEMMA WatchKeeps ==
  ASSUME DiagInv, Watch
  PROVE  DiagInv'
<1>1. /\ watcher = "waiting" /\ watcher' = "ended"
      /\ UNCHANGED <<leg, sent, results, sessionVars, query, done, callerVars, joined, main>>
  BY DEF Watch, legVars, sessionVars, callerVars
<1>2. /\ outer = <<>> /\ query # "off"
      /\ inner \in Seq({"history", "empty_optional"}) /\ Len(inner) =< 1
      /\ query # "ended" => inner = <<>>
  BY <1>1 DEF DiagInv, ChannelInv
<1>3. /\ inner' \in Seq({"history", "empty_optional"}) /\ Len(inner') =< 1
      /\ query # "ended" => inner' = <<>>
      /\ outer' \in Seq({"history", "empty_optional", "timeout"}) /\ Len(outer') =< 1
  <2>1. CASE inner # <<>> /\ outer' = Append(outer, Head(inner)) /\ inner' = Tail(inner)
    <3>1. Head(inner) \in {"history", "empty_optional"} /\ Tail(inner) \in Seq({"history", "empty_optional"})
          /\ Len(Tail(inner)) = Len(inner) - 1 /\ Len(inner) \in Nat
      BY <1>2, <2>1
    <3>2. outer' = <<Head(inner)>>
      BY <1>2, <2>1
    <3> QED
      BY <1>2, <2>1, <3>1, <3>2
  <2>2. CASE outer' = Append(outer, "timeout") /\ inner' = inner
    BY <1>2, <2>2
  <2> QED
    BY <2>1, <2>2 DEF Watch
<1>4. ChannelInv'
  BY <1>1, <1>2, <1>3 DEF DiagInv, ChannelInv
<1> QED
  BY <1>1, <1>4, SameSession, SameLegs, SameJoin, SameTrail DEF DiagInv

-----------------------------------------------------------------------------
(* The caller's steps.  It receives from a leg.                             *)
LEMMA JoinKeeps ==
  ASSUME DiagInv, Join
  PROVE  DiagInv'
<1>1. /\ main = "joining" /\ results # <<>>
      /\ joined' = joined \cup {Head(results)} /\ results' = Tail(results)
      /\ main' = IF Cardinality(joined') >= 2 THEN "judging" ELSE "joining"
      /\ UNCHANGED <<leg, sent, done, sessionVars, query, inner, watcher, outer, priors, returned, missed, ledger>>
  BY DEF Join, Awaited, phoenixVars, sessionVars
<1>2. /\ results \in Seq(Legs) /\ Len(results) =< Capacity /\ sent \subseteq Legs /\ joined \subseteq sent
      /\ \A i \in 1 .. Len(results) : results[i] \in sent
  BY DEF DiagInv, JoinInv
<1>3. /\ Head(results) = results[1] /\ 1 \in 1 .. Len(results)
      /\ results' \in Seq(Legs) /\ Len(results') = Len(results) - 1 /\ Len(results) \in Nat
      /\ \A i \in 1 .. Len(results') : results'[i] = results[i + 1] /\ i + 1 \in 1 .. Len(results)
  BY <1>1, <1>2
<1>4. joined' \subseteq sent
  BY <1>1, <1>2, <1>3
<1>5. (main' = "judging" => joined' = Legs) /\ (main' = "joining" => joined' # Legs)
  <2>1. Cardinality(joined') >= 2 <=> joined' = Legs
    BY <1>2, <1>4, BothLegs
  <2> QED
    BY <1>1, <2>1
<1>6. JoinInv'
  <2>1. Len(results') =< Capacity
    BY <1>2, <1>3 DEF Capacity
  <2>2. \A i \in 1 .. Len(results') : results'[i] \in sent'
    BY <1>1, <1>2, <1>3
  <2>3. main' \in {"joining", "judging"}
    BY <1>1
  <2> QED
    BY <1>1, <1>3, <1>4, <1>5, <2>1, <2>2, <2>3 DEF DiagInv, JoinInv
<1>7. ChannelInv'
  BY <1>1 DEF DiagInv, ChannelInv
<1>8. TrailInv'
  <2>1. returned = "none" /\ main' \in {"joining", "judging"}
    BY <1>1 DEF DiagInv, TrailInv
  <2> QED
    BY <1>1, <2>1 DEF DiagInv, TrailInv, VerdictHasCause, TrailMatchesReturn
<1> QED
  BY <1>1, <1>6, <1>7, <1>8, SameSession, SameLegs DEF DiagInv

(* Only the caller's place, its entries and what it attached change. *)
LEMMA CallerKeeps ==
  ASSUME DiagInv, UNCHANGED <<legVars, sessionVars, inner, watcher, done, joined>>,
         main' \in {"attaching", "concluding", "returned"},
         main' # "returned" => joined = Legs /\ \A l \in Legs : leg[l].answer # "error",
         outer' = outer \/ (outer # <<>> /\ outer' = Tail(outer)),
         TrailInv'
  PROVE  DiagInv'
<1>1. UNCHANGED <<leg, sent, results, query>>
  BY DEF legVars, sessionVars
<1>2. JoinInv'
  BY <1>1 DEF DiagInv, JoinInv
<1>3. outer' \in Seq({"history", "empty_optional", "timeout"}) /\ Len(outer') =< 1
      /\ (watcher # "ended" => outer' = <<>>)
  <2>1. /\ outer \in Seq({"history", "empty_optional", "timeout"}) /\ Len(outer) =< 1
        /\ (watcher # "ended" => outer = <<>>)
    BY DEF DiagInv, ChannelInv
  <2>2. CASE outer # <<>> /\ outer' = Tail(outer)
    <3>1. Tail(outer) \in Seq({"history", "empty_optional", "timeout"}) /\ Len(Tail(outer)) = Len(outer) - 1
          /\ Len(outer) \in Nat
      BY <2>1, <2>2
    <3>2. watcher = "ended"
      BY <2>1, <2>2
    <3>3. Len(Tail(outer)) =< 1
      BY <2>1, <3>1
    <3> QED
      BY <2>2, <3>1, <3>2, <3>3, Zenon
  <2> QED
    BY <2>1, <2>2
<1>4. ChannelInv'
  BY <1>1, <1>3 DEF DiagInv, ChannelInv
<1> QED
  BY <1>1, <1>2, <1>4, SameSession, SameLegs DEF DiagInv

(* What an append by the caller leaves in its ledger. *)
LEMMA NoteFacts ==
  ASSUME TrailInv, NEW a \in Entry1, Note(a)
  PROVE  /\ ledger' \in Seq(Entry1) /\ missed' \in BOOLEAN
         /\ ~missed' => ~missed /\ ledger' = Append(ledger, a)
<1>1. ledger \in Seq(Entry1) /\ missed \in BOOLEAN
  BY DEF TrailInv
<1>2. Append(ledger, a) \in Seq(Entry1)
  BY <1>1, AppendFacts
<1> QED
  BY <1>1, <1>2 DEF Note

(* The diagnosis fails before anything was noted. *)
LEMMA FailKeeps ==
  ASSUME DiagInv, main \in {"joining", "judging"}, Return("DIAGNOSIS_FAILED", "error"),
         UNCHANGED <<legVars, phoenixVars, done>>,
         (\E l \in joined : leg[l].answer = "error") \/ ("fanout" \in done /\ joined # Legs)
  PROVE  DiagInv'
<1>1. /\ main' = "returned" /\ returned' = "error"
      /\ UNCHANGED <<leg, legVars, sessionVars, query, inner, watcher, outer, done, joined, priors>>
      /\ ledger = <<>>
  BY DEF Return, legVars, phoenixVars, sessionVars, DiagInv, TrailInv
<1>2. /\ ledger' \in Seq(Entry1) /\ missed' \in BOOLEAN
      /\ ~missed' => ~missed /\ ledger' = Append(ledger, "DIAGNOSIS_FAILED")
  BY NoteFacts DEF Return, DiagInv, Entry1
<1>3. Append(<<>>, "DIAGNOSIS_FAILED") = <<"DIAGNOSIS_FAILED">>
  OBVIOUS
<1>4. VerdictHasCause'
  BY <1>1 DEF VerdictHasCause
<1>5. TrailMatchesReturn'
  BY <1>1, <1>2, <1>3 DEF TrailMatchesReturn, VerdictOf
<1>6. TrailInv'
  BY <1>1, <1>2, <1>4, <1>5 DEF DiagInv, TrailInv
<1> QED
  BY <1>1, <1>6, CallerKeeps

(* With both legs received and neither in error the caller goes on. *)
LEMMA JudgeKeeps ==
  ASSUME DiagInv, Judge
  PROVE  DiagInv'
<1>1. main = "judging" /\ joined = Legs
  BY DEF Judge, DiagInv, JoinInv
<1>2. HardFailed <=> \E l \in Legs : leg[l].answer = "error"
  BY <1>1 DEF HardFailed, Received
<1>3. CASE HardFailed
  BY <1>1, <1>2, <1>3, FailKeeps DEF Judge
<1>4. CASE ~HardFailed
  <2>1. /\ main' = "attaching" /\ UNCHANGED <<joined, priors, returned, missed, ledger>>
        /\ UNCHANGED <<leg, legVars, sessionVars, query, inner, watcher, outer, done>>
    BY <1>4 DEF Judge, legVars, phoenixVars, sessionVars
  <2>2. returned = "none" /\ ledger = <<>>
    BY <1>1 DEF DiagInv, TrailInv
  <2>3. TrailInv'
    BY <2>1, <2>2 DEF DiagInv, TrailInv, VerdictHasCause, TrailMatchesReturn
  <2> QED
    BY <1>1, <1>2, <1>4, <2>1, <2>3, CallerKeeps
<1> QED
  BY <1>3, <1>4

(* Without Phoenix there is nothing to attach.                              *)
LEMMA AttachNothingKeeps ==
  ASSUME DiagInv, AttachNothing
  PROVE  DiagInv'
<1>1. /\ main = "attaching" /\ main' = "concluding" /\ query = "off"
      /\ UNCHANGED <<joined, priors, returned, missed, ledger>>
      /\ UNCHANGED <<leg, legVars, sessionVars, query, inner, watcher, outer, done>>
  BY DEF AttachNothing, legVars, phoenixVars, sessionVars
<1>2. returned = "none" /\ ledger = <<>> /\ joined = Legs /\ \A l \in Legs : leg[l].answer # "error"
  BY <1>1 DEF DiagInv, TrailInv, JoinInv
<1>3. TrailInv'
  BY <1>1, <1>2 DEF DiagInv, TrailInv, VerdictHasCause, TrailMatchesReturn
<1> QED
  BY <1>1, <1>2, <1>3, CallerKeeps

(* Prior repairs are attached and noted, or none are. *)
LEMMA AttachKeeps ==
  ASSUME DiagInv, main = "attaching", query # "off", NEW mode, Attach(mode),
         outer' = outer \/ (outer # <<>> /\ outer' = Tail(outer))
  PROVE  DiagInv'
<1> DEFINE a == IF mode = "history" THEN "PHOENIX_HISTORY_OK" ELSE "PHOENIX_HISTORY_DEGRADED"
<1>1. /\ main' = "concluding" /\ priors' = (mode = "history") /\ Note(a)
      /\ UNCHANGED <<leg, legVars, sessionVars, query, inner, watcher, done, joined, returned>>
  BY DEF Attach, legVars, sessionVars
<1>2. returned = "none" /\ ledger = <<>> /\ joined = Legs /\ \A l \in Legs : leg[l].answer # "error"
  BY DEF DiagInv, TrailInv, JoinInv
<1>3. a \in Entry1 /\ History' = a
  BY <1>1 DEF Entry1, History
<1> HIDE DEF a
<1>4. /\ ledger' \in Seq(Entry1) /\ missed' \in BOOLEAN
      /\ ~missed' => ~missed /\ ledger' = Append(ledger, a)
  BY <1>1, <1>3, NoteFacts DEF DiagInv
<1>5. Append(<<>>, a) = <<a>>
  OBVIOUS
<1>6. priors' \in BOOLEAN
  BY <1>1
<1>7. TrailInv'
  BY <1>1, <1>2, <1>3, <1>4, <1>5, <1>6 DEF TrailInv, VerdictHasCause, TrailMatchesReturn
<1> QED
  BY <1>1, <1>2, <1>7, CallerKeeps

(* The verdict is noted after what was noted of Phoenix.                    *)
LEMMA ConcludeKeeps ==
  ASSUME DiagInv, Conclude
  PROVE  DiagInv'
<1> DEFINE value == IF Degraded THEN "degraded" ELSE "result"
           a == VerdictOf(value)
<1>1. /\ main = "concluding" /\ main' = "returned" /\ returned' = value /\ Note(a)
      /\ UNCHANGED <<leg, legVars, sessionVars, query, inner, watcher, outer, done, joined, priors>>
  BY DEF Conclude, Return, VerdictOf, legVars, phoenixVars, sessionVars
<1>2. /\ joined = Legs /\ \A l \in Legs : leg[l].answer # "error"
      /\ ~missed => ledger = IF query = "off" THEN <<>> ELSE <<History>>
  BY <1>1 DEF DiagInv, TrailInv, JoinInv
<1>3. value \in {"result", "degraded"} /\ a \in Entry1 /\ History \in Entry1
  BY DEF VerdictOf, Entry1, History
<1>4. value = "result" <=> leg["dynatrace"].answer # "outage"
  BY <1>2 DEF Degraded, Received, Legs
<1> HIDE DEF value
<1>5. VerdictOf(returned)' = a
  BY <1>1 DEF VerdictOf
<1>6. History' = History
  BY <1>1 DEF History
<1> HIDE DEF a
<1>7. /\ ledger' \in Seq(Entry1) /\ missed' \in BOOLEAN
      /\ ~missed' => ~missed /\ ledger' = Append(ledger, a)
  BY <1>1, <1>3, NoteFacts DEF DiagInv
<1>8. Append(<<>>, a) = <<a>>
  OBVIOUS
<1>9. Append(<<History>>, a) = <<History, a>>
  BY <1>3, AppendPair
<1>10. VerdictHasCause'
  <2>1. \A l \in Legs : leg[l].answer # "asking"
    <3>1. \A l \in Legs : leg[l] # Asking
      BY <1>2 DEF DiagInv, JoinInv
    <3> QED
      BY <3>1 DEF DiagInv, LegInv
  <2>2. "elastic" \in Legs /\ "dynatrace" \in Legs
    BY DEF Legs
  <2>3. /\ leg["elastic"].answer = "contract"
        /\ leg["elastic"].entry \in {"ELASTIC_LOOKUP_OK", "ELASTIC_LOOKUP_DEGRADED"}
    BY <1>2, <2>1, <2>2 DEF DiagInv, LegInv
  <2>4. leg["dynatrace"].answer = "outage" \/ leg["dynatrace"] = Outcome("health", "DYNATRACE_DQL_OK")
    BY <1>2, <2>1, <2>2 DEF DiagInv, LegInv
  <2>5. Outcome("health", "DYNATRACE_DQL_OK").answer # "outage"
    BY DEF Outcome
  <2> QED
    BY <1>1, <1>2, <1>3, <1>4, <2>3, <2>4 DEF VerdictHasCause
<1>11. TrailMatchesReturn'
  <2>1. ASSUME ~missed'
        PROVE  ledger' = IF query = "off" THEN <<a>> ELSE <<History, a>>
    BY <1>2, <1>7, <1>8, <1>9, <2>1
  <2>2. returned' # "error"
    BY <1>1, <1>3
  <2> QED
    BY <1>1, <1>5, <1>6, <2>1, <2>2 DEF TrailMatchesReturn
<1>12. TrailInv'
  BY <1>1, <1>3, <1>7, <1>10, <1>11 DEF DiagInv, TrailInv
<1> QED
  BY <1>1, <1>12, CallerKeeps

(* Every step keeps the invariant. *)
LEMMA DiagNext == DiagInv /\ [Next]_vars => DiagInv'
<1> SUFFICES ASSUME DiagInv, [Next]_vars PROVE DiagInv'
  OBVIOUS
<1>1. CASE CallerStep
  <2>1. CASE TimeOut
    <3>1. main = "joining" /\ joined # Legs
      BY <2>1 DEF TimeOut, DiagInv, JoinInv
    <3> QED
      BY <2>1, <3>1, FailKeeps DEF TimeOut
  <2>2. CASE AttachAnswer
    <3>1. outer # <<>> /\ main = "attaching"
      BY <2>2 DEF AttachAnswer
    <3>2. query # "off"
      BY <3>1 DEF DiagInv, ChannelInv
    <3> QED
      BY <2>2, <3>1, <3>2, AttachKeeps DEF AttachAnswer
  <2>3. CASE AttachGivesUp
    BY <2>3, AttachKeeps DEF AttachGivesUp
  <2> QED
    BY <1>1, <2>1, <2>2, <2>3, JoinKeeps, JudgeKeeps, AttachNothingKeeps, ConcludeKeeps DEF CallerStep
<1>2. CASE UNCHANGED vars
  <2>1. UNCHANGED <<leg, sent, results, sessionVars, query, inner, watcher, outer, joined, main, callerVars, done>>
    BY <1>2 DEF vars, legVars, phoenixVars, sessionVars, callerVars
  <2>2. ChannelInv'
    BY <2>1 DEF DiagInv, ChannelInv
  <2> QED
    BY <2>1, <2>2, SameSession, SameLegs, SameJoin, SameTrail DEF DiagInv
<1> QED
  BY <1>1, <1>2, ExpireKeeps, LegAnswersKeeps, LegSendsKeeps, SessionStepKeeps, QueryAnswersKeeps, WatchKeeps
  DEF Next

(* The invariant holds of every state the engine reaches.                   *)
LEMMA DiagAlways == Spec => []DiagInv
BY DiagInit, DiagNext, PTL DEF Spec

-----------------------------------------------------------------------------
(* The engine and the Phoenix client keep to their types. *)
THEOREM DiagnoseTypeCorrect == Spec => []TypeOK
<1>1. DiagInv => TypeOK
  BY DEF DiagInv, SessionInv, LegInv, JoinInv, ChannelInv, TrailInv, Entry1, TypeOK
<1> QED
  BY <1>1, DiagAlways, PTL

(* Engine.Diagnose, diagnose/engine.go: a diagnosis rests on a contract     *)
(* that was received and recorded, claims health only if that was too; an   *)
(* error was received from a leg or is the deadline's, and no failure of    *)
(* Phoenix costs a diagnosis.                                               *)
THEOREM DiagnosisHasCause == Spec => []VerdictHasCause
<1>1. DiagInv => VerdictHasCause
  BY DEF DiagInv, TrailInv
<1> QED
  BY <1>1, DiagAlways, PTL

(* The ledger of a diagnosis that lost no append ends with its verdict.     *)
THEOREM TrailEndsInVerdict == Spec => []TrailMatchesReturn
<1>1. DiagInv => TrailMatchesReturn
  BY DEF DiagInv, TrailInv
<1> QED
  BY <1>1, DiagAlways, PTL

(* stdioClient, phoenix/client.go: whoever dials, fails and resets, a       *)
(* session that was not closed is the client's.                             *)
THEOREM NoSubprocessIsLost == Spec => []NoStraySession
<1>1. DiagInv => NoStraySession
  BY DEF DiagInv, SessionInv
<1> QED
  BY <1>1, DiagAlways, PTL

(* QuerySpans, phoenix/client.go: the second call is on another session.    *)
THEOREM SecondCallElsewhere == Spec => []RetryUsesAnother
<1>1. DiagInv => RetryUsesAnother
  BY DEF DiagInv, SessionInv, RetryUsesAnother, Phoenix!RetryUsesAnother
<1> QED
  BY <1>1, DiagAlways, PTL
=============================================================================
