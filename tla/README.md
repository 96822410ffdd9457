# Kineticz in TLA+

Kineticz is a Go service that receives Fivetran webhooks, diagnoses a schema
failure, has Gemini write a patch, gates it and opens a GitLab merge request,
and records every step in a hash-chained, signed ledger in MongoDB. This
directory holds TLA+ models of that code, the TLC configurations that check
them on small instances, and proofs, checked by TLAPS, of what matters most
for every instance. Line numbers are those of the repository's files.

    tlc -config LedgerShared.cfg MCAuditLedger     # one of the runs below
    tlapm AuditLedgerProofs.tla                    # one of the proof modules

PROJECT.json lists the components, the runs, the hazards, the definitions with
the source lines they stand for, one mutation per checked property that a run
must notice, and the theorems.

## 1. The system

| component | source | state | operations |
|---|---|---|---|
| ledger writer | `internal/audit/mongodb` | the collection, `Writer.mu`, open transactions | `Append*`, `LoadHead` |
| chain verification | `internal/audit/audit.go`, `runVerify` | a cursor and the last hash | `Chain`, `Verify`, `VerifyChain`, `ReadAllEntries` |
| webhook receiver | `internal/fivetran` | one handler per request, one goroutine per pipeline | `ServeHTTP`, `spawnPipeline` |
| orchestration | `cmd/kineticz/main.go` | the stage a pipeline is in, its context | `runPipeline`, `run` (SIGTERM, `Shutdown`) |
| diagnosis | `internal/engine/diagnose` | two or four goroutines, three channels, three deadlines | `Diagnose`, `launchPhoenix`, `attachPhoenix` |
| repair | `internal/repair` | iteration, `emptyCount`, feedback | `Repair`, `validateDiff` |
| evaluation gate | `internal/evaluate` | the set of rejected diffs, the goroutines that index | `Evaluate`, `RunLocal`, `indexRejected` |
| commit | `internal/commit` | none between calls | `ApplyAndOpenMR`, `ApplyDiff` |
| GitLab client | `internal/gitlab`, `internal/httputil` | attempts of a call | `CreateCommit`, `CreateMR`, `GetFileContent`, `Do` |
| Phoenix client | `internal/phoenix` | one session all queries share, its mutex | `QuerySpans`, `ensure`, `reset`, `Close` |
| other clients | `elastic`, `dynatrace`, `gemini` | none | `LookupContract`, `QueryConsumerHealth`, `Generate` |
| tokens, tracing, schemas | `corr`, `arize`, `engine/mcp` | a counter | |

A request goes receiver -> ledger (the receipt, whose event id is unique) ->
a detached goroutine under a five-minute context -> diagnosis -> repair ->
gate -> commit. Each stage appends to the ledger through `audit.Writer` and
drops the error of the append. Stages talk only by calls and return values;
what they share is the ledger, its mutex, the gate's set and the Phoenix session.
Up to ten instances (`service.yaml`) share the collection and nothing else.

What is hard:

* Ledger: writers in several processes, retried transactions, commits whose
  acknowledgement is lost, crashes, and an order that rests on timestamps.
* Receiver: redelivery at any time, also across a restart; a receipt written
  before the pipeline exists; pipelines that die with the process.
* Pipeline: a deadline that also ends the context the outcome is recorded on.
* Diagnosis: answers, deadlines and late goroutines in any order.
* Repair: reasons that count and reasons that reset, a file that others edit,
  hunks whose line numbers mean nothing.
* Gate: pipelines that race with one diff, and an indexing that outlives them.
* Phoenix: one session that every query may find dead, close and dial again.
* Commit: POST requests repeated without knowing whether the first one worked,
  and a base that moves.

What makes each correct is stated in section 3, property by property.

## 2. The modules

**AuditLedger** (checked through `MCAuditLedger`, proved in `AuditLedgerProofs`).
`ledger` is the set of committed documents; each appender is a goroutine with a
program counter inside `appendInternal`: it waits for `mu`, reads the newest
entry in its snapshot, builds an entry linked to it, inserts it, and the
transaction commits, is retried or fails; the acknowledgement may be lost.
`Latest` is any entry with the greatest timestamp, so ties come in any order,
as MongoDB gives no other guarantee. An entry's `Hash` is the injective image
of the fields `CanonicalBytes` covers: its predecessor, its bytes (told apart
by the event only, the worst case) and its timestamp, neither its id nor its
token. `LoadHead`/`CheckHead` are the two reads of start-up. `Crash` kills an
instance and aborts its transactions. `AuditLog` is the abstract specification:
one append-only sequence, each entry later than the one before it and linked to
it, each event once. `Log`, the ledger in timestamp order, is the mapping.

**ChainWalk** (`MCChainWalk`, `ChainWalkProofs`). Documents written by
`audit.Chain`, then altered, re-signed, reordered, removed or stored twice;
then the walk of `VerifyChain`, one entry a step, while the writer goes on.

**Webhook** (`WebhookProofs`). Deliveries, the handler's steps, and per delivery the stage its
pipeline is in; the process drains, dies and starts. An append is atomic here,
which is what AuditLedger shows of it, but may fail, and on an expired context
must fail. The stages are single steps that pass or fail; Diagnose, Repair and
Commit are what they look like inside.

**Diagnose** (`DiagnoseProofs`). The two legs, the Phoenix query and its watcher are processes; the
three channels are sequences with their capacities; a context is done or not.
A leg may answer at any time or never.

**Clients** has, as functions, what the Elastic, Dynatrace and Gemini clients make
of the way a request ended and of whether their own ledger entry was appended:
what the caller gets and what the ledger holds. Diagnose's legs and Repair's
call of Gemini take their answers from it. What `httputil.Do` does to get a
reply is in Commit; here a reply is a body, an error status, spent retries or
another error.

**PhoenixSession** is the shared MCP session as one query sees it: `Ensure` takes the
mutex and keeps it while it dials, a transport failure takes it again to close
whatever session the client has by then. The other queries and `Close` take the
mutex for single steps. `status` has a state per subprocess. Diagnose instantiates
it with the Phoenix budget as the query's context.

**Repair** (`MCRepair`, `RepairProofs`). One iteration is a read with its prompt, the return of
`Generate` with Gemini's entry, and a verdict. `fresh` is a history variable: the
contents of the file since the last verdict.

**Patch** is `commit.ApplyDiff` on lines. `lineMatches` gives the places where a
hunk's old side stands, comparing bytes as the code does: a block that ends
without its newline also matches a longer line, which is what the relation
`Begins` between texts says. `reanchorFragments` demands one place per hunk, in
order, and the library's applier compares once more. `ChangedAtTheOnlyPlace` is
the reference definition, without positions: the file falls into kept pieces and
old sides, the patched file into the same pieces and new sides, and no old side
stands anywhere else.

**Gate** (`MCGate`) and **LocalCheck**. Concurrent calls of `Evaluate`: load, local
check, `LoadOrStore`, entry, return, and the goroutine that indexes. A file is a
list of functions with parameter and result fields; `RunLocal` gives the set of
reasons it may name, as the order of a Go map decides among several. A restart
empties the set of rejected diffs and leaves the ledger. `GateProofs` and
`LocalCheckProofs` hold the theorems.

**Commit** (`MCCommit`, `CommitProofs`). Pipelines from their read of the file to the end of
`ApplyAndOpenMR`. A call is a wire state: sent, then dropped, refused, or
carried out with its answer delivered, garbled or lost. GitLab is external: a
push cuts the branch if there is none and replaces the file, a second merge
request for a branch is refused, and anything may be refused, so a GitLab that
refuses a repeated push is one of the behaviours. `head` counts edits on the
target branch. A branch is named after the token, or `auto-patch` without one;
the receiver always mints a token, so the runs give every job its own, and the
proofs allow for one job without.

How they compose: Webhook's pipeline stages and its ledger stand for the other
modules, with the interface named above. Diagnose is composed with PhoenixSession
and Clients, Repair with Patch and Clients, Gate with LocalCheck. All of them and
Commit use the same rule for an append (`Note`): it fails when the context is
done and may fail otherwise.

## 3. What the runs check

| run | module, configuration | what it shows |
|---|---|---|
| ledger_shared | MCAuditLedger, LedgerShared.cfg | two instances, unsteady clocks: `OneTxnPerInstance`, `PredecessorRecorded` (no link to a rolled-back entry), `OneEntryPerEvent`, `OneEntryPerCall`, `AnswersAreRecorded` |
| ledger_single | MCAuditLedger, LedgerSingle.cfg | one instance, advancing clock: `LinearChain`, `NeverRefused`, the refinement `ImplementsLog`, `EveryCallReturns` |
| chain_walk | MCChainWalk, ChainWalk.cfg | `WalkedIsWritten`: what passes is an unaltered beginning of what was written, whatever was damaged; `UndamagedAccepted` |
| webhook | Webhook, Webhook.cfg | `OnePipelinePerEvent`, `AnswersAreTrue`, `OneOutcome`, `MergeRequestsAreGated`, `EverythingEnds` |
| commit | MCCommit, Commit.cfg | `DoneWasDone`, `ReviewedIsApproved`, `TrailIsDocumented`, `NothingSentLate` (of one call: no attempt past the deadline, none but the first unless the last one failed, `MaxRetries` at most), `EveryJobReturns` |
| repair | MCRepair, Repair.cfg | `ApprovedAsPrompted` (what is approved is the prompted file, changed at the only places the hunks fit, from an answer the ledger has), `PromptIsFresh`, `TrailTellsTheLoop`, `StopsAfterTwo`, `RepairReturns` |
| diagnose | Diagnose, Diagnose.cfg | `VerdictHasCause` (a result rests on received and recorded answers, an error on one received from a leg or on the deadline with an answer missing, never on Phoenix), `TrailMatchesReturn`, `NoStraySession`, `RetryUsesAnother`, `DiagnoseEnds` |
| gate | MCGate, Gate.cfg | `VerdictHasCause` (also of a deduplicated verdict), `RejectedOnce` (noted once, indexed once, and noted first), `EvaluationsSettle` |

Four more runs check a sentence of the documentation or of a comment that the
code does not keep; TLC's counterexample is the finding:

* ledger_fork: two instances read one head and both commit (README.md:123-125).
  Snapshot transactions that insert different documents do not conflict.
* ledger_ties: two entries share a millisecond below the head, and start-up
  refuses an untouched ledger (writer.go:74-77, main.go:498-500).
* commit_stale: the branch is cut from a newer file than the one patched
  (gitlab/client.go:21-23).
* diagnose_soft: Dynatrace is silent until the fan-out's deadline, which is an
  error whichever leg is missing, though the contract is in hand and the pipeline
  has time left (README.md:57-58 and program.md:55-56 call Dynatrace's failures
  soft fails).

Dynatrace costs a diagnosis in two more ways, which break `OnlyElasticIsFatal` as
well: an answer that does not decode, and a `DYNATRACE_DQL_OK` that cannot be
appended. For these the comment on `Engine` (engine.go:83-87) and a test
(engine_test.go:60-62, "must stay fatal") say what the code does: only an outage is
soft. `VerdictHasCause` states that policy, so a diagnosis that passes it may well
have failed for Dynatrace alone.

One more disagreement is a theorem and needs no run: that exported signatures
"must remain unchanged" (evaluate/local.go:36-37) does not hold of named results,
see `SignaturesMayChange` in section 4.

Three limits of the code are left in the models and are no findings of their
own: the outcome of a pipeline that ran into its deadline is appended on the
expired context and lost (`OneOutcome` is about pipelines none of whose appends
failed); `COMMIT_FAILED` does not say that nothing was pushed (`DoneWasDone` is
about success entries); a contract that was found but whose entry could not be
appended fails the diagnosis, though "Only the contract fetch above is fatal"
(elastic/client.go:99-100): `VerdictHasCause` has it as an error of the leg, as the
engine is told no more than that.

### Bounds

* LedgerShared: three appenders in two instances, one call each, two runs of the
  callback, clock steps of -1 and 1 ms (so 0 between instances). Two in one
  instance give the mutex something to do, the third races them across. The two
  appenders of one instance are interchangeable, which is the symmetry used.
* LedgerSingle: two appenders, two calls each: up to four entries, enough for a
  head, its predecessor and two pending calls. Crashes are unlimited.
* ChainWalk: three entries and two damages: a first, an inner and a last
  position, and pairs of damages that could cancel out.
* Webhook: three deliveries of two events, one that triggers repair and one that
  does not, two starts: two deliveries race, the third comes after a restart.
* Commit: two jobs, two attempts a call, one edit. The client's three attempts
  differ from two only in how often a lost answer repeats.
* Repair: three iterations of the default four: a fruitless pair after a
  fruitful iteration and the reverse both fit. One edit at any point; three
  contents and eleven diffs, among them hunks with two places, hunks that overlap
  or stand in the wrong order, and one that fits a longer line by its beginning.
* Diagnose: one diagnosis, with every reply of every request. Three session
  numbers, which are used again: one the query is on, one it failed on, and the
  one the client has. The violation run needs one, and no fault of the store.
* Gate: three calls and two starts: two that race and one that comes late or after
  a restart; four changes, two for each of two diffs, one of them harmless.

### Fairness

* AuditLedger: a call that holds `mu` goes on (every driver call ends), and a
  waiting one gets `mu` infinitely often available in the end: Go's mutex in
  starvation mode hands itself to the longest waiter; hence SF on `Lock`. Without
  the crash of its instance a call therefore returns.
* Webhook: the steps of a handler and of a pipeline are taken: each remote call
  ends with its context. Deliveries, panics, signals and crashes are not fair.
* Commit: the client's steps and the timer of the context are; GitLab's answers
  are not, so `EveryJobReturns` rests on the deadline alone.
* Repair: the loop's step: each call in it ends with the context.
* Diagnose: runnable goroutines run, the two timers of the engine fire. The
  services need not answer, and the pipeline's own deadline need not pass.
* Gate: the steps of a call and the indexing goroutine run; contexts need not end.

Deadlock is not checked where a system comes to its end: a pipeline, a loop, a
diagnosis that returned, a walk that finished. The ledger runs do check it.

## 4. What is proved

`AuditLedgerProofs`: for every set of instances, appenders and events and any
bound on calls and retries,

* `TypeCorrect`, `MutualExclusion`, `LinksRecorded`, `EventOnce`, `CallOnce` and
  `AnswersHold`, for arbitrary clocks;
* `ChainStaysLinear`, `RestartAccepted`, `SoleInstanceNeverForks`, the refinement
  `LedgerImplementsLog` and `LedgerCanBeWalked` for one instance whose clock
  advances from append to append.

Mutual exclusion is not inductive by itself: the invariant says that an appender
inside a transaction holds its instance's mutex, and that `Return`, `Crash` and
nothing else give it up. `LinksRecorded` needs that what a transaction read is in
the ledger and stays there, which is `LedgerGrows`. `CallOnce` needs that an
uncommitted document carries the number of the current call and that no stored
entry of an earlier state does. `EventOnce` needs the unique index in both its
halves: no stored entry and no other open insert has the event of an inserted
document. `ChainStaysLinear` adds that no stored timestamp exceeds the clock and
that what the only open transaction read is still the newest entry, which is
where the mutex, one instance and the advancing clock enter; dropping either
assumption is what the runs ledger_fork and ledger_ties refute.

The refinement adds `LogOK`: the ledger is finite, `Log` is a sequence of its
entries, and no entry is later than its last. A commit is later than every stored
entry, so it leaves their ranks alone and `Log` grows by `Append` (`LogAppends`); it
links to what the only open transaction read, which is the last entry of `Log`, and
the unique index keeps its event new (`CommitRecords`). Every other step leaves
the ledger, and with it the log, unchanged. `LedgerCanBeWalked` follows from the
abstract log: read oldest-first, the entries link and their timestamps grow. This is
the assumption of `ChainWalkProofs`, so the two components fit.

`ChainWalkProofs`: `VerifiedPrefix` and `HealthyAccepted`, for any number of
entries and of damages, under the assumption that timestamps grow from entry to
entry. The invariant is that an entry's hash determines its position in what the
service wrote, that the service's signature stands only under hashes it computed,
and that each walked entry carries the hash of the one before it. For the second
theorem, that with no damage the unread slots are exactly those after the walked
ones, so the oldest unread entry is the next.

`WebhookProofs`: `WebTypeCorrect`, `SinglePipeline`, `TrueAnswers`,
`GatedMergeRequests` and `SingleOutcome`, for any number of events, deliveries and starts of the
process, with failing appends and crashes anywhere. The invariant `WebInv` says
that a recorded handler and a started pipeline each stand for a receipt their own
delivery wrote and that an event has one receipt; two pipelines of one event
would both have written it. It says further that a pipeline has reached the
commit only with an ALLOW and writes its completion only after the commit, and
never returns to the gate. A crash keeps it because it takes handlers and
pipelines away and leaves the ledger alone. `SingleOutcome` adds `Ends`: who noted
an outcome has left its stages for good, so it notes no second one; its event has a
receipt earlier in the ledger, the one both pipelines of an event would have written;
and a pipeline that ended noted something or had an append fail.

`LocalCheckProofs`: `AllowedKeepsParameters`, for files of any size: a patched file
the local check has nothing against parses and has every exported function of the
original with the same parameter types. It rests on `SigOfKey`, that the map holds
the signature of a function with that key, and on the assumption that the original
declares an exported function once, which a file that compiles does.
`SignaturesMayChange` proves that parameters is as far as it goes: for any type and
any two numbers, a patch that changes how many named results of the type an exported
function returns passes, since `renderFuncSig` writes a result field's type once.
(Type parameters, which it does not write at all, may change for the same reason.)

`GateProofs`: `GateTypeCorrect`, `OneRejection` and `VerdictsHaveCause`, for any
number of calls, changes and starts. `RejectedOnce` needs that the set holds the
diff of every call past `LoadOrStore` in this run and that one call per diff and
run got there (`Owners`), and that only such a call, once returned, stands behind
an entry or a handover (`Trail`). `VerdictHasCause` needs `Causes`: every diff in
the set has a call of this run that the local check rejected, and such a call
stays where a later reader finds it, blocked or lost with the process.

`CommitProofs`: `CommitTypeCorrect`, `EntriesAreTrue`, `OwnContentOnly`,
`DocumentedTrail` and `AttemptsAreBounded`, for any number of jobs, edits and attempts.
The invariant speaks of one job at a time (`JobInv`): a job that still reads has
pushed nothing, one past its push has its content on its branch and nothing else is
there, a usable answer stands for an effect, and an idle wire has an attempt left. A
step of one job leaves the others' part alone (`Frame`), because tokens, and with
them branches, differ (`TokenAssumption`). A lost answer keeps the invariant, since
the effect it reported stays; a repeated push adds the same content. For
`AttemptsAreBounded` each step of the client either moves the wire within its call,
back to idle only from a failed attempt, or ends the call and takes the job to its
next step, which is the only way the count starts anew.

`DiagnoseProofs`: `DiagnoseTypeCorrect`, `DiagnosisHasCause`, `TrailEndsInVerdict`,
`NoSubprocessIsLost` and `SecondCallElsewhere`, for any set of session numbers. The
invariant has five parts: the mutex is held exactly while the query dials or closes,
nobody else opens a session meanwhile, and once a call failed the client's
session is another before the query calls again (`SessionInv`); a leg's contract and
health are recorded (`LegInv`); the caller goes on past the join only with both legs,
past the judgement only without an error, and while it joins an answer is missing,
so the deadline's error has its cause (`JoinInv`); the inner channel fills once
the query ended and the outer one once the watcher did, with one answer each
(`ChannelInv`); and the ledger is empty until a Phoenix answer is attached, then holds
that entry alone until the verdict (`TrailInv`).

`RepairProofs`: `RepairTypeCorrect`, `PromptsAreFresh`, `ApprovedFromItsPrompt`,
`LedgerTellsTheLoop` and `GivesUpAfterTwo`, for any contents, diffs, edits and
iterations. The last two rest on `TrailInv`, which holds while no append failed: the
verdicts are an attempt and a rejection for each iteration behind the loop
(`RoundsTold`), Gemini's entry and the answer agree wherever they meet
(`AnswersTold`), the feedback is the last reason the ledger gives (`LastTold`,
`FeedbackTold`), and `emptyCount` is how many fruitless iterations end it
(`FruitCounted`). A ledger that grows by one entry has the same verdicts, or the same
and that entry (`VerdictsGrow`), so each step is a case of `NoteAppends`.

What `ApplyDiff` does to a file of any length with any number of hunks is
`RewriteInPlace`: with old sides that stand where they are anchored, in order and
without overlap, the lines between the hunks, joined to the old sides, are the file,
and joined to the new sides what is returned. It rests on `CutAndJoined`: a sequence
cut into any number of pieces is the pieces joined. What the community module's
`FlattenSeq` joins is proved by induction over the pieces (`JoinsExist`,
`JoinsAgree`, `FlattenType`). As the library's induction theorems cannot be used
here, `Induct` takes the induction from a minimal counterexample: the set of the
numbers that fail, if it is not empty, has a least element (`WFMin`). A definition by
`SelectSeq` cannot be expanded in a proof, so what is proved about is written with
`FlattenSeq`.

The assumptions on the constants are those the modules name; SHA-256 is
injective and a signature cannot be made without the key, by construction.

Only model-checked: the liveness properties `EveryCallReturns`, `EverythingEnds`,
`EveryJobReturns`, `RepairReturns`, `DiagnoseEnds` and `EvaluationsSettle`, as temporal
reasoning with fairness is beyond the prover's reach. Every other property of the
runs that hold is also a theorem.

## 5. Not modelled

* What the standard library and gitdiff do: parsing Go and diffs, printing types.
  The models start from what is parsed.
* Requests and their data: query building, prompts, thoughts, `classifyVectorError`'s
  wording, the retrieval window of Phoenix spans. `IngestBizevent` and `HasEntry`
  have no caller in the program.
* Configuration and wiring, `/health`, `/audit/pubkey` and the key upsert: sequential
  start-up I/O without state of its own; the start-up check is in AuditLedger.
* Tracing, MCP schemas, scripts.

## 6. Plan

Done: the ledger and its verification, the receiver and the pipeline, and every
stage with its loops, deadlines, retries and clients; every safety property the
runs check, and the refinement of the ledger, as theorems. Next:

* `Pipeline`: the stage modules composed, as a refinement of Webhook's stages.
