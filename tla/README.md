# A verification project for the telecom voice agent

The repository is a voice agent for a telecom operator's customer line: a LiveKit
agent worker that talks to the caller, the services that decide and carry out what
it may do, and the stores that keep a record of it. This directory holds TLA+
models of the parts whose correctness depends on order, failure or concurrency,
TLC configurations that check them on small instances, and TLAPS proofs about them
for instances of any size.

`PROJECT.json` lists, for every definition of a model, the source lines it stands
for; for every property, a mutant of the code that breaks it; and the hazards of
the code, each at its line.

## 1. The system and its parts

| part | state it keeps | operations | what makes it correct |
|---|---|---|---|
| audit ledger (`packages/audit-trail`) | one hash chain in Postgres, serialized by an advisory lock | `append`, inside the caller's transaction; `verify` | one chain, no fork, append-only in `seq` order; an edit is noticed |
| policy-service | `policy.policy_verdicts` | `POST /evaluate`: judge a context, store the verdict, audit it | the rules authorize exactly what no rule objects to; a verdict and its audit entry are one |
| execution-service | `execution.action_ledger`, the legacy systems behind its adapters | `POST /execute`: look up the key, insert, dispatch, audit, project, commit | one reference per idempotency key; nothing executed before its verdict; nothing audited that was undone |
| decision-service | none | a confidence for a candidate action | - |
| agent worker, sensitive tools | `SessionUserData`: identity, attempts, mood, idempotency keys | identity gate, caller's confirmation, decision, policy, execution, each over HTTP with a timeout | nothing takes effect that the rules forbid, whatever fails or comes late |
| agent worker, conversation writer | an asyncio queue, a task, a thread | `record_*`, `finish_session`, `aclose` | the call's record is complete or says what it lost; the shutdown ends |
| agent worker, personas and escalation | `SessionUserData`: consent, the sentiment streak; the persona on the line and the task that has taken its place | consent, turns, hand-offs, SIP transfer, callback and its confirmation | nothing is on record before the consent; a case says what the caller's mood was; what was confirmed in writing is recorded |
| ticketing-glpi MCP server | GLPI (or a dictionary in mock mode) and a mirror in Postgres | create, status, resolve, lookup | a mirror row or an answer is of the ticket GLPI opened under the id, and claims no resolution that never was; references name the ticket they were given out for |
| notification-service | the dispatch log | `POST /notify` | every row, and every promise to a caller, is of a message that left |
| business-api: back office and jobs | none of its own | read API, retention, integrity | what was anonymized once is not counted again; an edited chain is reported |
| context-service | a cache behind one endpoint that nothing calls | resolve, context, invoices | - |
| knowledge-service and its MCP server | none | rank passages | - |
| messaging-gateway | none | forward to notification-service | - |

How they interact. The agent worker is one process with an asyncio loop; the model
that drives a call may issue several tool calls at once, and they interleave at
every `await`. A tool calls context-, decision-, policy- and execution-service by
HTTP; a client that times out tells the caller so, and the service goes on.
policy- and execution-service share the Postgres database and the audit ledger:
both append to the one chain in their own transactions, as does the conversation
writer for a consent. The execution request names the verdict it relies on by a
foreign key. The MCP servers are called by the worker and call GLPI and
notification-service.

What is hard to test here, and what the properties are aimed at: two transactions
racing for the end of the chain or for a unique key; a failure between two steps
of one handler (dispatch and commit, flush and audit, GLPI and mirror); a client
timeout while the service commits; context that is read before an `await` and
acted on after it; items that are queued after the sentinel; a thread that
outlives the task that waited for it; a restart that resets a counter. The full
list, with the line where each bites, is `hazards` in `PROJECT.json`.

## 2. Modules

| module | models | state and actions |
|---|---|---|
| `HashChain` | `ledger.py`, the in-memory `AuditLedger` | the abstract chain: a sequence of entries, `Append` |
| `AuditLedger` | `ledger.py`, `PgAuditLedger` | `table` with uncommitted rows, `nextSeq` (the identity column, not rolled back), `lock`, per transaction `txState` and what it read. `CallAppend`, `AcquireLock`, `ReadLast`, `InsertRow`, `Commit`, `Rollback` |
| `AuditIntegrity` | `jobs/integrity.py`, `verify_audit_chain.py` | the ledger, and one edit of a committed row |
| `PolicyEngine` | every rule, the engine's order, the decision-service's score | operators only: `CheckMandatory`, `CheckPayment`, `CheckDeferral`, `CheckSim`, `EvaluateAction`, `Confidence`; the reference definition `Allowed` and the order `NoSafer` |
| `PolicyService` | `service.py` of policy-service | `FlushVerdict`, `AuditVerdict`, `CommitVerdict`, `FailEvaluation`, over `AuditLedger` |
| `IdempotentActions` | what execution-service promises | one reference per key: `Perform`, `Answer` |
| `ExecutionService` | `service.py`, `executor.py`, `projections.py` of execution-service | `Lookup`, `InsertPending`, `InsertRefused`, `LookupAgain`, `Dispatch`, `DispatchRaises`, `AuditResult`, `Project`, `CommitResult`, `Answer`, `Crash`, over `PolicyService` and `AuditLedger` |
| `GuardedAction` | `guarded_action.py`, the gates, the sensitive tools, the three clients | per tool call a program counter, a context and an outcome; `CallTool`, `AnswerIdentity`, `AnswerConfirmation`, `ReadInvoices`, `Recommend`, `Judge`, `PolicyUnavailable`, `ExecutionTimesOut`; the caller's `CallerTurn` and `RequestClarification`; execution-service seen from outside: `Serve`, `ServeFails` |
| `CallJournal` | what the writer promises | entries are taken in order, each stored before the next is taken or never |
| `ConversationWriter` | `conversation/writer.py`, the shutdown callback | the queue, the drain task, its thread, the committed and the dropped items, the `call_sessions` row, what the open transaction has flushed and appended. `Record` for the `record_*` methods, `FinishConversation`, `Take`, `TakeSentinel`, the thread's `FlushConsent`, `AppendConsent`, `WriteCommits` and `WriteFails`, `CloseReturns`, `CloseTimesOut`; no specification of its own, because who queues what is the session's |
| `AgentSession` | the personas, `escalation_tools.py`, `routing_tools.py`, `sip_transfer.py`, the consent and callback tasks, the scorer, `server.py` | the persona, who has the floor, the consent, the streak. `RecordConsent`, `UserTurn`, `Route`, `EscalateToManager`, `TransferToHuman`, `Transferred`, `OfferCallback`, `DeclineCallback`, `AskConfirmation`, `Schedule`, `HangUp`; over `ConversationWriter` and `NotificationService` |
| `NotificationService` | `service.py`, `channels.py` of notification-service | `Notify`, `Send`, `Persist` |
| `Ticketing` | the MCP server's tools, mirror and GLPI client | one action per stretch between two awaits of each tool; `AdvisorWorks` (GLPI's own advisors resolve, reopen and delete tickets), `Restart`; over `NotificationService` |
| `Retention` | `jobs/retention.py`, `get_store` | per run of the job the statement it has reached, the calls it found, the turns and pointers it has updated; the recordings in the object store. `SelectOld`, `AnonymizeTurns`, `ReadPointers`, `DeleteBlob`, `ClearPointers`, `AuditRun`, `CommitRun`, `FailRun`; `OtherStep` for the other services; over `AuditLedger` |
| `*Proofs` | - | theorems and proofs about the module they are named after |
| `MC*` | - | constants for TLC |

Conventions. An action is one stretch of code that nothing can interrupt: up to the
next `await` in the worker and the MCP servers, up to the next statement sent to
the database in the services. `Await(c, what)` and `Return(c, result)` say where a
coroutine stands. A definition under a comment that begins with "Mutant:" is not
part of the model; it is the code with one plausible slip, and `PROJECT.json` says
which definition it replaces and which property then fails.

What is abstracted. A digest is the pair that was digested, which is to take sha256
as collision-free. A payload, a subject or a transcript is a model value, or left
out where no step depends on it. Amounts are small integers around the thresholds;
probabilities and confidences are tenths. A projection of an executed action is one
effect that is written, skipped or rolled back to its savepoint. An item of the
conversation's record is its number, its kind and the one field a property reads.

Two modules look at one call from two sides. `GuardedAction` has several tool calls
at once, because there the danger is in what one reads and another changes.
`AgentSession` has one at a time: the tools that pass the caller on do nothing
before their first `await` but queue an item and return, and the task that a tool
awaits takes the persona's place. What they share, the streak of negative turns, is
computed in both by the same function of the scorer.

## 3. Runs

| run | asks | instance | distinct states |
|---|---|---|---|
| `retention` | is the audit ledger one chain at every instant, and the purge it records complete and counted once, whatever commits, waits, rolls back or dies | 2 runs of the job, 1 other transaction, 2 calls with a turn each | 37 050 |
| `purge_recorded` (violated) | does a purge always have its audit entry | as `retention` | - |
| `audit_integrity` (violated) | is every edit of a committed row noticed | 2 transactions, 2 events, 2 labels | - |
| `execution` | can two tries with one key, a stranger and two evaluations break idempotence or the order of the audit | 3 requests, 2 keys, 2 evaluations | 47 957 |
| `failed_dispatch` (violated) | does a failed dispatch leave its row | as `execution` | - |
| `policy_engine` | do the ordered rules authorize what they should, on every context | every field at and next to each threshold | 138 240 |
| `guarded_action` | can two tool calls side by side take a forbidden effect | 2 calls, 4 kinds of request, VIP or not | 514 628 |
| `key_reuse` (violated) | is a reference told to the caller that of the request just made | 2 payments | - |
| `deferral_review` (violated) | is a deferral of too large an amount reviewed | a caller in debt | - |
| `agent_session` | is the record of a call ordered, complete and true to what happened in it, whenever the caller hangs up, and does the shutdown end | 3 turns, 1 callback, 1 advisor, known caller or not, 1 outage, at most 4 items waiting | 2 620 744 |
| `ticketing` | can the mirror or an answer tell of the wrong ticket, or of a resolution that GLPI has never had | live GLPI with advisors, 3 calls of which 1 may reach notification-service, 2 customers, 1 restart | 4 121 091 |
| `ticket_reuse` (violated) | does a reference name its ticket across a restart, in mock mode | 3 calls, 1 restart | - |

Why the bounds suffice. A fork of the chain needs two writers, and a third finds
what a rolled-back one has left behind (a gap in `seq`); the three transactions of
`retention` are two runs of the job, which also wait for each other's rows, and a
stranger. Two calls make old sets that are equal, one in the other, or empty. A race
on a key needs two requests with one key; the third has another key and competes for
the ledger's lock only; an evaluation of each request's verdict gives both the order
of commits that is wanted and the one that must be refused. Two calls of a session
are what it takes for one to change what the other has read. The thresholds of the
engine are compared with one variable each, so the values at a threshold and next to
it are all it can tell apart; `VIP`, fraud, identity and the rest are enumerated.
Three turns of a call let the streak rise to the offer and fall, or fall and rise
again, before a case is recorded; one callback is all that a property relates to
another item, and a second would only repeat it; one outage is enough to lose any
one item, and losing the first makes every item that refers to it fail too, which is
not counted as an outage. A backlog of four holds two turns, or a turn, a case and a
callback, with the closing's two entries behind whatever waits, so the writer can be
far behind when the call ends; the code's queue has no limit, and the proofs hold
for any. Three tickets' calls are a create, a resolve and a reader in between, with
advisors at work at any moment; one confirmation is enough, as no property relates
two. Named bounds: `CLARIFICATION_BOUND` (the policy compares the counter with 2, so
more changes nothing), `MaxTurns`, `MaxOutages`, `MaxBacklog`, `MaxRestarts`.
`ticketing` uses the symmetry of customers and of the calls without a confirmation,
and checks safety only.

`CHECK_DEADLOCK FALSE` stands where the system may stop: transactions are all over
(`audit_integrity`), a context has become as bad as it can
(`policy_engine`), the call is over and recorded (`agent_session`), the calls
have been answered (`ticketing`, `ticket_reuse`). `ExecutionService` and
`Retention` have an explicit `Terminated` step instead, so a deadlock of keys, rows
and lock would be reported.

Fairness, and what justifies it.

* `AuditLedger`: weak fairness of reading, inserting and committing, which are
  statements in a row; strong fairness of taking the lock, which Postgres hands out
  in the order of its queue. None for calling `append` or for rolling back.
* `Retention`: weak fairness of each run's next statement (`RunProgress`), beside the
  ledger's. A run that waits for another's rows is in a Postgres queue. Nothing
  obliges a run to fail, and a recording is deleted or its error passed over.
* `ExecutionService`: weak fairness of each transaction's next step (`Progress`).
  Nothing obliges a dispatch to raise or a process to die; waiting for a rival's key
  or for the lock is a Postgres queue whose head is let go.
* `GuardedAction`: weak fairness of the client's side of each request, because each
  `httpx` client has a timeout (3, 2 and 5 seconds) and an answer for it. None for
  the caller's answers, so `GuardedCallsReturn` is about calls that wait for a
  service, and none for execution-service.
* `AgentSession`: weak fairness of the shutdown's wait, which ends with the task or
  with its timer. None for the drain task's database, the caller, the language model
  or notification-service: the shutdown returns even if every write hangs.

## 4. What is proved

All proofs are for any number of transactions, requests, keys, calls and callers,
and any thresholds. The constants' assumptions are named and evaluated by the runs:
`NoTxAssumption`, `EvaluationAssumption`, `RequestAssumption`,
`ThresholdsAssumption`, `RetentionAssumption`, `WriterAssumption`,
`SessionAssumption`, `TicketingAssumption`. Every invariant, every action property
and every refinement that a passing run checks is stated by a theorem; each
strengthening below was checked by TLC, on the instance of the run, before it was
proved.

**The chain** (`AuditLedgerProofs`). `ChainIntact` and `NoFork` are not inductive: a
transaction that inserts relies on what it has read being still the end. The
strengthening `LedgerInv` says: the lock is held exactly by the transaction that has
taken it and not ended (`LockInv`); rows carry increasing `seq` and the hash of
their content (`RowInv`); an uncommitted row lies after every other (`PendingLast`);
what the holder has read is still the end (`ReadInv`); committed rows are linked
(`LinkInv`). From it follow type correctness, `ChainIntact`, `NoFork`, `AppendOnly`
and that the table implements `HashChain` (`ImplementsChain`).
`HashedEditCaught` is the positive half of the integrity finding: an edit of what
the hash covers is noticed wherever in the chain it is.

**The job** (`RetentionProofs`). `RetentionUsesLedger` does for the job what
`ServicesUseLedger` does below for the services. `TurnsCountedOnce` speaks of
committed runs and is not inductive: two runs that both hold updates could commit
them. `RetentionInv` adds that the turns updated by any two runs, committed or under
way, are disjoint, which is what the row locks are for (`CountInv`); that every turn
of the calls of a run past its update is purged already or among those it has
updated itself (`CoverInv`); that its phase says how far it is in the ledger and what it has
updated (`PhaseInv`); and that its entry in the ledger says what it has updated
(`EntryInv`). From it: the chain's entries account for every purged turn once
(`CountedOnce`), and a committed run is complete (`CompleteRuns`).

**The services** (`ExecutionProofs`). `ServicesUseLedger` shows that every step of
the two services is a step of `AuditLedger` or leaves it alone, so `LedgerInv` is
theirs too. `ServiceInv` ties each transaction's stage to its row, its dispatch and
its audit entry, and counts uncommitted rows among those a key is unique among.
From it: at most one dispatch per key is not rolled back (`AtMostOnce`), the verdict
is audited before the action (`VerdictFirst`), every entry is backed by a committed
row (`NothingUndoneIsAudited`), and execution-service implements `IdempotentActions`.
With `EffectInv`, which says that a domain row belongs to a transaction that has
inserted its audit entry and not aborted, a payment or plan change is on the books
only with the row and the entry of its own dispatch, and once per key
(`EffectsAreBacked`).

**The rules** (`PolicyEngineProofs`, `PolicyWalkProofs`). The rules for different
actions are disjoint, a mandatory trigger escalates before any of them, the ordered
walk authorizes exactly `Allowed` (`DefaultOnlyWithoutObjection`), and a context
that is no safer is authorized nothing more (`EngineIsAntitone`).

**The guarded path** (`GuardedActionProofs`). `GuardInv` says that a verified caller
has been identified (`GateInv`), that the context a call carries is a true copy of
the session at the time, up to changes that only make a call worse (`ContextInv`),
that a call past the policy was allowed by every rule (`FlightInv`), and that an
answer is of something in flight or done (`AnswerInv`). From it: nothing forbidden
takes effect (`OnlyAllowedEffects`), nothing at all for a VIP or a suspected
fraudster (`ProtectedUntouched`), a refusal is final also when execution-service is
slow (`RefusalsAreFinal`), and a reference told is real (`ToldReferencesAreReal`).

**The call and its record** (`AgentSessionProofs`), for any number of turns,
callbacks, advisors and outages. The invariant has two halves, so that a step of the
writer need not be looked at by the session's part and the other way round.

* `WriterInv` is about where the items are. They are numbered as they are made.
  There is a number `t` such that the items up to `t` have been taken, the last of
  them perhaps still at a thread, and the queue holds the others in order, with the
  sentinel at some place `p` or not at all (`QueueShape`, `TakenItems`). The sentinel
  need not be last: a callback that is confirmed during the shutdown is queued behind
  it. If it is there, the closing item is before it (`Closing`), which is what makes
  `FlushedOnClose` inductive. A consent's transaction has two statements before its
  commit, and `ConsentAudited` is about committed data; `UnitInv` adds that what has
  been flushed and appended is the thread's own consent and its own entry, so that
  they are kept or lost together (`ConsentInv`). What the session's half uses of all this is `Numbered`:
  a number names one item, and whatever was made before a written item has been
  written itself.
* `SessionInv` is about what the items say, in terms of the set of all that were
  made, which a step of the writer leaves alone. The properties speak of stored items
  only, and say nothing of those still queued; `Founded` says of every item, when it
  is made, what it stands on: a consent before it, an escalation before a callback,
  the last two sentiments before an escalation. That stays true because later items
  have greater numbers (`FoundedStays`). `StreakInv` ties the scorer's counter to the
  sentiments (at least one: the last is negative; at least two: the last two are),
  and is what `FrustrationShown` needs at the moment a case is made. `StartMade` says
  that item 1 is the call's start; with `Numbered` that gives `CallRowFirst`, which a
  queue in any other order breaks. `RowInv` says that a call row is there because its
  start was stored, and that a finished one has the decision: for that the closing item, made last, must carry the decision of a
  consent that a different transaction stores. `NoticeInv` says of a confirmation
  that its callback is being confirmed or made, from the moment it is requested.

From them follow all nine invariants of the run `agent_session`, and that the queue,
the task and the thread implement `CallJournal` step by step
(`WriterImplementsJournal`): the journal's `taken` is that `t`, a commit is its
`Store`, a dropped item a stutter.

**The ticket desk** (`TicketingProofs`), for any number of calls, customers and
restarts. `DeskInv` holds whatever is behind the connector: the types, that a call's
arguments are set once and it answers once (`CallInv`), and that notification-service
has answered for a message only after it has left (`NoticeInv`). From it a promised
confirmation has left (`PromisedConfirmationsLeft`). The other direction does not
hold and is not claimed: a caller who was told that there is no confirmation may get
one, when the service answers after the timeout.

The other two properties need `NothingLost`: the connector is live, or the mock's
server is not restarted. That is no convenience: with a restarted mock they are
false, which is finding 5. A live GLPI does what its advisors do: a ticket is
resolved, reopened or deleted at any moment, also between two awaits of a tool, and
the client reports any status below 5 as "new" and a deleted ticket as missing. So
neither the mirror nor an answer can be up to date, and no property says they are. A
row may say "open" of a ticket that is resolved, because `mirror_resolve` failed or
an advisor did it, and "resolved" of one that was reopened; and a deleted ticket is
reported resolved if the mirror has a row for it (`glpi_ticket_ops.py`, line 70).
What is left to rely on is `TrueOf`: the id is that of the ticket and the customer
that GLPI opened it for, and no ticket that GLPI still has is called resolved without
having been so. The proof: an id is given out once (`IdInv`), and a ticket that was
resolved, reopened or deleted is never "new" again in the model's sense of never
having been resolved, so what a call has seen of it before an `await` (`AwaitInv`),
what a mirror row says and what an answer has said (`AnswerInv`) cannot become false.
That is `KeptInv`; from it `MirrorIsTrue`, `AnswersAreOfGlpi` and
`ReferencesNameTickets`, the last of which is the positive half of that finding.

No property says that a caller hears of own tickets only. `lookup_tickets` lists by
customer, but `get_ticket_status` and `resolve_ticket` answer whoever quotes an id;
that the mirror has the right customer for each id is what the list relies on, and is
part of `MirrorFollowsGlpi`.

**Only model-checked.** Every liveness property (`AppendTerminates`, `RunsEnd`, `CallsEnd`,
`GuardedCallsReturn`, `ShutdownReturns`): the prover does not reason about fairness.
The six violations, which are counterexamples and need no proof.

## 5. Findings

1. `RetroactiveEditCaught`: `verify()` does not see an edit of the event type, the
   session or the entity reference, which the hash leaves out, although the module's
   docstring says that any retroactive edit is caught.
2. `FailedDispatchRecorded`: a dispatch that raises takes its pending row with it,
   although the executor's comment says the ledger still records the attempt; the
   back office's list of failed actions is therefore empty.
3. `ExecutedMeansRequested`: the key of an action type is the session's, so a second
   and different payment replays the first and the caller is told it was executed.
4. `LargeDeferralsReviewed`: an outage of the invoices looks like no debt, so a
   deferral that owes a review is authorized.
5. `ReferenceNamesTicket`: after a restart in mock mode the ids begin again, and the
   mirror answers with the older ticket.
6. `PurgeRecorded`: the retention job deletes recordings before it commits, so a run
   that fails in between leaves a purge that the ledger does not know of, although
   the job's docstring says that every run writes an audit entry. (A recording whose
   deletion failed outlives its pointer; that the code says it accepts.)

One more limit is worth knowing though nothing in the repository promises otherwise.
The confirmation of a callback leaves before the callback is queued for the record.
A caller who hangs up while it is on its way may have the text and no callback:
`ConfirmedIsScheduled` holds with the exception of the confirmation under way, and
not without it.

## 6. Not modelled

The back office's read API and the outbound guardrail (stateless); context-service
(queries; its one endpoint with a cache, `/internal/context/resolve`, is called by
nothing in the repository, so there is no behaviour that a stale answer could
spoil); the knowledge service (a stateless ranking) and messaging-gateway (one
forwarded request); templates, speech, language and media providers, observability,
masking and header checks (configuration and wording); the domain core (value
objects); token minting and the two front ends; build and deployment files. How
Postgres, GLPI, the telephone network and the language model work inside is
external: they appear as what they may answer. The round trip of a timestamp and a
JSON payload through the database, on which `verify()` relies, is a property of the
database's types and is left out. `PROJECT.json` gives the reason for each part.

Counted in lines, the models stand for a small share of the repository, and that is
its shape rather than the plan's. More than half of its Python (about 13 700 lines of
22 700) is under `patches/`: earlier copies of the same files, which nothing imports
and which would have to be modelled once more, at an older state, to be counted. Of
the live 9 000 the largest part has no steps to model: tests, column definitions and
migrations, seeds, settings, prompts, templates, schemas and HTTP plumbing. What
keeps state and changes it is modelled: the two services that write, the audit
ledger, the jobs, the ticketing and notification services, and the agent worker's
session, tools and writer.

## 7. Plan

Done, in this order: 1 `AuditLedger` and its proofs; 2 `PolicyService` and
`ExecutionService` over it; 3 `PolicyEngine`; 4 `GuardedAction`; 5
`ConversationWriter`; 6 `Ticketing` with `NotificationService`; 7 `Retention` and its
proofs; 8 `AgentSession`, over `ConversationWriter` and `NotificationService`.

The proofs of 6 and 8 followed, `TicketingProofs` and `AgentSessionProofs`. With
them every safety property of the passing runs is proved. What is left to prove would
be new statements: that ids and items are never reordered is an invariant here, and
could be stated as action properties of the two components as well.
