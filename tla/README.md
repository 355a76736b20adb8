# A verification of the agents backend

TLA+ models of `AGENTS-BACKEND`, the runs of TLC that check them on small
instances, and proofs that TLAPS checks for every instance. Paths below are
relative to `src/AGENTS-BACKEND/src/agents_backend/` unless they begin with
`docs/`, `migrations/` or `supabase/`, which stand for those directories of
`src/AGENTS-BACKEND/`.

## The system

A personal assistant on Telegram or WhatsApp, with a memory of what its user
says. Everything durable is in PostgreSQL. Edge functions and an HTTP API store
what arrives; one or more worker processes run the same cycle
(`worker/main.py:56`): transcription, inbound messages, outbox, orchestration
tasks, reconciliation of confirmations, expiry of drafts and connections, the
closing of days, dispatch of routines, runs of routines, ingestion. Each stage
takes at most one row per cycle, with `FOR UPDATE SKIP LOCKED` and a lease of 2
to 10 minutes, and works on it outside the transaction that took it.

| Component | State it keeps | Operations | What makes it correct |
| --- | --- | --- | --- |
| Routines (`scheduling/`) | `scheduled_automations`, `automation_grants`, `scheduled_runs` | create, update, confirm, cancel, renew, pause, resume, delete, run now; expiry scan, dispatch, materialise, finish | only a version its user authorised runs; a proposal does not disturb the version in force; a run is one task of that version; no draft and no run waits for ever |
| Confirmations (`conversation/tools.py`) | `pending_actions` | create, list, confirm, cancel, lapse, reconcile | one answer executes one action, from another message than the one that asked |
| Channel jobs (`conversation/channel_jobs.py`, `conversation/service.py`) | `channel_messages`, `outbox_messages` | arrive, claim, process, reply, send, fail | order in a conversation, one reply per message, nothing left behind by a crash |
| Conversation agent (`conversation/runtime.py`) | `agent_runs` | route, answer, delegate, replay | a turn is answered once, and recovered rather than repeated |
| Orchestration (`orchestration/`) | `orchestration_tasks` | claim, run, result, wait, reconcile, fail | every task ends with an answer |
| Tool registry (`conversation/tools.py:1307`) | `tool_executions` | execute, replay | a completed tool is not run again |
| Worker (`worker/main.py`) | the heartbeat | cycle, time out, exit, start | every stage is served; a useless process ends |
| Ingestion (`ingestion/`, `worker/service.py`) | `sources`, `jobs` | ingest, claim, extract, fail, delete | source and job agree, one outcome is told, what is deleted is not read |
| Memory (`memory/`) | `entities`, `facts`, `commitments`, `evidence` | consolidate, correct, delete | one current value, evidence for what is kept, the user has the last word |
| Daily memory (`memory/daily_conversations.py`) | sources of days | close a day | every line of a day in one chunk, no day lost |
| Retrieval (`retrieval/`) | none | search by pages, ask | pages are one list, answers rest on evidence |
| Transcription (`transcription/`) | `audio_transcription_jobs` | upload, submit, poll, fail | the text or an apology, once |
| External actions (`integrations/composio`) | `external_integrations`, `external_connection_requests`, `external_actions` | link, check, configure, propose, confirm, execute, merge reads | a write is authorised and made once, the account is the one the user chose |
| Bitrix24 (`integrations/bitrix24`) | the same tables | link, give a token, confirm, expire, disconnect, write | a token is held only as long as it is used |
| MacWhisper (`integrations/macwhisper`) | `macwhisper_webhook_credentials` | make, show, revoke, post | one URL, and one that was shown |
| Invitations, accounts (`invitations/`, `accounts/`, `conversation/telegram.py`, `whatsapp.py`) | `channel_invites`, `channel_accounts`, `user_identities`, `conversations` | invite, accept, revoke, bind, verify, suspend, restore | one person, one chat, one user |
| Edge functions (`supabase/functions/`) | none of their own | receive, redirect | a message that was acknowledged is kept |

They interact through rows only: a message leaves a turn, a turn a task, a task
an outbox row or a pending action, a later turn's task answers that action, a
routine's run leaves a task, a post or a day leaves a source, a source leaves
facts. What is hard is therefore what happens between two commits: a worker
dying, a lease running out under a slow worker, tasks overtaking the messages
they come from, confirmations that come late or twice, deliveries that are
repeated, deletions in the middle of a piece of work, calls whose answer is
lost, and rows read in one transaction and used in another. `PROJECT.json`
lists these hazards one by one, each at its line, with the properties that
would catch it going wrong.

## The modules

Every module is one component: its rows as variables, one action per tool,
handler, transaction or step between two commits. A sequence of statements that
one transaction makes atomic, by a row lock or by being one commit, is one
action; where another process can get in between, there are several. Time is a
choice of when a lease, a deadline or an interval is over; what a model, a
provider or a channel answers is a choice; texts, identifiers and documents are
reduced to what the conditions tell apart. `PROJECT.json` ("map") has the lines
each definition stands for. Definitions named `..._Faulty` or `..._Dropped` are
plausible mistakes in the definition that follows them, used only to show that
a property depends on the code: it fails when the mistake takes its place.

### ScheduleLifecycle

The routines, their grants and the pending actions that activate them.

| In the model | In the code |
| --- | --- |
| `schedule[s]` | row of `scheduled_automations`: status, `revision` with its `compiled_spec`, the pending version, whether `next_run_at` is set, whether a run exists |
| `grant[s][r]` | row of `automation_grants` of revision `r`: status, what it authorises, `confirmed_by_message_id` |
| `action[a]` | row of `pending_actions` with tool `activate_schedule`: status, target, `created_by_message_id`, whether `expires_at` is past |
| `horizon[sp]` | what `next_occurrence` finds for a specification: a later occurrence, none but within the misfire grace, none |
| `CreateActive`, `CreateDraft` | `scheduling/service.py:209` |
| `UpdateImmediately`, `ProposeUpdate` | `scheduling/service.py:685` |
| `ConfirmActivates`, `ConfirmTooLate`, `ConfirmRefused` | `conversation/tools.py:879` and `scheduling/service.py:322` |
| `Renew` | `conversation/tools.py:881` and `scheduling/service.py:867` |
| `Cancel` | `conversation/tools.py:1005` and `scheduling/service.py:439` |
| `NoticeLapsed`, `ReconcileLapsed` | `conversation/tools.py:489`, `orchestration/service.py:28` |
| `Pause`, `Resume`, `Delete`, `RunNow` | `scheduling/service.py:512`, `533`, `569`, `603` |
| `ExpireDraft`, `Dispatch`, `FlagNeedsAttention` | `scheduling/dispatcher.py:60`, `164`, `420` and `orchestration/service.py:310` |
| `Lapse`, `TimePasses` | the clock |

A tool is one action, because it locks the routine's row and its effects are one
commit with the record of its execution; when the tool returns a failure, what it
changed is committed too, and when it raises, its savepoint is rolled back: the
guard of the action is then false. A specification is reduced to its risk
(`R2Specs` need a separate confirmation), its kind (`OneShot`) and `horizon`.
Whether a message is an explicit confirmation or a cancellation is a set of
messages: the text patterns and the router's verdict both feed it. A session that
decides on attributes loaded by an earlier tool of the same task is not in this
module (see the plan).

### RoutineContract, ScheduledRuns and ScheduleRefinement

`RoutineContract` is what the lifecycle promises to those who run routines: the
row of a routine and whether its current revision is authorised, changed by
`Publish`, `Draft`, `DropDraft`, `Pause`, `Resume`, `Delete`, `RunNow`,
`Dispatch` or the failure of a run (`Flag`), and in no other way. `ScheduledRuns` extends it:
its user does what the contract allows, so that its properties hold for every
lifecycle that keeps the contract. `ScheduleRefinement` shows that
`ScheduleLifecycle` does (`KeepsContract`): it maps a schedule to its row and
hides grants, pending actions, revisions that wait and clocks.

| ScheduledRuns | In the code |
| --- | --- |
| `run[i]`, `task[i]` | rows of `scheduled_runs` and of the task `schedule:<run>`, with the revision whose specification the task was given |
| `worker[w]` | what a worker holds between the statements of a claim and of a materialisation |
| `DispatchRun`, `RunScheduleNow` | `scheduling/dispatcher.py:164`, `scheduling/service.py:603` |
| `CountRuns`, `ClaimRun` | `scheduling/dispatcher.py:233`: the count of the running runs, then the commit of one more |
| `ReadRoutine`, `ReadGrant`, `Materialise`, `Break` | `scheduling/dispatcher.py:282`: three statements with no lock between them |
| `HandleFailure`, `NotifyFailure` | `scheduling/dispatcher.py:392`, `426` |
| `EndTask` | `scheduling/dispatcher.py:483`, called when the task of the run ends |
| `Crash`, `Lapse` | the process or its cycle ends; `lease_expires_at` passes |

### RoutineClock

When a routine runs: `After`, `NextOccurrence` (`scheduling/recurrence.py:11`),
`ShouldSkipMisfire` (`scheduling/dispatcher.py:45`) and
`DispatchDueSchedule` with its collision on the unique occurrence, for one
routine and a clock. Instants are numbers, a rule is the set of local times it
generates, and `Fold`, `FoldBy` say when local clocks go back and by how much.
`CreateSchedule`, `UpdateSchedule`, `PauseSchedule` and `ResumeSchedule` are
`scheduling/service.py` as far as they set `next_run_at`.

### ChannelPipeline

A conversation on its way through the queues: messages, the task a message is
delegated to, the reply (the acknowledgment, when there is a task) and the
task's result.

| In the model | In the code |
| --- | --- |
| `row[<<kind, m>>]` | status, attempts and lease of the row of `channel_messages`, `orchestration_tasks` or `outbox_messages` that belongs to message `m` |
| `settled[m]` | the `agent_runs` row of the turn is completed |
| `ack[m]`, `dep[m]` | `orchestration_tasks.ack_outbox_id` and `outbox_messages.depends_on_outbox_id` are set |
| `worker[w]` | the job in hand, how far it has got, and what its session loaded and will write from |
| `delivered[j]` | observation: how often the channel accepted the text |
| `Claim` | the transaction that takes a row (`conversation/channel_jobs.py:33`, `99`, `orchestration/service.py:86`) |
| `Begin`, `Delegate`, `Settle`, `Reply` | the commits of a turn (`conversation/service.py:531`, `conversation/runtime.py`, `conversation/tools.py:1442`) |
| `AlreadyAnswered` | the early return at `conversation/service.py:542` |
| `Finish`, `Send`, `CommitSent`, `Fail` | the end of a task, a delivery in two steps, the handler of each queue |

With `Overrun = FALSE` a lease lapses only when nobody works on the row any more,
with `Overrun = TRUE` at any moment (a cycle may take 600 s, a lease lasts 2 to 5
minutes). `Crash` is the end of the process, or the `asyncio.timeout` of a cycle,
whose cancellation the handlers do not catch.

### WorkerCycle

The loop of `worker/main.py`: stages in their order, scans that run when their
interval is over, whose time is set at the end of the cycle, the exception or the
timeout that ends a cycle where it is, the count of failures, the exit and the
restart. `up` is the database, `waiting` the queues.

### EdgeIngress

`supabase/functions/telegram-webhook/index.ts`: one action per request to the
database (`FindAccount`, `FindMessage`, `FindConversation`,
`CreateConversation`, `InsertMessage`, `InsertJob`, `Undo`), the answer to
Telegram, the end of an instance between any two, deliveries that are repeated
until one is acknowledged, and the worker behind (`Transcribe`, `Handle`).

### AudioTranscription

`transcription/service.py`: `ClaimJob`, then `Upload`, `CallSubmit` and
`SaveSubmit`, `PollAgain` or `Transcribe`, `DeleteTranscript` and `SaveCleanup`,
each call to the provider apart from the commit after it; `HandleFailure` and
`PersistFailure`; `ProviderEnds` is external, and `AnswerMessage` is what
ChannelPipeline does to a message that was received.

### SourceIngestion

`IngestTranscript` (`ingestion/service.py`), `ClaimJob`, the reading of the
transcript, the call to the model, the commit of what was learnt and the handler
(`worker/service.py:40`, `87`), the notices of MacWhisper, and
`DeleteSource` (`memory/mutations.py:150`) at any point. What is learnt is only
that there is evidence: the next three modules have the rest.

### FactLedger, Commitments, EntityResolution

`consolidate_extraction` (`memory/service.py:179`) with `correct_memory`,
`delete_memory_target` and `delete_source` (`memory/mutations.py`), split by what
they write. FactLedger: facts by fingerprint, what is read and what is committed
in two steps, supersession, corrections, the fact that a deletion restores.
Commitments: mentions, reports of completion (which commitment is meant is
guessed from words, so any choice is possible), facts that close one, the user's
edits. EntityResolution: links by name and alias, and which entities a deletion
hides.

### MemorySearch, MemoryAnswers

`search_memory` (`retrieval/service.py:132`): terms, the three kinds of rows merged
under one cursor, the fallback on embeddings, and a client that asks for page
after page while rows come and go. `ask_memory` (`retrieval/service.py:399`): the
choice of facts, the reading of their evidence and the answer, three steps among
extractions, corrections and deletions.

`Memory` puts FactLedger, Commitments, EntityResolution, MemorySearch,
MemoryAnswers and DailyMemory side by side (see "The runs") for any sources,
rows, messages and days, and states the assumptions on the world they are
checked under; `MCMemory` has the small instance.

### DailyMemory

`memory/daily_conversations.py`: the window of days, what is eligible, the cut
into chunks (`PlanDay`), their ingestion (`Ingest`), by several workers, over
days on which no worker was there (`NewDay`, `Hour`), and what an extraction may
quote of such a source (`Learn`).

### ExternalActions

The calls a task makes to the services its user has connected, over
`orchestration/runtime.py:183`, `conversation/tools.py:1307` and
`integrations/composio/service.py:354`, `401`, `601`. A call is its id and its
arguments. The provider is reached from inside a transaction that is committed
only after its answer: `Begin`, `Reach`, `Answer`, with a crash before the last
leaving at the provider what the database does not know of. `Propose`, `Ask`,
`BeginConfirm`, `ConfirmInVain`, `AnswerConfirm`, `Cancel`, `Lapse`, `SeeLapsed`,
`MarkLapsed` and `Reconcile` are the life of the pending action of a write;
`Scheduled` makes the task a run of a routine with a grant and a limit of writes.

### ExternalAccounts, AccountReads

`connect_external_app`, `get_external_connection_status` and
`configure_external_account` (`integrations/composio/service.py:182`, `244`,
`276`): a tool loads the accounts, asks the provider and writes the attributes
that changed; meanwhile the page
(`supabase/functions/composio-callback/index.ts`) makes its two updates.
AccountReads: a search over several accounts, each cut by its limit and by the
size of its answer, merged into one list with a count (`results.py:55`, `272`,
`service.py:504`).

### BitrixConnections

`integrations/bitrix24/service.py`: links, the token given on a page and
validated at Bitrix24, its confirmation in the conversation, expiry,
disconnection, and writes. The connection of a user is the integration updated
last, whatever its status: `recent` is that order.

### MacWhisperWebhooks, ChannelAccounts

MacWhisperWebhooks: the URL from the command that makes it
(`conversation/telegram_commands.py`) over the one message that shows it to its
revocation, by the user or by the failure of that message, and the posts that
come through it (`integrations/macwhisper/service.py`). ChannelAccounts:
invitations with the SQL function that accepts them
(`migrations/versions/20260824_0009_telegram_invitations.py:169`, two steps: what
it finds and what it writes), codes for chats and phones
(`conversation/telegram.py:117`, `whatsapp.py:99`), suspensions
(`accounts/admin_service.py:91`, `146`) and the conversation a message ends up in.

## The runs

Most components meet only through rows they leave each other, and each of those
meetings is modelled on both sides: the deletion of a source in every module that
keeps something of it, the run of a routine as the task of ExternalActions, the
voice message in AudioTranscription and in ChannelPipeline. So the suites
`MCRoutines`, `MCQueues`, `Memory` (with `MCMemory`), `MCChannels` and
`MCIntegrations` check several instances in one run as a sum: the first state
names a part, the behaviour is one of that part, and the variables of the others
stay as they begin. What a suite proves nothing more general about elsewhere has
constants of its own, which the .cfg makes small and the theorems leave open: the
sources, workers, messages, accounts, links and so on of each part.
Nothing is composed in a suite that is not composed in the system;
`ScheduleRefinement` and `ScheduledRuns` are the composition of the two
components that do work on one row. A property of a suite says what several parts
promise together, each conjunct for the parts it holds for.

| Run | Asks | Parts and bounds |
| --- | --- | --- |
| `schedule_lifecycle` | all invariants and action properties of the lifecycle, and that it keeps the contract of the runs | 1 routine, a specification without and one with external effects (one-shot), 3 revisions, 3 actions, 2 messages that read as "yes", the second also as "no" |
| `routines` | drafts and runs end, a run is one task of its version, misfires are as promised | drafts: 2 revisions, 2 actions; runs: 2 for 1 worker, each tried twice, 1 crash, a limit of 1; overlapping: 1 run of a routine that is updated, 2 workers, leases that end early; clock: 10 or 12 instants, by both policies, with an end and with a limit, and where clocks go back by 2 |
| `pipeline` | order, exclusion, answers | 2 messages, 2 workers, 1 crash, messages tried twice |
| `queues` | rows of one piece of work agree, what is done stays done, everything ends | 1 message through every queue, tried twice, 2 workers, 1 crash; 2 sources for 2 workers, and 1 source whose worker loses its lease; 2 voice messages for 1 worker, with transcripts to spare, or with 1 and a crash; 2 messages at the edge with 2 instances and 1 fault, and a voice whose job is refused; a cycle of 3 stages with a scan, with slow jobs and without; a task with a read and a write; 2 links to Bitrix24; a listing of 4 rows |
| `memory` | one current value, evidence, deletions that last, pages, answers, days | 3 sources and 3 values of one predicate, 1 correction; 3 commitments; 2 names that are each other's aliases; 6 rows of three kinds in pages of 2; 2 facts and a correction with 1 read; 4 messages of 2 days, of 2 lines a chunk, 2 workers, 1 day without one |
| `channels` | nothing is made twice, ends last, nobody waits in vain | 2 users of the API and 2 guests, 2 chats, 1 phone, 2 invitations and 2 rows of accounts; 2 chats, 2 URLs and 1 content, with lost answers and without; 1 message with leases that end early; 2 routines of a conversation |
| `integrations` | writes are authorised and made once, connections hold, merged reads are the newest | 2 writes under two workers, or one that crashes; a routine of 2 calls of each of 2 writes and a limit of 2; 2 links to Bitrix24 and a write; 2 accounts; 5 messages in 3 accounts |

Why these bounds reach the interesting cases. Three revisions are what it takes
to have one in force, one dropped and one that is asked for next; three actions
to have one executed, one superseded or expired and one that waits; two messages
that both read as "yes" give the turn that asked, an older answer and a newer
one. Two messages and two workers are the smallest instance with an order and a
race, one crash reaches the points between any two commits, and a second try is
what tells a retry from a failure. Three sources are an original, what supersedes
it and what supersedes that; three commitments, one that is meant, one that
shares its words and a new one. Two calls with the same arguments are a
repetition, and a limit of two leaves room for it. The instants of the clock hold
several occurrences, an outage longer than the grace, and a repeated hour with
two occurrences in it.

The bounds on counters are `MaxRevision`, `ActionIds`, `Runs`, `MaxAttempts`,
`MaxCrashes`, `MaxFaults`, `Horizon`, `MaxShown`, `MaxSent`, `MaxLinks`,
`MaxTries`, `MaxStops`, `MaxRefusals`, `MaxFailed`, `MaxDeliveries`,
`MaxAccounts`, `MaxMessages`, `Transcripts`, `FewTranscripts`, `Replacements`,
`Rows` and `MaxOutage`. `attempts` stops counting at its maximum
where the code compares it with nothing else (that of a source goes on, once for
each crash); observations such as `delivered` stop at two. Deadlock is not
checked: every one of these systems may come to rest, with everything handled or
every bounded id used. Symmetry is used in the runs without liveness only, of
sets whose members no definition tells apart: workers, ids of actions, sources,
users, guests and chats.

Some modules have constants that are assumptions on the world rather than
bounds: `Overrun` (may a lease end while its holder works), `Together` and
`UserRaces` of FactLedger, `Late` of DailyMemory, `CommitFails`, `Large`,
`LostAcks` and `Overlap`. Where a property holds only under one value, the text
above it says so, and the table below says what the other value breaks.

### Fairness

`EverythingSettles` of `queues` and `RoutinesSettle` of `routines` take as fair
what the code repeats by itself, the conditions each module states as its
`FairSpec`. In `MCQueues` the conditions of different parts share a number, since
only one of the parts runs; each number is a condition on one action of the part.

- A worker, an instance of a function, or a client that has not ended goes on
  (`GoesOn`, weak): all calls have timeouts, and a crash is a step of its own.
- Leases, intervals and deadlines run out (`Elapses`, weak).
- A row that can be claimed again and again is claimed (`IsTaken`, strong,
  because another worker may have it meanwhile): every cycle takes of each queue
  the oldest row. The same condition delivers a message to Telegram's webhook
  again, lets the scan of connections run, and lets a run of the agent conclude
  (it has a limit of steps, `orchestration/runtime.py:307`).
- Tasks end: ScheduledRuns takes from ChannelPipeline what is checked there.
- AssemblyAI ends its transcripts, pending actions lapse or are answered, and
  the reconciliation of each cycle sees them (`Answers`, weak).
- The expiry scan of drafts is repeated in every cycle and takes up to a hundred
  in the order of creation.

Users, clocks, faults and crashes owe nothing.

### What the violations show

1. `schedule_update_again`, `UpdateNeverCollides`: a proposed update that was
   cancelled, expired or confirmed too late clears `pending_revision` but leaves
   its revoked grant; the next update computes the same revision
   (`scheduling/service.py:729`) and violates `uq_automation_grant_revision`. The
   tool fails safely, for ever.
2. `pipeline_stuck_turn`, `TurnsRecover`: a recovered turn whose task has
   answered stays `processing`, and so does the conversation behind it
   (`conversation/service.py:542`).
3. `clock_goes_back`, `NoCatchUp`: in a repeated hour the next occurrence is one
   of the first pass (`scheduling/recurrence.py:31`): it is dispatched late, and
   then its row collides in every cycle until the hour is over.
4. `edge_undone`, `AcknowledgedIsKept`: the message whose job was refused is
   deleted (`supabase/functions/telegram-webhook/index.ts:263`) after a second
   delivery found it and was acknowledged: it is lost.
5. `actions_done_again`, `DoneNotRepeated`: of several executions with the same
   arguments the registry looks at any one (`conversation/tools.py:1332`): the
   failed one may hide the completed one, and the write is made again. It takes
   three calls and a grant of three writes. `KnownNotRepeated`, which holds and is
   proved, is the rest of the promise: a recorded write that no such execution may
   hide is not made again.

### What the code does not keep

Further statements of the documents, which the modules state as properties and
for which TLC finds a counterexample in seconds when the constants are as given
(one or two of everything else). They are no part of the runs.

| Property | Module and constants | What happens |
| --- | --- | --- |
| `ConfirmationIsNewer` | ScheduleLifecycle, as in `schedule_lifecycle` | only the message that asked is refused as its confirmation (`conversation/tools.py:916`): a "yes" that was sent before may confirm; `conversation/tools.py:919` asks for a new message |
| `AckBeforeResult` | ChannelPipeline, 1 message, 1 worker | the task is visible before its acknowledgment exists: its result has no dependency (`orchestration/service.py:198`); docs/09:440 |
| `NoDuplicateSend` | ChannelPipeline, 1 crash | the text is sent before that is committed (`conversation/channel_jobs.py:158`); docs/09:451 |
| `ResultsSettle` | ChannelPipeline, `FairSpec` | a result waits for an acknowledgment that failed (`conversation/channel_jobs.py:114`); docs/09:448 |
| `OneFinalDelivery` | ScheduledRuns, 2 workers, `Overrun`, `MaxAttempts = 1` | a run is both reported as failed and answered (`scheduling/dispatcher.py:413`); docs/12:428 |
| `OneOccurrencePerRoutine` | ScheduledRuns, 2 runs, `MaxConcurrent = 2` | two occurrences of a routine run together (`scheduling/dispatcher.py:261`); docs/12:338 |
| `WithinLimit` | ScheduledRuns, 2 runs, 2 workers, `MaxConcurrent = 1` | both see room (`scheduling/dispatcher.py:260`); docs/12:339 |
| `DeletedStays` | ScheduledRuns | the last failure flags a deleted routine (`orchestration/service.py:309`); docs/12:203 |
| `LateWithinGraceRuns` | RoutineClock, a rule of `{2, 5, 8}`, grace 3 | only the occurrence in `next_run_at` is judged (`scheduling/dispatcher.py:181`); docs/12:246 |
| `MinimumInterval` | RoutineClock, a rule of `{2, 5, 6, 9}`, `MinGap = 2` | the interval of the first two occurrences is measured (`scheduling/schemas.py:55`); docs/12:340 |
| `DeletedIsUnavailable` | SourceIngestion | an extraction commits what a source deleted meanwhile said (`worker/service.py:144`); docs/02:68 |
| `AttemptsWithinLimit` | SourceIngestion, 2 crashes, `MaxAttempts = 2` | a job that kills its worker is claimed for ever (`worker/service.py:59`); docs/02:112 |
| `DeletedIsFinal` | FactLedger, `UserRaces = TRUE` | a fact deleted during an extraction is superseded, then restored (`memory/service.py:290`); docs/02:68 |
| `OneCurrent` | FactLedger, `Together = 2` | two extractions supersede the same fact (`memory/service.py:279`); docs/02:46 |
| `ConfirmedIsCurrent` | FactLedger | later evidence promotes no proposed fact (`memory/service.py:260`); docs/02:114 |
| `CompletionBacked` | Commitments, 4 sources | what a deleted source completed stays completed (`memory/mutations.py:233`); docs/02:69 |
| `SubjectsVisible` | EntityResolution | a deleted entity takes new facts and stays hidden (`memory/service.py:187`); docs/03:110 |
| `AliasesBacked` | EntityResolution | aliases of a deleted source stay (`memory/mutations.py:261`); docs/02:69 |
| `FallbackIsLast` | MemorySearch, as in `memory` | the fallback is decided page by page and ignores the cursor (`retrieval/service.py:207`); docs/09:342 |
| `TermsDecide` | MemorySearch, as in `memory` | the expression of `_search_terms` misses ordinary words (`retrieval/service.py:68`); docs/09:342 |
| `AnswersWithoutDeleted` | MemoryAnswers | a source deleted while the model is asked is quoted (`retrieval/service.py:481`); docs/02:68 |
| `CorrectionsReflected` | MemoryAnswers | a correction has no evidence and is not shown to the model (`retrieval/service.py:468`); docs/03:171 |
| `WholeDialogue`, `DeletedStaysDeleted` | DailyMemory, `Late = TRUE` | a line that completes after its day is in no chunk, or moves a deleted one into a new chunk (`memory/daily_conversations.py:243`, `251`); docs/02:102, 68 |
| `AnsweredOnce` | AudioTranscription, 2 workers, `Overrun` | a slow worker sets an answered message back to received (`transcription/service.py:304`); docs/14:25 |
| `TranscribedOnce` | AudioTranscription, `CommitFails` | a failure after the completion is handled as one of the job (`transcription/service.py:334`); docs/14:25 |
| `NothingLeft` | AudioTranscription | a transcript whose deletion failed stays (`transcription/service.py:325`); docs/14:62 |
| `ShownOnce` | MacWhisperWebhooks, `LostAcks` | the URL is sent before that is recorded (`conversation/channel_jobs.py:158`); docs/17:150 |
| `OneSourcePerContent` | MacWhisperWebhooks, 2 credentials | the capture id contains the credential (`integrations/macwhisper/service.py:197`); docs/17:128 |
| `PostIsSettled` | MacWhisperWebhooks, `FairSpec` | a content whose source failed is a replay when posted again (`integrations/macwhisper/service.py:222`), though the notice at `:329` asks for it |
| `KeepsWorkspace` | ChannelAccounts, a chat linked by code | an invitation opened in it makes a new user (`migrations/versions/20260824_0009_telegram_invitations.py:287`); docs/10:150 |
| `ContextOfChannel` | ChannelAccounts, 2 users | a conversation keeps the user it was made for (`conversation/service.py:497`); docs/03:182 |
| `ConsumedOnce` | ExternalActions, 1 crash, `MaxSent = 2` | "executing" is flushed, not committed, before the call (`integrations/composio/service.py:364`); docs/11:77 |
| `UncertainNotRepeated` | ExternalActions, `Scheduled`, 2 calls, `MaxWrites = 2` | a call without an answer is offered as retryable (`integrations/composio/service.py:390`); docs/12:306 |
| `WithinLimit` | ExternalActions, `Scheduled`, 2 workers, `Overrun`, `MaxWrites = 1` | the writes of a run are counted without a lock (`integrations/composio/service.py:449`); docs/12:45 |
| `ExecutedStays` | ExternalActions | an executed action is called expired (`conversation/tools.py:507`); docs/08:138 |
| `OffMeansOff` | BitrixConnections, 2 links | the connection to disconnect is the row updated last (`integrations/bitrix24/service.py:181`); docs/16:502 |
| `CredentialHeld` | BitrixConnections, 2 links, `Overlap` | a token stored during the revocation stays (`integrations/bitrix24/service.py:85`, docstring at `:495`) |
| `WriteOnce` | BitrixConnections, 1 crash | "executing" is not committed before the call (`integrations/bitrix24/service.py:338`); docs/16:417 |
| `LostStaysLost`, `PrimaryIsUsed` | ExternalAccounts, 2 tasks | a check that loaded an account before another one found it lost, or before it was made primary, writes what it was told (`integrations/composio/service.py:244`) |
| `OneDefault` | ExternalAccounts, 2 accounts | two links asked for at once are both default (`integrations/composio/service.py:321`); docs/11:212 |
| `RegisteredIsActive` | ExternalAccounts | an account checked before its link was used is called registered and is not active (`integrations/composio/service.py:212`); docs/11:191 |
| `ExactIsAll` | AccountReads, `Large` | a list that was cut for its size is counted as exact (`integrations/composio/results.py:278`) |
| `MessageHandled` | EdgeIngress, `FairSpec`, `Crashes`, a voice | a voice message without its job blocks its conversation (`supabase/functions/telegram-webhook/index.ts:240`); docs/03:52 |
| `JobFailureIsItsOwn` | WorkerCycle, `Slow` | slow jobs count as failures of the process (`worker/main.py:229`); docs/13:222, 236 |

The numbers stand for `docs/<number>-*.md:<line>`.

### What is described and not claimed

Behaviour the models have and no document decides on: a value stated as A, B and
A again stays B, since A is found superseded; replacing a superseded or disputed
fact leaves two current ones (hence `Corrected` in the instance of `OneCurrent`);
a task with two pending actions is reconciled by the first that closes; a failed
check marks an active account `verification_failed` until the next one; a merged
read of which an account failed still calls its count exact, with the failure
listed beside it; late receipts of WhatsApp overwrite later ones; a provider that
never ends a transcript is polled for ever.

## What is proved

With TLAPS, for every value of the constants that satisfies the named assumption
of the module (how its sets and names are related; sets are taken as finite only
where a property counts). Every invariant and every action property of a passing
run is stated by a theorem. `PROJECT.json` ("theorems") lists every result with
its module. TLC checked each inductive invariant below on small instances, and
finds a counterexample to each theorem that makes a hypothesis about leases,
crashes, workers or clocks when that is dropped.

| Module | Theorems | Beyond the assumptions on the constants |
| --- | --- | --- |
| `ScheduleLifecycleProofs` | `TypeCorrect`, `AuthorisedAlways`, `PendingAlwaysLatest`, `R2AlwaysConfirmed`, `GrantsStayRevoked`, `AuthorisationKept`, `WaitingAlwaysAnswerable` | none |
| | `LifecycleKeepsContract`, `PendingAlwaysAhead`, `DecidedOnce` (the refinement) | none |
| `ChannelPipelineProofs` | `PipelineTyped`, `TasksAreReported`, `DependenciesAreKept` | none: leases may run out at any moment |
| | `MessagesInOrder`, `CompletedMessagesAnswered` | `~Overrun` |
| `ScheduledRunsProofs` | `RunsTyped`, `TasksRunTheirRevision`, `OutcomesAreTrue`, `TasksAreOne` | none: any workers, crashes and overlapping leases |
| | `LimitIsKept` | one worker, finitely many runs |
| `RoutineClockProofs` | `ClockTyped`, `PolicyIsKept` | none: any rules, any change of clocks |
| | `OccurrencesAreNew`, `NothingToCatchUp` | `FoldBy = 0` |
| `ExternalActionsProofs` | `ActionsTyped`, `ConfirmedBeforeWritten`, `ClosedWritesNoMore` | none: any workers, crashes and overlapping leases |
| | `WriteConsumesConfirmation` | not a routine, `MaxCrashes = 0` |
| | `KnownWriteNotRepeated`, `GrantIsKept` | `~Overrun`; for the second, finitely many calls |
| `SuiteProofs`: routines | `RoutinesTyped`, `RoutineRunsAreTrue`, `RoutinesRunWhenPromised`, `RoutinesRunOnce` | the runs of `Runs`; the suite's instances for the rest |
| `SuiteProofs`: queues | `QueuesTyped`, `RowsAgreeInQueues`, `DoneStaysInQueues` | workers keep their lease (for a deleted source and for the cycle they need not); an instance at the edge may end, or, if there is one, its job be refused |
| `MemoryProofs` | `MemoryTypes`, `OneAnswer`, `StaysBacked`, `BackedIsNotHidden`, `UserIsNotOverruled` | one predicate, one extraction at a time; for the first, users correct what is current |
| | `OneList`, `StaysGrounded` | none: any rows, words, queries and limits; any facts and sources |
| | `DaysAreKept` | an outage shorter than the window, lines that complete on their day |
| `ServiceProofs`: integrations | `WritesStayAuthorised`, `DoneStaysDone` | the suite's instances of ExternalActions |
| | `IntegrationTypes`, `WritesAreMadeOnce`, `ConnectionsAreKept`, `LostIsForGood` | one task of the user at a time; any links, attempts, writes and accounts |
| | `MergedAsOne` | any accounts, messages and limit; answers that are not cut for their size |
| `ServiceProofs`: channels | `ChannelsTyped`, `ChannelsDuplicateNothing`, `ChannelEndsAreKept`, `NobodyIsLeftWaiting` | any users, chats, phones, invitations, URLs and contents; the suite's instances for messages and routines |

`~Overrun`, where it is needed, is what the code relies on: a lease is longer
than the work it covers. `MaxCrashes = 0` in `WriteConsumesConfirmation` is the
absence of a crash between a provider's answer and the commit that records it,
which the code does not survive (`ConsumedOnce` in the table above); one worker
in `LimitIsKept` and `FoldBy = 0` are the same kind of limit, and so are one
extraction at a time (`OneCurrent` with `Together = 2`), one task at a time
(`LostStaysLost`, `CredentialHeld`), one instance where jobs are refused
(`edge_undone`) and the two conditions on days (`WholeDialogue`).

### The lifecycle of a routine

`TypeCorrect` rests on the lemmas `SetRow`, `CloseTables`, `CreateTable` and
their neighbours, which say what updating a row of a table does; `RowsWritten`
and `AnswerTypes` apply them to each action. `AuthorisedRevision` and
`PendingIsLatest` are not inductive. `Authority` strengthens them, one routine at
a time: the grant in force is the current revision's (`InForce`), the one that
waits is the latest version's (`Waiting`), an id that is not in use has neither a
row nor a grant (`Unused`), and a draft has never run. The last is needed since
the failure of a run may overwrite any status, and a draft so overwritten would
keep a pending grant it no longer awaits; the third because creating a routine
would otherwise find old grants beside its first.

The theorems about grants rest on it and on two descriptions of a step. `Moved`
says how a grant may change: it is created waiting, or in force when it has no
external effects; it is revoked; or it comes into force by an executed action of
its own revision, answered by another message than the one that asked.
`StepMoves` proves it action by action and `StepKeepsExecuted` that no step
touches an executed action, which is all that `R2Confirmed` needs to be
inductive; the two action properties follow from `Moved` alone. `WaitsAnswerable`
says the same of the actions: a grant that waits after a step can be answered if
it could before. There `Authority` is what excludes a refused answer that closes
the last action of a version still waiting.

That the lifecycle keeps its contract takes two more invariants. A confirmation
or a cancellation sets the routine's row from the version it answers, so it could
put back a revision that was replaced, or drop one that is in force: `PendingAhead`
(what waits is later than what runs) and `OneLiveAnswer` (one action at most can
be answered for a version, and none for one that is in force) exclude it. Under
them `Shows` relates the two rows of a routine before and after each action, the
lemmas `Looks...` say which step of `RoutineContract` a change of them is, and
one lemma for each action of `ScheduleLifecycle` says which of those it makes.

### Messages, tasks and deliveries

`Answers` is inductive whatever the leases do: a result that depends on an
acknowledgment is taken up only when that was delivered (`TakenAfterAck`), what a
worker has sent or a row says was sent has reached the channel
(`SentWasDelivered`), and what a worker has in hand exists (`JobsExist`); a
second worker on the same row can only repeat what the first one did. `Leases` is
inductive when leases outlast the work: who has a row in hand holds its lease
(`HoldsLease`), alone (`Exclusive`), and what a worker knows of the task of its
message is still so when it replies (`KnowsItsTask`). That last part is what a
slow worker breaks: it replies without the task that another one delegated
meanwhile.

### Runs

`RunsInvariant` places the revisions a worker sees in order: the run's, at most
the one that was read, at most the routine's (`RunsBehind`, `JobFits`); after the
grant of the run's revision was found in force they are one, so that the task is
given the right specification though three statements read three states.
`Limited` adds that what a worker counted still bounds the runs of the user when
it commits its claim, since with one worker nothing else makes a run running.

The user of `ScheduledRuns` is any lifecycle that keeps `RoutineContract`:
`LifecycleKeepsContract` is the other half, so that these theorems hold of the
lifecycle as it is modelled.

### The clock

`ClockInvariant` adds to the types that runs are of the past and not dispatched
before they are due (`RunsPast`), and that without a change of clocks what is
next is later than all there was (`NextIsNew`). The lemma `NextOccurrenceIs` is
the fact about recurrence they need: what a rule gives after an instant is after
it, which a repeated hour makes false. `MinIsLeast` gives the least of a set of
instants from the well-foundedness of the naturals.

### Writes at other services

`ActionsInvariant` says that what the tables record of a call agrees (`Fits`),
that a write is proposed under one call id only (`ProposedOnce`), and that a turn
with an open transaction has the pending action its message confirms (`Turns`).
`Consumed` adds that a write that reached the provider has its pending action
closed or is the one in hand. For routines, `Exclusive` (one worker at a time has
the task) keeps true what a worker looked up before its call: that no record of
the same write is visible (`Unknown`), and that the grant has room (`Room`).

### Sources, voice messages, the edge and the cycle

`SourcesInv` says that a worker has its source for itself, and that its job is
running under its lease or was failed by the deletion of the source
(`SourcesInHand`); that what the tables say of a source that was not deleted
agrees (`Agrees`); and that a job of which the end was told is never taken again
(`Told`). The middle one alone is `JobAndSourceAgree`, and it is not inductive: a
second worker on the same job would make a failure of the first one's success.
`TriesCounted` counts: a job in the queue was claimed fewer times than retries
and crashes allow, which is why `attempts` is bounded although it is compared
only when a job fails.

`AudioInv` is the same for voice messages (`VoicesInHand`), with two additions.
A worker goes on from what it claimed, and that is still so, though the call and
the commit after it are two steps; and a transcript belongs to one job, or to the
worker that has just asked for it (`ApartTranscripts`), without which the
deletion of one could take another's text.

At the edge, `RowsAreKept` says that the rows are a sequence without repetition,
with a message in it exactly when it is stored; deleting from it takes the
lemma `RowIsRemoved`. `TextsInv` adds that what is about to be answered is
stored. `VoicesInv`, for the one instance whose jobs may be refused, adds that it
takes back only what Telegram has no answer for: with two, this is what
`edge_undone` shows to fail.

For the cycle, `PastIsDone` (a scan the cycle has decided on and whose stage is
past was run) makes `ScanIsDone` a property of one step, and `CycleCounts` adds
that a process that has exited is between two cycles.

### The memory

`LedgerInv` rests on `ReadingHolds`: what an extraction has read of the facts is
still so when it commits, since with `Together = 1` no other acts meanwhile; and
on `AgesAreOrder`: ages number the stored facts, so that the one a deletion
restores is determined. Deletion goes through the facts a source supports one by
one; `ForgetOne` says what a single step does to the ledger, and the fold over
all of them keeps it, by going from each element to the next (`GoingOn`).
`OneCurrent` is then inductive for users who correct what is current (`OneOf`).
`PromisesInv` is `CommitmentBacked` itself, and so are the properties of
entities.

`PagesInv` says that all rows from the cursor on were seen and that none was seen
twice. It needs what `Newest` returns for every set and limit, proved from the
cardinality of finite sets (`NewestFill`, `NewestEnds`), and `PageOfBoth`: two
kinds of rows, each looked up one beyond the limit, give the page of all of
them. Looking one fewer up would not. `AnswersInv` follows a question from the
choice of facts to the answer, while sources go.

`DailyInv` says that a closed day is in the chunks its dialogue still has, which
no step changes once the day is over (`ClosedOnce`); that two workers with the
same day have planned the same (`PlansHold`); and that a day that is not closed
is as old as the outage is long (`LateAsOutage`), so that an outage shorter than
the window loses none. That every line is in exactly one chunk is arithmetic on
the indices of the lines (`OneChunk`, `ChunksAreParts`).

### Connections, accounts and merged reads

`LinkedInv` relates what a task has loaded of its accounts to what they are: an
account it saw pending may be active by now, and nothing else may differ
(`LoadedHolds`). `BitrixInv` has, for each link, what its integration, its
request and its confirmation allow together (`RowOK`); that the row a task has
loaded is still the row; and that a write that reached Bitrix24 is open or
recorded. `ReadingInv` says that the merged list was made of the answers as they
were, each the newest of one account (`Newest` again); that the newest of the
newest are the newest of all is the lemma that `MergedAsOne` takes.

`AccountsInv`: active rows are verified, addresses are not shared, identities
pair chats and users, and an invitation that is being accepted is pending and is
being accepted once; the row lock of the SQL function is what makes the last
part inductive. `WebhooksInv`: while a command makes a URL none is active
(`CreatedAlone`, by the lock on the row of the user), one that is active was
delivered or still will be, and the outcome that was told is the source's.

### The suites

A behaviour of a suite is one of each part, since the others stay as they begin.
The instances of ScheduleLifecycle, ScheduledRuns, RoutineClock, ChannelPipeline
and ExternalActions are of the modules that prove them, whose theorems are cited
under assumptions the suites state and TLC evaluates. The other parts are proved
where the suite is, with the suite's constants. `QueueTypes` leaves out the parts
of `queues` whose types are instances of what `PipelineTyped`, `ActionsTyped`,
`IntegrationTypes` and `MemoryTypes` prove.

### Only model-checked

Liveness (`EverythingSettles`, `RoutinesSettle`) is out of this prover's reach,
and the counterexamples of the runs that expect a violation are TLC's by their
nature. Induction over data as the library states it is out of reach as well (its
theorems take an operator). Where a proof needed it, of folds over finite sets
and of the order of rows, it goes by a least counterexample, among the numbers or
the subsets of a finite set (`SmallestNumber`, `GoingOn`). Cardinalities come from
the library's theorems.

## What is left

1. `ScheduleSessions`: the lifecycle with sessions that keep what they loaded
   (`db.py:34`, `expire_on_commit=False`): a tool may decide on the state the
   routine had at an earlier call of the same task.
2. The retry of the model gateway and the delivery receipts of WhatsApp.
3. What stays true with two tasks or two extractions at once: the properties in
   "What the code does not keep" say what does not.

## Not modelled, and why

The parsing, signatures and formatting of the channel adapters and the HTTP calls
behind them (no state, and the models take their outcome as a choice); the model
gateway and the profile (an oracle, and read-only context); HTTP routes and
authentication (thin handlers over the services that are modelled);
`whatsapp-webhook` (it stores texts by the same statements as `EdgeIngress`;
its receipts are left out); the numbers of the heartbeat, audit events, metrics
and wording; evaluation, deployment scripts and migrations other than the SQL
function of the invitations (offline). Of the configuration and the schema, the
columns, unique keys and session options the modelled services rely on are part
of their modules.
