# A verification of Book2Course (sejong)

Book2Course turns a PDF textbook into a course: an administrator uploads the book, a worker
converts it page by page, students read it and talk to an AI tutor about it, and pay for the
minutes they talk. This directory holds TLA+ models of the parts of the program where the order
of events decides whether it is right, the TLC configurations that check them, and proofs of their
main properties. Paths like `worker.py:42` are relative to the repository's `app/`.

## 1. The system

| Part | Source | State it keeps | Operations | How it meets the others |
|---|---|---|---|---|
| Course endpoints | `main.py` | `jobs` rows, `DATA/<id>/source.pdf` | upload, retry, edit, delete, catalogue, download | rows and folders shared with the worker; several threads and coroutines |
| Queue worker | `worker.py` | its loop's locals, `worker.lock` | recovery, cleanup, claim, spawn, monitor, stop, settle | rows; one subprocess at a time; signals; restarted by Compose or `deploy/start.sh` |
| Job runner, page converter | `runner.py`, `converter.py` | pages and their checkpoints, `book.partial`, `book.zip` | convert page by page, archive, publish, report | rows and the folder; killed with its process group |
| Live minutes | `billing.py`, `main.py` `live_ws` | `users.live_seconds`, `paylink_invoices`, `live_sessions` | reserve, meter, refund, record, correct, checkout, poll, credit | websocket coroutines, threads, a background poller, PayLink over HTTP |
| Live voice proxy | `live.py` | the provider's connection, pending input, resume handle | relay, reconnect, resume, turn pages | browser websocket and provider websocket |
| Batch builders | `enrich.py`, `summary.py` | status files, page and lesson files, `_running`, `test_scores` | start, build, load or generate, save a plan, grade and record a test | background threads, request threads, the filesystem |
| Course builder | `builder.py` | none | detect lessons, suggest and validate a plan | called with a manifest |
| Accounts and quotas | `auth.py`, `main.py` | `users`, `sessions`, `usage` | register, log in and out, count questions | transactions |
| Scale-to-zero variant | `cloud_store.py`, `cloud_job.py`, `cloud_api.py`, `cloud_convert.py` | a leased catalogue blob, a queue, blobs | chunked upload, dispatch, claim, heartbeat, report, purge | blob leases, queue redelivery |
| Tutor, speech, costs | `tutor.py`, `tts.py`, `google_ai.py`, `languages.py`, `costs.py` | caches | HTTP calls to providers | request threads |
| Browser client | `static/*.js`, `android/` | reader and live-session state | rendering, live talk | HTTP and websocket |

What makes these hard: SQLite is the only meeting point of three kinds of process and none of them
holds a transaction over more than a few statements; folders are changed outside transactions; the
worker, its subprocess and the API stop independently; time-outs on two sides (600 s and 660 s)
must not meet; money moves through a payment service that can only be polled. What would make each
part correct is listed with the runs below; what has no model is listed in section 6 with the reason.
`PROJECT.json` lists under `hazards` the lines where each of these bites.

## 2. Modules

| Module | Models | Role |
|---|---|---|
| `CourseCatalog` | the promise of the course endpoints | abstract: a course is being made, ready, failed or removed for good; at most `Capacity` are being made |
| `JobPipeline` | course endpoints, worker and runner composed | detailed; implements `CourseCatalog` under the mapping at its end |
| `LiveBilling` | the prepaid minutes: websockets, corrections, checkouts, pollers | detailed |
| `LiveProxy` | `live.py`: relay, connections and reconnects of one talk, for Gemini and OpenAI | detailed |
| `CloudConversion` | what the scale-to-zero variant promises the owner of a job | abstract |
| `CloudJobs` | `cloud_store.py` and `cloud_job.py` over a queue, a leased catalogue and blobs | detailed; implements `CloudConversion` |
| `AtomicCatalog` | a catalogue changed by atomic transactions | abstract |
| `LeasedCatalog` | `CloudStore.transaction()` step by step, under a lease that may run out | detailed; implements `AtomicCatalog`, which is why `CloudJobs` takes a transaction as one step |
| `LessonPlans` | `builder.py`: lessons found in a book, suggested and validated plans, the course made of them | operators, without state |
| `LessonBuilds` | `summary.py` and its endpoints: the plan, the summaries and the batch that builds them, over files | detailed; uses `LessonPlans` |
| `PageConversion` | `converter.py` and what `runner.py` and `cloud_job.py` do around it: pages, checkpoints, resumption, transfer | detailed |
| `PageBuilds` | `enrich.py` and its endpoints: interactive pages, their batch and their readers, over the files | detailed; extends `PageConversion`, whose manifest and end it depends on |
| `CloudUpload` | `chunk()` and `complete_upload()` of `cloud_store.py` | detailed; extends `LeasedCatalog`, whose transactions it runs in |
| `Accounts` | `auth.py`, its endpoints, the daily allowance and the conversation sent to the tutor | detailed |
| `LessonTests` | tests of `summary.py`: made, shown, graded, recorded | detailed |
| `CostMeter` | the cache of `costs.py` | detailed |
| `Selections` | a list comprehension with a condition: members of a sequence at chosen positions | operators without recursion, so that proofs reach the modules that use them (`Accounts`, `LessonTests`) |
| `JobPipelineProofs`, `LiveBillingProofs`, `LiveProxyProofs`, `CloudJobsProofs` | | theorems about the module they are named after |
| `LeasedCatalogProofs`, `PageConversionProofs`, `LessonBuildsProofs` | | theorems about the module they are named after, and about `CloudUpload`, `PageBuilds` and `LessonPlans`, which are composed with it |
| `RequestsProofs` | | theorems about `Accounts`, `LessonTests` and `CostMeter` |
| `MCJobPipeline`, `MCJobLife`, `MCLiveBilling`, `MCLiveProxy`, `MCCloudJobs`, `MCCloudUpload`, `MCPageBuilds`, `MCLessonBuilds`, `MCRequests` | | the small instances TLC checks |

Definitions named `Mutated form` in a comment are plausible wrong versions of the definition
that follows; they are used by no action. Each property is known to fail when the definition is replaced
by one of them (`mutants` in `PROJECT.json`), so none of them holds by the shape of the model.

### JobPipeline

One step is one SQLite transaction or one group of file operations of one process.

* `status`, `expired`, `available`, `attempts`, `created` are the columns of `jobs`; `status` also
  tells a row not inserted yet (`absent`) from one deleted (`gone`), which the code cannot see and no
  guard asks. `stale` is the outcome of `created < now-660`. `source`, `partial`, `book` are the files.
* `upload[j]` is the coroutine of `POST /api/jobs` that owns the row: the row is inserted
  (`UploadInsert`), then the folder made and `source.pdf` opened (`UploadOpen`), the body is streamed, the
  row is queued, the reply is decided by `admin_job()`. Any exception removes the folder, then the row, in two steps.
* `RemoveFolder` is `rmtree(ignore_errors=True)`: it may leave any of the files. `escape` is an observer that
  tells why files may lie there that nobody removes any more: `error`, the last removal left some, or
  `late`, the folder was made when the removal was over (`RemovalOver`).
* `request[a]` is an administrator's request between `admin_job()` and its own transaction. What
  happens in between is anything the rest can do, which is the race these handlers must survive.
* `worker`, `current`, `child`, `cancelled`, `seen`, `stopping` are the loop of `worker.run()` and its
  locals. `cleanup()` is four actions: the SELECT, the removal of a folder, the DELETE of its row, the
  commit; from its first DELETE it holds the write lock (`dropped # {}`, `Writable`), and until then
  anything may happen to the rows it selected. `Inspect` and `Settle` are two transactions, as in the code.
* `running[r]`, `rjob[r]` are runner processes. A runner may fail at any point (`RunnerFail`, the
  except branch) or be killed (`RunnerDie`).
* `Terminate` is SIGTERM, `WorkerCrash` and `ApiCrash` are deaths without another line run. A restart
  (`WorkerStart`) is what `run()` does before its loop.
* One constant is a switch about the environment. `OrphansSurvive`: does the runner outlive a worker
  that died? Not under `compose.yaml`, where the container dies with the worker; yes under
  `deploy/start.sh`, which restarts the worker inside the container. A row becomes `stale` at any moment, a
  streaming upload's as well: its 600 s begin after `created` was stamped and after a wait for the lock.

The refinement mapping hides everything but `Phase(j)` and what is shown: an expired row is already
`removed`, although its files and its runner may be there for a while; uploading, queued and
processing are one phase.

### LiveBilling

* `balance` is `users.live_seconds`; `session`, `talker`, `reserved`, `elapsed`, `recorded` are
  one websocket handler each; time passes by `Second`, and the meter may run late.
* The invoice exists twice: `remote` at PayLink (an external service, modelled by what `_call` returns:
  open, paid or canceled) and `invoice` in SQLite. `checkout` tells whether the student got the link:
  without it nobody pays. `old` is the outcome of `created > now - max_age`.
* A poller selects (`todo`), asks (`asking`, `answer`) and applies the answer in three separate steps,
  because it holds no transaction between them; the background task and any number of
  `GET /api/billing` requests do so at once.
* `corrected` and `credits` are observers: they record what corrections and credits changed, and no
  guard reads them.
* A fault is a crash of the process, a call to PayLink that fails, or a transaction that fails.

### LiveProxy

* A step lies between two awaits of one coroutine. `up`, `outs` are `browser_to_gemini()` and what is left
  of the message it relays; `line` is the task of `connection()`; `loop`, `failures`, `resuming` are the
  body of the proxy. `taking` is `state['gemini'] is not None`, `alive` whether the socket works, which
  the coroutines learn only by using it (`Drop`, then `Notice`, `SendBroken` or a failing `Flush`).
* `pending` holds what is said while nobody takes it; a message is a page number or `None` (speech, typed
  text, the two messages that surround OpenAI's page turn). `tutor` is the page the connection was told
  about last, in its setup, its opening turn or a relayed turn.
* `provider` is chosen once. What differs: OpenAI has no resume handle and no `goAway`, and its page turn is
  three messages.
* `missed` is an observer for the turns that the code does not follow (section 5). It stays set once it was: of a talk that
  lost a turn `TutorFollows` says nothing more.
* The connection is opened (`Connect`) after a broken send has raised: the exception needs no round
  trip, the new connection needs several.
* The time a connection lasted is a choice (`lasted`), so are breaks, answers and refusals of a provider. A resume
  handle comes after the setup is complete, as in the Live API.
* `Cut` is `live_ws` cancelling the proxy. It waits in `asyncio.wait()`, which cancels nothing it waits
  for: the connection task runs on until it finds no browser (`NobodyListens`) or breaks.

### CloudJobs

* `row[j]` is the job's entry in the catalogue; each catalogue transaction is one step, and what the code
  does between two transactions (a send, a blob, the next read) is in steps of its own, so anything may
  happen between them.
* `mail[m]` is a slot of the queue. A delivery hides the message and draws a receipt; `Reappear` shows it again,
  and only the last receipt deletes or prolongs it. A message posted twice is two slots.
* `call[c]` is an API request with what it read before the send (`generation`), so `Mark` decides on the
  row as it is then (`StillAsRead`).
* `pc[w]`, `task[w]` are executions of the job. `run` numbers the `run_id` that `claim()` draws. `Check`,
  `Renew`, `Extend`, `Prolong` are the heartbeat; `Refused` and `Accepted` are the fencing of `update_run()`.
* Time is three lapses: of `lease_until`, of a message's visibility, of the slot's lease. With `Stalls`
  a living execution may stall through any of them; without it only the dead lose them, and those that purge, as
  nothing is renewed meanwhile (`Renewing`).
* Left out: the message's time to live, the chunks of an upload (`CloudUpload`), the download allowance, the limit by
  address (it has the form of the daily one), the passing of a day, and `source_ready`, which is set
  wherever it is asked.

### LeasedCatalog

* `at[w]` is where a transaction is, `seen[w]` what it read. A change is named for its writer, so the
  catalogue is a set and a lost update is a missing element. `Lapse` ends the lease at any moment.
  `Holds` is the service's test of a write; the body of the transaction may raise (`Raise`), and the
  process die (`Die`).

### LessonPlans

* A page is what the regular expressions of `builder.py` find in it: the lessons it names, those named in
  its first 80 characters, the entries of a contents page, the title at its top. What the expressions match,
  titles and languages are left out.
* `DetectLessons`, `SuggestPlan`, `ValidPlan`, `PlanLessons` and `BuildCourse` follow the functions of the
  same names; the typical length of a lesson is an order statistic, not a sort. The loop of `detect_lessons()` is the function `Opened`, "how many lessons the first i pages
  have opened"; `round()` is Python's, ties to even. The reference definitions are in the properties: a
  page is in lesson k when the longest chain of pages that open lessons 1, 2, ... up to it has length k.

### LessonBuilds

* `plan`, `tmp`, `built`, `status` are `lesson-plan.json`, its `.tmp`, the `summary-<n>.json` (each as the
  pages it was built from) and `summary-status.json`. `Empty` is a file opened for writing and not written,
  `Garbled` one written by two at once; `_read_json()` takes both for no plan (`Readable`).
* `req[a]` is an administrator's request in a thread of its own: a save goes from `building()` over the
  listing, one file at a time, the opening, the writing and the renaming of the `.tmp`; a build from
  `load_plan()` to `start_batch()`. `file` is what the thread has open, wherever renames have put it.
* `batch` is the thread of `start_batch()`, `running` its entry in `_running`. It is the only writer of the
  status and the summaries, whose replacement is one step therefore; each step between is one. A lesson
  may fail, and any other exception may end the batch (`BatchRaises`), with or without a status written.
* `Crash` ends the process; threads and `_running` are gone, files stay. `Shown` is `read_status()`.
* `sole` and `clean` are observers: `clean` says that since the last save made alone nothing overlapped with a
  save. No guard reads them. Without `clean` the properties about plan and summaries do not hold (section 5).
* Left out: deletion of the course meanwhile (its effect is modelled in `PageBuilds`), the model's text, tests and
  scores (`LessonTests`), a change of the manifest.

### PageConversion

* An attempt is one call of `convert()` with what follows it; `at` and `page` are its place. `png`, `html`, `mark` are
  the three files of each page, and what they hold is the release that wrote them: the PDF and the options of a job never
  change, so `checkpoint_key` tells releases (`ENGINE`) apart and nothing else. `Torn` is a file opened and not
  finished; the checkpoint is written atomically.
* `cloud` chooses the variant: there the folder dies with the execution, and `transfer_checkpoints()` (`Send`,
  one file a step) copies the pages that are done to `saved`, where the next attempt begins.
* `Publish` archives every `.html`, `.png` and `.json` of the folder. `book.made` is what the conversion put there,
  `book.others` the files of builds among them (`BuildFiles`): any in this module, those that are there in `PageBuilds`
  (`BuildFilesHere`), none in the cloud.
* `Stop` is everything that ends an attempt early; `Upgrade` is a deployment of another release between two.
* Left out: the storage limit's and the converter's errors are `Stop`; words, OCR and layout are text; executions that
  overlap (`CloudJobs` says when they do).

### PageBuilds

* `inter` and `tmp` are `interactive-<n>.json` and its `.tmp`; `thread[t]` is a reader's request or the batch, with
  the file it has open, wherever renames have put it. `Locked` is `_lock_for(path)`, which only readers take.
* `status`, `running` and `Shown` are `enrich-status.json`, `_running` and `read_status()`. An exception of the rename
  ends the batch (`BatchRaises`) or the request.
* `Remove` is the worker's `cleanup()` under running threads, `Crash` a restart of the API. Readers
  come when the course is done (`viewable()`), the batch as soon as there is a manifest, as in the code.
* `sole` and `spoilt` are observers: a page is spoilt from the moment the batch and a reader write it at once until
  one of them writes it alone.

### CloudUpload

* A request of an upload is a transaction of `LeasedCatalog` with what surrounds it: `LookChunk` is the read before
  it, `Stage` the block sent to the blob before it, `Commit` the block list committed within it. A block is named for its
  place and content, so a repeated chunk is the same block.
* The row is what the changes in the catalogue make of it (`Listed`, `Finalized`, `RowBlocks`), so what a stalled
  transaction has read and what it is refused are those of `LeasedCatalog`.
* Left out: the dispatch after the completion (`CloudJobs`), sizes, the signature of the first chunk.

### Accounts, LessonTests, CostMeter

* Each request is in a thread of its own, and each transaction or file operation is a step. No step of one
  of these modules touches what another keeps, so `MCRequests` explores each with the others at rest.
* `Accounts`: `Register`/`Insert`/`Verify`/`Enter` are the four parts of a sign-up, of which a sign-in is the last two. A
  password stands for its hash; `with` of a session and `signed` are observers. `Ask` reads the clock, `Count` is
  the transaction. `Messages` is `tutor._messages()`: its three loops are three operators in the code's order.
* `LessonTests`: a reply of the model is a sequence of entries, each with choices and the position of the right one; an
  entry may be damaged as `_parse_test()` expects it. `Questions` shuffles. A tab keeps the test it shows while
  `Build` and `Drop` replace it; `paper` and `marks` are observers.
* `CostMeter`: a number is the position of Azure's answer among all it gave, so that "older" can be said. `seen` is
  what a refresh found cached when it began. `overtaken` is an observer.

## 3. Runs

`tlc -workers 2 -config X.cfg M` for each; the largest takes about three minutes.

| Run | cfg | Question |
|---|---|---|
| `job_life` | `MCJobLife.cfg` | one course, two racing requests of every kind, two process slots, two stops of the worker or one of them of the API; or two courses for one place and one worker, with retries and a stop: one runner at a time, files match the row (completed means complete on disk, gone means nothing left there but what a failed removal left or a late folder holds), accepted means kept unless the upload outlived 660 s, finished courses stay finished, and `JobPipeline` implements `CourseCatalog` |
| `job_live` | `MCJobPipelineLive.cfg` | liveness over restarts: queued courses end, abandoned uploads give their place back, expired courses are removed, with the same two ways out for their files |
| `job_orphan` | `MCJobPipelineOrphan.cfg` | violation: with `deploy/start.sh` a finished course can leave the catalogue |
| `billing` | `MCLiveBilling.cfg` | two tabs, a correction, an invoice with two pollers, a fault: no second is lost or doubled, a session costs at most a block more than its talk, an invoice is credited eventually while it is young |
| `live_talk` | `MCLiveProxy.cfg` | either provider, up to three connections that break anywhere, four inputs, a queue that overflows: the tutor follows the student's page, and the talk goes on or ends |
| `cloud_pair` | `MCCloudJobsPair.cfg` | two jobs, two calls and two executions, which may purge for longer than they hold their leases, against every limit: attempts, messages that are still owed, what clients are told, and `CloudJobs` implements `CloudConversion` |
| `cloud_live` | `MCCloudJobsLive.cfg` | accepted jobs settle over two faults; conversions are serialized; deleted documents are purged |
| `cloud_fence` | `MCCloudJobsFence.cfg` | violation: a stalled execution completes a job that was told failed |
| `uploads` | `MCCloudUpload.cfg` | three requests of one upload in one or two chunks, under a lease that lapses at will: acknowledged chunks stay, the source is what was sent, transactions are atomic and end |
| `course_pages` | `MCPageBuilds.cfg` | a conversion that is interrupted twice and upgraded once, on the volume and in the cloud, and beside it a batch, two readers, a removal, a restart: what the conversion puts in the book is as from nothing, pages are whole and made for an administrator, what a thread wrote is there to rename, builds and readers end |
| `lesson_builds` | `MCLessonBuilds.cfg` | two administrators save plans and build lessons, four requests and a restart: summaries and plan agree, "done" means built, no build hangs; and the algorithms of `builder.py` over 4436 books |
| `requests` | `MCRequests.cfg` | two browsers, two names, a restart; a lesson built twice and two tabs; two refreshes of the costs: accounts and sessions hold, the allowance holds in every period of a day, conversations open on the student, tests are graded fairly, scores are kept, good numbers stay |

Type invariants, and the properties that proofs establish for all values of the constants and that need an
instance of their own to be interesting, are no part of a run: `ActiveBounded`, `ProcessingOwned`, `AttemptsBounded`;
`NeverOverdrawn`, `CreditedOnce`, `OnlyPaidCredited`; `GreetedFirst`; `PlanIntact`; `NoLostUpdate`; and `ResultsThere`,
`OneOwner` and `AnsweredForGood`, which are about executions that stall (section 4). The type invariant of every module is proved.

**Bounds.** A row's life involves one upload, the worker and requests, so one course with two
requests meets every race between handlers of the same row; two courses are needed only for the
capacity, the queue's order and for a claim that is not the row swept, so `MCJobLife` gives them fewer requests
and stops (`Fewer`). Two process slots are one more
than the code means to use, so that a second runner can appear. Two worker stops are a stop during the
recovery from a stop; in `job_life` a crash of the API may take the place of one. The half with two courses leaves out
removals that fail and uploads that outlive 660 s, which are about one row each and are in the other half.
`MaxAttempts` is 2, and not the code's 3: two attempts are one that is retried and one that may not be again; that
three are counted right is proved for every value (`AttemptsAreBounded`). In
`LiveBilling` the block is 2, the free time 3: the second block of a session is a partial one, which is
where the arithmetic could be wrong, and a talk of 2 s (`MaxTalk`) uses up the first and
reserves the second, which is given back (`LossIsBounded` is proved for every length). In `LiveProxy` three connections
are a reconnect from a reconnect, and an endless cycle of connections that are ready and then break is outside the
bound, so `TalkGoesOnOrEnds` says nothing of it; four inputs against a queue of three overflow it, and OpenAI's page turn
alone fills it. In `CloudJobs` two executions of one job are a superseded one and its successor, and two
slots of the queue a message and its duplicate; `cloud_pair` has a single slot, so that two jobs fit into
the time, and the runs with one job have the duplicates. Two constraints keep a run from following what no property
asks about: of two jobs one is in sight once something failed (`OneInSight`), and after two faults a job out of sight,
which has settled for good, is not followed (`FollowedInSight`). In `CloudUpload` three requests are two that contradict
each other and a completion between them, and a lease that lapses under the first makes the second one its
successor; there everyone tries the lease once (`MaxTries`), of the code's 30 times, as a refusal ends a try without a
change. In `PageBuilds` two pages are one done and one at work, two stops an interrupted resumption, and a second release
one that must not believe the first; a batch and two readers are every pair that shares a `.tmp`; stops, requests and
reads share a bound (`MaxRequests`), so that what happens while a course is converted and after it are
explored side by side. In `Accounts` four requests are two sign-ups and two sign-ins, or a question after each; the
day is two moments long, a session's life one, so both end within the run. In `LessonTests` the
replies hold each kind of damage, and two builds are a test and the one that replaces it. In `LessonBuilds` two
administrators are two saves, or a save and a build, that meet; four requests are such a pair after a pair, or
a save alone after a pair, which must repair what the pair broke. The algorithms of `LessonPlans` need no
steps: they are checked on every book of up to four pages of six kinds and on books with one or two contents
pages, of which one lesson is missing or garbled, and on one whose contents begin with a lesson 0; contents of more than a hundred
lessons are left to the proof; requests are explored for one book (`Explored`), as
they depend on a book only through the plans that are valid for it. `CHECK_DEADLOCK FALSE` is needed there, in `uploads`,
in `course_pages` and in `requests`: when the requests are used up nothing is left to do. The counters (`workerStops`, `apiStops`, `faults`,
`corrections`, `elapsed`, `inputs`, `connections`, `requests`, `crashes`, `stops`, `release`, `tries`, `clock`, `restarts`, `builds`,
`submits`, `time`, `answers`, `starts`) are bounded in the guards of the actions that raise them, by
constants named `Max...`; the proofs hold for every value of these. Symmetry is used in safety runs only.

**Fairness.**

* `job_live`: the worker's loop (every wait in it ends by itself: `sleep(1)`, the database's time-out, the
  runner's deadline, the kill in `stop_process`) and the clock. Nothing is assumed of uploads, of administrators, of
  the conversion, or of crashes. There is one job: that others do not keep it from its turn is not checked.
* `billing`: the background poller, which `poll_payments()` repeats for ever and after any exception; faults
  are finitely many.
* `live_talk`: the relay and the loop, which the event loop runs when they can; a connection attempt
  succeeds or fails (`open_timeout`); a setup is answered or the connection breaks (`ping_interval=20`). A
  student need not speak or leave, and a connection need not break.
* `cloud_live`: calls and executions go on until they end or fail; time limits pass; the scaler starts
  executions; strong fairness where an opportunity comes and goes: owners who list their jobs
  (`repair_dispatches`), delivery of a message that is visible now and then, and a conversion that ends.
* `lesson_builds`: the thread of a batch goes on; a call in it that stays silent for 120 s fails (`enrich.py:114`) and
  `run()` catches everything. Nothing is assumed of administrators, whose threads may hang, nor of restarts.
* `uploads`: a request that lives goes on, and a lease that nobody renews lapses.
* `course_pages`: the thread of a batch and those of readers go on, for the same two reasons (a call fails after
  120 s, `run()` catches everything). Nothing is assumed of the conversion, which may stay where it is, nor that anyone asks.

## 4. Proofs

`tlapm M.tla` for each of the eight proof modules. Every invariant, action property and refinement that a passing
run checks is also a theorem; the liveness properties are not. The theorems hold for any number of
jobs, requests, runner slots, books, plans, students, sessions, invoices, pollers, pages, connections, messages,
executions and writers, any capacity, block and package, and any number of stops and faults.

*JobPipeline.* `TypeCorrect` is proved from `TypeInv`, which adds that the loop's `current` and `child`
are set where they are used. The others rest on `Ownership`, the statement of who may touch which row:
a streaming upload owns an `uploading` row; a living runner is the child the worker waits for and its row
is processing; a claimed row is processing until its runner starts; what `Inspect` read is still so at
`Settle` about being processing; a row chosen by cleanup is expired or an upload. None of
these is inductive alone: that a completed course stays needs that no upload, runner or verdict can be
about a completed row, each of which needs the others. With `Ownership`, `CoursesStay` and
`NoJobStranded` follow, and `CapacityKept` by the cardinality of the active set, which grows only behind
the admission test. `AttemptsAreBounded` needs a second invariant that follows a job around the queue: a
queued job has an attempt to spare, an interrupted one too, its interruption being counted in
`workerStops`. `RunsAlone` needs no more than that a living runner is the one `child`. `RowsMatchFiles` needs
what the files are before their row says so (`FilesInv`): a runner about to report has published a whole
archive, whoever is about to delete a row has removed its folder, or met an error, or the folder was made after it; the
same two ways out are in what it says. `AcceptedStays` needs that what cleanup has
chosen is expired, was never accepted or was stale before (`AcceptedInv`).
`PipelineImplementsCatalog` goes through the phases of the rows: to them a step is nothing or one of
`MapsToBegin`, `MapsToFinish`, `MapsToToggle` and `MapsToRemove`, the last for all the rows that cleanup
commits at once. All but `TypeCorrect` assume `~OrphansSurvive`, the deployment of `compose.yaml`, and
`job_orphan` shows the assumption is needed.

*LiveBilling.* The invariant joins the types with: a session past its first reservation has a student; a
row was made by a finished checkout; an answer `paid` held by a poller is the truth for good, `paid`
being final at PayLink; minutes were credited for a row exactly when it says paid; and what is reserved
runs at most one block ahead of the talk. `BalanceNeverOverdrawn`, `InvoicesCreditedOnce`,
`CreditedWhenPaid` and `LossIsBounded` follow. `SecondsConserved` is an equation between sums over the sessions
and the invoices of a student. A sum is a cardinality (of the pairs of a member and a number up to its amount),
so that no induction is needed: a step changes one member's amount, and the sum by as much (`TotalMoves`).

*LiveProxy.* Four parts. `Agreed` ties the coroutines together: `open` is when input is taken, a send in
progress keeps its connection's successor from opening. `Greeting` says that on the first connection nothing was said
yet, and that Gemini's handle, a resumption and taking input each come after the opening turn. `Following`
is about two queues, what is being relayed and `pending` before it: the last page on its way is the page
being taught, and where neither holds a page the tutor was told about it. Either half alone breaks: a send
that fails moves a page from one queue to the other, a flush that fails drops it, and only the setup of
the next connection, which names the current page, makes up for that. The lemmas about sequences
(`TailFacts`, `AppendFacts`) say what taking and adding one message does to the last page of a queue.

*CloudJobs.* The invariant is one of records (`Typed`), of what a message in the queue says about its row
(`Posted`), of what a call and an execution have read (`Called`, `Tasked`), of rows that are settled (`Settled`) and
of messages still owed (`Announced`). `MessageKept` and `AnsweredOnce` follow. `SingleOwner` adds that a `run`
is drawn once per row, `FilesThere` that a purge reaches only jobs out of sight. `AllowanceAccounted` counts:
only a claim raises the number of executions or of attempts, and it raises both. Four theorems assume `~Stalls`,
which `cloud_fence` shows to be needed for what clients are told. `ConversionAlone` says that whoever receives, claims or
converts holds the slot (`SlotHeld`), which a purge may lose, and who acknowledges without a purge (`AckHeld`);
`SettledStays` adds that whoever may change a row finds it as its claim left it (`Owned`), which leaves few moves for a row (`RowMove`); `CloudKeepsPromise` takes each of them to a step of `CloudConversion`.
`DeletionReaches` says who still knows of a deleted job: a request that will tell of it, a delete message, or nobody, when
there are no files and no worker that stores any (`Purged`); and who acknowledges such a message has purged, nothing was
stored since, and nobody converts its job (`Held`), although the slot may be another's by then.

*LeasedCatalog.* Whoever still holds the lease and has read knows the catalogue as it is (`ReadsAreFresh`);
with it each write appends one change, so `TransactionsImplementAtomic` is a step-by-step refinement, and
`UpdatesKept` follows.

*CloudUpload.* Every step of an upload is a step of `LeasedCatalog` or leaves it alone (`UploadIsAtomic`), so its
invariant holds here. `UInv` adds that chunks are listed in order and once (`Ordered`), that what is listed or
about to be is staged or committed (`Staged`), and that only the whole file is ever committed
(`Sealed`). The last two need each other: a commit drops what is staged, and happens only where nothing remains
to be listed. `ChunksStay` and `SourceWhole` follow.

*LessonBuilds.* `SummariesMatchPlan`, `PlanStaysWhole` and `DoneIsBuilt` say what holds whenever the process is
killed, for plans of any length. Neither is inductive. `SoleSave` is what a save that nothing has touched has
done so far: each summary left is one it will still look at or one of its plan, then all are of its plan, then
the `.tmp` holds its plan. `CleanWork` says that all who are at work hold the plan that is on disk, and
`BatchDone` that a batch without failures has built the rows before the one it is at. That the observers
are as they should be when requests overlap is the hard part: a build that has read the plan before a save ends
must not start after it unnoticed.

*LessonPlans.* Its theorems are about books of any number of pages. An induction is put as a least
counterexample: a set of naturals that is not empty has a least member (`LeastNat`), which is not zero and has no
predecessor in the set. `PagesWhereTheyBelong` rests on the order of the rows of a valid plan (`RowsApart`).
`DetectionFindsTheChain` says of the loop that its count rises by at most one a page, so that every lesson counted
has its page (`CountReaches`), and that no chain of lessons is ahead of the count (`ChainIsCount`).
`CourseIsOfTheBook` joins the two. `SuggestionCanBeSaved` is arithmetic: the starts of garbled lessons are interpolated, rounded to even, and still
rise (`RoundRises`, `StartsRise`) where there is a page for each lesson. What a contents page is parsed into
(`TocEntries`, a fold) is not opened: the proof holds whatever it yields.

*PageConversion.* `BookIsAsFromNothing` says that resumption is invisible, `FinishedPagesAreKept` that it is worth it. The
invariant has five parts. `Truthful` says that a checkpoint of the present release stands beside files of
that release, in the folder and among the blobs; of older ones it says nothing, as the files beside them may have been
overwritten. It is the order of the writes that keeps it: `InHand` follows the page at work, whose checkpoint is not of this
release until both files are, and `Transfer` the page on its way, whose checkpoint is sent last. `Progress` says
that the list `pages` is the pages before the one at work; `Checkpoints` that no checkpoint is of a release to
come, without which an upgrade would make an old one true.

*PageBuilds.* A step of a build is a step of the conversion or leaves it alone, so what was proved of the book holds
beside it, for whatever files of builds the archive takes up (`BuildsLeaveTheBook`). `BInv` says that readers of one page take turns under its lock (`Turns`); that a
writer nobody has joined is the only one of its page and finds the `.tmp` as it left it (`Alone`); that who
writes a page that is not spoilt is such a writer (`Unspoilt`); and that the page a client was let in for is
there until the course is removed (`Found`). Of a writer that was joined nothing is said, which is what
the observer `sole` is for. `ServedWhole`, `WritersKeepTheirFile` and `ClientsAreServed` follow.

*Accounts, LessonTests, CostMeter.* That an account stays as it was told needs that a session under way remembers what it has compared
(`Remembered`), that only a name without an account gets one (`Given`), and that roles only rise. The
allowance is an argument about sets: a question is counted at a time that may be past when it is stored, so later
questions may be there already; they are counted too, `Used` having no upper end, which is why the bound holds in every
period and not only in the one that ends now. `GoodNumbersStay` needs that what a refresh remembers is what is shown
as long as it is not overtaken, and that a number it has got is younger than any that was shown when it began.

`ConversationsOpen` and `GradesAreFair` are about lists that leave members out, which `Selections` describes by
ranks: the k-th member kept is the one with k kept positions up to it (`RanksNumber`), and what is kept of a
beginning is a beginning (`PrefixStays`). So the marked choice is still at its position when none before it
was left out, and the shuffle, a bijection, carries it along. A test on a screen is the one on disk if they were made
at once (`Dated`), so the answers to it are graded by its marks. `BestScoreKept` follows a row result by result.

*For all values only.* `NoJobStranded`, `CapacityKept`, `AttemptsAreBounded`, `BalanceNeverOverdrawn`,
`InvoicesCreditedOnce`, `AnsweredOnce`, `SingleOwner`, `FilesThere`, `UpdatesKept`, `TutorSpeaksFirst` and `PlanStaysWhole` prove
properties that no run repeats. The three of `CloudJobs` hold with stalls and duplicated messages.

*Only model-checked:* the eight liveness properties (`QueuedSettles`, `GivenBack`, `PaidIsCredited`, `TalkGoesOnOrEnds`,
`AcceptedSettles`, `EveryoneEnds`, `BuildsEnd`, `BuildEnds`): fairness and `ENABLED` are out of the prover's reach.

## 5. What the models found

Shown by a run:

1. **A finished course can be taken back** (`job_orphan`) where the worker is restarted beside its runner.
2. **A failed job can become completed** (`cloud_fence`): nothing changes `run_id` when a job is failed.

Shown by configurations of their own, each of a property that the code does not keep and that the runs check with the
exception named (`tlc -config MCJobPipelineLate.cfg MCJobPipeline`, and likewise `MCJobPipelineLeft.cfg` of the same module and
`MCPageBuildsExtras.cfg` of `MCPageBuilds`; each ends with a counterexample within seconds):

3. **An accepted course can be swept** (`AcceptedKeptLate`; `AcceptedKept` leaves out uploads that outlived 660 s):
   `cleanup()` (`worker.py:18`) deletes by id what it selected before it held the lock. An upload's 600 s begin after its
   `created` stamp (`main.py:291`) has waited up to 60 s for the lock, and its last update may wait as long, so it can
   end after 660 s.
4. **A deleted course can stay on disk** (`DeletionIsPhysical`; `FilesMatchRow` and `GivenBack` leave out folders made
   too late, and removals that met an error), although the repository's `README.md:89` has `DELETE` "schedule physical
   deletion": `upload()` makes the folder (`main.py:307`) after its row is committed (`main.py:304`). When the course is deleted
   and swept in between, the source lies in a folder that no row names.
5. **Files of builds can enter the book** (`OnlyTheBook`; `BookAsFromNothing` is about what the conversion puts there),
   which the repository's `README.md:31` describes without them: `runner.py:24` archives every `.html`, `.png` and `.json` of
   the folder, and a manifest is enough to start a build (`main.py:477`): between the manifest and the archive, or before a retry.

Met while modelling, told here and not shown:

6. Unused seconds are not always refunded, as `main.py:635` has it: the first block is reserved at `main.py:637`,
   the `finally` that refunds belongs to a `try` that begins at `main.py:679`. A client that is gone at the send
   in between (`main.py:643`, `LeaveEarly`) loses the block.
7. Attempts are not capped at three, as the repository's `README.md:73` has it: recovery and SIGTERM
   re-queue without asking. `AttemptsBounded` is the bound that holds.
8. An invoice paid more than a day after it was made is not polled any more (`billing.py:160`).
9. A stalled execution converts on beside its successor (`cloud_job.py:126`), although
   `deploy/azure/README.md:31` says that a lease serializes conversion; `ConversionSerialized` holds without stalls.
10. A page turned while the first connection is set up is cleared (`live.py:280`), and the opening turn
   is about the page the talk was opened on; a page turned or a word said during the opening turn waits
   in `pending` for the next reconnect (`live.py:284`).
11. When OpenAI's first connection breaks before it is ready, the next one resumes a talk that never
   began: neither `ready` nor the opening turn is ever sent (`live.py:475`). `GreetedFirst` claims the
   order for Gemini only, where there is no handle to resume from.
12. After `Cut` the provider's connection lives on until it finds no browser, and the tokens of the last
   turn are counted after `record_session()` has stored the usage.

13. Saves and builds that overlap leave summaries of other pages than the plan's: `save_plan()` asks
   `building()` without a lock, and a build holds the plan it read before it started (`summary.py:147`,
   `main.py:534`). `BuiltMatchesPlan` holds from the next save made alone.
14. Two saves share `lesson-plan.tmp` (`summary.py:122`): one of them fails with 500, and the plan may be torn,
   which reads as no plan.
15. A suggested plan is refused when it is saved unchanged where garbled lessons have fewer printed pages
   between their neighbours than there are lessons, or the contents page leads beyond the book, lists a lesson 0 or spans
   more than a hundred lessons (`builder.py:134`): `SuggestionSaves` is claimed for the others.
16. A student's answers are graded against the test of the moment (`main.py:574`), whose choices are shuffled
   anew by each build (`summary.py:259`): after a rebuild the answers to the test shown are graded as if they were
   answers to the new one. `best` may exceed `total` in `test_scores` for the same reason (`summary.py:366`).
17. The batch and a reader who is an administrator share the `.tmp` of a page (`enrich.py:202`): the second rename finds no
   file, and ends the batch or the request with 500; the page may be spoilt until it is written alone, and the
   reader who then has it made may be a client (`main.py:453` asks only whether the file is there). A batch of either kind
   makes the folder of a deleted course again (`enrich.py:170`, `summary.py:121`), and may be started before the course is
   completed: a manifest is enough (5).
18. `_parse_test()` leaves out choices that are no text before it uses the model's `answer` as a position
   (`summary.py:253-257`): when one before the right choice, or that one, is left out, another choice is marked as right.
   `FairGrade` is claimed for the others.
19. A refresh of the costs that was overtaken falls back on what was cached when it began (`costs.py:287`), so it may hide
   or age good numbers, which `costs.py:289` means to keep. `LastGoodNumbers` is claimed for those not overtaken.
20. Of two sign-ups of one name the second is answered with 500 instead of 409: the primary key refuses what
   the look-up let pass (`auth.py:66-68`). A question is counted against the allowance even when the provider fails
   (`main.py:598`). `seed_admin()` makes whoever has the configured name an administrator (`auth.py:52`).
21. The sum of file sizes (`converter.py:146`) may meet a `.tmp` or a file that is gone, and fail a conversion, when a batch
   writes into the same folder. After a return to an earlier `ENGINE` its old checkpoints are believed beside files the later
   one has overwritten; `Upgrade` only goes forward.
22. A stalled completion commits the same blocks again after another has done so (`cloud_store.py:175`); the
   content does not change, which is why `SourceIsWhatWasSent` holds.
23. `stopLive()` while `startLive()` waits for the microphone (`course.js:796`) has nothing to release yet: the microphone
   is acquired after it, and a talk begins that is not shown. The `onclose` of a closed socket (`course.js:833`) and a delayed
   `stopLive` (`course.js:824`) may end the next talk.
24. The speech cache (`tts.py:73-75`) is used without a lock: an entry that is evicted between the test and the
   `move_to_end` fails the request.

## 6. Plan

Done: the course pipeline, the ledger, the voice proxy, the scale-to-zero variant with its catalogue and uploads, the
conversion of pages, interactive pages, lesson plans with their builds, tests and scores, accounts and quotas, the cost meter.
Every safety property that a passing run checks is proved. What is left:

1. The safety half of the arguments for liveness: that what a waiting upload, invoice, talk or build needs in order to go on is
   there, as `MessageKept` and `NoJobStranded` have it for jobs.
2. `TocEntries`: what the fold over a contents page yields, which the proofs do not open.

The number of proof modules stays at eight: a module joins the proofs of the one it is composed with.

### Not modelled

* Rendering, OCR, the layout of words, prompts, the parsing of HTTP answers, the texts of pages and
  languages (`languages.py`, `google_ai.py`, most of `tutor.py`): external tools and text, without order of their own.
* `scripts/azure_credit_report.py`: a report that is run by hand, sequential reading and formatting. `costs.ai_summary()`:
  sums over the database.
* The speech cache of `tts.py`: two statements, told in section 5.
* Endpoints that only read; HTTP signatures; the counting of tokens; the transcript OpenAI is given.
* The browser client and the Android shell: their state is that of browser interfaces, whose behaviour the
  repository does not say; what was met there is told in section 5.
* The schema's migrations, infrastructure templates, and in the scale-to-zero variant the download allowance and the
  passing of a day.
