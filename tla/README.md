# Verification of the learning platform

This directory holds TLA+ models of parts of this repository (a fork of edx-platform: the
LMS, Studio and their common library), TLC configurations that check the models on small
instances, and proofs checked by TLAPS. The core is the sending of bulk course email by
celery: the most concurrent part of the code, and the one where a mistake cannot be taken
back, because a mail has gone out. Around it stand the other parts in which several requests,
tasks or services change the same rows: instructor tasks, orders and enrolments, problem
attempts with the external grader, photo verification and certificates, and the split
modulestore.

Paths are relative to `src/`; `subtasks.py`, `tasks_helper.py` and `api_helper.py` are under
`lms/djangoapps/instructor_task/`, `tasks.py` is `lms/djangoapps/bulk_email/tasks.py`,
`split.py` is `common/lib/xmodule/xmodule/modulestore/split_mongo/split.py`.

## The modules

| Module | Models | Source |
|---|---|---|
| `EmailSubtask` | the subtasks of one email: check, lock, sending, saving, retry, release | `subtasks.py` 109–256, 318–554; `tasks.py` 256–687 |
| `EmailDelivery` | what the subtasks promise together (abstract) | – |
| `EmailSubtaskRefinement` | the mapping of the first to the second | – |
| `SubtaskQueueing` | cutting a queryset into the lists of subtasks | `subtasks.py` 32–106, 259–315 |
| `BulkEmailTask` | the parent task around the subtasks | `tasks.py` 158–252; `tasks_helper.py` 57–123, 149–207; `models.py` 85–120 |
| `InstructorTasks` | reserving, submitting, ending and asking about a task | `api_helper.py`, `models.py`, `tasks_helper.py` |
| `ShoppingCart` | one user's orders, their purchase and refund, and the enrolments | `shoppingcart/models.py`, `views.py`, `processors/CyberSource.py`; `student/models.py` |
| `ProblemAttempts` | one student's state of one problem, with the external grader | `capa_base.py`, `capa_problem.py`, `correctmap.py`; `module_render.py`, `model_data.py`; `tasks_helper.py` |
| `PhotoVerification` | one user's attempts, judged by Software Secure | `verify_student/models.py`, `views.py`, the retry command |
| `Certificates` | the certificate, composed with `PhotoVerification` | `certificates/queue.py`, `views.py`, `models.py` |
| `SplitModulestore` | one course: index, structures, edits, publishing | `split.py`, `mongo_connection.py` |
| `EmailSubtaskProofs` | proofs: types, retry budget, the lock, nobody forgotten, optouts, nobody stranded; nobody mailed twice, ledger, progress, the refinement | – |
| `BulkEmailTaskProofs` | proofs: types, ledger, SUCCESS and decisions with the parent, nobody mailed twice | – |
| `SubtaskQueueingProofs` | proofs: types, everybody in one list, lists and ids agree | – |
| `InstructorTasksProofs` | proofs: types, one run per key, ready rows stay, answers are true | – |
| `ProblemAttemptsProofs` | proofs: types, the grade is of the answer, attempts are counted | – |
| `CertificatesProofs` | proofs: types, verdicts stay, the certificate is the one asked for | – |
| `ShoppingCartProofs` | proofs: types, carts unpaid, purchases complete, paid means enrolled, nothing given unpaid | – |
| `SplitModulestoreProofs` | proofs: structures stand by themselves, edits are kept, what is published is as in the draft | – |
| `MC*` | small instances for TLC | – |

`PROJECT.json` maps every definition to its lines.

## How a bulk email is sent

An instructor submits an email; one `InstructorTask` row is created and a parent task is
queued. The parent (`perform_delegate_email_batches`) counts the recipients, stores an id per
planned subtask in the row (`initialize_subtask_info`), reads the recipients query by query,
cuts them into lists and queues one celery subtask per list (`queue_subtasks_for_query`). Its
return leaves the row in PROGRESS. Every subtask (`send_course_email`)

1. checks itself against the row: its id is there, its recorded status is not final, it is
   not an earlier attempt than the recorded one (`check_subtask_is_valid`);
2. takes a lock in the cache (`_acquire_subtask_lock`), without reading the row again;
3. filters optouts if this is the first attempt, connects, mails one recipient after the
   other, taking each off `to_list`;
4. on an error either ends as failed, or saves the row as RETRY and *then* queues the rest of
   the list as a new attempt under the same id;
5. saves its final status, adds its counts to the progress of the row, and marks the row
   SUCCESS when it was the last (`_update_subtask_status`, under `select_for_update`);
6. deletes the lock, once for each level that the saving recursed into.

State is shared through the row, the cache and the broker. The broker may deliver a message
again; workers may die; saves fail with DatabaseErrors; `retry()` and `connection.close()`
may raise.

### EmailSubtask

| Variable | In the code |
|---|---|
| `entry` | the `InstructorTask` row: state, subtask ids and statuses, the counters `succeeded` and `failed`, the progress in `task_output` (`valid` is FALSE once `on_failure` has put an exception there) |
| `queue` | messages in the broker: id, `to_list`, status, celery's `request.retries` |
| `pc`, `job` | where each worker is and its local variables; `then` is what follows the current save or close, `depth` the recursion of `update_subtask_status` |
| `lock` | the cache keys, with the worker that added each (`Orphan` if it died) |
| `optouts` | the `Optout` rows |
| `sent` | history: how often `send_messages` returned normally for a recipient |
| `faults` | how much of each bound the environment has used |

One action per step that other actors can observe: reading the row (`CheckSubtaskIsValid`) and
adding the lock (`AcquireSubtaskLock`) are two, each mail is one, a save is one (it runs under
a row lock in one transaction), each delete of the lock is one. Error paths are actions of their
own: `EmailMissing`, `RecipientRefused`, `Throttled`, `Disconnected`, `SendingImpossible`,
`CloseRaises`, `UpdateDatabaseError`, `RetryRefused`. The environment: `Deliver`, `Redeliver`,
`Crash`, `LockExpires`, `OptOut`.

Abstractions:

- A retry waits out its countdown in the queue; the order of messages is arbitrary.
- celery acknowledges before it runs a task, so a message lost with its worker is not delivered
  again by itself; `Redeliver` is the broker's redelivery after a lost connection, the case
  named in `subtasks.py`, 323–325.
- `SUBTASK_LOCK_EXPIRE` does not run out under a live worker, only under a dead one.
- `Overlap` says whether two workers may hold deliveries of one subtask at the same time.
  `Raising` says which of `retry()` and `close()` may raise for a reason of their own.
- Durations, the throttling sleep, logging and the text of the mails are left out; the
  `attempted` count is the sum of the other three and is left out as well.
- `increment(subtask_status, failed=...)` in `tasks.py:686` raises, as the code is written, so
  `RetryRefused` continues in the handler of unexpected exceptions.

### BulkEmailTask

Adds to `EmailSubtask` the runs of the parent (`stage`, `queued`) and the row as `on_failure`
read it (`snapshot`). `initialize_subtask_info` is one save; each list is queued in a step of
its own, with the workers already running, and the lists may be fewer than the ids when recipients
left after they were counted (`ParentRunsOut`); `on_failure` reads the row in one step and saves it
in another, and puts back all it has read. A second delivery of the parent starts after the
first has ended or died. A parent may raise before it looks at the row, the second delivery
too, before it initialises the row, and while it queues (`RaiseAt`). `UpdateImpossible` is the KeyError of a subtask that finishes after
the progress was replaced; it cannot happen in `EmailSubtask` alone and is therefore here.

### SubtaskQueueing

`Count`, `FindFirst`, and one `Query` per query; between any two, `Enroll` and `Unenroll` change
the queryset. The arithmetic of `_get_number_of_subtasks` and `_generate_items_for_subtask` is
the code's: `math.ceil`, the `min` with the available subtasks, the cursor `last_pk`, the last
query without limit. The module models one queryset; the code loops over several, each counted
and cut in the same way.

### InstructorTasks

`row` is the `InstructorTask` table, `result` celery's result store, `run` where a task is in the
broker or a worker, `req` what each web request has read. Reserving is two steps, the check
(`CheckRunning`) and the committed row (`CreateTask`); handing over to celery can fail
(`ApplyAsyncFails`). A task ends in the result store first and in the row after
(`on_success`, `on_failure`); it may raise, be revoked, or die with its worker. A status request
reads the row, reads the result store, and saves its whole copy of the row if celery's state says
so. A task of `DelegatingKeys` has subtasks and leaves its row to them; how they finish it is
`BulkEmailTask`. What is left of it here: once a subtask is queued for every id (`QueueLast`;
it may never happen, when recipients left) the last subtask may mark the row SUCCESS at any time,
while the parent is still in its worker, has returned or is dead (`FinishSubtasks`). The expiry of results and redelivery of a parent are left out here.

### ShoppingCart

Every view runs in a transaction: `Begin...` reads a snapshot (`req` holds the copies), the action
without `Begin` writes whole rows from the copies and commits. `purchase_item` is the exception:
it commits on its own, and everything written before with it, hence `PurchaseItem` per item,
`NextItem` between them, and `CallbackFails`. The processor charges the amount of a form it
was shown (`Charge`) and posts about it any number of times. A verified mode may expire between
any two steps. `raced` says that a post of the processor and a request of the user were served at
the same time (two requests of the user may always overlap); most properties are about users who wait for an answer, and `FulfilledEnrolled` in particular fails otherwise: an
enrolment saved from a stale copy replaces the one that was paid.

Assumed: MySQL's repeatable read (a transaction reads one snapshot, an `UPDATE` of a deleted row does
nothing, a save of a missing row inserts it); the processor accepts positive amounts only;
enrolment rows exist; a failing callback is one of a registration; orders of different users share
nothing. Left out: mails, receipts, reports, and the photo verification that the callback of a
certificate submits, which is in `PhotoVerification`.

### ProblemAttempts

`row` is the `StudentModule` row: attempts, done, the answer, its points, the queue key, the
published grade (`judged` is a ghost, the answer the points are about). A request reads the row
without a lock (`BeginCheck`, `BeginSave`, `BeginReset`), works on its copy, sends a submission to
the grader if the problem is graded externally (`GradeAnswers`, `SendFails`), and saves the whole
copy (`Commit`). The grader's reply locks the row (`Reply`, `InvalidReply`, `ReplyAgain`). Instructor
tasks rescore, reset and delete. Keys have the resolution of a second, so the clock is part of the
model; two submissions in one second `collided`.

### PhotoVerification and Certificates

An attempt is created by `create_order` (initial, committed as ready), by `ReverifyView` or by
`MidCourseReverifyView`, submitted when the certificate is bought or at once, and judged by
answers of Software Secure in any order, late or repeated. `submit` sends before the row is
committed. The command `retry_failed_photo_verifications` works through the list it read at its start.
A command that grades (`ungenerated_certs`, `regenerate_user`) checks the status of the row
(`BeginAdd`) and grades the user, which commits (`courseware/grades.py`, 147–154); then it reads enrolment mode,
verification and row, where `get_or_create` inserts and commits a missing one (`ReadRow`), and saves the row with
a new key and asks the certificate server (`SaveAndAsk`), which may refuse; an answer (`BeginReply`, `CommitReply`) finds the row by its key and
saves all of it. Grade, profile and enrolment mode are chosen when they are read; edits in the
admin site are left out, and so is the mode audit.

### SplitModulestore

`structures` are the course's structures, never changed once inserted; `index` is the index
document with the head of each branch; `req` is what each editor has read. A structure
holds, for each block, its children, whether its fields have the key `children` at all, and
`update_version`, which stands for its content. `create_item`, `update_item` and `delete_item` look up the
structure, check the version against the index and write structure and index, each database
access a step of its own (`LookupToCreate`, `ReadIndex`, `ReadParents`, `Commit...`); the index is
written whole, as it was read. `xblock_publish` reads the source, the index and the destination,
then writes. `Synced` is `_sync_children`, `PublishedBlock` and `Visited` are `_publish_subdag`,
`Deletions` is `_delete_if_true_orphan` over a set in any order.

Inputs: an editor drops a child, turns the children round, takes in a leaf that exists, or
changes only content; what is published is one subtree with at most one block blacklisted,
into the head of the branch published; blocks are not created or updated there, only deleted.
The course starts as `create_course` leaves it when it is given the structures of another course,
for the draft or for both branches.

`seen` is history and limits the properties: `raced` (an index document was written that had changed
since it was read), `blacklist`, `stale` (something other than the head of the draft was
published), `shared` (a subtree was deleted that shares a block with another one).

## What the runs show

| Run | Question | States |
|---|---|---|
| `subtask_sequential` | one subtask through every error path, two redeliveries; does it end, are optouts honoured | 515k |
| `subtask_overlap` | three workers on overlapping deliveries, one may die | 746k |
| `task` | the parent and its two subtasks: its failure, its redelivery, its death, recipients who leave | 1.08M |
| `queueing` | all querysets up to 8 keys with 2 enrolments and 2 unenrolments | 445k |
| `tasks` | two instructor tasks, two requests, submissions that fail, revocations, deaths | 1.95M |
| `orders` | two orders, three items, two requests at a time, repeated posts, refunds | 1.59M |
| `attempts` | two submissions with replies that are late, invalid or repeated, and instructor tasks | 760k |
| `certificates` | two attempts and a certificate asked for twice | 1.6M |
| `split` | two editors, three edits and publications of one course | 729k |
| `subtask_rerun`, `task_failure`, `orders_refund` | disagreements of code and comments (below) | – |

Properties, by what could go wrong:

- *Mailing twice.* `AtMostOnce` (`subtask_sequential`, `task`), and `ImplementsDelivery`: the
  system is one where a mail goes out only for an open subtask and a subtask closes once.
  Deliveries of one subtask do not overlap in these runs; `subtask_rerun` shows that with
  overlap it is not so.
- *Mailing nobody.* `NotStranded`: an unfinished subtask has a worker, or a message that the
  check will accept. This breaks as soon as a rejected duplicate, a refused retry or a stale
  lock swallows the only message. `NobodyForgotten`: every recipient is in some count.
- *The lock.* `LocksReturned` over every path out of the sending; `LockExcludes` with
  overlapping deliveries. `LockExcludes` needs that saves do not fail: a save that failed
  releases the lock twice, and another worker may have taken it in between.
- *The ledger.* `LedgerAgrees` (in `task`, where two subtasks finish on one row) and
  `ProgressExact`: counters, progress and completion of the row against the statuses recorded in
  it and the mails that went out.
- *Budgets.* `RetryBudget`: celery's one retry count and the code's two.
- *Optouts.* `OptoutHonoured`, although retries filter nothing.
- *The end.* `EventuallyFinished` of the subtasks; `EventuallyDecided` of the whole email, unless a
  parent died or ids are left over for which recipients who left were counted.
- *The parent.* `SuccessComplete`; `DecidedIsFinal`: a failure stays, and a success is undone in one way only, by a
  later delivery of the parent that raises before it has looked at the row.
- *Queueing.* `QueuedOnce` and `ChunksFitIds`; the last conjunct of the latter, that every id gets
  a list, needs that nobody leaves while the lists are cut.
- *One task per key.* `OneRunPerKey`: two tasks of a key have work left only after the race of `_reserve_task`
  that its docstring accepts. A task whose subtasks have finished may still be in its worker when the next one
  starts, with nothing left to do but to return. `AnswersTrue`, `ReadyIsFinal`: what a status request reports has
  happened, and its late save of an old row does not undo the end of a task; both need that the
  task has no subtasks or that the row did not change meanwhile. `EventuallyReady`: without faults a
  task becomes ready, which releases its key, or leaves its row to its subtasks.
- *Paid and given.* `FulfilmentPaid`: nothing is fulfilled beyond what was charged, although the
  cart changes after the form was signed. `PurchasedComplete`, `CartsUnpaid`: an order is
  purchased with its items unless a callback failed. `FulfilledEnrolled`: who paid is enrolled.
- *The right grade.* `GradeOfAnswer`: a point is never that of an earlier submission, under all
  interleavings. `AttemptsCounted`: without a lost update attempts are what was submitted.
  `EventuallyGraded`: a problem does not wait for ever.
- *Verdicts.* `VerdictKept`: the state of an attempt is the last decision, unless two processes
  held it at once. `CertificateOfRequest`: under all races, those between the check of a status and the
  reading of the row included, what can be downloaded is the pdf that the key of the row asked for, and verified ones follow a PASS.
- *The course.* `EditsKept`: an editor who names a version loses nobody's edit, as long as no index is
  overwritten; `WellFormed`: every structure stands by itself, every child exists, races and
  shared blocks excepted; `PublishedAsInSource`: what is published has the draft's versions, order and
  children. The root of what is published is there too, unless the draft has it below no block and
  its former parent is refreshed with it; then it goes with the orphans.

Every property has a mutant in `PROJECT.json`: a plausible mistake in one definition, under which
the run finds the property violated. Properties that except a race state so in their
antecedent; the race itself is then described below as a remark. A hazard whose race every property
excepts is listed in `PROJECT.json` without a property, with a note: the stale enrolment, the answer that comes before the
attempt is saved, the list of the retry command, the key blocked by a failed `apply_async`, the index written over a
newer one, and the parents looked up in a newer head.

### Bounds

Two recipients are enough for a retry that carries part of a list; two subtasks for a row that
is finished by the last of several; three workers for a lock released under a second worker and
taken by a third. In the runs of the subtasks budgets of one or two retries are exhausted, with errors left
over; in `task` a limited error fails a subtask at once (`MaxRetries = 0`), and a throttling error is retried. `MaxDbErrors` stays below `MaxDbLockRetries` where `AtMostOnce`
is checked: when every attempt to save fails, the code can record nothing, and a redelivery
mails again. `subtask_overlap` has one dying worker. In `queueing`, eight
keys with queries of three and tasks of two give three queries, uneven last lists and lists
shortened to what is available.

`tasks`: two rows of one key or of two, each kind of fault twice. `orders`: two orders and three items, so
that an order has an item before and one after a failing callback and the other order
stays a cart; one charge that is posted twice; five requests. `attempts`: three seconds, three requests of two handlers, one reply
repeated: a reply may come before, between and after two submissions. `certificates`: two attempts, two submissions
and two requests for the certificate; `Focus` in `MCCertificates` keeps TLC from multiplying all
histories of two attempts with all histories of the certificate: the certificate is
explored with at most one initial attempt, submitted once, and two processes at work (one while that attempt is undecided, expired or subject to a window), the attempts up to their own
bounds as long as nobody asks for a certificate. `CertificateOfRequest` reads only whether a PASS was
recorded, `VerdictKept` only attempts, so that each is explored with all it depends on, but a
certificate beside two attempts is not. `split`: four structures, that is three edits or publications after the
course was created; requests overlap while there are at most two structures
(`OverlapVersions`), so that races meet both an unpublished and a published course and are followed by two more edits.

All runs allow deadlock (`CHECK_DEADLOCK FALSE`): the systems stop when the bounds are used up,
and the email also when it is done or when a worker or a parent has died with the only delivery of a
subtask. That they do not stop otherwise is `NotStranded` and the liveness properties.

### Fairness

`FairSpec` and `FairTaskSpec` of the email assume that a worker that has received a task goes on with it and
that an idle pool takes a queued message: celery's scheduling, while no worker dies
(`MaxCrashes = 0`). Nothing is assumed about which outcome a step has, about redelivery, or
about any single message being taken; faults are bounded, hence every retry ends. In `task` the
parent is delivered once at least, and a run that has begun goes on; a parent may die and recipients may leave, and
`EventuallyDecided` excepts the rows this leaves undecided. `InstructorTasks`: a request that was
accepted is served to its end, a task in the broker is taken and worked on; nothing is assumed of its subtasks; behaviours with a fault
are excepted. `ProblemAttempts`: the grader answers every submission, which is what the xqueue is
for, and its answer is served; nothing is assumed of the student.

### Findings

- `task_failure`: when the parent fails after queueing some subtasks, these can no longer be
  recorded, and mail again when they are redelivered.
- `subtask_rerun`: the row is not read again after the lock is taken.
- `orders_refund`: a post of the processor that is repeated after the refund has the right amount
  again, and the order is purchased and the user enrolled although the money was returned.

### Remarks

Seen while modelling; they have no run of their own, and bound the properties above.

Email: `tasks.py:686` passes an argument too many, so a refused retry is counted by the handler of
unexpected exceptions, with the recipients already counted once more (`tasks.py:325`); a save that
failed once deletes the lock twice (`subtasks.py`, 454–458), the second time perhaps another
worker's; a parent that dies between storing the ids and queueing is redelivered and does nothing
(`tasks.py:193`); one that is delivered again and raises before it has looked at the row (the email
was deleted, the database fails: `tasks.py`, 164–184) turns a row that was SUCCESS into FAILURE, which `DecidedIsFinal` excepts;
students who leave between the count and the last query leave ids in the row
for which no subtask exists, and the email stays in PROGRESS, which `EventuallyDecided` excepts.

Instructor tasks: a status request that finds REVOKED saves an old row over the ids of subtasks
(`api_helper.py:174`); a worker that dies between the result store and `on_success` leaves a row that
blocks its key; a result that is an exception while the row says PROGRESS cannot be serialised;
the last subtask marks the row SUCCESS while the parent may still be in its worker (`subtasks.py:538`), so that
a new task of the key is accepted before the old one has returned.

Orders: a verified certificate in the cart makes `contained_in_order` raise
(`shoppingcart/models.py`, 316–322). A failing callback of a later item leaves an order
purchased with an item that is not, and the repeated post returns at once.

Attempts: a reply of the grader that arrives before the row is committed is dropped; a request without a lock saves
over the score the locked callback has written; a reply that does not parse clears the queue state
whatever its key (`responsetypes.py`, 1693–1697); `reset_attempts` saves a stale row
(`tasks_helper.py:446`); of two tabs one attempt is lost (`model_data.py:345`).

Verification: `results_callback` names an undefined `window` for reverifications
(`verify_student/views.py`, 258–259), so no answer ever decides one, and in a course with
a window nobody gets a verified certificate; an answer that comes before `submit` is committed is refused
and the user stays pending; the retry command overwrites an approval; a certificate request
that the xqueue refuses leaves the row generating (`queue.py`, 226–250); a certificate that becomes
downloadable while a command grades the user is overwritten by a new request, although the docstring of `add_cert` says that the
status must be one of unavailable, error, deleted or generating (159, 194).

Split modulestore: `force` has no effect, as `_lookup_course` raises before it is looked at
(docstrings at `split.py` 955–959, 1227–1230); the index document is written whole, so a draft edit
undoes a publication made meanwhile (`split.py:1495`); `_delete_if_true_orphan` never deletes a
descendant, against its docstring, because the orphan still lists it (1630–1638); publishing a leaf
again after an update raises KeyError on `children` (1598) unless the draft's block lists children; a block published with a child
blacklisted is not given that child later (1597), and a blacklisted child that is published
disappears from its parent when that is refreshed, against the docstring at 1157; `delete_item` takes the parents from a newer head (1240);
publishing a block deletes a sibling that was moved to a parent not published yet, also when it is itself a parent of the block; and
when a chapter is deleted without its children and created again below its former section, publishing the section deletes it
from the published branch, as an orphan of the chapter (1195–1198, 1597), although "each xblock in subtree_list" is to be published (1130).

## What is proved

TLAPS proves, for all values of the constants that satisfy the named assumptions of the modules, the
theorems below. The assumptions are that subtask ids and recipients are finite sets, that bounds are
natural numbers, that a clock has a second, that there is a key and a course, and the like; TLC
evaluates them in every run. Where a theorem has a hypothesis of its own it is named here, with
the behaviour that breaks the property without it. Every inductive invariant was checked by TLC
before it was proved.

Each proof goes action by action. First a lemma says of every action which worker, request or row it
changes and how (`OnlyMoves`, `Turn`, and their like); then each part of the invariant is shown for
these kinds of steps rather than for each action again.

### The subtasks (`EmailSubtask`)

`EmailSubtaskProofs`, with overlapping deliveries, dying workers, failing saves and raising calls:

- `TypeCorrect`: `TypeOK`.
- `RetryBudgetKept`: `RetryBudget`. The property speaks of one stage; `RetryInv` says of every message and of
  every job up to its sending that celery's count is the sum of the two counts in the status
  and neither over its limit; and of a job whose error is being saved, that celery's count is
  one behind and that the maximum computed for the retry allows it exactly when both counts
  are within their limits.
- `LocksAlwaysReturned`: `LocksReturned`. `LockInv` adds which worker a lock can belong to: one
  between the taking and the last release, on that very subtask.
- `NobodyEverForgotten`: `NobodyForgotten`. `AccountInv` counts for each message and job: what the status
  has counted and what is left of the list are at least the chunk, through filter, sending and
  the handler that counts twice.
- `OptoutsHonoured`: `OptoutHonoured`. `ListInv` (a list is part of its chunk) and `SparedInv` (who opted out in time
  is unsent, and on no list that has passed the filter).
- `LockTrulyExcludes`, `NeverStranded`: `LockExcludes` and `NotStranded`, under `Undisturbed`: saves do not fail
  (`MaxDbErrors = 0`), nothing raises by itself (`Raising = {}`), and there are not more errors of the
  mail server than a retry allows. Otherwise both fail, for reasons in the code: a save that
  failed releases the lock twice, and a refused or raising retry goes back to saving without
  taking the lock again. Overlap, redelivery and deaths are allowed. `StagedInv` says what each stage has done,
  `ExclusionInv` that a worker from the taking of the lock to its release has it, and that nobody has overwritten what it saved, and `CarryInv` that the
  attempt recorded has a carrier: a worker that will go on, or a message with that count.

Its second part, under `Sequential`: lists are disjoint, deliveries of one subtask do not
overlap, no worker dies, and `MaxDbErrors` is below `MaxDbLockRetries`; `subtask_rerun` and the Bounds
above show what happens otherwise.

- `NobodyMailedTwice`: `AtMostOnce`, which alone is far from inductive. `OnceInv` adds what each stage of a worker knows:
  whether its subtask is recorded as final, that the rest of its list is unsent, how its count of
  retries compares with the recorded one; and of the queue: a message is of the recorded attempt
  at the latest, and one that the check would let through lists nobody who has been mailed,
  unless a worker is at the subtask.
- `LedgerTrue`, `ProgressTrue`: `LedgerAgrees` and `ProgressExact`. `LedgerInv` says that the counters are the cardinalities of the
  sets of final statuses, and that the successes in the progress are the cardinality of the set
  of those mailed by subtasks that are final. A save adds one subtask to one of the sets, by
  `OnceInv` one that was not there.
- `DeliveryImplemented`: `ImplementsDelivery`, the refinement of `EmailDelivery`. A mail is a step of the abstract delivery because its
  subtask is open and its recipient unsent, a final save because the subtask closes for the first time; all
  other steps stutter.

### The parent (`BulkEmailTask`)

`BulkEmailTaskProofs`, about `TaskSpec`, for any number of runs of the parent and of lists:

- `TaskTypesCorrect`: `TaskTypeOK`. It needs `ParentInv`: one run is at work at a time, it queues only what the row has
  ids for, and the row keeps the ids of one run while `on_failure` holds a copy.
- `TaskLedgerTrue`: `LedgerAgrees`, and `SuccessAlwaysComplete`: `SuccessComplete`, when deliveries of one subtask do not overlap (the second also
  when the lists of each run reach all recipients, which `SubtaskQueueing` is about). Unlike `LedgerTrue` they allow
  dying workers and exhausted saves. `PendingInv`: a subtask with an outcome still to be saved is one worker's
  and not recorded as final. `RowsInv`: row and copies agree with themselves and a copy is not ahead of
  the row, so that writing it back forgets outcomes but invents none.
- `DecisionsFinal`: `DecidedIsFinal`, when deliveries of one subtask do not overlap, wherever the parent raises. `QueuedInv` and `FailedInv`:
  only subtasks that were queued have outcomes, and a parent that failed with the row's ids its own has one left to queue; so the
  row it fails is not a success. A failed row has no valid progress, and what cannot be recorded cannot revive it.
- `MailedOnceUnderParent`: `AtMostOnce`, when no message of a subtask is delivered twice and the lists of one run are disjoint. It uses neither the
  row nor the lock: `TokenInv` says that the list of a subtask is in one message or with one worker,
  and that nobody on it has been mailed. `task_failure` shows what one redelivery does.

### Queueing (`SubtaskQueueing`)

Without a hypothesis: `TypeCorrect`, `EveryoneQueuedOnce` (`QueuedOnce`) and `IdsAlwaysFit` (`ChunksFitIds`). `ListsInv`: the lists made so far are disjoint
and end at the cursor, and who has been in the queryset since the count is in a list or above the cursor.
`CountInv`: the lists made and the ids left are together what `NumberOfSubtasks` computes for the count, and the ids left
suffice for the queries to come. `StillThereInv`: if nobody has left the queryset, every query but the last is full, so that no id is left in the end. What that recursive
function computes is proved with the least number for which it would be wrong, as the library's induction
theorems cannot be used.

### Instructor tasks (`InstructorTasks`)

- `TypeCorrect`: `TypeOK`, with `ReqOK`: what each request remembers.
- `OneRun`: `OneRunPerKey`, which speaks of tasks in the broker or in workers, while the check of
  `_reserve_task` reads rows. `OneRunInv` ties them together: a task that has not ended has a row that
  is not ready, unless its subtasks have done all its work (`RunOK`); a row that was created and not yet submitted is one request's only, and
  a final state that a status request has read is of a task that has ended (`HeldOK`); a key
  without a race has one running row, and none while a request has checked it (`ReservedOK`).
- `ReadyRowsKept`: `ReadyIsFinal`. `FinalInv` says that, for a task without subtasks, a row becomes ready only
  with the end of the task, that a revoked task has recorded no other end, and that a result
  read as REVOKED still is; so the copy a late status request saves over a ready row equals
  that row.
- `AnswersAlwaysTrue`: `AnswersTrue`, which speaks of the same tasks with work left, from the same invariants and from what a request has read of row and result.

### Problem attempts (`ProblemAttempts`)

`TypeCorrect`, `GradeAlwaysOfAnswer` (`GradeOfAnswer`), `AttemptsAlwaysCounted` (`AttemptsCounted`). `GradeInv`: unless
submissions `collided` in a key, a row that waits has a submission with its key in the xqueue, and every submission with that key
is of the answer that is judged; points are given only for an answer judged right, and the grade
published is that of the row. This holds of the row and of every copy that a request may save. `CountInv`:
unless handlers `raced`, the attempts of the row are the submissions counted, what a handler has
read is still the row, and what it writes counts one more for a check, the same for a save and none for a reset.

### Photo verification and certificates (`Certificates`)

`TypeCorrect`, `VerdictAlwaysKept` (`VerdictKept`), `CertificateAlwaysOfRequest` (`CertificateOfRequest`). `PhotoInv` follows what each process that holds
an attempt may still save over the last decision; `CmdOK` and `CertInv` say that a row that is
generating or downloadable, and the copy an answer has read, has a key that was asked for in the mode of the row,
that the pdf of a downloadable one is of that key, and that nobody has a verified mode without having passed the verification.
A command that has read its row decides the status and, if it asks, the key; so the row it saves fits together whatever it
overwrites, and the row that `get_or_create` inserts (`NewRow`) does too.

### Orders (`ShoppingCart`)

`TypeCorrect`, `CartsAlwaysUnpaid`, `PurchasedAlwaysComplete`, `FulfilledAlwaysEnrolled`, `FulfilmentAlwaysPaid`. The invariant is `TypeInv` and, unless `raced`, `Quiet`. `OneKind`:
only posts, or only requests of the user, are at work. `ReadInv`: what they have read still says of
orders, items and enrolments what they rely on. `OrderInv`: an item that was purchased or refunded is in an order that was, and the
items of a purchased order are purchased or still to be purchased by a post at work, unless a callback failed.
`EnrolInv`: who has a fulfilled item for a course, and has not left it, is enrolled.

`FulfilmentPaid` compares sums over sets, and `PaidInv` says what is stronger and inductive: all that is *in* an order
that was paid, or is about to be, was charged for (`Covered`). It holds when a post is accepted, because everything in a
cart has the status of the cart, so that `TotalCost` is of all its items (`BeginPurchaseStep`); afterwards nothing
is put into an order that is paid (`CoveredStays`). The sums of the model are folds that take elements in an unspecified
order; `SumsExist` and `SumsAgree` show by least counterexample on the size of the set that such a fold exists and is
determined, `TotalWithout` that its order is immaterial, `TotalGrows` that a larger set costs no less.

### The split modulestore (`SplitModulestore`)

`StructuresWellFormed`: `WellFormed`, `EditsAlwaysKept`: `EditsKept`, and `PublishedAlwaysAsInSource`:
`PublishedAsInSource`. Their common invariant `Inv` says of every request that
what it has read is still what the structures hold, which never change: the version it edits is the one its locator
names, a created block is not yet there, the children to be saved exist, the parents of a block to be deleted are those in the
head if the index is still what it was. A commit that does not race is therefore made from the head (`MadeFromHead`).

- `WellFormed`: `WholeInv`, every child exists unless `raced` or `shared`. Deleting a block removes it from all its parents;
  publishing visits a set closed under children (`VisitedClosed`) and syncs parents with children that exist
  (`SyncedProper`); and an orphan is deleted only with all blocks that list it.
- `EditsKept`: `KeptInv`, every structure of a branch has led to its head. `Led` is the history as the smallest set
  closed under previous versions, so that no induction is needed: a structure more adds itself to the history of its head and
  takes nothing away (`LedGrows`).
- `PublishedAsInSource`: `PubInv`. Publishing looks at `update_version` only, and so it is right only if a block that
  passes for unchanged is unchanged. `HeadsInv` says so: where both heads have a block in one `update_version`, the
  published children are those of the draft, in its order, unless something `stale` was published or a race lost an
  edit. An edit of the draft gives what it changes a new `update_version` (`EditMatches`), and a publication
  rewrites from the source the blocks it visits and the parents of its roots (`BlockMatches`,
  `PublishedIsAsInSource`). `PublishedInv` says it of every publication and the draft of its time, both of which
  never change (`PublishedStays`); `RootInv`, that nobody blacklists the root he publishes. What `Kept` does to
  a sequence of children is shown by least counterexample (`KeptAgree`, `KeptAll`).

The assumptions on the course say that its first structure is a course: every child exists, none is the course
block, leaves have none.

### What only TLC checks

- Liveness: `EventuallyFinished`, `EventuallyDecided`, `EventuallyReady`, `EventuallyGraded`. Fairness and
  ENABLED are out of the prover's reach.
- The three violations.

## Inventory

| Component | State | Operations and interaction | Hard | Correct when | Modelled |
|---|---|---|---|---|---|
| bulk email (`bulk_email`, `subtasks.py`) | row, cache locks, messages | above | redelivery, lost locks, failing saves | nobody is mailed twice or forgotten | yes |
| instructor task submission (`api_helper.py`) | rows, celery results | `_reserve_task`, `submit_task`, `_update_instructor_task`; used by all instructor tasks | check and create race; failed `apply_async`; saves of an old copy | at most one live row per key, a final state stays | yes |
| module state updates (`tasks_helper.py`) | `StudentModule` rows | rescore, reset, delete for all students | a student answers meanwhile | no answer is lost | one student |
| orders (`shoppingcart`) | orders, items, enrolments | cart, `purchase`, `purchased_callback`, refunds on `unenroll_done` | repeated posts, items fulfilled one by one, refunds of whole orders | paid means enrolled, refunded once | yes |
| photo verification (`verify_student`) | attempt status | `mark_ready`, `submit`, `approve`, `deny`, `system_error`, the retry command | callback before `submitted` is saved | a decision is not lost | yes |
| certificates (`certificates`) | status and key | `add_cert`, `regen_cert`, callback | late answers, refused requests | the pdf is the one asked for | yes |
| problem attempts (`capa_base.py`) | attempts, done, queue state | check, save, reset, `update_score` | grades of earlier submissions, two tabs | attempts within the maximum | one response |
| split modulestore (`split.py`) | index, structures | edits under a version, publishing | check of the head and its update | no edit is lost without a conflict | the four main operations |
| draft modulestore (`modulestore/mongo/draft.py`) | draft and published blocks | `convert_to_draft`, `update_item`, `publish`, `unpublish` | several writes without a transaction | readers see a version that was published | no |
| open ended grading | state of child tasks | assess, next task, reset | grading services that answer late | tasks go in order | no |
| cohorts, licenses, configuration cache | small tables and cached values | get or create | check then act | one cohort, one license, no stale configuration | no |
| course creators, request filters, wechat, forums, import and export, response types | – | – | – | – | no |

## Not modelled

The repository is a platform of some 125,000 lines of implementation in about 900 files. Most of it
renders pages, converts formats, reads tables and calls other services, one request at a time and
without state of its own: the student, courseware and instructor views, settings, input types
and response types, the wiki and the forums. There is nothing in it that a state machine would
show. The modules here cover the code in which several actors change the same state over several steps,
which is a small share of the lines.

Of the code that has such state these parts are left out: the draft modulestore (two documents
per block, several mongo operations per edit, intertwined with inheritance caches); open ended
grading; the small tables with a check and an insertion, whose races are listed as hazards in
`PROJECT.json` with a note; and, in the split modulestore, `persist_xblock_dag`,
`continue_version`, the creation and deletion of courses, definitions and inherited settings.

## What is left

Every safety invariant and action property that a passing run checks is a theorem. The liveness properties stay
with TLC. What remains is to model more: the draft modulestore first, whose `publish` has a hazard without
a property, then the open ended grading and the check-then-act races of cohorts and licenses.
