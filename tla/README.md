# Nutch AI backend: a verification project

TLA+ models, TLC runs and TLAPS proofs for the NestJS backend under `src/`.
The backend serves a browser extension: anonymous and signed-in accounts send
prompts to language models, the exchange is kept in chat sessions, generated
code is kept as files, and an anonymous account can be turned into a signed-in
one. It is one Node process (or several) over one Postgres database, one S3
bucket and two model providers. Paths below are relative to the repository, e.g.
`src/src/auth/auth.service.ts`.

## 1. Inventory

| Part | State it keeps | Operations | Interacts with |
|---|---|---|---|
| Accounts (`auth/`, `users/`) | table `users`: id, email (null = anonymous); tokens live with the clients | `login`, `createAnonymousUser`, `validate` (JWT), `migrateAnonymousAccount`, `getProfile` | deletes and re-owns the rows of everyone else |
| Anonymous quota (`limits/`) | none: counts rows on demand | `assertCanCreate` | called before each insert of a session or file |
| Chat (`chat/`) | tables `chat_sessions`, `messages` | create, add message, list, search, delete | messages cascade with their session, sessions with their account |
| Prompt routing (`ai-router/`) | none in tables; the text of a stream in memory; one global regular expression | `processPrompt`, `streamPrompt`, `listAvailableModels`, `extractArtifacts` | chat, files, BYOK, providers, the SSE response |
| Files (`files/`) | table `files` and S3 objects `files/<id>` | create (offload above a threshold), list, download, delete | two stores, no transaction over both |
| Own keys (`byok/`, `encryption/`) | table `byok_keys`, the process's `ENCRYPTION_KEY` | list, upsert, remove, decrypt | provider validation, model list |
| Providers (`ai-router/providers/`) | none | `generate`, `stream`, `validateKey`, error classification | external services |
| Framework (`main.ts`, `app.module.ts`, `common/`, `health/`) | throttler counters | CORS, validation, error filter, probe | every request |

What is hard in this code: every handler is a chain of awaits, and any other
request may run at each of them. The code reads, decides, and writes later
(quota, ownership, storage key, migration parties). Only one place uses a
transaction. Two stores are written one after the other. A stream runs for
minutes while its session can be deleted or change hands. The process may die
at any await. `PROJECT.json` lists these places as hazards, each at its line.

What makes each part correct:

* accounts and ownership: a row always belongs to an account that exists, and
  changes its owner only when an anonymous account is converted;
* migration: nothing that existed before is lost, and nothing goes to a third
  account;
* sign-in: an address names one account for good, however sign-ins race;
* answers: the status of an answer names the one who can do something about it;
* quota: an anonymous account cannot grow without bound, however many requests
  it sends at once;
* exchange: a prompt has at most one reply, behind it, and the client is not
  told of anything that is not stored;
* files: a key always leads to an object, and what was readable stays readable.

## 2. Modules

| Module | Models | State |
|---|---|---|
| `Ownership` | the promise about accounts and rows, each operation in one step | `account`, `owner` |
| `Workspace` | accounts, quota, sessions, files (their rows) and migration, cut at every await | the same, plus the requests in flight |
| `AccountLife` | the same promise as one account meets it: its kind, and whose its rows are | `kind`, `session`, `file` |
| `AccountView` | `Workspace` seen by each account as an `AccountLife` | `Workspace`'s, plus the history variable `once` |
| `WorkspaceProofs` | the theorems about `Workspace` and `AccountView` | |
| `Accounts` | sign-in by e-mail, anonymous accounts, tokens, profile, limits from the environment | `users`, `email`, `count`, `env`, `tokens`, requests |
| `AccountsProofs` | the theorems about `Accounts` | |
| `FileLifecycle` | the promise about the body of a file, with one store | `status`, `told`, `stranded` |
| `FileStore` | the body of a file over Postgres and S3 | `row`, `object`, requests |
| `FileStoreProofs` | the theorems about `FileStore` | |
| `Exchange` | one prompt and its answer, in one piece or streamed | sessions, messages, files of a reply, events sent |
| `ExchangeProofs` | the theorems about `Exchange` | |
| `Answers` | the checks of a prompt, the model list, errors and the error filter | the rows of one account, one request, its `answer` |
| `AnswersProofs` | the theorems about `Answers`, whose environment is `AccountLife` | |
| `Artifacts` | which parts of a reply become files | `response`, `lastIndex`, `artifacts` |
| `ArtifactsProofs` | the theorems about `Artifacts` | |
| `Byok` | connected keys, `ENCRYPTION_KEY`, what a prompt runs on | `record`, `master`, `nutch`, `accepted`, requests |
| `ByokProofs` | the theorems about `Byok` | |
| `SessionPaging` | one client reading the history list page by page | rows and their `updatedAt`, `cursor`, what was shown |
| `SessionPagingProofs` | the theorems about `SessionPaging` | |
| `MCWorkspace`, `MCAccounts`, `MCFileStore`, `MCExchange`, `MCArtifacts`, `MCByok`, `MCSessionPaging` | instances for TLC: symmetry sets and small functions | |

The models look at one system from several sides and overlap in the rows of
sessions and files. `Workspace` knows who owns a row and forgets its content.
`FileStore` forgets the owner, and takes from `Workspace` that a row may go by
the cascade of a closed account (`Cascade` is `TxDelete` for a late row).
`Exchange` forgets owner and storage, and takes from both that a session may go
at any time and that saving a file may hit the limit or fail. `Byok` refines what
is a refusal or nothing in the other two: the choice of the key in `resolve()`.
`Accounts` takes the conversion from `Workspace` in one step and adds what comes
before a token and what a token shows; it counts rows and forgets them. `Answers`
follows one request and lets everything the others model happen to its account
between two awaits; it is where a failure of theirs gets its status. What may happen
to the rows of an account is one module, `AccountLife`: `Answers` assumes it, and
`AccountView` shows that `Workspace` provides it to every account. `Artifacts`
decides how many blocks the loop over files in `Exchange` and `Answers` has.
`SessionPaging` takes from `Workspace` that a session appears, goes, or is handed
to one account by a conversion, and adds the order of the rows.

### Workspace

A *slot* is a request in flight. `pc[p]` is the await it is at, `who[p]` the
`user.id` of its token, `row[p]` the row it has looked up. An action is the code
from one await to the next, with the write that await performs.

* Prompts: `StartPrompt` (`resolve`), then `UseSession` or `AssertCanCreate` +
  `InsertSession` (`resolveSession`), `RecordUserMessage`, `RecordReply`, and for
  each artifact `AssertCanCreate` + `InsertFile`, until `FinishPrompt`.
* Deletions: `FindForDelete` looks up by id and owner, `DeleteRow` deletes by id.
* Migration: `CheckSource`, `CheckTarget`, then the transaction `TxSessions`,
  `TxFiles`, `TxDelete`. Its updates are invisible to others until the commit;
  they are kept in `moved[p]`, which also is the set of rows it has locked.
  Isolation is Postgres' default, READ COMMITTED: an update takes the rows
  committed when it runs, the cascade of `user.delete` sees rows that were
  committed later. An update that waits for a rival transaction is modelled as
  starting when the wait is over; the rows a rolled-back rival made it miss are
  therefore not counted as late.
* `Fail` is every refusal and every error at any await; `Restart` is the death
  of the process. Both drop requests and roll back open transactions.
* `late` is a history variable: the rows inserted behind a migration's update of
  their table. Nothing reads it but properties.

Why two reads are one step in `AssertCanCreate`: the first asks whether the
account has an email, which never changes (`UsersService.update` has no caller)
except by the deletion of an anonymous account, and a deleted account counts as
anonymous too.

What one statement does to several rows is one step. The order in which it locks
them is left out, so two statements over the same rows cannot block each other
here, and `WaitsFor` knows only waits between statements.

### AccountLife and AccountView

To one account a row is `free` (has never been its), `own`, `other` (handed over) or
`deleted`. Rows come by `CreateSession` and `CreateFile`, or by `TakeOver`, the
conversion of another account into this one; they go by a deletion or by `Close`, the
conversion of this one, which hands some over and takes the rest with it. A row
that was handed over can still be deleted, by the account that has it now.
`AccountView` computes this from `Workspace`'s tables: `KindSeen` is `isAnonymous`
and whether the account exists; `RowSeen` needs `once`, the rows an account has ever
had, which `Remember` adds to every step and nothing but the view reads.

### Accounts

`login` is `FindByEmail`, `Create` or `CreateConflict` (the unique index), and
`Sign`; an anonymous account is `Create` with no e-mail and `Sign`. A token is the
id and e-mail of its payload; tokens do not expire here, which only leaves more of
them. `Authenticate` is `JwtStrategy.validate`: the account must exist, and the
request then speaks for the payload. `getProfile` is four reads, each an action;
`shown[p]` is what has been read. `Settings` holds what an environment variable may
contain, by what `Number()` makes of it: a number, a blank (0), a text or nothing
(NaN). `conflicts` is a history variable. The OAuth strategies only hand the first
e-mail of the provider's profile to `login`.

### FileStore

`row[f]` merges the columns `content` and `storageKey`: a small body is
`inline`; an offloaded one is `keyless` between its insert and the recording of
its key, then `keyed`. `object` is the set of files with an object in S3. A
request remembers what it read: `key[p]`. A file is committed by `CreateInline` or
`SetKey`, and its client is told of it by `Answer`: in between the database has yet to
answer, `saveArtifacts` goes on to the next block, and the response is sent. A commit
whose answer is lost, or a failure at a later block, is that step followed by `Fail`
or `Restart` instead of `Answer`; a put that S3 carried out and the client saw fail is
`Upload` followed by `Fail`. History variables: `reported` (files a client was told
of), `readable` (files that could be read at some time), `unswept` (deletions nobody
will follow up in S3), `emptied` (offloaded files served as an empty body).

### Exchange

`history[s]` is the list of a session's messages; `sent[r]` what was written to
the client: the events of a stream, or the one response. The text of a reply is
its number of deltas. The finally block of `streamPrompt` is one await, after
which `done` or `error` is written in the same turn of the event loop
(`Persist`). A client that goes away changes nothing: nobody listens for
`close`, the loop runs on and the reply is stored.

`saveArtifacts` is a loop over the blocks of a reply: `CheckLimit` (the count against
the limit, and the break), `CreateRow` (the insert, by when others may have taken the
place), `PushFile` (`createFile` has returned), and `Answer` behind it. `file[r][i]` is
the row made for a block, `listed[r]` what the response will name, `limited[r]` its
flag: three things the code keeps apart and `FlagTellsMissingFiles` relates. Other
requests' files are `n` of `CheckLimit`, which comes and goes freely; an account without
a limit is one whose count always stays below. `DeleteFile` frees places, of a file just
stored too. A reply that fails at a later block keeps the files it has (`Reject`).

### Answers

One request from `Receive`, the synchronous checks, over the reads of `resolve`
and `resolveSession`, the two messages and the files, to `Send`. Each action is one
await; its failure is an exception, and `Throw` is the error filter. Beside it,
`Elsewhere` (any operation of an `AccountLife` but its sign-up), `SetRecord` and
`Restart` are what every other request, and the operator, may do to the account. The
conversion of another account *into* the one of the request is among them: it can
fill the history list of a signed-in account at any await. The model registry is
the table of the source. `fault` is a history variable: only `Unreachable` sets it.
`assertCanCreate` is one step for the reason given under `Workspace`.

### Artifacts

A line is a text of some length or a fence of one of three kinds. `IsMatch` is the
regular expression: it opens at three backticks with nothing or a language behind
them, and closes at the next three backticks whatever follows. `lastIndex` is the
line that has been consumed. `CodeBlocks` is the reference: in Markdown any fence
opens a block and only a bare one ends it. The two agree on `Plain` replies, which
have no info string (as in a language followed by a title) and no tagged fence
inside of a block.

### Byok

`record[u][v]` is the row of `byok_keys` for a user and a provider: a key and the
master it was encrypted under. It decrypts under that master only (AES-GCM fails
on any other). `master` and `nutch` (the providers with a usable Nutch key) come
from the environment and change only with `Restart`; `accepted` shrinks when a
key is revoked. An upsert is `StartUpsert`, `Validate` (the provider's answer),
`Store`; `Remove` is one query. A prompt is `ReadRecord`, the query, then `Resolve`,
which decrypts what the query found (`read[p]`), and much later the call, which ends in
`Succeed` or `CallFails` with an SDK error.

`SdkErrors` is the model of what the SDKs throw, which is not in `src/`. An error has
its real cause, which only the properties read, a status and whether its text mentions
billing. The status is one the providers use for that cause (`Statuses`) or, for any
cause, none: so it is with a lost connection and with every error event of a stream
that has begun. The text may mention billing whatever the cause; assumed is only that
the refusal of an account without credit does.

`isAnonymous` is read before the record. Both are one step: an e-mail address
never changes, and accounts with records are never deleted (only anonymous ones
close: `AccountsLive` and `KindsLast` in section 4). People submit keys
they hold (`KeyOwner`), at the right provider or not.

### SessionPaging

Ids are handed out in order, as cuids are; `updatedAt` is set on creation and by
the conversion's `updateMany`, which gives all moved rows one value. Pages are
sets: the order inside a page is `Above`. `Limits` holds the values of `?limit=`;
0 stands for every value the code replaces by the default. `FindMany` is Prisma's
cursor: rows at or behind the cursor's row, of which `skip: 1` drops that row,
and nothing when the row does not exist. The client that held the anonymous token
reads on with the new one after a conversion. `start` and `cut` are history
variables.

## 3. Runs

| Run | Instance | What it shows |
|---|---|---|
| `workspace` | 3 accounts, 1 session, 1 file, 3 requests | the overrun of the quota is bounded, no write by id reaches a third account, the facts a migration relies on hold, only late rows are lost or let transactions block each other, `Ownership` is implemented, and each account meets an `AccountLife` (which leaves none a row once it is closed) |
| `anonymous_cap` | 1 account, 2 sessions, 2 requests | **violated**: the documented maximum is exceeded by one |
| `late_work` | 2 accounts, 1 session, 1 file, 2 requests | **violated**: a row created during the transaction is lost |
| `accounts` | 2 accounts, 2 addresses, 2 requests, 3 settings, 2 rows | an address has one account for good, a profile agrees with itself, no setting lifts the limits |
| `file_store` | 2 files, 3 requests | no dangling key, readable stays readable, orphans only with a cause, `FileLifecycle` is implemented although clients are told late or never |
| `empty_download` | 1 file, 2 requests | **violated**: an empty body is served |
| `exchange` | 2 streams, 1 plain prompt, 1 session, 2 deltas, 2 blocks, a limit of 1 file | order of messages and events, what is announced is stored, the files and the flag of a response are right, every prompt begun is answered (liveness) |
| `answers` | 5 models, 2 sessions, 2 files, limits 1 | statuses name the right party, refusals leave no empty session, the model list is true but of records that do not decrypt |
| `artifacts` | every reply of up to 7 lines of 6 kinds | files are apart; those of a plain reply are its code blocks |
| `byok` | 2 people with a key each, a guest, 2 providers, 2 masters, 2 requests | keys are vetted and never mixed, a record that no longer decrypts leads to the Nutch key, a specific error blames nobody wrongly |
| `session_paging` | 5 sessions, 3 times, pages of 1 and 2 | no repetition, one order, nothing missed while the cursor's row exists |
| `lost_tail` | 3 sessions, 2 times | **violated**: the list ends early when the cursor's session was deleted |

Why the bounds are enough. Two rival migrations and one more writer need 3
requests; three parties (source, two targets) need 3 accounts. Sessions and files
differ only in which update of the transaction moves them, so one of each shows a
row before, behind and outside an update; two migrations and
one late row are the smallest deadlock. The overrun of the quota by more than one is
what `QuotaIsBounded` proves for every number of requests; the run has room for
one row too many. Two deltas tell a cut-off reply from a whole one. With two
blocks and one place the limit is met at the first block, in the middle of the loop, or,
if a file is deleted in between, not at all. Identifiers
are never reused (cuids): a deleted row's id stays `Removed`.

The three runs of `Workspace` use `ViewSpec`: its behaviours are those of `Spec` with
`once` beside them. Three accounts let one convert into a second while a third looks
on, which is what a view of a single account has to tell apart.

Two addresses and two accounts are what a race for one address, and the
conversion of an anonymous account into a signed-in one, need. The settings are a
limit, -1 and a blank; text and an unset variable take the branch of -1. One
request is enough in `Answers` because all others are its environment; two rows
with a limit of 1 let it meet a full and an exceeded limit. Seven lines hold two
complete blocks with a line of prose in between; one line of 24 characters, or two
of 12, is exactly the minimum.

Two people with keys at one provider are needed to mix them up; the second
provider is for keys submitted to the wrong one, and the second master for a
rotation and its reversal. Five sessions give pages before, at and behind a
conversion with a row of another age between them; three times tell rows older
than, as old as and younger than the conversion.

Deadlock is checked in every run but two. The ids of `SessionPaging` run out,
which ends its behaviours. In `Exchange` each request
runs once, so all of them being over is a normal end (`CHECK_DEADLOCK FALSE`).

Fairness. Only `exchange` assumes any (`FairSpec`): weak fairness of each request's
own work. It says that every await settles, with an answer or an error, and that the
event loop runs each continuation. The source configures no timeout for any client
(`s3.service.ts:16-24` sets none): that an await settles rests on the defaults of the
database client, the S3 client and the provider SDKs, and where one of them waits for
ever a request does too. Requests still in `resolve()` (`pc` is `new`) are not covered.
Nothing is assumed of clients, of deletions or of restarts.
That run uses no symmetry; the others use symmetry of the model values.

Each property of a passing run has a mutant: an operator in front of the one it
replaces, marked *Mutant*, that is the code with a plausible mistake.

## 4. What is proved

Each theorem holds for every value of the constants that the one named assumption
of its module admits (`ConstantsOK`, `NoneIsNoFile`, `LinesOK`, `ExchangeAssumption`):
any number of accounts, rows and requests, any limits and page sizes. None of the
properties is inductive alone. A module's `IInv` is its invariant, which TLC has checked
on the instance of its run; the proofs show that `Init` gives it and every action keeps it.

**Workspace.** Type correctness, `QuotaBound`, `LiveOwners`,
`RowsStayWithTheirUser`, `MigrationInv`, `ConversionKeepsEarlyWork`,
`DeadlockNeedsLateRow`, and that `Workspace` implements `Ownership`.

* `MigrationParties`: what `CheckSource` and `CheckTarget` saw stays true enough.
  The source is anonymous or already closed, never signed in; the target is
  signed in, and signed-in accounts are never deleted.
* `HeldRows`: the rows a transaction has updated still belong to its source.
  Rivals wait for the locks, so no other commit or deletion touches them
  (`LocksExclusive`: no row is held by two).
* `UnseenRowsAreLate`: a row of the source that an update did not take came
  behind it.
* From these, a commit hands its rows to a signed-in account and leaves no row
  with the closed one (`LiveOwners`); rows change hands only from an anonymous
  account to a signed-in one (`RowsStayWithTheirUser`, with `RowsExist`: a row
  once found is never back to not yet created).
* `QuotaBound` counts rows owned and inserts that have passed the check. Passing
  the check needs a free place, so the count is at most `limit - 1` rows plus one
  insert per request; an insert only moves one from one side of the sum to the
  other; nothing else adds to an account without an email, because migrations
  only give to signed-in ones.
* `DeadlockNeedsLateRow`: sessions come before files and files before the deletion
  of the account. A request that waits for a lock is therefore behind its holder in
  that order, unless the row is late; from any request of a circle, following the
  holders twice reaches one that is about to commit and waits for nobody.

For the refinement, most awaits change no table and are stutters; an insert is
`Create`, `DeleteRow` is `Remove`, and `TxDelete` is `Convert` with
`kept = moved[p]` (`CommitSees` supplies its guard).

`OneAtATimeKeepsTheCap` and `OneAtATimeKeepsAllWork` are the two documented promises
that `anonymous_cap` and `late_work` refute, proved for a single slot: any number of
accounts and rows, failures and restarts, but one request at a time. Concurrency is
the only cause of both disagreements. The first follows from `QuotaBound`; for the
second no row is ever late.

**Composition.** `AccountsLive`: in `ViewSpec` every account meets an `AccountLife`.
The proof goes through `Ownership`: its steps, seen by one account, are those of a
life or not seen at all (`LifeStep`), given that a row that once was an account's
is not created again and, when another has it, belongs to a signed-in one
(`ViewInv`). `RequestIsOfALife` is the other half: what the request in `Answers` does
to rows is itself no more than an `AccountLife`, so that a request is as good an
environment for others as the one it assumes. `KindsLast` says the same of the
accounts in `Accounts`, whose rows are only counted. Together they say that `Answers`
assumes nothing of the rows and the account of a request that the other requests do
not keep; what it assumes of its keys (`SetRecord`, `Restart`) is not derived from
`Byok`.

Stating this corrected `Answers`: its environment had no conversion into the request's
account, because a signed-in account's rows were thought to come from its own requests
only. All five of its properties hold with it.

**Accounts.** `OneAccountPerEmail`, `SignInsLast`, `ProfileIsCoherent`,
`AnonymousStaysLimited`. An id and an address that once belonged together do so for
good, and the account then exists (`Names`): only anonymous accounts are deleted. Tokens and requests in flight speak
for such pairs (`NameInv`), the unique index makes the account of an address the
only one (`TableInv`), and each read of a profile still holds at the later ones
(`ReadInv`). `AnonymousStaysLimited` counts like `QuotaBound`, with a limit that a restart
may change: whatever the environment holds, the limit is a number and not negative
(`LimitsAreNumbers`), and a restart leaves nobody between check and insert.

**FileStore.** `ReadableFiles`, `OrphansHaveACause`, `WholeStaysWhole`, and that
`FileStore` implements `FileLifecycle`. A file between its row and its key has one
creator and no reader of a key (`CreatorInv`), a key that was read belongs to a row
that had one (`KeyInv`), small files have no objects (`RowInv`), and whatever a client
is about to be told of was readable (`AnswerInv`). In the refinement `Publish` is the
insert of a small file or the recording of a key, and `Tell` is the response, later or
never; the upload is a stutter, and failures at most leave a stranded object.

**Exchange.** `HistoryInOrder`, `EventOrder`, `AnnouncedIsStored`,
`FlagTellsMissingFiles`. The invariant says of each request what its `pc` implies
about what it sent and saved (`ProgressOf`), which session it runs in (`TargetOf`),
how far the loop over its blocks is and what it has filed, listed and flagged by then
(`FlagOf`), and what of it a session stores (`StoredOf`): at most its prompt and its reply, in that order, and at least those it
has been told of. Requests touch only their own messages, so the rest is one
request against one session.

`NoRequestIsStuck` and `EveryStepCounts` are what of `EveryRequestEnds` is safety:
a request that has begun can go on until it is over, its steps lower `AwaitsLeft`, and
no other step raises it. What TLC adds is the fairness.

**Answers.** `BlameIsRight`, `MalformedIs400`, `NoEmptySession`,
`ListTellsTheTruth`. Whatever happens beside a request, used rows stay used, deleted
ones stay deleted, rows that left the account do not come back, and no account
becomes signed in (`Lasting`). A refusal for one of these reasons is therefore still
right when it is sent; the Nutch keys change only with a restart, which ends the
request. `WroteInv` is the order of the writes. `ListIsTrue` does not say that the
list is right in every state: of a record that does not decrypt it is wrong, and the
theorem says what the prompt then does instead.

**Artifacts.** `ArtifactsAreApart`: the walk never goes back behind a block it has
filed (`WalkInv`). `PlainRepliesAreFiled`: on a plain reply, what has been filed are
the long code blocks up to `lastIndex`, and `lastIndex` is outside of any block
(`PlainInv`). `OpenedAt` says which block a line is in, by a function over the lines;
`OpenedAtEquation` derives its recursive equation from the definition, after which no
induction is needed: the match goes from one line outside of a block to the next
(`NextBlock`), and the lines between them are followed up to the least one at which
the claim would fail (`PlainUntilOpening`, `BlockStaysOpen`).

**Byok.** `RecordsAreVetted`, `KeysStayWithTheirUser`, `RotationDegrades`,
`BlameIsDeserved`. The strengthening (`RequestInv`) speaks of the upsert in
flight: its key is its user's, and after `Validate` one of the provider it is for; of
the record a prompt has read, which is its user's own whatever became of the row; and of
a call that failed for its key, which then is no longer accepted. `WhatAnAnswerSays`
goes through the causes for every error of `SdkErrors`.

`RotationDegrades` is about records made under another `ENCRYPTION_KEY` and says
nothing of a key that decrypts. `RecordsAreVetted` says that a stored key was let in by
its provider once; a revocation between the check and the storing does not show in it
(which provider issued a key is a constant). It shows at the call, where
`BlameIsDeserved` asks that a connected key is blamed only if it was revoked.

**SessionPaging.** `PagesDescend`, `NothingMissed`. The list is a finite total order,
and the first rows of it form an initial segment of the wanted length. The cursor is
the last row of its page, and what was there from the start and is not shown lies
behind it (`CursorInv`). The conversion gives all rows one time, so that ids decide;
until then rows are in the order of their ids (`CreationOrder`), and it changes
nothing in the order of the rows of a scan. `EveryPageAdvances`: each further page
adds its cursor to what has been shown, so a scan does not go round.

All invariants and action properties of the passing runs, type correctness included,
and the three refinements are theorems. Only model-checked: that every exchange begun
is answered (`EveryRequestEnds`: fairness and ENABLED are out of the prover's reach),
and the disagreements, which are behaviours and need one instance.

## 5. Disagreements with the documentation

Shown by a run whose property quotes the document and is violated:

1. The anonymous limits can be exceeded by concurrent requests (`anonymous_cap`).
2. Work created while a migration runs is deleted with the account (`late_work`).
3. An offloaded file downloads as empty until its key is recorded, and for good
   after a failed upload (`empty_download`).
4. Deleting the last session of a page cuts the rest off the list (`lost_tail`).

Met while modelling, without a run of their own:

* the object of a file whose row goes while its upload runs stays in S3 (a cause
  `OrphansHaveACause` names);
* `streamPrompt` never calls `saveArtifacts`, so the code of a streamed answer is
  not filed;
* a user's own revoked key fails the prompt although a Nutch key could serve it, and
  is answered as `auth_failed`, a fault of Nutch's credentials
  (`provider-error.ts:15-16`);
* the error events of a stream that has begun carry no status, so an exhausted account,
  a rate limit or a bad request met there is answered as `unavailable`
  (`provider-error.ts:71-73`); a text that mentions billing is answered as
  `quota_exhausted` whatever its status (the two exceptions in `BlameIsDeserved`);
* after a rotation of `ENCRYPTION_KEY` the model list still calls a model
  user-owned and available whose record does not decrypt (the exception in
  `ListTellsTheTruth`);
* a fence with an info string such as `ts title` is no opening for `FENCE`
  (`artifacts.ts:53`) and the bare fence behind it becomes one: from there on prose
  is filed and blocks are not (why `PlainRepliesAreFiled` speaks of `Plain` replies);
* a stream cuts a limit error down to its message, and passes the raw message of a
  database error to the client;
* the profile of an account that was deleted in flight answers 200 without an id;
* a blank limit variable is a limit of 0.

## 6. Not modelled

AES-GCM, JWT signing and the OAuth strategies are libraries or one call of `login`;
wording, titles, logging and HTTP plumbing have no state. The throttler, CORS,
helmet, validation pipes, Swagger, the health probe and the bootstrap are
configuration. The names and extensions of filed blocks, and three backticks within
a line of text, are left out of `Artifacts`; the retries inside the provider SDKs out
of `Byok`. The order in which one statement locks its rows is left out of
`Workspace`. A PUT that S3 carries out after the client has given up on it and after
the row's deletion is not considered. Two messages of one session stored in the same
millisecond have no defined order. In `SessionPaging` all processes share one clock.

## 7. Plan

Done: all modules of section 2, in the order `Workspace` with `Ownership` (the core),
`FileStore` with `FileLifecycle`, `Exchange`, `Byok`, `SessionPaging`, `Accounts`,
`Artifacts`, `Answers`, and the proofs of section 4.

Left, each of small value or out of reach: the search of the history list
(`searchChatHistory`, one query without a cursor); row locks one by one in
`Workspace`, should the tables get statements that lock in different orders; the keys
of `Answers`' environment from `Byok`, as its rows are from `Workspace`; an abstract
conversation for `Exchange` to implement.
