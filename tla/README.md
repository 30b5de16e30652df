# Illarin in TLA+

Illarin is a site on which people publish works (characters, lorebooks,
presets, themes, extensions), with a blog beside it. A Go server (`src/api`)
keeps everything in one PostgreSQL database and a directory of content-addressed
files; a Next.js site (`src/web`) and connected apps talk to it over HTTP.

This directory holds TLA+ models of the server, TLC configurations that check
them on small instances, and proofs of their main properties for every instance.

1. The system: how its parts meet, and what each of them has to get right.
2. The plan: what was modelled and proved in which order, and what is left.
3. The modules: how state and actions correspond to the code.
4. What is checked: the runs, their bounds, the fairness, what they found.
5. What is proved: the theorems and the arguments.
6. What is not modelled.

Paths are relative to `src/api/internal` unless they start with `src/`.
`PROJECT.json` names for each definition the lines it models.

## 1. The system

### 1.1 How the parts meet

The parts do not send each other messages. They meet in three places.

* **Rows.** Every request handler and background loop is a sequence of SQL
  statements, some of them in transactions. Most decisions are made on what an
  earlier statement, or an earlier transaction, has read. That is where
  interleavings matter, and why a statement or a transaction is one action in
  the models.
* **Locks.** Row locks (`for update`, `for update skip locked`), an advisory
  lock for each blob digest (`storage.LockBlobDigest`), an advisory lock
  between deletions and a backup (`LockBlobDeletionAgainstBackup`), one mutex
  for the server's blob writes (`contentStore.writes`), one for the registry of
  waiting apps (`connect.hub`), and a channel of slots for rendering
  (`media.Library`).
* **Background loops.** `src/api/cmd/server/main.go:98-212` starts the upload
  workers, the hourly blob cleanup, the GitHub release importer, the daily
  roll-up, the notification fan-out and its cleanup, the announcements, the
  send cleanup (every 5 minutes), the blog scheduler (every 15 s) and the blog
  recovery (hourly). Each polls until the server stops. This is the whole
  justification of fairness in the models.

A restart loses everything in memory (jobs, held requests, the hub, writes
under way) and rolls back open transactions; rows and installed files stay.

### 1.2 Inventory

| Component | State it keeps | Operations | Behaviours that are hard | Correct when |
|---|---|---|---|---|
| Upload queue (`upload/operation*.go`, `original_file.go`, `replacement.go`) | `upload_operations` with status, attempts, lease token, blob; a job in each worker | accept, lease, fail, retry, finish, stage, review, accept, cancel | leases outlived, lost replies, restarts, purges in between, stale reviews | a file becomes one original file at most; settled is settled; what fails inside is put back only with tries left |
| Content store, cleanup, purge (`storage`) | files, `blobs`, marks, tombstones, advisory locks | put, record orphans, mark, prepare, delete, purge | files and rows change in different steps; checks go stale; half-finished purges | what is referred to has its bytes; what is not goes; a purge is for good |
| Backup (`src/api/cmd/backup`) | the deletion lock | lock, dump, copy, release | runs in another process beside cleanup and purge | the copy has the bytes its dump counts on |
| Sends and library (`connect`) | `sends`, `app_library_entries`, the hub of waiting requests | queue, collect and hold, claim, acknowledge, discard, report, clean up | long polls, signals, superseded waits, lost answers, leases | one live send of a work; no lost wake-up; settled is settled; a notice marked as given is not dropped |
| Connected apps, credentials (`connect/apps.go`, `credentials.go`, `connection.go`, `credential`) | requests, approvals, `connected_apps`, used tokens | ask, approve, deny, collect, refresh, revoke, change permissions | a refresh retried after a lost answer; replay detection | one app for an answer; a connection ends only for a cause |
| Blog (`blog`) | `posts`, `post_revisions`, `post_schedules`, `post_slugs`, `post_media`, `blog_writers` | save, publish, unpublish, schedule, checkpoint, delete, recover, correct an address or a byline | saves checked before their transaction; schedulers that outlive a lease; pictures of editions that differ | what is scheduled is published once; a public page is whole; an address keeps answering |
| Works, drafts (`work`) | `works`, the drafted changes and their version | edit, delete, restore, take down | optimistic versions | no edit lands on what its tab has not read |
| Versions (`version`) | `work_versions` | publish, compare, restore, answer | publishing while a draft is edited | what changed is told; a version is what was recorded |
| Page lists and counts (`page`, `readerkey`, `staff`) | events, daily totals, rankings, the daily secret | list, count, rank, roll up | midnight; works that come and go between two pages of a list | a day counts no more readers than there are, but for requests at work over its end; a walk neither repeats nor skips |
| Announcements (`integration`) | `discord_posts`, webhooks | queue, lease, send, settle | a lease without a token; a stop after sending | repeats have a cause; nothing waits for good |
| Notifications (`notify`) | recorded events, inbox rows, follows | record, fan out, fold, read, clean up | events taken in batches by several passes | nobody is told twice; nothing is lost |
| Accounts (`account`, `discord`) | accounts, identities, sessions, links, handles | sign up, verify, sign in, attach, detach, reset | requests that race for one address, handle or Discord account | a verified address is one account's; a way in remains |
| Profiles (`account/profile*.go`, `staff/restricted.go`) | profile, pictures, featured works, recommendations, restrictions and audits | edit, feature, recommend, restrict, restore | staff decides while the owner edits | audits tell what happened; a restricted profile does not change |
| GitHub release imports (`upload/github_*.go`) | sources and imports | configure, verify, find, hold, retry, import | retries, reconnections, releases that change | versions follow the dates of their releases, one a release |
| Shelf imports (`upload/shelf.go`) | pieces that wait | import, place, undo, let go | undoing after edits | an undo takes back what was placed and nothing else; placing all can be undone |
| Private prompts (`private`) | payloads and the apps that may read them; answers | share, answer | prompts whose ids change between versions | no version shows what is private now |
| Media (`media`, `image`, `work/media.go`) | pictures, the cache of image sizes, slots | add, supersede, render, cache, clear | one render for many requests; requests that leave | slots come back; versions keep their pictures |
| Blocks (`block`) | a work's page: blocks, layouts, elements | add, edit, arrange, move, remove, merge a file | the merge keeps what the creator chose | what was promised is kept |
| Formats (`format`, `jscode`) | none | recognise, read, write | shapes and archives that nearly match | packing does not change what is read |
| Downloads, summaries (`download`, `summary`) | a summary row of each work, download records | compute, renew, open, record | stored offers that outlive a release | offers are those of today; a record names what left |
| API frame (`api`, `config`, `secrets`, `postgres`, `src/api/cmd`) | none of its own | route, seal, connect | shutdown | loops stop with the server |
| Web site (`src/web`) | browser state | pages, a queue of saves | | presentation |
| Operations (`src/ops`, `src/nginx`) | deployments | deploy, roll back, serve bytes | scripts | outside the program |

`db` is generated from `db/queries.sql`, whose statements are translated in the
modules that use them; `apitest` and `testdb` support the tests. `PROJECT.json`
lists each component with its state of modelling, and every hazard found while
reading, at its line, with the properties that watch it or the reason why none
does.

## 2. The plan

The order was by how much a mistake costs (lost files and duplicated works
first) and by how far a test is from reaching it.

| # | Modules | What they add | State |
|---|---|---|---|
| 1 | `UploadQueue`, `OneShotJobs` | leases, retries, staging, review; the abstract queue it implements | checked, proved |
| 2 | `BlobStore` | content store, cleanup, purge, backup | checked, proved |
| 3 | `Sends` | sends, held requests, takedown notices | checked, proved |
| 4 | `BlogPosts`, `Editions` | posts, schedules, saves; what readers see of them | checked, proved |
| 5 | `Accounts`, `Profiles`, `Connections` | who an account is, what it shows, which apps act for it | checked, proved |
| 6 | `Works`, `Downloads` | drafted changes, versions, private prompts; files that leave | checked, proved |
| 7 | `Announcements`, `Inbox` | what is told to Discord and to inboxes | checked, proved |
| 8 | `Releases`, `Shelf` | what comes from GitHub and from a README | checked, proved |
| 9 | `Counts`, `Catalogue`, `Pictures`, `ImageSizes` | what readers are counted by and shown | checked, proved |
| 10 | `Formats`, `Offers` | what formats carry, which are offered | checked, proved |
| 11 | `Comparison`, `Pages`, `Recognition` | pages, merging, changes told, files recognised | checked |

Modules that compose others: `Delivery` (announcements and inboxes of one
publication), `People` (accounts, profiles, connections), `Reads` (list,
pictures, sizes, editions), `Imports` (posts, shelf, releases), `Downloads`
(works and the files that leave), `Offers` and `Recognition` (over `Formats`),
`Pages` (over `Comparison`).

Left, in the order of their worth: a proof of `MergeKeepsWhatWasPromised` and of
`DraftedChangesAreTold` (section 5.9 says what they would need), account storage
and its lock, the notes of versions, and the categories of posts.

## 3. The modules and the code

Conventions in all of them:

* An action is one SQL statement or one transaction, or one critical section
  under a mutex. What a handler carries in memory from one to the next is a
  field of the actor's record (`job`, `req`, `put`, `run`, `save`, `worker`,
  `call`, `tab`). Where a transaction takes a lock before it reads, it is one
  action; where it reads rows it does not lock, it is split.
* A time is kept as the number of ticks left until it is reached; `Tick`
  decreases them all. `x <= now` becomes `x = 0`. Where only an order of times
  matters, an action lets one of them pass (`LinkExpires`, `AnHour`, `HourPasses`).
* A definition whose name ends in `Bug` is another definition with one
  plausible slip; `PROJECT.json` "mutants" says which property finds it.
* Bounds that the code does not have are CONSTANTS marked `bound:`.

### 3.1 Uploads and the content store

**`UploadQueue`**: `op[o]` is a row of `upload_operations` (`wait` is
`available_at`, `lease` the lease token), `job[w]` the `uploadJob` a worker
holds, `work[k]` the version and standing of the work a replacement is for,
`reviewed[o]` the version the open review shows, `produced[o]` the original
files recorded so far. `AcceptUpload` and `AcceptOriginalFile` are
`operation_accept.go` and `original_file.go`; `LeaseNextUpload` is the statement
with `skip locked`; `FailUpload` and `FinishInternalFailure` end an attempt with
`Backoff`; `FinalizeUpload` and `StageReplacement` end a job, both reading the
lease token again; `OpenReview`, `AcceptReplacement`, `CancelReplacement` are
`replacement.go`. `Purge`, `Crash`, `DropJob` and a reply that is lost are the
troubles. A lease token is a fresh uuid in the code and the attempt number here,
which is as unique among the leases of one operation. What a file is read into
is left out: a job ends in one of the outcomes the code tells apart.

**`OneShotJobs`** is what the queue promises: a job is submitted, staged, done
once or given up. `UploadQueue!ImplementsJobs` is that specification, its
fairness included, under the mapping that forgets leases, attempts and workers.

**`BlobStore`**: `file`, `row`, `mark`, `tomb` are the files below `blobs/` and
the tables `blobs`, `blob_cleanup_marks`, `blob_tombstones`; `lock` the advisory
lock of a digest; `put` the one `contentStore.Put` in progress (`PutLock`,
`PutInstall`, `PutCommit`, `PutFails`); `run` one pass of `Cleanup` (orphans,
unfinished purges, marks, candidates, then two transactions for each candidate);
`del` the transaction in which bytes and then the row go; `purge` and `backup`
the two commands. `ref[r]` is any row that names a digest, or a request between
`Put` and recording one; ids are never used again. Four kinds of reference are
told apart because the code does: those of works (kept for a recovery window
after deletion), of uploads (counted while pending or processing, not while
staged), of profiles and of posts. `Protected` says which of them
`LiveReferencesHaveBytes` is about: not a staged upload nor what becomes of it,
nor a post picture between being chosen and used, because the code does lose
those (4.4).

### 3.2 Sends and connections

**`Sends`**: `app`, `work`, `send`, `library` are the tables, `hub[a]` the
request that waits for app a in `hub.waiting`, `req[r]` a request under way: its
phase, what it read, whether its channel holds a signal, whether it was
superseded, what it will answer. `Queue`, `InsertSend`, `Signal` are
`sends.go`, with other requests in between; `Collect`, `Hold`, `Claim`,
`StartWait`, `Wake`, `GiveUp`, `Answer` are `collect.go`; `Sync` and `Report`
are `library.go` with the takedown notices of `takedown.go`;
`DeleteExpiredSends` the cleanup loop. `spent.lost` is history: notices in answers
that were lost. All works are extensions, the works for
which an app must declare something.

**`Connections`**: both ways to connect an app. `ask` is the request with the
creator's answer, `proof` who holds an approval token, `tries` the codes a
creator has entered this hour; `app` the connected apps, `access` those with an
access token, `history` the used refresh tokens; `call` what each call of an app
has read, `held` the token its program has, `said` every answer given, `doubled`
and `reused` history for the property on ends. One action a statement or a
transaction of `apps.go` and `credentials.go`.

### 3.3 People

**`Accounts`**: users, Discord identities, retired handles, verification links,
resets, sessions, and `req[r]`, what each request holds. Most requests go
through three actions: `Ask...` reads what the handler reads before its
transaction, `Check...` takes the advisory locks on handle, address and Discord
account and reads again, and the commit writes. `Fail` ends a request anywhere.

**`Profiles`**: text and links, pictures, featured works, recommendations, the
restriction and its audits. A request asks, locks the account's row
(`LockAccount`), and then commits; staff's decisions take the same lock.

**`People`** runs the three side by side; they share no row that one writes and
another decides on, so a run interleaves each by itself.

### 3.4 Works

**`Works`** is one work: lifecycle, deletion and takedown, `rev` the drafted
changes' version, `page` the prompts of the draft (absent, public or private,
under ids that stand for one identity), `payload` their wording, `apps` who may
read it, `versions` what each published version recorded, `answer` what the
creator said about a version's prompts, `staged` a replacement under review,
`tab` what a tab has read. Every edit goes through `work.Candidate.Commit` with
the version its tab read; `CandidateResult` is the answer that carries the new
one. Wordings have no values; everything on a page that is not a prompt is one
value `body`; one upload is staged at a time; two prompts of one identity are
not on a page at once.

**`Downloads`** adds the files that leave: `OpenFile` reads and builds,
`Record` writes what left, with anything in between.

**`Pictures`**: cover and gallery of a work: which pictures are known, which
current, and what versions recorded of them, through replacement, publication
and restoration.

**`Comparison`** and **`Pages`**: `Comparison` holds what a version tells of its
changes (`CompareContent`, `ComparePresentation`, `Digest`), and the reading of
those lists that a creator makes of them. `Pages` is a work's page as a sequence
of blocks with layouts, slots and elements: saves, additions, removals, moves
between blocks, arrangement, and the merge of a replacement file with the
decisions its creator took.

### 3.5 Readers

**`Counts`**: the daily secret and the keys made of it, events, totals, sends
counted, rankings, starts of the server; `overnight` is history, the requests at
work when a day ended. **`Catalogue`** extends it by the list
of works, in three orders and two scopes, and a reader who walks through it.
`Watch` keeps history: what the walk has shown, and which works stood in the
list all along. **`ImageSizes`**: pictures, cached sizes, slots, the flight that
renders a size for all who asked, readers who leave, a full disk, purges and
clearing. **`Editions`**: what readers see of a post: the page, its pictures,
byline and addresses; and what they have been shown. **`Reads`** composes
`Catalogue`, `Pictures`, `ImageSizes` and `Editions`.

### 3.6 The blog and imports

**`BlogPosts`**: posts, editions kept, the latest schedule of each, reserved
addresses, announcements, the writer's switch. `CheckSave` and `SavePost` are
the checks before the transaction and the update; publishing, unpublishing,
deleting and the rest run under `lockPost`; `LeaseDueSchedule`, `PublishLeased`,
`LeaseLost` and `PublishFails` are the scheduler. Its loop reads the clock once,
so a lease may be shorter than `ScheduleLease`, down to none.

**`Shelf`**: a page's blocks, the pieces of Markdown of an import that wait, the
pictures. Pieces are placed singly or a whole import at once, undone singly or in a
batch, let go of; the owner edits, versions are recorded and an hour passes.
`PlaceAll` and `Undone` are recursive functions over a batch.

**`Releases`**: a repository's releases as GitHub tells them, sources, queued
imports, works and versions; configuration and verification, finding, holding,
retrying and importing. One process runs the loop, an import is one action. `late`
is history: releases that failed or that a check left out.

**`Imports`** composes `BlogPosts`, `Shelf` and `Releases`.

### 3.7 Telling

**`Announcements`**: webhooks, the queue of posts with lease, tries and
put-offs, and the loops that lease, send and settle; `shown` is what Discord
shows, `excuse` what went wrong. **`Inbox`**: events, the passes that take them
in batches and fan them out, inbox rows with folding, follows, installations,
reading, clearing and retention. **`Delivery`** composes the two.

### 3.8 Formats

**`Formats`** is what each format declares (roles carried, conditions, the
report of what is lost) and what its writer writes. **`Offers`** adds a work's
content, its versions, the stored summary with its stamp, and releases of the
server whose declarations differ; `RecomputeStale` runs at start. **`Recognition`**
is how a file is recognised: shapes and markers of JSON, archives with their base
folder and manifest, code with its markers; `Repack` changes how the same files
are packed.

## 4. What is checked

### 4.1 The runs

The `MC` modules instantiate the modules above; where one has several parts
(`part` in MCFormats, MCImports, MCPeople, MCReads and MCDelivery), a behaviour
chooses one part and leaves the others at rest, since no part reads another's
rows. `PROJECT.json` gives each property a mutant that violates it.

| Run | Instance | What it shows |
|---|---|---|
| `upload_queue` | 2 uploads, 2 workers, 1 target work, lease of 1 tick, 2 attempts, 1 trouble, 2 versions; fair | one worker can write (`OneWriterPerUpload`), no settled row is written again (`SettledStaysSettled`), a worker whose lease runs is not overtaken (`SlowUploadKeepsItsLease`), an accepted replacement is the reviewed one (`AcceptedAsReviewed`), the queue implements one-shot jobs and each settles or waits for its owner (`ImplementsJobs`) |
| `blob_store` | 1 digest, 2 references of works, delay 2, a run of 1 tick, 1 purge, 1 backup, 1 trouble; and uploads, profile and post pictures with delay 1 and no trouble; fair | `LiveReferencesHaveBytes`, `BackupIsWhole`, `OneWriterPerDigest`, `PurgedStaysPurged`, and unreferenced bytes go (`UnreferencedBlobsGo`) |
| `blob_store_review` | as `blob_store`; violation | a staged upload loses its bytes |
| `sends` | 2 sends to one app that does not change, or 1 send with 2 apps of which one changes once; 2 requests, lease 1, 2 attempts, room for 1 hold | `OneLiveSend`, `NoLostSignal`, `WaitsAreRegistered` |
| `sends_live` | 1 app, 1 send taken once at most, 2 requests, 1 takedown, 1 trouble; fair | a takedown marked as told was told, is in an answer or was in a lost one (`NoticesReachTheApp`), no send stays for good (`SendsGo`) |
| `delivery` | 2 owners of whom one's channel cannot be opened, 2 posts, 2 loops, 2 tries, 1 trouble; 2 accounts, 1 work, 2 passes, 2 events; fair | `RepeatsHaveACause`, `ToldOnce`, `NothingWaitsForGood` |
| `people` | 2 accounts, 2 handles, 2 addresses, 1 Discord account, 2 requests; 1 profile, 3 works, limits of 1, 2 decisions; 1 request for a connection, 2 apps, 2 tokens | `VerifiedAddressIsSole`, `CanSignInAgain`, `AuditsTellTheStory`, `OneAppPerAnswer` |
| `works` | 2 ids of one prompt, 1 app, 4 edits, 2 versions, 1 answer, 1 read | `ReviewedIsCurrent`, `UnansweredStaysHidden`, `RecordTellsWhatLeft` |
| `reads` | 2 works, 1 reader, 1 app, 2 requests, 3 days, pages of 1 work; 4 pictures and 2 versions; 2 uploads, 1 size, 2 viewers, 1 slot; 1 post with 2 addresses, 2 editions | `EachDayIsOnce`, `WalkShowsEachOnce`, `VersionsHaveTheirPictures`, `SlotsAreReturned`, `PublicPostIsWhole` |
| `reads_posts` | as `reads`; violation | the pictures of a scheduled edition are refused to readers |
| `formats` | a card or a package, 3 edits and 1 version; a character or a theme, 2 changes, 1 version, 2 releases; files of 3 bytes of code, 2 repacks | `MergeKeepsWhatWasPromised`, `DraftedChangesAreTold`, `OffersAreToday`, `EachAppGetsTheMost`, `RepackingChangesNothing` |
| `schedules` | 1 post, 2 addresses, 2 saves, 2 schedulers, 2 attempts, 2 decisions, 1 trouble; 5 pieces, 2 blocks, 1 edit; 1 extension with 2 releases, or 2 that want one repository | `WaitingCanGoLive`, `PublishesWhatIsScheduled`, `NoSaveIsLost`, an undo after edits takes back only what was placed (`UndoTakesBackOnlyPieces`), a held release is not passed (`VersionsFollowReleases`) |

### 4.2 Why the bounds are enough

* Two of whatever competes (uploads and workers, references of one content,
  requests, saves, schedulers, loops, passes) give every order of two actors.
  Orders of three are left to the proofs of section 5, which hold for any number.
* A lease of one tick can be held, run out, and be outlived. Two attempts give
  a first, a last and the one too many. The cleanup delay of two ticks leaves
  room for a run that began before a mark and ends after it.
* One trouble is enough for each single failure at each place; two failures in
  one history are not checked, but covered by the theorems.
* One digest: the store keeps each digest's state apart, and only a run's list
  of candidates relates two. What one failing candidate does to those behind it
  is not checked (4.4).
* In `sends` the constraint `Apart` keeps two questions apart that do not meet:
  a second send matters to the order in one app's queue, a second app to the
  limit on holds. In `works` it keeps apart a watched tab, an answer and a file
  read; in `reads` a request that counts and a walk that is under way.
* One identity under two ids is the case in which `private` has to decide what
  a recorded prompt stands for; prompts of different identities never meet.
* Limits of 1 (featured works, recommendations, slots, code attempts, pages)
  make "full" the common case.
* A page of at most three edits can split, move, remove and merge a block; two
  changes of content and one change of release make every order of saving,
  publishing and starting that a stamp can be wrong in.

`CHECK_DEADLOCK FALSE` stands in every configuration because the system may
rest: nobody has to upload, publish or send, and the bounds may be used up.

### 4.3 Fairness

* Weak fairness of the loops (upload workers, cleanup, purge, backup, send
  cleanup, announcing loops, fan-out passes): each polls for as long as the
  server runs, and a step that stays possible is tried at the next poll. A purge
  and a backup are commands that, once begun, go on until they end or fail;
  failures are counted and bounded.
* Weak fairness of the rest of a request that has begun: the server bounds its
  time, and a held request has a ceiling (`HoldCeiling`, 30 s).
* Fairness of `Tick`: time passes. In `BlobStore` it is strong, because
  `RunTime` and `RequestTime` disable the clock while a run or a request is at
  its limit, again and again; real runs are an hour apart.
* Nothing is assumed of owners, staff, readers, apps, or of failures, and the
  runs of safety properties assume no fairness at all.

### 4.4 Findings

Two runs show the program doing what its own text says it does not.

1. **`blob_store_review`**, `storage/cleanup.go:336`. An upload staged for
   review still names its blob, but does not count as a live reference. After
   the cleanup delay its bytes go, its row cannot, every later cleanup stops at
   the same error, and an owner who accepts gets an original file without bytes.
   The comment at :387 says that Cleanup deletes what nothing refers to any more.
2. **`reads_posts`**, `blog/post.go:814`. `PostImageSize` serves a picture
   without a signature only if an edition captured for "publish" uses it. An
   edition a schedule publishes was captured for "schedule", and one put back
   may be a checkpoint: their pages name pictures that readers are refused
   (`blog/post_media_test.go:122` expects them served).

Seen while modelling, without a run:

*Storage.* A purge lets works and uploads go but not profile or post pictures:
the bytes go, the row cannot, and every later cleanup fails when it resumes the
purge (`storage/purge.go:67`); a candidate that fails does so first in every run
(`cleanup.go:72`). A post picture can be released between a save's check and its
recording (`cleanup.go:377`, `blog/post.go:850`). A size may be cached while its
picture is purged (`content.go:366`), or cleared between rendering and the
redirect to it (`media/library.go:106`). `replacement.go:39-50` locks a work and
then its account, `original_file.go:41-44` the account and then the work:
PostgreSQL has to end one of the two. Files under review do not count against an
account's storage (`work/service.go:167`).

*Sends and apps.* A request that read the app as live inserts a send, or library
rows, after its revocation (`db/queries.sql:1019`); a held request releases with
the capabilities it read when it began (`collect.go:141`); requests at the same
time exceed `PendingPerApp` (`sends.go:126`); an acknowledgement leaves the
expiry alone (`queries.sql:1164`), where `app-integration.md:495` promises a
week; an app that drops its permission leaves its library (`apps.go:511`). A
claim that passes sends over, because the batch was full of works that can no
longer be sent, sleeps until the 5 s recheck; `NoLostSignal` allows exactly that. A takedown is
marked as told before the answer leaves, so an answer that is lost takes its
notices along (`takedown.go:13`); `NoticesReachTheApp` allows a lost answer and
nothing else. An upload whose lease lapses is leased again whatever its attempts
(`operation.go:353`): `MaxAttempts` bounds what is put back, not what is leased.

*Blog.* A save that read before a publication lands after it, and only what it
overwrites is compared (`NoSaveIsLost`). A save checked while the post was a draft lands after its publication
and moves its address to one that is not reserved (`post.go:218`); two posts can
then match it. `ReplaceSchedule` and `RepublishPost` accept any kept edition,
one that publishing would refuse among them. Two posts of one title race on the
address's index. Pictures stay public after their post is unpublished. A
tombstone may tell an older explanation.

*Works and pages.* The gallery a creator chose to keep loses its pictures on
acceptance (`original_file.go:174`). A hidden block is shown again when it is
removed from the draft (`arrangement.go:145`). Keeping a prompt's own wording can
lose it; restoring can leave private prompts without any allowed app, so that
the next save fails; marking a prompt private alone is "nothing to publish";
reordering items alone is not told. A kept gallery may name pictures beyond its
layout's slots (an index out of range), and a custom block with three elements
that are no pictures panics when a picture is placed into it. Positions tie
after a drafted block is removed. A theme file without styles or controls drops
elements that were pinned; merging drops elements without a role.
`ResolvePromptCorrespondence` takes no row lock and looks at no takedown. An
answer given while one prompt was private lets a recorded version show another
that is private now (`private/publication.go:111`), and an edit nobody confirmed
can make a recorded private prompt readable (`ExposureRefusal`, :354, asks about
the draft only).

*Formats and offers.* A theme's gallery is told as carried (`capability.go:245`).
The stamp leaves out what a format drops on a condition and which roles it
requires, and an earlier release stands for any of another stamp; a work deleted
when the release came and restored later keeps a stale summary until the next
start; a stale work deleted while `RecomputeStale` runs fails the start. Losses
that are not told: a lorebook's recursion flags, the descriptions of a preset's
scripts, the targets of a Lumiverse package, a V2 card's V3 keys. A card or theme
in an archive is looked for at the very top only; `__MACOSX` in a further folder
spoils the base; an extension's archive with a V3 card at the top is read as
CharX. `RestorePreserved` panics on a missing book (`restore.go:45`).

*Imports.* A release that failed and is retried after a later one was imported
publishes older content over newer (`late` in `VersionsFollowReleases`); a prerelease turned stable keeps its old
date; importing holds the work's row for up to 30 s. Letting go of pieces can
fail (`shelf.go:419`); after an undo, pictures still name the removed block;
pictures that wait are recorded by versions; a restored version can bring a
waiting section back.

*Reading and telling.* A request that was at work at midnight makes yesterday's
secret again, and its reader counts twice on that day (`page/counts.go:16`,
`download/record.go:49`); `EachDayIsOnce` allows one count for each such request
and none besides. Between midnight and the roll-up at 00:20 the report
shows nothing of yesterday; a second ranking of one day can disturb a walk. An
older update can overwrite newer words in an inbox (`notify/service.go:97`).

## 5. What is proved

tlapm checks every theorem below to its last leaf. They hold for every value of
the constants that satisfies the modules' assumptions (positive leases and
limits, special values outside the sets they mark, and what is said below of one
module or another); the sets may be infinite unless it says otherwise. Where a
property is not inductive, the invariant named with it is.

Each theorem's *Property* is the definition a run checks on a small instance; a
theorem without one says more than any run was needed for.

### 5.1 UploadQueueProofs

| Theorem | Property |
|---|---|
| `TypeCorrect`, `OneResult`, `BlobUntilSettled`, `RetriesAreSpread`, `LifeOfARow` | |
| `OneWriter` | `OneWriterPerUpload` |
| `SettledForGood` | `SettledStaysSettled` |
| `LeaseLasts` | `SlowUploadKeepsItsLease` |
| `AcceptanceIsReviewed` | `AcceptedAsReviewed` |
| `KeepsThePromise` | the safety part of `ImplementsJobs` |

"One result for an upload" is not inductive by itself: a worker that has lost its
lease might finish too. `IInv` adds what the code relies on. `TokensAreSpent`: a
job's token is the attempt it was leased for and no larger than the row's count,
so a new lease is newer than any job. `TokensDiffer`: two workers never hold the
same token of one upload. `SettledIsQuiet`: a settled row has neither wait nor
lease that time could change. `UnsettledUploadsNameTheirBlob` keeps a purge away
from settled rows. Lemmas say what a quiet step, a step that rewrites one
unsettled row and a step that settles rows preserve; each action is shown to be
one of these, except the lease, the record and the tick, which have lemmas of
their own. `LifeOfARow` turns that around and lists all that one step of anyone
can do to one row; retries, leases and acceptance follow from it shortly, and so
does `KeepsThePromise`: the initial states of `UploadQueue` map to initial
states of `OneShotJobs`, and every step to a step or a stutter.

### 5.2 BlobStoreProofs

| Theorem | Property |
|---|---|
| `TypeCorrect` | |
| `OneWriter` | `OneWriterPerDigest` |
| `LiveHaveBytes` | `LiveReferencesHaveBytes` |
| `BackupWhole` | `BackupIsWhole` |
| `PurgedForGood` | `PurgedStaysPurged` |

A reference is *sound* while it is valid and of a kind that cleanups count
(`Sound`). Only `Put` makes one (`NewSound`), under the lock of the digest; and a
cleanup deletes what was marked before its run began, longer ago than any request
takes (`Fresh`, `RipeIsOld`; this is where the assumption
`RequestTime + RunTime < CleanupDelay` enters, minutes against a day in the
code). So nothing sound names a digest from its preparation, or from the check
under its lock, until its row has gone (`RunInOrder`, `DeletionInOrder`), unless
it is purged. A backup holds the lock that deletions take, so no row of its dump
loses bytes before they are copied.

### 5.3 SendsProofs

| Theorem | Property |
|---|---|
| `TypeCorrect`, `SettledForGood` | |
| `OneSend` | `OneLiveSend` |
| `WaitsRegistered` | `WaitsAreRegistered` |
| `NoSignalIsLost` | `NoLostSignal` |
| `NoticesArrive` | `NoticesReachTheApp` |

The types say among other things that no send is taken more than MaxAttempts
times; they need `DownWasTaken`, that a work that is down was taken down, so that
a notice names a real takedown. `WaitsAreRegistered` needs that a request on its
way to the hub is superseded by nobody yet (`Fresh`).

`NoSignalIsLost` is the proof that `Collect` and `Queue` cannot miss each other
although no lock spans the two: a send becomes claimable only by an insert,
whose request then stands between insert and signal, or by a claim's own
transaction; a claim that leaves its request with nothing has either taken
each claimable send or passed it over; and from then on a signal finds the
request's channel, because its place in the hub was taken before the claim.
`RowsMove` and `RequestsMove` list what a step can do to a send and to a waiting
request. `NoticesArrive` follows a notice from the claim or the report that takes
it: the request is answered in the same step (`AnswersAreKept`), so it cannot be
superseded or left behind with the notice in hand.

### 5.4 ImportsProofs

| Theorem | Property |
|---|---|
| `TypeCorrect`, `FirstPublicationsOnly`, `OneVersionARelease`, `AllPlacedCanBeUndone` | |
| `WaitingMayGo` | `WaitingCanGoLive` |
| `SchedulesPublish` | `PublishesWhatIsScheduled` |
| `SavesOverwriteWhatTheyRead` | `NoSaveIsLost` |
| `ReleasesFollow` | `VersionsFollowReleases` |

*Schedules.* A token is fresh when a scheduler takes it, so a scheduler whose
token is still the schedule's has the edition the schedule names
(`LeaseInOrder`). Whoever takes a post from public view or deletes it settles its
schedule first (`WaitingInOrder`). A post's version grows with every change of
its text, so a save that finds the version it read finds the text it read
(`SaveInOrder`).

*Releases.* What a work was made of came before its repository was verified or is
recorded as published, and all else that is recorded came after
(`ReleaseInOrder`), so what is imported is new to the work. For the order: what
waits or is held and is not `late` is of a later date than every version, and what
a check will still find is later than both (`OrderInv`).

*The shelf.* Placing all and undoing all are recursive functions over a batch. The
induction is over a set: the lengths for which the claim holds contain 0 and each
one's successor, so they are all of `Nat` (`Induct`, by the library's theorem on
least elements, which takes no operator). The claim is that a
page's blocks have numbers of their own, that each placed piece remembers the
block it changed, and that taking back one placement gives the page it was made
on (`InGoodOrder`, `Takes`).

### 5.5 PeopleProofs

| Theorem | Property |
|---|---|
| `TypeCorrect`, `HandlesAreForGood`, `InBounds`, `RestrictedStay`, `EndsForACause` | |
| `AddressesAreSole` | `VerifiedAddressIsSole` |
| `EntryIsKept` | `CanSignInAgain` |
| `AuditsTell` | `AuditsTellTheStory` |
| `OneApp` | `OneAppPerAnswer` |

*Accounts.* What a request looked up under its locks still holds when it commits
(`Secured`): whoever makes an address verified, takes a handle or attaches a
Discord account holds the lock on it (`Guarded`), and no two requests hold the
same lock (`LocksApart`). Every account that exists has a password or a Discord
account from the day it is made, and an address from Discord is verified
(`InOrder`).

*Profiles.* Of the requests for one account one has its row, an owner's only while
the profile is not restricted (`RowsApart`); each stored picture is one request's
or has been shown (`PicturesApart`).

*Connections.* What a request for a connection says of its answer is what its
creator said (`AnswerKept`), and the app made of it has taken it
(`FromAnAnswer`). Each token on its way is the app's or one it had
(`TokensKnown`, `CallKnown`); a program that was careful has the current one, and
a single refresh with it on its way (`Careful`).

### 5.6 WorksProofs

| Theorem | Property |
|---|---|
| `TypeCorrect`, `PrivateHasWording`, `Frozen`, `WordingIsForTheAllowed` | |
| `EditsAreOfWhatWasRead` | `ReviewedIsCurrent` |
| `HiddenUntilAnswered` | `UnansweredStaysHidden` |
| `RecordsTell` | `RecordTellsWhatLeft` |

A page has one prompt of an identity, and so has every version and the file under
review (`IInv`). A version that shows a prompt has it under the id it is private
by, or is held back whole; every edit changes the number another tab has read.

### 5.7 ReadsProofs

| Theorem | Property |
|---|---|
| `CoverOnPage`, `OnlyTheShownIsServed`, `AddressesAnswer` | |
| `CountedOnceADay` | `EachDayIsOnce` |
| `WalkIsWhole` | `WalkShowsEachOnce` |
| `VersionsHavePictures` | `VersionsHaveTheirPictures` |
| `SlotsComeBack` | `SlotsAreReturned` |
| `PagesAreWhole` | `PublicPostIsWhole` |

*Counting.* While a day lasts its secret stays, so the keys of the day differ in
the reader or the counter, and each stands for one count (`RowInOrder`,
`KeyInOrder`, `OncePerKey`). Once it is over, the requests still at work on it are
no more than `overnight` says, each counts once and is gone, and a roll-up only
moves the sum from events to totals (`DayInv`).

*The walk.* While the ranking it was counted on is kept as it is, what has been
shown lies at or above the cursor, and of the works that stand where they stood,
what has not been shown lies below it (`Whole`). The sets of works and of readers
are finite here; sums over the days and the first works below a cursor have
induction lemmas of their own.

*Editions.* Each edition kept has a use for every picture it places, as the
drafted post does while it is there (`Carried`); what waits to be published and
what is public are editions kept (`InPlace`); all that a published edition places
has been shown.

*Pictures and slots.* What a version's page names and its cover are among the
pictures it records, and the drafted cover is a current picture of no gallery. A
slot is taken by a picture that is being prepared and by a rendering past its
queue, and each step that gives or takes a slot does so with one of these
(`SlotInv`).

### 5.8 PublicationProofs

| Theorem | Property |
|---|---|
| `EventsAreNotLost`, `WhatWasReadStays`, `PublishedIsOffered` | |
| `OnceButForACause` | `RepeatsHaveACause` |
| `EventsAreToldOnce` | `ToldOnce` |
| `OffersAreOfToday` | `OffersAreToday` |
| `MostIsGiven` | `EachAppGetsTheMost` |

*Posts.* A loop that has leased a post and not sent it may still show it, so the
two are counted together. A post is leased by a second loop only when the first
outlived its lease, and then the excuse is counted; when nothing befell a post, at
most one loop has it, and what that loop remembers of the answer is true.

*Entries.* An entry stands for no event that is in the queue or not yet recorded,
so one that is taken off is new to every inbox; a batch goes in one event after
the other.

*Offers.* What a stamp says was worked out then is true while the release of that
stamp runs; what the report says a card's format carries is what its writer
writes.

### 5.9 Only model-checked

* Liveness (`UnreferencedBlobsGo`, `SendsGo`, `NothingWaitsForGood`, and that each
  upload settles, in `ImplementsJobs`) rests on fairness and `ENABLED`, which
  tlapm does not reason about.
* `MergeKeepsWhatWasPromised`: an invariant for it has to say, of every page that
  saves, moves and merges can make, which elements are pinned and which roles the
  definitions allow where; the merge is built from folds and `SelectSeq`, whose
  every use needs an induction of its own.
* `DraftedChangesAreTold`: that the changes lead from one page to the other is an
  isomorphism between two orders taken out of sequences by `SelectSeq` and
  `FlattenSeq`.
* `UndoTakesBackOnlyPieces`: an invariant for it has to say of every page that
  saves, moves and removals can make where each placed piece stands.
* `RepackingChangesNothing` holds of the files the run gives, chosen to be those a
  creator packs; of arbitrary files it does not (a base folder that only one
  packing has, 4.4).

## 6. What is not modelled

* The content of works and files: reading and writing a format's bytes, the
  lexer of `jscode`, image codecs, Markdown, encryption.
* Sizes: account storage, limits of archives and bodies, free space on the disk.
  Rate limits but the one on codes.
* Texts: wording of notifications, posts and mail, titles, details, metadata,
  display options, search, facets, categories, the activity log, staff's lists.
* Row locks as such. A transaction that locks what it reads is one action; the
  two that lock two rows in opposite orders (4.4) can only be ended by PostgreSQL.
* More than one server process, except where the code is written for it (leases).
* The web site but for its tabs, deployment, and the test support.
* Isolation is taken as the code sets it (READ COMMITTED with explicit locks).
  Where a transaction reads rows it does not lock and the order matters, the model
  splits it (`BlobStore` `PrepareCandidate` and `DeleteCandidate`, `Sends` `Queue`
  and `InsertSend`, `BlogPosts` `CheckSave` and `SavePost`, the `Check` steps of
  `Accounts`).
