# A verification project for jadeejoao-api

This directory keeps TLA+ models of the wedding API, the TLC configurations that
check them on small instances, and proofs for the TLA+ proof system of what
should hold on instances of any size. Paths below are relative to the
repository; `service.go` alone means the one of the package under discussion.

## 1. The system

One Go process (`cmd/api`) serves guests and the couple over HTTP, one goroutine
per request. State lives in PostgreSQL (through `pgxpool` and sqlc queries), in a
Supabase storage bucket, in Supabase's identity provider, and in a little
process memory: the gallery cache, the rate limiter's buckets, the JWKS cache
and the WaitGroups of detached e-mails. No request holds a lock of the process
while it talks to the database: **handlers meet in the tables**, so the
interesting interleavings are interleavings of SQL statements under READ
COMMITTED, PostgreSQL's default, which nothing in the repository changes.

| Component | State it keeps | Operations that change it | What it meets | What is hard |
|---|---|---|---|---|
| **Gifts and the ledger** (`internal/gifts`) | `gifts`, `contributions` | Declare, CreateGift, UpdateGift, DeleteGift, ModerateContribution | the guest list: an invitation's deletion unsigns contributions | last unit sold twice; conditional statements that wait for a lock with a stale WHERE; which reason a lost condition is given |
| **Guests and invitations** (`internal/guests`) | `guest_groups`, `guests` | AddCompanion, RemoveCompanion, SubmitRSVP, CreateGuest, DeleteGuest, SetPrimary, DetachGuest, MergeIntoInvitation, EditGuest, RenameInvitation | content (deadline), notifications, importer, gifts | cascade against a concurrent move; stale family sizes; members that change under an RSVP; lock cycles |
| **Importer** (`internal/importer`) | `imports`, both guest tables | Reconcile (pure) then Apply, SaveReport | guests | a plan made against an old snapshot, written row by row among other writers; report saved after the commit |
| **Content** (`internal/content`) | `content_sections` | Get, Replace of a section | guests: the RSVP deadline | the deadline is read before the transaction it guards |
| **Messages** (`internal/messages`) | `messages` | Create, Delete | notifications | none of its own |
| **Notifications** (guests' and messages' services, `platform/resend.go`) | WaitGroups, mails under way | a detached send with one retry; the drain at shutdown | `cmd/api` | a drain racing new sends; a retry of a mail that had left |
| **Galleries** (`internal/instagram`) | bucket manifest, cache per person | Posts, Editable, Replace | bucket | a fetch in flight across Replace; copies stored out of order |
| **Media** (`internal/media`) | `media`, bucket objects | Upload, Delete | bucket; the galleries that show its images | two stores, no common transaction |
| **Rate limiter** (`platform/ratelimit.go`) | buckets per address | Allow, sweep | every request | the ceiling on buckets |
| **Admin auth and passwords** (`internal/server`, `platform/jwks.go`, `cmd/adminuser`) | JWKS cache; users at Supabase | first-login password change; create and reset by the operator | Supabase | stale tokens, lost and late answers |
| **Start-up and shutdown** (`cmd/api`, `cmd/migrate`) | none | - | all | the drain only |
| **PIX codes, templates, configuration, plumbing, sqlc output** | none | - | - | formatting |

What makes each component correct, in the code's own terms:

* *Gifts*: declarations never promise more units than a gift has; the ledger is
  append-only and never loses its gift (AD-6); it never points at a link card; a
  condition that failed is explained truthfully; nobody waits for ever.
* *Guests*: nobody leaves the list but by DeleteGuest (AD-10); every guest is on
  an invitation that exists; an invitation has exactly one primary; a guest
  gathers at most `MaxCompanionsPerGroup` people, only people alone on their
  invitation, and sends home only people a guest gathered; an RSVP is all or
  nothing and answers for everybody.
* *Importer*: a merge deletes nobody and moves nobody; the file decides who is on which
  invitation and a mark who heads it; a repetition has nothing left to do; a wipe
  commits with its replacement or not at all.
* *Notifications*: every accepted RSVP or message leads to one mail or to a
  logged failure, and a shutdown waits for the ones under way.
* *Galleries*: what the site shows was saved, and is replaced in time; a gallery
  whose images the couple minds shows all of them.
* *Media*: every row has its object until its deletion is asked for, and an
  answered deletion leaves nothing.
* *Rate limiter*: no address spends more than its burst plus its refill, and the
  map of buckets is bounded.
* *Passwords*: who holds a temporary password can do nothing but change it; the
  obligation goes with it and never outlives it; nobody is told a right password
  is wrong.

`PROJECT.json` lists the same components with their status and, under `hazards`,
each of the hard behaviours at its line.

## 2. Plan

| # | Modules | What for | State |
|---|---|---|---|
| 1 | `Gifts`, `MCGifts`, `GiftsProofs` | the ledger under concurrent declarations and edits | checked, proved |
| 2 | `Invitations`, `MCInvitations`, `InvitationsProofs` | the guest list under concurrent guests and couple | checked, proved |
| 3 | `Ledger` (abstract), `GiftsRefinement`; proved in `GiftsProofs` | that the row lock makes a declaration look atomic | checked, proved |
| 4 | `ImportPlan` (the pure part), `Importer`, `ImporterProofs`, `ImportTransaction`, `ImportTransactionProofs`; `MCSheets`, `MCImporter`, `MCImportTransaction` | the importer's decisions, and its statements among the writes of everybody else | checked, proved but for two properties |
| 5 | `Notifications` with content's deadline, `NotificationsProofs` | detached mails, one retry, bounded drain, liveness under shutdown | checked; safety proved |
| 6 | `Gallery`, `MediaLibrary`, composed by `Bucket`; `BucketProofs` | freshness of a cache; two stores and failures between them | checked, proved |
| 7 | `Accounts`, `AccountsProofs` | first-login obligation against stale tokens and late calls | checked, proved |
| 8 | `RateLimiter`, `RateLimiterProofs` | tokens, sweeps, ceiling | checked, proved |

Every safety property that a passing run checks is also a theorem, except
`AloneIsApplied` and `WipeBringsTheFile` of `ImportTransaction`; those and liveness are
TLC's alone. What is left is to widen: the weaker promises that two concurrent requests
on the guest list still keep where `NobodyLost` and `FamilyStays` fail (who may be lost,
and to which request), a proof of the two properties just named, and two panels of the
gallery.

## 3. How the database is modelled

`Gifts`, `Invitations` and `ImportTransaction` share one reading of PostgreSQL, and
everything they find follows from it (`Importer` is an import that nobody else writes
beside, so that its statements come to what they come to together):

* **One action per statement.** A handler is a program counter (`pc`) that moves
  from statement to statement; between two of them anybody may run. What the
  code carries in Go variables from one statement to the next is the record
  `req`. What comes before the first statement (validation, a lookup that decides
  an early return) is in the handler's first action; a commit is part of the last
  statement's action, for nothing can be observed between them.
* **Snapshots and waiting.** A conditional `UPDATE` or `DELETE` is two actions
  when its `WHERE` asks something of another table (or of other rows): *scan*,
  which evaluates the whole condition against what is committed, and *write*,
  which waits for the row's lock and then looks again only at the row's own
  columns. That is READ COMMITTED's re-evaluation of a row that was waited for.
  When the `WHERE` asks only about the row itself, one action is enough.
* **Row locks.** `FOR UPDATE` on a gift is `Gifts!lock`; in `Invitations` a row
  written and not committed is locked by having an entry in `wrote[t]`, a group
  held `FOR UPDATE` or being deleted is in `held[t]`, and the `FOR KEY SHARE`
  lock a foreign-key check takes on a group is derived from what was written
  (`Shares`). `ImportTransaction` keeps the rows that a transaction wrote in
  `tx[u].mine`; a row, a name or an invitation with a transaction's hands on it is waited
  for (`GuestFree`, `NameFree`, `LabelFree`, `Deletable`, `Joinable`).
* **Foreign keys** are checked when the statement ends, against what is committed:
  `contributions.gift_id` refuses the deletion of a gift, `contributions.group_id`
  is set to NULL, `guests.group_id` deletes the guests with the group, one row at a
  time (`Cascade`), seeing members committed by the time the delete got its lock.
* **Failures.** `Abort` ends a request between any two of its statements: the
  context was cancelled, the connection broke, the process died, or PostgreSQL
  chose it as a deadlock's victim. The transaction is rolled back and what
  committed before it stands. A commit whose acknowledgement is lost
  (`DeclareInsert` answering `failed` with the row in) is modelled for
  declarations, where the client's next move matters.

## 4. Gifts

| Code | Model |
|---|---|
| tables `gifts`, `contributions`, the ids of `guest_groups` | `gift`, `ledger`, `groups` |
| `SELECT ... FOR UPDATE` in `CreateContribution` | `lock` |
| `Service.Declare` before the transaction | `DeclareRead` |
| `pgRepo.CreateContribution` | `DeclareLock`, `DeclareSum`, `DeclareInsert` |
| `Service.PixPreview` | `PixPreview` |
| `CreateGift` / `UpdateGift` and the read back | `CreateGift`, `UpdateGiftScan`, `UpdateGiftWrite`, `UpdateGiftExplain`, `GetGiftBack` |
| `DeleteGift` | `DeleteGiftScan`, `DeleteGiftWrite`, `DeactivateGift` |
| `ModerateContribution` | `ModerateContribution` |
| an invitation deleted by the guest list | `InvitationRemoved` |
| what the gift list promises, and the gift list as seen from outside | `Ledger`; `OnShelf`, `Promise` in `GiftsRefinement` |
| `validateGiftParams`, `validateAmount`, `resolveAmount`, `checkAvailability`, `UnitsLeft` | `ValidGift`, `ValidAmount`, `AmountResolves`/`ResolveAmount`, `HasUnits`, `UnitsLeft` |

The sums of the queries are cardinalities of a set of centavos (`Centavos`), so
that no recursion stands between the model and the prover. Two history variables
excuse the couple's deliberate overrides: `reopened` (a cancelled contribution was
revived) and `repriced` (kind, quota or limit were edited). `reply` is the answer
the last step sent, so that answers can be checked.

**Runs.** Amounts and quotas are 1 or 2 centavos (`MaxAmount = 2`), enough for a
quota that divides, one that does not, an offer above the maximum and an offer of
nothing.

| Run | Bounds | Shows |
|---|---|---|
| `gifts_ledger` | 2 requests, 1 gift, 2 ledger ids, 1 invitation, valid and refused forms and amounts | `TypeOK`, `LockDiscipline`, `SoldWithinUnits`, `LostConditionMeansLedger`, `DeclaredAgainstRowInForce`, `LedgerHasReferent`, `LedgerAppendOnly`, `ImplementsLedger` |

`MCGiftsLiveness.cfg` checks `EveryRequestAnswered` (every request is answered, for
no row lock outlives its request) on the same instance, with fairness; it passes and
is not among the regular runs.

**The ledger it implements.** `Ledger` knows no requests, locks or answers: a gift is
put up, changed or taken down, a declaration enters the book at one instant, against
the gift and the book of that instant, and a deleted invitation takes its signatures
along. `GiftsRefinement` maps the statements to it: the shelf is the table `gifts`
without the rows that are gone, the book is `ledger`, the signers are the ids of
`guest_groups`. `ImplementsLedger` is where `CreateContribution`'s order shows: if the
transaction gave up its lock between the sum and the insert, the insert would be a
declaration of units that are no longer there, and so no step of `Ledger`. `Next` of
`Ledger` guards its disjuncts by what they change, so that TLC can match a step
without enumerating what the others would do.

Two requests race for the last unit, or one declares while the other edits, deletes
or moderates. The proofs cover any number of requests.

One gift is enough because no statement reads two gifts; the proofs lift it. Two
ledger ids are what overselling a unit takes. The bounds are `Gifts` and
`Contributions` (ids are given out once) and `LedgerHasRoom`, which starts a
declaration only while ids remain for it: a bound of the model, not a rule of the
code.

**Fairness.** `SF(Advance(c))` for each request: the Go scheduler runs it, and
PostgreSQL queues the waiters of a row lock, so one that is enabled again and
again gets its turn. `Abort` is never assumed.

## 5. Invitations

| Code | Model |
|---|---|
| tables `guests`, `guest_groups` as committed | `guest`, `group` |
| uncommitted row versions and their locks | `wrote` |
| groups `FOR UPDATE` or being deleted | `held` |
| `AddCompanion` | `AddCompanion`, `LockGroupForCompanion`, `CountGroupCompanions`, `ReadCompanion`, `MoveGuestToGroup`, then `DropScan`/`DropGroup`/`Cascade` |
| `RemoveCompanion` | `RemoveCompanion`, `RestoreCompanionToOwnGroup` |
| `SubmitRSVP`, `UpdateAttendances` | `SubmitRSVP`, `UpdateGuestAttendance` once per answer, in the order sent |
| `CreateGuest` (two commits and a clean-up) | `CreateGuestInto` / `CreateGuestAlone`, `InsertGuest`, `DropScan` ... |
| `DeleteGuest` | `DeleteGuest`, `DeleteGuestRow`, `DropScan` ... |
| `SetPrimary` | `SetPrimary`, `SetGroupPrimary` once per row |
| `DetachGuest` | `DetachGuest`, `MoveGuestHome`, `EnsureGroupHasPrimary`, `MakePrimary` |
| `MergeIntoInvitation` | `MergeIntoInvitation`, `MoveGuestToGroupAsAdmin`, `CheckReference`, `DropScan` ... |
| the deadline's reading, a name that is taken, who is first in the alphabet | choices |

Histories: `uninvited` (who DeleteGuest deleted) and `gathered` (whose present
place was chosen by a guest).

**Runs.** Every list an import can leave is an initial state, up to symmetry:
`Singles` (everybody alone), `Families` (of any size), `AllImports` (some not
imported yet).

| Run | Bounds | Shows |
|---|---|---|
| `invitations_guests` | 2 requests, 3 guests, 4 groups, allowance 1; gather and send home | `CompanionCeiling`, `OnlyGatheredSentHome` under races of guests |
| `invitations_lists` | 2 requests, 2 guests, 3 groups; every operation but SetPrimary | `TypeOK`, `GuestHasInvitation`, `DeletedStayDeleted`, and `SubmissionsAreWhole` for RSVPs against moves and deletions |
| `invitations_one_at_a_time` | 1 request at a time, 3 guests, 4 groups; every operation but the RSVP | `NobodyLost`, `AtMostOnePrimary` |
| `invitations_liveness` | 2 requests, 2 guests, 2 groups, fair | `EveryRequestAnswered`, through the deadlocks two requests can reach |
| `invitations_cascade_loss` | the smallest instance | a finding, below |

Two requests are what every race found here takes (each is between one writer and
one reader of a row); three guests are needed for a family to be split or left
headless. SetPrimary changes nothing but a flag and meets the other operations in
the one-at-a-time and the liveness runs. `invitations_lists` tells states apart
without the histories and the last answer (`VIEW NoHistory`), which no statement
reads and none of its properties needs. A group per guest and a spare let detachments and new invitations
happen. `NobodyLost` and `AtMostOnePrimary` are checked one request at a time because
with two they fail: that is what `invitations_cascade_loss` and the configurations of
section 11 show, and the pair says that the flaw is the interleaving and not the
operation. That a guest's gathering splits no family is a guard
(`guests/repo.go:159`), which holds one request at a time by a theorem
(`FamiliesStayAlone`) and fails with two (`MCInvitationsSplitFamily.cfg`); no passing run
checks it.

**Fairness.** `SF(Advance(t))` as above; and
`WF(Deadlocked(t) /\ Abort(t))`: PostgreSQL's deadlock detector aborts a member of
a ring of requests that wait for each other (`WaitsFor` is its wait-for graph).
Nothing else is assumed to abort.

## 6. Importer

| Code | Model |
|---|---|
| tables `guest_groups`, `guests` | `list`: the label of each group, the row of each guest |
| the local variables of `Service.Import` | `upload[u]`: file, mode, snapshot, plan |
| `Snapshot` (two queries) | `ListGroups`, `ListGuests` |
| `Reconcile`, `inferGroupByMembers` | `Target`, `Targets`, `Survivors`, `GroupPlan`, `Reconcile`, `InferGroupByMembers` of `ImportPlan` |
| `Options.Replace`, asked for by `cmd/importfile` | `Replace` |
| `Apply`: begin, the wipe | `Begin`, `DeleteGroup` |
| its loop over the plan, in its order | `Statements`, `Executes` |
| `InsertGuestGroup`, `UpdateGroupLabel` | `InsertGuestGroup`, `UpdateLabel` |
| `InsertImportedGuest`, refused or not; `UpdateGuestIdentity` | `InsertGuest`, `Rollback`; `UpdateGuest` |
| `SetGroupPrimary`: what its statement finds, then row after row | `FindMembers`, `FlagMember` |
| commit; the deferred rollback | `Commit`; `Over`, `Abort` |
| `SaveReport`, saved or failed | `SaveReport` |
| the rows that the guests service writes (`db/queries/guests.sql`) | `NewGroup`, `RenameGroup`, `DeleteGroupIfEmpty`, `NewGuest`, `UpdateGuestDetails`, `DeleteGuest`, `MoveGuest`, `FlagGuest` |

Three modules. `ImportPlan` has what is pure: the plan for a file and a snapshot, what each
of its writes makes of a row, and what all of them together make of the tables
(`Applied`). `Importer` is an import that has the list for itself from its snapshot to its
commit. `ImportTransaction` is the code as it runs: any number of imports at once, each
statement a step, at READ COMMITTED and with no lock but those of the rows it wrote, and
between any two statements a row written by the rest of the API. Those rows are steps of
their own, whenever the row is free: that is more than the guests' transactions can do
(it has `SetPrimary`, `AddCompanion` and `RemoveCompanion`, each row of them at any
moment), so that what holds here holds among them. That the two modules agree is
`AloneIsApplied`: a transaction with no other beside it comes to `Applied`, however old
its plan. Nothing is assumed of the order in which a statement's rows are written.

Names and labels stand for what `guests.Normalize` makes of them, so that the full
name of a row is told from its normalized name only by *when* it was written. The
plan is a function of the keys of the file's groups of lines. `Target` is what one
line claims, given what the lines before it claimed, and `Targets` a recursive function
over the lines. Ids are finite sets of numbers, so that "the next free id" means
something. `SchemaAssumption` is what the schema says of every list there may be at the
start: a guest's invitation exists and normalized names are unique
(`00001_init.sql:17-19`). Which of two invitations with one label is "the first" is a
choice: the query does not order them.

**Runs.**

| Run | Bounds | Shows |
|---|---|---|
| `importer_files` | 1 import; every file of 1 to 3 lines over 3 names and 2 families with at most one mark; every list of up to 3 guests on 2 invitations | `SettlesAtOnce`, `FileIsFollowed`, `HeadsKept`: what an import alone does |
| `importer_races` | 2 imports, 1 row written by the rest of the API; four files of 1 or 2 lines (`RacingSheets`); lists of 1 or 2 guests whose invitations have different labels | `TypeOK`, `AloneIsApplied`, `NobodyMoved`, `HeadsMoveOnlyByMark`, `WipeBringsTheFile`: what is left of it among others |

Three lines are what two matches for one invitation and a line that disputes it take;
an invitation of which two matches are less than half would need five guests, and is
not among the instances: ties and majorities beyond these sizes rest on the proof. The
order of ids means nothing, so that the lists name them in one order only. In the races,
the four files have a marked line for a family, another one, lines for a family and for
oneself, and two for one invitation of which one is marked; a file may meet itself, in
either mode. One row by the rest of the API is a second or third writer between two
statements of either import. An import that is idle and has no uploads left rests:
deadlock is not checked. No liveness is claimed: an import that waits for another's row
waits until that one ends, and of two that wait for each other PostgreSQL aborts one
(`Abort`).

**What does not hold.** An invitation does not keep to one primary. Two imports that each
insert a marked guest on one invitation do not see each other's, nor do an import and
the panel's `SetPrimary`, so that both guests end up as its head
(`MCImportTransactionTwoPrimaries.cfg`); and a marked line whose guest was moved or deleted since the
snapshot leaves it without one (`MCImportTransactionHeadless.cfg`).
`HeadsMoveOnlyByMark` therefore speaks of invitations no line is marked for.

## 7. Notifications

| Code | Model |
|---|---|
| content's RSVP deadline against `s.now()`; `UpdateSection`, midnight in Sao Paulo | `daysLeft`; `UpdateSection`, `NewDay` |
| `deadlinePassed` | `DeadlinePassed` |
| the handlers of `submit-rsvp` and `create-message` | `request`; `Accept`, `ReadDeadline`, `Store`, `Refuse`, `Notify` |
| the goroutine of `notifyRSVP`, `notifyMessage` | `mail`; `SendSucceeds`, `SendRejected` (a 4xx), `SendFails`, `SendUnheard`, `Retry` |
| `notifyWG` of each service | `waiting` |
| `slog.Error` after the last attempt | `logged` |
| `DrainNotifications`: the goroutine that calls `Wait` | `drain`; `StartDrain`, `Wait` |
| `run` of `cmd/api` from the listener on | `phase`, `cut`; `Signal`, `ShutdownEnds`, `GuestsDrained`, `MessagesDrained`, `TimeIsUp`, `ListenFails` |

Time is left out but for what it ends: a limit may pass at any moment of the phase it
limits, and is then remembered in `cut`. `Wait` is a WaitGroup's: it returns at once
when the counter is zero, else it is woken by the last `Done`, and a counter that was
raised before it runs again is misuse, which panics. `SendUnheard` is the mail that
left and whose answer did not come back. `request[p] = "deadline"` stands between the
reading of the deadline and the decision, `"store"` between the decision and the
commit: what the deadline was while a submission was on its way is the history `seen`,
and `DeadlineDecides` asks that a decision agree with one of those values; that is
what a check before the transaction can promise. The model has a mailer: without
`RESEND_API_KEY` nobody is notified and nothing waits.

| Run | Bounds | Shows |
|---|---|---|
| `notifications` | 1 submission, 2 messages, a deadline of today or yesterday, fair | `TypeOK`, `NothingKilledInTime`, `TwiceOnlyIfUnheard`, `DeadlineDecides`, `EveryPostHeardOf`, `ShutdownTerminates` |

Two posts of one service are what a counter that is raised while it falls takes, and
one of the other is what the order of the drains takes. The deadline's decision
compares with one day, so that the day before and the day itself are all the cases.
The system stops when the process has exited: deadlock is not checked.

**Fairness.** Weak, of timers (`TimeIsUp`), of the main goroutine, of each `Wait`, of a
handler between its commit and its goroutine (it waits for nothing there), and of
each attempt, which is limited to ten seconds. None of the handlers' statements, which
may hang in the database, and none of `Signal`. `EveryPostHeardOf` is the promise of
AD-15 while the process lives; `ShutdownTerminates` holds because both phases are
limited. Past those limits, or when the listener fails, mails are killed silently:
`NothingKilledInTime` excepts just that, with `cut`.

## 8. The bucket: media library and galleries

| Code | Model |
|---|---|
| objects of the bucket, rows of `media` | `objects`, `rows` |
| the local variables of `media.Service.Upload` and `Delete` | `task` |
| `Upload` | `UploadImage`, `PutObject`, `InsertMedia` |
| `Delete` | `DeleteImage` (with the row read), `DeleteObject`, `DeleteMedia` |
| a manifest in the bucket, `Service.cache` | `manifest`, `cache` |
| `Posts`: the copy read, the fetch, the copy stored | `Lookup`, `FetchAnswers`/`FetchRefused`/`FetchFails`, `Store` |
| `Editable`; `Replace`: the upload, the copy dropped | `Editable`; `Upload`/`UploadFails`, `DropCopy` |
| a save that the client gave up and the bucket takes all the same | `late`; `LandsLate` |
| `cacheTTL`, `missTTL`, `time.Since` | `CacheTTL`, `MissTTL`, `Tick` and the age of a copy |
| the process is started again | `Restart` |

Each call to the bucket or to the table may fail before it took effect or after, and
the process may die between any two. `MediaLibrary` and `Gallery` are modules of their
own; `Bucket` lets them run side by side and adds what the couple is asked to do by
DELETE /media's description: to take an image out of the gallery before deleting it
(`Unused`), and to compose galleries of images that it sees (`Composed`). Under that
assumption `SavedGalleryIsWhole` is a property of both modules: an upload that is listed
before its object is there, or an object removed in the wrong order, breaks it.

A 4xx is taken for "no manifest" whatever it says (`service.go:184-186`): a bucket that
refuses (403, 429) while it has a manifest shows visitors an empty gallery for as long as
a miss is kept (`FetchRefused`), and shows the panel an empty one to edit (`Editable`).
`StaleOnlyForATime` excuses an empty or failed copy within that window of such an answer
(`fault`), and nothing else. A save whose answer did not come, or that was given up, may
have landed, may land at any later moment, or never. The history `blind` has the images
that the couple deleted although the gallery showed them, because the panel was shown
none where there was one, or although a late save may yet bring them back: they are what
`SavedGalleryIsWhole` excepts.

| Run | Bounds | Shows |
|---|---|---|
| `bucket` | 1 image, 2 library requests, 2 visitors, `MissTTL` 1 and `CacheTTL` 2 ticks | `TypeOK`, `StaleOnlyForATime`, `LibraryMatchesBucket`, `SavedGalleryIsWhole` |

A tick stands for as long as a miss is kept, and the TTL of a copy is twice that: long
enough for a copy that is older than a miss may be, and is still served. A fetch is
limited to ten seconds, less than a tenth of a tick, and may see one tick pass, not two.
`StaleOnlyForATime` takes two visitors, one whose fetch is late and one whose copy it
replaces. Two
library requests are an upload and a deletion, or two deletions of one image. A CDN
between the process and the bucket is left out: the manifest that was put is the one
that is read. Nothing is claimed about liveness: nobody has to visit.

The library does not read what visitors have, nor do visitors read the library, and with
both at full width the product of the two is large. `CONSTRAINT HalvesApart` looks at
deletions and at uploads that break off only while nobody visits and no copy is kept; the
proofs have no such constraint.

One panel is open at a time. With two, the later save wins over what the other panel
was never shown, and nothing in the code looks at that; so does the panel's own list
when the process restarts while it saves (`UploadFails`).

## 9. Accounts

| Code | Model |
|---|---|
| the account at Supabase: password, `app_metadata.must_change_password` | `account` |
| tokens: the claims that `ValidateBearer` reads | `tokens`; `SignIn`, `Expires` |
| `keyfuncLazy`'s cached JWKS | `keys`; `LoadKeys`, `KeysFail` |
| `adminAuthMiddleware` | `LetThrough`, and the guard of `Ask` |
| POST /admin/password | `change`; `Ask`, `VerifyPassword`, `SetPassword`, `LandsLate` |
| `cmd/adminuser`, create and `-reset` | `operator`, `delayed`; `FindUserByEmail`, `CreateOrReset`, `OperatorGivesUp`, `OperatorLandsLate` |

A call to Supabase that was given up may still take effect, at once or much later. A
token keeps what the metadata said when it was issued. History tells who chose the
password in force (`by`) and which passwords were in force while a change was under
way (`met`). `AnswersAreTrue` is about two answers, "changed" and "wrong": it asks no more than what one call that proves a password and
another that replaces it can give, namely that the password proved was in force at some
point since the change was asked for.

| Run | Bounds | Shows |
|---|---|---|
| `accounts` | 2 changes of password, 1 operator, 2 passwords | `TypeOK`, `ObligationFollowsPassword`, `AnswersAreTrue` |

Two passwords tell the present one from the next; two changes race with each other and
with the operator. What holds is not what an operator might expect: a change that was
given up and lands after a reset puts the owner's password back and clears the
obligation, which `ObligationFollowsPassword` allows because both go together. A token
cut before a reset carries no obligation and opens the panel until it expires; the
property speaks of tokens that a temporary password bought (`token.by`).

`VerifyPassword` has three answers for a password it could not check, besides yes and no
(`password.go:81-95`): a refused key (503), a limit reached (429), and anything else.
The first tells the caller that the password is right ("A senha está certa",
`password.go:90`), which nobody has looked at. `MCAccountsRightWhenSaid.cfg`
(`RightWhenSaid`), beside the run, shows it.

## 10. The rate limiter

`RateLimiter` is `Allow`, one action for yes (`Admit`) and one for no (`Refuse`), for the
mutex is held throughout, and `Tick`. The table is a function from the addresses it
has; the tokens of a bucket are kept as `golang.org/x/time/rate` keeps them, as what is
left, refilled as time goes. What is so many ticks old may be a little older or not quite
so old: a bucket idle for exactly the ticks of a limit may be dropped by a sweep or stay,
and so may a regular sweep come or not, for the code compares a moment later than 60
seconds with 60 seconds. What an address could still ask had nothing ever been
forgotten is the history `ideal`, and both properties compare with it.

| Run | Bounds | Shows |
|---|---|---|
| `rate_limiter` | 4 addresses, 3 buckets, the code's own times in ticks of 30 s: a sweep every 10, idle for 20 (forced: 2); the limiter of posts regains 5 requests a tick up to 20, here 1 up to 4 | `LimitKept`, `RefusedForCause` |

One address more than the table has places is what a forced sweep and a refusal take. A
burst is four ticks' worth of requests, so that a bucket that a regular sweep drops has
long been full, which is what makes forgetting it harmless, and one that a forced sweep
drops after two ticks has not: what it lacks then, `Burst - ForcedTTL * Rate`, is what a
flood can win an address each time it is forgotten, 2 of 4 here and 10 of 20 with the
code's numbers. A flood may keep a newcomer out for as long as it lasts; that is the ceiling's
price and no property forbids it.

## 11. What the model found

`invitations_cascade_loss` is a `violation` run and a finding of `PROJECT.json`, with the
line of the repository that promises otherwise. The others are variations on the same
instances that are not among the regular runs; TLC reports the named property violated
when it is given the configuration.

1. *Ledger on a link card* (`MCGiftsLinkCard.cfg`): UpdateGift's `NOT EXISTS` is not asked
   again after it waited for a declaration.
2. *Delete answers an error* (`MCGiftsDeleteErrors.cfg`): the same for
   DeleteGiftIfNoContributions; the foreign key then refuses.
3. *Last quota twice* (`MCGiftsDoubleClaim.cfg`): reviving a cancelled contribution
   checks no availability.
4. *Two-way ledger* (`MCGiftsOneWay.cfg`): `00001_init.sql:45-46` promises one direction.
5. *A guest lost* (`invitations_cascade_loss`): of two crossing AddCompanions, one
   deletes the group the other has just moved somebody into, and the cascade takes
   that guest with it.
6. *A family split* (`MCInvitationsSplitFamily.cfg`): the group size is read unlocked.
7. *A headless invitation* (`MCInvitationsHeadless.cfg`): the couple merges the primary
   of a family into another invitation. SetPrimary given a guest of another
   invitation does the same (the same configuration with `Ops = {"primary"}`).
8. *Two primaries* (`MCInvitationsTwoPrimaries.cfg`): EnsureGroupHasPrimary against
   SetPrimary.
9. *Sent home by a guest* (`MCInvitationsSentHome.cfg`): a merge keeps
   `added_by_guest`, so that a guest may undo what the couple decided.
10. *A member without an answer* (`MCInvitationsUnansweredMember.cfg`): the member list is
    read before the transaction.
11. *An empty invitation* (`MCInvitationsEmptyInvitation.cfg`): RemoveCompanion does
    not clean up the invitation it empties.
12. *A stale normalized name* (`MCImportTransactionStaleName.cfg`): UpdateGuestIdentity puts a
    renamed guest's old name back and leaves the new normalized name.
13. *An import that takes a primary away* (`MCImportTransactionHeadless.cfg`): the guest it
    marks was moved or deleted since the snapshot, and SetGroupPrimary clears the
    others.
14. *An old gallery after a save* (`MCBucketShownAtOnce.cfg`): a visitor's fetch that was
    under way when `Replace` dropped the copy stores the old gallery, which is then
    served for ten minutes, although `service.go:107-110` and the operation's
    description (`admin_http.go:66-67`) say that the change shows immediately.
15. *Two primaries by two imports* (`MCImportTransactionTwoPrimaries.cfg`, `SinglePrimary`): each `SetGroupPrimary`
    writes the members its own transaction sees; `importer/repo.go:122` says that it
    "keeps a single primary per group". An import and the panel's SetPrimary do the same.
16. *A password called right* (`MCAccountsRightWhenSaid.cfg`): a refused key is answered
    with "A senha está certa" (`password.go:90`) for a password that was not checked.

## 12. What is proved

Eight modules hold theorems, for every number of requests, gifts, contributions, guests,
invitations, files, images, addresses and passwords. Each has one inductive invariant,
`SafetyInv` or `IInv`, that TLC checked on an instance first; every other theorem follows
from it. The only assumptions are those the modules name: `ConstantsAssumption` of
`Gifts`, `Invitations`, `ImportPlan` and `Notifications` (ids are distinct from the null
values; contributions, posts and the importer's ids are finitely many, so that
cardinalities add up), `ImportPlan`'s `SchemaAssumption`, `MaxImportsAssumption` and
`BoundsAssumption` (the importers' bounds are numbers), `TimesAssumption` and
`ContentsAssumption` of `Gallery` (a miss is kept no longer than a copy), `Bucket`'s
`GalleriesAssumption` (a gallery is any set of images), and `RateLimiter`'s
`NumbersAssumption` (a bucket that a regular sweep drops has had time to fill, and a
forced sweep is the earlier one, as with the code's numbers). `Accounts` needs none. Assumptions of a single theorem stand in its
statement.

**GiftsProofs.** `SafetyInv` is inductive (`SafetyInvariant`). Besides what is
wanted of it, it needs:

* `NamedGiftExisted`: a request names an id that was given out, so that "present"
  is decided by deletion alone;
* `ScanRemembered`: an update that saw ledger rows still has them, ledgers being
  append-only;
* `CommitChecked`: what `CreateContribution` checked under the lock is still true at
  the insert. This is the heart: it holds because every other writer of the gift
  row or of its ledger either waits for the lock (`LockDiscipline`) or only makes
  the sum smaller (a cancellation), or is excused by `reopened`.

The arithmetic is in lemmas about `CentavosOf` (one inserted row adds its amount; a
moderation to *cancelled* never adds; two integer divisions by a quota that divides
one of them add up). From it: `TypeCorrect`, `LockSafe`, `NeverOversold`,
`ReferentKept`, `LostConditionJustified`, and the action properties
`InsertsJustified` and `AppendOnly`.

The same module proves the refinement, `PromiseKept`: the statements implement `Ledger`.
The initial tables are an empty shelf and an empty book; then each action is a stutter,
or exactly one step of `Ledger`: only `DeclareInsert`, the writes of gifts, the
moderation and the loss of an invitation are seen. That the insert is a declaration
against the shelf and the book *of that instant* is `CommitChecked`, so that the
simulation adds nothing to the invariant.

**InvitationsProofs.** `SafetyInv` is inductive (`SafetyInvariant`). Every action is
first shown to have one of a few *shapes* (it only moves on; it writes one row; it
takes a group; it commits; it is rolled back), and the preservation of each
conjunct is proved once per shape. `GuestHasInvitation` alone is not inductive; it
needs that row locks are exclusive (`RowLocks`), that nobody else holds or shares
a held group (`GroupLocks`), that the statements that rely on a held group hold it
(`LocksHeld`), that an invitation under creation is its request's own
(`HomeReserved`), that an uncommitted row's group is live or the request's own once
its foreign key was checked (`WrittenIntoGroup`), and that a cascade visits every
member it can see (`CascadeCovers`). From it: `TypeCorrect`, `GuestsKeepInvitation`,
`DeletedForGood`.

`GatherInv` is inductive next to it: from the count to the commit the invitation an
AddCompanion gathers into has room for one more (`StepMade`), because the group lock
keeps every other gatherer out; an uncommitted row is marked gathered only for a reason
(`RowMade`). From it: `CeilingKept`, which assumes that no merge is requested, for
MergeIntoInvitation keeps `added_by_guest` and counts nobody; `SentHomeJustified`,
which assumes neither merges nor detachments for the same reason; and
`SubmissionsWhole`, which assumes nothing. Both assumptions leave more operations than
the run's gather and send home.

`AloneInv` is what one request at a time (`Alone`) finds: the rows it wrote and the rows
it read are the list, so that the invitation it deletes is empty and the cascade takes
nobody. From it: `NobodyLostAlone`, `OnePrimaryAlone` (if no imported list had two
primaries on an invitation) and `FamiliesStayAlone`. `Alone` cannot be dropped:
`invitations_cascade_loss` and the configurations of section 11 are the counterexamples.

**ImporterProofs.** An import that has the list for itself, in three layers.

* *Data.* `Given` hands the n-th smallest free id to the n-th smallest request: its
  injectivity is a fact about ranks in finite sets of naturals (`RankTaken`,
  `RanksDiffer`, `GivenFacts`). `Targets` is a recursive function; that it is the
  fixpoint of `Target` is proved by a least counterexample (`TargetsFacts`). From it: no two
  groups of lines are written to one invitation (`TargetOfFacts`, `PlaceFacts`).
* *The invariant.* `IInv` says that one import is under way at a time, that its plan is
  `Reconcile` of its file and its snapshot, and that the snapshot is of the list as it
  is (`Current`); and that guests have invitations and names are unique.
* *A plan that meets the list it was made from* (`Landing`). Every line lands on the
  person and the invitation it names (`LineLands`, `PlaceLands`), which gives
  `FilesAreFollowed`, and with `HeadsLand` `ImportsKeepHeads`. `ImportsSettleAtOnce` adds
  the second reconciliation: labels tell invitations apart afterwards (`MadeLabels`), and
  key after key, in the order their lines open, the second reconciliation's target is the
  place the first one wrote to, or what it was where nothing was written
  (`SettledStep`); a least counterexample stands for the induction.

**ImportTransactionProofs.** Any number of imports, at any of their statements, among any
edits, with plans of any age. `IInv` says of each that its plan has the shape of a plan
for its file (`PlanOK`), and of what its transaction wrote (`OwnOK`) that, in a merge, the
row of somebody who is listed keeps its invitation, and its flag unless a line is marked
for that invitation (`Merged`), and that nobody committed is on an invitation it created;
that every invitation to be created has been, or has yet to be (`Planned`); and that two
transactions wrote no row in common and neither puts anybody on an invitation the other
created (`Apart`), which is the row locks. Nobody else changes a row that a transaction
wrote, so that what is committed under it leaves `OwnOK` as it was (`OwnKept`), and each
statement adds a row of a known kind. From it: `TypeCorrect`, and, for a commit makes the
transaction's rows the list's, `NobodyEverMoved` and `HeadsKeptUnlessMarked`.

**NotificationsProofs.** `CountOK` (the counter of a service is the number of its
goroutines that are not done), `MailOK` (what is known of a mail by how far its
goroutine is), `SeenOK` and `ShutdownOK` (a shutdown that exceeded no limit left no
handler, and no goroutine of the services it drained). From it: `TypeCorrect`,
`NothingKilled`, `NeverTwiceKnowingly`, `DeadlineObeyed`.

**BucketProofs.** The library's part: what is being uploaded is nobody else's business
(`UploadsOK`), a deletion's second half starts without an object (`DeletionsOK`), and
the row of what is to be deleted outlives its object (`UnwantedOK`). The gallery's: what
is about to be stored is at most the tick old that its fetch may have seen pass, or
comes from a bucket that failed or refused since (`FetchedOK`), and a copy at most one tick
older than it looks (`CopyOK`), across saves, early or late, and restarts. `ShownOK` joins
them: every image that the bucket shows or may come to show, or that the panel counts
on, has its object unless its deletion was asked for, and what is shown in spite of that
is in `blind`. From it: `TypeCorrect`, `LibraryMatches`,
`StalenessBounded`, `GalleryWhole`.

**AccountsProofs.** An obligation goes with a password of the operator's, in the account
and in every token that was cut from it (`ObligationOK`), and a change under way has met
the password in force (`MetOK`). `AnswersTrue` is about the two answers it names, and not
about the refusals of section 9. From it: `TypeCorrect`, `ObligationKept`, `AnswersTrue`.

**RateLimiterProofs.** Idle ticks have given their requests back, to the bucket and to the
`ideal` (`EarnedOK`, `Earned`), so that what a regular sweep forgets is full, and what a
forced one forgets lacks at most `Gain`; nobody is given less than the `ideal`, nor more
than the `Gain` that one forced sweep can win them, and nothing while the table was
never full (`ShareOK`). From it: `LimitNeverEvaded`, `RefusalsJustified`.

**Only model-checked.** `EveryRequestAnswered` (of both modules), `EveryPostHeardOf` and
`ShutdownTerminates`: liveness under fairness and ENABLED are beyond the prover.
`AloneIsApplied` and `WipeBringsTheFile`: both compare a commit with the statements of a
whole plan, and an invariant for either has to follow every row from statement to
statement as `Applied` puts it together; that is left. Where
a theorem's assumption is stronger than the system (`Alone`, no merges), the
counterexamples of section 11 say what happens without it.

## 13. What is not modelled

* Reads that decide nothing: lists, the dashboard, the CSV export, name lookup and
  suggestions, and what a handler reads back after its commit to render an answer
  (except `GetGiftBack`, whose 404 a client sees for a save that happened).
* EditGuest's and RenameInvitation's names and spreadsheet columns in `Invitations`,
  where that a name may be taken is a choice; `ImportTransaction` has them as steps.
* The deadline in `Invitations`, where its reading is a choice: `Notifications` has it.
* Lost commit acknowledgements of the guest list: its operations name what they
  change, and a repetition is an ordinary request.
* SERIALIZABLE or REPEATABLE READ: never used.
* The importer's parser and columns, the text of its report, and the rehearsal of
  `cmd/importfile`, which reads.
* The deletion of a message: one statement, which nothing else reads. The sections of
  the content other than the RSVP's: text.
* SetDisplayName, the allowlist of e-mails and the verification of signatures; which
  requests are limited, and by which address.
* Formatting, PIX encoding, e-mail templates, configuration and start-up, which keep
  no state; generated code beyond the queries that the models follow.
