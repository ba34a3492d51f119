# Verification of Bodapp

TLA+ models of the parts of Bodapp that change state under concurrency, the TLC
configurations that check them on small instances, and proofs, checked by TLAPS,
of what holds on instances of every size. Paths below are relative to the root of
the repository.

Bodapp is one Node process (Next.js) in front of PostgreSQL at READ COMMITTED.
Couples plan a wedding in a private panel, often two people at once; guests open
their invitation through a one-time code and answer it. The process is single
threaded, but every `await` lets other handlers run, so each handler is a sequence
of atomic steps, one per database statement or transaction, with everything else
interleaved between them. Limiters live in the memory of the process; everything
else is in the database, in files, in cookies, or in the state of a browser page.

## 1. Inventory

| part (source) | state | operations | hard behaviour | what makes it correct |
|---|---|---|---|---|
| Guest OTP challenge (`src/lib/otp*.ts`, `api/otp`, `api/guest/access`) | `OtpCode` rows, the limiter's memory, the cookies `invitation_access` and `invitation_device` | request a code, verify it, open without a code when OTP is off | two requests or two verifications interleave; the counter is read before it is compared; deletion of the invitation, failing statement and restart under a handler | a cookie goes back to a delivered and redeemed code; wrong codes, redemptions and usable codes stay bounded; a code once refused stays refused; a trusted device stays trusted |
| Accounts (`api/setup`, `api/auth`, `src/lib/auth-email.ts`) | `User`, `AuthEmailToken`, two limiters | set up, log in, resend, forgot, reset, validate | a link is checked, then a password hash is awaited; links are invalidated and created in two statements; mail fails; restart | nothing happens to an account, its registration apart, except through a link mailed to it; a reset kills older links; the effects of one e-mail are bounded |
| Seating server (`api/tables`, `api/guests/[id]`, `api/decorations`) | `Table`, `Guest.tableId/seatNumber`, `Decoration` | create, resize, move, delete tables; assign, unseat, patch guests; create, attach, move, detach, delete decorations | ownership is read before the write; deleting a table takes two statements | every statement is a legal change of the plan; nobody sits at a deleted table; weddings never touch |
| Seating planner (`components/seating/SeatingCanvas.tsx`) | the tables and the list of unassigned guests on the page, a snapshot per waiting function | drop, re-seat, clear, remove, drag, resize, add | optimistic changes, rollback to a snapshot, lost requests and answers | every guest is shown once; the canvas agrees with the database |
| Decoration layer (`DecorationsPlanner.tsx`, `DecorationLayer.tsx`) | the decorations on the layer, the tables of the page load, a snapshot per waiting function | add, drop on the canvas or on a table, remove, change view | the same, and the component is built anew at every change of view; the partner and other weddings go on | the layer shows each row nobody else touched as it is; weddings never touch |
| Guest list and invitations (`api/guests`, `api/invitations`) | `Guest.phone/invitationId`, `Invitation.acceptedPhones` | add, edit, delete guests; create, delete invitations | both partners at once; guests are checked before they are connected; `acceptedPhones` is a copy | nobody is left in a deleted invitation |
| Invitation page and RSVP (`api/rsvp`, `src/lib/invitation-public-db.ts`, `components/invite/InvitationPage.tsx`) | `Guest.rsvpStatus`, the page a guest has open | load, answer for the family | the page may be old; the cookie may be another invitation's by now; the family changes while the answer is in flight | answers come through an invitation of the guest; `ok: true` means stored |
| Invitation texts and template (`api/invitation-template`, `api/invitations/[id]`, `InvitationsManager.tsx`, `InvitationDetail.tsx`) | `InvitationTemplate`, `Wedding.bankAccount`, `Invitation.content/sent`, `Guest.plusOne*`, the lists the couple has open | publish, create from the template, edit, mark as sent, delete; a guest names a companion | the version is read before it is raised; content is read, merged and written back whole; a mark is shown before it is stored | every publication counts and takes the bank account with it; a list shows what the guests see; saves leave the mark alone |
| Tasks (`api/tasks`, `api/wedding/seed-tasks`, `TaskBoard.tsx`) | `Task` rows, the cards of every open board | create, move, edit, delete, insert the checklist and refresh | seeding counts before it inserts; rollback to a snapshot; lost requests and answers; two boards | the checklist is inserted a bounded number of times; a board shows each task once and as it is |
| Photos (`api/photos`, `src/lib/storage.ts`, `PhotoGallery.tsx`) | `Photo` rows, files under `storage/photos`, references to images, galleries | upload, delete, serve, refer | a row and a file change in two steps of which either may fail, or succeed without saying so; the process dies between them | every row has its file; a file without a row is explained by a fault; referenced images stay |
| Deployment script (`deploy/deploy.sh`) | checkout, image tag, container, schema | fetch, build, migrate, swap, probe, roll back | every command may fail or be the last | the schema covers the app; a failure leaves an app that answers; a rollback restores what ran |
| OTP channels, e-mail providers (`src/lib/otp-channels.ts`, `otp-providers.ts`, `src/lib/email`) | none: one call per message | send by the configured channels | a channel fails | the flow goes on in the same way whatever they report |
| Pure helpers (slugs, phone prefixes, seating conflicts, geometry, dashboard, task order) | none | | | computed from one state and shown |
| Sessions, pages, wording, locale, QR, maps, profile, infrastructure, generated client | | | | outside the models, see section 7 |

How they interact. The OTP challenge gives a device the cookie that the RSVP
handler requires; deletion of an invitation removes its codes. The accounts give
the session whose wedding scopes every request of the panel. Canvas and layer are
two views of one page and talk to the seating server only through requests and
answers. A guest row is shared by seating (table, seat), invitations (phone, group)
and RSVP (answer, companion). The handlers of one write no column of another and share the row's
existence, so each module has its own columns and its own deletion; the exception,
a PATCH whose schema has defaults for columns that were not sent, is in the modules
whose columns it overwrites (`Seating`, `InvitationTexts`). Photos live in a
directory of the checkout that a deployment cleans, and their handlers in the
container that it stops: `Hosting` composes the two. The limiter is one class with
three instances, the shared module `RateLimiter`.

## 2. Modules

| module | models | lines of code it stands for |
|---|---|---|
| `RateLimiter` | the sliding window of `createPhoneRateLimiter`: the bucket of instants and the decision | `src/lib/otp.ts` |
| `OtpFlow` | request and verify handlers, cookies, limiter, deletion, restart, clock | `src/lib/otp-flow*.ts`, `otp-session.ts`, three routes |
| `AccountPromise` | abstract: what an e-mail promises, without handlers, links or clocks | |
| `AccountTokens` | the account handlers; refines `AccountPromise` | `api/setup`, `api/auth`, `auth-email.ts` |
| `SeatingPlan` | abstract: a room, its tables, who sits where and which decoration belongs to which table, without requests and failures | |
| `Seating` | every route that changes tables, seats and decorations; refines `SeatingPlan` | `api/tables`, `api/guests/[id]`, `api/decorations` |
| `SeatingCanvas` | extends `Seating`: the seating view as a client of that server | `SeatingCanvas.tsx` |
| `DecorationLayer` | extends `Seating`: the decoration view as a client of that server, next to other clients | `DecorationsPlanner.tsx`, `DecorationLayer.tsx` |
| `Invitations` | guests, invitations, pages and answers | `api/guests`, `api/invitations`, `api/rsvp`, `InvitationPage.tsx` |
| `InvitationTexts` | template, bank account, texts, mark, companion, and the lists of the panel | `api/invitation-template`, `api/invitations/[id]`, `InvitationsManager.tsx`, `InvitationDetail.tsx` |
| `Tasks` | task rows, routes and boards | `api/tasks`, `api/wedding/seed-tasks`, `TaskBoard.tsx` |
| `Photos` | rows, files, references and galleries | `api/photos`, `src/lib/storage.ts`, `PhotoGallery.tsx` |
| `Deploy` | the deployment script and its host | `deploy/deploy.sh` |
| `Hosting` | `Photos` on the host that `Deploy` works on | |
| `RateLimiterProofs` | lemmas on one call of the limiter, used by the next two | |
| `OtpFlowProofs`, `AccountTokensProofs`, `SeatingProofs`, `InvitationsProofs`, `TextsProofs`, `TasksProofs`, `HostingProofs` | the theorems | |
| `MC...` | values of the constants for TLC and the symmetry sets | |

`PROJECT.json` names, for every definition, the lines it translates.

### How state and actions correspond to the code

* **OtpFlow.** `otps` are the rows in creation order (a deleted row keeps its place
  with `stored = FALSE`); `req` and `ver` are the handlers in flight, whose `pc`
  names the next statement. A request runs `RequestGate` (its read of the
  invitation and, before the next await, allowlist, limiter and the new code),
  `Invalidate`, `Create`, `Send`; a verification is compared on arrival (`VerifyWrong`, `VerifyRight`, or
  one without a pending row) and then runs `Increment`, or `Consume` and `Grant`.
  Each of these statements may fail, and the handler with it. `HasAccess` is what the
  invitation page decides: the invitation exists, and the cookie is its own.
  `access` and `trust` are a device's two cookies, with `Current` the precedence of
  `getInvitationAccess`. A phone is its normal form. A code is its row: two codes
  are taken to differ. `delivered`, `wrong`, `uncounted` (wrong codes whose counting failed) and
  `redeemed` are kept for the properties only.
* **AccountTokens.** An account is its address as typed, `Norm` is
  `normalizeEmail`. `Ask` is the limiter and the look-up, then `Invalidate`,
  `Create`, `Send`; `ResetLookup` and `ResetApply` have the awaited hash between
  them; `ClickLookup` and `ClickApply` the read of the account. Any statement may fail.
  `logins` are the sessions opened, each with its way: `Setup` opens the one of the
  registration, `Login` one by password. `Restart` empties
  the limiters and drops what is in flight. `fence` remembers how many links
  existed at the last reset, `uses` how often a link had its effect.
* **Seating.** A request arrives, `Check` is its ownership reads, `Write` its
  statement; deleting a table needs a second one (`RemoveTable`) and `Fail` is a
  database error at any statement. Foreign keys act in the statement that deletes
  (`SetNull`); a decoration's table has none and may dangle. 0 is a null seat.
* **SeatingPlan.** A table of the plan is in the `room` while its row is live and
  `removed` afterwards; `seating` and `attached` are the columns `tableId` of guests and
  decorations. Each statement of `Seating` is one step: the insertion of a table with its
  centerpiece `PutTable`, the two statements of a deletion `Clear` and `TakeTable`. What
  is read before, sizes, positions and seat numbers are stutters.
* **SeatingCanvas.** Each handler slot is one asynchronous function of the
  component: its action changes the canvas and sends the request, `ops` is what it
  closed over, `Answered` confirms or rolls back. `RequestLost` and `AnswerLost`
  are the two ways `fetch` throws; after the second the server goes on alone.
* **DecorationLayer.** `cards` is the component's list, `page` what the page was
  loaded with, `calls` what the waiting function closed over. `Settle` is its
  continuation; `NotSent` and `NotHeard` are the two ways `fetch` throws;
  `SwitchViews` unmounts the component and builds it from `page`; `Elsewhere` is any
  request in `Others` that another client sends to the same server. `missed` collects
  the decorations that changed behind the layer's back, and is kept for the property.
* **Invitations.** `hand` are the panel's requests (`Arrive`, `Check`, `Write`,
  `FailPanel`), `devs` the guests' browsers (`Load`, `Submit`, then the steps of
  the RSVP handler `Lookup`, `ReadMembers`, `Store`, `View`). A browser has one `cookie`,
  which another tab may replace (`Enter`) under a page that is open: the handler answers
  for the cookie's invitation. A page keeps whom it showed, `own` those the invitation
  grouped then. `by`, `from`, `was`, `own` and `contested`, the guests whom two creations
  found without invitation at once, are kept for the properties.
* **InvitationTexts.** A publication is a transaction of three steps: `UpdateBank`,
  which waits for the row lock of the Wedding, `ReadLatest`, and `Commit`, which
  makes both writes visible; `Abort` leaves neither. A slot is one function of a
  list with its handler: `Check` reads the row (or, for a creation, the template),
  `Write` stores the merge of what was read and what was sent. A save with a
  companion goes on to `PatchGuest`. `Shown` is `buildInvitationView`; `Revert` is
  `revertSent`, which turns the mark it finds. `off` lists what a page may be wrong
  about and is kept for the property.
* **Tasks.** `rows` is the table in order of creation, `board` the cards of each open
  board, a slot one function of a board with its handler. `Start` shows the change and
  sends the request, `Check` is the ownership read or the count of `seed-tasks`,
  `Write` the statement, `Answered` the continuation, which after a seeding goes on to
  the refresh. `ParsedDue` is what the update schema makes of an absent date. `stale`,
  `dirty` and a row's `cleared` are kept for the properties.
* **Photos.** Upload is `Save` (the file), `Insert` (the row) and, when that fails,
  `Undo`; deletion is `Find`, `RemoveRow`, `Unlink`; delivery is `Look` and `Read`.
  Each step on the disk or the database may fail; a commit may also lose its
  acknowledgment (`"ack"`), so that the handler takes it for a failure; `Crash` drops all
  handlers. A page is loaded by `fotos/page.tsx`. `refs` are the images that guests and
  invitations use; `stale` and `parted` are kept for the properties.
* **Deploy.** One step per command of the script that changes the checkout (`Fetch`), the tag
  (`Build`, `Retag`), the container (`Stop`, `Start`), the schema (`Migrate`) or the
  script's variables (`Snapshot`), and one per gate (`Probe`, `Reprobe`, `AssertPort`). Each
  command may fail (`NoSwap` is a swap that does not begin). A version is a commit of any
  branch with the migrations in its tree (`History`), so that `Fetch` may also go back or
  to the side; some versions have a dead image, a dead compose file, or one that
  publishes another port. `before` is kept for the property.
* **Hosting.** The requests of `Photos` run only while the container answers; `StopApp`
  ends what has not drained; `FetchCode` is the `git clean` that spares the storage.

## 3. Runs

| run | question | result |
|---|---|---|
| `Otp` | a request and two verifications, two invitations, one device, OTP off as well as on, with failing statements, a deletion or a restart: is the lockout bounded, every cookie earned, are usable codes as few as requests, the budget kept, a refusal earned, and what takes access from a trusted device? | holds |
| `Account` | two link requests, two resets and a click, two spellings of an address, failing statements, a restart: do older links die, are live links and effects bounded, does the limiter go by account, is `AccountPromise` implemented? | holds |
| `ResetTwice` | is a reset link spent once? | violated |
| `SeatingRace` | the decoration view with errors, losses and changes of view, next to requests of the partner and of another wedding: no ghost tables, weddings apart, does the layer show the rows, is `SeatingPlan` implemented? | holds |
| `Canvas` | a planner who waits for each answer, with errors and losses: is every guest shown once, and rightly? | holds |
| `Invitations` | two partners at once, a guest on an old page with the cookie of this or of another invitation: are links live, answers legitimate, `ok` true? | holds |
| `RsvpDropped` | does everybody on the page answer together? | violated |
| `Texts` | two publications, two functions of one list and one of another, a guest, errors and losses: does every publication count, does a list show what the guests see, do saves leave the mark alone? | holds |
| `Tasks` | two boards, errors and losses: is seeding bounded, does a board show each task once and as it is? | holds |
| `SeedTwice` | is the checklist inserted once? | violated |
| `DueCleared` | does a request without a due date leave the date alone? | violated |
| `Hosting` | two photo requests of two galleries under deployments of versions of two branches that may be dead, with failures of disk, database, acknowledgment and of every command of the script: is every row served, every orphan explained, and does a failed deployment leave an app on a schema that covers it? | holds |

### Bounds, and why they suffice

* `Otp`: two verifications are the first number that races for a code or for the lockout;
  with `MaxAttempts` 1 a wrong code may be at the cap while another is in flight. Two
  rows let an old code meet its successor. `RateLimit` 1 in a window of 2 lets a second
  request fall just inside, or just outside, the window; time goes to 2 so that both
  happen, and crosses the life of a short cookie (`AccessTtl` 1) before that of the trust
  cookie and of a code. With two invitations the short cookie of one may hide the trusted
  one of the other. One phone is on the allowlist and one is not. `Bypass = TRUE` opens
  the handler without a code next to the two with one. A behaviour has one disturbance
  (`FewDisturbances`): a restart, a deleted invitation or a row with failed increments.
  There is one slot for code requests: what two that overlap may do is in
  `UsableCodesFew` and the other theorems, which hold for any number of slots.
* `Account`: three links are the validation link of the setup and two that compete; two
  requests for a link race, two resets may hold one link. `a` and `A` are two accounts
  with one normal form; time goes to 2 to leave a window and to outlive a reset link.
  `ResetTwice` needs two resets and one account.
* `SeatingRace`: a decoration of each of two weddings and a table are the smallest rows
  that could be crossed; one guest suffices because the routes never relate
  two guests, and two requests because every check is of rows that one other
  request invalidates. Two positions tell a moved decoration from one that was put
  back. Seat numbers are dropped (`MaxSeat` 0): no property of that run reads them.
  From elsewhere come the requests that connect rows or remove them (`MCOthers`).
  The couple waits for each answer on the layer.
* `Canvas`: two guests compete for a chair, two tables give a move its source and
  target, two capacities let a table be full or too small.
* `Invitations`: with two guests and one phone, guests of different groups share a
  phone; three requests create two invitations and delete or change something while an
  answer is in flight, or all overlap; two handlers are the two partners; with two
  invitations the one browser's cookie may be that of its page or the other.
* `Texts`: two editors race for a version; two slots of one list overlap on one
  invitation while the other list changes it; of two drafts one leaves the text to the template
  and one removes the image, the two cases that the guests' view treats differently.
  Three requests are a publication and two functions, or two publications and one.
* `Tasks`: each board has one function at a time, the two boards race. A checklist of
  one entry and three rows let both boards seed, or one seed and one create. Four
  functions are a creation and three changes of it.
* `Hosting`: one photo is uploaded and deleted from two galleries at once and may be an
  image in use; ids are drawn afresh and never relate two photos. Of four versions one
  has a dead image, one, of another branch, a dead compose file and one another port; any
  may be fetched after any other. Deployments alone go through everything; with photos
  only those are followed that come after a first, a successful or a rolled back
  deployment, of two versions (`Focus`): to the photos a deployment is only a restart
  (`DeploymentsAreRestarts`).

`MaxOtps`, `MaxTokens`, `MaxTime`, `MaxRestarts`, `MaxRequests` and `MaxTasks` only end
the state space: they disable the arrival of new requests (or the clock, or a restart),
never a step of a handler in flight; `MaxUncounted` caps how often the counting of a
row's wrong codes may fail. The constraints `FewDisturbances` and `Focus` choose which
combinations a run explores. Deadlock is not checked where they do so: there the
system has used up its bound. The planner's modules have no such bound and
never deadlock. Symmetry is used among handler slots and, where every property
treats them alike, among rows.

### Fairness

No specification assumes any, and no liveness is stated. The handlers are straight lines
of a few statements, each of which answers or fails, so that they end by their shape;
there are no queues, retries or locks, except the row lock of a publication, whose holder
is itself such a line. Everything else (requests, the clock, deletions, restarts) may
never happen.

## 4. Findings

Four places where the code does not do what the repository says of it; each is a
run that fails, with its quotation in `PROJECT.json`.

1. `ResetTwice`: two overlapping submissions of one reset link both find it usable
   before the password is hashed, and both change the password, so that the later wins
   (`api/auth/password/reset/route.ts:48`, against the comment at `:21-22`).
2. `RsvpDropped`: guests shown for their phone must answer and are dropped
   (`api/rsvp/route.ts:45`).
3. `SeedTwice`: two overlapping seedings both count no tasks and both insert the
   checklist (`api/wedding/seed-tasks/route.ts:13`, against `:7-8`).
4. `DueCleared`: the schema turns an absent due date into null, so a change of status
   clears it (`api/tasks/[id]/route.ts:45`, against `:39`).

The code also behaves as follows, which no run asserts. Where a property holds only
because of one of them, its bound or its premise says so.

One-time codes and accounts:

* The trusted-device cookie counts only when there is no valid short cookie at all
  (`src/lib/otp-session.ts:76`), so the short cookie of another invitation hides it, and
  the trust cookie of another replaces it. With the deletion of the invitation, these
  narrow the comment at lines 72-73, that the device "keeps its (invitation-scoped) access
  until the trust TTL expires", to what `TrustedDeviceKeepsAccess` says.
* A wrong code whose increment fails is answered with an error and not counted
  (`src/lib/otp-flow.ts:176`), so that `WrongCodesBounded` leaves those out. A code whose
  insertion fails has spent its slot of the limiter (`:132`): `RefusalIsEarned` counts
  admissions and not codes.
* Two verifications of one code both succeed when they overlap, hence
  `RedemptionsBounded`; two overlapping requests may leave two usable codes (or
  links), hence the bounds `UsableBounded` and `LiveLinksBounded`, which are 1 only
  where there is one slot; overlapping
  wrong codes pass the cap by those in flight.
* A new request invalidates the earlier code before the new one is sent: when its
  delivery fails the guest has no usable code. The same holds for the links of forgot.
* The registration opens a session of the new account with no link delivered, let alone
  used, also where verification is required (`api/setup/route.ts:73-78`); only the next
  login asks for it.
* An account registered with a capital letter is never found again by resend or
  forgot, which look up the lower-case spelling.
* Two overlapping clicks on validation links may both stamp `emailVerifiedAt`, the later
  over the earlier, against the comment at `api/auth/verify-email/route.ts:51`.

Planner:

* `guestSchema.partial()` fills in its defaults (zod 4), so that the canvas's
  `PATCH {seatNumber}` empties allergies and music and resets the flags
  (`api/guests/[id]/route.ts:33`), although `src/lib/tables.ts:12-13` says of such a PATCH
  that it "must ONLY write the fields the client actually sent". `PatchGuest` in `Seating`
  does it.
* A failed PATCH of a table restores the tables of before a later drop but not the
  list of guests, so that guest is nowhere (`SeatingCanvas.tsx:471`); `Canvas` has
  a planner who waits.
* Clearing a seat may remove a guest who has just moved to another table, and seat
  numbers survive the table they belonged to.
* A change between the seating and the decoration view mounts both components anew from the lists the page
  was loaded with, so that what was changed since is out of sight until a reload.
* On `/decoracion` guests are read without their seat numbers, so that a drop there
  may take a taken chair, against the comment at `SeatingCanvas.tsx:241`.
* Decorations of a table are drawn where the table was at the page load, against
  "move together" in `README.md:46`.
* A decoration of a deleted table keeps its id and is drawn unattached: the schema
  declares the relation, the migration has no foreign key.

Invitations and texts:

* Two creations of invitations that overlap both succeed and the later takes the
  guest from the earlier, against the comment at `api/invitations/route.ts:65-66`;
  `OkMeansStored` leaves such guests out (`contested`) and no others.
* An answer counts for the invitation of the browser's cookie (`api/rsvp/route.ts:9,38`).
  A page of one invitation that is still open when another tab has entered a second one
  posts its guests under the second, stores nothing for its own group and is told
  `ok: true`. `OkMeansStored` promises a page its own group only while the cookie is its
  own.
* Publications follow one another only because the editor always sends the bank
  account, whose update locks the Wedding row before the version is read.
* `PATCH {sent}` writes the whole content back, so that a save between its read and
  its write is lost, against `api/invitations/[id]/route.ts:58-59`.
* `revertSent` turns whatever mark is shown, not the one it replaced.
* The detail does not notice when the companion's PATCH is refused, and the schema's
  defaults take `plusOneAllowed` away with it.
* An empty text falls back to the template, a removed image does not. The map's
  address of an invitation is stored and never shown. A creation reads the template
  outside its transaction.

Tasks:

* Two functions of one board that overlap may show a task twice: the answer of a creation adds a
  card that a refresh has already brought. `Tasks` has one function per board.
* A board goes on showing the due date that its change of status has cleared;
  `BoardAgrees` leaves out the dates of exactly those rows.

Photos and deployment:

* A file of which a failed `savePhoto` wrote a part stays, and so does an image that a
  guest's or an invitation's form has replaced.
* An insertion that was committed but not acknowledged is taken for a failure: the file
  is removed and the row stays (`api/photos/route.ts:109-111`), and every request for the
  photo is answered 'file missing'. So is one whose file cannot be read for any other
  reason (`api/photos/[id]/file/route.ts:44-46`). `FilesServed` names both.
* When `docker tag` fails in a rollback, the image that never answered stays
  (`deploy.sh:107`); when `docker inspect` fails, there is nothing to go back to (`:56`).
* A port that is published elsewhere fails the script without a rollback. When docker
  fails between stopping the old container and starting the new one, nothing runs and
  nothing is rolled back. The rollback starts the old image with the new compose file,
  and never takes migrations back.

## 5. Proofs

Each theorem holds for all values of the constants that satisfy the module's named
assumptions (`RateAssumption`, `OtpAssumption`, `AccountAssumption`,
`SeatingAssumption`, `LayerAssumption`, `CanvasAssumption`, `InvitationsAssumption`,
`TextsAssumption`, `TasksAssumption`, `DeployAssumption`; TLC evaluates them in the runs
of those modules): finite sets of handler slots where they are counted, positive
lifetimes, a `Null` that is no row, and, for the canvas, guests of the planner's
wedding. Bounds such as `MaxTime` are among the constants: the theorems hold whatever
they are.

A theorem whose name ends in `WhenSerial` has one hypothesis more: that some sort of
handler does not overlap with itself (at most one slot, or one per board). The code
does not promise that; section 4 says what happens without it, and why the theorem
says no more.

* **RateLimiterProofs.** What one call of the limiter does to its bucket: a bucket in
  the order of the clock stays so and is never longer than the limit (`Bucket`), the
  instants in a later window are those counted before and, if the call is admitted,
  one more (`Counted`).
* **OtpFlowProofs.** `TypeCorrect`, from `TypeInv` (types, and that every handler
  and cookie refers to an existing row). `AccessIsBacked`: `AccessBacked` is not
  inductive, because a handler about to set a cookie is not mentioned; `AccessInv`
  adds that rows and requests carry phones of the allowlist (`Issued`) and that a
  verification past the comparison holds a delivered, and past the consumption a
  redeemed, code of its invitation (`Proven`). Rows never lose what a cookie relies
  on (`RowsKeptNext`). The same lemma, and a clock that no step sets back, give the
  action theorem `RefusedStaysRefused`. `UsableCodesFew` (`UsableBounded`): `LatestInv`
  counts the open rows of a pair together with the requests for it that are between
  their two statements, which are at most the slots: such a request turns into its row,
  and one that comes to this point has closed every row of the pair before. For one slot it is
  `OnlyLatestWhenSerial`. `TrustedDevicesKeepAccess` (`TrustedDeviceKeepsAccess`) splits
  a step by the cookies it writes (`CookieStep`): none, or those of one answer. `LockoutHolds` and `RedeemedByFew` from `CountsOK`: for an
  open row the wrong codes are at most the counter, the increments in flight for this
  row, those that failed, and one per slot for every restart; the redemptions and the
  verifications that still hold the row together never outnumber the slots.
  `BudgetKeeps` (`CodesWithinBudget`) and `RefusalsEarned` (`RefusalIsEarned`) from
  `BudgetInv`, which compares, for every phone and every window that ends now or later,
  two counts: the rows and the requests in flight whose code was admitted in the
  window, and the instants of the bucket in it. The first is at most the second and a
  full limit for every restart; as long as no invitation was deleted the second is at
  most the first. A row remembers its admission in its expiry, so that both counts
  forget at the same time. The invariant speaks of all later windows because the clock
  then preserves it for free.
* **AccountTokensProofs.** `TypeCorrect`. `LinksDie` for any number of handlers:
  `FencesOK` says that a link up to the fence is consumed, and consumption is never
  undone. `KeepsPromise`: every step maps to a step of `AccountPromise` or to a
  stutter (`PromiseNext`), the registration with or without the session it opens
  (`Register`) among them; the effect of a link needs the link delivered, which
  `TypeInv` keeps for the handlers that hold one. `EffectsBounded`: the effects of a
  link and the handlers that still hold it together never outnumber the slots
  (`UsesOK`). `LiveLinksFew` (`LiveLinksBounded`) counts live links and the requests
  about to store one together (`LiveInv`), an account that does not exist having
  neither; for one slot it is `OneLiveLinkWhenSerial`. `DeadLinksStayDead` is the action
  theorem about links, from `LinksLater`: nothing a link says is taken back.
  `MailBudgetKeeps`
  (`MailsWithinBudget`) counts as `BudgetKeeps` does, per account and kind of link,
  with the link of the registration, which passes by the limiter, apart.
* **SeatingProofs.** `TypeCorrect`, `NoGhostTables`, `WeddingsApart`, from `Inv`: the
  rows, and what the reads of a request in flight established about the weddings of
  the rows it will write (`HandInv`; a row never changes its wedding). Nobody sits
  at a deleted table because the deletion itself releases whoever sits there, not
  because of the statement before it.
  `SeatingImplementsPlan` (`PlanKept`): every statement maps to a step of `SeatingPlan`
  or to a stutter (`PlanNext`), with one lemma for each kind of statement. Besides `Inv` this
  takes `PlanInv`: the ids that requests in flight will insert are new and differ from one
  another (`IdsFree`, `IdsDiffer`), and the table a decoration is about to be attached
  to was there once (`AttachesToTables`), which is all that the read before the write
  establishes for good. `ClientsKeepThePlan` carries it to both views.
  The decoration view: `LayerIsAClient`, every behaviour of it is one
  of `Seating`, its own steps being stutters there; so `WeddingsApartUnderTheLayer`
  follows from `WeddingsApart`. `LayerShowsTheRows` from `LayerInv`: at most one
  function waits, and `Underway` says which of the two lists, the one shown or the
  one a rollback would restore, agrees with the rows at each place its handler can
  be. A write changes the one row for which the two differ.
  The seating view: `CanvasIsAClient` and `CanvasTypeCorrect` for any number of
  functions waiting. `ShownOnceWhenSerial` and `CanvasAgreesWhenSerial` assume that
  there is one slot. The rows of a database determine the canvas that shows it
  (`Depicts`); a canvas that shows some consistent database has every guest once, so
  it is enough to follow which database it shows. While a function waits, `Knows` says
  for each statement of its handler that the canvas with the confirmation
  added shows what the request makes of the rows (`TablesAfter`, `GuestsAfter`), and
  that until the write a rollback would show the rows as they are. After a lost answer
  or a broken deletion it is only known that the canvas shows some database, until
  the page is loaded again. That a drop on a table takes a chair that
  exists needs the least element of the free ones, hence well-founded induction.
* **InvitationsProofs.** `TypeCorrect`, `NobodyLeftBehind`, `NoForeignAnswers` from
  `Inv`, which adds that the guests a request will update have been in the
  invitation's group (`PostsInv`) and that this past never shrinks. `OkIsTrue`, for any
  number of overlapping requests, from `GroupInv`: a linked guest is present
  (`LinkedIsPresent`); two creations that are both about to connect a guest have made the
  guest contested, and a guest that one of them alone is about to connect is still free
  (`HandlersInv`); hence a guest in an open invitation who is not contested leaves it only
  with the invitation or the row, so that a page of any age (`PagesInv`) and what its
  request has read and stored (`ReadInv`) speak of whoever is in the group now. An
  invitation that a cookie or a request names (`HeldInv`) can gain no members any more.
* **TextsProofs.** `TextsTypeCorrect`. `PublicationsCount` and `PublishedTogether`:
  the lock of the Wedding row admits one publication at a time past its first
  statement, and whoever has read the latest version (`Editing`) still has it when it
  commits. `MarkedByTogglesOnly` from `Ids`: an invitation
  that is being created is known to no page and no other function, so that a creation
  never writes over one that is marked. `ListsTrue` (`ListAgrees`) from `ListInv`, for any
  number of functions: what `off` does not except has at most one function per page and
  invitation; until its write the item, with a toggled mark turned back, is the row as
  the guests see it, and from then on what the answer will make of the item is.
* **TasksProofs.** `SeededAtMostOncePerSlot` from `CopiesOK`: the copies of an entry and
  the seedings that have counted no tasks but not inserted yet never outnumber the
  slots together. A seeding joins them only when there is no task, so no copy either;
  inserting turns one seeding into one copy. `TasksTypeCorrect` likewise for any number
  of functions. `CardsDistinctWhenSerial` and `BoardAgreesWhenSerial` assume one function
  per board at a time, with any number of boards: `ViewInv` says which cards the rows
  bear out, those a rollback would leave before the write, those the answer will leave
  after it. The order of a listing is by count of smaller ids, and `NthCounts` shows,
  by counting an injection, that every task has one place in it.
* **HostingProofs.** Of the photographs under deployments: `PhotosTypeCorrect`,
  `PhotosServed`, `NoSilentOrphans`, `ReferencedKept`, from what a handler at each
  statement knows of the row and the file, and from the freshness of the id it
  works on; of an insertion whose acknowledgment was lost it is only known that `parted`
  has the photo. `GalleryTrue` (`GalleryAgrees`) from `GalleryInv`: a photo being uploaded is
  shown nowhere and asked for by no other upload; an upload answered well has left
  its row, unless another gallery has touched it, and a deletion past its row has not. Of the script: `DeployTypeCorrect`, `SchemaAlwaysCovers`,
  `AppSurvivesFailure` and `RollbackIsExact`, from what each command leaves to the next.
  Of the composition: `DeploymentsAreRestarts`, for the photos a deployment is nothing
  but restarts of the process; hence `HostingImplementsPhotos`, where crashes are among the
  faults, and `HostingImplementsDeploy`: what is said of either alone holds of it here.

## 6. Only model-checked

* The four disagreements of section 4, which are counterexamples and not theorems.
* Several functions waiting at once on one board or one canvas: there
  `CardsDistinct`, `BoardAgrees`, `ShownOnce` and `AgreesWithServer` fail, as section 4
  says, so that the theorems about them are of serial functions, and the runs are too.

## 7. Not modelled, and why

* Rendering, wording, locale, QR codes and the dashboard store nothing.
* Signing of cookies, password hashing, the calls to Twilio and the mail providers, and
  PostgreSQL's own atomicity are taken to do what they are called for. Which channel
  is tried first is configuration, and the flow goes on alike whatever it reports.
* Slugs: the search looks up one suffix after the other before an insert whose unique
  key decides, as with the address of an account, which is modelled.
* Phone prefixes, map links, the conflicts and chair positions of the planner, the
  order of tasks: functions of one state that are only shown. Of the planner's,
  the assignment of chairs and the first free chair are in `SeatingCanvas`.
* The profile of the wedding: one update of one row scoped by the session, except the
  bank account, which is in `InvitationTexts`.
* The guest list panel: its routes are in `Invitations` and `Seating`; each of its
  forms waits for its answer and refreshes the page.
* Photos from before the column `purpose` was added: all rows of the models have one, so
  that `ReferencedImagesKept` says nothing of an image that the migration made a photo of
  the gallery.
* The generated Prisma client: each call is one statement or one transaction. It is
  well over half of the lines of the implementation and has no behaviour of this
  program's own.

`PROJECT.json` has the whole list with a reason for each, and a note on each hazard
no property covers.

## 8. Plan

Done, in the order of what a failure would cost: `RateLimiter`, `OtpFlow`,
`AccountPromise`, `AccountTokens`, `Seating`, `SeatingCanvas`, `Invitations`; then
`InvitationTexts`, `Tasks`, `Photos` and `Deploy` with their composition `Hosting`, and
`DecorationLayer`; then the proofs about the new modules, the lockout bounds, the
serial properties of the accounts and the layer as a client of the server; then the
budgets of the limiter, the canvas as a client of the server, and what galleries, lists,
boards and the canvas show; then `SeatingPlan`, the bounds for requests that overlap,
what a step may never do to a code, a link or a trusted device, and the parts of
`Hosting` as refinements. Every safety property of a passing run is now a theorem.

What would come next:

1. `OtpFlow` composed with `Invitations`, so that an answer is shown to come from a
   device that redeemed a code of that invitation.
2. The canvas on `/decoracion`, which does not know the chairs that are taken.
3. Several functions waiting on one board, list or layer, with a property that says
   which of their changes survive.
