# A TLA+ model of the SGCC wiki backend

The backend is a FastAPI application over one SQLite file: documents with versions, a tree of
categories, roles and permissions, accounts, and e-mail.  This directory models the parts where
its rows and its memory have to stay consistent over many requests, checks them with TLC on small
instances and proves the main invariants with TLAPS for every instance.

Paths below are relative to `src/src/sgcc_wiki_backend/` unless they start at the repository's
root (`README.md`, `AUTHORIZATION_AUDIT.md`, `tests/`).

## 1. The system

### How it runs

One uvicorn process serves all requests: `README.md:117` forbids `--workers`.  Every handler is
an `async def`, `get_current_user` included, and, but for the test mail, none awaits anything
between its first read and its `commit()`, so the event loop runs a handler as one step.  Mails
leave from daemon threads, which end with the process; a scheduler thread makes a backup at
midnight.  SQLite does not enforce the foreign keys the tables declare: only the handlers keep
them.  Statements that change the schema are kept one by one, so that an interrupted start leaves
the schema wherever it was, also between a table and its index.

### Components

| Component | State | Operations | What makes it correct |
|---|---|---|---|
| permission policy (`core/permissions.py`) | none | minimum roles, document lists, the floor a category inherits | the strictest of global minimum, list and lineage decides; malformed trees admit administrators only |
| categories (`routers/categories.py`) | `wikicategory` | create, move / change permission, delete with descendants | a forest at all times; no permission set below its parent's; no used category deleted |
| documents, versions (`routers/documents.py`) | `wikidoc`, `wikidocversion`, `permissions` | create, update, rename, delete, view | rows belong to the document that has their title; versions 1..n; the newest is what is shown; history only grows |
| likes, events (same file) | `documentlike`, `documentevent` | like, unlike; recorded by rename and delete | they follow a document through renames and do not appear under a reused title |
| tags (`routers/tags.py`, `core/deps.py`) | `wikitag` | made with a document, deleted from all documents | no document names a tag that is not stored |
| user roles (`routers/users.py`) | `WikiUser.permission` | set by administrators | an administrator remains |
| accounts and sessions (`routers/users.py`, `core/login_utils.py`) | password, `session_version`, TOTP fields, `revokedtoken` | login, second factor, logout, reset, bootstrap | a reset ends all sessions; a reset token and a code work once; a logged-out token stays out |
| e-mail verification (`routers/users.py`, `core/maintenance.py`) | `emailverification`, `email`, `email_verified` | request, open link, register, change address | an address is verified by a link presented since the account took it and by nothing else; who registers without the mailed token asked for the link himself |
| e-mail throttle (`core/maintenance.py`) | `_recent_sends`, `_last_send_by_recipient` | `reserve_email_slot` | daily limit, reserve for resets, cooldown of each address |
| e-mail delivery (`core/maintenance.py`) | a thread per mail | at most three attempts, one for the test mail | every mail ends sent, failed or lost; with the key none goes out twice |
| startup (`core/database.py`, `main.py`) | tables, indexes, columns of old tables | `create_all`, `migrate_legacy_schema`, `bootstrap_admin` | an interrupted start can be repeated, up to indexes that a stop cut off, and no start overwrites what is stored |
| listings, search, diff, profile, health, backup, configuration | - | read only, or one row of one's own | - |

The components meet in the database and in the role of the requesting user: a document names a
category and tags, the policy reads the document, its list and the lineage of its category, the
deletion of categories reads the documents, and the deletion of tags rewrites them.  Registration,
reset and change of address all pass the throttle, the mails it lets through go to delivery, and
`/register` and the confirmation of resets rely on what the verification stored.

### What is hard here

* A title is a primary key that renames and deletions free for reuse, and five tables hang on it
  without enforced keys.
* The number of a version is a count of rows, the trail of renames lives in rows that are
  relabelled, and a rename copies everything field by field.
* Permission is computed at each request from four sources that other requests change, one of
  them a walk through a tree that administrators rearrange.
* What a token may do depends on a password, a version, a table of revocations and a clock, which
  resets, restarts, logouts and other logins move between the steps of one login.
* The throttle mixes two windows, a limit that depends on the purpose and a dictionary that is
  pruned only above a size no test reaches.
* A call to the mail provider that times out may have been accepted, or be accepted later, while
  the retry is on its way; a restart leaves mails of which nobody knows whether they went out.
* Verification spreads over two tables, a mail and a secret in a browser: links outlive changes of
  the address, several links name one account, and a link that was opened once means nothing when
  it is opened again.
* A start can be interrupted between any two statements on a database of any older release.

`PROJECT.json` lists the hazards line by line, each with the properties that cover it or with the
reason why none does.

## 2. Modules

| Module | Models |
|---|---|
| `PermissionPolicy` | `core/permissions.py` as operators |
| `CategoryTree` | the category table, extends `PermissionPolicy` |
| `WikiDocuments` | documents, versions, permissions, likes, events, tags and roles, extends `CategoryTree` and composes it with them |
| `EmailThrottle` | `reserve_email_slot`, with time and restarts |
| `Accounts` | logins, the second factor, logouts, resets and the bootstrap, with their tokens and time |
| `EmailVerification` | links, registration, changes of the address, opened first and again, with commits that overlap and time |
| `EmailDelivery` | the threads of the mails, retries, timeouts, the providers and restarts |
| `MailPromise` | what whoever queues a mail may rely on: the abstract specification of `EmailDelivery` |
| `Startup` | `create_all` and `migrate_legacy_schema`, statement by statement, tables, indexes and columns, with stops between |
| `CategoryTreeMC`, `WikiDocumentsMC`, `EmailThrottleMC`, `AccountsMC`, `EmailVerificationMC`, `EmailDeliveryMC` | values and symmetry for TLC |
| `CategoryTreeProofs`, `WikiDocumentsProofs`, `WikiHistoryProofs`, `EmailThrottleProofs`, `AccountsProofs`, `EmailVerificationProofs`, `EmailDeliveryProofs`, `StartupProofs` | theorems and proofs |

### Correspondence

*Tables* are functions from their key to a row or `None`, or sets of rows where the key is a pair
or a serial number.  A category as stored in a document is its name; the copy of the parent that
the document also keeps is abstracted to the argument `reordered` of `update_document`, which says
that a request changes something the names do not show.  A list of roles is the set of its
members, because `meets_document_roles` looks for the lowest grade only.

*Handlers* are actions.  The guard is the conjunction of the checks that the handler makes before
it writes; a refused request changes nothing and is no step.  Omitting a field of an update equals
sending its present value: the handler checks the present category in any case and compares values
before it writes.  Routes that differ only in how the title arrives (`/documents/{title}` and
`/documents/by-title`) call the same function and are one action.

*The walk up the tree* (`effective_category_role`, `would_create_cycle`) is a least closed set
instead of a loop: `Lineage(cats, c, Followed)` is the intersection of all sets of stored names
that contain `c` and are closed under "parent of".  It says what the loop collects on every
table, cyclic ones too, and can be reasoned about without induction over the number of steps.
The two loops end differently: the one stops at a parent that is `None`, the other at one that is
falsy, which is why `EmptyName` is a constant of its own.

*Ghost state.*  Rows carry `doc`, the number of the document they were written for, which the
tables do not have and no guard reads: it is what lets a property say that a row is found under
the title of another document.  `created` counts documents.  In `EmailThrottle`, `sent` is the set
of all sends since the process started, which the deque and the dictionary only summarise.  In
`Accounts`, a token carries the hash of the password it was issued for; the server knows that hash
of a reset token only, whose signing key contains it, and the guards use it there only.
`logged_out`, `codes` and `resets` remember what was logged out, which codes authenticated
somebody and which resets were confirmed; no guard reads them.

*Tokens and secrets* in `Accounts` are abstract: a hash is the password with the salt drawn for
it, salts and TOTP secrets are numbers drawn once, and a code is the pair of a secret and a time
step.  Two codes are therefore never equal by chance, and nobody has a token or a code that was
not issued.  The code keys a revocation by the hash of the token string as it was sent; the model
keys it by the token, and so does not tell apart two strings that would decode to one token.
The server accepts the steps of `Window`, one to either side of the present one.  Access
tokens differ by their `jti`; MFA and reset tokens issued in one interval are equal, as in the
code those issued in one second are.  A user who registers has proven an address, and only a
verified address receives reset links: `Accounts` lets everybody register and ask for a reset, and
`EmailVerification` says what makes an address verified.

*Initial states* of `WikiDocuments` are a new database and one with a document of an older
release, whose permission lists may be any that the constant `LegacyPermissions` offers, or
missing: `migrate_legacy_schema` adds columns and keeps the lists.  `CategoryTree` starts with an
empty table or with a category of a release without `write_permission`, which got the default
(`LegacyCategory`); `WikiDocuments` starts with the one or the other.

*Delivery.*  `mail[m]` is the thread of a mail: its phase, the attempt it is at and the provider of
the process that queued it.  `request[m][k]` is what became of the k-th call at the provider, which
answers in its own time or never: `Accept` and `Decline` may come after the thread has timed out,
given up or died.  Over SMTP the mail is accepted before `QUIT`, and an error of that command is an error of
the attempt, permanent or passing (`FailsAtQuit`): such a mail is called failed, or repeated, although it went
out.  `TransientError` stands for a passing error, for a timeout and for an answer
that was lost after the mail was accepted; the sleep before the next attempt is the time until
`Call`.  Over SMTP a mail may therefore go out once per attempt, and the throttle counts it
once; Resend gets the same `Idempotency-Key` with every attempt.  A mail may be queued without
asking the throttle: `EmailThrottle` is about when it is, `EmailDelivery` about what happens then.

*The refinement.*  `MailPromise` has three variables: the outcome of a mail, the copies allowed for
it and the copies that went out.  `EmailDelivery` implements it with `Statuses`, which calls a
waiting or calling thread pending and a rejected or abandoned mail failed, and `Allowances`: one
copy with Resend, the log or a test mail, one per attempt over SMTP.  The steps of the promise allow
copies to go out after the mail was given up or lost, as late requests do, and "sent" only with at
least one copy.

*Verification.*  A row of `EmailVerification` is the token it holds, and `verified` the set of the
rows that are.  Tokens are signed, so only those that were mailed can be presented; a mail that is
lost or refused is a link that nobody opens.  `register_user` and `set_email` are modelled in two
steps, the checks and the commit, because their code handles an `IntegrityError` at the commit;
requests about the same account do not overlap (`Idle`).  In the one process that runs, no handler
awaits between its check and its commit, so nothing comes in between: the two steps are more than
the program can do, and every property of a run with them holds without.  That the unique index
keeps addresses apart (`MayCommit`) is the database's part and no property here.  A request that
cannot commit is rolled back, and so may any other be, as when the process ends.

`verify_email` has both ways through the handler: a link whose row is not verified yet, and one
that is answered with "already verified" and writes nothing.  Either way the link was presented,
and `confirmed`, a ghost, holds the links presented since their account took its address; each
change of the address drops those of the account.  `spent`, another, holds the links that were
verified when their account took an address, its own once more or another.  Changing the address
back makes an older link work again if it was not opened before and is alive.  `registered` holds
the requests that created accounts.  Reserved names and the policy for names and addresses are
left out.

*Startup.*  `cell` stands for one row of each old table and says whether a column is absent, holds
what the migration put there, or was changed since.  `documentevent` stands for the six tables that
never got a column.  `create_all` is `CreateTable` and `CreateIndex`: SQLAlchemy issues a
`CREATE TABLE` and then one `CREATE INDEX` for each indexed column (`schemas/wiki_user.py:66`,
`schemas/document_event.py:10`, `:14`), and leaves out a table that exists with all its indexes.
`pending` are the indexes that are still due in this start; a stop makes them `lost`, a ghost, in
which those are from the beginning that an old release left out.  An old `wikiuser` may have its
index or not: the rebuild of `README.md:449-464` creates it by a statement of its own.
`looked` and `found` are the columns that were read last: `migrate_legacy_schema`
reads those of `wikidoc` and `wikiuser` once and adds several.  The columns that `README.md:411-436`
has the operator add by hand are taken to be there.

*Time* in `EmailThrottle`, `EmailVerification` and `Accounts` is a natural number, in `Accounts` the index of the TOTP
interval; `Tick` may happen between any two requests, and
never needs to.  The comparison operators are those of the code: a send exactly one day old still
counts, a send exactly one cooldown old does not hinder the next.

## 3. What is checked

| Run | Properties | Bounds |
|---|---|---|
| `category_tree` | `CategoryTypeOK`, `EveryCategoryUnderARoot`, `PermissionChangeMeetsNewFloor` | 4 names, 3 roles |
| `wiki_rows` | `TypeOK`, `RowsBelongToTheirDocument`, `VersionsNumberedWithoutGaps`, `RenameTrailIsUnbroken`, `HistoryIsAppendOnly` | 2 users, 2 titles, 2 documents, 2 versions each, 3 events, 1 counted view |
| `wiki_policy` | `AnAdministratorRemains`, `EditsAreSignedAndAllowed`, `RenamesAndDeletionsAreSignedAndAllowed`, `OnlyAdministratorsChangeRights` | 2 users whose roles change, 2 categories, legacy lists, 1 document, 2 versions, 1 event |
| `wiki_references` | `HeadIsNewestVersion`, `ReferencesResolve` | 2 contents, 2 categories, 1 tag, 3 versions |
| `email_throttle` | `TypeOK`, `NoDayExceedsTheLimit`, `ResetsKeepTheirReserve`, `SendsToOneAddressAreApart`, `RefusalsMatchTheSends` | 2 addresses, limit 3 with 1 reserved, 7 ticks, a day of 3, a cooldown of 2 |
| `accounts` | `TypeOK`, `SessionsKnowThePassword`, `LoggedOutStaysOut`, `CodesWorkOnce`, `ResetLinksWorkOnce`, `SecondFactorGuardsSessions`, `EnablingLeavesTheCode` | 2 users, 2 passwords, 3 salts and secrets, 3 tokens, 4 intervals; access and reset tokens live 2, MFA tokens 1 |
| `email_delivery` | `TypeOK`, `NoSecondCopyWithKey`, `PromiseKept`, `EveryMailIsSettled` | 2 mails, one of them a test; 3 providers, 2 retries, any number of restarts |
| `email_verification` | `TypeOK`, `VerifiedAddressesWereProven`, `FreshProofsVerify`, `RegistrantsAskedThemselves` | 3 users, one of them registered; 2 addresses, 2 secrets, 2 links that live 1, 3 moments, 2 requests between check and commit |
| `startup` | `TypeOK`, `ServesTablesAndColumns`, `OnlyCutOffIndexesAreMissing`, `NoStartFails`, `StartsKeepWhatIsStored`, `StartsEndServing` | none: the module has no parameters |
| `email_verified_again` (violated) | `VerifiedLinkCompletesVerification` | 1 user, 1 address, 2 links that live 2 |
| `category_below_parent` (violated) | `NeverStoredBelowParent` | 2 names |
| `throttle_pruned` (violated) | `SendsToOneAddressAreApart` | 3 addresses, pruned above 1 |

Why these bounds are enough to be interesting:

* Four names give every shape of forest up to four rows: chains of depth four, in which a floor
  is inherited over two levels that do not set it, and moves of subtrees with descendants.
* Two titles and two documents give every way to reuse a title: rename back and forth, delete and
  create again, rename onto the title of a deleted document.  Three events give a trail of three
  renames, or renames before and after a deletion.
* `wiki_policy` has one administrator and one member at the start; the roles of both can change as
  soon as there are two administrators.  Its legacy lists name roles below the global minimum and
  there may be no list at all.
* Three versions let a document move away from a category and back while the tag it named goes.
* In the throttle, seven ticks are two days and one tick, so that the deque is shortened twice,
  and the limit can be reached by resets alone, by other mail alone, or by both.
* In `accounts`, three draws are a password and two resets, or a password and two secrets one
  after the other; three tokens are a session, the MFA token of a second login and its session;
  in four intervals all of them expire and their revocations are purged.  One name is reserved and
  made by the bootstrap, the other registers.
* In `email_delivery` the three attempts are those of the code, and each mail can be sent by each
  provider; the two kinds of mail never touch, so one of each is every case.
* In `email_verification` three users and two addresses let two requests take one address from a
  third; two links are an old and a new one of one account, two of one address for two names, or
  two of one name and address for two secrets.  A link lives one moment of three, so that links
  are opened late and registrations follow expired links; an account may save its address, open the
  link, save the address again and open the link again, all in one moment.
* `startup` has all databases that older releases can have left: any set of tables, any set of
  the added columns, changed or not, any set of the indexes of these tables, and starts that are stopped anywhere, any number of times.

The bounds `MaxDocuments`, `MaxVersions`, `MaxEvents`, `MaxViews`, `MaxTime`, `MaxDraws`,
`MaxTokens`, `MaxLinks`, `MaxChecked` and the set `RequestedRoles` are constants that appear in guards and nowhere else.  Symmetry is used for
names that nothing distinguishes and in runs without liveness only.

### Fairness

A handler is a single step that a client asks for, so nothing is fair there and no property says
that a request must come.  Fairness is assumed of two things that run by themselves.

* `EmailDelivery`: weak fairness of each thread, `_deliver_with_retry(m)`.  Both providers are called
  with a timeout of ten seconds (`EMAIL_SEND_TIMEOUT_SECONDS`) and the sleeps end.  The
  providers owe no answer; restarts may come at any time, without end, or never.
* `Startup`: weak fairness of the steps of a start, `StartStep`, with the service manager's start
  among them.  Stops and requests owe nothing, and `StartsEndServing` speaks of behaviours in which
  the stops end.

### Disagreements found

* `email_verified_again`: `set_email` makes the account unverified even when the address stays as
  it was (`routers/users.py:656`), but the rows of `EmailVerification` stay verified.  Opening the
  link of that address again is answered with "Email is already verified."
  (`routers/users.py:763`) and leaves the account unverified, although `schemas/wiki_user.py:84`
  calls the verification complete once the row is verified.  `FreshProofsVerify` says that this is
  the only way in which a proof is lost.  Only a new link helps, and within
  the cooldown the second save sends none and says that it did.
* `throttle_pruned`: the loop in `core/maintenance.py:176` reuses the variable `key`, so once more
  than 1000 recipients are tracked a send is stamped on a recipient just forgotten.  The
  cooldown of `README.md:148` does not hold then.  The model has `Keys(to)` for the recipients
  the stamp can go to; the run prunes above one.  Another reader of the same fact is the
  theorem `CooldownHolds`, which needs that there are no more recipients than the dictionary keeps.
* `category_below_parent`: `AUTHORIZATION_AUDIT.md:11` says that a setting is never stored below
  that of the parent.  `create_category` stores the default `club_member` below an admin-only
  parent, and moving a category without naming a permission does not look at the floor.  The
  effective permission is not affected: it is the maximum over the lineage.

No run is violated by the missing index, but it deserves a word: a first start that is stopped
right after `CREATE TABLE wikiuser` leaves a database in which the column `email` is declared
unique (`schemas/wiki_user.py:66`) and is not, and every later start serves with it.  Within one
process the checks of the handlers (`routers/users.py:182`, `:650`) still keep addresses apart; the
net under them, on which their `except IntegrityError` relies, is gone.

## 4. What is proved

All theorems hold for every value of the constants that the named assumptions of the modules
admit; the bounds of the runs do not matter.

| Theorem | Property | Along which argument |
|---|---|---|
| `CategoryTypeCorrect` | `CategoryTypeOK` | each handler writes well-formed rows |
| `CategoriesFormAForest` | `EveryCategoryUnderARoot` | inductive with the type invariant: see below |
| `PermissionChangesMeetTheFloor` | `PermissionChangeMeetsNewFloor` | if no name is empty, a parent's lineage is the same before and after the step, because it does not contain the row that changes |
| `WritingNeedsEveryFloor`, `WritersMayWriteAbove` | - | `AncestorsByClosedSets`, `HighestIsAbove`; about operators |
| `HigherRolesMayDoMore` | - | every check of the policy compares grades or asks for an administrator |
| `WikiTypeCorrect` | `TypeOK` | one step per handler |
| `WikiCategoriesFormAForest` | `EveryCategoryUnderARoot` | the lemmas of `CategoryTreeProofs` |
| `WikiImplementsCategoryTree` | - | every step of `WikiDocuments` is one of `CategorySpec` or leaves the table alone |
| `WikiPermissionChangesMeetTheFloor` | `PermissionChangeMeetsNewFloor` | from the two theorems about `CategorySpec` |
| `SomebodyAdministers` | `AnAdministratorRemains` | whoever changes a role is an administrator and not the one changed; needs an administrator at the start |
| `NoBrokenReference` | `ReferencesResolve` | deletion of a category excludes the used ones, deletion of a tag rewrites all documents |
| `RowsStayWithTheirDocument` | `RowsBelongToTheirDocument` | inductive with `NumbersAreGivenOut` |
| `VersionsAreNumbered` | `VersionsNumberedWithoutGaps` | `VersionsInv` |
| `DocumentsShowTheirNewestVersion` | `HeadIsNewestVersion` | `VersionsInv` |
| `RenamesFormATrail` | `RenameTrailIsUnbroken` | `TrailInv` |
| `HistoryOnlyGrows` | `HistoryIsAppendOnly` | a step property from `RowsInv` |
| `ReadersLike` | `LikesComeFromReaders`, which no run repeats | a step property from the types |
| `EditsAreAllowed` | `EditsAreSignedAndAllowed` | a step property from `RowsInv`, if no category bears the empty name |
| `RenamesAndDeletionsAreAllowed` | `RenamesAndDeletionsAreSignedAndAllowed` | a step property from `TrailInv`, under the same condition |
| `AdministratorsDecideRights` | `OnlyAdministratorsChangeRights` | a step property from `RowsInv` |
| `ThrottleTypeCorrect` | `TypeOK` | - |
| `DailyLimitHolds` | `NoDayExceedsTheLimit` | `LimitInv` |
| `ReserveHolds` | `ResetsKeepTheirReserve` | `LimitInv` |
| `CooldownHolds` | `SendsToOneAddressAreApart` | `CooldownInv`, for no more recipients than `MaxTracked` |
| `RefusalsAreExact` | `RefusalsMatchTheSends` | `RefusalInv`, for as many |
| `AccountTypeCorrect` | `TypeOK` | `AccountInv` |
| `NoSessionOutlivesItsPassword` | `SessionsKnowThePassword` | `AccountInv` |
| `NoLogoutIsForgotten` | `LoggedOutStaysOut` | `AccountInv` |
| `NoCodeWorksTwice` | `CodesWorkOnce` | `AccountInv` |
| `OneResetPerPassword` | `ResetLinksWorkOnce` | `AccountInv` |
| `NoWayAroundTheFactor` | `SecondFactorGuardsSessions` | a step property from `AccountInv` |
| `EnablingUsesUpNoCode` | `EnablingLeavesTheCode` | a step property from `AccountInv` |
| `VerificationTypeCorrect` | `TypeOK` | `IInv` |
| `VerifiedAccountsHaveProof` | `VerifiedAddressesWereProven` | `IInv` |
| `OnlySpentProofsAreLost` | `FreshProofsVerify` | inductive with `UnspentLinksCount` |
| `NobodyRegistersByAnothersLink` | `RegistrantsAskedThemselves` | inductive with `PendingAskedThemselves`, that the requests between check and commit asked for their links |
| `DeliveryTypeCorrect` | `TypeOK` | `DeliveryInv` |
| `KeyPreventsSecondCopy` | `NoSecondCopyWithKey` | `DeliveryInv` |
| `DeliveryKeepsPromise` | `PromiseKept` | the first state and every step, from `DeliveryInv` |
| `PromiseBoundsCopies` | - | inductive under `MailPromise` alone |
| `OutcomesAreFinal` | - | from `DeliveryKeepsPromise` and the steps of `MailPromise` |
| `ThreadsDrawNearer` | - | a measure, from `DeliveryInv` |
| `StartupTypeCorrect` | `TypeOK` | `StartupInv` |
| `TablesAndColumnsAreServed` | `ServesTablesAndColumns` | `StartupInv` |
| `OnlyStopsLoseIndexes` | `OnlyCutOffIndexesAreMissing` | `StartupInv` |
| `EveryStartGoesThrough` | `NoStartFails` | `StartupInv` |
| `StartsOverwriteNothing` | `StartsKeepWhatIsStored` | a step property from `StartupInv` |
| `StartsDrawNearer` | - | a measure, from `StartupInv` |

**The forest.**  "Every category has an ancestor without a parent" is inductive because a move to
a category that is not a descendant, which is what `would_create_cycle` ensures, leaves the
lineage of the new parent alone.  The lemmas say how `Ancestors` changes: a set closed upwards
before the step and without the moved row is closed after it; adding the row to the lineage of its
new parent gives a closed set.  A deletion takes a set closed downwards, so what remains keeps its
lineage.  No induction over the length of a walk is needed, since a lineage is a least closed set.

**The composition.**  `WikiImplementsCategoryTree` says that nothing that `WikiDocuments` adds to the
category table, its roles, its documents and the use of a category that hinders its deletion, lets
the table do anything that `CategoryTree` does not: what is proved of that component holds of the
system.  The floor of permission changes is carried over in this way.

**The rows.**  `RowsBelongToTheirDocument` alone is not inductive: a new document must have a
number that no row bears yet.  `RowsInv` adds `NumbersAreGivenOut`, that every number in a
document, version, like or event is at most `created`.  `TablesInv` adds that the sets of rows are
finite, which the type of the next version number needs.

**Versions and renames.**  `VersionsInv` says of every document that its versions are numbered 1 to n
and that the newest one is what it shows.  It rests on `RowsInv`: a title without a document is
free (`FreeTitle`), so a new document starts with exactly one version, and a rename finds nothing
under the new title.  Copies under another title are as many as the rows (`RetitledVersions`),
since rows that differ before still differ after.  `TrailInv` adds `IdsAreCounted` to the trail:
ids are distinct and at most the number of the events, so the event of a rename comes after all others
and prolongs the trail from the title where it ended.  `HistoryIsAppendOnly` needs that no two
documents share a number, so that the rows of a document that stays are not those under a title
that goes.

**Who may do what.**  `WritingNeedsEveryFloor` replaces the walk of `effective_category_role` by what
it is for: in a forest, a user may write to a category exactly if the role meets each setting on
the way to the root.  That no part of the tree opens what lies above it, and that a promotion
takes nothing away (`HigherRolesMayDoMore`), are then a matter of comparing grades.

The role of a category is the highest of its lineage, so whoever may write to it
reaches the grade of every ancestor (`WritersReachEveryFloor`); what `can_perform_document` grants
for an edit or a rename therefore makes an `Editor`, whatever the document's own list says.  This
needs that no category bears the empty name: the walk that collects the roles stops at a parent
of that name, without its role.  That the signature is new and not one that was there before follows from
the guard on version numbers and from `IdsAreCounted`.

`OnlyAdministratorsChangeRights` compares what every user may do with a document before and after a
step, wherever the document is found then.  The proof shows that the steps of others take to the new
title all that the policy looks at (`SameToThePolicy`): owner, privacy, category and lists.  Three places
in the code make this so: a rename copies those fields, an update leaves privacy to administrators, and an
update of the category asks for the right to move, which the global minimum keeps for administrators whatever a document's list says
(`MoversAreAdmins`).  `RowsInv` says which document of the next state is the same one.

**The throttle.**  `NoDayExceedsTheLimit` speaks of `sent`, which no guard reads.  `LimitInv` adds
`DequeHoldsTheLastDay`: every send of the last day is in the deque and the deque is never longer
than the limit.  Shortening from the head keeps every send that is not older than a day, because
each of them is its own witness for a head to stop at; so the length that the guard compares bounds
the sends of the day, and ordinary mail, which is let through only below the unreserved part,
cannot reach into the reserve.  `CooldownInv` says that the dictionary holds
no earlier time than that of any send to the address, as long as nothing is pruned.

That enough is refused does not say that no more is.  `RefusalsMatchTheSends` compares each refusal with
the history in both directions; `RefusalInv` adds that neither table holds a send that never
was (`NothingInvented`), and that sends are numbered in the order of time (`InOrder`), without
which a head of the deque could keep an older send behind it in the count.

**The accounts.**  None of the properties is inductive.  `AccountInv` adds: tokens belong to
registered users; salts and secrets in use are not yet to be drawn, and no two users share a secret
(`DrawnBefore`); no token is ahead of its user's session version or was issued for a salt not yet
drawn, and those that have the present version are those that have the present password
(`VersionsKnowPasswords`); a logged-out token is revoked or expired, and only logged-out ones are
revoked (`RevokedUntilExpired`); the codes used with a present secret are not after the last step
(`CodesBehindLastStep`), and without the factor there is no last step (`LastStepOfFactor`); a
confirmed link was made for an earlier salt than the present one (`ResetsBehindPassword`).  Each
conjunct depends on one line of the code that is easy to lose: the increment of the version, the
comparison in the purge, the reset of the step when the factor goes, the salt of each hash.
`SessionsKnowThePassword` goes both ways: a reset ends every session, and nothing but a reset, a
logout or the end of its life ends one.

**Verification.**  A registration commits after its checks, when links and accounts have changed.
`IInv` carries the checks over: a request between check and commit still has the links it passed
with (`RegistrationsAreProven`), because rows stay verified and `confirmed` loses only the links of
accounts, of which the name is none yet or the commit will fail; a link that was opened for a name
without account stays presented (`OpenedLinksWait`); a request that changes an address belongs
to an account (`SettersHaveAccounts`).  Expiry needs no conjunct: what was alive at the check has
been proven.  The converse, `FreshProofsVerify`, needs to know what happened when a link that is
presented again was presented first: `UnspentLinksCount` says that it has counted ever since,
unless it is spent, so that the account was made verified then and still is.

**Delivery.**  The copies of a mail are its accepted requests (`CopiesComeFromRequests`), of which
there is none beyond the present attempt (`RequestsUpToAttempt`); while a request is open, not all
attempts can be among the accepted ones, so one more copy is still within the allowance
(`OpenRequestIsRoom`).  The allowance of a queued mail never changes, because its thread keeps
provider and kind.  From these each step of a thread or a provider is a step of `MailPromise`: a late
acceptance is `GoOut`, or a stutter where the key is known.  What the promise is worth is proved from the
promise: copies within the allowance, none before the mail is queued, at least one if it
is called sent (`PromiseBoundsCopies`), and outcomes that stay (`OutcomesAreFinal`).
`ThreadsDrawNearer` gives the number, `Remaining`, that each step of a thread lowers and nothing
raises: the part of `EveryMailIsSettled` that is not about fairness.

**Startup.**  The run has no bounds, so the theorems add an argument and not a range.  `StartupInv` says how far a
start has come: the columns before the present position are there (`DoneBefore`), and what was
read of a table is still true of its columns to come (`ReadIsTrue`), which is why several columns
may be added after one look.  Every index of a table that is there is created, pending or lost
(`IndexesAccountedFor`), and none is pending once the tables are complete (`PendingWhileCreating`);
so a serving database lacks the lost ones and no other.  `StartsDrawNearer` gives the number, `Distance`, that each step of a start
lowers: the part of `StartsEndServing` that is not about fairness.

**Only model-checked**: `EveryMailIsSettled` and `StartsEndServing`, since liveness is out of the
prover's reach.  So are `ENABLED`, induction over data and recursive operators; the modules therefore
have no recursive operator.  The three violated runs are shown by their counterexamples.

Assumptions on the constants: `NoneAssumption`, `RequestAssumption`, `DocumentAssumptions`,
`ThrottleAssumptions`, `AccountAssumptions`, `VerificationAssumptions` and `DeliveryAssumptions` say that `None`, `Unset` and the values of the program are different things
and that numbers are natural numbers.  TLC evaluates all of them.

## 5. What is not modelled, and why

* Listings, search, diff, profile fields and the health check change nothing that another part
  reads.  Times of change, wording, paging and layout are left out.
* Backup is one call of SQLite's backup API.  Rate limits and CORS are middleware of libraries.
* The strength of hashes, signatures and codes, the policy for names and passwords, and the answers
  that keep user names secret.
* Whether an address is verified, and mail at all, in `Accounts`; the role that `bootstrap_admin`
  repairs is the initial administrator of `WikiDocuments`.
* Two processes on one database, which `README.md:117` forbids.  `update_document` nevertheless
  retries when the number of a version is taken; the lock that the first write of a transaction
  takes makes that rare even then, since the count is read after it.
  Moves of categories by two processes could close a cycle together.
* Delivery does not ask the throttle and verification does not ask for delivery: each module lets
  the others answer in any way, which is more than they can do.
* What a restart forgets: `EmailThrottle` restarts with empty tables, as
  `core/maintenance.py:34` says and accepts, and its properties hold between two starts.

## 6. What is left

* Which categories a user may write to after a move: how the lineages of a subtree change has its lemmas,
  what it does to permissions is not stated yet.
* A composition of `Accounts` and `EmailVerification`, so that a reset is asked for by the holder of
  the verified address only.
