# A verification of the PPGC backend in TLA+

The PPGC backend is a FastAPI application over PostgreSQL (async SQLAlchemy), run by one
uvicorn process. Every request is a coroutine with a database session of its own
(`src/app/database.py`); it gives up control at every `await` on the database, and other
requests, the e-mail code cleanup tasks and restarts interleave there. There is no lock
in the code and no explicit isolation level: PostgreSQL's READ COMMITTED applies. So the
questions worth asking are what holds between a `select` and the `commit` made on its
account, and what a row, a task or a copy in memory says about another.

This directory holds TLA+ models of the parts where that matters, the TLC runs that check
them, and TLAPS proofs of the same properties for every number of requests, rows and
addresses.

## Inventory

Paths are under `src/app/controllers/` unless they start with `src/`.

| Component | State | Operations | Interacts with | Hard behaviour | Correct when |
|---|---|---|---|---|---|
| E-mail codes (`auth/services.py`, `auth/utils.py`, `settings/services.py`) | `transient_verification_store`, one asyncio task per stored code | ask for a sign-up, reset or recovery code; present it; change a password with the confirmation it grants; cleanup loop | accounts, mailer, process lifetime | select-then-commit races, deletion by key after a stale select, tasks lost by a restart, one UNIQUE address for four purposes | nothing is done without a proof of the right purpose; no live code is deleted; codes go |
| Bookings (`bookings/`) | `bookings` | create, patch, cancel, list | rooms, hotel staff | check-then-insert, unchecked patches, stale copies | no room is booked twice for a night; a cancel sticks |
| Two-factor (`two_factor_auth/`) | `two_factor_auth` (user not unique), attempt log | set up, verify, use a backup code, disable, regenerate | password or PIN | read-modify-write of the code list and the switch | on only for a confirmed secret; a used code is dead |
| Sign-in and sessions (`auth/services.py`, `auth/models.py`) | `refresh_sessions` | sign in, authenticate, refresh, log out | accounts, activity logs | a token names an address, a cookie a session; refresh during a logout; expiry | a revoked session stays revoked; a session serves its account |
| Staff invites (`auth/services.py` 873-981) | `role_based_tokens` | issue, use in a sign-up | codes, accounts | token deleted before the sign-up succeeds; used twice at once | one staff account per invite |
| Accounts (`actors/models.py`, `auth/services.py`) | `users` | sign up, delete, seed the administrator at startup | every table with a user | child rows the ORM would set to NULL forbid the deletion; a crash between the two commits of the seeding | one account per address; one administrator |
| Ratings (`ratings/`) | `ratings`, `total_ratings` and `total_stars` of the rated asset | rate, delete, list | hotels, rooms, properties | lost update of the aggregates | aggregates equal the ratings |
| Hotels and rooms (`hotels/`) | `hotels`, `rooms` | create, patch, delete, list available | bookings, ratings | deletion under children, by the ORM and by the database; duplicate check by select | room numbers unique in a hotel; no row outlives its parent |
| Inspections (`inspection/`) | `inspections` | create, update, delete | properties | pending test then write; the property goes meanwhile | a decision stays; no dangling inspection |
| Investments, transactions (`investments/`, `transactions/`) | one table each | create, set status; deposit, withdraw | accounts | one reference reported twice; `compute_rate` at its boundaries | a payment counts once; the rate is that of the highest band reached |
| Savings, properties, bank accounts, profile, settings | one table each | create, read, update, delete | accounts | little | owner only |
| Activity logging (`activity_logging/`) | `activity_logs` | log written by a middleware on the handler's session | every authenticated handler | its row ties the account that the log is about | |
| Payments, token management, account deactivation | | not mounted, or models without handlers | | | |
| Session factory and pool (`src/config/postgres_connection_manager.py`) | 5+10 connections, 30 s timeout | | everything | exhaustion | |
| Mailer, media, error log, templates, migrations | none of their own | I/O | | blocking calls | |

`PROJECT.json` lists each component with its status and, under `hazards`, each behaviour
that is hard to test at the line where it bites.

## What is modelled

A step of a model is the code between two awaits on the database: a select with what
follows it, or a flush with its commit. Single statements of the handler are not
separate steps, since no other coroutine runs between them. What SQLAlchemy and
PostgreSQL contribute is:

- an UPDATE writes the columns whose values differ from those loaded, over whatever the
  row holds by the time of the commit; of a row that is gone it raises;
- a DELETE of a row that is gone only warns;
- a UNIQUE column makes a commit raise, and the handler answers 500;
- `expire_on_commit=False`, and a request's second select of a row it already loaded
  keeps the attributes first loaded.

### EmailCodes, AddressSlots

`EmailCodes` is the code service. `rows` is the store, `users` and `recovery` the
addresses with accounts and their recovery addresses, `tasks` the running cleanup loops,
`req` one record per request in flight: the position between two awaits (`pc`) and the
local variables it holds there.

| Actions | Code |
|---|---|
| `AskSignup`, `AskReset`, `AskRecovery`, `CheckRecovery` | the three handlers' tests of the accounts before `handle_email_code_request` |
| `MailCode`, `AskRefused`, `Reselect`, `StoreNew`, `StoreAgain`, `StoreFails` | `handle_email_code_request`: 302 gate, mail, second select, commit and new task, or rollback |
| `Present`, `Spend` | the decorator `confirm_email_verification_code` |
| `Register`, `Recover`, `LookForGrant`, `Grant` | the handlers it wraps |
| `BeginChange`, `Authenticate`, `FinishChange` | `change_pin_or_password`, its `finally` included |
| `DeleteAccount` | `delete_user` |
| `LoopEnds`, `LoopFindsExpired`, `LoopDeletes`, `LoopFails` | one round of `email_code_cleanup_loop` |
| `Expire` | a stored expiry time passes |
| `Restart`, `SeedAdmin` | the process dies and starts again: `lifespan` and `initialize_admin` |

Accounts are their addresses: passwords, roles and profiles are left out. A time is the
flag `expired`. A request refused at its first select changes nothing and is no step.
`proved` and `changed` are history: which codes were presented, whose password a reset
has changed; a row's `boot` is the start of the process whose task watches it.

`AddressSlots` is what the service promises, without requests, tasks or rows: each address
has one slot, filled when it is free, that never returns from expiry and is vacated only
when it has expired, been proved, or been acted upon; accounts, recovery addresses and
changes follow a proof of their purpose. `EmailCodes` implements it with
`slot <- slotOf` (`KeepsPromise`).

### Bookings, RoomLedger

`bookings` is the table, `req` one request per user with its copy of the booking and the
columns it will set. `BeginCreate` and `Insert` are `create_booking`, `BeginCancel` and
`Write` `cancel_booking`, `BeginPatch`, `CheckPatch` and `Write` `update_booking`.
`check_room_availability` is `Available`, `require_booking_priviledges` is `Accepted`.
Names, amounts and the payment are left out. Both spellings `canceled` and `cancelled`
are statuses in the code; only the first frees the room, the second behaves like any
other status, so one non-cancelled status stands for all of them. The client sets the
status in both POST and PATCH bodies.

The field `sound` of a row is history: it turns false when the row's room, dates or
revival were written by a request that had not checked the room or whose check a commit
in between may have made untrue. The unchecked writes are those the code makes without a
check: a patch of the room or of the status alone.

`RoomLedger` is what the bookings promise of the rooms: a ledger of stays in which a stay
is entered, or exchanged for another, in one step that finds its nights free, and may be
struck out at any time. In the code the finding is a select and the entering a later
commit; `Bookings` implements the ledger with the line of a booking its stay, as long as
it is `sound` and not canceled (`StayOf`, `KeepsLedger`). A booking whose placing was
overtaken or unchecked is never entered, or is struck out; it holds nothing against the
others, and what it may take from them is what `RoomUniqueness` is violated by.

### TwoFactor

The settings rows of one account; `user_id` is not unique, so there may be several, and
the select takes any. `Load` is `get_user_2fa_settings` followed by the handler's
decision on its copy, `Commit` the UPDATE, `Insert` the first setup's INSERT. Secrets and
backup codes are numbered by the generation that made them. TOTP arithmetic is one step,
"the code was valid"; failed attempts and the attempt log change none of this state.
`secretSound` and `codesSound` are history: whether what the row holds was decided by a
request that no other write of the same columns overtook.

### Ratings

`assets` maps hotels and properties to their aggregates, or to `None` once deleted,
`ratings` is the table, `req` one request per user: the asset or rating it looked up and
its copy of the aggregates. Rooms are rated the way properties are: neither has
aggregates.

| Actions | Code |
|---|---|
| `BeginRate`, `CommitRate` | `rate_asset`: select the asset; increment the copy, insert, commit |
| `BeginDelete`, `LoadAsset`, `FindAsset`, `CommitDelete` | `delete_rating`: select the rating, the `selectin` load of its hotel, the handler's own select of the asset (which keeps the attributes first loaded), decrement and delete |
| `BeginDrop`, `CommitDrop` | `delete_hotel`, `delete_property`: the flush finds the ratings and sets their foreign key to NULL; the database cascades to those committed since |
| `Fail` | a commit that raises |

`overtaken` (of a request) and `drifted` (of a hotel) are history: the copy was outdated
when it was written. A rating keeps `rateable_id` after its foreign key is NULL, since the
listing goes by it. `ratings/routes.py` is complete and tested but `src/app/main.py` does
not include its router.

### Sessions

`users` and `sessions` are the tables, `access` the addresses for which an access token
that has not expired is about, `tied` the accounts that rows with a NOT NULL `user_id`
refer to, `server` the progress of `initialize_admin`, `superAdmin` the configured
address of this start. A request carries an account (from its token) and a session
(from its cookie); they need not belong together.

| Actions | Code |
|---|---|
| `Register` | the insert at the end of the sign-up |
| `BeginSignIn`, `CommitSignIn` | `signin` |
| `BeginRequest`, `Authenticate` | `decode_user_from_token`: account by address, then session by key and account, hash and expiry |
| `Handle`, `Log` | any other endpoint, and the commit of `ActivityLoggerMiddleware` |
| `BeginLogout`, `CommitLogout` | `revoke_refresh_session` |
| `BeginErase`, `CommitErase` | `delete_user`: the flush looks for children, then the DELETE cascades |
| `BeginRefresh`, `Renew`, `BeginDiscard`, `CommitDiscard` | `handle_refresh` |
| `ExpireSession`, `ExpireAccess`, `Restart` | time and process |
| `KeepAdmin`, `ClearAdmins`, `InsertAdmin` | `initialize_admin`, one action per commit |

The hash comparison of the access token is part of `Valid`: bcrypt looks at 72 bytes,
which all access tokens of an account share, so that a refreshed token passes against
the hash stored at sign-in, and the comparison never separates two tokens of one account.
`late` and `owing` are history.

### Invites

`tokens` (`role_based_tokens`), `codes` (the sign-up codes of `EmailCodes`, without
tasks), `accounts` as roles by address, and a request's way through `Validate`, `Burn`
(`validate_role_token` and its `finally`), `FindCode`, `SpendCode` (the decorator) and
`Register` (the insert). Each of the three deletions or inserts is a commit of its own;
`Fail` may come between any two. `invite` and `shared` are history: the token that made
an account, and the tokens two requests held at once.

### Hotels

`hotels`, `rooms` and `bookings` as tables, `req` the requests. `BeginAddRoom`,
`SelectDuplicate`, `PreventMultiple`, `CommitRoom` are `require_manager`, `create_room`,
its `before_insert` listener and the commit; `BeginPatch`, `CommitPatch` `update_room`;
`DeleteRoom` the single statement of `delete_room`; `BeginDrop`, `Look`, `CommitDrop`
`delete_hotel`. `BeginDrop` takes the ORM's separate selects of the rooms and their
bookings as one: the booking of a room that is added between them is found with the
others, where the code would go on to refuse the deletion, as `Fail` may too. `doomed` is what the ORM loaded as `Room.booking`, one row of each room
although there may be several; `found` is what it loaded as the backref
`Hotel.bookings`. A booking of `found` outside `doomed` would get `hotel_id` NULL and
fails the deletion. `Book` and `Move` are the writes of `Bookings` as far as they name
rooms and hotels; the client names both and nothing compares them. `sound` (of a room's
number) and `overtaken` are history.

### Inspections, Investments, Holdings

`Inspections` has the properties and the inspections: `BeginUpdate`/`CommitUpdate` are
`update_inspection` (with net changes, `Flushed`), `BeginDelete`/`CommitDelete` its
deletion, `BeginDrop`, `Look`, `CommitDrop` `delete_property`, which sets to NULL the
`property_id` of what it finds while the database (ON DELETE SET NULL) does so to the
rest.

`Investments` has the transactions, one sequence in the order of keys, and the
investments that refer to them: `Deposit`, `BeginWithdraw`/`CommitWithdraw` (a select
first), `Invest` (both rows in one commit), `BeginDelete`/`CommitDelete`. `Rate` is
`compute_rate` on whole days. A deleted investment stays in the sequence, marked, so that
`PaidOnce` can say that its transaction is still there and pays for nothing else.

`Holdings` puts the two beside each other with the same accounts
(`Money == INSTANCE Investments WITH Users <- Users \cup Staff`): a step of the server is
a step of one of them.

## Runs

| Run | Instance | Shows |
|---|---|---|
| `codes` (`EmailCodes.cfg`) | two addresses (one with the administrator's account), one code value, two requests at a time, two rows ever, one restart | `EffectsProved`, `CleanupSparesLive`, `ConfirmationsWait`, `KeepsPromise` |
| `codes_live` (`EmailCodesLive.cfg`) | one address, two code values, two requests, two rows, one restart, with fairness | `CodesWatched`, `CodesGo` |
| `codes_orphan` (`EmailCodesOrphan.cfg`) | one of everything, with fairness | `ExpiredCodesDeleted`, the docstring's claim, fails after a restart |
| `bookings` (`Bookings.cfg`) | a guest and a clerk, two rooms, two bookings, three instants, six patches: each end of the stay, both, the status, either room | `SoundNeverClash`, `SoundStaysOrdered`, `CancelSticks`, `KeepsLedger` |
| `bookings_double` (`BookingsDouble.cfg`) | one room, no patches | `RoomUniqueness`, a model comment's claim, fails: two creations pass the check together |
| `two_factor` (`TwoFactor.cfg`) | two requests, two rows, batches of two codes, three generations | `EnabledIsConfirmed`, `DeadCodesStayDead`, `OnlyCodeEnables` |
| `two_factor_single_use` (`TwoFactorSingleUse.cfg`) | two requests, one row, one code | `SingleUse`, its README's claim, fails: one code is accepted twice |
| `ratings` (`Ratings.cfg`) | a guest and a clerk, a hotel and a property, three ratings ever, scores 1 and 5 | `AggregatesExact`, `RatingsGoByOwner` |
| `sessions` (`Sessions.cfg`) | two addresses, either of which may be the administrator's at a start, three accounts and two sign-ins ever, two requests | `SessionsServeTheirAccount`, `RevokedStaysOut`, `OneAdmin`, `OnlyUnusedAccountsErased` |
| `invites` (`Invites.cfg`) | two addresses, two invites, three codes ever, two requests | `StaffInvited`, `OneAccountPerInvite` |
| `hotels` (`Hotels.cfg`) | one manager, two hotels, two rooms, three bookings ever, two numbers, two requests | `RowsHaveParents`, `SoundNumbersDiffer`, `SecondBookingKeepsHotel` |
| `holdings` (`Holdings.cfg`) | one user, one clerk, two properties, two inspections, two references, durations on both sides of every band, two requests | `PropertiesStand`, `DecidedStaysDecided`, `InspectionsGoByHand`; `PaidOnce`, `RatesFollowBands` |

Why these bounds. The races are between two requests over one row; a third request adds
no new pair, and the proofs below cover any number. Two rows ever inserted let a row be
deleted and re-created between a stale select and its delete, the shape of every
key-reuse hazard here. Two code values tell a rewritten row from the loaded one, which
`CodesWatched` needs; one value makes two requests mail the same code, the worst case for
`Matching`. One restart splits a history into before and after. Three generations let a
backup code be replaced twice. Three ratings let one be lost between two that are
counted; the scores 1 and 5 tell a wrong sum from a wrong count. Three accounts let an
address pass from one account to another and back while the tokens of the first last;
two addresses let a start change the administrator's. Three codes let one address sign
up, lose its account and sign up again. Three bookings over two rooms are the least with
a second booking on a room and one elsewhere. In `holdings` the constraint
`OnePartAtATime` lets a behaviour run one part only: the parts share no variable, so
that each still reaches every state it has, and only pairs of states of the two are left
out, which no property relates. At most two transactions fit two UNIQUE references; the
bound of three leaves room for a model without that constraint to show it.

Rooms, bookings, clients, codes, settings rows and batch
positions are declared symmetric in the safety runs, where no constant names them, and so are the
keys of the other modules; the
liveness runs use no symmetry. Deadlock is not checked: clients may stop asking, and the
bounds stop the models.

### Fairness

`CodesGo` assumes of `EmailCodes`:

- `WF` of each request's next step: a begun coroutine is resumed by the event loop;
- `WF` of `Expire`: time passes;
- `WF` of `LoopFindsExpired`: each task sleeps a minute and polls again;
- `SF` of `LoopDeletes`: the database may fail the DELETE again and again
  (`LoopFails` puts the loop back to polling), but not for ever.

Nothing is assumed of clients, account deletions or restarts. `Expire` carries one timing
assumption, `NoRequestSpansLifetime`: a code's lifetime (300 s, or 1800 s for a reset) is
longer than a request takes from its second look at the row to its commit, since it
waits at most 30 s for a connection. Without it a request could rewrite a row that
expired under it, and the cleanup would race a rewritten, live code.

## Proofs

The assumptions are those declared with the constants (`ConstantsAssumption` in each
module): values that are no member of the sets they are kept apart from, natural bounds,
offers and patches of their types.

- `EmailCodesProofs`: `CodesTypeCorrect`, `EveryCodeWatched`, `EveryEffectProved`,
  `CleanupDeletesExpired`, `ConfirmationsAwaitChange`, `ServiceKeepsPromise`. None of the properties is inductive: a deletion by primary key
  is safe only because of where the key came from. The invariant `IInv` adds that keys
  are below `nextId` and addresses unique (`Keys`), that a row a task found expired still
  is if it exists (`FoundExpired`), that a request about to store a code can overwrite
  unexpired rows only (`Asking`, where the timing assumption enters), and that a request
  past a code acts on a proved purpose and its key, if it still names a row, names one of
  that address and purpose (`Acting`).
  `ServiceKeepsPromise` is the refinement of `AddressSlots`: the
  initial states agree and each action under `IInv` is a step of a slot or a stutter.
  The lemmas about `SlotsIn` say what adding, removing and rewriting a row does to the
  slots; unique addresses make the `CHOOSE` of the mapping harmless.
  `ConfirmationsAwaitChange` rests on `FoundCode`: what a cleanup loop found is the row of
  a code, and no request turns that row into a confirmation.
- `BookingsProofs`: `BookingsTypeCorrect`, `NeverClash`, `StaysOrdered`, `CancelStays`,
  `BookingsKeepLedger`, `AvailabilityIsExact`.
  `IInv` adds that a request with a passed check that no commit has overtaken conflicts
  with no existing booking still (`Inserting`, `Updating`), and that until then the
  columns it will write leave the stay that its copy of the booking says.
  `BookingsKeepLedger` is the refinement of `RoomLedger`: each commit enters, exchanges or
  strikes out the line of one booking, and every other step stutters.
  `AvailabilityIsExact` is of the operators alone: the two comparisons of
  `check_room_availability` are the sharing of a night (`Clash`), for any ordered dates.
- `TwoFactorProofs`: `SettingsTypeCorrect`, `EnabledAreConfirmed`, `CodesStayDead`,
  `CodeAloneEnables`. `IInv` adds what a request that has not been overtaken knows of its
  row (`InFlight`), that generated batches are new (`Generated`, `Unseen`) and that no
  code is within reach of two rows (`Apart`).

- `RatingsProofs`: `RatingsTypeCorrect`, `AggregatesStayExact`,
  `RatingsGoWithTheirOwner`. `IInv` adds that a request that nobody has overtaken still
  holds the aggregates the hotel has, and its rating is still there (`Knows`,
  `InFlight`), and that the foreign key of a rating is NULL only when its
  asset is gone (`Unlinked`). The
  sum of the stars is counted level by level (`AtLeast`), so that adding or removing one
  rating moves each cardinality by one or not at all.
- `SessionsProofs`: `SessionsTypeCorrect`, `SessionsStayApart`, `RevokedNeverAdmitted`,
  `OneAdministrator`, `AccountsStay`, `SessionsPersist`, `SeedingNeverCollides`. `IInv` adds that sessions belong to accounts and
  accounts have different addresses (`Owned`), what `initialize_admin` has done at each
  of its stages (`Administration`), and that an admitted request was matched with its
  session (`InFlight`). `Persist`, a session never changes hands nor returns, carries
  this through every step, and is a theorem of its own. `SeedingNeverCollides` is what the
  model relies on when `InsertAdmin` has no guard for the UNIQUE address.
- `HotelsProofs`: `HotelsTypeCorrect`, `RowsKeepParents`, `NumbersStayDifferent`,
  `BookingsKeepHotels`. `IInv` adds that an insert not overtaken still finds its number
  free, and that a deletion about to commit found under the hotel only what it is going
  to delete (`Knows`).
- `InvitesProofs`: `InvitesTypeCorrect`, `StaffAreInvited`, `InvitesMakeOneAccount`.
  `IInv` adds that a request past its deletion of the token holds a token
  that is gone (`Knows`) and that two holders of one token are `shared` (`Sharing`).
- `HoldingsProofs`: of the inspections `InspectionsTypeCorrect`, `NoDanglingInspection`,
  `DecisionsStay`, `InspectionsStay`; of the investments `InvestmentsTypeCorrect`,
  `PaymentsCountOnce`, `RatesStayInBands` (for any integers as days, by
  `DurationsAssumption`). The theorems are of `HoldingsSpec`, in which a
  step of one part leaves the other alone.

Each proof has one lemma per action, and the theorems combine them with `PTL`.

### Without races

The properties above except the races by history variables: `sound`, `secretSound`,
`codesSound`, `raced`, `overtaken`, `drifted`, `shared`. They say nothing of a raced row:
two requests that reverse the dates of a stay, lose an update of the aggregates, use one
invite twice or give out one room number are behaviours of the code and of the models. A
second group of theorems says what these exceptions amount to.
Each assumes that requests for one thing come one after another, as they would if the
handler's first select were `FOR UPDATE`, and proves the plain claim without an
exception:

| Theorem | Assumes, always | Concludes |
|---|---|---|
| `LockedRoomsAreUnique` (`BookingsProofs`) | `Locked`: requests in flight are for different rooms and bookings; `UncheckedHarmless`: a write without an availability check moves and revives nothing | `RoomUniqueness`; every stay ends after it starts |
| `OneAtATimeIsSafe` (`TwoFactorProofs`) | `OneAtATime`: one request of the account at a time | `SingleUse`; one settings row, on only for a confirmed secret, no dead code in it (`Promised`) |
| `LockedAssetsAreExact` (`RatingsProofs`) | `AssetsApart`: requests in flight are for different assets | the aggregates equal the ratings (`AlwaysExact`); ratings go only at their owner's hand (`OnlyOwnersDelete`) |
| `LockedHotelsNumberOnce` (`HotelsProofs`) | `HotelsApart`: requests in flight are for different hotels; `PatchesCompared`: a patched number was compared with the others | `NumbersDiffer` |
| `LockedInvitesMakeOneAccount` (`InvitesProofs`) | `InvitesApart`: no two requests hold one invite between its select and its deletion | `OneAccount` |
| `LockedDecisionsAreFinal` (`HoldingsProofs`) | `UpdatesApart`: no two updates of one inspection are in flight | `OnlyPendingChange` |

These are theorems about the behaviours of the code that satisfy the assumption, not about
the code as it runs: nothing in it establishes any of them. They answer two questions.
What repairs the race: for ratings, invites, decisions and two-factor settings a lock at
that select is enough; for rooms and their numbers it is not, and the second assumption
names the patches that need a check as well. And what causes it: `bookings_double` and
`two_factor_single_use` violate `RoomUniqueness` and `SingleUse` by interleavings that the
assumption excludes. The assumptions leave behaviours with several requests in flight (for
different rooms, hotels, assets, invites, inspections) and every sequence of one at a
time. Each proof uses the module's `IInv` with one part more, that what a request knew at
its select still holds (`Isolated`, `Alone`, `Current`, `Undisturbed`, `Undecided`,
`NothingShared`).

Only model-checked: `CodesGo`, a liveness property under fairness, which is outside the
prover's reach. Every other property of the passing runs is stated by a theorem. The three claims that fail are shown by TLC's counterexamples. Each
property of a passing run is broken by a mutant of the code kept next to the definition
it changes (`\* Mutant: ...`) and listed in `PROJECT.json`.

## What the checks found

- `ExpiredCodesDeleted`: after a restart no task remains for a stored code; when it has
  expired it is never deleted, the request gate answers 302 for it and the code itself is
  answered 410, so the address can never obtain a code again.
- `RoomUniqueness`: nothing but a select keeps two bookings apart; two creations at once,
  or a patch of the room or status alone, book a room twice.
- `SingleUse`: two uses of one backup code at once are both accepted.

`LookForGrant` also follows a path on which the code raises UnboundLocalError
(`auth/services.py` 745-751, an existing confirmation), and a confirmation row has no
cleanup task at all: `CodesWatched` and `CodesGo` speak of rows with a code, and
`ConfirmationsWait` says that nothing but a password change takes a confirmation away.

The models also follow the code where it does something that no doc speaks of:

- once the middleware has logged one request of an account, `delete-account` answers 500
  for it: `User.activity_logs` is a plain backref, and the flush would set the NOT NULL
  `user_id` of the logs to NULL (`OnlyUnusedAccountsErased`);
- a hotel with two bookings on a room cannot be deleted, for the same reason, though its
  rooms can, with all their bookings (`SecondBookingKeepsHotel`);
- an invite does not say for whom it is: its e-mail is never compared, `is_used` never
  set, and the endpoint passes no role, so that every invite makes staff; an expired or
  failed use spends it all the same;
- the branch of `handle_refresh` that revokes every session of an account when a refresh
  token is used again cannot run: bcrypt compares 72 bytes, and the refresh tokens of an
  account agree there;
- `PATCH` of an investment's status passes an argument too many and always fails, and
  the read of one investment swaps its arguments;
- `update_room` compares the new number with nothing: two rooms of a hotel can share one.

## Not modelled

- Savings, bank accounts, profile, notification flags and the passcode: rows of one
  account that it alone changes in a single write, on which nothing else is decided.
- Payments, token management, account deactivation: not mounted, stubs, or a model
  without handlers.
- Media, templates, the error log endpoint, migrations: input and output without state
  of their own. The mailer is a step that may fail (`MailCode`).
- The connection pool: only through the timing assumption of `Expire`. Counting
  connections would show that requests beyond fifteen wait and, after thirty seconds,
  fail; a failure at any point is what `Fail` already is.
- Activity logging but for the row that ties an account: its queries are reads, and
  `log_activity` is not called.
- The effect of deleting an account on its hotels, ratings, inspections, transactions and
  investments. All of these need an authenticated request, after which the account has a
  log and cannot delete itself (`OnlyUnusedAccountsErased`). What remains is the deletion
  of administrators at a start, when the database cascades over their rows
  (`ON DELETE CASCADE` of `transactions.user_id`, `inspections.requester_id`,
  `hotels.manager_id` and `ratings.commenter_id`), or may refuse it where a
  transaction of theirs has an investment (`trx_id` is ON DELETE RESTRICT). So `PaidOnce`,
  `InspectionsGoByHand`, `SecondBookingKeepsHotel` and `RatingsGoByOwner` are about
  accounts that stay.
- Passwords, hashes and TOTP arithmetic: a comparison is a select of the right row, or a
  step that may be taken.

What a next step would be: `Bookings` and `Hotels` composed, so that a stay checked for a
room that is then deleted is part of the model.
