# SHIVIR in TLA+

SHIVIR lets a Telegram user publish a personal link; anyone who opens it can
write to the owner anonymously. This directory holds TLA+ models of the parts of
the program where order, failure and concurrency decide what happens, the TLC
configurations that check them on small instances, and TLAPS proofs of the
safety properties for every value of the constants.

Source paths below are relative to the repository root.

## 1. The system

Three processes, each restarted by systemd (`Restart=on-failure`), share one
Postgres database and one Redis server.

| process | code | what runs concurrently in it |
|---|---|---|
| bot | `bot/` | aiogram handles every Telegram update as a task of its own, with a database session of its own (`DbSessionMiddleware`) |
| web | `web/` | several FastAPI workers; a request is a coroutine with its own session |
| worker | `workers/notifier.py` | one loop, no concurrency inside; it races the other two through Postgres and Redis |

Nothing in the program takes a lock across an `await`. What keeps concurrent
calls apart is a unique index, primary and foreign keys, row locks inside a
transaction, and the atomicity of single Redis commands. So the question asked of
nearly every service is: what is left of its promise when another call runs
between its SELECT and its INSERT, or when the process dies there?

### Components

**Personal links** (`core/services/links.py`, `bot/handlers/start.py`,
`bot/handlers/settings.py`). State: `users`, `public_links(owner, token, active,
report_count)`. Operations: `get_or_create_user`, `create_link`,
`regenerate_link`, `auto_disable_link`, `has_any_link`,
`get_active_link_for_owner`. Hard: all are check-then-write, repaired through
`IntegrityError`; `regenerate_link` updates and inserts in one transaction, and a
lost race rolls the update back as well. Correct when: at most one active link per
owner; what the owner confirmed as retired is retired; nobody loses their link by
a race or a crash; the "genuinely unexpected" `raise` really is.

**Send pipeline** (`web/routes/sender.py`, `core/services/messages.py`,
`core/security.py`). State: `messages`, `blocks`, the link's `active`, the owner's
`settings.paused`. Operation: `POST /s/{token}/send`: form token, link, pause,
body, block, rate limits, warning, duplicate, INSERT, second commit for flagged
messages, RPUSH. Hard: each gate is read once and used later. Correct when: what
stood against a request from its beginning keeps its message out; duplicates need
an overlap; a success screen is true; a flagged message was warned about.

**Abuse filter** (`core/safety/filter.py`). Pure: categories and score of a text,
warning, severity. Correct when the thresholds fit together: a severity that leads
to a consequence implies a warning beforehand.

**Rate limiter** (`core/rate_limit.py`, `sender_track_event`). State: Redis counters with
a time to live. Operations: INCR, then EXPIRE by the call that counted to one, over the
three keys of a send or the two of a page's beacon. Hard: two commands, not one; windows
end in between; a refused call has counted. Correct when no key lets more than its limit
through, none refuses before, and every window ends.

**Notification worker and queue** (`workers/notifier.py`, tail of `send_message`).
State: the Redis list, `messages.notified_at`, `users.blocked_bot`. Operations:
enqueue, pop, deliver with retries, sweep for stale messages. Hard: every kind of
failure between two commits, a lost queue, a reply lost after Telegram accepted the
message, a session broken by a failed commit. Correct when every stored message is
notified or deleted in the end, `notified_at` tells the truth, and auto-removed
messages do not reach the recipient.

**Reports and moderation** (`core/services/moderation.py`, `bot/handlers/inbox.py`,
`bot/handlers/moderation.py`). State: `reports`, append-only `moderation_actions`,
`public_links.report_count/active`, `messages.abuse_score/deleted_at`. Operations:
report, decide, show the queue, delete, block. Hard: six look-ups and two commits in
one report, with a row lock that begins in the middle (autoflush). Correct when:
repeats only slip through overlaps, the counter does not run ahead, every disabled
link is in the audit log, a report stays on the queue until somebody decides on its message, and
grave items stay on the page.

**User settings** (`core/services/links.py`, `bot/handlers/settings.py`,
`bot/handlers/start.py`, `core/link_prompts.py`). State: `users.settings`, one JSON
column with the keys `paused`, `prompt`, `display_name`, and `users.lang`. Operations:
`set_paused`, `set_prompt_key`, `set_display_name`, the language screen, `/start` with
or without the reason a sender's page sent along. Hard: each setter rewrites the whole
column from the copy its session read. Correct when: a confirmed change is lost to an
overlapping setter at most, the language never; only real changes are counted; a
reason never replaces a line the user chose.

**Sender page** (`sender_landing` of `web/routes/sender.py`, the script of
`web/templates/sender_landing.html`). State: the text, the view, the `sending` flag.
Operations: type, send, edit or continue after a warning, retry after an error, reload.
Hard: requests and answers get lost, the request goes on without its page. Correct when:
what the screens say is true, the acknowledgement belongs to the text it was given
for, and a page does not let two of its own requests overlap.

**Inbox** (`bot/handlers/inbox.py`, `inbox_keyboard` of `bot/keyboards.py`). State:
`messages.opened_at/deleted_at`, `blocks`. Operations: list, open, the prompts, delete,
block, share card. Hard: every tap is a task with a session whose copy of a message
stays as it was loaded while other taps, the filter and new messages change the row.
Correct when: what was gone before a tap came in is neither shown nor marked, what was
opened stays opened, the list leaves out only what it has no room for, and a tap fails
in no other race than the one of two blocks.

**Share card** (`cards/render.py`). Operations: clean up a body, wrap it, find its font
size, shorten it; the static layer that all cards of the process share. Hard: a
bisection for the narrowest balanced width, a loop that shortens by tenths, a
double-checked lock used from worker threads. Correct when: the card shows the whole
text or as much as fits with an ellipsis, in the best wrapping there is (to the pixel), and the
layer is composed once.

**Analytics**, **bot dispatch and error handler**, **web start-up and health check**,
**configuration**, **stats cards**, **texts**, **keyboards**, **operations scripts**:
modelled where a property needs them, see section 7.

### How they interact

    sender page --POST--> send pipeline --INSERT--> messages --select--> sweep
                             |  |   \--RPUSH--> Redis list --BLPOP--> worker --> Telegram
                 rate limiter   filter                                  |
                                                      notified_at, blocked_bot
    bot: links --active, paused--> send pipeline
    bot: inbox --report, delete, block--> moderation, messages, blocks
    bot: inbox --open, share--> messages.opened_at, card thread --> static layer
    moderation --active = false--> links, send pipeline

## 2. The modules

| module | models | proofs |
|---|---|---|
| `LinkRegistry` | abstract: what the link service promises | refined by `Links` |
| `Links` | link life cycle as the handlers drive it | `Links_proofs` |
| `AbuseFilter` | score, warning and severity of a text | in `SenderPage_proofs` |
| `SendPipeline` | the send request and what its owner does meanwhile; EXTENDS `AbuseFilter` | `SenderPage_proofs`, first part |
| `SenderPage` | the page in front of the send request; EXTENDS `SendPipeline` | `SenderPage_proofs`, second part |
| `Settings` | one user's preferences and the updates that change them | `Settings_proofs` |
| `RateLimit` | the limiter over the keys of sends and beacons | `RateLimit_proofs` |
| `Delivery` | from the first commit of a message to its notification | `Delivery_proofs` |
| `Moderation` | reports, decisions, the queue page | `Moderation_proofs` |
| `ShareCard` | what a card shows of a body: pure operators | `ShareCard_proofs` |
| `Inbox` | one recipient's taps beside each other; EXTENDS `ShareCard` | `Inbox_proofs`, on top of `ShareCard_proofs` |
| `MCLinks`, `MCSendPipeline`, `MCSenderPage`, `MCSettings`, `MCRateLimit`, `MCDelivery`, `MCModeration`, `MCInbox` | constants and symmetry for TLC | |

Conventions. A step is one SELECT, one commit, one Redis command or one Bot API
call: between two of them other tasks run. The local variables of a handler in
flight are a record with a `pc` that names where it is (`call[c]`, `tap[t]`,
`mod[d]`, `worker`). A crash forgets those records and keeps the tables. Variables
that are no column and no local (`passed`, `barred`, `twins`, `since`, `log`, `seen`, `lost`, the
reason a link is off) are history: they are written, and never read by a guard. A
definition named `Mut...` is a plausible bug in the definition below it; it is no
part of the specification and is there to show that a property can fail.

### Links and LinkRegistry

`call[c]` is one handler invocation: `op` says which (`on_create_link`,
`_show_my_link`, `on_regenerate_confirm`), `old` and `link` are the rows it read
and got. `GetUser/InsertUser/WinnerUser` are `get_or_create_user`;
`CheckExisting/CommitInsert/ReadWinner` are `create_link`;
`ReadOld/CommitSwap/ReadWinner` are `regenerate_link`. `IndexAllows` is the partial
unique index of migration 0002. `CommitSwap` is one step because the transaction
is: PostgreSQL makes a rival's INSERT wait for it. `Disable` is moderation's part
(in full in `Moderation`). The refinement maps the owner's only active row to
`current` and all rows that were turned off to `retired`; every interleaving then
looks like `Issue`, one-step `Replace` or `Retire`.

### SendPipeline and AbuseFilter

`call[c].pc` walks `link, owner, block, rate, duplicate, store, second, enqueue`,
with the early returns of `sender_send` and `send_message`. The limiter may answer
either way. `Forms` abstracts the form token and the length of the body; a body is
a model value whose `TextOf` says which lexicons and patterns it hits, and
`AbuseFilter` computes from that what `analyze` computes. `barred` collects what
has stood against a request since it began, `twins` the recent identical messages
it began after.

### SenderPage

`page[t]` is a tab: its view, its text, its `sending` flag and the request that is out.
`Submit` is the script's `submit`, and begins a request of `SendPipeline`, which then
runs on its own; `Answer` shows the view for the status that came back; `LoseAnswer`
and `Offline` are the `catch`. A tab that was open for too long sends an expired form
token. `Open` on an open tab is a reload: the page forgets its request, the server
does not. `seen` collects which sender was shown the warning about which text, `lost`
says that an answer did not reach its page.

### Settings

`row` is what the database has, `call[c].copy` what the session of update `c` has: a
session keeps the row it loaded (`expire_on_commit=False`), decides by it whether
anything changes, and writes the whole JSON column from it (`Written`). `log` is the
sequence of committed changes, each with the length of the log its session had seen
(`since`).

### RateLimit

A call is a send, with a budget per fingerprint, per link and for all, or a beacon, with
one per fingerprint and one per link of its own prefix (`Budgets`, `Prefix`). `count`, `ttl`
per key; `Incr` and `Expire` are the two commands; `Tick` is a tick
of the clock, at which Redis deletes keys whose time is up. Counts above the limit are
one value, `Limit + 1`, since the code only compares with the limit.

### Delivery

`sender[m]` is the tail of `send_message`, `worker` the loop of `run_forever`.
L1 and L2 are one severity (`L12`): the code after the filter treats them alike.
`broken` is the state of a session whose commit failed: every later statement raises,
inside `_deliver`'s `try` (then it is one more failed attempt) or outside (then the
process ends and systemd starts it again). `SendFails` may have delivered: the
reply, not the request, can be what was lost.

### Moderation

`tap[t]` is one report, `mod[d]` one decision. `locked` is the row lock on
`messages` that the autoflush before `session.get(PublicLink)` takes and the commit
releases: it is why two reports of the *same* message cannot lose a counter update
and two reports of *different* messages of a link can. `Rank`, `OpenRows`, `Before`
and `Page` are the query of `moderation_queue`.

### Inbox and ShareCard

`tap[t]` is one update of the recipient: which operation, which message, `copy` the
`opened_at` of the session's copy, `list` and `fresh` what a list shows and shows as
unread. `began` and `blocked` are history, the rows and blocks at the time the update came
in. `Load` is `get_message_for_recipient`; `Mark`, `Delete`, `LookBlock/InsertBlock`,
`Query` are the service calls behind it; `Arrive` and `AutoRemove` are what the send
request does to the inbox meanwhile. `CheckLayer`, `Lock`, `LookAgain`, `Compose` are
`_get_static_layer` in the thread of a card; `lock` is `_static_lock`.

`ShareCard` takes a body as a sequence of atoms, characters and emoji clusters. Every atom has
a width of its own at every size (`Advance`), in fractions of a pixel (`Unit` to the pixel), and a
number of code points (`Points`); `Piece` is what is left of a cluster when a cut goes through
it. `Sanitize`, `Words`, `Greedy`, `Narrowest` (the bisection over whole pixels), `Fitting`,
`Shorten` (which cuts code points, and does not sanitize again) and `Fit` are the functions of
`cards/render.py` with the same names; `IsBalanced` and `ShowsText` are what they are
checked against: all ways to set the words, and the text itself. What is abstracted is that
a line is as wide as its atoms together (kerning across atoms is not), and that widths are
rational. The atoms are those of the cleaned text; that removing a character joins its
neighbours to a new cluster is left out.

## 3. The runs

| run | instance | question |
|---|---|---|
| `links_three` | 1 owner, 3 calls, 3 links, crashes and moderation | do three racing calls keep the owner's link single, alive and as confirmed; do they implement `LinkRegistry`? |
| `pipeline_gates` | 2 requests of one sender, 3 kinds of body, 2 rows; owner blocks, pauses, resumes, deletes | can a message get past a gate that was shut all along; what do the answers and flags mean? |
| `sender_page` | 1 tab, a clean and a harassing text, 2 requests at the server, 2 rows | are the screens true, do acknowledgements belong to their text, does a page send a text twice? |
| `settings_overlap` | 2 updates of one user, 1 preset, both languages, 3 commits | which changes can be lost; what do the events count; may a reason overwrite a choice? |
| `ratelimit_windows` | 2 calls, sends or beacons, 1 sender, 1 link, 1 crash, fair; limits 1 and 2, windows 1 and 2 | does any key let too many through, or refuse too early; which keys lack a time to live; does every window end? |
| `delivery_safety` | 2 messages, 2 attempts, 2 faults anywhere, fair | `notified_at`, flags and duplicates; is every stored message settled in the end? |
| `moderation_reports` | 2 reports of 2 messages of one link, thresholds 2 | repeats, counter, audit log |
| `moderation_decisions` | 2 moderators, 1 report, auto-flag, deletion, a page of one row | second decisions, open reports, deleted messages, crowding out |
| `inbox_taps` | 2 taps on 2 messages of one sender, a list of one, 13 bodies, crashes | what taps show, mark and list beside each other; are cards right; is the layer composed once? |
| `delivery_l3` | 1 message, 1 fault | *violated*: a request that dies between the two commits of an L3 message leaves it visible, and the sweep notifies it |
| `moderation_threshold` | 2 reports of 2 messages | *violated*: both write `report_count = 1`; the link stays on |
| `ratelimit_stuck` | 1 crash, fair | *violated*: a process that dies between INCR and EXPIRE leaves a counter for ever |

### The bounds and why they are enough

*Calls, taps, moderators, requests: 2, or 3 for links.* A race here is a second
call between a SELECT and a write of the first. The third link call adds the case
the `IntegrityError` branches exist for: a winner whose row is itself replaced or
disabled before the loser re-reads it. *Links: 3* is one per call; `Begin` starts a
call again after it ended, so the number of calls is not bounded, only the rows.
*One owner:* rows of different owners are never compared; the theorems are for any
set of owners. *Faults 2, attempts 2:* two failures
put every pair of them next to each other - a lost reply and a crash, a lost handler and
a lost queue - on either of two messages, and use up all attempts of one. *`QueueBound`:* the
sweep timer is not allowed to fire again while the queue holds more than that; without a
bound an ever repeated sweep before a stopped worker makes the queue grow without end. 0
still lets one sweep overtake both messages. *Thresholds and page
size of 1 or 2* put the boundary where two calls meet it. *Windows of 1 and 2 ticks,
limits of 1 and 2:* all scopes get to refuse, and the global window ends before the
others. *`MaxMsgs` 2* is an original and a repetition. *`MaxCommits` 3* is a change, one that overlaps it and
one after both. *One tab:* what two tabs of a sender do is `SendPipeline`'s second
request. *A list of one message* of two is full, and not, and has an older message behind
it. *The panel* of five lines of five letters, six of six in the smallest, is small
enough that thirteen bodies of up to 46 atoms fit, wrap, break in a word, hold an emoji wider than
the panel, overflow by one line, shorten, get cut inside a flag and, round after round, inside a
family, and shorten to nothing. Widths are in quarters of a pixel, and one of the bodies has a
setting that is half a pixel narrower than the one the bisection finds. Deadlock is checked in all
runs: a process can always begin something.

### Fairness

`Delivery!Fairness`: the worker's loop, its sweep timer, the follow-up steps of a
request that has begun and the age of a message keep going. The code justifies the first by
the loop and `Restart=on-failure`, the others by time. Nobody has to send, delete,
block or unblock, and no failure has to happen or to stop - failures are bounded
in number instead. `EventuallySettled` assumes that the recipient does, from some time
on, not block the bot: while they do, the program rightly cannot notify.
`RateLimit!Fairness`: time passes, and a call that is between two commands issues
the next one.

### What each property says

Every module has one type invariant (`TypeOK`, `PageTypeOK`); they are proved (section 4)
and not run.
*Links.* `AtMostOneActive`, `RegenerateRetiresOld` (also when the call lost and its
own UPDATE was rolled back), `OnlyModerationUnlinks`, `RaiseNeedsModeration`,
`UserRowFirst` (foreign keys of links and events), `ImplementsRegistry`.
*SendPipeline.* `BlockHolds`, `ClosedLinkHolds`: no row for a request that was
blocked, or met a pause or dead link, from beginning to end. `DuplicatesNeedOverlap`:
a second row for a send needs overlapping requests or a first row whose body has been
blanked. `SuccessIsKept`. `FlaggedWasWarned`.
*SenderPage.* `FlaggedWasSeen`: the sender of a flagged message saw the warning about
this text. `SuccessIsTrue`: the success view is on the screen for a stored message, or
its sender is blocked (who is not to notice). `OnePageSendsOnce`: with one page and no
lost answer, taps do not send a text twice.
*Settings.* `LostOnlyToOverlap`; `EventsAreChanges`: a commit that changed nothing had
an overlap, and there is no event without a commit; `ReasonSparesChoices`.
*RateLimit.* `AtMostLimit` (per life of a key), `RefusedAtLimit`: no call is refused before
the budget that refuses it has let its limit through, so beacons cost sends nothing;
`OnlyCrashLeavesKey`,
`WindowEndsUnlessCrash` (and `WindowEnds`, which a crash refutes).
*Delivery.* `NotifiedWasDelivered`; `FlaggedBeforeDelivered`, `L3DeliveredOnlyIfLost`:
the moderation row and the removal come first unless the request died in between;
`DuplicateNeedsDelay`: without a failure, a second notification needs a sweep that overtook
a waiting message; `EventuallySettled`.
*Moderation.* `RepeatsOnlyOverlap`: every check-then-insert of the module lets a
repetition through only in an overlap; `CounterNeverAhead`; `DisabledIsAudited`;
`ReportIsQueued`: until a moderator decides on its message, a report is one of the rows the
queue selects, whatever the filter wrote about it (and, in the theorem, whichever rival's
report was first: two reports, a filter and moderators together are too large an instance);
`L3NotCrowdedOut`; `DeletedStaysDeleted`. (`EventHasReport` is proved only.)
*Inbox.* `NothingAfterRemoval`, of what was removed before the tap came in (what is removed
between its look-up and its answer is still shown, as the code does); `OpenedIsKept`; `ListIsComplete`: a message that was there
all along is listed, or the list is full of newer ones; `OnlyRaceRaises`: a tap on "block"
raises only beside another one that blocked the same sender meanwhile, and the block is
there; `LayerBuiltOnce`.
*ShareCard*, of every card `Inbox` sends. `CardShowsText`: inside the panel, the whole text or,
if it does not fit even in the smallest letters, a beginning of it - the last emoji perhaps
without some of its code points - and an ellipsis; an atom alone may be wider than the panel.
`CardIsBalanced`: the bisection comes within a pixel of what trying all settings finds, in as
few lines.

## 4. What is proved

For every value of the constants that satisfies the named assumptions
(`NoneIsNoRow`, `PipelineConstants`, `PageConstants`, `RateLimitConstants`,
`DeliveryConstants`, `ModerationConstants`, `SettingsConstants`, `InboxConstants`,
`CardConstants`, `GlyphConstants`), with no bound on calls, owners, senders, links, messages, faults or texts. The
assumptions say what types the constants have (a body is a finite sequence), that the values
standing for "none" are no others, that sets which are counted are finite, and that no moderator
is called "system". `CardConstants` says of the card what its numbers say in `cards/render.py`
(668 by 384, sizes 54 down to 30): a line of the smallest letters fits into the panel, and going
down by two from the largest size meets the smallest. `GlyphConstants` says of an emoji that a
cut through it leaves as many code points as it should, that these are drawn too, and that cutting
twice is cutting once; of widths it says nothing but that there are such.

| module | theorems |
|---|---|
| `Links_proofs` | `OneActiveLink`, `OldLinkStops`, `LinkKept`, `RaiseIsUnexpected`, `ForeignKeys`, `Refinement` (`Spec => Registry!RSpec`) |
| `SenderPage_proofs` | of the pipeline: `BlocksHold`, `ClosedLinksHold`, `DuplicatesOverlap`, `FlaggedSendsWarned`, `SuccessStays`; of the page: `PagesUsePipeline` (`PSpec => Spec`), `WarningsWereSeen`, `SuccessViewIsTrue`, `OnePageOneMessage` |
| `RateLimit_proofs` | `LimitHolds`, `KeysEnd`, `OnlyUsedUpRefuses` |
| `Delivery_proofs` | `NotifiedIsTrue`, `FlaggedFirst`, `L3OnlyIfLost`, `DuplicatesAreStale` |
| `Moderation_proofs` | `RepeatsAreOverlaps`, `CounterIsSafe`, `DisablingLeavesARow`, `ReportsAreOpen`, `EventsHaveReports`, `L3IsSeen`, `DeletionIsFinal` |
| `Settings_proofs` | `ChangesAreKept`, `EventsAreTrue`, `ReasonsAreForNewUsers` |
| `ShareCard_proofs` | `CardShows`, `WrapIsBalanced` (of every text, no `Spec` involved) |
| `Inbox_proofs` | `GoneIsGone`, `OpenedOnce`, `NothingIsMissing`, `RaiseIsARace`, `OneLayer`, `CardsShowTheText`, `CardsAreBalanced` |

and each module's type invariant. They are theorems about `Spec`; where a run is fair,
`FairSpec` is `Spec` and a fairness condition, so they hold of it too. Each goes through an
invariant `IInv` (`PInv` of the page) that the component's module defines at its end, a lemma
per action or group of actions, and the three facts Init => IInv, IInv /\ [Next]_vars => IInv',
IInv => property. The invariants were checked with TLC on the instances of section 3 before
they were proved; one conjunct is out of TLC's reach, the type of `Settings`' log, whose set of
records has fields of several types.

*Links.* The properties alone are not inductive. A call at `ReadWinner` must be known
to be there because a rival's row was active and, its own UPDATE having been rolled
back, its own old row was not: `CallOK` says so. From that, the row it then finds is another
one, and if it finds none, moderation has been there. `FreshRow` is the lemma of
the proof: what the unique index lets in leaves exactly one active row.
`OtherCalls` says that a step of one call cannot falsify what is said of another,
because rows only go forward. The refinement uses that one active row makes the
mapping's CHOOSE unambiguous.

*SendPipeline.* `BarsOK`: whatever stands against a request still stands, and a
request past a check has nothing of that check's kind against it. `TwinsOK`:
the messages a request began after are still there, and once it has looked for
them without a hit their bodies are blank. `RowOK` is what becomes of both in a stored row.
`FlaggedIsWarned` is the arithmetic: L2 and L3 imply a score or a category that
warns, whatever lexicons a text hits.

`SuccessStays` adds `HasRow`: after its first commit a request has a row that is its own
send, and a row's sender, link and text never change.

*SenderPage.* A page's steps are steps of `SendPipeline` or leave it alone, because a page that
submits has a text in its composer; so whatever is proved of the pipeline holds behind any
number of pages. `PageOK`: the request a page waits for is about the text that is still in its
(read-only) composer, or was answered with an error before it was looked at. `AcksOK`: an
acknowledgement, of a request or a row, is about a text whose warning was shown. `InOrder`:
with one page and no lost answer requests are one after the other, so a request knows of all
earlier rows that are the same send, and the pipeline's `TwinsOK` does the rest.

*RateLimit.* `passed` is at most the count, and the count is exact up to the limit, which
is why a call that is refused meets a budget that is used up; a key that counts has a time to
live, or an `Expire` pending, or was left by a crash.

*Delivery.* `HandlerOK` ties the row to the place of its handler: flagged before it is
enqueued, hidden before it is let go. `ReleasedOK`: what is queued, held by the worker, swept or
delivered has been let go by its handler or lost it. `OnceOK`: while nothing has failed, a
message the sweep has not overtaken is in one place at a time - once in the queue, with the worker,
or delivered. `WorkerOK` says what the loop's local variables hold where it is, for a broken
session that something has failed.

*Moderation.* The tables `reports` and `log` only grow, and every update remembers how long they
were when it looked (`sinceR`, `sinceL`): `SawNoReport`, `SawQueue`, `SawLink`, `SawNoEscalation` and
`ModOK` say that what it missed is younger than that. What it then writes repeats only younger
rows. `DisabledIsOff` closes the gap for the link, whose copy may be stale: a row in the log
implies that the link is off for good. `L3IsSeen` needs no invariant but types: `Before` is a strict
order whose first `PageSize` rows are the page.

*Settings.* A session's copy is what the row was after `since` changes, as far as its values are
concerned: `HasLast` states it for the row (all changes) and for each copy (the first `since`).
A commit writes the copy and one new value; a field it sets back was last changed after `since`,
and that is the overlap `LostOnlyToOverlap` names. `EventsCounted` counts, per field, the events
that are or will be written against the changes of that field.

*Inbox.* `OnlyForward`: since a tap came in messages were only deleted and opened, senders only
blocked. `ReadOK`: what a tap found was not gone before it came in, its copy knows of
earlier openings, and a tap that found no block came in before there was one. `LockOK`: the
thread that holds the lock is the one between its second look and the end of its work, and
while it composes there is no layer.
`Stored` and `ListIsComplete` itself: what was on the list when a tap came in is still stored or
gone, the stored messages are finitely many, and so the page, the newest of them, holds exactly
`PageSize` when it leaves one out.

*ShareCard.* These are theorems about functions, of any text, and take induction over sequences.
The library's induction theorems have an operator as parameter, which the provers cannot
instantiate; the module proves its own, with a *set* of good values instead: `LeastNumber` (from
the well-foundedness of < on the naturals), `Induction`, `SeqInduction`, `SetInduction` (from
that of the strict subset order on a finite set), and from these that `Max` and `Min` are what
they are called. `TotalLaws`, `PixelLaws` and `TakeLaws` are about sums, rounding and cuts. `FoldLaws` then turns every fold of `ShareCard` into an initial value and a
step: `SplitLaws`, `BreakLaws`, `GreedyStep`, `CompactLaws`, `DrawnLaws`, `FlattenLaws`.

`CardShows`. What is drawn (`Drawn`: the text without its blanks) is kept by `Sanitize`, by
splitting, breaking and setting (`SanitizeOK`, `WordsOK`, `GreedyOK`, `WrapOK`), and all lines
keep inside the panel, the balanced ones because `Narrowest` is never below the longest word
(`NarrowestOK`, on `BisectionIs`). `Shorten` leaves a beginning, cut by code points, and an ellipsis (`ShortenOK`); a
beginning of such a beginning is one of the whole, also when both cuts go through the same emoji
(`TakeAppend`, `CutAgain`), so the texts that `_fit` goes through are beginnings, the first of
them whole (`CutsOK`). That
`_fit` shortens at all means that the smallest size does not fit either, and balanced
lines are no more than filled ones (`WrapShort`): so the filled ones do not fit.

`WrapIsBalanced`. Greedy wrapping is a race: `MovesLate` says how the number of lines and the
length of the last one change with a word, and that greedy begins a line only when it must. By
induction over the words it is never behind: not behind itself at a smaller width
(`GreedyMonotone`, which is what the bisection needs), and not behind any setting that keeps to
the width (`Fewer`). And greedy is a setting (`Starts`), whose widest line is one of its own
(`GreedySetting`). So the number of lines is least. If the words fit the panel, so does every line of greedy
wrapping (`GreedyInside`). Any setting with as few lines has a width w at which greedy needs no
more; so it does at w rounded up to a whole pixel, which the bisection tries, and its width is at
most that. The widest line of the lines it yields is no wider than that, so by less than a pixel
wider than w, if at all.

## 5. What is only model-checked

*Liveness* (`EventuallySettled`, `WindowEndsUnlessCrash`): outside the prover's reach, as is
ENABLED. *The three violated properties*: a counterexample needs no proof. Every safety
invariant and action property of the passing runs is a theorem.

## 6. Where code and words come apart

Shown by a run, and listed as findings: the three *violated* runs of section 3.

Seen while modelling, of the same kind, without a run of their own:

* `workers/notifier.py:7-8` says of a recipient who blocked the bot "drop the
  message, no retry"; the sweep selects by `notified_at IS NULL` and brings it
  back, and the same for a message given up on. `EventuallySettled` depends on it.
* `core/services/moderation.py:186` calls a decision idempotent; two moderators who
  overlap append two. Likewise "One report per message" (`:37`) and the
  `report_created` event of a repeated tap. `RepeatsOnlyOverlap` states exactly how far
  the code's look-ups reach.
* `moderation_queue` leaves out every row of a target that has a human decision,
  later ones too: a user's report of a message whose auto-flag was dismissed is never
  shown, though the comment at `:49` has the row put the report in front of the moderator
  ("without this row a single report was invisible to admins"). `ReportIsQueued`
  states how far that goes: until the first decision on the message.
* `core/services/messages.py:126-128` wants a resubmitted message treated as the same
  send; L3 and `delete_message` blank the body by which it is recognised, and two
  requests that overlap (a second tab; one page cannot, see `OnePageSendsOnce`) both
  find no duplicate and both store. `DuplicatesNeedOverlap` states what is left.
* `core/services/links.py:89` records an event "on a real transition, not on a double
  tap", as far as the session's copy of the row can tell: two overlapping taps both do.
* `core/services/links.py:147` has `create_link` fall back on the winner's link "rather than
  erroring out" on a lost race, and `block_sender` does the same for a rival's block. The
  rollback in that branch expires every object of the session, and the handlers read `user.lang`
  next, outside of any await: SQLAlchemy's asyncio extension refuses the implicit reload
  (MissingGreenlet), so the tap that lost the race ends in the error handler. What was to be
  written is there, the screen is not. `OnlyRaceRaises` states it for the block; in `Links`
  a call that is "done" has nothing left to write, not necessarily a screen.
* `cards/render.py:270-274` says that shortening is "only possible above the 200-character design
  limit"; by `InkHeight` nine lines fit in the smallest letters, so ten lines of one character each
  are shortened. The forty rounds do suffice for every message of legal length, so the
  ellipsis alone, the function's last resort, is never shown.
* `_fit` (`cards/render.py:281`) cuts a text between code points and does not clean up what is
  left, so half of a flag or of a joined emoji can be its last character; `_atoms`
  (`:189`) speaks of "keeping each emoji cluster whole", of lines. `CardShowsText` allows it,
  and one body of `inbox_taps` ends in it. `GlyphConstants` assumes that the font draws
  what is left: of a cluster whose first pictograph has no bitmap of its own, `_measure` would raise.
* The comment at `cards/render.py:241` wants "the narrowest width that still gives that count". The
  bisection starts from lengths rounded down and tries whole pixels, and greedy wrapping at
  the width it finds need not be the narrowest setting: words a, b, c whose "a b" is 300.7 and
  whose "b c" is 300.2 wide are set as "a b" / "c". It is less than a pixel; `CardIsBalanced`.
* "Text never leaves the panel" (`render_share_card`): a chain of joined emoji without a bitmap of
  its own is one atom as wide as all of them, and an atom is not broken. `ShowsText` excepts the
  line of one atom.
* Between the two commits of an L3 message it is in its recipient's list and can be opened:
  `AutoRemove` in `Inbox`.
* `bot/handlers/start.py:129` takes the first-link branch to be passed exactly once; two
  taps both see no link.

## 7. Not modelled, and why

* *The rest of the sender page:* the rotation of the suggested openers and the choice of a
  reason decide no send; of the beacon, its limiter is modelled and its event is not.
* *Form token's time to live* (`core/security.py:40`: no lower bound on the age, so a token from
  a clock that runs ahead lives longer), *fingerprint derivation:* a token is good or bad and a
  fingerprint a model value; cryptography is not a matter of interleaving.
* *Lexicons and regular expressions:* abstracted to which of them hit.
* *Drawing:* fonts, kerning, gradients and emoji bitmaps; an atom has a width and code points, and
  widths add up. The stats card is layout.
* *Statistics* (`core/services/stats.py`): five queries in one session, each of its own
  snapshot; they only read, nothing depends on their agreeing, and no document says they do.
* *Texts, prompts, keyboards other than the inbox's, legal pages:* tables and layout, no state.
* *Start-up, health check, backup, docker-compose:* plain I/O; what they mean for the
  models is that processes restart and that Redis may lose its tail.

## 8. Plan

Done, in this order: `Links`, `SendPipeline`, `RateLimit`, `Delivery`, `Moderation`; `SenderPage`
in front of the pipeline and `Settings` beside it; the beacon's limiter, `Inbox` and
`ShareCard`; proofs of every safety property but those of section 5. What a next
step would add:

1. A composition of `SendPipeline` with `RateLimit`: what a warned and acknowledged send
   uses up, as a bound on what one sender can get through.
2. An abstract inbox (stored, visible, notified, gone) that `Delivery` implements, `SendPipeline`
   feeds and `Inbox` reads.
3. The read-modify-write of `Settings` in place of the atomic `Pause`/`Resume` of
   `SendPipeline`: what a lost pause means for the sends after it.
4. `collect_stats` and `pick_prompts` as operators against reference definitions.
