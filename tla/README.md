# A verification of NexiPass

NexiPass runs the consumption cards of a venue. A customer is given an NFC card
at the entry, consumes on it at points of sale, and settles it at checkout. A
Raspberry Pi runs the backend (C++), a small kernel driver lights an RGB LED
(C), and employees use a mobile application (Dart). This directory holds TLA+
models of the parts of that system whose correctness depends on the order in
which things happen, the TLC configurations that check them, and TLAPS proofs
of the results that hold for any number of cards, handlers and requests.

Paths below are relative to `src/NexiPass/`; `*.cpp` files are in
`Backend_rasp/src/`, `*.dart` files in `FrontEnd_APPMobile/lib/`, and
`README.md` is the repository's own, in `src/`.

Contents: 1 the system, 2 the modules, 3 the runs, 4 bounds and fairness,
5 what the checks show about the code, 6 what is proved, 7 what is not covered,
8 what comes next, 9 how to run it.

## 1. The system

| Component | State it keeps | Operations | Modelled in |
|---|---|---|---|
| Card operations: `CardService.cpp`, the writing half of `Database.cpp` | `opencard` (status, phone, total_to_pay), `openconsumption`, `producttotals` | activateCard, registerConsumption, closeCard, getCardSummary | `CardService`, `CardLedger` |
| The PostgreSQL connection: one `PGconn` in `Database::conn_` | committed tables, the open transaction, link status | the statements, BEGIN, COMMIT, ROLLBACK, connect, isAlive | `PgConnection` |
| `ApiController.cpp`: NFC, worker and network threads | work queue, `running_`, `lastRawUid`, `latestCardState_`, the HTTP server | start, the three thread functions, `/wait_card`, stop | `ApiController`, `WaitQueue` |
| `FeedbackController.cpp`: feedback and LED timer threads | signal queue, LED, buzzer, LED timer, `ledTimerArmed_`, `stopFd_` | ask for a signal, play it, LED timer, destructor | `FeedbackController`, `WaitQueue` |
| Life cycle: `main_test.cpp` | the signalfd | connect, start, wait for a signal, stop, destroy | partly, in the modules above |
| Mobile application: card pages and the shared `ApiController` | the Navigator's routes, `currentCardId`, what each page shows | wait for a card, activate, validate exit, add consumption, view, close | `MobileApp` |
| Staff login, employee view mode | `users`, one flag | authenticateUser, setEmployeeViewMode | the SELECT in `CardService`, the flag not |
| Reports | none | getTotals, listProducts | `CardService` |
| `SimpleRFID.h`: MFRC522 over SPI | chip registers, FIFO, interrupts | card present, read UID | `SimpleRFID` |
| LED kernel driver `DD/` | three GPIO pins, the mapping, the device and its class | load, unload, open, write, close | `LedDriver` |
| REST server (`httplib.h`, vendored) | server socket, queue of connections, thread pool | listen, accept, serve, stop | `HttpServer`, `ServerLife`: as far as the backend uses it |
| Mobile application: settings, login, home and totals pages | base URL, user, role | forms | no |

How they interact:

- The NFC thread pushes UIDs into a queue; the worker thread looks each up on
  the database connection and puts the answer into a cache of one entry;
  `/wait_card`, on a thread of the HTTP server, answers from that cache while
  the scan is fresh (3 s). The application polls `/wait_card`.
- The application then sends the operation for the card it keeps in
  `currentCardId`. A handler thread of the HTTP server runs it, statement by
  statement, **on the one connection all threads share**. `Database.cpp` has no
  mutex, so a transaction one handler opens is the transaction of all of them.
- `CardService` asks for a signal (LED and beeps) with the result of an
  activation, a consumption or a checkout. A queue hands it to the feedback
  thread; a second thread turns the LED off 800 ms later.
- The NFC thread asks the reader chip over SPI; the feedback threads write to
  `/dev/ledrgb`, which the kernel driver turns into three pins.
- The network thread runs the HTTP server: it accepts connections and queues
  them for a pool, whose threads run the handlers.
- `main` connects, starts everything and, on SIGINT or SIGTERM, stops it.

What is hard, and what makes each part correct:

- *Card operations.* Check and update are separate statements; only closeCard
  has a transaction; errors, a broken connection or a restart may fall between
  any two. A consumption must be billed exactly once, an inactive card must
  carry nothing over to the next customer, an "ok" must be true.
- *Queues.* A push must not slip past a consumer that is going to sleep; a stop
  must not either.
- *Cache.* `/wait_card` must answer with the card that was scanned last, and
  only for as long as the scan is fresh.
- *Feedback.* Two threads share LED, timer and flag without a lock; the LED
  must show the signal that plays and go off after it.
- *Reader.* One chip register after the other, with a late answer, noise or a
  second card at any step; a UID must be that of the card that lies there.
- *LED driver.* No lock, and a loader that may fail half way or unload beside
  open files; no register may be touched through a mapping that is gone.
- *HTTP server.* A connection passes through three hands; it must be served and
  closed once, and stop must not wait for silent clients nor leave a handler
  running.
- *Application.* Every page reads and writes one `currentCardId`, and answers
  arrive after pages are gone; an operation must be sent for the card the
  employee is looking at.

The full list of hazards, each with its line and the properties that watch it,
is in `PROJECT.json`.

## 2. The modules

```
PgConnection <- CardService <- MCCardService, CardServiceProofs
                CardLedger  <- (INSTANCE in CardService, refinement)
WaitQueue    <- ApiController      <- MCApiController, ApiControllerProofs
WaitQueue    <- FeedbackController <- MCFeedbackController, FeedbackControllerProofs
                ServerLife  <- (INSTANCE in HttpServer, refinement)
                HttpServer         <- MCHttpServer, HttpServerProofs
                SimpleRFID         <- MCSimpleRFID, SimpleRFIDProofs
                LedDriver          <- MCLedDriver, LedDriverProofs
                MobileApp          <- MCMobileApp, MobileAppProofs
```

The `MC` modules only add what a run needs (symmetry sets); constants get
their values in the `.cfg` files. Definitions whose comment says *Mutant* are
wrong versions of the definition after them, used to confirm that each property
notices such a mistake; no specification uses them.

### PgConnection
The tables as committed (`disk`) and as statements on the connection see them
(`work`), the transaction status `tx` and `link` (`PQstatus`). A statement is
one step. The constant `Faults` says what may go wrong with a call: the server
rejects it ("error"), the link breaks before or after the server acted
("drop"), two threads are inside libpq at once ("race"), the process is killed
and started again ("restart"). A rejected statement aborts an open
transaction, and COMMIT of an aborted transaction commits nothing *and reports
success*, as PostgreSQL does. Nothing ever reconnects except a restart, because
nothing in `Database.cpp` does.

### CardService
Each handler has a program counter `pc`, its request `req` and the `DbResult`
it will return. There is one action per statement:

| Code | Actions |
|---|---|
| handler and `CardService` argument checks, `isAlive` | `Start` (`StartActivate`, `StartRegister`, `StartOther`), `Refused` |
| `SELECT status` of each operation and the returns after it | `Check`, `AfterCheck` |
| activateCard | `Activate` |
| registerConsumption (INSERT, then UPDATE; no transaction) | `Insert`, `UpdateTotal` |
| closeCard | `BeginClose`, `Aggregate`, `Delete`, `Deactivate`, `CommitClose`, `RollbackClose` |
| getCardSummary's second SELECT (also `/validate_exit`) | `ReadLines` |
| the one SELECT of authenticateUser, listProducts and getTotals | `Query` |
| reply and feedback signal | `Reply`, `FeedbackFor` |
| process death and restart | `Restart` |

Data is abstracted to what the properties distinguish. A consumption line is
the identity of the request that asked for it. Hence `total_to_pay` is the set
of lines that were summed, and `producttotals` is, per line, how often the line
was added in; "billed twice" is a count of 2. Products are in the catalogue or
not (`INSERT ... SELECT` of an unknown product inserts nothing and succeeds).
The runs send products of both kinds. `used` and `acked` are ghosts: lines some
request asked for, and lines of existing products whose request was answered ok.

Two requests `Clash` when they are a checkout and any other writing request, or
two activations of one card. With the constant `Disciplined` a request starts
only if it clashes with none in progress; everything else may overlap,
registrations on one card and readers of a checkout included.

### CardLedger
What the operations promise: activating, charging and settling a card are
atomic, need the right card status, and settling moves all lines of the card
into the totals. `CardService` instantiates it with the columns of `disk`;
`RefinesLedger` says that what is committed never moves in another way.

### WaitQueue
The consumer loop both controllers contain (`ApiController.cpp:112`,
`FeedbackController.cpp:192`): test `running_`, lock, wait on the condition
variable, pop or leave. `wait` holds the mutex from its test until it sleeps
(step "tested"), and a push needs the mutex; but `running_` is cleared, and
`notify_all` called, without it.

### ApiController
`main` (`Start`, `Signal`, `StopNotify`, `StopServer`, `Join`), the NFC thread
(`ReaderReady`, `LookForCard`, `ReadCard`, `PushScan`, `NotifyWorker`), the
worker (`TakeScan`, `Query`, `Store`), the network thread (`Listen`,
`CloseServer`, `ServerFails`) and the answer of `/wait_card` (`Answer`).
`LookForCard` and `ReadCard` have the presence logic with `lastRawUid`. It is
meant to queue a UID once per presentation, but a card that has just been read
waits to be selected and does not answer the next request (see `SimpleRFID`),
which forgets `lastRawUid`: a card that stays on the reader is queued again and
again. Time
is in whole seconds as `/wait_card` counts it. `age` stops at 3, which stands
for 3 and more; `scanned`, a ghost with the seconds since the reader last read
each UID, at `Horizon`, which is 3 and the time `Slack` a lookup may take.
`Query` may find any status, because card operations change the row at any
time.

### FeedbackController
The feedback thread plays a signal in the steps of `executeFeedback`: write the
LED, set the timer, set `ledTimerArmed_`, then the beeps and the gaps between
them, each a wait on a timer or on the stop event. The LED timer thread loops
through poll, read, test of the flag, LED off, disarm. Both wait for one stop
eventfd, and whichever reads it takes it from the other. The destructor
notifies, writes the event, joins both threads and turns everything off. The
800 ms timer cannot expire during the signal that set it (a signal takes at
most 450 ms); when else it expires is open. Writing the LED is one step here;
what overlapping writes do to its three pins is the subject of `LedDriver`.

`Disjoint` keeps two short pieces of code apart, each a few system calls:
from the write of the LED (`FeedbackController.cpp:216` and its like) to the set
flag (`:48`), and from the read of the timer (`:72`) to the disarm (`:76`). Nothing else is excluded:
the timer may expire, and poll may report it, beside queued and starting signals,
a signal may take back an expiration between poll and read, and the LED timer
thread may then block in its read through the next signal.

### HttpServer and ServerLife
`ServerLife` is what the program relies on: a server that listens or cannot,
closes once, and ends only when no connection is left in its hands.
`HttpServer` shows that the server keeps it. The one-variable server (`net`) of
`ApiController` is written after it: it goes through the same phases, and holds
no connections.

`HttpServer` has the accept loop (`Accept`, `Enqueue`, `NotifyOne`), its end
(`Drain`, `NotifyAll`, `Join`), `Server::stop` in two steps (`Stop`,
`CloseSocket`), and per pool thread the next job (`TakeJob`) and the loop over
the requests of a connection (`Peek`, `KeepAlive`, `ReadHead`, `ReadBody`,
`Handle`, `Respond`, `Close`). A request is the head of a GET, or the head and
the body of a POST; clients send one at a time. A body that comes after its
request was answered is taken for the head of the next one; as it has no line
end, the connection is closed without an answer. Two details of the code are
kept because stop depends on them: `keep_alive` looks for a request once before
it looks at the server socket, and after an answer that says "Connection:
close" because of its status the loop itself keeps the connection.

### SimpleRFID
`AskPresent` and `AskUid` are `isCardPresent` and `readCardUID`; both run
`communicateCard`, one action per register it depends on (`ClearIrq`, `Flush`,
`Idle`, `Send`, `Poll`, `GiveUp`, `Check`, `Fetch`). The chip and the cards are
the environment, as the datasheet and ISO 14443-3 have them: `Answer` ends a
reception well, with a collision, spoilt or with the chip's timer, `Disturb` is
noise taken for a frame, `Move` lays cards down and takes them away. A byte is
the card it comes from and its position, so the check byte of a UID fits
exactly when all five come from one card: noise spoils at most one byte without
an error flag. `calm` is when noise and delays end, for the liveness property.

### LedDriver
The loader runs `led_init` (`Insmod`, `Acquire`, `MapRegisters`,
`ConfigureOutputs`, `Ready`) and `cleanup` (`Rmmod`, `ConfigureInputs`,
`Release`); each acquisition may fail, with the releases the code makes then.
Writers `Open`, `Write` and `Close` the device, and `Store` sets one pin. The
kernel calls `open` from `cdev_add` on, which is before the registers are
mapped, and takes out no module with an open file. `batch` is a ghost: the
colours of the writes that overlapped last.

### MobileApp
`page` and `over` are the topmost route and the dialog over it; `Pop` takes
whatever is on top, as `Navigator.pop` does. `current` is
`api.currentCardId`; for each page with a `_waitForCard`, `shown` is the card it
shows and `poll` its request or its one-second delay. `late` counts polls of
pages that have been left: `waitForCard` stores the card before anyone looks
whether the page is still mounted (`LateAnswer`). `task` is the request under
way, with the products `_confirmAdd` has yet to send. The server is the
environment: a poll may return any card or none, a request may be carried out,
refused, or carried out with its answer lost. Two variables are ghosts:
`registered` is what the server registered of the current addition, and
`strayed` says that a late answer has changed `current` since a page was last
given its card.

## 3. The runs

Every run but those marked *violation* ends without error.

| Run | Instance | Distinct states | Properties |
|---|---|---|---|
| `card_disciplined` | 2 cards, 1 unknown UID, 2 phones, 2 lines, 2 products (one not in the catalogue), 2 handlers; disciplined; error, drop, restart | 433,917 | `TypeOK` `BilledExactlyOnce` `AckedIsCharged` `InactiveIsClean` `AmountIsOfLines` `NoOrphanTransaction` `OkIsCommitted` `LineKeepsCustomer` `CheckoutCommits` `ExitSeesCheckout` `RefinesLedger` |
| `card_double_bill` (*violation*) | 1 card, 1 line, 2 handlers, not disciplined, no faults | | `BilledExactlyOnce` |
| `card_false_checkout` (*violation*) | 1 card, 1 line, 2 handlers, disciplined, error | | `CheckoutIsDurable` |
| `api` | 1 card, 1 unknown UID, queue of 1, lookups of at most 1 s | 337,098 | `NoScanForgotten` `FreshIsScanned` `LatestIsLastScan` `ScanReachesCache` `StopCompletes` |
| `api_shutdown` (*violation*) | 1 card, no early signal | | `ShutdownCompletes` |
| `http` | 2 connections (one sends GETs, one POSTs), 2 threads, 2 requests each | 239,682 | `TypeOK` `OneOwner` `NoIdleBesideJob` `HandledOnce` `QuietWhenStopped` `RefinesServerLife` `StopEndsListen` |
| `reader` | 2 cards, noise | 14,038 | `UidIsGenuine` `AnswerIsOwn` `CardIsRead` |
| `led` | 2 writers and the loader | 39,834 | `StoresAreMapped` `OpenFileKeepsModule` `NothingIsLeft` `LampIsOfBatch` |
| `feedback_disjoint` | 3 signals, queue of 2, disjoint | 33,461 | `BuzzerOnlyInSignal` `ColourOfSignal` `LedIsTended` `DarkWhenGone` `LedGoesOff` `SignalIsPlayed` `DestroyCompletes` |
| `feedback_led_stuck` (*violation*) | 1 signal, LED timer at any time | | `LedGoesOff` |
| `app` | 2 cards, 3 products, 2 late polls, answered at any time | 8,948 | `ActsOnShownCard` `NoDeadWait` `AddedIsRegistered` |
| `app_add_again` (*violation*) | 2 cards, 2 products | | `AddReturnsToMenu` |

What the passing runs show, in words:

- When no checkout overlaps another writing request and no two activations of
  one card overlap, the card operations are right through rejected statements,
  a broken link and restarts at every step: what is committed moves as the
  atomic ledger does, no line is billed twice or lost, an acknowledged
  consumption is kept, a closed card is clean, a card with a line on it keeps its
  customer until the commit that bills the line, and a customer is never asked
  for more than the lines on the card. Registrations may overlap, on one card
  too, and readers may overlap anything. The operations need this discipline
  and the code does not impose it (section 5); a pool of one thread would.
  Without it only this much survives: no transaction stays open without a
  closeCard that will end it, a card has a phone exactly while it is active,
  and committed totals never shrink (theorems of section 6, the first unless
  two threads race inside libpq).
- An Ok of activateCard or registerConsumption is true on disk when it is
  returned: the card is the customer's, the line is on the card, and the running
  total is that of all lines, although INSERT and UPDATE are not one transaction
  and another registration may come between: the UPDATE sums all lines, those an
  earlier failure left uncounted included. A product that is not in the catalogue
  is answered ok as well and puts no line on the card.
- A COMMIT that reports success has settled the card unless a statement had
  aborted the transaction (which is the false checkout of section 5).
  `/validate_exit` may answer "closed" before that COMMIT, because it reads on
  the same connection; what holds is that the checkout has made all its updates.
- No scan and no signal is forgotten in a queue; the cache holds the last scan;
  a scan reaches the cache and a signal is played, unless the program is
  stopping; a stop that finds the worker awake and the server listening ends.
- The server keeps each connection in exactly one hand until it is closed, lets
  none wait beside idle threads, runs a handler once per complete request, and
  after stop returns from listen with the pool at rest, whatever clients do.
- The reader accepts no UID that is not that of the one card that answered. An
  exchange can succeed on a late answer or on noise (the interrupts are cleared
  before the receiver is stopped), but only for `isCardPresent`, and no UID
  comes of it. Once the noise is over a lone card is read again and again.
- When lighting and darkening do not overlap, a signal keeps its colour while it
  plays, and a lit LED always has a timer, a thread or a signal that will darken
  it, whatever expirations are left over from earlier signals.
- The LED driver never touches a register through a mapping that is gone, leaves
  nothing behind, however its loading fails, and shows a mixture of colours only
  of writes that overlapped.
- The application sends every operation, and shows every summary, for the card on
  the screen, unless a poll of a page that was left has been answered since that
  card was read. Such an answer changes `currentCardId` under the page on top:
  Close Account then closes another card than the one shown. `http.get` has no
  timeout, so nothing bounds how late it is. The property names this case as its
  only exception; there is no violation run for it because no document, comment
  or test of the repository says anything of it.
- Its chains of polls neither break nor outlive their page, and "Added
  successfully." is only said when all selected products are registered.

Assumptions that are constants, so that each run says which it makes:

| Constant | TRUE means | Why it is there |
|---|---|---|
| `Disciplined` (CardService) | the terminals send no two requests at once that `Clash` | no part of it can be left out: two checkouts break `BilledExactlyOnce` (`card_double_bill`); a checkout beside a registration or an activation breaks `OkIsCommitted`, since their statements become part of its transaction; two activations of one card break `RefinesLedger`, and `LineKeepsCustomer` once a line is registered between them, since check and update (`Database.cpp:120`) are separate |
| `Prompt` (ApiController) | a scan is in the cache within `Slack` seconds | `scan_time` is taken after the query (`ApiController.cpp:134`): behind slow queries an old scan counts as fresh, by as much as the lookup took. `FreshIsScanned` says so, and fails without a bound on it |
| `EarlySignal` (ApiController) | a signal may come before the server listens | then `Server::stop` finds nothing to stop |
| `Disjoint` (FeedbackController) | no signal lights the LED and arms its timer while the LED timer thread handles an expiration it has read | the code has no mutex there, and the LED can stay on: `feedback_led_stuck`. Only `ColourOfSignal`, `LedIsTended` and `LedGoesOff` need it |

## 4. Bounds and fairness

`MaxCount = 2` (CardService): no close starts once some line has been added to
the totals twice. One more than the correct number is enough to see double
billing, and a disciplined run never reaches it. A line belongs to one request,
so two lines, two cards and two handlers give every pairing the code
distinguishes: same or different card, a reader beside a writer, two
registrations on one card, a second line on a card that is being closed, a card
opened again for another customer.

HttpServer: two connections and two threads give a connection that waits in the
queue beside a busy, an idle and an ending thread, and `MaxRequests = 2` (100 in
the code) a last and a not last request. LedDriver: two writers are the two
threads that write; three parties overlap with the loader. SimpleRFID: two cards
collide; a third adds nothing the chip tells apart. These modules have no
bounds besides the constants: requests, loads and exchanges go on for ever.

`MaxQueue` (ApiController 1, FeedbackController 2): the reader reports no card,
and no handler asks for a signal, beside a queue of that length. With a queue
of 1 a scan can still be on its way to the queue, or in it, while the worker has
an older one in its hands, which is what the order of scans and the sleep depend
on; the theorems of section 6 hold for every length.
`Window = 3` is the code's constant. `Slack = 1` lets the clock move at every step
between a scan and the cache, which is what 0 would hide; the theorem holds for
every `Slack`. `MaxLate` is how many polls of left pages
may be unanswered; each waiting page has at most one of its own.

Symmetry is used in the CardService runs (cards, lines, phones, handlers) and in
`led` (writers) only; their properties are safety properties.

`CHECK_DEADLOCK FALSE` is set for ApiController, FeedbackController, HttpServer
and SimpleRFID only: after a shutdown, completed or stuck, after the destructor,
after listen has returned, and with a reader whose device does not open, nothing
moves. That a shutdown ends is stated as a property instead. The other runs check
deadlock.

Fairness is that of threads which are scheduled and of calls that return:

- `ApiController`: weak fairness of `Start`, `Stop`, the NFC, worker and
  network threads; strong fairness of `PushScan`, because the mutex it needs is
  free again and again while the worker tests and sleeps, and such a mutex is
  granted in the end.
- In it the server is fair in `Listen` and `CloseServer`; it need not fail.
- `HttpServer`: weak fairness of the network thread, of stop and of each pool
  thread: threads are scheduled and handlers return. `accept` may block for
  ever, unless its socket has been closed. Clients need do nothing.
- `SimpleRFID`: weak fairness of the NFC thread's steps and of `Answer`: the
  chip ends each exchange, with its timer (15 ms) if with nothing else. Nobody
  has to move a card or to end the noise; `CardIsRead` is about the behaviours in
  which the noise ends, in an exchange that is not an answer behind, and a card
  stays.
- `FeedbackController`: weak fairness of both threads and the destructor's
  steps, and of `Expire`: a timer that is set expires.
- Nobody has to scan a card, send a signal, start a stop, ask for feedback, or
  wake a thread for nothing.
- `CardService`, `LedDriver` and `MobileApp` have no fairness; what is stated is
  safety.

## 5. Where the code and what is said of it differ

Each of these is the counterexample of a run; `PROJECT.json` quotes the line.

1. *Double billing* (`card_double_bill`, `Database.cpp:161`). Two overlapping
   closes of a card both read 'A'; BEGIN on the shared connection does not
   separate them, and both aggregate the lines. The comment at
   `Database.cpp:163` promises an atomic transaction.
2. *False checkout* (`card_false_checkout`, `Database.cpp:218`). A statement of
   another thread fails on the connection between closeCard's last UPDATE and
   its COMMIT. COMMIT then rolls back and reports `PGRES_COMMAND_OK`; the
   customer is waved out and the card is still active with its lines.
3. *Lost wake-up in stop* (`api_shutdown`, `ApiController.cpp:67`). stop clears
   `running_` and notifies without the mutex. If the worker has tested the
   condition and is not yet asleep, it sleeps for ever and the join hangs.
   `README.md:178` promises a graceful shutdown. The destructor of
   FeedbackController has the same gap, which is why `DestroyCompletes` is
   stated for a thread that is awake.
4. *LED stays on* (`feedback_led_stuck`, `FeedbackController.cpp:76`). A signal
   that starts while the timer thread is between its test and its disarm has
   its armed flag cleared, so its own expiration does nothing. `README.md:61`
   says 800 ms.
5. *The add page stays open* (`app_add_again`, `point_of_sale_page.dart:366`).
   After a successful addition `Navigator.pop` takes the debug dialog that was
   pushed just before and not awaited; the page stays with its quantities, and
   Add would charge them again. The comment at line 98 expects to be back at
   the menu.

## 6. What is proved

The theorems hold for every value of the constants that satisfies the named
assumptions: any number of cards, lines, phones, handlers and products, any
queue length, every set of faults not excluded. Assumptions on constants say
only that `NoCard`, `NoPhone`, `NoUid`, ... are none of the real values, that
the catalogue is part of the products, and that bounds are numbers.

### Card operations (`CardServiceProofs`)

| Theorem | Assuming | States |
|---|---|---|
| `TypeCorrect` | | `TypeOK` |
| `PhoneIffActiveAlways` | | `PhoneIffActive` |
| `TotalsNeverShrinkAlways` | | `TotalsNeverShrink` |
| `InactiveIsCleanWhenDisciplined`, `NoLineVanishesWhenDisciplined`, `CheckoutCommitsWhenDisciplined` | `Disciplined` | the property each is named for |
| `CheckoutIsDurableWithoutRejection` | `Disciplined`, no "error" | `CheckoutIsDurable` |
| `NoOrphanWithoutRace` | no "race" | `NoOrphanTransaction` |
| `BilledExactlyOnceWhenDisciplined`, `AmountIsOfLinesWhenDisciplined`, `LineKeepsCustomerWhenDisciplined`, `AckedIsChargedWhenDisciplined`, `OkIsCommittedWhenDisciplined`, `ExitSeesCheckoutWhenDisciplined`, `RefinesLedgerWhenDisciplined` | `Disciplined`, no "race" | the property each is named for |

*Any interleaving, any fault.* The argument for the first three is one lemma:
whatever a call does, it leaves the tables as they were, as the connection saw
them, or as one statement makes them (`StepEffect`); each statement keeps status
and phone together and never lowers a count.

*Disciplined, any fault.* A race inside libpq can leave a transaction open that
nobody will end, in which later requests then work unaware. The invariant for
this, `View`, is therefore about both the committed tables and those the
connection sees: each is `Clean` (an inactive card carries nothing), the second
`Follows` the first (a line that has left its card has been counted once more),
requests in progress are `Apart`, and each handler has seen to what its earlier
statements were for (`Sees`) as long as the server takes statements at all
(`Listening`). A late commit of the stray transaction, or its loss, keeps all of
it. `CheckoutIsDurableWithoutRejection` is the positive half of the false
checkout of section 5: lost connections, restarts and races alone cannot make the
checkout signal lie; it takes a rejected statement inside the transaction.

*No race.* `NoOrphanWithoutRace` needs to know besides that a broken link has no
transaction (`TxInv`). With "race" it is false: a BEGIN that acted and was
reported as failed leaves a transaction nobody ends (with
`Faults = {"race"}` TLC finds a behaviour of nine states).

*Disciplined, no race.* These rest on one inductive invariant, `Inv`:

- `TypeInv`: types, and what each step of a handler knows of its request;
- `TxInv`: an open transaction belongs to a closeCard that will end it;
- `StoreInv`: outside an open transaction the connection sees what is committed
  (`ConnInv`); requests in progress are `Apart`; the committed tables are in
  order (`DiskOK`); lines nobody asked for are fresh; and `WriterOK`, what each
  writer relies on at its step. Inside a checkout's transaction that is that
  `work` is exactly what its statements so far make of `disk` (`Pending`).

`DiskOK` alone is not inductive. That a COMMIT settles a card follows only from
`Pending`, and that a stale check does no harm only from `WriterOK`'s claim that
the status the writer saw is still the committed one. Hence each step must be
shown to spare what the others rely on (`Spares`): a sale changes neither
status nor another request's line (`SaleSpares`), a checkout has no writer
beside it (`CheckoutSpares`), and a reader can do one thing to a writer, end its
transaction (`Undisturbed`, `UndisturbedRelies`). It follows that the committed
tables change in four ways only: activated, one fresh line inserted, a total
rewritten, a card settled (`Change`, `StepStore`). Each property, and each step
of the refinement, is a fact about these four.

The assumption "no race" of these theorems is not for convenience. With all four
faults, disciplined terminals, two cards, one line and two handlers, TLC
violates each of the seven properties of the last row, and it confirms `View`
and the three properties that rest on it (323,860 states), and
`CheckoutIsDurable` without "error" (302,388).

### ApiController (`ApiControllerProofs`)
`TypeCorrect`, `NoScanForgottenAlways`, `LatestIsLastScanAlways` and
`QuietAfterStopAlways`, for any set of UIDs and any queue length, and
`FreshIsScannedWhenPrompt` (assuming `Prompt`, for every `Slack`). The invariant `IInv` adds `Awake`
(the worker tests and sleeps beside an empty queue, or the NFC thread is about to
wake it) and `Order`: the youngest scan anywhere between reader and cache, in the
queue, in the worker's hands or in the cache, is the one the reader made last,
and `lastRawUid` agrees with it. `FreshIsScanned` needs besides (`Recent`) that a
scan on its way is at most `Slack` old, and that the card in the cache was read at
most `Slack` before the entry was made. `QuietAfterStop` says what main relies on when it
destroys the connection and the queue: once stop has returned no thread takes
another step, because each was joined where it is past its last one (`Joined`).

### HttpServer (`HttpServerProofs`)
`TypeCorrect`, `OneOwnerAlways`, `HandledOnceAlways`, `QuietWhenStoppedAlways`,
`NoIdleBesideJobAlways`, `Refines`, for any connections, any finite pool and any
number of requests per connection. The invariant `IInv` adds to the types
`PoolInv` (what the pool does in each phase of the listener), `PlaceInv` (where
each accepted connection is, and that it is nowhere else), and `TalkInv` (what
has arrived on a connection, by what its client and its thread are doing).
`OneOwner` alone is not inductive: that a thread has its connection is a fact
about its step, and that the queue holds no connection twice one about the
queue. `NoIdleBesideJob` counts: a notification that wakes a thread moves one
from "asleep" to "lock", a thread that takes a job leaves "lock" with it
(`Counts`). That listen returns after every connection is closed (`Refines`) is
`PlaceInv` with a pool that has ended.

### SimpleRFID (`SimpleRFIDProofs`)
`TypeCorrect`, `UidIsGenuineAlways`, `AnswerIsOwnAlways`, for
any cards. `Own` says when an interrupt can be one of this exchange; `Carried`
that from the sending of a command to the reading of the FIFO only the answer of
a single card to that command puts a UID at the head of the FIFO. Both rest on
`AnswerBytes`: nothing that is received in part, spoilt or too long begins with
a UID, except a whole one with a byte after it.

### LedDriver (`LedDriverProofs`)
`TypeCorrect`, `StoresAreMappedAlways`, `OpenFileKeepsModuleAlways`,
`NothingIsLeftAlways`, `LampIsOfBatchAlways`, for any number of writers. What is
held is a function of the loader's step (`LoaderInv`); a file is open only
between `cdev_add` and cleanup (`WriterInv`); a pin that is not as any write of
the batch wants it has a write that has yet to store it (`PinInv`).

### FeedbackController (`FeedbackControllerProofs`)
`TypeCorrect`, `NoSignalForgottenAlways`, `BuzzerOnlyInSignalAlways`,
`DarkWhenGoneAlways`, `NoForeignColourAlways`, and assuming `Disjoint`
`ColourOfSignalWhenDisjoint` and `LedIsTendedWhenDisjoint`. The invariant adds
where in a signal the buzzer may sound (`Beeping`), that what main has joined
does not run (`Joined`), and why no expiration of an earlier signal reaches a
later one (`Undisturbed`): setting the timer takes back an expiration nobody has
read, so a signal that has set it has no other beside it; and one that was read
before holds off the lighting.

Without `Disjoint` a signal's LED may be darkened early, but never shows the
colour of another signal (`NoForeignColour`, from `Shown`). `LedIsTended` is the
safety `LedGoesOff` rests on: a LED that is on has the signal, an armed timer or
the timer thread still to darken it. Its invariant `Tended` adds that a signal
past its arming finds the flag set, that a LED about to be disarmed is off, and
that main is up while the threads may run (`UpAndRunning`).

### MobileApp (`MobileAppProofs`)
`TypeCorrect`, `NoDeadWaitAlways`, `AddedIsRegisteredAlways` and
`ActsOnShownCardAlways`, for any cards, products and any number of late polls.
The invariant adds which page every request and dialog belongs to (`Places`),
that a page is opened only from one that shows a card (`Shows`), and what the
loop of `_confirmAdd` has done and has yet to do (`Additions`); for
`ActsOnShownCard` also that, unless a late answer `strayed`, the current card is
the one on the screen and that of the request and the summary (`InHand`).

### Only proved
Some theorems state what no run lists, because a run would add nothing to the
proof or to a stronger property beside it: the type invariants of all modules but
`CardService` and `HttpServer` (there `TypeOK` also bounds the requests a
connection still has); `PhoneIffActive`; `TotalsNeverShrink` and
`NoLineVanishes`, which `RefinesLedger` implies where both hold;
`NoSignalForgotten`, beside `SignalIsPlayed`; `NoForeignColour`, beside
`ColourOfSignal`; and `QuietAfterStop` of `ApiController`.
`CheckoutIsDurable` is the property of a run that expects a violation; the theorem
says what has to be absent for it to hold.

### Only model-checked
Liveness (`ScanReachesCache`, `StopCompletes`, `LedGoesOff`, `SignalIsPlayed`,
`DestroyCompletes`, `StopEndsListen`, `CardIsRead`): fairness and ENABLED are
out of the prover's reach. Every safety property of a passing run is proved.
Induction over data is out of reach too; no module declares a RECURSIVE
operator and no proof needs such an induction.

## 7. What is not covered

- *Values.* Amounts, quantities and prices are sums over sets of lines, so
  rounding and overflow in SQL are not modelled. Wording, JSON and log output
  are left out.
- *employeeViewMode_* is one flag shared by all threads; it decides only whether
  a reply shows a phone number, and replies are not modelled as text.
- *Summaries.* getCardSummary reads status and lines in two statements; that a
  summary can mix two customers of a card is in `CardService`, but no property
  is stated on the reply.
- *HTTP server.* Of `httplib.h`, which is vendored and nine tenths of the
  implementation's lines, only the server half the backend runs is modelled.
  Parsing of heads, multipart, ranges, compression, streaming, TLS and the
  client half are left out; the clients are those of the application, which send
  one request at a time, so the stream's read-ahead buffer is too.
- *RFID reader.* Errors of the SPI ioctl, which the code ignores, and the
  registers of the set-up (`waitReadyMs` included, whose result only prints).
- *LED driver.* `read`, which does nothing, and addresses of registers.
- *Life cycle.* Thread priorities, pid and descriptor set-up and failure of
  `timerfd_create` are left out; a first connect that fails ends the program
  before anything is started. A process that has lost its connection is covered:
  every request is refused until it is started again.
- *Application.* The system's back button over a loading dialog, logging out,
  and what an employee does after a failed or repeated addition: `_confirmAdd`
  starts anew on every press, and charges again what was charged before. Composing the application
  with the backend is left for later; today each sees the other as an
  environment that may do anything its interface allows.
- *Login.* The comparison of passwords; on the connection it is `Query`.
- *Mobile settings, login, home and totals pages* are forms with one GET each and
  never touch the current card.

## 8. What comes next

In the order of what it would tell about the system:

1. The application composed with the card service: late answers, repeated
   requests after a lost answer, `/validate_exit` beside an open close.
2. `FeedbackController` over `LedDriver`: writes of three pins by its two threads
   in place of the one-step write.
3. An abstract queue that `WaitQueue` and the pool of `HttpServer` implement, so
   that all three consumer loops rest on one refinement.
4. `ApiController` over `SimpleRFID`, with `LookForCard` and `ReadCard` as its
   abstraction.

## 9. Running it

```
tlc -workers 2 -config CardServiceDisciplined.cfg MCCardService
tlc -workers 2 -config ApiController.cfg          MCApiController
tlc -workers 2 -config FeedbackDisjoint.cfg       MCFeedbackController
tlc -workers 2 -config HttpServer.cfg             MCHttpServer
tlc -workers 2 -config SimpleRFID.cfg             MCSimpleRFID
tlc -workers 2 -config LedDriver.cfg              MCLedDriver
tlc -workers 2 -config MobileApp.cfg              MCMobileApp
tlapm CardServiceProofs.tla
```

`PROJECT.json` lists for every run its module, configuration and properties, for
every property a mutant of a definition that it must notice, and for every
definition the lines of the source it models. The longest run, `api`, takes
about two and a half minutes, `http` one and a half, the others about one or
less; the longest proofs, `CardServiceProofs` and `HttpServerProofs`, a few
minutes each.
