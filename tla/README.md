# Formal model of ttlock-ble

`ttlock-ble` is an asyncio library (and CLI) that drives a TTLock smart lock over
Bluetooth LE. This directory holds TLA+ models of it, the TLC configurations that
check them, and TLAPS proofs. Paths below are relative to `src/src/ttlock_ble/`
unless they start with `tests/`.

## 1. The system

| part | state it keeps | operations | talks to |
|---|---|---|---|
| **Command path** `client.py`, `ble/transport.py` (`exchange`, `send`, `_on_notify`) | `_command_lock` (an `asyncio.Lock` with its FIFO of waiters), `_inbox`, `_waiting_for_response`, one suspended coroutine per caller | every public method of `TTLockClient`, `_poke_lock`; the notification callback | lock firmware over GATT; event listeners |
| **BLE link** `ble/transport.py` (`connect`, `disconnect`, `_discover_chars`, `_wake_battery_read`), `ble/device_finder.py` | `_client`, `_write_char`, `_notify_char`, `device`; the backend's connections | `connect`, `disconnect`, `is_connected`, `__aenter__`, `__aexit__` | bleak, bleak-retry-connector |
| **Keep-alive** `ble/keep_alive.py` | `_task`, each window's deadline | `restart`, `stop`, `run` | `_poke_lock` (so the command lock), `is_connected` |
| **Frame reassembly** `protocol/reassembler.py`, `protocol/frame.py` | `_buf` | `feed`, `parse`, `build` | fed by `_on_notify` |
| **Client sessions** `client.py`, `commands/*.py` | locals of each method: token, reference time; the lock's own memory of the handshake | the CHECK_USER_TIME and CHECK_ADMIN / CHECK_RANDOM handshakes, unlock, lock, settings, passcodes, clock | command path |
| **Listings** `client.py`, `commands/{card,fingerprint,passcode_list,operate_log}.py` | locals: cursor, entries, `seen` | `get_cards`, `get_fingerprints`, `get_passcodes`, `get_operation_log` | command path |
| **Cloud** `cloud.py`, `_cloud_helpers.py` | `_uniqueid` and its file, `creds`, `base_url` | `login`, `validate_new_device`, `discover_site`, `list_keys` | HTTPS API, file system |
| **CLI** `cli.py`, `scripts/dump_operation_log.py` | the key store file; per process the key and the session | `sync`, `verify`, one command per client method, the script | client, cloud, user |
| **Payloads** `commands/*.py`, `models/*.py` | none | `payload_*`, `parse_*`, `LockEvent.from_payload` | methods of the client, listeners |
| **Frames** `protocol/frame.py` | none | `build`, `for_lock`, `parse` | command path |
| **Advertisement** `models/lock_advertisement.py` | none | `from_manufacturer_data` | scanners |
| **Crypto** `crypto.py` | none | AES-CBC, CRC-8 table | frames |

A method of the client takes the command lock and hands one frame after another
to `exchange`, which writes it in chunks and waits on the inbox. bleak calls
`_on_notify` between the awaits of any task; it feeds the reassembler and puts each
complete frame into the inbox if an exchange is in flight, and gives it to the
event listeners otherwise. `unlock` and `lock` end with `KeepAlive.restart`, whose
task pokes the lock through the same command lock; `disconnect` stops it first.
`connect` and `disconnect` take no lock at all. The CLI runs one process per
command; processes meet in two files and in the cloud.

What is hard to test here, and what makes each part correct:

| part | hard behaviour | what has to hold |
|---|---|---|
| command path | replies that are late, undecodable, pushed or lost; timeouts and cancellations in the turn in which a frame arrives; cancelled waiters | each frame ends in one place; a reply goes to its own command unless one of three named things happened; the deadline is fixed; sessions do not interleave; everybody returns |
| BLE link | a task suspended in connect, disconnect or a write while others connect, disconnect, or the link drops | no client is left open but one whose release raised, one notify session, a frame is written on one connection |
| keep-alive | `restart` while `stop` is suspended; slow pokes | windows stay reachable, poke inside their time and close |
| reassembly | headers, lengths and terminators cut anywhere; false headers; a drop inside a frame | the result does not depend on the cuts; buffer bounded; frames late by a bounded amount |
| sessions | a command that gave up is performed later and answered later; the clock is read and set in two acquisitions | a return stands for what the lock did for that call; the clock's error is bounded |
| listings | lists at the cap, lists that grow, cursors that loop | whole lists, no gap, no repetition, an end |
| cloud, key store | processes killed inside a write, two at once, keys shared between two pages | one identifier, one validation, a readable and complete key store |
| CLI sessions | a session that fails, is refused or interrupted at any place; two processes and one link; a store that is rewritten meanwhile | what an exit status tells of the lock is true; a process that ends leaves the lock free; every process ends |
| payloads, frames | a message cut or extended at any byte, a layout told from a length, a record shorter or longer than its type | what is sent is what is read or is refused; nothing is made up; records do not run together |

## 2. Modules

| module | what it is |
|---|---|
| `CommandExchange` | the command path: tasks, command lock, `exchange`, `_on_notify`; environment: lock, radio, canceller |
| `SerialCommands` | abstract specification of the command path: calls are served one at a time, in order; `CommandExchange` implements it |
| `CommandExchangeProofs` | theorems about `CommandExchange`, the refinement of `SerialCommands`, where each frame ends and which exchange a reply goes to among them |
| `BleLink` | connect, disconnect, the writes and reads on the connection |
| `KeepAlive` | restart, stop and the windows |
| `Reassembly` | `feed` over a scaled frame layout, against a reference reading of the whole stream |
| `LinkProofs` | theorems about `BleLink`, `KeepAlive` and `Reassembly` |
| `Listings`, `ListingsProofs` | the four listings, over a lock that keeps to the protocol and one that does not; theorems |
| `Lists` | sequences with some of their members left out, for `Listings` and `CloudSync` |
| `ClientSessions`, `ClientSessionsProofs` | the other methods of the client as handshake and command, and the firmware's authorisation; theorems |
| `CloudSync`, `CloudSyncProofs` | `ttlock sync`, `verify` and the readers of the key store as processes, with their two files and the cloud; theorems |
| `CliSessions`, `CliSessionsProofs` | a process of the CLI or the script from the key store to the exit status, its session with the lock, Ctrl-C and other processes; theorems |
| `Encoding` | integers, dates, addresses, ASCII, and the status envelope of a reply |
| `LogRecords` | the page of the operation log, its records and the tails by record type |
| `CredentialLists` | cards, fingerprints, passcodes with their schedules |
| `LockReports` | the other replies, pushes, advertisements, feature words |
| `Requests` | the payload builders and what they refuse |
| `Frames` | `Frame.build`, `for_lock`, `parse` |
| `Layouts` | the reference: what the other side writes or reads, field by field, as the docstrings have it |
| `Payloads` | one message at a time, from what is meant over the wire to what is read |
| `PayloadsProofs` | the inductive invariant of `Payloads`, the round trip of `Frames`, and every kind of message but the log pages |
| `LogPageProofs` | the log pages: the loop over a page, the tail of each type, a record rewritten; the theorems about all messages |
| `MC*` | instances for TLC |

The modules are layered by assume and guarantee rather than instantiated into one
another, since their product is out of TLC's reach: each upper module assumes of
the command path what `CommandExchange` is checked for. `Listings` and
`ClientSessions` run one session at a time because `OneExchangeAtATime` and
`SessionsDoNotInterleave` hold; a command of theirs takes the first frame that
echoes it, late ones included, because `ReturnedFrameEchoesItsCommand` and no more
holds; their exchanges end, and a poke of `KeepAlive` ends, because of
`EveryCallReturns`. `CommandExchange` in turn takes whole frames, which is what
`FramesArriveWhole` and `LateByOneFrameAtMost` say of `Reassembly`, and lets any
write fail, which covers what the link of `BleLink` can do to it. `CliSessions`
takes a method of the client as its requests, each of which is answered or fails in
bounded time (`EveryCallReturns`), and the key store as `KeyStoreIsReadable` leaves
it: whole, missing, or empty while a sync writes. What `Listings` and
`ClientSessions` abstract to "accepts, refuses, fails" is what `Payloads` checks
byte by byte.

### How state and actions correspond to the code

The event loop runs one coroutine at a time and switches at awaits, so an action of
`CommandExchange`, `BleLink`, `KeepAlive` is the code a task runs between two
awaits. `ClientSessions` and `Listings` take a coarser step, a round trip or the
part of it up to the reply, because `CommandExchange` has checked what happens
inside one. `CloudSync` interleaves processes at file system calls and requests.

**CommandExchange.** `commandLock` is the `asyncio.Lock`: holder, then waiters,
oldest first. asyncio's lock is FIFO, a cancelled waiter is taken out, and one
cancelled just as it is woken wakes the next, which is what `Leave` does with
`Without`. An uncontended acquire does not suspend; that `Call` and `BeginExchange`
are two actions adds interleavings in which nothing of the client's state can be
told apart. `waiting` is `_waiting_for_response`, `inbox` is `_inbox`; `left` is the
time to `deadline`. `Transmit` is the moment the last chunk is out, `SendReturns` the
moment the `await` returns, since the reply can be notified between the two. The end of one exchange and the start of the next of the same
method have no await between them, hence one action (`ReceiveReply`). `TimesOut` and
`Cancel` may leave a frame in `inbox`: `wait_for` may expire in the turn in which
`_on_notify` queued it. A frame that is not the reply and is taken with no time left
raises at `remaining <= 0` (`ReceivePush`). One event listener is assumed
registered. Frames carry only what decides something: the echoed opcode, whether
they decode and whether the parser takes them; `kind` and `nr` identify them for
the properties and are read by no action.

**BleLink.** `client` is `_client`, `chars` the client `_write_char` and
`_notify_char` were read from, `cl` the object a task's await is on. `state` is the
backend's view of every client ever established, so that forgotten ones stay
visible; "released" means that `client.disconnect()` did its work. It may also raise
(`ReleaseRaises`), and then has done it, or has only ended the notify session, or
nothing; the `finally` of `_release_client` clears `_client` in each case. `raised` is
the history of the clients this happened to, read by no action. A cancelled `establish_connection` is assumed to clean up after itself (it
is external). Scanning and the choice of the GATT service are single outcomes.

**KeepAlive.** `task` is `_task`; a window is an asyncio task that runs `run()`. `age`
and `nap` count from the window's first step; `age` saturates where no guard tells
values apart. Cancelling the caller of `stop` only cancels the awaited window again
and is swallowed by `contextlib.suppress`, so it is not an action of its own.

**Reassembly.** `Feed` is one call of `feed`, with its loop (`Scan`) as a recursive
function. Bytes are scaled to `0..4` and the frame to 8-12 bytes; the header
fields between protocol type and length are opaque to the code and left out. A
notification carries bytes of one write of the lock. The CRC is never checked by
the code, so it is an arbitrary byte. Noise stands for bytes of other provenance.

**Listings.** `cursor`, `entries`, `seen`, `attempt` are the locals of the four methods;
one action is one command and what the method does with the reply. The handshake in
front of a listing is one more exchange that can fail. `proper` chooses a lock that
keeps to the protocol and gains entries at the end, or one that answers anything;
`late` are replies to commands that gave up. Only those of the same opcode matter. A
proper lock keeps below the sequence number 65535, which the code uses as a sentinel.

**ClientSessions.** `holder` is the command lock, given to any queued caller, which
includes the FIFO order. `calls[c].todo` are the commands the method has still to get
answered (`Program`), `ref` the time its caller read when it made the call. `wire`
and `air` are requests and replies on the way, in order, the inbox included. A drop
loses what has not reached the inbox: `LinkDrops` keeps any prefix of `air`. The
lock (`Authorised`, `Performed`) is external: it is what the comments of
`commands/session.py`, `commands/control.py` and `_admin_handshake` say of it: it
performs UNLOCK or LOCK on the sum over the last token it gave to CHECK_USER_TIME, and
admin commands once CHECK_RANDOM was passed on this link; it may refuse, lose or
damage anything. A setting is stored as the number of the session that wrote it, so that
two calls with the same value can be told apart. Tokens are distinct within `TOKENS`;
that the four-byte sum wraps is kept.

**CloudSync.** `idFile` and `keyFile` are the two files: absent, empty, whole, or broken.
`Path.write_text` opens (and so empties) the file, then writes: two actions. Two
identifiers have the same length, so the last writer wins; two key lists may have
different lengths, so overlapping writes may leave a file that does not parse. A
reply to a login is whatever the cloud likes, except that it asks for validation
exactly when it does not know the identifier.

**CliSessions.** `run[p]` is what the process was started with; `pc` its place in
`_load_keys`, `_resolve_key`, the prompt, `async with TTLockClient`, and the exit;
`key` what `_resolve_key` returned. `done` counts the requests of the method the
lock has carried out, which it may do although the process never hears of it.
`Commands` has, for each command, where its argument is checked (by the command
before the session or by the method in it), whether it asks the user, and the requests
in order. The lock may refuse any request. Most refusals raise; one of QUERY_STATE, or of
a page of the operation log, is parsed as a reply that tells nothing (`Lenient`,
`RefusalTaken`), and so is a reply to QUERY_STATE that is too short: the method goes on,
and `blank` remembers the processes this happened to. `link` is the connection a lock holds, one at a time; `LinkDrops` ends one
without the process noticing before its next request. `Interrupt` is Ctrl-C: in the
body of the session it runs `__aexit__`, in `connect` it does not. `__aexit__` may raise as well
(`DisconnectRaises`), with the link ended or still up; the process then ends as
`unclosed`. A `BadParameter` and a `sys.exit` with a message are the outcome `usage`;
any other exception of the session is `error`.

**Payloads and the modules it uses.** A run is one message: `Init` chooses what is
`meant` and writes it whole with the encoder of `Layouts`, and `Receive` gives the
bytes to the parser of the code. In between the message may be cut at any byte
(`EndsEarly`), extended (`GoesOn`), refused by the lock (`Refuses`), or have one record
of a log page written shorter or longer than its type (`RecordEndsEarly`,
`RecordGoesOn`). A `Request` goes the other way: the code's own `payload_*` writes it
and the reader of `Layouts` reads it. `Layouts` is written from the docstrings, with offsets counted from the
fields in front, and the parsers from the code, so that `ReadAsSent` compares two
descriptions. One docstring is wrong about its own method: which passcode carries an end
date. There `Layouts` follows the caller (`TTLockClient.add_passcode`), and the run
`passcode_windows` reports the docstring. `Returns` and `Raises` carry the exception: what the parser raises,
and what the method of the client makes of it (`Caught`, `Reported`). A decoded field
is its bytes or its number: the decimal text, hexadecimal text or `datetime` made of
it is left out, except that a date that is none is refused. Numbers of four bytes and
more, and the sum of token and unlock key modulo 2**32 (`WrappedSum`), are kept as
byte sequences, beyond TLC's integers.

## 3. Runs

TLC explores every state within the bounds. Deadlock is not checked where the
bounds on calls, windows or runs let a model stop when they are used up; `BleLink`
has no such bound on its calls and is checked for deadlock.

| run | states | what it shows |
|---|---|---|
| `command_exchange` | 233 919 | Two tasks, two calls (`unlock`: two commands; the poke: one), one push that echoes QUERY_STATE or another opcode, replies that are late, lost, refused or undecodable, writes that fail, timeouts and cancellations anywhere, a lock that may never answer. `OneExchangeAtATime`; `EachFrameInOnePlace`; `ReturnedFrameEchoesItsCommand`; `UndisturbedExchangeGetsItsReply`, which names the only three ways to a wrong reply; `DeadlineNeverExtended`; `SessionsDoNotInterleave`; under fairness `EveryCallReturns` and `ServesEveryCall`, the refinement of `SerialCommands`, liveness included. |
| `link_lifecycle` | 116 113 | One task connects and disconnects, cancelled anywhere but inside a disconnect; another writes frames of two chunks and reads; three clients, the link drops at any time, and a release may raise with the client open, half closed or closed: `OnlyTheClientInUseIsOpen`, `OneNotifySession`, `FrameStaysOnItsLink` (each but for clients whose release raised, and TLC finds each violated without that exception), `EstablishedMeansSubscribed`. |
| `keep_alive` | 206 208 | Two callers race `restart` and `stop` over three windows of 3 ticks, poked every 2: `OnlyOverlapsAreOrphaned`, `PokesStayInTheWindow`, `EveryWindowCloses` (which has every `stop` end, too). |
| `reassembly` | 1 092 644 | Two frames, one string of noise, one drop, in chunks of 1, 3 and 7 bytes, with payloads and CRCs that look like headers, halves of headers and trailers: `ChunksDoNotMatter` compares `feed` with one reading of the whole stream; `BufferIsBounded`, `FramesArriveWhole`, `LateByOneFrameAtMost`. |
| `listings` | 385 624 | Two listings of any kind, cap 2, at most 3 entries: `ListsAreWhole`, `RaisesOnlyAtTheCap`, `LogIsGapless` on a proper lock, `NoRecordTwice` and `ListingsEnd` on any. |
| `client_sessions` | 5 019 016 | Two callers, three calls of `unlock`, `set_lock_sound` and `sync_time`, two exchanges that give up, one drop, a clock that is 2 ticks off with threshold 1: `HandshakeShieldsTheReply`, `ReturnMeansStored`, `SyncBoundsTheError`. |
| `cloud_sync` | 598 788 | Two processes, three commands, one kill, one change of a list of up to three keys (one malformed), pages of one: `OneInstallId`, `ValidatedOnce`, `KeyStoreIsReadable`, `SyncIsComplete`, `CommandsEnd`. |
| `cli_session` | 900 116 | One process runs any command with any arguments and target, valid or not, the other `clear-passcodes -y` on the same lock; three key stores (empty; a lock without admin password; an alias that is another lock's id), one sync of a third process, one Ctrl-C anywhere, refusals and short replies taken for replies, a disconnect that raises: `ExitsTellTheTruth`, `NoLinkIsLeftBehind`, `ProcessesEnd`. |
| `payloads` | 78 396 | Every kind of message once, in every form: `ReadAsSent`, `NothingIsMadeUp`, `RecordsDoNotRunTogether`. 1 137 initial states, three steps each at most. |

Three runs show where the code does not do what its documentation says
(`findings` in `PROJECT.json` quotes the lines):

| run | what TLC finds |
|---|---|
| `connect_starts_notify` | After a connect that failed in `start_notify` (or found no characteristics), `connect` returns at once on the half-open link. |
| `operation_log_errors` | A page of the operation log whose last record is shorter than its header makes `parse_operate_log_response` raise `IndexError`. `get_operation_log` catches `ValueError` only, so a caller that expects `TTLockError` gets the `IndexError`. |
| `passcode_windows` | A permanent passcode is sent without its end date; the docstring of `payload_passcode_add` says that it carries both dates and that the others leave the end out. |

### Why the bounds are enough

- Two tasks give every race for the command lock and the inbox; one of them runs
  two commands so that something can fall between them; two calls and one push
  let a late reply and a push meet in one inbox. The proofs remove these bounds for
  the properties of section 4.
- A timeout of one tick separates "before", "at" and "after" the deadline.
- Two chunks have one boundary, where a write can move to another connection;
  three clients allow two reconnects.
- Three windows are the least for an orphan: one being stopped, one scheduled
  meanwhile, one that forgets it. Window 3 and interval 2 do not divide.
- Bytes below 5 and frames of 8 to 12 bytes keep the shape of the layout (header,
  type, length, payload, CRC, trailer) and let every field be mistaken for another.
  Chunks of 1, 3 and 7 bytes cut every frame at every place.
- A cap of 2 has lists one below, at and above it (entries 0 to 3). The numbers in a
  page of an arbitrary lock are 0 to 4, with repetition and loops.
- Three calls, two of which give up, put replies of two earlier calls in front of a
  third. Skew 2, threshold 1 and 2 ticks have drifts below, at and above the
  threshold. Four tokens wrap the sum.
- Three runs of two processes are a sync that is turned away, a verify and a second
  sync, or two at once and a third that reads what they left.
- One Ctrl-C, one sync and two processes: each can fall at any place of the other
  process. The proofs remove these bounds.
- The values in `MCPayloads` sit on the edges of the layouts: a leap day and a day that
  does not exist, a zero, bytes that look like a length, a header or a whole record,
  passcodes of 3, 4, 9 and 10 digits, a record type for each tail decoder and one
  without, both frame layouts. Pages have up to two records, so that a record
  can shift the one behind it.

### Fairness

- `CommandExchange`: weak fairness of each task's own step. The event loop resumes a
  task whose await is done, a GATT write ends (bleak returns or raises), and the
  clock runs. Nothing is assumed of the lock, the radio, callers or cancellers.
- `KeepAlive`: the windows and a suspended `stop` are resumed, the clock runs, and a
  poke ends, which is `EveryCallReturns` of the command path.
- `Listings`: the round trip in progress ends, for the same reason.
- `CloudSync`: a process runs, and a request ends, since every httpx request has a
  timeout. Processes need not be started, and may be killed.
- `CliSessions`: each process takes its own steps: a scan and a request have their
  deadlines, and the user answers the prompt. Nothing is assumed of the lock, the
  link, the sync and Ctrl-C.

Time passes in `KeepAlive` only when no window can be resumed, since an event loop
runs ready callbacks before it waits; elsewhere time is not so restricted.

## 4. Proofs

TLAPS proves these for every value of the constants, under the named assumptions of
each module (`ProgramsAssumption`, `BoundsAssumption`, `LinkAssumption`,
`KeepAliveAssumption`, `LayoutAssumption` and so on: bounds and bytes are numbers,
programs are non-empty sequences of commands, owners are not commanders, there is a
method to call). TLC evaluates these on every run. Every safety property of
a run is stated by a theorem. The liveness properties are only model-checked.

The inductive invariants are conjunctions of named parts. TLC finds them to hold on
the instances of the runs, except `ReadInv` (below), which ranges over all streams.

**Induction over data.** What a recursive function computes is proved from a lemma
that needs no operator as a parameter: a set of numbers that has 0 and the successor of
each of its members is `Nat` (`SetInduction`, from the fact that `<` is well-founded).
`Recursion` derives from it that a function defined by recursion exists, whenever
each call is of a smaller rank than its caller. Everything said below of loops, lists
and pages of any length rests on these two.

**`CommandExchangeProofs`.** `TypeCorrect`, `ExchangesAreSerial`,
`SessionsAreNotInterleaved`, `DeadlineIsFixed`, `RepliesEchoTheirCommand`,
`CallsAreServedInOrder`. Exclusion
is not inductive as it stands: that a task inside `exchange` is the head of the lock's
queue says nothing of who becomes the head when a waiter is cancelled. `IInv` adds
that the queue holds every active task exactly once (`LockInv`), so that `Leave`
takes out one place and moves no other task past the head; that the counter is 1 or
0 as someone is inside or not (`WaitingInv`); and that an active task has a command
left (`WorkInv`). `WithoutIsRemoval` and `WithoutKeepsTheRest` are the facts about
the queue. `SessionsInv` adds the numbering of calls: what a task inside has written
is at the end of `sent`. `RepliesInv` adds that a waiting task's request is its own
latest, that each frame in the inbox echoes a request already written, and the
same of what was returned. `CallsAreServedInOrder` is the refinement but for
fairness, `Spec => Serial!Spec`: `SerialAsk`, `SerialPut` and `SerialDepart` map a call,
the last chunk of a frame and every way of leaving to their abstract steps, and the
rest to stutters.

`CommandExchangeProofs` also has `FramesAreInOnePlace` and `RepliesFindTheirExchange`. `PlacesInv`
is the strengthening: no two frames that arrive are the same (`Numbered`, since a
request that was answered is in flight no more), no frame is in two places (`Apart`),
and what arrived is what the places hold (`Complete`). Counting then needs a bijection
between places and frames. For the replies: an exchange that takes an earlier
request's reply finds, by `Apart`, that the earlier exchange has not got it, so that
one was itself disturbed or gave up, and what disturbed it came before this one too.

**`LinkProofs`, the link.** `LinkTypeCorrect` for any owners and commanders; `ClientsAreReleased`,
`NotifySessionIsUnique`, `FramesAreNotSplit`, `ConnectSubscribes` for one owner that is not cancelled
inside a disconnect, any number of commanders, clients and chunks. `OneClient` is the
strengthening: `_client` is open if it is set, every other client is released unless its
`client.disconnect()` raised, only open clients notify, and an owner
in a disconnect or in `start_notify` works on `_client` itself, while one that scans
or establishes has none. `Progress` adds how far a connect has come: from
`start_notify` on the characteristics are those of `_client`, and behind it that client
notifies. With two owners, or a cancelled disconnect, the properties
fail.

**`LinkProofs`, keep-alive.** `KeepAliveTypeCorrect`, `PokesAreInTime` (from `WakesInTime`: the age at
which a sleeping window will wake is bounded), `WindowsAreReachable` (from
`StopAwaitsTask`: what a caller in `stop` awaits is the window `_task` holds, and
cancelled, unless `_task` was cleared or given a new window meanwhile).

**`ClientSessionsProofs`.** `TypeCorrect`, `RepliesAreShielded`, `ReturnsAreStored`,
`ErrorIsBounded`, for any number of callers, calls, timeouts and drops. Whether
the reply a call takes is its own depends on everything that earlier calls left on the
way, so `IInv` follows a request from the call to the lock and back:

- `CallInv`: who holds the lock, and what each call has still to get answered, which
  is an end of its program (`Todo`).
- `OrderInv`: the replies and behind them the requests on the way are in the order in
  which the requests were sent, by session and within a session by what was left of it.
- `CurrentInv`: what is on the way of the session that runs is what it waits for or, in
  the second command of a handshake, the first (`Fits`). Once the session is admitted
  there is nothing else on the way (`Alone`): the reply to the handshake came behind
  everything older. That is how a handshake shields the commands behind it.
- `TokenInv`: the second command of a handshake may still be answered by a stale reply,
  so it is the tokens that count. A token on its way to the client is not
  younger than the one the lock holds, and a sum sent over an older one cannot pass.
  `ShieldInv` draws from it that a session waiting for what its token authorises gets
  a reply that says "ok" only to itself.
- `CountInv`: at most one token per call, so that none is issued twice while fewer
  calls are made than there are tokens. `SumInjective` is the arithmetic, that the sums
  of two tokens differ although they wrap.
- `EffectInv`: what the awaited reply says of the lock: the setting is stored by this
  session, the clock was read or set between the call and now.

**`ListingsProofs`.** `TypeCorrect`, `OnlyTheCapRaises`, `NoRecordIsTwice`, `LogHasNoGap`,
`ListsComplete`, for every cap, list and number of listings. `CapInv` adds what
the code counts on: while nothing went wrong no reply is late, the cursor is the number
of commands asked, and has not passed the end of the list. `SeenInv` is about any
lock: no record is twice in the entries or in one late reply, and the entries of a
running listing are all in `seen`. `GapInv` is about the log of a proper lock: the
entries follow one another from the first, and the cursor is at the next (`AtTheNext`).
`WholeInv` says of the other listings that the entries are the list up to the cursor.
What the entries of a page are without those in `seen`, and the passcodes without
those of an unknown type, is a recursive function (`Lists!Without`), so that is by induction on
the length of the page.

**`CloudSyncProofs`.** `TypeCorrect`, `InstallIdIsOne`, `ValidationLasts`,
`KeyStoreStaysReadable`, `SyncsAreComplete`, for any number of processes and commands, kills and changes.
`IdInv` says of an identifier file that was not spoilt who is at it: one process
makes it and nobody reads meanwhile (`OneMaker`), the file is absent or empty as that
process has left it (`FileIsBeingMade`), and all identifiers, those the cloud
knows included, are the one in the file (`OneId`). `StoreInv` says the same of the
key store with `OneWriter` and `StoreIsBeingMade`. `ListInv` follows one listing of
the keys: unless the cloud changed or cut the list meanwhile (`cut`), what a process has
read is what parses of the pages before the one it asks for (`ReadSoFar`). `PageRead` is the step: the
list is divided at a page (`Divided`, `PageIs`), and leaving out the malformed keys
can be done page by page (`WithoutParts`, by induction).

**`CliSessionsProofs`.** `TypeCorrect`, `ExitsAreTrue`, `LinksAreReleased`, for any
processes, arguments, stores, syncs and interrupts. `Honest` is one conjunct per
process about its own state and link: nothing was sent and no link is held before the
session, a process in or behind it has a key that matches its target, `ok` was decided
only with every request carried out or by a command of `Lenient` that was told
nothing, and an ended process holds a link only from a failed connect, or from a
disconnect that raised or was interrupted.

**`LinkProofs`, reassembly.** `ReassemblyInductive`, `ChunksAreImmaterial`,
`BufferStaysShort`, `FramesComeWhole`, `FramesAreLateByOne`, for every layout, payload,
noise, drop and size of chunks. `Reading(s)` is the stream `s` read at once, a function of
the place where one starts; the loop of `feed` is a recursive function over
places too (`Scanner`, one turn is `ScanStep`). `ScanIsRead` relates them: for *every*
continuation `t` of the stream, what `feed` found from a place on, followed by the reading
of `t` from the place where it stopped, is the reading of `t` from the first place. It
needs all continuations, because whether a header with an incomplete frame behind it
counts is decided by bytes that have not come yet. `ReadInv` says this of all chunks so
far and is inductive; it ranges over all sequences, so TLC cannot evaluate it, but checks
its consequence `ChunksDoNotMatter`. `BufferInv` has the buffer as the end of the
stream, shorter than the longest frame, with no frame complete in it. `SaidInv` has each
frame of the lock whole at its place in what has arrived and what is on its way, and
`TileInv` has these frames adjoin from the first byte on without noise and drops. From a place
where a frame of the lock begins the reading finds the frames of the lock and no other
(`ReadFromBoundary`). In any other stream it has found, once the longest frame would have
come in from the first byte of a frame of the lock on, that frame or one that covers
its first byte (`LateRead`).

**`PayloadsProofs`, `Frame.build` and `Frame.parse`.** `FramesAreReadAsBuilt`: for every
command, payload of up to 255 bytes, version and CRC, `Parse` of `Build` returns what the
frame carries, in both layouts. That is everything in a V3 frame (`Carried`); before
protocol type 5 a frame has no place for the version's other fields, and they read as zero.

**`PayloadsProofs` and `LogPageProofs`, the messages.** `MessagesInductive`,
`MessagesAreReadAsSent`, `ReadersMakeNothingUp`, `RecordsStayApart`. They hold for all
battery levels, identifiers, passcodes, days, stamps, lock versions, record types and
suffixes that `LayoutsAssumption` and `PayloadsAssumption` admit, wherever a message is cut; the
protocols, feature bits and addresses that `Layouts` writes out are the ones of the run.
Three of the assumptions deserve a word.
`Codes` are what `_check_passcode` lets through. A day is not one of the two sentinels,
which stand for no day (`commands/fingerprint.py:25`): a lock that sent one as a date could
not be told from one that sent none. A suffix has at most 100 bytes, because the length of
a record of the log is one byte and the suffix has to fit in it.

- `IInv` is small, since a message makes at most three steps: the wire is the message as
  the form says it was treated (`WireInv`: whole, cut at some byte, with a suffix, refused,
  a page with one record rewritten), and the outcome is what the reader of this kind makes
  of exactly that wire (`OutcomeInv`). All the work is in `IInv => Kept`, where `Kept` is the
  three properties.
- Three predicates carry a field from the writer to the reader. `FieldAt(field, data, p, q)`:
  the bytes of `data` from `p` to `q` are the field. `Agrees(raw, whole)`: what came and what
  was written are the same as far as both go, which is all that a cut and a suffix leave.
  `Came(how, raw, whole)`: that, with the length the form implies. `FieldRead` puts them
  together: a slice that lies within what came is the field that was written there, so that a
  reader's length guard is what is left to look at.
- Each reader is restated as one conditional (`TokenIs`, `CardIs`, `PasscodeIs` and so on),
  each layout as the places of its fields (`CardDataIs`, `PasscodeDataIs`, `AdvertisedIs`),
  and one lemma per kind (`CardKept`, `FrameKept`, `UnlockKept`, ...) runs the one on the
  other. For a card that is a case split on the length (18 and 22 bytes read as the short
  and the long layout, nothing else returns); for a passcode on where the cut is; for the
  unlock sum, that the borrows of the lock's subtraction are the carries of the client's
  addition (`SumBack`); for the features, that a byte is its eight bits (`ByteBit`).
- The page of the log is the hard one, for a record has no layout of its own: the loop finds
  the records (`Splits`, `TwoFound`), a header says what the tail is (`HeaderCame`), and each of
  the fourteen groups of types has its decoder. `TailKept` is what holds of a tail in every
  form: a field is as it was, or missing when the tail was cut, or new when the tail went on, but for
  those of `Stretches`. `AppTailKept`, `FobTailKept` and so on prove it decoder by decoder, `EntryCame` lifts it to a
  record, `PageIsRead` to a page that was cut or extended, and `FirstChanged` and
  `SecondChanged` to a page one of whose records was rewritten: the other is found at its
  new place and read the same.

**`LogPageProofs`, pages of any length.** The run and the theorems above have pages of two
records. `LogPageIsItsRecords`: a page of any number of records, each with a length byte
in front and at least as long as its header, is read as one entry per record, made of the
bytes of that record only, and numbered down from the sequence number of the page. `Splits`
is the loop over the page and `PlacesFound` the induction, from the last record back;
`SliceOfRecord` says that the slices an entry is made of lie in the record.

**Only model-checked.**

- Everything under fairness (`EveryCallReturns`, `EveryWindowCloses`, `ListingsEnd`,
  `CommandsEnd`, `ProcessesEnd`, and the liveness of `ServesEveryCall`, whose steps
  are proved by `CallsAreServedInOrder`), since the proof system does not handle
  `ENABLED`.
- The three findings, which are counterexamples.

## 5. Not modelled

- `crypto.py`: arithmetic on bytes without state, over a table of 256 entries. The
  models use that a payload decrypts or does not, and an opaque CRC.
- The tables of `constants/` and `commands/opcodes.py`; the feature bits and record types
  the decoders use are in `LockReports` and `LogRecords`.
- The formatting of decoded fields, request signing, option parsing and printing.
- The list of event listeners: `add_event_listener` and `_dispatch_event` are a loop
  over a copy without an await, each call guarded.
- Reads of GATT characteristics by `get_device_info`: each failed read is a field that is
  missing.
- What the firmware does beyond the comments of the code; the models let it do more.
- A `TTLockCloud` shared by tasks of a library caller.

## 6. Observations

Met while modelling; the properties name them as exceptions or leave them out, and
no run is about them.

- A late reply that comes while no exchange is in flight is dispatched to the event
  listeners as a push. A frame notified after the reply, before `exchange` has
  resumed, stays in the inbox until the next exchange.
- A disconnect cancelled inside `client.disconnect()` clears `_client` without the
  client being released, and a second disconnect then does nothing
  (`ble/transport.py:138`).
- Disconnects of another task: `AssertionError` between the settle delay and the
  battery read (`ble/transport.py:254`), `AttributeError` between two chunks of a
  frame. `start_notify` and `client.disconnect()` let bleak's exceptions through.
- The reassembler is not reset by a reconnect, so the head of a frame cut short by a
  drop holds back the next frame, or swallows it (`ble/transport.py:79`).
  `LateByOneFrameAtMost` bounds it.
- A refused page of the operation log is an empty page, and `get_operation_log` returns
  what it has (`commands/operate_log.py:39`), where the other listings raise; the script
  that dumps the log exits 0. A refused QUERY_STATE reads as no state and no battery
  level (`commands/control.py:52`): `ttlock state` prints UNKNOWN and exits 0, `ttlock battery`
  exits 1 (`CliSessions!ExitsTellTheTruth` names both).
- A `client.disconnect()` that raises leaves a client that may be open and that nobody
  will release, since `_client` is cleared (`ble/transport.py:136`); the next `connect`
  establishes another.
- `get_cards` and `get_fingerprints` do not look at the position a reply echoes, so a
  late reply of an earlier listing counts as the next entry.
- A `uniqueid` file that is empty, because its writer was killed or is not done, is
  read as an identifier and sent (`_cloud_helpers.py:43`); nothing ever replaces it.
- A reply of `/check/syncDataPage` without a list ends `list_keys` as if the list were
  complete, and `sync` overwrites the key store with it (`cloud.py:243`).
- `verify` suppresses a failed `discover_site` and may validate on the default site.
- `exchange` returns a push that echoes the opcode it waits for (0x14, `QUERY_STATE`)
  as the reply (`ble/transport.py:141`).
- A `restart` while `stop` is suspended is forgotten when `stop` clears `_task`, and the next
  `restart` leaves that window running (`ble/keep_alive.py:57`, `:74`).
- `sync_time` sets the clock to the reference its caller took before the reading, also
  when the reading was slow and the clock right (`client.py:269`).
- The new password of a changed passcode is what the record has left, also when it is
  shorter than its length byte says, where the old one is then missing
  (`commands/log_record.py:17`). `Stretches` excepts it.
- A card or fingerprint with an impossible date reads as one without, which
  `is_permanent` and the CLI show as permanent; a passcode with one fails the whole
  listing.
- `set_auto_lock_time`, `add_passcode` and `delete_passcode` refuse an argument with a bare
  `ValueError`, raised with the link up; the CLI exits with a traceback.
- The first key that matches wins, by any of its three names: an alias that is
  another lock's id hides that lock (`cli.py:66-70`).
- A Ctrl-C or failure in `connect`, or a disconnect that raises, leaves the link to the process's end; an exit status of
  failure tells nothing about the lock (`CliSessions!NoLinkIsLeftBehind`,
  `ExitsTellTheTruth`).

## 7. Plan

Done: command path, link, keep-alive, reassembly, listings, sessions, cloud, CLI
sessions, frames and payloads, in this order, with the proofs of section 4.

Left, proofs:

1. `RecordsDoNotRunTogether` for pages of any length, from `LogPageIsItsRecords` and
   `ChangedRecord`.
2. The readers for arbitrary bytes, not only for those that came of a message: which
   exceptions each can raise.

Left, modelling:

1. A library caller that shares a `TTLockCloud` between tasks (`creds`, `base_url`).
2. Event listeners that add and remove listeners, or call the client, while one is
   dispatched.
3. The session of the CLI composed with the link and the keep-alive.
