# Verification of ftpserver-gui

TLA+ models of the FTP server in this repository, model-checked with TLC, and
theorems about them proved with TLAPS. Paths and line numbers are relative to
`src/`.

## Inventory

| Component | State | Operations | Hard behaviour | Correct when |
|---|---|---|---|---|
| Driver lifecycle, `server/server.go` 24-184 | `nbClients`, `acceptedClients`, `nbClientsSync`, `zeroClientEvent` | `ClientConnected`, `ClientDisconnected`, `Stop`, `considerEnd`, `WaitGracefully` | one goroutine per connection, a send under a mutex, a field written without it | sessions are counted, admission follows the limit, the end is announced when and only when nobody is served |
| Daemon, `main.go` | main goroutine, signal handler, its channel of capacity 1 | boot, listen, serve, wait; reload and stop on signals | signals at any moment, dropped signals, the order of the stop | a SIGTERM ends the process, after its clients |
| Login, `server/server.go` 186-257, `server/access_webhook.go`, `config/config.go` 198-344 | the loaded content, the cache of shared file systems | `AuthUser`, `GetAccess`, `getAccessFromWebhook`, `loadFs` | concurrent logins, shared mutable entries, reloads between two reads, a slow backend under a mutex, answers about another user | each session gets the file system of its own access |
| Settings and TLS callbacks, `server/server.go` 67-102, 277-316 | the first TLS configuration or error, kept for ever | `GetSettings`, `GetTLSConfig`, `loadTLSConfig` | concurrent first calls, two files renewed one after the other | everybody gets the same configuration, and a certificate with its own key |
| Configuration file, `config/config.go`, `config/config_local.go` | the file, `Content` | `Load`, `HashPlaintextPasswords`, `Prepare` | an editor of the file, a crash while it is written, readers of a content that is being hashed | no edit and no login is lost |
| File system stack, `fs/fs.go`, `fs/fslog`, `fs/afos` | wrappers around a backend, counts of bytes | every call of afero.Fs | which wrapper stops which call, which passes an error on | read_only blocks writes, the log tells what happened and changes nothing |
| Telegram backend, `fs/telegram` | buffered content, spooled parts, a table of files | `Write`, `Close`, `Read`, `Open`, `Mkdir`... | splitting, failed spooling, retries after a timeout, read-back | what was written is what is sent, in parts within the limit |
| Mail backend, `fs/mail` | buffered content | `OpenFile`, `Write`, `Close`, `Read` | every close sends, uploads of one name, mail servers that fail or lose their answer | one mail per upload, whole, before it is acknowledged |
| Prefix stripping, `fs/stripprefix` | none | path mapping | none; no part of the program uses it | |
| SFTP backend, `fs/sftp` | none | host key selection, a dial | none of its own | |
| s3, gcs, gdrive, dropbox | none | parameters handed to libraries | none of its own | |
| Keycloak backend, `fs/keycloak` | the access entry it is given | login, directory of the user | the entry is shared and written to | the user who logged in gets the directory |
| Windows GUI, `cmd/ftpserver-gui` | `running`, `driver`, `server`, `mu`, the list of users, the form, the file | start, stop, exit, users, save, delete | nested message loops under a mutex that is not reentrant, goroutines of servers that were replaced, an index kept across a box | the window has the server that runs, the file lets in whom the list does |
| Password generator, registry entry, build files | none | | none | |

How they interact. `main.go` (or the GUI) makes a `Config`, a driver on it and
an `FtpServer` of the external library ftpserverlib on the driver. The library
runs one goroutine per connection, which calls the driver back:
`ClientConnected`, `AuthUser`, then file operations on the `afero.Fs` that
`AuthUser` returned, and `ClientDisconnected` at the end, for rejected
connections too. The signal handler reloads the configuration under the feet of
all of these, and stops driver and listener. The GUI has no signals: its buttons
and its tray icon start and stop one server after the other, on one UI thread, and
each start saves the form to a file and loads the file again with `Config`.
A transfer goes through all of it: TLS for its data connection, the log, the
read-only wrapper, the file of the backend, whose `Close` does the sending.

## Modules

| Module | Models |
|---|---|
| `GracefulStop` | the promise of the driver: sessions join and leave, the end is announced only when none is open, the waiter learns of it only then |
| `FsRegistry` | the promise of the logins: a session is served what is kept for a user, or a file system of its own, which is kept if it is shared; nothing that is kept is replaced |
| `Server` | the driver lifecycle, with the connections and the listener as the library runs them (external) |
| `Daemon` | the process: `Server` extended by the main goroutine and the signal handler |
| `Access` | the login of a session: configuration, webhook, cache, keycloak |
| `Config` | the configuration file: loading, hashing of its passwords, logins meanwhile |
| `Telegram` | the telegram backend: buffer, spool, retries, chat, table |
| `Gui` | the Windows program: UI thread, boxes, tray, mutex, several servers in turn, their goroutines and connections |
| `GuiConfig` | its users and its file: extends `Config` (whose loading a start runs) by the list, the save and the start |
| `Accounts` | the promise of the window: window, file and server have the accounts of one another, without entries, hashes and the steps of saves and starts |
| `Tls` | `GetTLSConfig` and `loadTLSConfig` while certificates are renewed |
| `Transfer` | transfers to the mail backend: extends `Tls` by the data connection, the log, the read-only wrapper and the mail's file |
| `ServerProofs` (and `Daemon`), `AccessProofs`, `ConfigProofs`, `GuiConfigProofs`, `TelegramProofs`, `TelegramWholeProofs`, `GuiProofs`, `TransferProofs` | the theorems about these modules |
| `MCServer`, `MCDaemon`, `MCAccess`, `MCConfig`, `MCTelegram`, `MCGui`, `MCGuiConfig`, `MCTransfer` | their instances for TLC |

### Server

A critical section of `nbClientsSync` is one step, except when `considerEnd`
sends: the send and the close are then steps of their own, with `holder` naming
who has the mutex and `ending` what is left to do. `zeroClientEvent` says
whether the field is nil; the channel that `Stop` made is `buffer` ("empty",
"full", "taken" once received) and `closed`. Keeping the field and the channel
apart matters, because `WaitGracefully` clears the field without the mutex while
`considerEnd` reads it up to three times (the test, the send, the close). That
is a data race; `ConsiderEndSend` therefore allows the second read both to
repeat the first and to find nil (a send that never returns), and
`ConsiderEndClose` panics on nil. A panic in a callback is recovered by nobody
and sets `crashed`, after which nothing happens. `nbClients` is unsigned with
`UintMod` values, and the limit is converted to that width, as in the code.

`conn[c]` follows the goroutine of a connection: it arrives, is admitted
(`serving`) or `rejected`, and in both cases ends in `ClientDisconnected`.
`Stop` and `WaitGracefully` are taken at most once: both programs call them
once per driver. `Arrive`, `Leave`, `Listen`, `CloseListener` are ftpserverlib's
part, modelled as this code uses it.

### Daemon

`main` is the main goroutine, `handler` the goroutine of `signalHandler` from its
start, through the two calls of `signal.Notify`, to the end of its loop;
`pending` is its channel. A signal whose kind is not yet notified takes the
default action and kills the process; one that finds the channel full is lost.
The stop is two steps, `driver.Stop()` and `ftpServer.Stop()`; the second fails
if there is no listener. Every action of `Server` that the process performs
appears here under the program counter that performs it.

### Access

`heap` holds the contents loaded so far, because entries handed out by
`GetAccess` are pointers that outlive a reload. A session's `at` follows
`AuthUser`; a step is one read or write that another session or a reload can come
between: the test for a webhook, its settings, the answer, the loop of
`GetAccess`, the two stores into a keycloak entry, the lookup, the load, the
store. The holder of the cache's mutex is in `cacheLock`. A password is
what it matches, whatever its hash. What is left out: the two arguments of the
keycloak login are read in one step, logging is not modelled, and the rewriting of
plain passwords into hashes, which a login can meet, is the subject of `Config`.
The webhook is external: it fails, or answers with any access, of the user it was
asked for, of another or of none. The code compares the answer with nothing
(`access_webhook.go:43-47`), and looks its file system up, and keeps it, under the
name that the answer gives.

### Config

Both build variants are modelled, chosen at `Init`: "full" (`config/config.go`) and
"local" (`config/config_local.go`, build tag `localfs`, which the GUI uses). They
differ in what they take for a hash (`Recognised`), in whether the file is read a
second time, in what is written back, and in what a hash that does not decode
does to a login. `loader` follows `Load`: decode and publish in one step, then a
step per read, per entry (computing the hash, and storing it), for the truncation
and for the rest of the write; every one that can fail has its failure. A failed
first load ends the program (`Fail` takes the content back), a failed reload leaves
the new content in force. `Crash` may come anywhere and the next `Load` is the
restart. `Edit` replaces the file at any moment except between truncation and
write; it always leaves a file that decodes. `login` is a `GetAccess`, which reads
a stored password twice; while one is being stored, `Readings` also gives the new
value and two torn ones, since the store of a string races with the read.
`edits`, `raced`, `overlap` and the `loaded` part of `heap` are history variables.
Files whose lengths differ by two are excluded (`FilesAssumption`): sjson would pad
with nulls.

### Telegram

`file[t]` is the `File` of transfer t together with where its `Close` is (`at`);
`entries` is the table of `fake_fs.go`; `spool` and `chat` are what is on the disk
and in the chat. `Write` is one step whatever it spools, because the buffer and
the directory are the transfer's own; `WriteFails` chooses the part that cannot
be spooled, and whether the directory or the file is what fails. `Close` is a step
per send and per lock of the table. The Bot API is external: a send succeeds,
fails and can be tried again, or fails for good, and a failed one may have been
delivered. ftpserverlib closes a file also after a failed write and after an
aborted transfer, so `StartClose` is possible at any moment; what an aborted
upload has sent by then is sent as if it were complete. The parts on the disk
are modelled by `parts`, their directory by `spool`: the removal of single files
is not. `sent` and `found` are history variables for the properties.

`AcknowledgedIsWhole` and `PartsAreWellFormed` (the numbers of the parts follow each
other, and no part exceeds the limit) exclude transfers a failed write had
a part in: `spillNextPartToDisk` counts a part before it is written and `Write`
keeps its bytes, so that `Close` sends them as one oversized part, and a failed
`MkdirTemp` makes an oversized single message, which the cache can hand on to a
later transfer (found by TLC; this is what `Sound` says). `AcknowledgedIsWhole`
compares the messages with the parts of what the client wrote (`Upload`). It
excepts a file that was opened with the cached content of its name (`found`):
such an upload sends old and new bytes in one file and is acknowledged.

### Gui

`ui` says what the UI thread does: waiting in a message loop, or which part of
`start`, `stop` or `exit` comes next, or "blocked" on the mutex it holds itself.
`stack` is the nesting of the handlers that wait for a box or for the dialog of the
advanced settings. An open box disables the window (`AtWindow`) and not the
tray (`AtTray`), whose actions run nested in the handler below. `current` is
`a.server` and `a.driver` (the code sets and clears them together), `listener[s]`
and `serve[s]` are the listener and the goroutine of server s, which posts to
the UI thread ("posted") when `Serve` failed while `a.running` held. `RunPosted`
is what was posted: `setStopped` on whichever server is current by then. A server
that nothing refers to is collected, and the finalizer closes its listener
(`Collect`). A driver is reduced to its sessions, `stopping` and `announced`;
its details are in `Server`. In this program nobody waits for the event, so
field and channel do not part. What the boxes ask and what the file holds is in
`GuiConfig`. `exiting` is set when exit is pressed, also where its `stop` then hangs
on the mutex; `ExitEnds` names that one exception.

### GuiConfig

`users` is `a.users`, `hash` the option of the form, `selected` the line of the
list, `asked` the line that the box of `deleteUser` was opened for. `step` follows
`saveConfig` and `start`: the file is emptied, written, loaded by the
actions of `Config` (build "local"), and listened with; every link can fail, and
`Kill` may come between any two. `Boot` is `main`: a file that does not decode gives
the defaults. The window is the only editor of its file, so `Config`'s own `Edit`
is not part of `GuiNext`, and `edits` holds what was saved last. Directories,
addresses and the other fields of an entry are left out: they are copied. `dirty`
is a history variable for `WindowMatchesFile`.

### Tls and Transfer

`call[s]` is where a connection is in `GetTLSConfig`: in the function that
`sync.Once` runs (a step per file that is read), or waiting for it. `Renew` and
`ReloadTls` change files and configuration meanwhile. A key pair is a version; a
certificate with the key of another one is the error of `tls.X509KeyPair`.

`xfer[s]` is the transfer of a session: the passive connection, with or without TLS,
the file, which ftpserverlib opens before the client has connected, the pieces
that arrive, and `Close`, which ftpserverlib calls whatever became of the
transfer. A piece is named by its file and its place. `Close` is one step: the
mail, the line of the log and the answer to the client depend on nothing that
another session does; a mail server may refuse, or take the mail and lose the
answer (`taken` and `failed`). An upload that broke off is mailed as far as it
came, and a download, whose buffer is empty, is mailed too: `EachMailIsOneFile` is
about what a mail holds. `mails` and `replies` are history variables.

## Runs

| Run | Shows | Bounds |
|---|---|---|
| `server` | types, `CountsSessions`, `EventNeverBlocks`, `PanicCutsNoSession`, `AdmissionByLimit`, that `Server` implements `GracefulStop`; under fairness `CallbacksReturn` and `DrainIsAnnounced` | 3 connections, limits 0, 1, 2, a counter of 4 values |
| `daemon` | `StopArmsTheWait` in the whole process; under fairness `ShutdownCompletes` | 2 connections, limits 0, 1, 2 signals of each kind |
| `daemon_panic` | **violation**: a graceful stop may panic | the same |
| `telegram` | `AcknowledgedIsWhole`, `PartsAreWellFormed`, `ReadbackIsInChat`, `FailedLeavesNoSpool`; under fairness `ClosesEnd` | 2 transfers of one name, of up to 5 and 2 bytes, parts of 2 bytes, a cache of 3, 2 attempts |
| `access` | types, `SharedLoadedOnce`, `ServedOwnAccess`, that `Access` implements `FsRegistry`; under fairness `LoginsEnd` | 2 sessions, 2 users, 2 reloads among 4 contents, a webhook that answers with ann's access or with one of nobody |
| `config` | `HashingKeepsPasswords`, `VerdictIsRight`, `NothingPlainLeft`, for both variants | 1 login, 4 files of 2 or 3 entries, 2 edits, 2 loads |
| `access_read_only` | **violation**: the cache may serve a writable file system to a read-only access | 2 sessions, 1 reload |
| `gui` | `RunningIsServed`, `OnlyFailuresLoseServers`, `HangFindsNothingRunning`, `OverLimitOnlyAcrossServers`; under fairness `ExitEnds`, `FailureIsShown` | 2 servers in turn, 2 connections, a limit of 1 |
| `gui_deadlock` | **violation**: the program in the background may hang | the same |
| `gui_lost` | **violation**: the window says stopped while a server accepts | the same |
| `gui_config` | `WindowMatchesFile`, `DeletesWhatWasConfirmed`, that `GuiConfig` implements `Accounts` | 1 user beside anonymous, 2 passwords, of which one is typed, a list of 2, any number of starts and kills |
| `transfer` | `OneWholeCertificate`, `MailsAreUploads`, `RepliesAreTrue` | 2 sessions, 2 key pairs and 1 change, 2 files of one name, 2 pieces each |

Every passing run has the type invariant of its module too, but for `daemon`,
whose types are those of `server` and program counters.

The bounds are enough for the interesting cases: three connections let one be
served, one be rejected by the limit and one come after the drain; two drains
(the second is what panics) need two connections; two signals of a kind fill the
channel and lose one. Two sessions race for the cache or for the keycloak entry,
and the safety properties of `Access` are about pairs of sessions; two reloads
put a session's entry two contents behind; either session may get either answer of
the webhook, about itself, about the other or about nobody. `UintMod` is 4 so that the counter
wraps at once if it is ever decremented at 0. A transfer of 5 bytes makes three
parts, one of 4 bytes ends at a boundary, one of 3 is split and yet small enough
for the cache, and the second transfer finds what the first one left.
Deadlock is checked in `gui_config` alone: elsewhere a driver without clients, an
ended process, finished logins and transfers, and the blocked UI thread have
nothing left to do. In `Config` two loads are a boot and a
reload, or a boot, a crash and a restart on the file that the first one left; two
edits let a file that was mixed up be replaced; the four files hold every kind of
password, the wildcard, a user with two entries, and the entries of another file
in another order. In `Gui` the second server is what the goroutine of the first
meets, and two connections with a limit of 1 are one too many for a driver and
not for two; the stack of boxes has no bound, since under a box only the tray
works, whose start locks the mutex that the next start would need. In `GuiConfig`
a list of two lines is what an index can be wrong in, and each start loads once;
the wildcard password comes from the file, and the form can rename its user.
In `Transfer` one change of a file is a renewal that the load meets half way, two
sessions race for the first load and for the name, and the accesses are one with a
log and one that is read-only; the theorems have no such bounds.

### What the violations say

* `daemon_panic`: `driver.Stop` finds no session, sends and closes; the listener
  is still open; a connection is admitted and ends; `considerEnd` finds no
  session and the field still set, and sends on the closed channel. The theorem
  `NoSessionIsCutByAPanic` bounds the damage: whoever is served by then is nobody.
  A connection that stays instead of going is cut off: `WaitGracefully` takes the
  event that was sent before and main exits under it.
* `access_read_only`: `loadFs` looks in the cache, by user, before it looks at
  the access.
* `gui_deadlock`: `start` opens its boxes with `a.mu` held. From the background: the
  tray's start fails, and under its box the tray's start, stop or exit locks the
  mutex again, on the same thread. `HangFindsNothingRunning`, which is proved, says
  that no running server is taken along.
* `gui_lost`: the goroutine of a failed server looks at `a.running` and not at
  which server is current, so a failure that is shown late takes the handle of
  the server that was started since. `OnlyFailuresLoseServers`, which is proved,
  says that nothing else does.

Other things that the models show, and for which there is no run of their own
(each is a hazard in `PROJECT.json`, with the property that says what remains, if one does):

* A SIGTERM is lost when it is handled before the listener exists, or when the
  channel is full while the handler is busy with a reload (`Daemon`).
* `GetAccess` writes the session's user into the shared entry of a keycloak access,
  and a login may load under the name of another user (`Access`).
* The telegram `OpenFile` fills the buffer from the cache, for writing too, and
  `Close` sends the buffer, for reading too. `Close` resets the File before its
  deferred clean-up runs, which leaves the spool directory (`Telegram`).
* When an editor moves the entries between the two reads of a load, the hash of
  one user is written over the password of another (`Config`, `raced`). What
  still holds is the last part of `HashingKeepsPasswords`.
* An upload over a cached name of the telegram backend is acknowledged, and sends
  the old content before the new (`Telegram`, excepted by `AcknowledgedIsWhole`).
* A session of the webhook may be served under another name than it logged in with
  (`Access`); what holds is `ServedOwnAccess`.
* An exit under the box of a failed start hangs (`gui_deadlock` shows it too).
* The window never reads the file again: a save puts the plain passwords back that
  the start before had hashed, until the next start (`GuiConfig`).
* A certificate, or the error of a half renewed one, is kept for as long as the
  process lives, although `server/server.go:307` expects it to change (`Tls`).
* A download from the mail backend, and an upload whose client never connected,
  send an empty mail (`Transfer`).

## Fairness

`Server`: a goroutine that can run does (weak fairness of the rest of
`considerEnd` and of the wait), and a callback that waits for the mutex gets it
(strong fairness: `sync.Mutex` goes into starvation mode). The timer of
`WaitGracefully` fires. `Daemon` adds that main goes on after each call, that
`Serve` returns when its listener was closed, and that the handler runs (strong,
since it too waits for the mutex). `Access`: a session goes on, which includes
that the webhook and the backends answer or fail; the webhook has a timeout and
dials end by the operating system's. `Telegram`: a `Close` that was called goes
on; the Bot API's client has a timeout. `Gui`: a handler that is not
in a box goes on, the goroutine of a server runs, and what was posted is run by a
UI thread that comes back to a message loop again and again (strong: handlers come
in between). `Config`, `GuiConfig`, `Tls` and `Transfer` state no liveness and no
fairness. Nobody is obliged to click or to answer a box; no client is obliged to arrive or to leave,
no signal to come, no accept to fail, no reload to happen.

## Proofs

`ServerProofs`, for any finite set of connections, any limits and any counter
width that exceeds the number of connections (`ClientsAssumption`,
`WidthAssumption`, `LimitsAssumption` of `Server`):

* `Invariance`: `IInv`, the conjunction of `TypeOK`, `CountsSessions`, `LockInv`
  (the mutex is kept only inside `considerEnd`'s send and close, with no session
  open), `EventInv` (between critical sections the channel is fresh, or sent and
  closed) and that a crash finds no session. `CountsSessions` alone is not
  inductive for the crash and for the channel: that the counter is 0 while the
  mutex is kept is what `LockInv` adds, and that a send finds the channel fresh
  or closed is what `EventInv` adds.
* `TypeCorrect`, `SessionsAreCounted`, `EventDoesNotBlock`,
  `NoSessionIsCutByAPanic` follow from it.
* `AdmissionIsByLimit` adds the hypothesis `LimitsFit`: the limits are below 2^w.
  Without it the property is false in the code, since `uint32(maxClients)` drops
  the high bits; the GUI offers limits up to 100000 and no sane file has 2^32.
* `ImplementsGracefulStop`: initial states map to initial states, and each step
  to a step of `GracefulStop` or to none. The event is sent by whoever holds the
  mutex, so the number of sessions is 0 when it is announced.

The lemmas `CountUp` and `CountDown` tie the unsigned counter to the cardinality
of the set.

In `ServerProofs`, too, under the same assumptions, for the whole process of `Daemon`:

* `ProcessRunsTheDriver`: every step of the process is a step of `Server`, or changes
  nothing of it. Signals, the process's own two shutdowns and its wait only decide
  when those steps are taken, so what holds of `Server` holds of the process:
  `ProcessKeepsPromise` and `ProcessCutsNoSession`.
* `TheWaitIsArmed`: by `WaitInv`, which adds to `StopArmsTheWait` what the main
  goroutine has done by each of its places, so that the step into the wait has
  the shutdown behind it.

`AccessProofs`, for any sets of sessions, users and contents, and any number of
reloads (assumptions `NamesAssumption`, `BasesAssumption`, `ContentsAssumption`,
`WebAnswersAssumption` of `Access`):

* `Invariance`: `IInv`, the conjunction of `TypeOK` (with `LockHeld`: the mutex of the
  cache is held by exactly the session between lookup and store), `PointerInv`
  (a session's pointer is an entry of a content that was loaded), `LoadedInv`
  (file systems are numbered as they are made, the cache keeps shared ones only)
  and `PrivateInv` (one that is not shared is in one place). It rests on the
  lemma `HeapKept`: a reload only adds a content, and a login only writes the
  user and the password of a keycloak entry.
* `TypeCorrect` and `PrivateIsPrivate` follow from it.
* `SharedIsLoadedOnce` has the hypothesis `KeycloakNotShared` for every content, and
  an invariant of its own, `CacheInv`: who is served through a shared entry has
  what the cache has, and who loads for one will find its place empty. The first
  part is not inductive without the second, and the second holds because the
  mutex spans the load. With a shared keycloak entry the user under which
  `loadFs` looks in the cache is not the one under which it stores.
* `OwnAccessIsServed` has the same hypothesis, since such an entry can leave the
  file system of one user in the cache under the name of another. It says
  that an entry serves who has its user and its password, and that a file system was
  loaded with every parameter of the session's access, or is what the cache has for
  the user of this access, and was loaded for him. It does not say that what the
  cache has is of the same parameters: that is false (`access_read_only`). Its
  invariant, `OwnInv`, adds when a session gets its entry, that nothing is between the
  load and the store but the mutex, and that the cache has for each name what was
  loaded for it (`CacheWriters`, `CacheStays`): what is there is never replaced, so
  that who was served from it still has what it has.
* `ImplementsFsRegistry`, with the same hypothesis: under the mapping of
  `KeepsRegistry`, which forgets the contents, the entries, the mutex and the file
  systems that are loaded and not served yet, `UseCached` is a `Join` of the
  registry, `StoreFs` opens a private or a shared file system, and all other steps
  leave it alone. It takes all the invariants at once. `CacheInv` gives that the
  place in the registry is free when the load ends, `OwnInv` that it is the place of
  the file system's user, `LoadedInv` that the file system is shared if the entry is,
  and one more, `FreshInv`, that nobody else has it: no session looks into the cache
  or makes a file system while one has the mutex.

`ConfigProofs`, for any contents of the file, users and passwords, any logins, loads and
edits, and both variants (`FilesAssumption`, `NamesAssumption`, `BoundsAssumption` of
`Config`):

* `Invariance`: `IInv`, the conjunction of `TypeOK`; `FollowInv` (a content, and a file
  that nobody edited, have each entry of what was decoded or edited, or its hash);
  `LoadInv` (a load under which nobody edits finds the file as it read it until
  it writes, and keeps the old content when it has nothing to save); `OrderInv` (entries
  are exempt up to the one in hand, and the text that will be written has in it
  what the content has); and `NothingPlainLeft`.
* `PasswordsAreKept` follows since who is let in depends on each entry through what its
  password accepts, which hashing keeps (`HashedAccepts`, `FollowsSame`). That a load
  after a crash does not hash a hash again is `FollowsTwice`: a hash is exempt.
  For edits that fall into a load, of which `IInv` says nothing, it takes
  `KnownInv`: each entry of the contents, of the text that will be written and of the
  file is at its place an editor's entry, or has the hash of the password of one.
  A store keeps this, though it sets the hash of one file's entry in another file,
  because what it hashes was not hashed before, so is an editor's (`StoreKnown`), and
  because an entry that sjson appends comes at the place of the one that was
  hashed, as files differ by one entry at most (`SetPassKnown`).
* `HashingIsComplete` follows from `OrderInv` at the end of the loop, and `TypeCorrect`.
* `VerdictsAreRight`: the invariant is `LoginInv` together with `IInv`. A call that
  overlaps no store has passed by entries that do not accept its password
  (`Passed`), and the one it compares is of the kind that it read; a store to
  an entry that was passed changes nothing of that, by `HashedAccepts`. The property
  speaks of calls that have ended, and says nothing of those on their way.
  Its hypothesis is `FilesAreClear`: in the full variant a hash that does not decode
  is an error that ends the search (`config.go:216-222`), so that a second entry of
  its user would never be looked at, and somebody whose password is there would be
  turned away. Either no file names a user twice, or no file has such a hash;
  the local variant needs neither. `ClearInv` carries this from the files
  that an editor writes to what is loaded, hashed and mixed later: hashing
  makes only hashes that decode (`HashIsKnown`), and what `SetPass` appends has
  no user (`SetPassClear`).

`GuiConfigProofs`, on those lemmas, for any users, passwords and length of the list, and any
number of saves, starts, loads and kills (`WindowAssumption` of `GuiConfig`: the
passwords that are typed are passwords, and a file that an earlier run of the
program left has users, each named once, as the form allows it to save no other):

* `GuiInvariance`: `GuiInv`, the conjunction of `GuiTypeOK`; `ListInv` (no user is in the
  list twice, and the box names the user of its line); `FileInv` (while nothing was
  changed the file `Follows` the list, entry by entry, and only the entries that
  were to be hashed differ); and `StartInv` (what a start loaded follows the
  list too, a load that succeeded is still there, and hashing is under way in a start
  alone). `StartServesTheWindow` is about one moment. It holds there because the file
  followed the list when it was loaded, and because a start begins with no server
  running, so that nothing is loaded that could be taken for its content.
* `ServersServeTheWindow` and `FileMatchesWindow` follow by `FollowsSame`: entries that
  follow others let in whom those let in. That the file follows the list
  after a load has written it back, and after the load of a later start, is
  `FollowsTwice`; that it names the same users is `FollowsNames`.
* `DeletionsAreConfirmed` is an action property: under a box only its answer changes
  the list, since the tray's start works on the file. `RemovedUser` says what
  `RemoveAt` takes out of a list that names nobody twice; `AddedUser` and `ChangedUser`
  say that the form keeps it so.
* `WindowTyped` is the types.
* `ImplementsAccounts`: the mapping of `KeepsAccounts` takes each list of entries for
  the users and passwords it lets in, so that hashing is no step at all. `Listen` is the
  start of the accounts, a write (of the save, and the one that ends the hashing)
  their loss and their save, `StopServer` the stop, `Kill` and `Boot` the end and
  the opening; everything else is a change of the window or nothing. It implies
  what `StartServesTheWindow` says of who is let in, and more: nothing else
  ever gets into the file, a server keeps what it started with, and the file
  has the same at that moment. Besides `GuiInv` it takes `WriteInv`: the file is
  broken exactly while it is written, or where that failed, which ends the start.

`TelegramProofs`, for any number of transfers and names, any sizes of parts and
writes, and any number of attempts (`SizesAssumption` of `Telegram`):

* `Invariance`: `IInv`, the conjunction of `TypeOK`; `SendInv` (nothing is sent
  before `Close`, and what it sends next is one of the parts there are); `ReadInv`
  (`ReadbackIsInChat`, and that a content on its way into the table was sent); and
  `SpoolInv` (until the parts are sent, the `File` knows of their directory).
  `ReadbackIsInChat` alone is not inductive: `SetContent` puts in the table what
  only the earlier `Send` knows to be in the chat, and `OpenFile` gives a transfer a
  name, which is harmless only because the chat has nothing of it yet. The lemma
  `PartsFit` is the arithmetic of `Write`: no part it cuts goes past the buffer.
* `TypeCorrect`, `ReadbackWasSent` and `FailuresCleanUp` follow from it. The lemma
  `OneTransfer` says what a step of one transfer owes the others; each action
  has a lemma that pays it.

`TelegramWholeProofs`, under the same assumption:

* `AcknowledgedUploadIsWhole`, of files opened without a cached content: the invariant is `CutInv` together with the `IInv` above.
  While a file is open, what is spooled and what is buffered are what came, cut at
  every multiple of `MaxPartSize` (`Cut`), with at most a part in the buffer and
  something in it when there are parts. From `Close` on, what is sent is this
  cut; the parts before the one in hand are in the chat, that one perhaps (an attempt
  that was reported as failed), and nothing else. The property alone says nothing of
  a transfer that is not done.
* `CutGrows` is the step of `Write`: cutting the rest of the buffer with what is
  appended gives the cut of the whole, because the rest begins at a multiple of
  the part size. `CutCounts` is that of `Close`: the rest is one part more, of which
  the number in the captions follows. They rest on the lemmas `Quotient`, `RestFits`,
  `SliceOfPrefix` and `SlicesOfRest` about the division and about slices.
* `PartsComeInOrder`: to these, `OrderInv` adds what the chat may hold while parts are
  sent (`UpTo`): nothing past the part in hand, which follows the last message or is
  that message's, and at most `attempt - 1` messages of the part in hand; a notice
  comes last, of a transfer that failed. An attempt that fails may or may not have
  left its message, so the property, which counts messages, says too little of the
  attempts that are left. That no message is larger than `MaxPartSize` is `PartIsSmall`, from
  the cut. The lemmas `PartFollows` and `NoticeFollows` say what one more message
  does to the order.

`GuiProofs`, for any finite set of connections, any number of servers, any limit and
any depth of boxes (`BoundsAssumption` of `Gui`):

* `Invariance`: `IInv` is the conjunction of `TypeOK`; `MutexInv`, which says who
  holds the mutex: a step of `start` or `stop`, or the box of a start, which is the
  innermost one; `HandleInv`, what window and goroutines know of the servers, with
  `RunningIsServed`; `OnlyFailuresLoseServers`; `LimitInv`, the limit of each driver;
  and `ConnInv`. `RunningIsServed` alone is not inductive: that `Listen` finds no
  other server running, and `StopListener` the one it stops, is the mutex's doing,
  and `MutexInv` holds because under the box of a start nothing gets past the
  lock. That what is posted can find the wrong server only after a failure is
  the part of `HandleInv` about `failed`.
* `TypeCorrect`, `TheWindowHasTheServer`, `NoServerIsLost`, `HangsWithNothingRunning`
  and `EachDriverKeepsItsLimit` follow from it; the last one because sessions that
  all belong to one server are within its limit. The lemmas `Pop` and `Push` are about
  the stack.

`TransferProofs`, for any sessions, names, accesses, key pairs, number of changes, files
and pieces (`VersionsAssumption`, `AccessesAssumption`, `BoundsAssumption`):

* `Invariance`: `TlsInv` (one load at a time, done once it has a result, and what was
  read is that of the load), `OpenInv` (an open file belongs to one session, was not
  answered yet, and its buffer and counts agree) and `MailInv` (a mail is as the
  buffer was, and its file was answered), with the three properties of the
  replies. That no file is mailed twice needs that an open file was not
  answered and a mailed one was; that an answer stays true needs that mails are only
  appended (`NothingMailed`, `CloseKeeps`).
* `TypeCorrect`, `CertificateIsOne`, `MailsAreTheUploads` and `AcknowledgementsAreTrue`
  follow from it.

Only model-checked is all liveness (`CallbacksReturn`, `DrainIsAnnounced`,
`ShutdownCompletes`, `LoginsEnd`, `ClosesEnd`, `ExitEnds`, `FailureIsShown`), which is out
of the prover's reach. Every other property of a passing run is a theorem.

## Plan

What could be added, the most useful first:

1. An abstract delivery for `Telegram` (an upload appears in the chat once, in
   order), shown to be implemented by transfers that never have to retry.
2. The hang of `Gui` under the steps of `GuiConfig`, as one composition.

## Not modelled

* The protocol, its commands and the handshake of TLS belong to ftpserverlib, and
  sync_and_delete is a library too: neither is in the repository. What this code
  relies on of ftpserverlib is modelled and marked external.
* The s3, gcs, gdrive, dropbox and sftp backends read parameters and hand over to
  client libraries. They keep no state.
* `fs/stripprefix` is path arithmetic without state, and nothing outside the
  package refers to it.
* `GetSettings` and `Prepare` copy fields and fill in defaults; `CheckAccesses` has no
  caller. `utils/env.go` formats strings. `Symlink` of the log asserts the type of
  the file system below it and keeps nothing.
* The password generator, the start-up entry in the registry, the clipboard, the
  layout of the window, build and packaging files have no behaviour over time.
