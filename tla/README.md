# TLA+ models of l2netmgr

l2netmgr is a telnet server in front of two Lineage 2 daemons ("providers"),
`cached` and `authd`.  Users log in with a password and type commands;
l2netmgr translates a command with the definition file of the provider that
has it, sends it over the one connection it keeps to that provider, and passes
the answer back.  This directory models the program in TLA+, checks small
instances with TLC and proves theorems about the models with TLAPS.
Paths below are relative to `src/`.

    tlc -workers 2 -config server.cfg MCServerClock      # a run of PROJECT.json
    tlapm ServerProofs.tla                               # the proofs of a module

## 1. Inventory

| component | source | state it keeps | operations |
|---|---|---|---|
| Provider connection | `server.cpp`, `server.hpp` | `_sock`, `_timeout`, `_timeoutTicks`, `_reconnect`, `_reconnectTicks`, `_host`, `_port` | connect, disconnect, sendCommand, sendKeepalive, tick, lostConnection |
| Provider protocol | `server.cpp` (`_receiveResponse`), `socket_impl_unix.cpp` (`_recv`) | bytes in the socket and in the network | send a command, read an answer |
| Main loop and sessions | `l2netmgr.cpp`, `client.hpp` | `g_clients`, `g_shutdown`, `g_reconnect`, `_authenticated`, `_disconnect` | main_loop, accept_client, handle_client_input, auth_user, send_command, reload, help, cleanup |
| Select set | `sockets/select.cpp` | `_readSockets`, `_readFds` | addReader, removeReader, select, isReadSet |
| Client line reader | `client.cpp` | a line buffer of 512 bytes | getCommands |
| Command factory | `cmdfact.cpp` | the table of commands of one provider | load, build, tokenize, help |
| Configuration | `config.cpp` | keys and values | parseFile, saveFile, accessors |
| Socket library | `sockets/socket_impl_*.cpp`, `sockets/socket_impl.hpp` | descriptor, blocking flag, byte-order flag | connect, accept, send, recv, setSockOpt, negotiateEndian |
| Windows GUI | `wingui.cpp` | settings dialog, the thread that runs `main` | Settings, WndProc |
| Log | `log.cpp` | log level, file | log |

How they interact.  `main_loop` runs in one thread and does everything itself,
by plain calls: it reads the keepalive option, waits in `select` for at most a
second, obeys a pending `g_reconnect`, accepts at most one client, reads and
serves the clients that have input, ticks both providers, and closes the
provider connections when no client is left.  `send_command` runs inside the
scan over the clients; while it waits for a provider everything else waits.
Other actors reach this thread only through the kernel (users who dial, type
and hang up; providers that start, stop, answer, close) and, on Windows,
through two globals that the settings dialog writes from its own thread
without a lock, `g_config` and `g_reconnect`.

What is hard to get right, and what makes each component correct:

* *Provider connection.*  Three counters of ticks (keepalive, idle limit,
  reconnection), each with its own comparison and its own resets, driven by
  commands, ticks, failures and the dialog in any order.  Correct when: a
  provider that is down holds no socket; only the paced retry brings it back;
  it is retried in time and for ever; inactivity is bounded; what a failed
  attempt costs is bounded too.
* *Provider protocol.*  Nothing marks the end of an answer and keepalives are
  not awaited, so that parts of answers may be left for the next command, which
  may be another user's.  Correct when every command gets its own answer.
* *Sessions.*  `g_clients` is erased from while an iterator runs over it; the
  client list, the select set and the open descriptors are three views kept in
  step by hand; marks are set in many places and acted on in one; the
  descriptors and the program can run out and end at any point.  Correct when
  the views agree, the iterator is valid, nobody acts without the password,
  everybody who types is read, and a shutdown completes and closes everything.
* *Line reader, send loop.*  A client's socket does not block, bytes come and go
  in pieces that the network and the user choose, and counts are advanced
  before results are looked at.  Correct when every line typed is read once,
  replies have no gaps, and neither loop keeps the program from everybody else.
* *Command factory.*  Sequential string code: quotes, short lines, indices of
  placeholders.  Correct when it agrees with a reference definition.
* *Configuration.*  A file that is read by a forgiving scan, completed with
  defaults, edited in a dialog and written back without any protection against
  being killed.  Correct when settings survive.
* *Byte order.*  Two parties that may see different outcomes of one
  conversation.  Correct when they agree who swaps.
* *GUI.*  Two threads that wait for each other (log messages against
  `WaitForSingleObject`) and share the configuration.

`PROJECT.json` lists the hazards one by one, each at its line.

## 2. Modules

| module | models | extends / instantiates |
|---|---|---|
| `ProviderLink` | abstract specification of one provider connection | |
| `Server` | class `Server` and the steps of the main loop that drive it | `ProviderLink` (refinement) |
| `ServerClock` | `Server` with a clock beside the tick counter | `Server` |
| `ServerProofs` | theorems about `Server` and `ServerClock` | `ServerClock` |
| `ResponseStream` | the bytes between the program and one provider | |
| `ResponseProofs` | theorems about `ResponseStream` | `ResponseStream` |
| `MainLoop` | the pass of `main_loop`, client sessions, select set, cleanup | |
| `MainLoopProofs` | theorems about `MainLoop` | `MainLoop` |
| `ClientLines` | bytes typed by a user: `_recv` and `getCommands` | |
| `SendLoop` | bytes sent to a user: `_send` | |
| `ClientIO` | one client: both of them, driven by `handle_client_input` | `ClientLines`, `SendLoop` |
| `ClientIOProofs` | theorems about `ClientIO`, with its lines and replies | `ClientIO`, `FoldProofs` |
| `CommandFactory` | the table of commands, tokenizing and building of commands | |
| `ConfigFile` | `l2netmgr.conf`: parsing, defaults, saving, being killed | |
| `Endian` | byte-order negotiation and the numbers sent after it | |
| `EndianProofs` | theorems about `Endian` | `Endian` |
| `FileProofs` | theorems about `CommandFactory` and `ConfigFile` | `CommandFactory`, `ConfigFile`, `FoldProofs` |
| `FoldProofs` | induction over the natural numbers, and what `FoldLeft` computes | |
| `WinGui` | GUI thread and network thread of the Windows program, with its configuration | |
| `WinGuiProofs` | theorems about `WinGui` | `WinGui` |
| `MC...` | small instances for TLC; `MCLibrary` puts `CommandFactory`, `ConfigFile` and `Endian`, which share nothing, side by side | |

Each module ends with its properties.  A definition marked "mutant" stands just
before the definition it is a broken variant of and is used by no
specification: `PROJECT.json` says which property finds which of them out.

### ProviderLink and Server

`ProviderLink` is what the log messages promise of a connection: "idle",
"connected" or "down"; only one attempt every `Limit` ticks leads out of
"down".

`Server` is one provider (the other is a second instance that shares only
`g_reconnect` and the keepalive option).  The record `srv` is the object:
`sock` is `_sock` ("broken" when the peer is gone and nobody has noticed),
`addr` is `_host` and `_port`, the other fields have the names of the code;
`fds` counts descriptors that were opened and not closed.  `phase` is the place
in `main_loop`; "await" is the blocking `recv` inside `sendCommand`.  Member
functions are operators on the record (`Connect`, `Disconnect`, `TimeoutTick`,
`ReconnectTick`, ...), and an action is one handler with all the calls it makes:
`CommandFailed`, for instance, is the error path of `send_command` with
disconnect, connect_server and lost_server.  The code calls `tick()` for both
halves at once, so `Tick` composes them.  Environment: the provider starts and
stops, the peer closes, and (`GuiEdits`) the dialog sets an address, the
keepalive or, for the other provider, just `g_reconnect`.

`ServerClock` adds two measures that the code does not keep: `elapsed`, the
seconds since the provider was lost or last tried (only `select` takes time, one
second or less; losing a provider that is down already does not start the wait
anew, though it sets the code's counter back), and `quiet`, the ticks since a
failed attempt last left a descriptor open (`Leaked` counts those).

### ResponseStream

`pipe` holds the parts of answers underway, of which the first `here` have
arrived; `requests` what the provider has not read.  `FirstByte` is the blocking
`recv` of one byte, `ReceiveRest` the non-blocking one, which takes what has
arrived and leaves the rest.  `_recv` throws when it meets the end of the
connection, even after data (`EndOfFile`).  The provider answers a command in up to `MaxParts` parts and, if
`KeepaliveAnswers`, may answer a keepalive.  `split` is a history variable: some
answer on this connection had more than one part, or a keepalive was answered.
`blocking` is the mode of the descriptor, restored by toggling the flag (Unix,
`Toggle`) or setting it (Windows, `SetMode`) when the answer has been read.  When
the second `recv` throws, `_receiveResponse` returns with the socket not blocking
(`Fails`); in phase "failed" `send_command` throws that connection away
(`Reconnect`).
The module is about one connection's life; when it is opened and closed is left
open, `Server` says when.

### MainLoop

`vec` is `g_clients`, `pos` the iterator, `batch` what is left of the lines
`getCommands` returned, `readers` and `ready` the two sets of `Select`, `fd`,
`auth` and `disc` the fields of the `Client` objects.  One action per step of a
pass: `Select`, `Reconnect`, `AcceptClient` / `NoNewClient` / `AcceptFails`, the
scan (`ScanSkips`, `ReadInput`, one action per branch of
`handle_client_input`, `KeepClient` or `DropClient`, `ScanEnds`), `Tick`,
`IdleDisconnect`; then `LeaveLoop` (the `cleanup` at the end of `main`) and
`AtExit` (the one in `on_exit`).  Branches that `return` drop the rest of the
batch, the others go on with it.  After `erase` the iterator is `begin()` and
`continue` increments it, hence `AfterErase == 2`.  `select`'s result is not
checked by the code: with a closed descriptor in the set the call fails and
every member looks ready.  Users dial, type and hang up between any two steps;
a connection that is established but not accepted waits in `backlog`, and
accept may fail for want of a descriptor at any time, since failed connects to
providers leak them.  The other exceptions that `accept_client` catches change
nothing here: `setSockOpt(non_blocking)` does not fail on a descriptor just
opened, and when the greeting cannot be sent the client is in both lists already,
and is read like any other.  A
provider is in one of the states of `ProviderLink`; how long it stays there is
`Server`'s subject, so every outcome is allowed here.

`served` and `proved` are history variables for the properties.

### ClientLines, SendLoop, ClientIO

The bytes under `MainLoop`'s lines, for one client that has logged in.  `typed`
is everything the user has typed, `taken` how much of it `getCommands` has
scanned; since a byte may be typed before or after any call, every segmentation
occurs.  `_recvbufSize` and `_ignoreBytes` are no variables: the scan moves
`offset` over every byte it looks at, so that the former is 0 between two calls,
and the latter is never set, because `_recvbufSize - i` is positive inside its
loop.  For the same reason the test for a flooding client never holds.
`signed` says whether `char` is signed in this build; then no byte equals 0xff,
and telnet codes are scanned as if they were typed text; otherwise they are
stripped in a way that garbles what follows.  Neither is what `ChangeLog:18`
says, so `EveryLineOnce` ends at the first code in either build.
In `SendLoop` each call of `send(2)` is a step (`CallSend`), in which the kernel
takes some bytes, would block, or finds the connection broken; all three are
added to `sent`.  The loop is that of both socket libraries.  `ClientIO` is
`handle_client_input`: it reads lines, answers each one with a reply of `Length`
bytes, and drops the client at the end of the input if an error marked it.
`cuts`, `commands`, `stream` and `blocked` are history variables.

### CommandFactory

A text is a sequence of characters, since quotes and placeholders are what the
component is about.  `file` remembers what the author of the definition file
meant, `commands` is `_commands`.  `Load` writes the file down as README.md
describes it (`Line`) and reads it back with the code's `tokenize` and `load`,
whose `getline` fails at a line that does not fit its buffer (`LoadSize`);
`Build` is a function of the table and of what a user types.
`LoadKeepsDefinitions` compares the table with the author's definitions,
`BuildSubstitutes` compares `Build` with `Substituted`, which replaces all
placeholders in one pass over the text.  "rawreturn" is shortened to "raw", required
arguments and placeholders have one digit.  `FilesAssumption` says what an author
may write: a name and words without blanks and quotes, quoted elements without
quotes; the number of words behind them is free, and more than one makes `load`
skip the line (`Wellformed`).  `TypedAssumption` says what a user may type: any
texts, up to ten of them behind the command.  The equality of `BuildSubstitutes` is
about signatures whose braces are those of placeholders (`Braced`) and arguments
without an opening brace (`Plain`): otherwise an argument could bring or complete
a placeholder of a later one, and no document says what should happen then.

### ConfigFile

`conf` holds the lines of the file, `elems` is `_elems`.  The file begins as an
administrator wrote it (`Authored`, entries with what stands around key and
value); then the program starts (`parseFile` and the defaults of `main` in one
step; `StartFails` when a command file cannot be read and `main` returns with
only some of the defaults set, after which the dialog is still there), the dialog
sets values, and `saveFile` empties the file and writes it
element by element, flushing each line (`std::endl`).  `Killed` may come at any
time.  After the last element `saveFile` dereferences `end()`; the line this
writes is any of `Rubbish`, of which the model assumes that it sets no key that
`main` knows; the other outcome, a crash, is `Killed` at that place.  The
order of the elements is left open.  `meant` is what the file should say,
`whole` whether it was written to its end, `fits` whether each of its lines
is shorter than the buffer of `parseFile`: a line that was just short enough when
it was written by hand may be too long with the blanks that `saveFile` puts
around the "=", and then neither it nor what stands behind it is read.  The
assumptions about `Authored` say what an administrator may write: keys without
blanks and "=", with something between a key and its value; lines without a key
are blank or have a "=".  That a line of `Rubbish` sets no known key is an
assumption about memory, and named so.

### Endian

Two ends of either byte order (`big`); a number is a sequence of bytes, most
significant first, and `Memory` is how a machine keeps it.  `Lumps` is what one
`recv(2)` may return: one to four bytes, or none at the end of the connection,
which neither side looks at; the rest of the word is then what was in memory,
anything for the server, whose word is not initialised.  The Unix library's
client is put together with the Windows library's server, their other halves
have the same code.  `split` says that a word came in lumps.

### WinGui

`gui` is the place of the GUI thread: "pump" is `GetMessage` in `_tWinMain`,
"dialog" the message loop of the settings dialog, "port" to "authd" the
statements of `Settings` after OK, "destroy" the inside of `DestroyWindow`,
"wait" `WaitForSingleObject`.  `net` is the place of the network thread:
"start" is `main` before the loop, then the steps of a pass as far as they touch
shared state; "port", "addr" and "connect" split `connect_server`, which reads
the configuration twice.  `logging` says that the network thread is in the
`SendMessage` of a log call; it goes on when the GUI thread takes the message
(`Deliver`) or the window is gone.  `GetMessage` serves sent messages before
posted ones, so the user's actions need `~logging`.  Values that are missing from
the configuration are `Undefined`, and so is a blank address, which the dialog
stores as "" and `getString` returns as `NULL` (a blank port counts as 0, a port like
any other).  The dialog confirmed then ends in `strncmp(..., NULL)`
("crashed").  `connect_server` looks at the address twice: blank at the first
look, it fails (`AddrUndefined`); blanked since, `connect` is called with `NULL`,
which fails or, where someone listens at that port of this machine, crashes the
program (`ReadNull`).  The counters of `Server` are left out: `Tick`
may retry or drop an idle connection on any pass.  Reads and writes of
`g_config`, unsynchronised in the code, are taken one value at a time; a read
torn inside one string is not modelled.

## 3. Runs

| run | question | result |
|---|---|---|
| `server` | Without a dialog: is inactivity bounded, is a lost provider tried within the minute, again and again, does it come back, and how fast do descriptors leak meanwhile? | holds |
| `server_gui` | With a dialog: do the object and the loop implement `ProviderLink`; can a provider be down with a socket? | holds |
| `responses` | Does a command get its own answer, is its first byte waited for, and is it ever stuck? | holds |
| `loop_clients` | Three users at once: iterator, select set, accept, whom a scan steps over; does only who gave the password act, is everything closed at the end? | holds |
| `loop_live` | Batches of lines: are marked clients gone at once, is what is typed read, are descriptors released, does a shutdown complete? | holds |
| `client_io` | Byte by byte: does every line before a telnet code become one command, are replies intact, can a user who stops reading keep the program? | holds |
| `library` | Is what is loaded what was written, and what is built what was documented; do settings survive; do the ends of a connection agree who swaps? | holds |
| `wingui` | Do edits of the address take effect, and does closing the window end the program, however the two threads interleave? | holds |
| `responses_split` | Is the next command read only after the last one completed (`l2netmgr.cpp:36`)? | violated |
| `client_send` | Does `_send` return the number of bytes sent (`socket_impl.hpp:275`)? | violated |
| `server_first_connect` | Do the retries go to the configured address (`l2netmgr.cpp:197`)? | violated |
| `server_sticky_reconnect` | Does the retry still come after an edit in the dialog? | violated |

Bounds, and why they are enough:

* `IdleLimit` is 4 and `ReconnectLimit` 3 in place of 240 and 60, and the
  keepalive is off, 2 or 3: the code only compares counters with them, so what
  matters is that each comparison is reached, passed and missed by one.
  `TickCap` is where counting `_timeoutTicks` stops; it lies above every limit,
  so the comparisons cannot tell (`Tock`).
* `FdLimit` (descriptors a provider may hold) is 3: failed attempts leak one
  each, and with 3 there are traces with none, some and all leaked.
* One address is enough to be listening or not; the run with the dialog has two,
  so that an edit can change the address.
* `responses`: two parts, three commands, four unread requests and parts: a
  part can be left over from a command that was itself answered with a
  leftover.  The theorem covers all values.
* `loop_clients`: three users and three descriptors, because three places in
  the vector tell the first, a middle and the last one apart; descriptors are
  reused in every order.  `MaxLines` bounds the lines that wait in all
  connections together: 1 there, of every kind, so that each branch of
  `handle_client_input` is taken (users may also hang up, so several can be
  ready at once), and 2 in `loop_live`, so that a batch has a line after the
  one that returns and one after the one that goes on.  `Users` and `Fds` are
  symmetric in the safety run, no symmetry is used under fairness.  One
  provider stands for both: `MainLoop` treats them alike.
* `client_io`: five bytes are typed into a buffer of four, so that the buffer
  fills, a line may lie across two of them, and a telnet code has room with
  bytes before and behind it; replies of three bytes over a kernel that holds
  four, so that a reply fits, fits in part or does not; the user reads at most
  three, which makes him stop at some time, as `InputHandled` assumes of him in
  so many words; he may stop in the middle of a reply.
* `library`.  Commands: every signature of up to three pieces out of two
  placeholders, a letter and a blank, which holds a placeholder twice with the
  other one or nothing between; arguments of one to four characters, shorter,
  as long as and longer than a placeholder; files with a name defined twice and
  with a line too long; every file after every other.  Configuration: files of
  up to two entries out of nine, which tell every branch of `parseFile`, two
  keys that are known and one that is not, lines of less than eight characters,
  values that begin or end with what separates, a line that outgrows the buffer
  when it is saved; the number of starts, edits and saves is not limited.  Byte order: numbers of one, two and four bytes, two
  from each end.
* `wingui`: two ports and two addresses, so that a connection to a mixed pair is
  possible; edits are not limited in number.
* `ServerClock`'s `elapsed` stops two above the limit it is compared with,
  `quiet` at the limit.

Fairness, and why the code justifies it:

* The one thread runs: weak fairness of the steps of the loop (`LoopStep`,
  `Program`, `Receive`).
* A pass comes to an end: strong fairness of `EndWork` in `Server`, because the
  scan serves finitely many clients and lines, which `MainLoop` models in full
  (`ShutdownCompletes` and `InputServed` need weak fairness only).
* A provider answers a command or closes the connection: `CommandEnds` in
  `Server`; in `ResponseStream` weak fairness of the provider and the network.
  The code has no timeout here: without this assumption the program does
  block for ever, which is listed as a hazard.
* `WinGui`: weak fairness of each thread, the GUI thread without what the user
  does; strong fairness of `EndWork` for the reason given for `Server`.  A
  dialog may stay open for ever, it takes messages meanwhile.
* `ClientIO`: weak fairness of the program; the user is not fair, and
  `InputHandled` is about one who reads no more from some time on.  It does not
  hold of a user who reads a byte whenever a call would block: see below.
* Users, the dialog and the starting and stopping of providers are not fair.

## 4. Proofs

`ServerProofs` (all constants arbitrary under the three assumptions of
`Server`).  The inductive invariant is `TypeOK`, `Valid(srv)` (a connected
object has a descriptor to give back, without which `fds - 1` leaves its type)
and `LinkConsistent`.  Each member function has a lemma about its effect
(`DisconnectEffect`, `ConnectEffect`, `TimeoutTickEffect`, ...), from which
`NextInv` goes through the actions.  From it follow

* `TypeCorrect`, `LinkIsConsistent`;
* `Refinement`: `Spec => Link!Spec`; each action maps to one step of
  `ProviderLink` or to none: a step that changes neither the wait nor whether
  there is a connection, a step between "idle" and "connected", a step that
  loses the provider, and the two halves of a tick;
* `InactivityIsBounded`: with `~GuiEdits`, `IdleBounded`.  The strengthening says
  that `_timeout` agrees with the configuration, apart from its zero before
  the first pass, when nothing is connected.  With edits it is false, see
  below.

`RetriesInTime`, in the same module: `RetryInTime` of `ServerClock` for any limit,
as long as `g_reconnect` is down, which it always is without a dialog.
`TicksFollow` says that then the clock is never ahead of the reconnect ticks by
more than the second `select` has waited for and `tick` has not counted yet.
Apart from ticks, no action sets the ticks of a wait back that goes on
(`WaitUntouched`); what a tick does is `TickWaits`.  The condition is needed: once
an edit has raised `g_reconnect`, every pass with a client sets the ticks back and
the clock, which measures since the loss, goes on.

`LeakIsPaced`: `LeaksArePaced` for any limits, with the dialog or without.  Each
action leaks at most one descriptor (`LeakStep`), and leaks one only where
`connect` fails, after which the provider is waited for.  `QuietInv` says that
while the last leak is recent, less than `ReconnectLimit` ticks ago, it is still
waited for, and that the wait has no more ticks than have passed since.  An
attempt that is due then means that the leak is not recent, and a command
makes none while the provider is waited for.

`ResponseProofs`.  `OneAnswer` is the heart: while nothing was split, at most
one answer is underway, the one to the command the program waits for, and it is
either the last request or the only part.  `RestHasBegun` says that after the
first byte something is there to read unless the connection was reset.
Together with `TypeOK` they are inductive, and

* `AnswersAreOwn`: `Spec => OwnAnswer` for any number of parts, commands and
  unread requests;
* `FirstByteAlwaysBlocks`: the mode is tied to the phase; the socket that a failed
  read leaves not blocking is gone before the next command;
* `TypeCorrect`.

`FoldProofs`: what the proofs below need of folds over texts.  `FoldLeft` is
defined by a choice of a function on sets of indices.  `IterationExists` shows
that there is one to choose, by induction over the number of indices, and
`FoldRuns` follows such a function from element to element, so that the folds of
the models become sequences of states (`ScanSteps`, `LessCRSteps`, `TokenSteps`,
`WordSteps`, `LoadSteps`, `ReadSteps`, `FlatSteps`, `AddArgsSteps`); `SameAlong`
compares two of them, and `LoopFunction` gives a function for a loop.
Induction itself (`Induction`, `LeastNumber`) is stated about sets of numbers,
because a theorem that takes an operator cannot be instantiated; it comes from
the library's theorem that a set has a minimal element under a well-founded
relation.

`ClientIOProofs`.  `EveryLineOnce` for any size of the buffer, any input and any
way it is cut.  The property is inductive once it speaks of the input, the cuts
and the commands as arguments (`LinesGiven`): more input changes neither the lines
before it nor where they begin (`PartOf`, `OldLinesStay`).  What one call adds is
read off the fold `Scan` byte by byte (`ScanGoesOn`): the lines so far, and the
part of the last one since the cut, without carriage returns; and `Strip` leaves
alone what stands before the first telnet code (`StripKeeps`).  Of the bytes it
needs only `CR # LF` (`BytesAssumption`).
`RepliesIntact` for any length of replies, any room in the kernel and any
reader.  `GoesOn` ties the count to the stream while `_send` runs: what was sent
last is either the end of an earlier reply, with the count at its beginning, or
a byte of this one at or behind the count, so that the next piece repeats or
continues but never skips; `CountTells` says that the count is exact until a
call would have blocked.

`FileProofs`, command files.  `LoadKeepsDefinitions` for any alphabet, any files
and size of the buffer.  `ScansOn` says that a text is scanned piece by piece;
`ScansWord`, `ScansSpace` and `ScansQuoted` say what each piece that an author
writes does to the tokens, whatever stands between quotes; so `LineIsRead`: the
tokens of a line are its elements and the words behind them.  `LoadLineIs` is what
`load` does with such a line, and `KeepsOn` carries `Keeps` from line to line: the
names in the table are those of the definitions that count so far, the first of
a name stands for it, and loading has ended exactly if a line was too long.
`BuildSubstitutes` for any table that `load` can leave and any typed command.  The
code searches the whole text anew for each argument and goes on searching in
what it has just inserted; the reference goes over the text once.  The two meet in
a sequence of pieces, placeholders and texts without an opening brace (`Flat` puts
them together): a brace stands only where a placeholder begins (`BracesAt`), so `Find`
finds exactly the pieces that are the placeholder (`FindFinds`), erasing and
inserting replaces one piece and moves the ones behind it (`PutAtPlace`), and the
room between them keeps the next one behind the place where the search goes on
(`OneRound`).  `AllRounds` is the induction over the pieces that are left,
`AllEmbedded` and `NothingBuilt` are those over the arguments.  `Replaced` is a
recursive function whose end is not evident, so that it has to be shown first
that a function with its equation exists (`LoopFunction` in `FoldProofs`).

`FileProofs`, configuration.  `SettingsSurvive` for any keys, values, files and size of the
buffer.  A line is taken apart by the places at which the scan stops (`SkipIs`,
`FindIs`): the text of an entry has a `Layout`, from which `EntryIsRead` computes
what one line does to the table, and `AllAreTold` what a file does, with the last
line of a key counting, up to a line that ends the reading.  The invariant is
`FileSays` (of each key the file says what it should, or nothing, which then is
only right if the value is empty or the file is not whole) and, to keep it while
the file is written, `WhileSaving`: exactly the keys that `saveFile` has come to
are in the file, and every line of it can be read.

`EndianProofs`.  `EndsAgree` and `NumbersSurvive` for any bytes, either order of
either end, any lumps and any rest of memory.  The invariant says what is on the
wire at each point of the negotiation: at most the question (`Asked`); nothing
(`Unanswered`); the answer that is due, in front of numbers (`Answered`); numbers
alone (`Agreed`).  That the wire holds the numbers sent and not yet received, each
at its place (`Stream`), is claimed as long as no word came in lumps.  Numbers
have one, two or four bytes (`NumbersAssumption`): the templates of
`socket_impl.hpp` swap these sizes and call themselves "likely not 64-bit safe".

`MainLoopProofs`: every invariant of `MainLoop` and `OnlyProvedActs`, for any
number of users, descriptors and providers.  The invariant has the parts

* `Connections`, `Descriptors`, `Watched`: neither `vec` nor the backlog repeats
  a user and they share none; a user has a descriptor exactly while in `vec`,
  and no two have the same; the select set holds these descriptors and the
  listener.  From these follows `SelectSetExact`;
* `SomeoneWaits`: the listener is in `ready` before "accept" only if the backlog
  is not empty: nothing but `accept_client` shortens it.  So `AcceptNeverBlocks`;
* `Passed`: before the iterator every ready client has been served, the head
  apart, which the restart after an erasure steps over.  So `OnlyHeadSkipped`;
* `BatchBegun`: "input" has a line to handle;
* `Authenticated`: a client whose `auth` is set has given the password on this
  connection; accepting a user clears both.  So `OnlyProvedActs`;
* `Ending`: after cleanup there are no clients, nobody waits and no provider is
  connected.  So `CleanExit`;
* `IteratorValid` and `NoStaleFlag` themselves.

The list operators (`Append`, `Tail`, `RemoveAt`, on sequences without
repetition) have lemmas of their own; each action has one on what it does to the
lists (`Dial`, `HangUp`, `Accept`, `Drop`, `CleanupLists`), and from these each
part of the invariant is shown preserved by itself.

`WinGuiProofs`: the invariants of `WinGui` for any ports and addresses.
`StaleIsFlagged` is not inductive, because the network thread reads the port and
the address in two steps between which the dialog may write.  `ReadIsFlagged`
says of each value read so far that it is still the configured one or a
flag is up or about to go up, and `LastIsFlagged` says the same of what was last
connected to, which a retry uses again.  `BeforeAndAfter` ties the ends together:
nothing is connected before the loop or after it, and the file is saved only
when the network thread is done.  So `ExitInOrder`.

Only model-checked: the liveness properties (`EventuallyRetries`,
`RecoversFromLoss`, `CommandEnds`, `InputServed`, `HangUpReleased`,
`ShutdownCompletes`, `InputHandled`, `StaleLinkDropped`, `ExitCompletes`), as
liveness under fairness is out of the prover's reach.  Every safety invariant and
every safety action property of the runs that pass has a theorem.

## 5. Where code and text disagree

Shown by runs:

1. `responses_split`: the answer to a command that arrives in two segments is
   cut, and its rest is given to whoever sends the next command, against the
   comment at `l2netmgr.cpp:36`.
2. `client_send`: `_send` adds the -1 of a call that would block to its count.
   Bytes that are gone are sent again once there is room, or the count runs
   down to -1 and 0 is returned for a part that was sent, where
   `socket_impl.hpp:275` promises the number of bytes sent.
3. `server_first_connect`: `tick` retries `_host` and `_port`, set by successful
   connects only; when the first connect fails, it retries an empty address.
4. `server_sticky_reconnect`: nothing lowers `g_reconnect`; each pass with a
   client restarts the wait of both providers.

Seen while modelling, without a run of their own:

* `l2netmgr.cpp:303`: the first command after a provider went away, if it finds no
  connection, is answered "-> unknown command" (`response` keeps its initial
  value), where `ChangeLog:12` promises an error message that the provider is
  down.
* `socket_impl_unix.cpp:296`: commands a user typed right before hanging up are
  dropped with the exception; `client.cpp:134`: the part of a line before a cut
  is dropped too, whatever `_recvbufSize` was meant for.
* `client.cpp:88`: with a signed `char` telnet codes are never found and come out
  as a part of commands, although `ChangeLog:18` says that they are checked for
  and ignored; with an unsigned one three bytes are moved over the code, and the
  lines behind it are garbled.  `EveryLineOnce` speaks of neither.
* `socket_impl_unix.cpp:213`: a user who reads one byte whenever a call would block
  makes room for the one that the next call sends, while the -1 takes one off the
  count: the loop goes on for as long as he does, and nobody else is served.
  `InputHandled` is about users who stop reading.
* `config.cpp:108`: a value that begins with a blank or "=" loses it when it is
  saved and read again, and one that ends with a carriage return loses that.
* `config.cpp:52`: a saved line is up to two characters longer than the one that
  was read; from 1024 characters on `getline` fails, and the settings behind it
  go back to their defaults.
* `socket_impl_unix.cpp:157`: `blocking` toggles the flag, which is right only
  because it is called once after each `non_blocking`, or the connection is thrown
  away (`server.cpp:187` returns with the socket not blocking).  `FirstByteBlocks`
  says what commands rely on.
* `socket_impl_win32.cpp:471`: a word of the negotiation in two lumps leaves its
  rest before the first number, as the comment there admits.
* `server.cpp:332` compares the inactive ticks with the keepalive by `==`: an
  interval lowered in the dialog below the current count is never met, and no
  keepalive is sent until something resets the count.
* `server.cpp:334` ignores the result of `sendKeepalive`.
* `server.cpp:66` deletes a socket whose connect failed without closing it;
  each attempt leaks a descriptor.  `LeaksArePaced` bounds how fast, nothing bounds
  how many.  `RecoversFromLoss` is stated for a process that has one left.
* `l2netmgr.cpp:557` speaks of closing connections when "keepalives are disabled",
  the code closes them in any case.  No property asserts either.
* `l2netmgr.cpp:514` speaks of one-second ticks; input makes passes shorter, so
  that the retry may come well before the minute (`RetryInTime` is about the
  other side).
* `cmdfact.cpp:114` searches on behind the length of the placeholder, where the
  argument now stands: in "{0}{0}" with the argument "a" the second placeholder
  remains, where `README.md` says that placeholders are replaced.
  `BuildSubstitutes` asks for room between placeholders of the same number
  (`Spaced`), which the files that come with the program leave.
* `wingui.cpp:90`: after the command "shutdown" of a client the GUI thread stays
  in `GetMessage` until some message arrives, and then waits for the network
  thread with the window still there; if that thread is about to log, the two
  wait for each other for good.  `WinGui` has these states, and its run does not
  check for deadlock for that reason (and because the program ends);
  `ExitCompletes` speaks of the window being closed.
* `wingui.cpp:420`: a connect between the edits of port and address goes to a
  pair nobody configured; `StaleLinkDropped` shows that it does not last.
* `wingui.cpp:425`: a blank address is stored.  From then on `connect_server`
  finds none, and confirming the dialog once more crashes (`NewAddr`).
* `config.cpp:53` dereferences `end()` each time the file is saved.
* `reload` re-reads the command files and not `l2netmgr.conf`, where `README.md`
  speaks of "a configuration file re-read".

## 6. Not modelled

* The text of commands, answers, help and log messages; return codes; answers
  that fill the receive buffer; partial sends to a provider, whose socket blocks.
* Of `init_listener` only whether it succeeds (`WinGui`, `StartFails`): the other
  models begin after it.
* The dialog's edits are single steps in `Server`; `WinGui` splits them.  Saving
  the log to a file and the tray icon change nothing the models know.
* UDP, host names and error texts in the socket library: l2netmgr does not use
  them or only logs them.  `connect` is one step of `Server`.
  `sockets/client.cpp` and `sockets/server.cpp` are samples; of `log.cpp` only
  the waiting is modelled.  The Win32 sockets are modelled with the Unix ones
  where the two agree, which is nearly everywhere, and apart where they do not
  (`SetMode`).

## 7. Plan

Done: every module of the table above.  Left, in this order:

1. Composition: `MainLoop` with `Server`'s tick counters for two providers that
   share `g_reconnect`, in place of the run `loop_clients`.
2. The return codes of commands (`isRawReturn`, the error numbers) between
   `ResponseStream` and the text a client gets.

Runs stay few: one per distinct question, pure algorithms together in one.
