# A TLA+ model of rmtdos-utils

rmtdos-utils controls a DOS machine from a Linux host over raw Ethernet
frames: its screen and keyboard (`tools/cga-web`), and its files
(`tools/file-commander`, and `cga-web --put/--get`). This directory holds
TLA+ specifications of the program, TLC configurations that check them on
small instances, and proofs checked by TLAPS. `CW` stands for
`src/tools/cga-web/src` and `FC` for `src/tools/file-commander/src`.

## The system

| Part | State | Operations | Talks to |
|---|---|---|---|
| Receive pool (CW `server/bufmgr.c`, `pktdrv.c`, `pktrecv.s`) | two linked lists through an array of 1 to 10 buffers | two driver upcalls; get and release | packet driver above, dispatch below |
| Dispatch (CW `server/protocol.c`, `int08.s`, `resident.c`) | none | on each timer tick: drain the pool, then update the screens | all server parts |
| Sessions and screen (CW `server/session.c`) | four session slots, one frame cursor and one checksum for text and for graphics | start or refresh a session; prune; send the next piece of the screen | BIOS clock and video memory, clients |
| File server (CW `server/file_transfer.c`, `int28.s`) | one record `g_file`, with one pending operation | accept a packet (timer); execute the pending operation (INT 28h, DOS idle) | DOS, clients |
| Keyboard injection (CW `client/keyboard.c`, `server/protocol.c`, `lib16/x86.s`) | what the terminal holds; the BIOS keyboard buffer of each host | make a keystroke of what is typed, send it; append it to the buffer | server's dispatch, BIOS |
| Host lists (CW `client/hostlist.c`, FC `net/hostlist.c`) | an array of hosts, numbered as shown | find, register, destroy | launcher, client |
| Remote-control client (CW `client/main.c`, `web.c`) | `g_active_host`, a socket, screen buffers per host | probe, keep alive, show, send keys; serve the screen to a browser | server, terminal, browser |
| File clients (CW `client/file_transfer.c`, FC `net/*.c`) | the operation in progress | put, get, mkdir, delete, rename, copy, list | file server |
| Commander UI (FC `ui/commander.c`) | two panels, the temporary copy of a file that is edited | one command after the other on the remote or the local disk; view and edit | file clients, Linux |
| Launcher (`src/src/rmtdos-utils.c`) | a host list and a socket while it asks | choose a host and a mode, run a program, again | client and commander, in its process |
| TSR life cycle (CW `server/main.c`, `resident.c`, `int2f.s`) | hooked vectors, driver handle | install, detect, uninstall | DOS, BIOS, driver |

What makes it hard:

* **Interrupts.** On the server there are no threads: the packet driver's
  upcalls, the timer handler and the DOS-idle handler interrupt each other and
  the foreground program. `int08_isr` and `int28_isr` never enable interrupts,
  but DOS does inside each INT 21h call. Every DOS call of
  `file_transfer_process_idle` is thus a window in which a tick may hand over
  more packets, which write the same `g_file`.
* **One record for everybody.** `g_file` belongs to whichever client sent
  last; `pending_op` is cleared before the operation is executed.
* **The LAN** loses frames, the pool drops frames when it is full, and its
  ready list is a stack, so that frames which wait together are handled in
  reverse order.
* **Stop-and-wait** (`CW/README.md:193`) with retries after two seconds, or at
  once after an ERROR: every request may be executed more than once, and late
  answers meet the next request.
* **The clock** is the BIOS tick count, which restarts at midnight.
* **One checksum** decides for all clients whether the screen is sent again.
* **One loop.** The client does everything in one `select` loop, which a browser
  that has connected can stop for as long as it says nothing; and the launcher
  runs it again and again in one process, with the globals of the run before.
* **Stale panels.** The commander decides what to ask by listings that other
  programs, failed reloads and its own commands on the other panel make old.

PROJECT.json lists these as hazards at their lines, with the properties that
look for each.

## Modules

| Module | Models | Composed of |
|---|---|---|
| `PacketPool` | what the pool promises: accept, complete, handle, finish | |
| `BufMgr` | the pool as lists of pointers, and the two interrupt contexts | refines `PacketPool` |
| `BufMgrProofs` | theorems about `BufMgr`, and that it refines `PacketPool` | extends `BufMgr` |
| `FilePackets` | packets, ids, the LAN | |
| `FileServer` | `server/file_transfer.c` and the DOS calls it makes | extends `FilePackets` |
| `FileClient` | the clients' file operations | extends `FilePackets` |
| `FileTransfer` | server, clients and LAN together; the properties | extends both |
| `FileTransferProofs` | theorems about types and file handles | extends `FileTransfer`, `SeqLemmas` |
| `OneHostProofs` | theorems about what a client reports complete | extends `FileTransferProofs` |
| `MCFileTransfer` | disks and scripts for TLC | extends `FileTransfer` |
| `Sessions` | `server/session.c`, the screen and its clients | |
| `SessionsProofs` | theorems about `Sessions` | extends `Sessions` |
| `MCSessions` | video modes for TLC | extends `Sessions` |
| `Resident` | installing and unloading the server: `server/main.c`, `resident.c`, `pktdrv_init`, `pktdrv_done` | |
| `ResidentProofs` | theorems about every invariant of `Resident` | extends `Resident` |
| `MCResident` | other resident programs for TLC | extends `Resident` |
| `RemoteControl` | the launcher, host lists, the client's event loop, keystrokes, and what the hosts do with probes and keys | |
| `Picking` | what of a sequence belongs to a set (`SelectSeq` with a set as its test) | |
| `SeqLemmas` | lemmas about `Picked`, `FlattenSeq`, the recursion both are built on, and sequences of anything | extends `Picking` |
| `RemoteControlProofs` | theorems about every invariant of `RemoteControl` | extends `RemoteControl`, `SeqLemmas` |
| `Commander` | the panels and every key of `ui/commander.c` | |
| `CommanderProofs` | theorems about every property of `Commander` | extends `Commander`, `SeqLemmas` |
| `MCCommanderUI` | disks and typed paths for TLC | extends `Commander` |

The modules meet at contracts. `BufMgr` says what becomes of a frame until it is
handled; `FileServer`, `Sessions` and `RemoteControl` use that (a bounded pool
that a tick empties, newest first) without its pointers. `Commander` uses of
`FileTransfer` that an operation that succeeds was done, and that one that does
not may have been done, half done or not done.

Action names are the functions' names where there is one. The correspondence
in detail, line by line, is the `map` of PROJECT.json.

### BufMgr

`next`, `state` and `data` are the fields of `struct Buffer`; `running`,
`upcallPc` and `tickPc` say which context the CPU executes and where the
interrupted one stands. An upcall is two steps with its racy store between:
`AcquireBegin` reads `g_free_list`, `AcquireEnd` unlinks it; `MarkReadyBegin`
sets `next`, `MarkReadyEnd` the head. The timer handler's pops and releases
are single steps, because the code brackets them with cli. `UpcallsMasked`
says whether the driver keeps interrupts off during an upcall, which
`pktdrv.c:27` calls typical; `NestedUpcalls` whether a frame may arrive while
the timer handler sends. `freeSeq` and `readySeq` are history: the lists as
stacks, so that the invariant can say what the pointers spell.

### FileServer, FileClient, FileTransfer

`g_file` has the fields of `struct FileTransferState`. Packet handlers
(`put_begin` ... `path_op`, `Drop`) are one action each, and run while
`ticking`. `file_transfer_process_idle` is cut at its DOS calls: an action
`idle_*` runs from INT 28h or the return of a call to the next call or the
answer; `Dos*` is the call's effect. Between the making of a call and its
effect, and between the effect and the return, a tick may run. The calls that
get, set and restore the disk transfer address have the window of the search they
stand beside, since nothing of `g_file` is read between the two; only after a full
page is the address restored between the last look at `dir_start_index` and the
answer, and that call is a step of its own (`idle_restored`). Handles and
counts are fixed when the call is made; paths and chunks are read from `g_file`
when it has its effect, since DOS reads them through a pointer.

A file is a sequence of chunks, and a short write leaves a `Part`. A client
works through a script, one of `Scripts`; `Timeout` may fire at any time, or with
`Prompt` only when nothing that could answer is under way. Each operation of a
script names its session: the commander keeps one, `cga-web --put/--get` draws
a new one for each run. `LoseRequest`, `LoseReply`, `DosFails` and short writes
are bounded by `MaxLosses` and `MaxFaults`.

### Sessions

A tick is one action: `UpdateNobody`, `UpdateText` or
`session_mgr_send_cga_graphics`; each prunes the table, sends at most one packet
to all sessions, any client of which may lose it, and advances the clock. A screen
is a function from lines to contents, and a line may get back what it had before;
setting a mode clears it. The checksum is the screen: collisions of the 16-bit
checksum are outside the model. `age` and `fresh` are history: `fresh` says of a
client that the screen has changed under its session to something other than
what the last frame found (`LastSent`).

### Resident

`main` runs from one label `pc` to the next, and so does `resident_do_uninstall`
inside the INT 2Fh of a second run. Each read and each store of a vector is a
step, because interrupts are enabled throughout: the invariants hold in every
state, which is what a tick, an INT 2Fh or an upcall at that point meets. `vector`
is the interrupt table and `original` what each program found there, so the chain
of an interrupt is followed as the CPU would, through freed programs too. DOS
(`Exit`, memory blocks), the driver's answers and other resident programs
(`Load`, `Unload`: polite ones) are external. A failing call is recorded in
`failed`.

### RemoteControl

`mode` says which part of the launcher's process runs: `select_host` and
`select_mode` are its two menus, `shell` the remote-control client, `commander`
the other one, of which only the sockets and the host list matter here. Each
opens a socket with a session id of its own, so late answers to a closed one are
ignored; `active` is `g_active_host`, which survives a run in the globals of the
process, and starts with any value. A program that returns an error ends the
launcher with it (`BackInMain`, `Ends`). `TimersProbe` and `TimersKeepAlive` are
`process_timers`, `process_socket_io` the receipt of a STATUS_RESP,
`process_stdin_*` one pass over what the terminal holds: `AltKey` and
`EscapeAlone` read a second character that the user may have typed by then or
not. `web_accept` begins the blocking `recv` of `web.c:207` and
`web_server_process` ends it; in between the loop does nothing.

On a host, `waiting` is its receive pool, `protocol_process` a tick that takes
everything from it, newest first, and `kbd` the BIOS buffer that refuses keys
when it is full. Characters are three digits that are both keys and numbers of
hosts, Escape, Ctrl-] and a key that is not in the table.

### Commander

`disk` has the files and directories of both sides as a function from paths,
sequences of names, to contents. `panel[side]` has the fields of a panel. A key
that only moves about is one action. A command is up to three: the key with its
prompts, where the source, the target and the question are fixed (`Command`);
the answer (`Answer`); and what is done (`Act`), with the reload that follows
success. `Others` may change either disk between any two of them. `Effect` is
what success does, `Damage` what a failure may leave: nothing, a part of the
file, or, over the LAN, all of it without the answer. `edit_remote_selected` is
a sequence of steps (`Fetch`, `Fingerprint`, the editor's saves and its exit,
`Compare`, `UploadEdited`), any of which may fail. Paths are joined and resolved
as `remote_path_join` and `realpath` do, dots included. `listed`, `unsaved` and
two fields of `job` are history.

## Runs

| Run | Instance | Shows |
|---|---|---|
| `bufmgr` | 3 buffers, 6 frames, one oversize, masked, nested | `ListsPartitionPool`, `FrameConservation`, refinement of `PacketPool`, `ReadyIsDelivered` |
| `retries` | two uploads, or rename, mkdir and delete in one session; 1 loss, 1 DOS fault, 3 transmissions, free timeouts | what is reported complete is on the disk, late retries undo nothing; no handle is lost |
| `two_hosts` | an upload beside a listing by another host | the same, and no closed handle is used |
| `commander` | a two-page listing and one operation of each kind, 2 losses, 1 fault, 4 transmissions, prompt | exact downloads, whole listings, what is reported complete is done, no handle is lost, every effect comes about |
| `sessions` | 2 clients, 1 slot, 3 modes, 2 contents of a line, 2 changes, 1 loss, days of 3 ticks | sessions end neither early nor, by day, never; slots are handed on; changes are shown |
| `resident` | 4 runs of the program, 2 other programs, any call fails | chains are whole at every step, the receiver is in memory unless a call leaked it, all or nothing at the prompt, others stay hooked, unloading removes |
| `remote_control` | 3 hosts, list of 2, pool of 2, BIOS buffer of 1, 2 keys, 3 sockets, 1 browser, 1 loss | hosts are listed once and keep their numbers, keys arrive as typed; unless a browser is silent for ever, the chosen one is controlled and its session kept up |
| `commander_ui` | 2 commands between two small disks, 1 fault, 1 change by another program, 2 saves | edits are never lost, panels are current, only what was shown and confirmed vanishes, nothing seen is replaced unasked |
| `download_race` | one download, free timeouts | finding: a retried request is answered with the offset of the next |
| `session_reuse` | two deletions in a session | finding: a late answer is taken for the next operation's |
| `midnight` | a client that leaves before midnight | finding: it is never forgotten |
| `late_joiner` | a client that joins an unchanged screen | finding: it is sent nothing |

The bounds. Three buffers let one be in the driver, one waiting and one in use,
and a stack of two be reordered; six frames exhaust and refill the pool. Files
of two chunks have a first and a last one, and an offset that can be stale by
one; two receive buffers are the program's default and let two packets change
places. Two transmissions are one retry, and make a duplicate of every
request, and a third makes one late by two; `commander` needs four so that two losses and a fault still leave one.
`NoSize = 99`, the size that stands for an error, is longer than any file.
`PageEntries = 2` with three entries makes a full and a partial page. One slot
and two clients make the table full. A mode of three lines, two to a packet,
makes a frame of two packets of different length; the second text mode is
shorter than the cursor of the first may be. Two contents tell a stale line
from a current one, and two changes are one to and one fro. `Lifetime = 1` and `Day = 3` are
the smallest with an expiry by day and a wrap-around. `FILE_RETRIES` (10) and
`DIR_LIST_RETRIES` (5) are one constant. Four runs of the program install, unload,
install and unload it; two other programs that hook different vectors make every
order of hooking. Three hosts and a list of two fill the list before the third is
heard; which of them the user wants is the same by symmetry. A BIOS buffer of one
refuses the second key, a pool of two the third frame; two keys are Escape and
what follows it, or two that change places; three sockets are the launcher, the
client and the launcher again. In `commander_ui` the second command meets what
the first has left on the disks and the panels; a subdirectory, paths with a dot and a name on
both sides make every case of the path operators; two saves in the editor tell
the last from one before it.

Deadlock is not checked in the file runs: when all scripts are finished nothing
is left to happen; nor in `resident`, which ends after `MaxRuns`, nor in
`remote_control` and `commander_ui`, where the user may end the program. In `bufmgr` and `sessions` the timer always ticks.

Fairness. The timer interrupts for ever, so a tick that can go on goes on
(`WF` on `Tick`, on `TickBegin` and the packet handlers, on
`session_mgr_update_all`). DOS calls return, and DOS is idle again and again
(INT 28h), so `process_idle` goes on. A client's `select` returns and its timer
sends SESSION_START, so clients go on. `main` waits for nothing, so a program that
was started ends or goes resident. In `remote_control` the client's timers,
socket, terminal and the hosts' ticks go on. Nothing is assumed of browsers: that
none which has connected keeps silent for ever is `BrowsersSpeak`, the premise that
`AutoConnects` and `KeepsAlive` state. `Sessions` takes SESSION_START for granted
(`WF` on `session_mgr_start`), which is what `KeepsAlive` says, under its premise.
Nothing is assumed of the driver's
frames that are still being copied, of the user, or that a lost frame gets
through: `EffectsHappen` holds because losses and faults are fewer than the
transmissions, which is what retries are for, and because with `Prompt` a
timeout means that something was lost.

What the file properties do not claim: a client may report failure although
the operation was done (its last answer was lost); an upload with a short write
is retried behind the part that was written, so short writes are in copies only;
two hosts transferring at once can end an upload as complete with a damaged file
(hazards in PROJECT.json), which is why `two_hosts` has one transfer and one listing.
`NoHandleLost` is checked with one host, without listings (`retries`) and with one
(`commander`): DIR_LIST_END of another host forgets an open upload, and its handle
with it.

What the other two do not claim. A list that others have filled keeps the wanted
host out (`AutoConnects` says so). Keys that wait for the same tick reach DOS in
reverse, and a key may be lost: they are not acknowledged. Ctrl-] right after
Escape is swallowed. Escape Escape goes to DOS as Alt-Escape, whether the user
meant Alt or not; what the README (`README.md:152`) calls Alt-Escape ends the client only
where the terminal delivers it as the one character 0x9b. A target typed with a directory is not found by
`remote_name_exists`, so nothing is asked before a DOS file there is replaced.

Four behaviours of the code are known and not runs. With `UpcallsMasked = FALSE`
in `MCBufMgr.cfg`, `ListsPartitionPool` fails, because the upcall and the timer
handler race for `g_ready_list` (a driver that enables interrupts is outside
what `pktdrv.c:27` expects). `pktdrv_init` leaves the driver a receiver in
freed memory when get_address fails, which `ReceiverIsThereUnlessLeaked` excepts.
A line that changes, is sent and changes back before the next frame begins
leaves the checksum as it was (`session.c:226-228`), so no frame follows and the
clients show the line as sent for ever; `ChangesAreShown` claims a frame only for
what differs from `LastSent`, and TLC finds this case when `fresh` leaves
that comparison out. And a browser that connects and says nothing, as an idle
preconnection does, stops the client for ever in the `recv` of `web.c:207`, which
has no timeout: keep-alives end, and the session on DOS expires. TLC shows it when
`KeepsAlive` or `AutoConnects` is checked without `BrowsersSpeak`.

## Proofs

`BufMgrProofs`, for every number of buffers and frames, assuming
`UpcallsMasked`: `TypeCorrect`, `PoolIsPartitioned`, `FramesAreConserved`. The
invariant `IInv` adds `MaskedContexts` to the three: what an upcall has read at
its beginning still holds at its end, because nothing runs in between. Lists are
proved about as the sequences they spell (`PushSpells`, `PopSpells`): linking a
buffer that is not a member pushes it, and unlinking the head pops it.

Its last theorem is the refinement, `PoolIsImplemented`: every step of `BufMgr` is
a step of `PacketPool` or a stutter, where the pool is given by the states of the
buffers and the ready list as a sequence. The store that links or unlinks a
buffer is the abstract step, and what comes before it in an upcall a stutter. `IInv`
is needed, because only the partition tells that an empty free list means that
no buffer is free, and that the head of the ready list is the newest frame.

`SessionsProofs`, for every set of clients, table size, lifetime, length of the
day and set of video modes: `TypeCorrect` (with it, that no packet reaches
beyond the frame after any switch of modes), `NoSecondSlot`, and
`SilentSessionsOnly`: nobody's session is pruned before a lifetime of silence.
The last needs `AgesOnTheClock`: a slot that is not in the clock's future is no
older on the clock than its client has been silent. It holds across midnight,
when all slots come to lie in the future, and a refresh restores it only because
no client has two slots (`OneSlotEach`). Assumptions: `SessionsAssumption` (sizes
are positive, the set of clients is finite) and `NoClientAssumption`.

`RemoteControlProofs`, for any hosts, list length, pool and buffer sizes, keys,
runs, browsers and losses: `HostListStaysSound` and `NumbersAreKept`. The
invariant `HostListIInv` adds that a host has been chosen while a program is
selected and runs: otherwise an answer whose address equals that of no host
could set `g_active_host` to a free slot. `TypeCorrect`, `KeysAreSentAsTyped` and
`OrderAcrossTicks` rest on `KeyIInv`: the numbers of the keystrokes that wait in a
pool are greater than those of all batches handed to that host's DOS before. It
is inductive because a tick empties the pool whatever it finds there, so that
what comes later was sent later. `Picked` and `FlattenSeq` are recursive:
`SeqLemmas` shows that a recursion on 0..N has one solution
(`RecursionHasSolution`, `SolutionsAgree`), and from it what appending one element
does to each.

`CommanderProofs`, for any disks, prompts, commands, failures and writes of other
programs: `NoEditIsLost`. Drafts are numbered, and `DraftIInv` says that whatever
is on a disk or in a temporary copy is no draft still to come. A draft saved now
therefore differs from what the file was before the editor ran, so `Compare` does
not take the copy for unchanged and remove it. In the code the fingerprint is a
hash and a size; that it tells two versions apart is assumed.

The other properties of `Commander` (`TypeCorrect`, `ListingStaysCurrent`,
`OnlyShownVanishes`, `NothingSeenReplaced`) rest on `CommanderIInv`. The disks stay
trees under every command, and a rename of a directory with all below it
(`RenameKeepsTree`) is the hard case: of no two moved paths is one the other's
place (`RenamedApart`), and the parent of a moved path has moved too
(`RenamedParent`). `PanelsAreSound` says that the path of a panel is that of its
entries or the panel counts as not loaded, so that a command never joins a new
path with an old name. From it `RemovesShown` follows for a command under way, and
from what `copy_selected` and `rename_move_selected` look at before they ask,
`ReplacesAsked`. `Standing` is needed for the listings: `local_panel_load` returns
early when the directory is gone, and no command can take it away, since what is
deleted or renamed lies in that directory. `Allowed` sums up what a command may
leave of a disk, whether it succeeds or fails half way. Assumption:
`CommanderAssumption` (the disks are trees at first and hold no draft, `.` and `..`
are no names of entries, and a prompt gives at least one name).

`FileTransferProofs`, for any number of hosts, scripts, losses and DOS faults:
`NoHandleIsStale`, `TypeCorrect`, and, where no script asks for a listing,
`NoHandleIsForgotten`. `HandleIInv` says that `g_file.handle` is open or none, except
from the closing of one file to the opening of the next (`Replaced`), where
the code does not look at it; that the call under way was made with the handle
it is for, whatever a tick has written to `g_file` since; and that the two handles
of a copy differ from each other and from that of a transfer in progress, so
that closing one leaves the other open.

`TransferIInv` adds what goes round between the parties. Requests are typed
wherever they wait (`RequestsAreSound`), answers as far as a client builds on what
they hold (`RepliesAreSound`), the server's transfer and the calls of its operation are
(`ServerIsSound`), and what each client waits for fits its operation
(`ClientsAreSound`). None of these is inductive alone: a client's offset
is taken from an acknowledgement, and the server's from a request. A client that
waits for a page of a listing must never take an acknowledgement for it, which
holds because every acknowledgement carries one of the commands in `Ack`.
`AllAreKept` is the strengthening of `NoHandleLost`: every open file is in
`g_file.handle` or one of the two handles of a copy until it is closed, or in AX when the
call that opened it has just returned, and a transfer that is not active has
none, except while a download's size is read and while a file is being closed. Its hypothesis is `NoListings`:
`dir_list_begin` and `dir_list_end` set and clear `g_file.active` without looking at the
open file, so that with listings the last part is not true. Assumptions: the
named ones of the modules, of which handles need that they are numbers other
than `NoHandle`.

`OneHostProofs`: what the user of a file operation is told is true. Downloads are
exact (`DownloadsAreExact`), listings whole (`ListingsAreWhole`), and what is
reported complete is done and stays so (`CompletesAreDone`), for any names,
directories, scripts, pool and page sizes, losses, retries and failing calls, under
the hypotheses below. All three rest on `OneRequestAtATime`, which says that
stop-and-wait does what it is for. `OneHostIInv` is its strengthening:

* `InOnePlace`: the request a client waits for is nowhere (lost, or refused), on the LAN,
  in a receive buffer, pending, at DOS, or answered; in all other places are only
  packets that nobody answers. It is inductive because a client sends again
  only when nothing is left that could still answer.
* `Holds`: what `g_file` holds of a pending request, or of one at DOS, is what was
  asked for. No packet can change it meanwhile, because none comes.
* `Running`: what the DOS calls made so far have found or done: where the file
  stands, how much of a copy is written, which entries have been seen.
* `ReplyFits`: what an answer under way says, and what it means for the disk.
* `OperationIs`: how far the client is, in its results and on the disk. A chunk of an
  upload whose answer was lost has been written or has not; the offset check of
  PUT_DATA is what makes the retry right in both cases.
* `DiskIs` and `Reported`: names no operation has changed so far are as they were
  at first, and those of a completed one are as it left them.

The hypotheses. `OneHost`: all hosts are one, and `Prompt`; `download_race` and
`session_reuse` show what a late answer does, and the hazards what two hosts do.
`ReadsFirst` (downloads, listings): a script does not change what it reads
later, so that what was read can be compared with the disk as it was at first.
`ListsFirst` adds that a page which the server fills is full for the client; both
compile the same number in. `Separate` (`CompletesAreDone`): no operation is meant to
undo another, no file is renamed to its own name, and no upload is cut off inside a
chunk by a full disk, which a retry would not repair. The run `commander` satisfies
them all. `DiskAssumption` says that the directory is finite, that its names are
different, and that no file is as long as `NoSize`, the 2^32 - 1 bytes with which
`dos_get_file_size` reports an error (DOS allows 2^31).

`ResidentProofs`, for any number of runs, any finite set of other programs, any
vectors they hook and any calls that fail: every invariant of `Resident`
(`TypeCorrect`, `ChainsStayWhole`, `ReceiverStaysUnlessLeaked`, `InstalledOrGone`,
`NobodyIsUnhooked`). Only `ResidentAssumption` is assumed. A chain is proved about
as the stack of programs it spells (`Hangs`): hooking pushes one, restoring the
first pops it. `Holders(v)` tells from memory, `pc` and the place in the loop
exactly who is in the chain of `v`. `OnTop` is needed because
`restore_interrupt_handlers` looks at no vector: what the loop has still to
restore was checked by `resident_uninstall_check` or hooked by this very run, and
other programs cannot load in between. `Receivers` says that whoever is installed
is the one receiver, so there is at most one; `Unleaked` what main leaves behind
when no call leaked the receiver. `Chain` is a recursive function: `SpelledChain`
gives its value outright and shows by induction, over the set of places where two
candidates agree, that there is no other.

Only model-checked: all liveness (fairness and ENABLED are beyond the prover);
`NoHandleLost` where listings are asked for (`commander`), which holds for one host only; and
`CompleteIsDone` beyond the hypotheses of `CompletesAreDone`, that is with late
answers (`retries`) or beside another host (`two_hosts`), where it holds for the
scripts of those runs and not for all: `session_reuse` is the counterexample.

## Not modelled

* The limits `MAX_LOCAL_ENTRIES` (FC `ui/commander.c:140`) and `max_entries` of
  `remote_dir_fetch`, which cut longer listings; what a page that fails leaves in
  `remote.entries` (FC `net/remote_dir.c:131`), which nothing uses while the panel
  counts as not loaded. In `FileTransfer`, more than one
  directory, renaming a file that is open, the order in which DOS lists a
  directory (any fixed one), the local Linux file, path lengths and file names.
* The select timeout that restarts with every unrelated frame
  (CW `client/file_transfer.c:33-44`).
* PING, which no client sends; probing the interrupts for a packet driver.
* Video modes set without clearing the screen.
* The key table beyond known and unknown keys, shift flags, what is drawn and
  what a browser is sent, command-line options.
* The commander run on its own, with its own host selector and keep-alive: the
  list is the same code as the client's, and the rest is modelled.
* The 16-bit library and the demos, which have no protocol or shared state.

## Plan

1. Done: the pool, its proofs and its refinement; sessions and their proofs;
   file transfer, the proofs about its types and handles.
2. Done: the life cycle of the resident program.
3. Done: keys, host lists and probes from the launcher on; the commander and the
   remote edit, with their proofs.
4. File transfer with two transfers at once and short uploads, to say exactly
   when an upload reported complete can be damaged; DOS file handles per
   program, with the user starting another one during a transfer.
5. Done: the proofs of what a client reports complete, from the hypotheses of the
   run `commander` (one host, `Prompt`).
