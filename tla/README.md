# Verification of the PYNQ AES music player

TLA+ models of the whole path of a byte on the PYNQ board: the C++ program in
`src/app` that plays and encrypts audio files, the DMA library and the two kernel
drivers under it, and the circuits behind those - with proofs about the most
delicate of their protocols. Run them with `tlc -config aes.cfg MCAesTransfer`
and so on (one `.cfg` per question), and `tlapm AesTransferProofs.tla` and so on.

## 1. The system

One process with a main thread, a UI thread, a player thread and one short-lived
thread per encryption or decryption; three AXI DMA devices behind a character
device (`xilinx-axidma`), one for audio and one for each direction of the AES
core; a command FIFO (`axis-fifo`) to the audio codec's SPI port.

| Component | State | Operations | Talks to |
|---|---|---|---|
| `main` | terminal settings, pipe to the UI | start-up, SIGINT handler, join, restore | UI (end of file on a pipe) |
| `ui_thread` | entries with tags, running jobs, pipes | keys, player messages, job results, exit | player (pipe), jobs (one pipe each), navigator (calls) |
| `directory_navigator` | entries, selection, scroll window | open, navigate, tag, suffix, print | UI |
| `player_thread` | the command being served | PLAY, STOP, VOLUME, EXIT | codec (calls), UI (pipe) |
| `adau1761` | `is_busy`, rate, volume, `dma_memories`, current buffer | init, request, release, play, stop, volume, destroy, completion | libaxidma, SPI FIFO |
| `aes_thread` | status, `_aes_mutex`, `_aes_cond` | run, completion callback, status | aes (calls), UI (pointer through a pipe) |
| `aes` | per direction: `is_busy`, `dma_memories`, current transfer, `state_mutex`, key register | init, transfer, completion, destroy | libaxidma |
| `virtual_file_wrapper` | offset into a buffer | seek, read, write, tell | libsndfile |
| `libaxidma` | channel lists, callbacks | init, destroy, malloc, free, register, transfers, stop, signal dispatch | driver (ioctl, mmap) |
| `xilinx-axidma` | channel table, allocations, callback data per channel | probe, remove, mmap, munmap, transfers, stop, completion | device tree, dmaengine, signals |
| `axis-fifo` | wait queues, flags, packet sizes, the ioctl lock | probe, remove, open, close, read, write, poll, ioctl, sysfs, interrupt | FIFO registers |
| RTL: SPI master, I2S slave, AES streams | small state machines | one step per clock | AXI streams |

**What is hard.** A DMA completion is a real-time signal sent to the thread that
issued the ioctl (`axidma_dma.c:167`): the callback runs *on top of that thread*,
between any two of its instructions, takes locks there and changes the lists the
interrupted code works with. Commands and replies cross in pipes. The UI's only
memory of what plays are tags, which messages change later. Errors take early
exits out of half-finished work. The end of the program is a race between
closed pipes and outstanding replies. The drivers serve several processes at
once with hardly a lock: a time-out races with the completion, a reset with a
transfer, an interrupt status is cleared after it has been served. Probe can
fail at each of its steps. The circuits cross clock domains and hand words over
by signals registered one edge earlier.

**What makes each part correct.** *aes*: one transfer at a time per direction;
buffers freed once; an output only receives its own data; a result that tells
the truth; every wait ends. *adau1761/player*: what plays is a whole track at
its rate, `is_busy` follows the device, replies are true, memory is returned,
EXIT leaves silence. *UI*: the tags agree with the device once messages have
settled; one preparation at a time, which ends; SIGINT ends the program.
*Drivers*: allocations and lists stay consistent under concurrent callers, a
completion reaches the waiter of that transfer, no call keeps a lock. *RTL*: no
word lost or duplicated between the two handshakes.

## 2. Modules

| Module | What it models |
|---|---|
| `AesTransfer` | one direction of the AES engine: `aes_thread::run`, `aes::_do_transfer`, `aes::_dma_callback`, the device |
| `AesTransferProofs` | theorems about it: the lock, then the engine under the lock |
| `Player` | `player_thread::run`, `adau1761`, the audio device; the other end of the pipes is an arbitrary client |
| `PlayerUI` | extends `Player`: `ui_thread::run`, the tags, jobs as results, `main`, SIGINT |
| `PlayerProofs`, `PlayerUIProofs` | theorems about them: the player with any client, then with the UI as the client |
| `PacketChannel` | abstract: what `read()` of the stream FIFO promises |
| `AxisFifo` | `axis-fifo`: life of the driver, file operations, interrupt handler; refines `PacketChannel` |
| `AxisFifoProofs`, `AxisChannelProofs`, `AxisWriteProofs` | theorems about it: the lock and the mapping, the refinement of `PacketChannel` by its receive side, then its transmit side and the wake-ups |
| `AxiDma` | `xilinx-axidma`: device tree, probe, memory, transfers, the engine under them |
| `LibAxiDma` | extends `AxiDma`: `libaxidma` in several processes |
| `LibAxiDmaProofs` | theorems about the two: the driver under its library |
| `SpiMaster`, `I2sSlave`, `AesStream` | the three circuits, one clock edge a step |
| `CircuitProofs` | theorems about each of them |
| `MC...` | values and symmetries for TLC; `MCCircuits` puts one circuit at a time on a bench |

`AxiDma` is what `AesTransfer` and `Player` assume of their device (one callback
record per channel, a stop that drops the descriptors), seen from the driver's
side; `AxisFifo` and `SpiMaster` are the way of a codec command, `I2sSlave` and
`AesStream` the ends of the two DMA streams.

Definitions carry the source's names where there is one; definitions introduced
with "Mutant" are wrong variants of the definition that follows, no behaviour of
the model uses them: each is there to show that some property notices the
mistake.

### AesTransfer

Every thread has a program counter `pc` for `run` and `_do_transfer`, and a
second one, `hpc`, for the signal handler on top of it; while `hpc` is not
`"off"` the program below is suspended (`Goto`). A step is the code between two
points where another thread, the handler or the device can make a difference.
The signal goes to the thread that submitted *last* on the channel, because the
driver keeps one callback record per channel (`Complete`). Real-time signals
queue, so they are counted. `current_transfer.job` stands for the output path,
output buffer, callback and parameter, which always change together. Data is the
identity of the thread whose input it is; `Partial` is an output file that did
not open or whose write failed: the streams do not throw, so the handler reports
success all the same (`WriteFailed`; the violated run `aes_output`).

* `state_mutex` and `_aes_mutex` are default pthread mutexes: an unlock by a
  thread that is not the owner releases the lock (glibc's behaviour of what
  POSIX leaves undefined). `_aes_mutex` is a Boolean: only its own thread and a
  handler lock it.
* `defects` records that the protocol was broken: `busy_rejection`, when a
  thread was turned away by `is_busy` (its catch block then clears the `is_busy`
  of the running transfer, aes.cpp:258), and `foreign_unlock`, when the second
  unlock (aes.cpp:265, or 259 after a failed start) released someone else's
  lock. After either, nearly nothing can be relied on. `Clean` means neither has
  happened yet. Two threads can start, run and finish one after the other, or
  interleave up to the defect, in `Clean` states.
* Not modelled: the `INTO` output with a buffer that is too small is one of
  the reasons of `SetupFails`; `init` and `destroy` run before and after.

### Player

`pc` walks through `player_thread::run` and the codec's functions. The thread is
alone with its signal handler, so the handler is one atomic step; but it may
come between any two steps. `completion` says where the completion of a transfer
is: `"taken"` by the driver's tasklet, which is about to send the signal (`Complete`,
then `Signal`), `"fresh"` when the signal has been sent, `"due"` once the thread has
passed a system call since, and then nothing but the handler can run: a pending
signal is delivered, at the latest, on the return from the next system call.
`dmaengine_terminate_all` (axidma_dma.c:653) drops the descriptors, not a completion
that has been taken: its signal may come after `stop()` has freed the buffer, or
even after the next track has been started. `Unmapped` is
`munmap`: a size that is too small leaves the rest mapped. `mapped` keeps
distinct base addresses; an unmap never reaches into a neighbour. `defects`
records an allocation at an address with a stale entry
(`stale_entry_reused`), a start that failed unnoticed (`start_failed`), a track
that ended before its reply was sent (`ended_before_reply`), and a completion that
was still to come when `stop()` was through (`late_completion`): the handler then
frees the buffer of whatever is current and reports a STOP. `InTime` is its absence.
Assumptions: the PLL locks; libsndfile returns either a track of `SizeOf` and
`RateOf`, or nothing. Bound of the model: one completion at a time, which never
binds while `InTime` holds.

### PlayerUI

One action per key, per message and per result. The code serves the descriptors
`select` reports in a fixed order; here any order is possible, which only adds
behaviours. An `aes_thread` is an element of `jobs` until its result is
collected. SIGPIPE, when a reply or result is written after the UI has closed
its ends, kills the process (`killed`). `tags_lost` becomes true when an entry's
tag is reset or read uninitialised. `UIClean` is the condition under which the
display can be trusted: no tag lost, no failed start, no track that ended before
its reply or after its `stop()`. `WriteOwed` says that somebody still has to write to
a pipe whose reader the UI closes when it exits: then SIGPIPE may end the process
with the terminal still raw.

### AxisFifo and PacketChannel

A process has a `pc` that stands before the next register access; an interrupt
is served in one step and its status cleared in another (`irq` holds it in
between), because a packet may arrive between them. The core is a record of its
two FIFOs: words, the lengths of the packets in them, `claimed` for the words
whose length has been read, `isr` and `ier`. `skewed` (history) holds the
directions whose words and lengths no longer agree. `disturbed` marks the
transfers that have met another one of their direction or a reset: the code
locks only the wait, so the promise of `read()` is to undisturbed readers.

* The wait queues are `asleep`; a sleeper is woken by `IrqServe`, by another
  process that passes or gives up its wait (the pollers wait on the lock queues as
  well), by a time-out or a signal (`GiveUp`). `late` marks the sleepers whose wake-up the code can lose: a status
  cleared after it was served, the last write of `reset_ip_core`, a reset that
  makes room silently, a changed threshold.
* The open flags are the device's (`read_flags`, `write_flags`), as in the code.
* `ioctl_lock` is a global of the module: it outlives a failed probe.
* A packet is a payload with a length in bytes; the copies of a transfer are
  `Copies`: pieces of the buffer, then the left-over bytes in a word of their own.

`PacketChannel` has a queue of packets, and readers that are idle, ready, have
taken the oldest packet, have copied it, or are torn. `ImplementsChannel` is its
specification under the mapping `ReadOf`: an undisturbed read returns the oldest
packet whole, and after every reset words and lengths agree again.

Bounds of the model: a call begins once probe has ended, probe is not repeated
while a file of a failed one is open, the module is removed only by unloading.

### AxiDma and LibAxiDma

A call into the driver is the list of its steps `todo[p]`: prepare, submit,
issue, wait, each a step of its own, and `terminate` when one has failed. The
engine is external: per channel a queue of descriptors with cookies, a callback
that is taken off the queue in one step and runs in a later one. `cb_data` is
the one record per channel that the callback looks at. A struct completion on
the stack of a call is named by its process; `Return` is the moment it is gone.

Memory is a region; user addresses count regions. `dmabuf_list` and
`external_dmabufs` are the sequences of the code, searched from the newest
entry, across all processes: an address that two processes use finds the newest
owner's memory. History: `finished` (the hardware has done the transfer awaited),
`stopped` (another call has terminated the channel), `exposed` (memory given
back under a transfer, or found under another's address), `excused` (channels
whose callback may find its target gone: overlapping transfers, a process that
has left, a termination while the callback ran, and every channel of a call that
a completion of another call has woken: it may return before its own
transfers are done).

Probe acquires its resources in order (`ProbeOrder`) and may fail at each;
`Unreleased` says what the code then leaves behind. `Tables` are the channel
tables a device tree may lead to: a node without `compatible` keeps whatever the
memory held.

`LibAxiDma` opens the device in any process - `axidma_open` demands O_EXCL,
which excludes nobody -, sorts the channels (`Categorized`) and makes the calls.
A process gives its mappings back one by one (`axidma_free`), by itself or when
the kernel tears them down at its end, and then leaves; one that an assertion of
the library has aborted does so before another process can take its place.
Bounds of the model: at most `MaxTransfers` descriptors on a channel
(`WithinBound`, asked when a call begins); the library is the only client of the
driver; memory is unmapped as a whole; a buffer is registered once; VDMA channels are used by the
video call only; a call is not interrupted by a signal.
Left out: the signal number and user data, the frame geometry of VDMA,
`axidma_put_external`, which no ioctl reaches.

### The circuits

One step is one clock edge. Data are names: a bit is its word and its position,
so that a lost, doubled or exchanged bit shows.

* `SpiMaster`: the state machine moves once in `Period` edges, the stream may
  hand over a word at every edge. `torn` marks the words that a reset has cut.
* `I2sSlave`: the codec drives bit and frame clock; half a period of `bclk` takes
  `HalfMin` to `HalfMax` edges of the stream clock, so the two domains drift.
  `due` is the bit that the codec should sample next of the word taken while the
  window was open; a word that comes later is torn or lost, and nothing tells.
* `AesStream`: S_AXIS, the pulses of the top module, the counter of the cipher
  and M_AXIS, for both variants.   The DMA channel, the FIFO and software may otherwise do at any edge what their
  interfaces allow; setting the control bit resets the FIFO as well
  (AXI_aes_core_v1_0.v:237, 269), which drops what is in it. The order of the words
  and their keys are promised whatever they do. That a word handed over is sampled,
  that S_AXIS does not wait for ever and that the FIFO takes what is put out is
  promised until `disturbed`: the control bit has been set among words (`Occupied`),
  taken back before the circuit has seen it, or a word was offered while it was set.
  A set-up request in one edge of S1 makes S_AXIS wait for ever, and a word in M_AXIS
  is lost when the FIFO is in reset. In clean states the AES engine never does it:
  `config_reg` is off while a transfer is on the channel (`KeyStable`); after a BUSY
  rejection it may. Registered TREADY loses a word in two cases even then (`Lost`):
  a word first offered in the edge after M_AXIS has become busy, and one offered in
  the very next edge after another, which the DMA, whose memory port is half as wide
  (`audio_player.tcl`), does not do.
  `discard_result` is computed but not used
  (AXI_aes_core_v1_0.v:236, 268).

## 3. Runs

| Run | Shows | Bounds |
|---|---|---|
| `aes` | 12 properties of the engine, safety and progress | 2 threads, 3 buffers |
| `aes_output` | **violated**: SUCCESS although the output was not written | 1 thread, 2 buffers |
| `aes_wait` | **violated**: a thread can wait on itself for ever | 1 thread, 2 buffers |
| `aes_exclusion` | **violated**: `state_mutex` does not exclude | 3 threads, 2 buffers |
| `player` | 7 properties of player and codec | 3 tracks, 2 addresses, 3 messages in pipes, 2 entries |
| `player_stop` | **violated**: `stop` frees with a stale size | same |
| `ui` | 6 properties of the whole player | 2 tracks (one encrypted), 1 job, 1 address |
| `ui_one_play` | **violated**: two preparations at once | same |
| `ui_display` | **violated**: PLAYING although silent | same |
| `axis` | 6 properties of the stream FIFO driver, the refinement among them | 2 processes, 1 payload of 6 bytes, 4 words to receive, 3 to send |
| `dma` | 6 properties of library and driver | 2 processes, 9 device trees, 2 channels, 2 regions, 2 transfers |
| `circuits` | 3 properties, one per circuit | words of 4 bits (SPI) and 8 bits (I2S), divisor 4, 2 to 4 edges per half `bclk`, AES words modulo 3 |

The properties, in short (each is commented where it is defined):

* `aes`: mutual exclusion while the protocol is intact; `is_busy` exactly while
  one transfer is ongoing; mapped buffers = registered buffers = those of the
  operation under way; the device only touches mapped buffers; an output gets
  only its own data; the callback reaches the thread that waits for it; a
  handler never waits for a lock of the code it interrupted; the result is true
  but for a file that could not be written (`WriteFailed`, hence `aes_output`);
  the key register is off under a transfer; the first rejection is justified; a
  started operation ends.
* `player`: `WholeTrackPlayed`, `IdleIsSilent`, `NothingLeaks`, `ReplyTruthful`,
  `CompletionMatchesTransfer`, `ExitIsClean`.
* `ui`: `DisplayAgrees`, `PreparingIsPending`, `PlayingIsKnown`,
  `PreparationEnds` (of a preparation that does not wait for its job, in `UIClean`
  states), `InterruptEnds` (in every state: SIGINT ends the program, and restores
  the terminal unless a write is owed to a closed pipe).
* `axis`: `NoUnmappedAccess`, `NoLostWakeUp`, `LockHolder`, `WritesWhole`,
  `ImplementsChannel`.
* `dma`: a wait that succeeds is for its own transfer (`SuccessIsOwn`); after a
  call has waited or failed nothing of it is left on the channel
  (`ReturnsQuiet`); the hardware works on memory its process owns
  (`DmaOnOwnMemory`); the callback's target is alive (`CallbackTargetAlive`); the
  channel table fits the library's arrays (`TableSound`).
* `circuits`: bits in order, packets apart, received words whole
  (`SpiTransfersWords`); a word taken in time is played to its last bit
  (`TakenWordPlayed`); words leave enciphered in order, under their key, whatever
  the environment does, and each of them arrives unless it is one of those named
  above (`WordsEnciphered`).

**Why the bounds are enough.** Every property of the engine relates at most two
operations: the one that acts and the one it disturbs; the third buffer makes
the second operation run out of memory half way, and a third thread is only
needed for the violated exclusion (who holds, who unlocks, who enters). The
player works on one command and at most one transfer; two addresses let a
buffer get an address that was used before, and one that was not; the three
tracks differ in size and rate, one has a rate the PLL table does not know; two
stale entries let the first of several matter. `MAX_VOLUME` is 2 for 63: the
saturation only compares. After a late completion the client of run `player` sends its
next command when the pipes are empty (`OneAfterLate`). In the UI, one job lets every
result meet every state of the player; the two tracks are of one size and rate,
since run `player` has the ones that differ. Three action constraints of `MCPlayerUI`
keep run `ui` small, none of which asks for `UIClean`: an arrow is pressed when all
that was asked for before has been served, and so is every key once `UIClean` is
lost; a directory reopened while the program runs forgets its tags (the entries of
the first one have any value); a completion is late only while nothing else has gone
wrong and no job is under way, and no key follows it. They bound the keys, what reopened
entries happen to hold, and how many things go wrong at a time: `InterruptEnds` is
checked in states with lost tags, failed starts, tracks that ended early and late
completions, one after another or alone.

The driver's properties relate at most two processes as well: the one that
waits, reads or owns, and the one that resets, stops or leaves. In `axis`, 6
bytes are a full word and a left-over with a buffer of one word (both copies of
`Copies`), two packets fit the receive FIFO and one and a half the transmit FIFO;
one core only receives, the other only sends, so that refused opens and register
accesses without effect occur; `SRR` stands for the raw accesses by ioctl and
sysfs (an instance with `TDFD` was checked as well). In `dma`, two transfers are
one two-way call or two calls that overlap (three were checked as well, without
a difference); the trees are the player's AES channels, a display, and one
mistake of each kind; `BuffersOf` gives the display tree the external buffer and
the second address. In `circuits`, a word of four bits has a first, a last and
two middle ones; widths 3, 4 and 8 with divisors 1, 2 and 4 were checked as
well. Words are numbered modulo 3, more than are ever under way.

**Deadlock** is not checked in the runs of the program (each AES thread runs
once, and the process ends), in `axis` (a file of a failed probe has no device any
more) and in `dma` (after a leak, with a tree that does not parse, nothing is left
to do); it is checked in `circuits`, where every edge has a successor.

**Fairness.** Threads and handlers are scheduled (weak fairness of the program
and of the handler of each thread), the device finishes what it was given and its
completion arrives, the UI loop returns to `select` and handles what the player has
written and the end of main's pipe. Nothing is assumed about keys, SIGINT, spurious
wake-ups and, in `PlayerUI`, the ends of AES jobs: a job may hang (run `aes_wait`), and
then its entry stays PREPARING and no track can be started any more. No action needs
strong fairness: a lock that is free is contended by at most two threads, which both
run once.

**What the violations say.**

1. `aes_wait`: the completion signal may interrupt `run` while it holds
   `_aes_mutex` (aes_thread.cpp:46-49); the callback locks it again
   (aes_thread.cpp:6). `OperationEnds` shows this is the only way an operation
   hangs before the locking protocol is broken.
2. `aes_exclusion`: unlock at aes.cpp:238, another thread locks, unlock at 265
   releases its lock, a third enters. (Unlock at 238 itself is needed:
   `HandlerNeverBlocksOnItself`.)
3. `player_stop`: `adau1761::stop` frees the buffer and keeps its entry.
4. `ui_one_play`: a finished encryption reopens the directory, forgetting a
   PREPARING tag.
5. `ui_display`: the completion's STOP overtakes the reply to PLAY.
6. `aes_output`: `_dma_callback` writes the output through a `std::fstream` that does
   not throw, so `is_success` stays true when the file does not open or the disk is
   full (aes.cpp:126-134), and the UI renames the result over the original.

Other things the models have in them as the code does, without a run of their
own: AXIDMA_UNREGISTER_BUFFER has number 10, which equals AXIDMA_NUM_IOCTLS, and
`axidma_ioctl` (axidma_chrdev.c:381) refuses numbers from there on, so that
`axidma_unregister_buffer` ends in `assert(false)` (libaxidma.c:452); the error returns
of the FIFO's ioctl keep its lock; a failure while
parsing the device tree leaks two arrays, and one while making the device name
leaves the channels requested, so that no later probe succeeds; a failed receive
preparation leaves the transmit half of a two-way transfer submitted;
`axidma_video_transfer` answers 0 whatever happens.

## 4. Proofs

`AesTransferProofs`, for every set of threads and buffers (assumption
`ConstantsAssumption`: the null values are no elements of the sets):

* `TypeCorrect`: `Spec => []TypeOK`. `TypeOK` alone is not inductive: a transfer
  on the channel must hold real buffers, so a thread that reads its input or
  starts a transfer must have its locals set (`LocalsSet`).
* `LockCorrect`: the inductive invariant `LockInv`, three facts. `OwnerInside`:
  the owner of `state_mutex` is inside a section written for it.
  `SignalsAfterStart`: transfers, pending signals and running handlers belong to
  threads past `StartTransfer`, so a handler never runs on top of a setup.
  `InsideOwner`: in `Clean` states a thread inside is the owner. The last needs
  the first two: an unlock in a `Clean` state is by the owner or of a free lock,
  and the handler's lock and its thread's sections cannot overlap.
* `CleanExclusion`: `CleanMutualExclusion`, from `InsideOwner`.
* `HandlerNotBlocked`: `HandlerNeverBlocksOnItself`, without any condition on
  the protocol, from `OwnerInside` and `SignalsAfterStart`.

The second half of the module, on top of these and for the same constants: the
engine as long as the locking protocol is intact (`Clean`):

* `EngineCorrect`: the inductive invariant `EngineInv`. None of the properties of
  run `aes` is inductive, because each relates two or three of the program
  counters, the channel, the pending signals, `current_transfer`, `is_busy` and
  the buffers, and the step that breaks one of them is taken long after the state
  that allows it. `EngineInv` says where all of them stand: the engine is idle, or
  one thread has it in one of five stages (`SettingUp`, `Published`, `Queued`,
  `Signalled`, `Handling`) and every other one is a `Bystander`, outside the
  protected sections with nothing on the device; `Story` adds what each thread
  has to tell (its result and its output). There is one lemma an action: it keeps
  the stage (`StageKept`), happens beside it (`BesideKept`) or moves it on
  (`MovedOn`). That no two threads set up at a time is `LockCorrect`.
* `BusyCorrect`, `MemoryCorrect`, `DeviceCorrect`, `KeyCorrect`, `CallbackCorrect`,
  `OutputCorrect`, `ResultCorrect`: the invariants of run `aes` that TLC checks for
  two threads, each read off the stages; outside `Clean` they promise nothing.
  `ResultCorrect` admits, of all the outcomes of a SUCCESS, the thread's own data and
  a file that could not be written, and no other operation's data.
* `RejectionCorrect`: the action property `RejectionJustified`; the thread that is
  rejected is not itself the one in a stage.

`AxisFifoProofs`, for any processes, payloads, device trees and sizes:

* `DriverCorrect`: the inductive invariant `DriverInv`. `TypesInv` types the part
  of the state the argument needs; `HeldInv` says that what probe holds is a
  prefix of `ProbeOrder` and which states of the driver go with which prefix;
  `ActiveInv`, that a file is open, or a call or the handler under way, only while
  the driver has got far enough for it, and is gone before the mapping is (the
  release of each resource waits for its users); `InsideInv`, that a process
  in a command of ioctl has the lock (so it is the only one) and the file open;
  `LockHolder` itself.
* `LockHeldOrLeaked`: `LockHolder`: a command that succeeds unlocks in its last
  step, and only the holder gets there (`InsideInv`), so the lock outlives only a
  failed one.
* `RegistersMapped`: `NoUnmappedAccess`, from `HeldInv` and `ActiveInv`.

`AxisChannelProofs`, on top of these and for the same constants:

* `ChannelImplemented`: `AxisSpec => ImplementsChannel`, the refinement that run
  `axis` checks for two processes. The inductive invariant is `ChannelInv`:
  `CallInv` (a call is made of a live driver, so probe and remove empty the core
  with no reader left), `PlanInv` (what a reader still has to copy adds up to the
  words of its packet it has not read, so the last copy of its plan is the last of
  the packet) and, as long as the core is not `skewed`, `ReadInv`: words and lengths agree
  (`Framed`: behind the words claimed by lengths already read stand the words of
  the packets whose lengths are still there), every claimed word has a reader that
  will take it, unless a reset is due (`Owned`: an injection, not a sum, so that no
  induction over processes is needed), and a reader nobody has disturbed is alone and
  has read the beginning of the packet whose rest is claimed (`Undisturbed`). `Owned`
  is what a read that begins alone needs: nothing is claimed then, so the words it
  finds are those of a packet whose length is still there. There is one lemma for each
  step of a read and one for each kind of other step: those that leave the receive
  side alone (`AsideKept`, `StayKept`), that flush it (`FlushKept`, `ResetKept`) and
  those of a register reached by hand (`TouchKept`). Where a step is one of the
  channel, the lemmas `Step...` say which.

`AxisWriteProofs`, on top of both:

* `WritesAreWhole`: `AxisSpec => WritesWhole`. The inductive invariant is `WriteInv`:
  `WritePlans` (the copies a write has still to make add up to the words of its
  packet it has not written, so none is left at the length) and, as long as the
  transmit side is not `skewed`, `SendInv`: each word that waits for its length has
  a write under way that has written it, unless a reset is due (`Written`, again an
  injection), and a writer nobody has disturbed is alone and what waits is what
  it has written (`Alone`). `Written` is what a write that begins alone needs:
  without writers nothing waits, so nothing an earlier write has left precedes its
  words; that is what the reset after a failed copy is for. `LengthNext` shows that
  the step the property speaks of is the write of the length.
* `AxisTypes`: `AxisTypeOK`, with `RestInv` for the variables the other two modules
  did not need.
* `WakeUpsArrive`: `NoLostWakeUp`. The inductive invariant `WakeInv` is stronger:
  a sleeper beside what it waits for has its interrupt to come *and nobody is about
  to clear every status*, since the second step of `reset_ip_core` would take the
  interrupt away. It holds because the first step leaves nothing to read and counts
  those who wait for room as `late`, and a packet that comes or leaves between the
  two steps makes its sleepers `late` as well. `NoMore` says which operations of the
  core offer nothing to those who sleep. The room in the transmit FIFO is the number
  of its cells, the cardinality of a set, so that a packet more or less changes it
  by the facts about finite sets and no induction is needed.

`PlayerProofs`, for any tracks, rates, addresses and pipes of any length:

* `PlayerCorrect`: the inductive invariant `PlayerInv`, three layers, each proved
  with the ones before it. `TypeInv`: beside the types, a PLAY and its buffer stay
  next to each other in the pipe (`PipeInv`) and the locals are set where they are
  used (`ControlInv`). `SilenceInv`: as long as no completion
  has come late (`InTime`), at which program counters the codec is idle and the
  device silent although the completion handler may run between any two steps; in particular `play` is only reached silent, because a completion that
  is pending is handled at the next system call (`completion # "due"`).
  `MemoryInv`, while `Clean`: every entry of `dma_memories` has an address of its
  own, memory is mapped for the current track or the one being loaded and for
  nothing else, and what is on the channel is all of it.
* `PlayerTypes`, `PlayerSilence`, `TracksPlayedWhole`, `MemoryComesBack`,
  `RepliesTruthful`, `CompletionsCorrect`, `ExitCorrect`: all the properties of run
  `player`. None but the first is inductive: they relate the program counter to
  memory mapped many steps before and to a transfer the device ends at any time.

`PlayerUIProofs`, on top of these:

* `UITypes`, `PlayerInUI`, `PlayerPropertiesInUI`: with the UI thread as the client
  everything of `PlayerProofs` still holds. A step of the UI changes nothing of
  the player but the pipes (`Outside`), and writes whole messages (`UIOutside`).
* `DisplayCorrect`: the inductive invariant `DisplayInv`. `ExitInv`: no EXIT is in
  the pipe while the UI runs, one is under way for ever after. `DeviceInv`: a busy
  codec has a transfer or a completion to come, unless a start has failed or a
  completion was late.
  `Request`: as long as the display can be trusted (`Trusted`), a request for a
  track is in exactly one of five places - nowhere, being decrypted, in the pipe,
  served, answered -, and at each of them it is known where the STOP is that ends
  the display of the previous track: before the PLAY in one pipe, being served,
  or before the answer in the other pipe. The three properties of the display need
  this much because each step looks at one end of a chain of two pipes and two
  threads whose other end it does not see.
* `PreparingCorrect`, `DisplayAgreesCorrect`, `PlayingKnown`: the invariants of run
  `ui`, read off `Request`. The bounds of the model (`PipeBound`, `EntryBound`,
  `JobBound`) are any numbers here.

`LibAxiDmaProofs`, for any processes, channel numbers, device trees, addresses,
regions of memory and any bound on the descriptors of a channel
(`ConstantsAssumption`, `TreeAssumption`: the form of a device tree;
`BuffersAssumption`: which addresses and exported buffers a tree has):

* The inductive invariant `Base`, on which the rest stands: `Types`; `Probed` (what
  probe holds is a prefix of `ProbeOrder`, and from its fourth step on the channel
  table is one the device tree leads to); `QueuesOrdered` (the cookies of a queue
  grow, those up to the last completed one are the ones done, and nothing is issued
  behind what is not); `Calling` (what is left of a call has the form a call can
  have, `CallShape`; calls are made through an open handle, of a driver that is
  live, and a handle's arrays are what `Categorized` makes of the table).
* `DmaTypesHold`: `DmaTypeOK`. `TableIsSound`: `TableSound`. The table and the arrays
  are built by loops, so this is an induction over them; it is done with sets of
  numbers (`LeastNatural`, from the well-foundedness of finite sets, and
  `SetInduction`) because the induction rules of the library cannot be used here.
* `TransfersOnOwnMemory`: `DmaOnOwnMemory`. `MemoryHeld` carries it from the look-up of
  an address to the submission, over the steps in between of any process.
* `WaitsForItsOwn`: `SuccessIsOwn`, and `NothingLeftBehind`: `ReturnsQuiet`. The two come
  from `Awaited`: while a call waits no descriptor of its process has a later cookie on
  the channel, and its own is there and not done unless the hardware has finished it or
  another call has terminated the channel. The wait itself only compares cookies.
* `CallbacksHaveTargets`: `CallbackTargetAlive`, from `Targets`: for a channel that is
  not `excused`, the one callback record names a call that is still to wait for its
  only transfer, or a process with its handle open, and who has set the record is
  who submits. With three channels the proof of an earlier form failed: a call that a
  stale completion wakes returns with the callbacks of its *other* channels to
  come; the exception now covers all of them.

`CircuitProofs`, first the SPI master, for any `WIDTH` above 1 and any power of two as
`CLOCK_DIVISOR`, with resets at any edge:

* `SpiCorrect`: the inductive invariant `SpiInv`. Beside the types it has
  `FrameInv` (the slave has seen as many bits as the counter says, and
  `spi_ready` is only up between words), `ReceiveInv` (the last bits of `rx` are
  those of the word under way, and a buffer flagged full is a whole word),
  `LastInv` (TLAST of the word on the wire is settled before the frame is
  continued or ended, also when a reset has left the shift register half
  shifted: the position may then be ahead of the counter, never behind) and
  `OrderInv` (without a cut word, what the shift register puts out next is the
  bit the slave has to sample next, and the word after it is the next one
  handed over).
* `WordsTransferred`: `SpiTransfersWords`, the property of run `circuits`. A clock
  edge is one of five cases (stay, begin a word, rise, next bit, end of a word),
  a lemma each: `OrderInv` gives the order of the bits, `LastInv` the frames,
  `ReceiveInv` the words received. The proof needs nothing of the clock counter:
  the property holds whatever edges the state machine moves at.

`CircuitProofs`, the I2S slave, for any even `TDATA_WIDTH` from 4 on and any `HalfMin`
from 2 on (`I2sAssumption`), with resets at any edge:

* `I2sCorrect`: the inductive invariant `I2sInv`. The codec's two clocks and the
  registers of the stream side are tied together by `SeenInv` (an edge of `bclk`
  has reached `bclk_ctrl` after one and after two edges of the stream clock),
  `FrameClockInv` (where in its frame the codec is while the window is open),
  `PhaseInv` (the bit that is due is the number of rising edges in the frame, or
  the last one, in the next frame) and `ShownInv` (the shift register shows that
  bit, or the one before it until the falling edge is seen, and no word is asked
  for). `HalfMin >= 2` is what makes the shift come before the codec samples.
* `WordsPlayed`: `TakenWordPlayed`. It needs that a new window opens only when the
  last bit has been due (`RiseSamples`).

`CircuitProofs`, the stream interfaces of the AES core, for any numbering of the words:

* `AesCorrect`: the inductive invariant `AesInv`, in two parts. Whatever the DMA
  channel, the FIFO and software do: `WayInv` gives the stages of a word (sampled,
  `data_valid`, the pulse of `start`, in the cipher or done), the one in which a set-up
  request has taken `data_valid` away among them, with what the pulses and the counter
  are in each; `KeyInv` the stages of the key schedule; `PendingInv` that the one word
  not put out is in the cipher, with the key it was sampled under, or in M_AXIS;
  `MasterInv` that M_AXIS and the cipher do not speak at the same time. As long as
  the environment has not `disturbed`: `SetupInv`, that the core is empty from the
  moment the control bit is set until its key comes, and ready for the key;
  `TakenInv`, that a sampled word is taken in the next edge, and that the FIFO has
  room when M_AXIS is about to speak.
* `WordsLeaveEnciphered`: `WordsEnciphered`. The order and the keys (`PutsOutInOrder`)
  follow from the first part alone, the rest from both.

Only model-checked: progress (`OperationEnds`, `PreparationEnds`,
`InterruptEnds`), which needs fairness and ENABLED, and the prover does not handle
them. All the other properties of the passing runs are stated by a theorem.

## 5. Not modelled

* `aes::init`, `aes::destroy`, the start of `main` and the codec's register
  writes: straight-line code that runs alone, before or after what is modelled.
* Files and attributes behind a job: what two jobs on one file do to each other;
  the memory of the `aes_thread` objects.
* `directory_navigator` beyond the tags, `virtual_file_wrapper`, `util`:
  sequential code without shared state.
* The FIFO driver's statistics and the text of its sysfs files; VDMA frame
  geometry; data races inside one walk of the DMA driver's lists, after which
  nothing can be said.
* The AES rounds (third-party cores over 128-bit data), the generated AXI-Lite
  bus protocol, drawing of the screen, build and board configuration.
