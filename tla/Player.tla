--------------------------------- MODULE Player --------------------------------
(***************************************************************************)
(* The player thread and the codec it owns: player_thread::run serves the  *)
(* commands of a pipe one at a time; adau1761 keeps the DMA buffers and    *)
(* plays them; the DMA completion signal runs adau1761::_dma_callback on   *)
(* the player thread itself, between any two of its steps, so the handler  *)
(* is one atomic step of this module.  What sends the commands is the      *)
(* Client here and the UI thread in PlayerUI.                              *)
(*                                                                         *)
(* Sources: src/app/player_thread.cpp, src/app/adau1761.cpp.               *)
(***************************************************************************)
EXTENDS Integers, Sequences

CONSTANTS
  Track,        \* audio files
  SizeOf,       \* size of a decoded track
  RateOf,       \* sample rate of a track
  Supported,    \* sample rates the PLL table knows
  DefaultRate,  \* DEFAULT_SAMPLE_RATE
  Address,      \* addresses axidma_malloc may return
  NoAddress,    \* the null pointer
  NoTrack,      \* no track
  MAX_VOLUME,
  DEFAULT_VOLUME,
  Delta,        \* volume steps a command may ask for
  PipeBound,    \* bound of the model on the messages in the two pipes
  EntryBound    \* bound of the model on the entries of dma_memories

ASSUME ConstantsAssumption ==
  /\ SizeOf \in [Track -> Nat \ {0}]
  /\ DefaultRate \in Supported
  /\ NoAddress \notin Address
  /\ NoTrack \notin Track
  /\ MAX_VOLUME \in Nat
  /\ DEFAULT_VOLUME \in 0 .. MAX_VOLUME
  /\ Delta \subseteq Int
  /\ PipeBound \in Nat
  /\ EntryBound \in Nat

VARIABLES
  ui_to_player,   \* pipe of commands
  player_to_ui,   \* pipe of results
  ui_reads,       \* the read end of player_to_ui is open
  killed,         \* SIGPIPE has killed the process
  \* player_thread::run
  pc,             \* where the thread is
  command,        \* command being served: PLAY, STOP or EXIT
  track,          \* track being loaded
  buffer,         \* local dma_buff
  buffer_size,    \* local buffer_size of play
  result,         \* result to reply with
  \* _i2s_dma_state
  is_busy,
  sample_rate,
  volume,
  dma_memories,   \* the list of [size, addr] chunks
  tx_buffer,      \* current_transfer.tx_buffer
  \* the device
  mapped,         \* how much is mapped at an address
  channel,        \* the running transfer [addr, len, track], or a set without it
  completion,     \* of a transfer: "none", "taken" by the driver's tasklet, which
                  \* will send the signal, or a pending signal, "fresh" or "due"
  \* history
  defects

pipeVars == <<ui_to_player, player_to_ui, ui_reads, killed>>
programVars == <<command, track, buffer, buffer_size, result>>
codecVars == <<is_busy, sample_rate, volume, dma_memories, tx_buffer>>
deviceVars == <<mapped, channel, completion>>
playerVars == <<pipeVars, pc, programVars, codecVars, deviceVars, defects>>

PlayerPCs == {"idle", "stop_test", "stop_ioctl", "stop_free", "read_buffer",
              "request", "set_rate", "play_stop", "play_setup", "play_start",
              "release", "reply", "close", "destroy", "done"}

PlayerInit ==
  /\ ui_to_player = <<>>
  /\ player_to_ui = <<>>
  /\ ui_reads = TRUE
  /\ killed = FALSE
  /\ pc = "idle"
  /\ command = "STOP"
  /\ track = NoTrack
  /\ buffer = NoAddress
  /\ buffer_size = 0
  /\ result = "SUCCESS"
  /\ is_busy = FALSE
  /\ sample_rate = DefaultRate
  /\ volume = DEFAULT_VOLUME
  /\ dma_memories = <<>>
  /\ tx_buffer = NoAddress
  /\ mapped = [a \in Address |-> 0]
  /\ channel = {}
  /\ completion = "none"
  /\ defects = {}

--------------------------------------------------------------------------------
(* helpers                                                                     *)

\* The thread moves.  A signal that was pending when its last system call
\* returned has been handled first.
Goto(from, to) ==
  /\ ~killed
  /\ completion # "due"
  /\ pc = from
  /\ pc' = to

\* The step ends in a system call: a pending signal is handled before the next.
SystemCall == completion' = IF completion = "fresh" THEN "due" ELSE completion

\* write() to the UI: kills the process when nobody can read it
Send(m) ==
  IF ui_reads
  THEN player_to_ui' = Append(player_to_ui, m) /\ UNCHANGED killed
  ELSE killed' = TRUE /\ UNCHANGED player_to_ui

\* std::find_if on dma_memories: the first entry of an address, or 0
Entry(a) ==
  LET found == {i \in DOMAIN dma_memories : dma_memories[i].addr = a} IN
    IF found = {} THEN 0 ELSE CHOOSE i \in found : \A j \in found : i <= j

lookup_buffer(a) == IF Entry(a) = 0 THEN 0 ELSE dma_memories[Entry(a)].size

Erase(i) ==
  SubSeq(dma_memories, 1, i - 1)
    \o SubSeq(dma_memories, i + 1, Len(dma_memories))

\* munmap: what it does not cover stays mapped, what is not mapped is ignored
Unmapped(m, a, size) ==
  [m EXCEPT ![a] = IF size >= m[a] THEN 0 ELSE m[a] - size]

\* free and erase the first entry of a, if there is one
FreeAndErase(a) ==
  LET i == Entry(a) IN
    IF i = 0 THEN UNCHANGED <<mapped, dma_memories>>
    ELSE /\ mapped' = Unmapped(mapped, a, dma_memories[i].size)
         /\ dma_memories' = Erase(i)

\* Mutant: EXIT does not leave the loop.
AfterStopGoesOn == CASE command = "PLAY" -> "read_buffer"
                     [] command = "STOP" -> "reply"
                     [] command = "EXIT" -> "idle"

\* Where the cases of the switch go on after codec.stop()
AfterStop == CASE command = "PLAY" -> "read_buffer"
               [] command = "STOP" -> "reply"
               [] command = "EXIT" -> "close"

--------------------------------------------------------------------------------
(* player_thread::run                                                          *)

\* Mutant: EXIT does not stop the codec.
FirstStepExitAtOnce(cmd) == IF cmd = "EXIT" THEN "close" ELSE "stop_test"

\* Mutant: PLAY does not stop what plays.
FirstStepPlayAtOnce(cmd) == IF cmd = "PLAY" THEN "read_buffer" ELSE "stop_test"

\* PLAY, STOP and EXIT all begin with codec.stop().
FirstStep(cmd) == "stop_test"

\* Mutant: PLAY succeeds unless it is found to fail.
FirstResultSuccess(cmd) == "SUCCESS"

FirstResult(cmd) == IF cmd = "PLAY" THEN "FAILURE" ELSE "SUCCESS"

Receive ==
  /\ ui_to_player # <<>>
  /\ LET cmd == Head(ui_to_player).cmd IN
       /\ cmd \in {"PLAY", "STOP", "EXIT"}
       /\ Goto("idle", FirstStep(cmd))
       /\ command' = cmd
       /\ result' = FirstResult(cmd)
  /\ ui_to_player' = Tail(ui_to_player)
  /\ SystemCall
  /\ UNCHANGED <<player_to_ui, ui_reads, killed, track, buffer, buffer_size,
                 codecVars, mapped, channel, defects>>

\* Mutant: the volume does not saturate at its maximum.
RelativeUnbounded(vol, delta) ==
  IF delta < 0 /\ vol < -delta THEN 0
  ELSE vol + delta

\* adau1761::set_relative_volume, saturating at both ends
Relative(vol, delta) ==
  IF delta > 0 /\ vol > MAX_VOLUME - delta THEN MAX_VOLUME
  ELSE IF delta < 0 /\ vol < -delta THEN 0
  ELSE vol + delta

ChangeVolume ==
  /\ ui_to_player # <<>>
  /\ Head(ui_to_player).cmd = "VOLUME"
  /\ Goto("idle", "idle")
  /\ volume' = Relative(volume, Head(ui_to_player).arg)
  /\ ui_to_player' = Tail(ui_to_player)
  /\ SystemCall
  /\ UNCHANGED <<player_to_ui, ui_reads, killed, programVars, is_busy,
                 sample_rate, dma_memories, tx_buffer, mapped, channel, defects>>

\* The pointer follows the PLAY command; a file that is no audio does not open
ReadBuffer ==
  /\ ui_to_player # <<>>
  /\ \/ Goto("read_buffer", "request")
     \/ Goto("read_buffer", "reply")
  /\ track' = Head(ui_to_player).arg
  /\ ui_to_player' = Tail(ui_to_player)
  /\ SystemCall
  /\ UNCHANGED <<player_to_ui, ui_reads, killed, command, buffer, buffer_size,
                 result, codecVars, mapped, channel, defects>>

\* adau1761::request_buffer
RequestBuffer ==
  /\ Goto("request", "set_rate")
  /\ Len(dma_memories) < EntryBound
  /\ \E a \in {b \in Address : mapped[b] = 0} :
       /\ buffer' = a
       /\ mapped' = [mapped EXCEPT ![a] = SizeOf[track]]
       /\ defects' = IF Entry(a) = 0 THEN defects
                     ELSE defects \cup {"stale_entry_reused"}
       /\ dma_memories' = Append(dma_memories,
                                 [size |-> SizeOf[track], addr |-> a])
  /\ SystemCall
  /\ UNCHANGED <<pipeVars, command, track, buffer_size, result, is_busy,
                 sample_rate, volume, tx_buffer, channel>>

RequestFails ==
  /\ Goto("request", "reply")
  /\ SystemCall
  /\ UNCHANGED <<pipeVars, programVars, codecVars, mapped, channel, defects>>

\* Mutant: a command that failed is not answered.
AnswerSuccessOnly ==
  IF result = "SUCCESS" THEN Send([cmd |-> command, result |-> result])
  ELSE UNCHANGED <<player_to_ui, killed>>

Answer == Send([cmd |-> command, result |-> result])

\* The result of the command goes to the UI, and the next one is waited for
Reply ==
  /\ Goto("reply", "idle")
  /\ Answer
  /\ track' = NoTrack
  /\ buffer' = NoAddress
  /\ buffer_size' = 0
  /\ SystemCall
  /\ UNCHANGED <<ui_to_player, ui_reads, command, result, codecVars, mapped,
                 channel, defects>>

\* EXIT: the pipes are closed
Close ==
  /\ Goto("close", "destroy")
  /\ SystemCall
  /\ UNCHANGED <<pipeVars, programVars, codecVars, mapped, channel, defects>>

--------------------------------------------------------------------------------
(* adau1761::stop                                                              *)

StopTest ==
  /\ Goto("stop_test", IF is_busy THEN "stop_ioctl" ELSE AfterStop)
  /\ UNCHANGED <<pipeVars, programVars, codecVars, deviceVars, defects>>

\* Mutant: the transfer goes on.
StopIoctlForgotten ==
  /\ Goto("stop_ioctl", "stop_free")
  /\ UNCHANGED channel
  /\ SystemCall
  /\ UNCHANGED <<pipeVars, programVars, codecVars, mapped, defects>>

\* dmaengine_terminate_all: a completion the tasklet has taken still comes.
StopIoctl ==
  /\ Goto("stop_ioctl", "stop_free")
  /\ channel' = {}
  /\ SystemCall
  /\ UNCHANGED <<pipeVars, programVars, codecVars, mapped, defects>>

\* Mutant: the buffer is not freed.
StopFreeForgotten ==
  /\ Goto("stop_free", AfterStop)
  /\ UNCHANGED mapped
  /\ is_busy' = FALSE
  /\ defects' = IF completion = "none" THEN defects
                ELSE defects \cup {"late_completion"}
  /\ SystemCall
  /\ UNCHANGED <<pipeVars, programVars, sample_rate, volume, dma_memories,
                 tx_buffer, channel>>

\* The buffer is freed, but its entry stays in dma_memories.  A completion that
\* the ioctl has not caught will be handled when the codec is no longer busy.
StopFree ==
  /\ Goto("stop_free", AfterStop)
  /\ mapped' = IF Entry(tx_buffer) = 0 THEN mapped
               ELSE Unmapped(mapped, tx_buffer, lookup_buffer(tx_buffer))
  /\ is_busy' = FALSE
  /\ defects' = IF completion = "none" THEN defects
                ELSE defects \cup {"late_completion"}
  /\ SystemCall
  /\ UNCHANGED <<pipeVars, programVars, sample_rate, volume, dma_memories,
                 tx_buffer, channel>>

--------------------------------------------------------------------------------
(* adau1761::play and release_buffer                                           *)

\* The size is looked up and the PLL is set, if the rate has to change
SetRate ==
  /\ Goto("set_rate", "play_stop")
  /\ lookup_buffer(buffer) # 0
  /\ RateOf[track] \in Supported \cup {sample_rate}
  /\ buffer_size' = lookup_buffer(buffer)
  /\ sample_rate' = RateOf[track]
  /\ SystemCall
  /\ UNCHANGED <<pipeVars, command, track, buffer, result, is_busy, volume,
                 dma_memories, tx_buffer, mapped, channel, defects>>

\* Unknown buffer, or a rate without PLL parameters: play returns -1
PlayFails ==
  /\ Goto("set_rate", "release")
  /\ \/ lookup_buffer(buffer) = 0
     \/ RateOf[track] \notin Supported \cup {sample_rate}
  /\ UNCHANGED <<pipeVars, programVars, codecVars, deviceVars, defects>>

PlayStop ==
  /\ Goto("play_stop", "play_setup")
  /\ channel' = {}
  /\ SystemCall
  /\ UNCHANGED <<pipeVars, programVars, codecVars, mapped, defects>>

\* Mutant: the current transfer is not set.
PlaySetupForgetsBuffer ==
  /\ Goto("play_setup", "play_start")
  /\ is_busy' = TRUE
  /\ UNCHANGED tx_buffer
  /\ UNCHANGED <<pipeVars, programVars, sample_rate, volume, dma_memories,
                 deviceVars, defects>>

PlaySetup ==
  /\ Goto("play_setup", "play_start")
  /\ is_busy' = TRUE
  /\ tx_buffer' = buffer
  /\ UNCHANGED <<pipeVars, programVars, sample_rate, volume, dma_memories,
                 deviceVars, defects>>

\* The driver refuses a range that is not mapped, or is out of descriptors;
\* the return value of axidma_oneway_transfer is not looked at.
PlayStart ==
  /\ Goto("play_start", "reply")
  /\ result' = "SUCCESS"
  /\ \/ /\ buffer_size <= mapped[buffer]
        /\ channel' = {[addr |-> buffer, len |-> buffer_size, track |-> track]}
        /\ UNCHANGED defects
     \/ /\ UNCHANGED channel
        /\ defects' = defects \cup {"start_failed"}
  /\ SystemCall
  /\ UNCHANGED <<pipeVars, command, track, buffer, buffer_size, codecVars,
                 mapped>>

Release ==
  /\ Goto("release", "reply")
  /\ channel' = IF is_busy /\ tx_buffer = buffer /\ Entry(buffer) # 0
                THEN {} ELSE channel
  /\ FreeAndErase(buffer)
  /\ SystemCall
  /\ UNCHANGED <<pipeVars, programVars, is_busy, sample_rate, volume,
                 tx_buffer, defects>>

\* The destructor of the codec: every entry is freed
Destroy ==
  /\ Goto("destroy", "done")
  /\ channel' = IF is_busy /\ Entry(tx_buffer) # 0 THEN {} ELSE channel
  /\ mapped' = [a \in Address |->
                  IF \E i \in DOMAIN dma_memories :
                       /\ dma_memories[i].addr = a
                       /\ dma_memories[i].size >= mapped[a]
                  THEN 0 ELSE mapped[a]]
  /\ dma_memories' = <<>>
  /\ SystemCall
  /\ UNCHANGED <<pipeVars, programVars, is_busy, sample_rate, volume,
                 tx_buffer, defects>>

--------------------------------------------------------------------------------
(* the device, and adau1761::_dma_callback on the player thread                *)

\* The tasklet of the DMA engine takes the descriptor that has ended.  (One
\* completion at a time is a bound of the model: it never binds unless one is late.)
Complete ==
  /\ ~killed
  /\ channel # {}
  /\ completion = "none"
  /\ channel' = {}
  /\ completion' = "taken"
  /\ UNCHANGED <<pipeVars, pc, programVars, codecVars, mapped, defects>>

\* Its callback sends the signal.
Signal ==
  /\ ~killed
  /\ completion = "taken"
  /\ completion' = "fresh"
  /\ UNCHANGED <<pipeVars, pc, programVars, codecVars, mapped, channel, defects>>

\* The handler: free and erase the current buffer, clear is_busy, tell the UI,
\* unless the pipes are closed: the write fails.
Interrupt ==
  /\ ~killed
  /\ pc # "done"
  /\ completion \in {"fresh", "due"}
  /\ completion' = "none"
  /\ FreeAndErase(tx_buffer)
  /\ is_busy' = FALSE
  /\ IF pc = "destroy" THEN UNCHANGED <<player_to_ui, killed>>
     ELSE Send([cmd |-> "STOP", result |-> "SUCCESS"])
  /\ defects' = IF command = "PLAY" /\ pc = "reply"
                THEN defects \cup {"ended_before_reply"} ELSE defects
  /\ UNCHANGED <<ui_to_player, ui_reads, pc, programVars, sample_rate, volume,
                 tx_buffer, channel>>

--------------------------------------------------------------------------------
(* the other end of the pipes                                                  *)

\* The client sends messages in one go: PLAY is followed by its buffer.
SendToPlayer(ms) ==
  /\ Len(ui_to_player) + Len(player_to_ui) + Len(ms) <= PipeBound
  /\ ui_to_player' = ui_to_player \o ms

PlayMessages(f) == <<[cmd |-> "PLAY", arg |-> 0], [cmd |-> "BUFFER", arg |-> f]>>
StopMessages == <<[cmd |-> "STOP", arg |-> 0]>>
VolumeMessages(d) == <<[cmd |-> "VOLUME", arg |-> d]>>
ExitMessages == <<[cmd |-> "EXIT", arg |-> 0]>>

\* The client sends a command, and stays a client: EXIT closes its ends.
ClientSend ==
  /\ ui_reads /\ ~killed
  /\ \E ms \in {PlayMessages(f) : f \in Track} \cup {StopMessages}
               \cup {VolumeMessages(d) : d \in Delta} : SendToPlayer(ms)
  /\ UNCHANGED <<player_to_ui, ui_reads, killed, pc, programVars, codecVars,
                 deviceVars, defects>>

ClientReceive ==
  /\ ui_reads /\ ~killed
  /\ player_to_ui # <<>>
  /\ player_to_ui' = Tail(player_to_ui)
  /\ UNCHANGED <<ui_to_player, ui_reads, killed, pc, programVars, codecVars,
                 deviceVars, defects>>

ClientExit ==
  /\ ui_reads /\ ~killed
  /\ ui_to_player' = ui_to_player \o ExitMessages
  /\ ui_reads' = FALSE
  /\ UNCHANGED <<player_to_ui, killed, pc, programVars, codecVars, deviceVars,
                 defects>>

--------------------------------------------------------------------------------
Program ==
  \/ Receive \/ ChangeVolume \/ ReadBuffer \/ RequestBuffer \/ RequestFails
  \/ Reply \/ Close \/ StopTest \/ StopIoctl \/ StopFree \/ SetRate \/ PlayFails
  \/ PlayStop \/ PlaySetup \/ PlayStart \/ Release \/ Destroy

Device == Complete \/ Signal \/ Interrupt

Client == ClientSend \/ ClientReceive \/ ClientExit

Init == PlayerInit
Next == Program \/ Device \/ Client
vars == playerVars
Spec == Init /\ [][Next]_vars

--------------------------------------------------------------------------------
(* Properties                                                                  *)

\* No completion came after stop() had freed its buffer, no buffer was allocated
\* where an entry was left behind, and no transfer failed to start: the defects
\* play() and stop() have (see the README).  The properties that start with Clean
\* say nothing else goes wrong.
InTime == "late_completion" \notin defects
Clean == InTime /\ defects \cap {"stale_entry_reused", "start_failed"} = {}

Silent == channel = {} /\ completion = "none" /\ ~is_busy

\* Bytes of dma_memories and of the messages that are still on their way.
Command == [cmd : {"PLAY", "STOP", "EXIT"}, arg : {0}]
             \cup [cmd : {"BUFFER"}, arg : Track]
             \cup [cmd : {"VOLUME"}, arg : Delta]
Size == {SizeOf[f] : f \in Track}

\* Every variable has its type; the volume is a volume of the codec.
TypeOK ==
  /\ ui_to_player \in Seq(Command)
  /\ player_to_ui \in Seq([cmd : {"PLAY", "STOP"}, result : {"SUCCESS", "FAILURE"}])
  /\ ui_reads \in BOOLEAN
  /\ killed \in BOOLEAN
  /\ pc \in PlayerPCs
  /\ command \in {"PLAY", "STOP", "EXIT"}
  /\ track \in Track \cup {NoTrack}
  /\ buffer \in Address \cup {NoAddress}
  /\ buffer_size \in Size \cup {0}
  /\ result \in {"SUCCESS", "FAILURE"}
  /\ is_busy \in BOOLEAN
  /\ sample_rate \in Supported
  /\ volume \in 0 .. MAX_VOLUME
  /\ dma_memories \in Seq([size : Size, addr : Address])
  /\ tx_buffer \in Address \cup {NoAddress}
  /\ mapped \in [Address -> Nat]
  /\ channel \subseteq [addr : Address, len : Size, track : Track]
  /\ completion \in {"none", "taken", "fresh", "due"}
  /\ defects \subseteq {"stale_entry_reused", "start_failed", "ended_before_reply",
                       "late_completion"}

\* What is on the channel is one whole track, from memory that is all mapped,
\* at the rate of that track, and it is the transfer the codec knows about.
WholeTrackPlayed ==
  Clean => \A c \in channel :
             /\ channel = {c}
             /\ c.len = SizeOf[c.track] /\ mapped[c.addr] = c.len
             /\ sample_rate = RateOf[c.track]
             /\ is_busy /\ tx_buffer = c.addr

\* The codec that says it is idle plays nothing and owes no completion, unless one
\* came too late for stop().
IdleIsSilent == InTime /\ ~is_busy => channel = {} /\ completion = "none"

\* Memory is mapped only for the track that plays and for the one being loaded.
NothingLeaks ==
  Clean => \A a \in Address : mapped[a] > 0 =>
             \/ is_busy /\ a = tx_buffer
             \/ a = buffer /\ pc \in {"set_rate", "play_stop", "play_setup", "release"}

\* What a reply says is so: after STOP or a failed PLAY there is silence and no
\* memory, after a successful PLAY the track plays or has just ended.
ReplyTruthful ==
  Clean /\ pc = "reply" =>
    IF command = "PLAY" /\ result = "SUCCESS"
    THEN \/ \E c \in channel : c.track = track
         \/ completion # "none"
         \/ "ended_before_reply" \in defects
    ELSE Silent /\ \A a \in Address : mapped[a] = 0

\* The completion handler acts on the transfer that completed: its buffer is
\* still registered and mapped, and no new transfer has taken its place.
CompletionMatchesTransfer ==
  Clean /\ completion # "none" =>
    /\ Entry(tx_buffer) # 0
    /\ mapped[tx_buffer] = lookup_buffer(tx_buffer)
    /\ channel = {}
    /\ pc \notin {"play_start", "release"}

\* The thread leaves the device silent, with nothing mapped.
ExitIsClean ==
  Clean /\ pc \in {"destroy", "done"} =>
    Silent /\ \A a \in Address : mapped[a] = 0

--------------------------------------------------------------------------------
(* What the comments of the code say, and the code does not do                 *)

\* libaxidma.c:386 "The size passed in here must match the one used for that
\* call", of axidma_malloc: when stop() frees the current buffer, it does.
StopFreesTheRegion ==
  pc = "stop_free" /\ Entry(tx_buffer) # 0 =>
    lookup_buffer(tx_buffer) = mapped[tx_buffer]
================================================================================
