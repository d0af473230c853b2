----------------------------- MODULE PlayerProofs -----------------------------
(***************************************************************************)
(* What holds of the player thread and the codec for every set of tracks,  *)
(* rates and addresses, and for pipes of any length: the device is silent  *)
(* when the codec says so, what plays is a whole track, memory comes back, *)
(* and the replies are true.                                               *)
(***************************************************************************)
EXTENDS Player, SequenceTheorems, WellFoundedInduction, TLAPS

--------------------------------------------------------------------------------
(* the inductive invariant                                                     *)

StopPCs == {"stop_test", "stop_ioctl", "stop_free"}
LoadedPCs == {"set_rate", "play_stop", "play_setup", "release"}
LoadingPCs == LoadedPCs \cup {"read_buffer", "request"}
EndPCs == {"close", "destroy", "done"}

\* A PLAY in the pipe has its buffer right behind it, and one that has been taken
\* out has it at the head until read_buffer takes it.
AwaitsBuffer == command = "PLAY" /\ pc \in StopPCs \cup {"read_buffer"}
Pairs == \A i \in 1 .. Len(ui_to_player) : ui_to_player[i].cmd = "PLAY" =>
           i < Len(ui_to_player) /\ ui_to_player[i+1].cmd = "BUFFER"
PipeInv ==
  /\ Pairs
  /\ AwaitsBuffer =>
       ui_to_player # <<>> /\ ui_to_player[1].cmd = "BUFFER"

\* Which command is served where, what its result is so far and which locals it
\* has set.
ControlInv ==
  /\ pc \in LoadingPCs \cup {"play_start"} => command = "PLAY" /\ result = "FAILURE"
  /\ pc \in StopPCs => result = FirstResult(command)
  /\ pc = "reply" => \/ command = "PLAY"
                     \/ command = "STOP" /\ result = "SUCCESS"
  /\ pc \in EndPCs => command = "EXIT"
  /\ pc \in LoadedPCs \cup {"request", "play_start"} => track \in Track
  /\ pc \in LoadedPCs \cup {"play_start"} => buffer \in Address
  /\ pc \in {"play_stop", "play_setup", "play_start"} => buffer_size \in Size

TypeInv == TypeOK /\ PipeInv /\ ControlInv

\* Where the codec is idle, and where the device is known to be.  A completion that
\* comes too late for stop() may be handled while the next track plays.
IdlePCs == LoadingPCs \cup EndPCs
DeviceKnown ==
  /\ ~is_busy => channel = {} /\ completion = "none"
  /\ completion # "none" => channel = {}
  /\ pc = "stop_free" => channel = {}
  /\ pc = "play_start" => channel = {} /\ completion = "none" /\ is_busy
  /\ pc \in IdlePCs => ~is_busy
  /\ pc = "reply" => ~is_busy \/ (command = "PLAY" /\ result = "SUCCESS")
SilenceInv == InTime => DeviceKnown

\* An entry of dma_memories gives the memory at a the size it has been mapped with.
Registered(a) ==
  \E i \in DOMAIN dma_memories :
    dma_memories[i].addr = a /\ dma_memories[i].size = mapped[a]

DistinctEntries ==
  \A i, j \in DOMAIN dma_memories : dma_memories[i].addr = dma_memories[j].addr => i = j

\* The buffer holds the track being loaded.
TrackLoaded == Registered(buffer) /\ mapped[buffer] = SizeOf[track]
ReadyToPlay == buffer_size = SizeOf[track] /\ sample_rate = RateOf[track]

\* Which memory is mapped, which entry it has and what it is for.
Memory ==
  /\ DistinctEntries
  /\ \A a \in Address : mapped[a] > 0 => \/ is_busy /\ a = tx_buffer
                                         \/ a = buffer /\ pc \in LoadedPCs
  /\ is_busy => Registered(tx_buffer)
  /\ pc \in LoadedPCs \cup {"play_start"} => TrackLoaded
  /\ pc \in {"play_stop", "play_setup", "play_start"} => ReadyToPlay
  /\ pc = "play_start" => tx_buffer = buffer

\* What plays, and what a successful PLAY has left.
PlaysWhole(c) ==
  /\ channel = {c}
  /\ c.len = SizeOf[c.track] /\ mapped[c.addr] = c.len
  /\ sample_rate = RateOf[c.track]
  /\ is_busy /\ tx_buffer = c.addr

Played ==
  /\ \A c \in channel : PlaysWhole(c)
  /\ pc = "reply" /\ command = "PLAY" /\ result = "SUCCESS" =>
       \/ \E c \in channel : c.track = track
       \/ completion # "none"
       \/ "ended_before_reply" \in defects

MemoryInv == Clean => Memory /\ Played

PlayerInv == TypeInv /\ SilenceInv /\ MemoryInv
--------------------------------------------------------------------------------
(* the list of chunks                                                          *)

Chunk == [size : Size, addr : Address]

\* A set of natural numbers has a least element.
LEMMA LeastElement ==
  ASSUME NEW T, T \subseteq Nat, T # {}
  PROVE  \E m \in T : \A k \in T : m <= k
  <1> DEFINE Less == {ss \in Nat \X Nat : ss[1] < ss[2]}
  <1>1. IsWellFoundedOn(Less, Nat)
    BY NatLessThanWellFounded DEF OpToRel
  <1>2. \A j, k \in Nat : j < k => <<j, k>> \in Less
    OBVIOUS
  <1> HIDE DEF Less
  <1>3. PICK m \in T : \A k \in T : ~(<<k, m>> \in Less)
    BY <1>1, WFMin
  <1>4. ASSUME NEW k \in T PROVE m <= k
    <2>1. m \in Nat /\ k \in Nat
      OBVIOUS
    <2>2. ~(k < m)
      BY <1>2, <1>3, <2>1
    <2>3. QED
      BY <2>1, <2>2
  <1>5. QED
    BY <1>4

\* find_if finds the first entry of an address, where there is one.
LEMMA EntryFound ==
  ASSUME dma_memories \in Seq(Chunk), NEW a, NEW i \in DOMAIN dma_memories,
         dma_memories[i].addr = a
  PROVE  /\ Entry(a) \in DOMAIN dma_memories
         /\ dma_memories[Entry(a)].addr = a
         /\ Entry(a) \in Nat \ {0}
  <1> DEFINE found == {k \in DOMAIN dma_memories : dma_memories[k].addr = a}
  <1>1. DOMAIN dma_memories = 1 .. Len(dma_memories) /\ Len(dma_memories) \in Nat
    BY LenProperties
  <1>2. found \subseteq Nat /\ found # {}
    BY <1>1
  <1>3. PICK m \in found : \A k \in found : m <= k
    <2> HIDE DEF found
    <2>1. QED
      BY <1>2, LeastElement
  <1>4. Entry(a) \in found
    BY <1>2, <1>3 DEF Entry
  <1>5. QED
    BY <1>1, <1>4

\* And no entry, where there is none.
LEMMA EntryCases ==
  ASSUME dma_memories \in Seq(Chunk), NEW a
  PROVE  \/ Entry(a) = 0 /\ \A i \in DOMAIN dma_memories : dma_memories[i].addr # a
         \/ /\ Entry(a) \in DOMAIN dma_memories
            /\ dma_memories[Entry(a)].addr = a
            /\ Entry(a) \in Nat \ {0}
  <1>1. CASE \E i \in DOMAIN dma_memories : dma_memories[i].addr = a
    BY <1>1, EntryFound
  <1>2. CASE \A i \in DOMAIN dma_memories : dma_memories[i].addr # a
    BY <1>2 DEF Entry
  <1>3. QED
    BY <1>1, <1>2

\* erase takes one entry out and keeps the others in their order.
LEMMA EraseKeeps ==
  ASSUME dma_memories \in Seq(Chunk), NEW i \in DOMAIN dma_memories
  PROVE  /\ Erase(i) \in Seq(Chunk)
         /\ DOMAIN Erase(i) = 1 .. Len(dma_memories) - 1
         /\ \A k \in 1 .. Len(dma_memories) - 1 :
              Erase(i)[k] = IF k < i THEN dma_memories[k] ELSE dma_memories[k+1]
  <1> DEFINE n == Len(dma_memories)
             front == SubSeq(dma_memories, 1, i - 1)
             back == SubSeq(dma_memories, i + 1, Len(dma_memories))
  <1>1. /\ n \in Nat /\ i \in 1 .. n
        /\ \A k \in 1 .. n : dma_memories[k] \in Chunk
    BY LenProperties, ElementOfSeq
  <1>2. /\ front \in Seq(Chunk) /\ Len(front) = i - 1
        /\ \A k \in 1 .. i - 1 : front[k] = dma_memories[k]
    BY <1>1, SubSeqProperties
  <1>3. /\ back \in Seq(Chunk) /\ Len(back) = n - i
        /\ \A k \in 1 .. n - i : back[k] = dma_memories[k + i]
    BY <1>1, SubSeqProperties
  <1>4. PICK N \in Nat : N = n
    BY <1>1
  <1>5. PICK F \in Seq(Chunk) : F = front
    BY <1>2
  <1>6. PICK B \in Seq(Chunk) : B = back
    BY <1>3
  <1>7. PICK e : e = F \o B
    OBVIOUS
  <1>8. Erase(i) = e
    BY <1>5, <1>6, <1>7 DEF Erase
  <1>9. /\ i \in 1 .. N /\ Len(F) = i - 1 /\ Len(B) = N - i
        /\ \A k \in 1 .. i - 1 : F[k] = dma_memories[k]
        /\ \A k \in 1 .. N - i : B[k] = dma_memories[k + i]
    BY <1>1, <1>2, <1>3, <1>4, <1>5, <1>6
  <1> HIDE DEF front, back, n
  <1>10. /\ e \in Seq(Chunk)
         /\ Len(e) = N - 1
         /\ \A k \in 1 .. N - 1 : e[k] = IF k <= i - 1 THEN F[k] ELSE B[k - (i - 1)]
    <2>1. /\ F \o B \in Seq(Chunk)
          /\ Len(F \o B) = Len(F) + Len(B)
          /\ \A k \in 1 .. Len(F) + Len(B) :
               (F \o B)[k] = IF k <= Len(F) THEN F[k] ELSE B[k - Len(F)]
      BY ConcatProperties
    <2>2. Len(F) + Len(B) = N - 1
      BY <1>9
    <2>3. Len(F) = i - 1
      BY <1>9
    <2>4. QED
      BY ONLY <1>7, <2>1, <2>2, <2>3
  <1>11. DOMAIN e = 1 .. N - 1
    BY <1>10, LenProperties
  <1>12. ASSUME NEW k \in 1 .. N - 1
         PROVE  e[k] = IF k < i THEN dma_memories[k] ELSE dma_memories[k+1]
    <2>1. CASE k < i
      BY <1>9, <1>10, <2>1
    <2>2. CASE ~(k < i)
      <3>1. PICK j \in 1 .. N - i : j = k - (i - 1)
        BY <1>9, <2>2
      <3>2. e[k] = B[j]
        BY <1>9, <1>10, <2>2, <3>1, ~(k <= i - 1)
      <3>3. B[j] = dma_memories[j + i] /\ j + i = k + 1
        BY <1>9, <3>1, SMTT(30)
      <3>4. QED
        BY <2>2, <3>2, <3>3
    <2>3. QED
      BY <2>1, <2>2
  <1>13. QED
    BY <1>4, <1>8, <1>10, <1>11, <1>12 DEF n

--------------------------------------------------------------------------------
(* the pipes                                                                   *)

ResultMessage == [cmd : {"PLAY", "STOP"}, result : {"SUCCESS", "FAILURE"}]

\* What reading a message leaves in the pipe
LEMMA PipeRead ==
  ASSUME ui_to_player \in Seq(Command), Pairs, ui_to_player # <<>>,
         ui_to_player' = Tail(ui_to_player)
  PROVE  /\ ui_to_player' \in Seq(Command) /\ Pairs'
         /\ Head(ui_to_player) = ui_to_player[1]
         /\ Head(ui_to_player) \in Command
         /\ Head(ui_to_player).cmd = "PLAY" =>
              ui_to_player' # <<>> /\ ui_to_player'[1].cmd = "BUFFER"
  <1>1. /\ Head(ui_to_player) \in Command
        /\ Tail(ui_to_player) \in Seq(Command)
        /\ Len(Tail(ui_to_player)) = Len(ui_to_player) - 1
        /\ \A i \in 1 .. Len(Tail(ui_to_player)) : Tail(ui_to_player)[i] = ui_to_player[i+1]
    BY HeadTailProperties
  <1>2. Len(ui_to_player) \in Nat \ {0}
    BY EmptySeq
  <1>3. PICK rest : rest = Tail(ui_to_player)
    OBVIOUS
  <1>4. PICK n \in Nat \ {0} : n = Len(ui_to_player)
    BY <1>2
  <1>5. /\ rest \in Seq(Command) /\ Len(rest) = n - 1
        /\ \A i \in 1 .. n - 1 : rest[i] = ui_to_player[i+1]
    BY <1>1, <1>3, <1>4
  <1>6. Pairs'
    BY <1>3, <1>4, <1>5 DEF Pairs
  <1>7. ui_to_player[1].cmd = "PLAY" => rest # <<>> /\ rest[1].cmd = "BUFFER"
    <2>1. SUFFICES ASSUME ui_to_player[1].cmd = "PLAY" PROVE rest # <<>> /\ rest[1].cmd = "BUFFER"
      OBVIOUS
    <2>2. 1 < n /\ ui_to_player[2].cmd = "BUFFER"
      BY <1>4, <2>1 DEF Pairs
    <2>3. QED
      BY <1>5, <2>2
  <1>8. Head(ui_to_player) = ui_to_player[1]
    OBVIOUS
  <1>9. QED
    BY <1>1, <1>3, <1>6, <1>7, <1>8

\* Messages written in one go: a PLAY is written together with its buffer.
WholeMessages(ms) ==
  /\ ms \in Seq(Command) /\ Len(ms) \in Nat
  /\ \A i \in 1 .. Len(ms) : ms[i].cmd = "PLAY" => i < Len(ms) /\ ms[i+1].cmd = "BUFFER"

LEMMA ClientMessages ==
  /\ WholeMessages(StopMessages) /\ WholeMessages(ExitMessages)
  /\ \A f \in Track : WholeMessages(PlayMessages(f))
  /\ \A d \in Delta : WholeMessages(VolumeMessages(d))
  <1>1. WholeMessages(StopMessages) /\ WholeMessages(ExitMessages)
    BY DEF StopMessages, ExitMessages, WholeMessages, Command
  <1>2. \A f \in Track : WholeMessages(PlayMessages(f))
    BY DEF PlayMessages, WholeMessages, Command
  <1>3. \A d \in Delta : WholeMessages(VolumeMessages(d))
    BY DEF VolumeMessages, WholeMessages, Command
  <1>4. QED
    BY <1>1, <1>2, <1>3

\* They keep every PLAY in the pipe with its buffer, and the head where it is.
LEMMA PipeWritten ==
  ASSUME ui_to_player \in Seq(Command), Pairs, NEW ms, WholeMessages(ms),
         ui_to_player' = ui_to_player \o ms
  PROVE  /\ ui_to_player' \in Seq(Command) /\ Pairs'
         /\ ui_to_player # <<>> =>
              ui_to_player' # <<>> /\ ui_to_player'[1] = ui_to_player[1]
  <1>1. /\ ms \in Seq(Command) /\ Len(ms) \in Nat
        /\ \A i \in 1 .. Len(ms) : ms[i].cmd = "PLAY" =>
             i < Len(ms) /\ ms[i+1].cmd = "BUFFER"
    BY DEF WholeMessages
  <1>2. PICK m : m = Len(ms)
    OBVIOUS
  <1>3. PICK n \in Nat : n = Len(ui_to_player)
    BY LenProperties
  <1>4. PICK all : all = ui_to_player \o ms
    OBVIOUS
  <1>5. /\ all \in Seq(Command) /\ Len(all) = n + m
        /\ \A i \in 1 .. n + m : all[i] = IF i <= n THEN ui_to_player[i] ELSE ms[i - n]
    BY <1>1, <1>2, <1>3, <1>4, ConcatProperties
  <1>6. \A i \in 1 .. n + m : all[i].cmd = "PLAY" => i < n + m /\ all[i+1].cmd = "BUFFER"
    <2>1. SUFFICES ASSUME NEW i \in 1 .. n + m, all[i].cmd = "PLAY"
                   PROVE  i < n + m /\ all[i+1].cmd = "BUFFER"
      OBVIOUS
    <2>2. CASE i <= n
      <3>1. i < n /\ ui_to_player[i+1].cmd = "BUFFER"
        BY <1>3, <1>5, <2>1, <2>2 DEF Pairs
      <3>2. QED
        BY <1>1, <1>2, <1>5, <3>1
    <2>3. CASE i > n
      <3>1. PICK k \in 1 .. m : k = i - n
        BY <1>1, <1>2, <2>3
      <3>2. k < m /\ ms[k+1].cmd = "BUFFER"
        BY <1>1, <1>2, <1>5, <2>1, <2>3, <3>1, SMTT(30)
      <3>3. all[i+1] = ms[k+1]
        <4>1. i + 1 \in 1 .. n + m /\ ~(i + 1 <= n) /\ (i + 1) - n = k + 1
          BY <1>1, <1>2, <2>3, <3>1, <3>2
        <4>2. QED
          BY <1>5, <4>1
      <3>4. QED
        BY <1>1, <1>2, <3>1, <3>2, <3>3
    <2>4. QED
      BY <1>1, <1>2, <2>2, <2>3
  <1>7. Pairs'
    BY <1>4, <1>5, <1>6 DEF Pairs
  <1>8. ui_to_player # <<>> => all # <<>> /\ all[1] = ui_to_player[1]
    <2>1. SUFFICES ASSUME ui_to_player # <<>> PROVE all # <<>> /\ all[1] = ui_to_player[1]
      OBVIOUS
    <2>2. n > 0
      BY <1>3, <2>1, EmptySeq
    <2>3. QED
      BY <1>1, <1>2, <1>5, <2>2
  <1>9. QED
    BY <1>4, <1>5, <1>7, <1>8

\* A result sent is a result in the pipe, or the end of the process.
LEMMA Sent ==
  ASSUME player_to_ui \in Seq(ResultMessage), killed \in BOOLEAN,
         NEW m \in ResultMessage, Send(m)
  PROVE  player_to_ui' \in Seq(ResultMessage) /\ killed' \in BOOLEAN
  <1>1. Append(player_to_ui, m) \in Seq(ResultMessage)
    BY AppendProperties
  <1>2. CASE ui_reads
    BY <1>1, <1>2 DEF Send
  <1>3. CASE ~ui_reads
    BY <1>3 DEF Send
  <1>4. QED
    BY <1>2, <1>3
--------------------------------------------------------------------------------
(* types and control                                                           *)

LEMMA InitType == Init => TypeInv
  <1> SUFFICES ASSUME Init PROVE TypeInv
    OBVIOUS
  <1>1. TypeOK
    <2>1. <<>> \in Seq(Command) /\ <<>> \in Seq([size : Size, addr : Address])
          /\ <<>> \in Seq([cmd : {"PLAY", "STOP"}, result : {"SUCCESS", "FAILURE"}])
      BY EmptySeq
    <2>2. [a \in Address |-> 0] \in [Address -> Nat]
      OBVIOUS
    <2>3. QED
      BY <2>1, <2>2, ConstantsAssumption DEF Init, PlayerInit, TypeOK, PlayerPCs
  <1>2. PipeInv
    BY DEF Init, PlayerInit, PipeInv, Pairs, AwaitsBuffer, StopPCs
  <1>3. ControlInv
    BY DEF Init, PlayerInit, ControlInv, StopPCs, LoadedPCs, LoadingPCs, EndPCs
  <1>4. QED
    BY <1>1, <1>2, <1>3 DEF TypeInv

\* Steps that leave the pipes, the list and the mapped memory alone
LEMMA TypeKept ==
  ASSUME TypeInv, UNCHANGED pipeVars, UNCHANGED <<dma_memories, mapped, volume>>
  PROVE  Pairs' /\ UNCHANGED <<ui_to_player, player_to_ui, dma_memories, mapped, volume>>
  BY DEF TypeInv, PipeInv, Pairs, pipeVars

LEMMA TypeRequestFails == TypeInv /\ RequestFails => TypeInv'
  BY ConstantsAssumption, TypeKept
     DEF RequestFails,
        Pairs, TypeInv, TypeOK, PipeInv, ControlInv, AwaitsBuffer, StopPCs, LoadedPCs, LoadingPCs,
        EndPCs, PlayerPCs, Goto, SystemCall, pipeVars, programVars, codecVars, deviceVars

LEMMA TypeClose == TypeInv /\ Close => TypeInv'
  BY ConstantsAssumption, TypeKept
     DEF Close,
        Pairs, TypeInv, TypeOK, PipeInv, ControlInv, AwaitsBuffer, StopPCs, LoadedPCs, LoadingPCs,
        EndPCs, PlayerPCs, Goto, SystemCall, pipeVars, programVars, codecVars, deviceVars

LEMMA TypeStopTest == TypeInv /\ StopTest => TypeInv'
  BY ConstantsAssumption, TypeKept
     DEF StopTest, AfterStop, FirstResult,
        Pairs, TypeInv, TypeOK, PipeInv, ControlInv, AwaitsBuffer, StopPCs, LoadedPCs, LoadingPCs,
        EndPCs, PlayerPCs, Goto, SystemCall, pipeVars, programVars, codecVars, deviceVars

LEMMA TypeStopIoctl == TypeInv /\ StopIoctl => TypeInv'
  BY ConstantsAssumption, TypeKept
     DEF StopIoctl,
        Pairs, TypeInv, TypeOK, PipeInv, ControlInv, AwaitsBuffer, StopPCs, LoadedPCs, LoadingPCs,
        EndPCs, PlayerPCs, Goto, SystemCall, pipeVars, programVars, codecVars, deviceVars

LEMMA TypeSetRate == TypeInv /\ SetRate => TypeInv'
  <1> SUFFICES ASSUME TypeInv, SetRate PROVE TypeInv'
    OBVIOUS
  <1>1. buffer_size' \in Size
    <2>1. dma_memories \in Seq(Chunk)
      BY DEF TypeInv, TypeOK, Chunk
    <2>2. Entry(buffer) # 0 /\ buffer_size' = dma_memories[Entry(buffer)].size
      BY DEF SetRate, lookup_buffer
    <2>3. dma_memories[Entry(buffer)] \in Chunk
      BY <2>1, <2>2, EntryCases, LenProperties, ElementOfSeq
    <2>4. QED
      BY <2>2, <2>3 DEF Chunk
  <1>2. QED
    BY <1>1, TypeKept
       DEF SetRate, TypeInv, TypeOK, PipeInv, ControlInv, AwaitsBuffer, StopPCs, LoadedPCs,
           LoadingPCs, EndPCs, PlayerPCs, Goto, SystemCall, pipeVars, programVars, codecVars,
           deviceVars, Pairs

LEMMA TypePlayFails == TypeInv /\ PlayFails => TypeInv'
  BY ConstantsAssumption, TypeKept
     DEF PlayFails,
        Pairs, TypeInv, TypeOK, PipeInv, ControlInv, AwaitsBuffer, StopPCs, LoadedPCs, LoadingPCs,
        EndPCs, PlayerPCs, Goto, SystemCall, pipeVars, programVars, codecVars, deviceVars

LEMMA TypePlayStop == TypeInv /\ PlayStop => TypeInv'
  BY ConstantsAssumption, TypeKept
     DEF PlayStop,
        Pairs, TypeInv, TypeOK, PipeInv, ControlInv, AwaitsBuffer, StopPCs, LoadedPCs, LoadingPCs,
        EndPCs, PlayerPCs, Goto, SystemCall, pipeVars, programVars, codecVars, deviceVars

LEMMA TypePlaySetup == TypeInv /\ PlaySetup => TypeInv'
  BY ConstantsAssumption, TypeKept
     DEF PlaySetup,
        Pairs, TypeInv, TypeOK, PipeInv, ControlInv, AwaitsBuffer, StopPCs, LoadedPCs, LoadingPCs,
        EndPCs, PlayerPCs, Goto, SystemCall, pipeVars, programVars, codecVars, deviceVars

LEMMA TypePlayStart == TypeInv /\ PlayStart => TypeInv'
  <1> SUFFICES ASSUME TypeInv, PlayStart PROVE TypeInv'
    OBVIOUS
  <1>1. channel' \subseteq [addr : Address, len : Size, track : Track]
    BY DEF PlayStart, TypeInv, TypeOK, ControlInv, LoadedPCs, Goto
  <1>2. defects' \subseteq {"stale_entry_reused", "start_failed", "ended_before_reply",
                      "late_completion"}
    BY DEF PlayStart, TypeInv, TypeOK
  <1>3. TypeOK'
    BY <1>1, <1>2 DEF PlayStart, TypeInv, TypeOK, PlayerPCs, Goto, SystemCall, pipeVars, codecVars
  <1>4. PipeInv' /\ ControlInv'
    BY TypeKept DEF PlayStart, TypeInv, PipeInv, ControlInv, AwaitsBuffer, StopPCs, LoadedPCs,
                    LoadingPCs, EndPCs, Goto, pipeVars, codecVars
  <1>5. QED
    BY <1>3, <1>4 DEF TypeInv

LEMMA TypeComplete == TypeInv /\ Complete => TypeInv'
  BY ConstantsAssumption, TypeKept
     DEF Complete,
        Pairs, TypeInv, TypeOK, PipeInv, ControlInv, AwaitsBuffer, StopPCs, LoadedPCs, LoadingPCs,
        EndPCs, PlayerPCs, Goto, SystemCall, pipeVars, programVars, codecVars, deviceVars

LEMMA TypeSignal == TypeInv /\ Signal => TypeInv'
  BY ConstantsAssumption, TypeKept
     DEF Signal,
        Pairs, TypeInv, TypeOK, PipeInv, ControlInv, AwaitsBuffer, StopPCs, LoadedPCs, LoadingPCs,
        EndPCs, PlayerPCs, Goto, SystemCall, pipeVars, programVars, codecVars, deviceVars

LEMMA TypeReceive == TypeInv /\ Receive => TypeInv'
  <1> SUFFICES ASSUME TypeInv, Receive PROVE TypeInv'
    OBVIOUS
  <1>1. /\ ui_to_player' \in Seq(Command) /\ Pairs'
        /\ Head(ui_to_player).cmd = "PLAY" =>
             ui_to_player' # <<>> /\ ui_to_player'[1].cmd = "BUFFER"
    BY PipeRead DEF Receive, TypeInv, TypeOK, PipeInv
  <1>2. PICK cmd \in {"PLAY", "STOP", "EXIT"} :
          /\ cmd = Head(ui_to_player).cmd
          /\ pc' = FirstStep(cmd) /\ command' = cmd /\ result' = FirstResult(cmd)
    BY DEF Receive, Goto
  <1>3. TypeOK'
    BY <1>1, <1>2 DEF Receive, TypeInv, TypeOK, FirstStep, FirstResult, PlayerPCs, SystemCall,
        codecVars
  <1>4. PipeInv'
    BY <1>1, <1>2 DEF PipeInv, AwaitsBuffer
  <1>5. ControlInv'
    BY <1>2 DEF ControlInv, FirstStep, StopPCs, LoadedPCs, LoadingPCs, EndPCs
  <1>6. QED
    BY <1>3, <1>4, <1>5 DEF TypeInv

\* set_relative_volume never leaves the range of the codec.
LEMMA VolumeInRange ==
  ASSUME NEW v \in 0 .. MAX_VOLUME, NEW d \in Delta
  PROVE  Relative(v, d) \in 0 .. MAX_VOLUME
  BY ConstantsAssumption DEF Relative

LEMMA TypeChangeVolume == TypeInv /\ ChangeVolume => TypeInv'
  <1> SUFFICES ASSUME TypeInv, ChangeVolume PROVE TypeInv'
    OBVIOUS
  <1>1. /\ ui_to_player' \in Seq(Command) /\ Pairs'
        /\ Head(ui_to_player) \in Command
    BY PipeRead DEF ChangeVolume, TypeInv, TypeOK, PipeInv
  <1>2. Head(ui_to_player).arg \in Delta
    BY <1>1 DEF ChangeVolume, Command
  <1>3. volume' \in 0 .. MAX_VOLUME
    BY <1>2, VolumeInRange DEF ChangeVolume, TypeInv, TypeOK
  <1>4. TypeOK'
    BY <1>1, <1>3 DEF ChangeVolume, TypeInv, TypeOK, PlayerPCs, Goto, SystemCall, programVars
  <1>5. PipeInv' /\ ControlInv'
    BY <1>1 DEF ChangeVolume, TypeInv, PipeInv, ControlInv, AwaitsBuffer, StopPCs, LoadedPCs,
                LoadingPCs, EndPCs, Goto, programVars
  <1>6. QED
    BY <1>4, <1>5 DEF TypeInv

LEMMA TypeReadBuffer == TypeInv /\ ReadBuffer => TypeInv'
  <1> SUFFICES ASSUME TypeInv, ReadBuffer PROVE TypeInv'
    OBVIOUS
  <1>1. /\ ui_to_player' \in Seq(Command) /\ Pairs'
        /\ Head(ui_to_player) \in Command /\ Head(ui_to_player) = ui_to_player[1]
    BY PipeRead DEF ReadBuffer, TypeInv, TypeOK, PipeInv
  <1>2. pc = "read_buffer" /\ pc' \in {"request", "reply"} /\ command = "PLAY" /\ result = "FAILURE"
    BY DEF ReadBuffer, Goto, TypeInv, ControlInv, LoadingPCs
  <1>3. track' \in Track
    BY <1>1, <1>2 DEF ReadBuffer, TypeInv, PipeInv, AwaitsBuffer, Command
  <1>4. TypeOK'
    BY <1>1, <1>2, <1>3 DEF ReadBuffer, TypeInv, TypeOK, PlayerPCs, SystemCall, codecVars
  <1>5. PipeInv' /\ ControlInv'
    BY <1>1, <1>2, <1>3 DEF ReadBuffer, TypeInv, PipeInv, ControlInv, AwaitsBuffer, StopPCs,
                            LoadedPCs, LoadingPCs, EndPCs
  <1>6. QED
    BY <1>4, <1>5 DEF TypeInv

LEMMA TypeRequestBuffer == TypeInv /\ RequestBuffer => TypeInv'
  <1> SUFFICES ASSUME TypeInv, RequestBuffer PROVE TypeInv'
    OBVIOUS
  <1>1. /\ pc = "request" /\ pc' = "set_rate"
        /\ command = "PLAY" /\ result = "FAILURE" /\ track \in Track
    BY DEF RequestBuffer, Goto, TypeInv, ControlInv, LoadingPCs
  <1>2. SizeOf[track] \in Size /\ SizeOf[track] \in Nat
    BY <1>1, ConstantsAssumption DEF Size
  <1>3. PICK a \in Address :
          /\ buffer' = a
          /\ mapped' = [mapped EXCEPT ![a] = SizeOf[track]]
          /\ defects' \subseteq defects \cup {"stale_entry_reused"}
          /\ dma_memories' = Append(dma_memories, [size |-> SizeOf[track], addr |-> a])
    BY DEF RequestBuffer
  <1>4. dma_memories' \in Seq([size : Size, addr : Address])
    BY <1>2, <1>3, AppendProperties DEF TypeInv, TypeOK
  <1>5. mapped' \in [Address -> Nat]
    BY <1>2, <1>3 DEF TypeInv, TypeOK
  <1>6. TypeOK'
    BY <1>1, <1>3, <1>4, <1>5 DEF RequestBuffer, TypeInv, TypeOK, PlayerPCs, SystemCall, pipeVars
  <1>7. PipeInv' /\ ControlInv'
    BY <1>1, <1>3 DEF RequestBuffer, TypeInv, PipeInv, Pairs, ControlInv, AwaitsBuffer, StopPCs,
                      LoadedPCs, LoadingPCs, EndPCs, pipeVars
  <1>8. QED
    BY <1>6, <1>7 DEF TypeInv

LEMMA TypeReply == TypeInv /\ Reply => TypeInv'
  <1> SUFFICES ASSUME TypeInv, Reply PROVE TypeInv'
    OBVIOUS
  <1>1. [cmd |-> command, result |-> result] \in ResultMessage
    BY DEF Reply, Goto, TypeInv, TypeOK, ControlInv, ResultMessage
  <1>2. player_to_ui' \in Seq(ResultMessage) /\ killed' \in BOOLEAN
    BY <1>1, Sent DEF Reply, Answer, TypeInv, TypeOK, ResultMessage
  <1>3. TypeOK'
    BY <1>2 DEF Reply, TypeInv, TypeOK, ResultMessage, PlayerPCs, Goto, SystemCall, codecVars
  <1>4. PipeInv' /\ ControlInv'
    BY DEF Reply, TypeInv, PipeInv, Pairs, ControlInv, AwaitsBuffer, StopPCs, LoadedPCs,
           LoadingPCs,
           EndPCs, Goto
  <1>5. QED
    BY <1>3, <1>4 DEF TypeInv

\* What stays of a mapping is no negative amount.
LEMMA UnmappedType ==
  ASSUME NEW m \in [Address -> Nat], NEW a, NEW size \in Nat
  PROVE  Unmapped(m, a, size) \in [Address -> Nat]
  <1>1. CASE a \in Address
    <2>1. m[a] \in Nat
      BY <1>1
    <2>2. (IF size >= m[a] THEN 0 ELSE m[a] - size) \in Nat
      BY <2>1
    <2>3. QED
      BY <1>1, <2>2 DEF Unmapped
  <1>2. CASE a \notin Address
    BY <1>2 DEF Unmapped
  <1>3. QED
    BY <1>1, <1>2

LEMMA ChunkType ==
  ASSUME NEW c \in Chunk
  PROVE  c.size \in Nat \ {0} /\ c.size \in Size /\ c.addr \in Address
  BY ConstantsAssumption DEF Chunk, Size

LEMMA FreeType ==
  ASSUME dma_memories \in Seq(Chunk), mapped \in [Address -> Nat], NEW a, FreeAndErase(a)
  PROVE  dma_memories' \in Seq(Chunk) /\ mapped' \in [Address -> Nat]
  <1>1. CASE Entry(a) = 0
    BY <1>1 DEF FreeAndErase
  <1>2. CASE Entry(a) # 0
    <2>1. Entry(a) \in DOMAIN dma_memories
      BY <1>2, EntryCases
    <2>2. dma_memories[Entry(a)].size \in Nat
      BY <2>1, LenProperties, ElementOfSeq, ChunkType
    <2>3. QED
      BY <1>2, <2>1, <2>2, EraseKeeps, UnmappedType DEF FreeAndErase
  <1>3. QED
    BY <1>1, <1>2

LEMMA TypeStopFree == TypeInv /\ StopFree => TypeInv'
  <1> SUFFICES ASSUME TypeInv, StopFree PROVE TypeInv'
    OBVIOUS
  <1>1. mapped' \in [Address -> Nat]
    <2>1. dma_memories \in Seq(Chunk) /\ mapped \in [Address -> Nat]
      BY DEF TypeInv, TypeOK, Chunk
    <2>2. CASE Entry(tx_buffer) = 0
      BY <2>1, <2>2 DEF StopFree
    <2>3. CASE Entry(tx_buffer) # 0
      <3>1. dma_memories[Entry(tx_buffer)].size \in Nat
        BY <2>1, <2>3, EntryCases, LenProperties, ElementOfSeq, ChunkType
      <3>2. QED
        BY <2>1, <2>3, <3>1, UnmappedType DEF StopFree, lookup_buffer
    <2>4. QED
      BY <2>2, <2>3
  <1>2. pc = "stop_free" /\ pc' = AfterStop /\ command' = command /\ result' = result
    BY DEF StopFree, Goto, programVars
  <1>3. TypeOK'
    <2>1. defects' \subseteq {"stale_entry_reused", "start_failed", "ended_before_reply",
                              "late_completion"}
      BY DEF StopFree, TypeInv, TypeOK
    <2>2. QED
      BY <1>1, <1>2, <2>1 DEF StopFree, TypeInv, TypeOK, AfterStop, PlayerPCs, SystemCall, pipeVars,
          programVars
  <1>4. PipeInv' /\ ControlInv'
    BY <1>2 DEF StopFree, TypeInv, TypeOK, PipeInv, Pairs, ControlInv, AwaitsBuffer, AfterStop,
        FirstResult, StopPCs, LoadedPCs, LoadingPCs, EndPCs, pipeVars, programVars
  <1>5. QED
    BY <1>3, <1>4 DEF TypeInv

LEMMA TypeRelease == TypeInv /\ Release => TypeInv'
  <1> SUFFICES ASSUME TypeInv, Release PROVE TypeInv'
    OBVIOUS
  <1>1. dma_memories' \in Seq(Chunk) /\ mapped' \in [Address -> Nat]
    BY FreeType DEF Release, TypeInv, TypeOK, Chunk
  <1>2. channel' \subseteq channel
    BY DEF Release
  <1>3. TypeOK'
    BY <1>1, <1>2 DEF Release, TypeInv, TypeOK, Chunk, PlayerPCs, Goto, SystemCall, pipeVars,
        programVars
  <1>4. PipeInv' /\ ControlInv'
    BY DEF Release, TypeInv, PipeInv, Pairs, ControlInv, AwaitsBuffer, StopPCs, LoadedPCs,
           LoadingPCs, EndPCs, Goto, pipeVars, programVars
  <1>5. QED
    BY <1>3, <1>4 DEF TypeInv

LEMMA TypeDestroy == TypeInv /\ Destroy => TypeInv'
  <1> SUFFICES ASSUME TypeInv, Destroy PROVE TypeInv'
    OBVIOUS
  <1>1. dma_memories' \in Seq([size : Size, addr : Address]) /\ mapped' \in [Address -> Nat]
    BY DEF Destroy, TypeInv, TypeOK
  <1>2. channel' \subseteq channel
    BY DEF Destroy
  <1>3. TypeOK'
    BY <1>1, <1>2 DEF Destroy, TypeInv, TypeOK, PlayerPCs, Goto, SystemCall, pipeVars, programVars
  <1>4. PipeInv' /\ ControlInv'
    BY DEF Destroy, TypeInv, PipeInv, Pairs, ControlInv, AwaitsBuffer, StopPCs, LoadedPCs,
           LoadingPCs, EndPCs, Goto, pipeVars, programVars
  <1>5. QED
    BY <1>3, <1>4 DEF TypeInv

LEMMA TypeInterrupt == TypeInv /\ Interrupt => TypeInv'
  <1> SUFFICES ASSUME TypeInv, Interrupt PROVE TypeInv'
    OBVIOUS
  <1>1. dma_memories' \in Seq(Chunk) /\ mapped' \in [Address -> Nat]
    BY FreeType DEF Interrupt, TypeInv, TypeOK, Chunk
  <1>2. player_to_ui' \in Seq(ResultMessage) /\ killed' \in BOOLEAN
    <2>1. [cmd |-> "STOP", result |-> "SUCCESS"] \in ResultMessage
      BY DEF ResultMessage
    <2>2. QED
      BY <2>1, Sent DEF Interrupt, TypeInv, TypeOK, ResultMessage
  <1>3. defects' \subseteq {"stale_entry_reused", "start_failed", "ended_before_reply",
                      "late_completion"}
    BY DEF Interrupt, TypeInv, TypeOK
  <1>4. TypeOK'
    BY <1>1, <1>2, <1>3 DEF Interrupt, TypeInv, TypeOK, Chunk, ResultMessage, programVars
  <1>5. PipeInv' /\ ControlInv'
    BY DEF Interrupt, TypeInv, PipeInv, Pairs, ControlInv, AwaitsBuffer, programVars
  <1>6. QED
    BY <1>4, <1>5 DEF TypeInv

\* A step of somebody else: of all the variables only the pipes change.
Outside == UNCHANGED <<pc, programVars, codecVars, deviceVars, defects>>

LEMMA TypeOutside ==
  ASSUME TypeInv, Outside,
         ui_to_player' = ui_to_player \/ \E ms : WholeMessages(ms) /\ ui_to_player' = ui_to_player \o ms,
         player_to_ui' = player_to_ui \/ (player_to_ui # <<>> /\ player_to_ui' = Tail(player_to_ui)),
         ui_reads' \in BOOLEAN, killed' \in BOOLEAN
  PROVE  TypeInv'
  <1>1. /\ ui_to_player' \in Seq(Command) /\ Pairs'
        /\ ui_to_player # <<>> => ui_to_player' # <<>> /\ ui_to_player'[1] = ui_to_player[1]
    <2>1. CASE ui_to_player' = ui_to_player
      BY <2>1 DEF TypeInv, TypeOK, PipeInv, Pairs
    <2>2. CASE \E ms : WholeMessages(ms) /\ ui_to_player' = ui_to_player \o ms
      BY <2>2, PipeWritten DEF TypeInv, TypeOK, PipeInv
    <2>3. QED
      BY <2>1, <2>2
  <1>2. player_to_ui' \in Seq(ResultMessage)
    <2>1. CASE player_to_ui' = player_to_ui
      BY <2>1 DEF TypeInv, TypeOK, ResultMessage
    <2>2. CASE player_to_ui # <<>> /\ player_to_ui' = Tail(player_to_ui)
      BY <2>2, HeadTailProperties DEF TypeInv, TypeOK, ResultMessage
    <2>3. QED
      BY <2>1, <2>2
  <1>3. TypeOK'
    BY <1>1, <1>2 DEF TypeInv, TypeOK, Outside, ResultMessage, programVars, codecVars, deviceVars
  <1>4. PipeInv' /\ ControlInv'
    BY <1>1 DEF TypeInv, PipeInv, ControlInv, AwaitsBuffer, Outside, programVars
  <1>5. QED
    BY <1>3, <1>4 DEF TypeInv

LEMMA ClientOutside == Client => Outside
  BY DEF Client, ClientSend, ClientReceive, ClientExit, Outside

LEMMA TypeClient == TypeInv /\ Client => TypeInv'
  <1> SUFFICES ASSUME TypeInv, Client PROVE TypeInv'
    OBVIOUS
  <1>1. ui_to_player' = ui_to_player \/ \E ms : WholeMessages(ms) /\ ui_to_player' = ui_to_player \o ms
    BY ClientMessages DEF Client, ClientSend, ClientReceive, ClientExit, SendToPlayer
  <1>2. player_to_ui' = player_to_ui \/ (player_to_ui # <<>> /\ player_to_ui' = Tail(player_to_ui))
    <2>1. CASE ClientSend
      BY <2>1 DEF ClientSend
    <2>2. CASE ClientReceive
      BY <2>2 DEF ClientReceive
    <2>3. CASE ClientExit
      BY <2>3 DEF ClientExit
    <2>4. QED
      BY <2>1, <2>2, <2>3 DEF Client
  <1>3. ui_reads' \in BOOLEAN /\ killed' \in BOOLEAN
    BY DEF Client, ClientSend, ClientReceive, ClientExit, TypeInv, TypeOK
  <1>4. QED
    BY <1>1, <1>2, <1>3, ClientOutside, TypeOutside

\* A step out of nothing
LEMMA TypeStutter == TypeInv /\ UNCHANGED vars => TypeInv'
  BY DEF TypeInv, TypeOK, PipeInv, Pairs, ControlInv, AwaitsBuffer, vars, playerVars, pipeVars,
         programVars, codecVars, deviceVars

LEMMA NextType == TypeInv /\ [Next]_vars => TypeInv'
  BY TypeReceive, TypeChangeVolume, TypeReadBuffer, TypeRequestBuffer, TypeRequestFails,
     TypeReply,
     TypeClose, TypeStopTest, TypeStopIoctl, TypeStopFree, TypeSetRate, TypePlayFails, TypePlayStop,
     TypePlaySetup, TypePlayStart, TypeRelease, TypeDestroy, TypeComplete, TypeSignal,
     TypeInterrupt, TypeClient, TypeStutter
     DEF Next, Program, Device

\* Every reachable state is well typed.
THEOREM PlayerTypes == Spec => []TypeOK
  <1>1. TypeInv => TypeOK
    BY DEF TypeInv
  <1>2. QED
    BY <1>1, InitType, NextType, PTL DEF Spec
--------------------------------------------------------------------------------
(* silence                                                                     *)

LEMMA InitSilence == Init => SilenceInv
  BY DEF Init, PlayerInit, SilenceInv, DeviceKnown, IdlePCs, LoadingPCs, LoadedPCs, EndPCs

\* Between two commands and in the steps of stop() that touch the device
LEMMA SilenceReceive == TypeInv /\ DeviceKnown /\ Receive => DeviceKnown'
  BY DEF Receive, Goto, FirstStep, SystemCall, codecVars, TypeInv, TypeOK,
         DeviceKnown, IdlePCs, LoadingPCs, LoadedPCs, EndPCs

LEMMA SilenceIdle == TypeInv /\ DeviceKnown /\ (ChangeVolume \/ ReadBuffer) => DeviceKnown'
  BY DEF ChangeVolume, ReadBuffer, Goto, SystemCall, programVars, codecVars, TypeInv, TypeOK,
         DeviceKnown, IdlePCs, LoadingPCs, LoadedPCs, EndPCs

LEMMA SilenceRequest ==
  TypeInv /\ DeviceKnown /\ (RequestBuffer \/ RequestFails) => DeviceKnown'
  BY DEF RequestBuffer, RequestFails, Goto, SystemCall, programVars, codecVars, TypeInv, TypeOK,
         DeviceKnown, IdlePCs, LoadingPCs, LoadedPCs, EndPCs

LEMMA SilenceReply == TypeInv /\ DeviceKnown /\ (Reply \/ Close) => DeviceKnown'
  BY DEF Reply, Close, Goto, SystemCall, programVars, codecVars, TypeInv, TypeOK,
         DeviceKnown, IdlePCs, LoadingPCs, LoadedPCs, EndPCs

LEMMA SilenceStop ==
  TypeInv /\ DeviceKnown /\ (StopTest \/ StopIoctl \/ StopFree) /\ InTime' => DeviceKnown'
  BY DEF InTime, StopTest, StopIoctl, StopFree, Goto, SystemCall, AfterStop, FirstResult, StopPCs,
         programVars, codecVars, deviceVars, TypeInv, TypeOK, ControlInv,
         DeviceKnown, IdlePCs, LoadingPCs, LoadedPCs, EndPCs

LEMMA SilencePlay ==
  TypeInv /\ DeviceKnown /\ (SetRate \/ PlayFails \/ PlayStop \/ PlaySetup \/ PlayStart)
    => DeviceKnown'
  BY DEF SetRate, PlayFails, PlayStop, PlaySetup, PlayStart, Goto, SystemCall,
         programVars, codecVars, deviceVars, TypeInv, TypeOK, ControlInv,
         DeviceKnown, IdlePCs, LoadingPCs, LoadedPCs, EndPCs

LEMMA SilenceRelease == TypeInv /\ DeviceKnown /\ (Release \/ Destroy) => DeviceKnown'
  BY DEF Release, Destroy, Goto, SystemCall, programVars, TypeInv, TypeOK, ControlInv,
         DeviceKnown, IdlePCs, LoadingPCs, LoadedPCs, EndPCs

LEMMA SilenceDevice == TypeInv /\ DeviceKnown /\ Device => DeviceKnown'
  BY DEF Device, Complete, Signal, Interrupt, programVars, codecVars, TypeInv, TypeOK,
         DeviceKnown, IdlePCs, LoadingPCs, LoadedPCs, EndPCs

LEMMA SilenceOutside == TypeInv /\ DeviceKnown /\ (Outside \/ UNCHANGED vars) => DeviceKnown'
  BY DEF Outside, vars, playerVars, programVars, codecVars, deviceVars,
         DeviceKnown, IdlePCs, LoadingPCs, LoadedPCs, EndPCs

\* What has gone wrong is not forgotten.
LEMMA DefectsKept == [Next]_vars => defects \subseteq defects'
  BY DEF Next, Program, Device, Client, Receive, ChangeVolume, ReadBuffer, RequestBuffer,
         RequestFails, Reply, Close, StopTest, StopIoctl, StopFree, SetRate, PlayFails, PlayStop,
         PlaySetup, PlayStart, Release, Destroy, Complete, Signal, Interrupt, ClientSend,
         ClientReceive, ClientExit, vars, playerVars

LEMMA NextSilence == TypeInv /\ SilenceInv /\ [Next]_vars => SilenceInv'
  <1> SUFFICES ASSUME TypeInv, SilenceInv, [Next]_vars, InTime' PROVE DeviceKnown'
    BY DEF SilenceInv
  <1>1. DeviceKnown
    BY DefectsKept DEF SilenceInv, InTime
  <1>2. QED
    BY <1>1, SilenceReceive, SilenceIdle, SilenceRequest, SilenceReply, SilenceStop, SilencePlay,
       SilenceRelease, SilenceDevice, SilenceOutside, ClientOutside
       DEF Next, Program

\* A codec that says it is idle plays nothing and owes no completion, as long as none
\* has come after its stop() was through.
THEOREM PlayerSilence == Spec => []IdleIsSilent
  <1>1. SilenceInv => IdleIsSilent
    BY DEF SilenceInv, DeviceKnown, IdleIsSilent
  <1>2. QED
    BY <1>1, InitType, NextType, InitSilence, NextSilence, PTL DEF Spec
--------------------------------------------------------------------------------
(* memory and what plays                                                       *)

\* The state the lemmas below start in
Sound == TypeInv /\ DeviceKnown /\ Memory /\ Played

LEMMA InitMemory == Init => Memory /\ Played
  BY DEF Init, PlayerInit, Memory, DistinctEntries, LoadedPCs, Played

LEMMA MemoryReceive == Sound /\ Receive => Memory' /\ Played'
  BY DEF Receive, Goto, FirstStep, SystemCall, codecVars, Sound, TypeInv, TypeOK, ControlInv,
         DeviceKnown, IdlePCs, LoadingPCs, LoadedPCs, EndPCs, Memory,
         DistinctEntries, Registered, TrackLoaded, ReadyToPlay, Played, PlaysWhole

LEMMA MemoryIdle == Sound /\ (ChangeVolume \/ ReadBuffer) => Memory' /\ Played'
  BY DEF ChangeVolume, ReadBuffer, Goto, SystemCall, programVars, codecVars, Sound, TypeInv,
         TypeOK, ControlInv, DeviceKnown, IdlePCs, LoadingPCs, LoadedPCs, EndPCs,
         Memory, DistinctEntries, Registered, TrackLoaded, ReadyToPlay, Played, PlaysWhole

LEMMA MemoryReply == Sound /\ (Reply \/ Close \/ RequestFails) => Memory' /\ Played'
  BY DEF Reply, Close, RequestFails, Goto, SystemCall, programVars, codecVars, Sound, TypeInv,
         TypeOK, ControlInv, DeviceKnown, IdlePCs, LoadingPCs, LoadedPCs, EndPCs,
         Memory, DistinctEntries, Registered, TrackLoaded, ReadyToPlay, Played, PlaysWhole

LEMMA MemoryStop == Sound /\ (StopTest \/ StopIoctl) => Memory' /\ Played'
  BY DEF StopTest, StopIoctl, Goto, SystemCall, AfterStop, FirstResult, StopPCs, programVars,
         codecVars, deviceVars, Sound, TypeInv, TypeOK, ControlInv, DeviceKnown,
         IdlePCs, LoadingPCs, LoadedPCs, EndPCs, Memory, DistinctEntries, Registered,
         TrackLoaded, ReadyToPlay, Played, PlaysWhole

LEMMA MemoryFails == Sound /\ (PlayFails \/ PlayStop \/ PlaySetup) => Memory' /\ Played'
  BY DEF PlayFails, PlayStop, PlaySetup, Goto, SystemCall, programVars, codecVars, deviceVars,
         Sound, TypeInv, TypeOK, ControlInv, DeviceKnown, IdlePCs, LoadingPCs,
         LoadedPCs, EndPCs, Memory, DistinctEntries, Registered, TrackLoaded, ReadyToPlay,
         Played, PlaysWhole

LEMMA MemoryPlayStart == Sound /\ PlayStart /\ Clean' => Memory' /\ Played'
  <1> SUFFICES ASSUME Sound, PlayStart, Clean' PROVE Memory' /\ Played'
    OBVIOUS
  <1>1. /\ pc = "play_start" /\ pc' = "reply" /\ is_busy
        /\ UNCHANGED <<track, buffer, is_busy, sample_rate, tx_buffer, dma_memories, mapped>>
    BY DEF PlayStart, Goto, codecVars, Sound, DeviceKnown
  <1>2. TrackLoaded /\ ReadyToPlay /\ tx_buffer = buffer
    BY <1>1 DEF Sound, Memory
  <1>3. channel' = {[addr |-> buffer, len |-> buffer_size, track |-> track]}
    BY DEF PlayStart, Clean
  <1>4. PICK c : c = [addr |-> buffer, len |-> buffer_size, track |-> track]
    OBVIOUS
  <1>5. PlaysWhole(c)'
    BY <1>1, <1>2, <1>3, <1>4 DEF PlaysWhole, TrackLoaded, ReadyToPlay
  <1>6. Played'
    BY <1>1, <1>3, <1>4, <1>5 DEF Played
  <1>7. Memory'
    BY <1>1 DEF Sound, Memory, DistinctEntries, Registered, LoadedPCs
  <1>8. QED
    BY <1>6, <1>7

LEMMA MemoryComplete == Sound /\ (Complete \/ Signal) => Memory' /\ Played'
  BY DEF Complete, Signal, programVars, codecVars, Sound, TypeInv, TypeOK, ControlInv, DeviceKnown, IdlePCs, LoadingPCs, LoadedPCs, EndPCs, Memory, DistinctEntries,
         Registered, TrackLoaded, ReadyToPlay, Played, PlaysWhole

LEMMA MemoryOutside == Sound /\ (Outside \/ UNCHANGED vars) => Memory' /\ Played'
  BY DEF Outside, vars, playerVars, programVars, codecVars, deviceVars, Sound, TypeInv, TypeOK,
         ControlInv, DeviceKnown, IdlePCs, LoadingPCs, LoadedPCs, EndPCs, Memory,
         DistinctEntries, Registered, TrackLoaded, ReadyToPlay, Played, PlaysWhole

\* With one entry an address, the entry found is the one that registers it.
LEMMA EntryRegistered ==
  ASSUME dma_memories \in Seq(Chunk), DistinctEntries, NEW a, Registered(a)
  PROVE  /\ Entry(a) \in DOMAIN dma_memories /\ Entry(a) # 0
         /\ dma_memories[Entry(a)].addr = a
         /\ dma_memories[Entry(a)].size = mapped[a]
  <1>1. PICK i \in DOMAIN dma_memories :
          dma_memories[i].addr = a /\ dma_memories[i].size = mapped[a]
    BY DEF Registered
  <1>2. Entry(a) \in DOMAIN dma_memories /\ dma_memories[Entry(a)].addr = a /\ Entry(a) # 0
    BY <1>1, EntryFound
  <1>3. Entry(a) = i
    BY <1>1, <1>2 DEF DistinctEntries
  <1>4. QED
    BY <1>1, <1>2, <1>3

\* What is registered is given back whole, and its entry with it.
LEMMA FreedWhole ==
  ASSUME dma_memories \in Seq(Chunk), mapped \in [Address -> Nat], DistinctEntries,
         NEW a \in Address, Registered(a), FreeAndErase(a)
  PROVE  DistinctEntries' /\ mapped' = [mapped EXCEPT ![a] = 0]
  <1>1. /\ Entry(a) \in DOMAIN dma_memories /\ Entry(a) # 0
        /\ dma_memories[Entry(a)].size = mapped[a]
    BY EntryRegistered
  <1>2. mapped' = [mapped EXCEPT ![a] = 0]
    <2>1. mapped' = Unmapped(mapped, a, mapped[a])
      BY <1>1 DEF FreeAndErase
    <2>2. mapped[a] >= mapped[a]
      OBVIOUS
    <2>3. QED
      BY <2>1, <2>2 DEF Unmapped
  <1>3. PICK e \in DOMAIN dma_memories : e = Entry(a)
    BY <1>1
  <1>4. PICK n \in Nat : n = Len(dma_memories) /\ DOMAIN dma_memories = 1 .. n
    BY LenProperties
  <1>5. /\ DOMAIN dma_memories' = 1 .. n - 1
        /\ \A k \in 1 .. n - 1 :
             dma_memories'[k] = IF k < e THEN dma_memories[k] ELSE dma_memories[k+1]
    <2>1. dma_memories' = Erase(e)
      BY <1>1, <1>3 DEF FreeAndErase
    <2>2. QED
      BY <1>4, <2>1, EraseKeeps
  <1>6. ASSUME NEW i \in 1 .. n - 1, NEW j \in 1 .. n - 1,
               dma_memories'[i].addr = dma_memories'[j].addr
        PROVE  i = j
    <2>1. PICK k \in 1 .. n : k = (IF i < e THEN i ELSE i + 1) /\ dma_memories'[i] = dma_memories[k]
      BY <1>3, <1>4, <1>5
    <2>2. PICK l \in 1 .. n : l = (IF j < e THEN j ELSE j + 1) /\ dma_memories'[j] = dma_memories[l]
      BY <1>3, <1>4, <1>5
    <2>3. k = l
      BY <1>4, <1>6, <2>1, <2>2 DEF DistinctEntries
    <2>4. QED
      BY <1>3, <1>4, <2>1, <2>2, <2>3
  <1>7. QED
    BY <1>2, <1>5, <1>6 DEF DistinctEntries

\* A new buffer gets an entry of its own, as long as none is left over.
LEMMA MemoryRequest == Sound /\ RequestBuffer /\ Clean' => Memory' /\ Played'
  <1> SUFFICES ASSUME Sound, RequestBuffer, Clean' PROVE Memory' /\ Played'
    OBVIOUS
  <1>1. PICK a \in Address :
          /\ mapped[a] = 0
          /\ buffer' = a
          /\ mapped' = [mapped EXCEPT ![a] = SizeOf[track]]
          /\ defects' = IF Entry(a) = 0 THEN defects
                        ELSE defects \cup {"stale_entry_reused"}
          /\ dma_memories' = Append(dma_memories, [size |-> SizeOf[track], addr |-> a])
    BY DEF RequestBuffer
  <1>2. Entry(a) = 0
    BY <1>1 DEF Clean
  <1>3. /\ pc = "request" /\ pc' = "set_rate" /\ ~is_busy
        /\ UNCHANGED <<track, is_busy, tx_buffer, channel>>
        /\ channel = {} /\ track \in Track
        /\ dma_memories \in Seq(Chunk) /\ mapped \in [Address -> Nat]
    BY DEF RequestBuffer, Goto, Sound, TypeInv, TypeOK, Chunk, ControlInv, DeviceKnown,
           IdlePCs, LoadingPCs
  <1>4. \A i \in DOMAIN dma_memories : dma_memories[i].addr # a
    BY <1>2, <1>3, EntryCases
  <1>5. PICK n \in Nat : n = Len(dma_memories) /\ DOMAIN dma_memories = 1 .. n
    BY <1>3, LenProperties
  <1>6. PICK c : c = [size |-> SizeOf[track], addr |-> a]
    OBVIOUS
  <1>7. /\ DOMAIN dma_memories' = 1 .. n + 1
        /\ \A i \in 1 .. n : dma_memories'[i] = dma_memories[i]
        /\ dma_memories'[n+1] = c
    <2>1. c \in Chunk
      BY <1>3, <1>6 DEF Chunk, Size
    <2>2. QED
      BY <1>1, <1>3, <1>5, <1>6, <2>1, AppendProperties, LenProperties
  <1>8. DistinctEntries'
    BY <1>4, <1>5, <1>6, <1>7 DEF DistinctEntries, Sound, Memory
  <1>9. SizeOf[track] \in Nat /\ mapped'[a] = SizeOf[track] /\ Registered(a)'
    <2>1. SizeOf[track] \in Nat /\ mapped'[a] = SizeOf[track]
      BY <1>1, <1>3, ConstantsAssumption
    <2>2. n + 1 \in DOMAIN dma_memories'
      BY <1>7
    <2>3. QED
      BY <1>6, <1>7, <2>1, <2>2 DEF Registered
  <1>10. TrackLoaded'
    BY <1>1, <1>3, <1>9 DEF TrackLoaded, Registered
  <1>11. \A b \in Address : mapped'[b] > 0 => b = a
    BY <1>1, <1>3 DEF Sound, Memory, LoadedPCs
  <1>12. QED
    BY <1>1, <1>3, <1>8, <1>10, <1>11 DEF Memory, LoadedPCs, Played

LEMMA MemorySetRate == Sound /\ SetRate => Memory' /\ Played'
  <1> SUFFICES ASSUME Sound, SetRate PROVE Memory' /\ Played'
    OBVIOUS
  <1>1. /\ pc = "set_rate" /\ pc' = "play_stop" /\ ~is_busy /\ channel = {}
        /\ UNCHANGED <<track, buffer, is_busy, tx_buffer, dma_memories, mapped, channel>>
    BY DEF SetRate, Goto, Sound, DeviceKnown, IdlePCs, LoadingPCs, LoadedPCs
  <1>2. TrackLoaded
    BY <1>1 DEF Sound, Memory, LoadedPCs
  <1>3. lookup_buffer(buffer) = SizeOf[track]
    BY <1>2, EntryRegistered DEF lookup_buffer, TrackLoaded, Sound, Memory, TypeInv, TypeOK, Chunk
  <1>4. ReadyToPlay'
    BY <1>1, <1>3 DEF SetRate, ReadyToPlay
  <1>5. QED
    BY <1>1, <1>2, <1>4
       DEF Sound, Memory, DistinctEntries, Registered, TrackLoaded, LoadedPCs, Played

LEMMA MemoryStopFree == Sound /\ StopFree => Memory' /\ Played'
  <1> SUFFICES ASSUME Sound, StopFree PROVE Memory' /\ Played'
    OBVIOUS
  <1>1. /\ pc = "stop_free" /\ pc' = AfterStop /\ channel = {}
        /\ is_busy' = FALSE /\ UNCHANGED <<command, result, dma_memories, channel>>
    BY DEF StopFree, Goto, Sound, DeviceKnown, programVars
  <1>2. pc' \notin LoadedPCs \cup {"play_start"} /\ (pc' = "reply" => command # "PLAY")
    BY <1>1 DEF AfterStop, LoadedPCs, Sound, TypeInv, TypeOK
  <1>3. \A a \in Address : ~(mapped'[a] > 0)
    <2>1. dma_memories \in Seq(Chunk) /\ mapped \in [Address -> Nat]
      BY DEF Sound, TypeInv, TypeOK, Chunk
    <2>2. CASE is_busy
      <3>1. /\ Registered(tx_buffer) /\ DistinctEntries
            /\ \A a \in Address : mapped[a] > 0 => a = tx_buffer
        BY <1>1, <2>2 DEF Sound, Memory, LoadedPCs
      <3>2. /\ Entry(tx_buffer) # 0 /\ tx_buffer \in Address
            /\ lookup_buffer(tx_buffer) = mapped[tx_buffer]
        BY <2>1, <3>1, EntryRegistered, ElementOfSeq, LenProperties, ChunkType DEF lookup_buffer
      <3>3. mapped[tx_buffer] >= mapped[tx_buffer]
        BY <2>1, <3>2
      <3>4. mapped' = [mapped EXCEPT ![tx_buffer] = 0]
        BY <3>2, <3>3 DEF StopFree, Unmapped
      <3>5. QED
        BY <2>1, <3>1, <3>4
    <2>3. CASE ~is_busy
      <3>1. \A a \in Address : mapped[a] = 0
        BY <1>1, <2>1, <2>3 DEF Sound, Memory, LoadedPCs
      <3>2. CASE Entry(tx_buffer) = 0
        BY <3>1, <3>2 DEF StopFree
      <3>3. CASE Entry(tx_buffer) # 0
        <4>1. lookup_buffer(tx_buffer) \in Nat /\ tx_buffer \in Address
          BY <2>1, <3>3, EntryCases, ElementOfSeq, LenProperties, ChunkType DEF lookup_buffer
        <4>2. lookup_buffer(tx_buffer) >= mapped[tx_buffer]
          BY <3>1, <4>1
        <4>3. mapped' = [mapped EXCEPT ![tx_buffer] = 0]
          BY <3>3, <4>2 DEF StopFree, Unmapped
        <4>4. QED
          BY <2>1, <3>1, <4>3
      <3>4. QED
        BY <3>2, <3>3
    <2>4. QED
      BY <2>2, <2>3
  <1>4. DistinctEntries'
    BY <1>1 DEF DistinctEntries, Sound, Memory
  <1>5. QED
    BY <1>1, <1>2, <1>3, <1>4 DEF Memory, LoadedPCs, Played

LEMMA MemoryRelease == Sound /\ Release => Memory' /\ Played'
  <1> SUFFICES ASSUME Sound, Release PROVE Memory' /\ Played'
    OBVIOUS
  <1>1. /\ pc = "release" /\ pc' = "reply" /\ ~is_busy /\ channel = {} /\ result = "FAILURE"
        /\ buffer \in Address /\ FreeAndErase(buffer)
        /\ UNCHANGED <<result, is_busy>>
    BY DEF Release, Goto, Sound, TypeInv, ControlInv, DeviceKnown, IdlePCs,
           LoadingPCs,
           LoadedPCs, programVars
  <1>2. channel' = {}
    BY <1>1 DEF Release
  <1>3. DistinctEntries' /\ mapped' = [mapped EXCEPT ![buffer] = 0]
    <2>1. dma_memories \in Seq(Chunk) /\ mapped \in [Address -> Nat]
      BY DEF Sound, TypeInv, TypeOK, Chunk
    <2>2. DistinctEntries /\ Registered(buffer)
      BY <1>1 DEF Sound, Memory, LoadedPCs, TrackLoaded
    <2>3. QED
      BY <1>1, <2>1, <2>2, FreedWhole
  <1>4. \A a \in Address : ~(mapped'[a] > 0)
    BY <1>1, <1>3 DEF Sound, Memory, TypeInv, TypeOK
  <1>5. QED
    BY <1>1, <1>2, <1>3, <1>4 DEF Memory, LoadedPCs, Played

LEMMA MemoryDestroy == Sound /\ Destroy => Memory' /\ Played'
  <1> SUFFICES ASSUME Sound, Destroy PROVE Memory' /\ Played'
    OBVIOUS
  <1>1. /\ pc = "destroy" /\ pc' = "done" /\ ~is_busy /\ channel = {} /\ UNCHANGED is_busy
    BY DEF Destroy, Goto, Sound, DeviceKnown, IdlePCs, EndPCs
  <1>2. channel' = {}
    BY <1>1 DEF Destroy
  <1>3. \A a \in Address : ~(mapped'[a] > 0)
    <2>1. \A a \in Address : ~(mapped[a] > 0)
      BY <1>1 DEF Sound, Memory, LoadedPCs
    <2>2. ASSUME NEW a \in Address PROVE mapped'[a] = 0 \/ mapped'[a] = mapped[a]
      BY DEF Destroy
    <2>3. QED
      BY <2>1, <2>2
  <1>4. dma_memories' = <<>>
    BY DEF Destroy
  <1>5. QED
    BY <1>1, <1>2, <1>3, <1>4 DEF Memory, DistinctEntries, LoadedPCs, Played

\* The handler takes the memory of the transfer that has ended, and only that.
LEMMA MemoryInterrupt == Sound /\ Interrupt => Memory' /\ Played'
  <1> SUFFICES ASSUME Sound, Interrupt PROVE Memory' /\ Played'
    OBVIOUS
  <1>1. /\ is_busy /\ channel = {} /\ pc \notin IdlePCs \cup {"play_start"}
        /\ tx_buffer \in Address \cup {NoAddress} /\ FreeAndErase(tx_buffer)
        /\ is_busy' = FALSE /\ UNCHANGED <<pc, command, result, channel>>
    BY DEF Interrupt, Sound, TypeInv, TypeOK, DeviceKnown, IdlePCs, programVars
  <1>2. dma_memories \in Seq(Chunk) /\ mapped \in [Address -> Nat]
    BY DEF Sound, TypeInv, TypeOK, Chunk
  <1>3. DistinctEntries /\ Registered(tx_buffer)
    BY <1>1 DEF Sound, Memory
  <1>4. tx_buffer \in Address
    BY <1>2, <1>3, ElementOfSeq, LenProperties, ChunkType DEF Registered
  <1>5. DistinctEntries' /\ mapped' = [mapped EXCEPT ![tx_buffer] = 0]
    BY <1>1, <1>2, <1>3, <1>4, FreedWhole
  <1>6. \A a \in Address : ~(mapped'[a] > 0)
    BY <1>1, <1>2, <1>5 DEF Sound, Memory, IdlePCs, LoadingPCs
  <1>7. pc' = "reply" /\ command' = "PLAY" => "ended_before_reply" \in defects'
    BY <1>1 DEF Interrupt
  <1>8. QED
    BY <1>1, <1>5, <1>6, <1>7 DEF Memory, IdlePCs, LoadingPCs, LoadedPCs, Played

LEMMA CleanBefore == [Next]_vars /\ Clean' => Clean
  BY DefectsKept DEF Clean, InTime

LEMMA NextMemory == TypeInv /\ SilenceInv /\ MemoryInv /\ [Next]_vars => MemoryInv'
  <1> SUFFICES ASSUME TypeInv, SilenceInv, MemoryInv, [Next]_vars, Clean' PROVE Memory' /\ Played'
    BY DEF MemoryInv
  <1>1. Sound
    BY CleanBefore DEF MemoryInv, SilenceInv, Clean, Sound
  <1>2. QED
    BY <1>1, MemoryReceive, MemoryIdle, MemoryReply, MemoryStop, MemoryFails, MemoryPlayStart,
       MemoryComplete, MemoryOutside, ClientOutside, MemoryRequest, MemorySetRate, MemoryStopFree,
       MemoryRelease, MemoryDestroy, MemoryInterrupt
       DEF Next, Program, Device

\* The inductive invariant of the player and its codec.
THEOREM PlayerCorrect == Spec => []PlayerInv
  <1>1. Init => MemoryInv
    BY InitMemory DEF MemoryInv
  <1>2. QED
    BY <1>1, InitType, InitSilence, NextType, NextSilence, NextMemory, PTL DEF Spec, PlayerInv

--------------------------------------------------------------------------------
(* what follows for the properties                                             *)

LEMMA SilentMemory ==
  ASSUME Sound, ~is_busy, pc \notin LoadedPCs
  PROVE  Silent /\ \A a \in Address : mapped[a] = 0
  BY DEF Sound, TypeInv, TypeOK, DeviceKnown, Memory, Silent

LEMMA PlayingWhole == PlayerInv => WholeTrackPlayed
  BY DEF PlayerInv, MemoryInv, Played, PlaysWhole, WholeTrackPlayed

LEMMA MemoryUsed == PlayerInv => NothingLeaks
  BY DEF PlayerInv, MemoryInv, Memory, LoadedPCs, NothingLeaks

LEMMA RepliesTrue == PlayerInv => ReplyTruthful
  <1> SUFFICES ASSUME PlayerInv, Clean, pc = "reply", ~(command = "PLAY" /\ result = "SUCCESS")
               PROVE  Silent /\ \A a \in Address : mapped[a] = 0
    BY DEF PlayerInv, MemoryInv, Played, ReplyTruthful
  <1>1. Sound /\ ~is_busy /\ pc \notin LoadedPCs
    BY DEF PlayerInv, MemoryInv, SilenceInv, Clean, Sound, DeviceKnown, LoadedPCs
  <1>2. QED
    BY <1>1, SilentMemory

LEMMA CompletionsMatch == PlayerInv => CompletionMatchesTransfer
  <1> SUFFICES ASSUME PlayerInv, Clean, completion # "none"
               PROVE  /\ Entry(tx_buffer) # 0
                      /\ mapped[tx_buffer] = lookup_buffer(tx_buffer)
                      /\ channel = {}
                      /\ pc \notin {"play_start", "release"}
    BY DEF CompletionMatchesTransfer
  <1>1. is_busy /\ channel = {} /\ pc \notin {"play_start", "release"}
    BY DEF PlayerInv, SilenceInv, Clean, DeviceKnown, IdlePCs, LoadingPCs, LoadedPCs
  <1>2. DistinctEntries /\ Registered(tx_buffer) /\ dma_memories \in Seq(Chunk)
    BY <1>1 DEF PlayerInv, MemoryInv, Memory, TypeInv, TypeOK, Chunk
  <1>3. QED
    BY <1>1, <1>2, EntryRegistered DEF lookup_buffer

LEMMA EndsClean == PlayerInv => ExitIsClean
  <1> SUFFICES ASSUME PlayerInv, Clean, pc \in {"destroy", "done"}
               PROVE  Silent /\ \A a \in Address : mapped[a] = 0
    BY DEF ExitIsClean
  <1>1. Sound /\ ~is_busy /\ pc \notin LoadedPCs
    BY DEF PlayerInv, MemoryInv, SilenceInv, Clean, Sound, DeviceKnown, IdlePCs, EndPCs,
           LoadedPCs
  <1>2. QED
    BY <1>1, SilentMemory

\* What plays is a whole track, at its rate, from memory that stays mapped.
THEOREM TracksPlayedWhole == Spec => []WholeTrackPlayed
  BY PlayerCorrect, PlayingWhole, PTL

\* Memory is only mapped for the track that plays and the one being loaded.
THEOREM MemoryComesBack == Spec => []NothingLeaks
  BY PlayerCorrect, MemoryUsed, PTL

\* Every reply of the player to the UI is true when it is sent.
THEOREM RepliesTruthful == Spec => []ReplyTruthful
  BY PlayerCorrect, RepliesTrue, PTL

\* The completion handler acts on the transfer that has completed.
THEOREM CompletionsCorrect == Spec => []CompletionMatchesTransfer
  BY PlayerCorrect, CompletionsMatch, PTL

\* EXIT leaves silence and nothing mapped.
THEOREM ExitCorrect == Spec => []ExitIsClean
  BY PlayerCorrect, EndsClean, PTL
================================================================================
