-------------------------------- MODULE AxisFifo -------------------------------
(***************************************************************************)
(* The character device driver of the AXI4-Stream FIFO core: its life      *)
(* (probe with its unwinding, remove), the file operations of several      *)
(* processes, the interrupt handler and the raw register access of ioctl   *)
(* and sysfs, every register access a step of its own.  A payload is a     *)
(* member of a small set with a length in bytes; the core counts words of  *)
(* WORD bytes.  The core itself is external: it is modelled by what its    *)
(* registers do to the driver.  The statistics counters are left out.      *)
(*                                                                         *)
(* Sources: axis-fifo.c, axis-fifo.h.                                      *)
(***************************************************************************)
EXTENDS Integers, Sequences, FiniteSetsExt, SequencesExt

CONSTANTS
  Process,        \* processes that use the device file
  Payload,        \* contents of packets
  Bytes,          \* length of a payload
  NoPayload,      \* no payload
  BUF_SIZE,       \* READ_BUF_SIZE and WRITE_BUF_SIZE, in words
  RxDepth,        \* words of the receive FIFO
  TxDepth,        \* tx_fifo_depth, words of the transmit FIFO
  Tree,           \* device trees: records of has_rx, has_tx, has_tkeep
  Threshold,      \* values of rx_min_pkt_size and tx_max_pkt_size
  Register,       \* registers that ioctl and sysfs reach in this instance
  FlagsOf,        \* the open files of a process: sets of [mode, nonblock]
  Admin,          \* processes that use ioctl and sysfs
  Nobody          \* no process

WORD == 4         \* sizeof(u32)

ASSUME ConstantsAssumption ==
  /\ Bytes \in [Payload -> Nat \ {0}]
  /\ NoPayload \notin Payload
  /\ BUF_SIZE \in Nat \ {0}
  /\ RxDepth \in Nat
  /\ TxDepth \in Nat
  /\ Tree \subseteq [has_rx : BOOLEAN, has_tx : BOOLEAN, has_tkeep : BOOLEAN]
  /\ Threshold \subseteq Nat
  /\ Register \subseteq {"ISR", "IER", "SRR", "TDFR", "TDFV", "TDFD", "TLR", "TDR",
                         "RDFR", "RDFO", "RDFD", "RLR", "RDR"}
  /\ FlagsOf \in [Process -> SUBSET [mode : {"r", "w", "rw"}, nonblock : BOOLEAN]]
  /\ Admin \subseteq Process
  /\ Nobody \notin Process

VARIABLES
  driver,         \* "absent", "probing", "live" or "unwinding"
  held,           \* what probe has acquired, in order
  failed_at,      \* history: the step at which the last probe failed
  tree,           \* the device tree entry of the core
  core,           \* the FIFO core: [rx, lens, claimed, tx, txq, isr, ier, skewed]
  irq,            \* the interrupt the handler has served but not yet cleared
  read_flags,     \* O_NONBLOCK of the last file opened for reading
  write_flags,    \* O_NONBLOCK of the last file opened for writing
  rx_min,         \* rx_min_pkt_size
  tx_max,         \* tx_max_pkt_size
  ioctl_lock,
  leaked,         \* history: the process whose failed ioctl has kept the lock
  \* processes
  file,           \* open file: [mode, nonblock], or Closed
  pc,
  item,           \* payload being read or written
  plan,           \* words left in each copy between user and FIFO
  words,          \* words read so far
  asleep,         \* processes that sleep in a wait queue
  \* history
  disturbed,      \* processes whose transfer has met another or a reset
  late            \* sleepers that have missed their wake-up

lifeVars == <<driver, held, failed_at, tree>>
flagVars == <<read_flags, write_flags>>
thresholdVars == <<rx_min, tx_max>>
transferVars == <<item, plan, words>>
historyVars == <<disturbed, late>>
lockVars == <<ioctl_lock, leaked>>
axisVars == <<lifeVars, core, irq, flagVars, thresholdVars, lockVars, file, pc,
              transferVars, asleep, historyVars>>

Closed == [mode |-> "closed", nonblock |-> FALSE]

ReadPCs == {"read_len", "read_word", "read_copy", "read_return"}
WritePCs == {"write_copy", "write_word", "write_len"}
ResetPCs == {"reset", "ioctl_reset"}
WaitPCs == {"read_wait", "write_wait", "poll"}
PCs == {"user", "reset_isr", "ioctl", "ioctl_isr"}
         \cup ReadPCs \cup WritePCs \cup ResetPCs \cup WaitPCs

\* Processes between the check of the FIFO and the end of their transfer
InRead == {p \in Process : pc[p] \in ReadPCs \cup ResetPCs}
InWrite == {p \in Process : pc[p] \in WritePCs \cup ResetPCs}

\* Mutant: the device file is created before the interrupt is requested.
ProbeOrderFileFirst == <<"region", "map", "chrdev", "device", "cdev", "irq", "sysfs">>
\* What probe acquires and in which order; each failure releases in reverse.
ProbeOrder == <<"region", "map", "irq", "chrdev", "device", "cdev", "sysfs">>

Has(r) == r \in Range(held)
Mapped == Has("map")

--------------------------------------------------------------------------------
(* the core                                                                    *)

WordsIn(bytes) == (bytes + WORD - 1) \div WORD
WordsOf(x) == [i \in 1 .. WordsIn(Bytes[x]) |-> <<x, i>>]

\* The interrupts in the order in which the handler looks for them; the three
\* receive errors (RPURE, RPORE, RPUE) are served alike and taken together.
IrqOrder == <<"RC", "TC", "RXERROR", "TPOE", "TSE">>
Interrupts == Range(IrqOrder)

\* Words of the transmit FIFO, those of packets not yet transmitted included
Cells(packets) == UNION {{k} \X DOMAIN packets[k] : k \in DOMAIN packets}
Used(c) == Len(c.tx) + Cardinality(Cells(c.txq))
Vacancy(c) == TxDepth - Used(c)                                \* TDFV
Occupancy(c) == Len(c.rx)                                      \* RDFO

ResetRx(c) ==                 \* RDFR
  [c EXCEPT !.rx = <<>>, !.lens = <<>>, !.claimed = 0, !.skewed = @ \ {"rx"}]
ResetTx(c) ==                                                  \* TDFR
  [c EXCEPT !.tx = <<>>, !.txq = <<>>, !.skewed = @ \ {"tx"}]
Raise(c, i) == [c EXCEPT !.isr = @ \cup {i}]
\* An error: words and lengths of the direction no longer agree (history)
Fail(c, i, direction) == [Raise(c, i) EXCEPT !.skewed = @ \cup {direction}]

\* Reading RLR takes the length of the next packet
ReadRLR(c) ==
  IF c.lens = <<>> THEN Fail(c, "RXERROR", "rx")
  ELSE [c EXCEPT !.lens = Tail(@), !.claimed = @ + WordsIn(Bytes[Head(c.lens)])]

\* Reading RDFD takes a word; one that no length has announced is an error
ReadRDFD(c) ==
  IF c.rx = <<>> THEN Fail(c, "RXERROR", "rx")
  ELSE IF c.claimed = 0 THEN Fail([c EXCEPT !.rx = Tail(@)], "RXERROR", "rx")
  ELSE [c EXCEPT !.rx = Tail(@), !.claimed = @ - 1]

WriteTDFD(c, w) ==
  IF Vacancy(c) = 0 THEN Fail(c, "TPOE", "tx") ELSE [c EXCEPT !.tx = Append(@, w)]

\* Writing TLR sends the words written so far as a packet of n words
WriteTLR(c, n) ==
  IF n = Len(c.tx) THEN [c EXCEPT !.txq = Append(@, c.tx), !.tx = <<>>]
  ELSE LET m == IF n < Len(c.tx) THEN n ELSE Len(c.tx) IN
         Fail([c EXCEPT !.txq = Append(@, SubSeq(c.tx, 1, m)),
                        !.tx = SubSeq(@, m + 1, Len(@))], "TSE", "tx")

\* The status of an interrupt raised now is about to be cleared unserved.
Clearing(i) == irq = i \/ \E p \in Process : pc[p] \in {"reset_isr", "ioctl_isr"}

\* Mutant: only the pollers are woken, not the queue of the device.
SleepersPolling(direction) == {p \in asleep : pc[p] = "poll"}
\* The sleepers of the wait queues of a direction; pollers are in both
Sleepers(direction) == {p \in asleep : pc[p] \in {direction, "poll"}}

\* A packet has arrived completely
Arrive(x) ==
  /\ Has("irq")
  /\ tree.has_rx
  /\ tree.has_tkeep \/ Bytes[x] % WORD = 0
  /\ Occupancy(core) + WordsIn(Bytes[x]) <= RxDepth
  /\ core' = Raise([core EXCEPT !.rx = @ \o WordsOf(x), !.lens = Append(@, x)], "RC")
  /\ late' = late \cup (IF Clearing("RC") THEN Sleepers("read_wait") ELSE {})
  /\ UNCHANGED <<lifeVars, irq, flagVars, thresholdVars, lockVars, file, pc,
                 transferVars, asleep, disturbed>>

\* The oldest packet has left
Transmit ==
  /\ core.txq # <<>>
  /\ core' = Raise([core EXCEPT !.txq = Tail(@)], "TC")
  /\ late' = late \cup (IF Clearing("TC") THEN Sleepers("write_wait") ELSE {})
  /\ UNCHANGED <<lifeVars, irq, flagVars, thresholdVars, lockVars, file, pc,
                 transferVars, asleep, disturbed>>

--------------------------------------------------------------------------------
(* probe and remove                                                            *)

\* The state the core is in after reset_ip_core has enabled the interrupts
CoreReset(c) == [ResetTx(ResetRx(c)) EXCEPT !.ier = Interrupts]

EmptyCore == [rx |-> <<>>, lens |-> <<>>, claimed |-> 0, tx |-> <<>>, txq |-> <<>>,
              isr |-> {}, ier |-> {}, skewed |-> {}]

AxisInit ==
  /\ driver = "absent"
  /\ held = <<>>
  /\ failed_at = "none"
  /\ tree \in Tree
  /\ core = EmptyCore
  /\ irq = "none"
  /\ read_flags = FALSE
  /\ write_flags = FALSE
  /\ rx_min \in Threshold
  /\ tx_max \in Threshold
  /\ ioctl_lock = Nobody
  /\ leaked = Nobody
  /\ file = [p \in Process |-> Closed]
  /\ pc = [p \in Process |-> "user"]
  /\ item = [p \in Process |-> NoPayload]
  /\ plan = [p \in Process |-> <<>>]
  /\ words = [p \in Process |-> <<>>]
  /\ asleep = {}
  /\ disturbed = {}
  /\ late = {}

\* axis_fifo_probe begins; a probe is not repeated while a file of a failed one
\* is open (a bound of the model).
ProbeStart ==
  /\ driver = "absent"
  /\ \A p \in Process : file[p] = Closed /\ pc[p] = "user"
  /\ driver' = "probing"
  /\ failed_at' = "none"
  /\ UNCHANGED <<held, tree, core, irq, flagVars, thresholdVars, lockVars, file,
                 pc, transferVars, asleep, historyVars>>

\* The next resource.  Between mapping and interrupt the device tree is read and
\* the core is reset.
ProbeStep ==
  /\ driver = "probing"
  /\ held # ProbeOrder
  /\ LET next == ProbeOrder[Len(held) + 1] IN
       /\ held' = Append(held, next)
       /\ core' = IF next = "irq" THEN [CoreReset(core) EXCEPT !.isr = {}] ELSE core
       /\ driver' = IF held' = ProbeOrder THEN "live" ELSE "probing"
  /\ UNCHANGED <<failed_at, tree, irq, flagVars, thresholdVars, lockVars, file, pc,
                 transferVars, asleep, historyVars>>

ProbeFails ==
  /\ driver = "probing"
  /\ held # ProbeOrder
  /\ driver' = "unwinding"
  /\ failed_at' = ProbeOrder[Len(held) + 1]
  /\ UNCHANGED <<held, tree, core, irq, flagVars, thresholdVars, lockVars, file, pc,
                 transferVars, asleep, historyVars>>

\* When the module is unloaded: no file is open then
axis_fifo_remove ==
  /\ driver = "live"
  /\ \A p \in Process : file[p] = Closed
  /\ driver' = "unwinding"
  /\ UNCHANGED <<held, failed_at, tree, core, irq, flagVars, thresholdVars, lockVars,
                 file, pc, transferVars, asleep, historyVars>>

\* The last resource is given back; free_irq waits for the handler, and
\* sysfs_remove_group for the accesses under way.  Nobody looks at the core
\* any more until the next probe resets it.
Release ==
  /\ driver = "unwinding"
  /\ held # <<>>
  /\ Last(held) = "irq" => irq = "none"
  /\ Last(held) = "sysfs" => \A p \in Process : file[p] = Closed => pc[p] = "user"
  /\ held' = Front(held)
  /\ core' = IF Last(held) = "irq" THEN EmptyCore ELSE core
  /\ UNCHANGED <<driver, failed_at, tree, irq, flagVars, thresholdVars, lockVars, file,
                 pc, transferVars, asleep, historyVars>>

\* Unloading the module takes its lock away as well.
Gone ==
  /\ driver = "unwinding"
  /\ held = <<>>
  /\ driver' = "absent"
  /\ IF failed_at = "none" THEN ioctl_lock' = Nobody /\ leaked' = Nobody
     ELSE UNCHANGED lockVars
  /\ UNCHANGED <<held, failed_at, tree, core, irq, flagVars, thresholdVars, file, pc,
                 transferVars, asleep, historyVars>>

--------------------------------------------------------------------------------
(* the interrupt handler                                                       *)

Pending == core.isr \cap core.ier

\* The handler serves the first pending interrupt of its list ...
IrqServe ==
  /\ Has("irq")
  /\ irq = "none"
  /\ Pending # {}
  /\ LET i == IrqOrder[Min({k \in DOMAIN IrqOrder : IrqOrder[k] \in Pending})] IN
       /\ irq' = i
       /\ asleep' = asleep \ (CASE i = "RC" -> Sleepers("read_wait")
                                [] i = "TC" -> Sleepers("write_wait")
                                [] OTHER -> {})
       /\ core' = CASE i = "RXERROR" -> ResetRx(core)
                    [] i = "TPOE" -> ResetTx(core)
                    [] OTHER -> core
       /\ disturbed' =
            disturbed \cup (CASE i = "RXERROR" -> InRead
                              [] i = "TPOE" -> InWrite
                              [] OTHER -> {})
       /\ late' = asleep' \cap (IF i = "TPOE" THEN late \cup Sleepers("write_wait") ELSE late)
  /\ UNCHANGED <<lifeVars, flagVars, thresholdVars, lockVars, file, pc, transferVars>>

\* ... and then clears it, with whatever of its kind has come in between.
IrqClear ==
  /\ irq # "none"
  /\ core' = [core EXCEPT !.isr = @ \ {irq}]
  /\ irq' = "none"
  /\ UNCHANGED <<lifeVars, flagVars, thresholdVars, lockVars, file, pc, transferVars,
                 asleep, historyVars>>

--------------------------------------------------------------------------------
(* open and close                                                              *)

\* A step of a process; registers can be reached while they are mapped, and calls
\* are made once probe has ended (a bound of the model).
Goto(p, from, to) ==
  /\ Mapped
  /\ driver = "live" \/ from # "user"
  /\ pc[p] = from
  /\ p \notin asleep
  /\ pc' = [pc EXCEPT ![p] = to]

Reads(p) == file[p].mode \in {"r", "rw"}
Writes(p) == file[p].mode \in {"w", "rw"}

\* The file can be opened: there is one, and its module is not being unloaded.
Openable == Has("cdev") /\ (driver = "unwinding" => failed_at # "none")

\* The flags are those of the device, not of the file.
Open(p, f) ==
  /\ Openable
  /\ file[p] = Closed /\ pc[p] = "user"
  /\ f.mode \in {"w", "rw"} => tree.has_tx
  /\ f.mode \in {"r", "rw"} => tree.has_rx
  /\ file' = [file EXCEPT ![p] = f]
  /\ write_flags' = IF f.mode \in {"w", "rw"} THEN f.nonblock ELSE write_flags
  /\ read_flags' = IF f.mode \in {"r", "rw"} THEN f.nonblock ELSE read_flags
  /\ UNCHANGED <<lifeVars, core, irq, thresholdVars, lockVars, pc, transferVars,
                 asleep, historyVars>>

\* An open for both directions that fails for the read direction has already
\* stored the flags of the write direction.
OpenFails(p, f) ==
  /\ Openable
  /\ file[p] = Closed /\ pc[p] = "user"
  /\ f.mode = "rw" /\ tree.has_tx /\ ~tree.has_rx
  /\ write_flags' = f.nonblock
  /\ UNCHANGED <<lifeVars, core, irq, read_flags, thresholdVars, lockVars, file, pc,
                 transferVars, asleep, historyVars>>

Close(p) ==
  /\ file[p] # Closed /\ pc[p] = "user"
  /\ file' = [file EXCEPT ![p] = Closed]
  /\ UNCHANGED <<lifeVars, core, irq, flagVars, thresholdVars, lockVars, pc,
                 transferVars, asleep, historyVars>>

--------------------------------------------------------------------------------
(* reset_ip_core                                                               *)

\* The core is emptied and its interrupts enabled ...
ResetCore(p, from, to) ==
  /\ Goto(p, from, to)
  /\ core' = CoreReset(core)
  /\ disturbed' = (InRead \cup InWrite) \ {p}
  /\ late' = late \cup Sleepers("write_wait")
  /\ UNCHANGED <<lifeVars, irq, flagVars, thresholdVars, lockVars, file, transferVars,
                 asleep>>

\* ... and every interrupt status cleared, that of a packet just arrived included.
ResetIsr(p, from, to) ==
  /\ Goto(p, from, to)
  /\ core' = [core EXCEPT !.isr = {}]
  /\ UNCHANGED <<lifeVars, irq, flagVars, thresholdVars, file, transferVars, asleep,
                 historyVars>>

SysfsReset(p) ==
  /\ Has("sysfs")
  /\ file[p] = Closed
  /\ Goto(p, "user", "reset")
  /\ UNCHANGED <<lifeVars, core, irq, flagVars, thresholdVars, lockVars, file,
                 transferVars, asleep, historyVars>>

--------------------------------------------------------------------------------
(* transfers                                                                   *)

\* Mutant: the bytes left over are not transferred.
CopiesNoLeftover(x) ==
  LET full == Bytes[x] \div WORD
      pieces == (full + BUF_SIZE - 1) \div BUF_SIZE
  IN [k \in 1 .. pieces |->
        IF k * BUF_SIZE <= full THEN BUF_SIZE ELSE full - (k - 1) * BUF_SIZE]
\* The copies of a transfer: full words in pieces of the buffer, then the bytes
\* left over, which take a word of their own.
Copies(x) ==
  LET full == Bytes[x] \div WORD
      pieces == (full + BUF_SIZE - 1) \div BUF_SIZE
  IN [k \in 1 .. pieces |->
        IF k * BUF_SIZE <= full THEN BUF_SIZE ELSE full - (k - 1) * BUF_SIZE]
       \o (IF Bytes[x] % WORD = 0 THEN <<>> ELSE <<1>>)
\* The transfer of p begins among those of others
Joins(p, others) ==
  disturbed' = IF others = {} THEN disturbed \ {p} ELSE disturbed \cup others \cup {p}

\* The wait condition of a reader and of a writer
CanRead == Occupancy(core) > 0
CanWrite(p) == Vacancy(core) >= WordsIn(Bytes[item[p]])

\* The end of an operation: the process returns to user space with nothing held.
Leave(p) ==
  /\ item' = [item EXCEPT ![p] = NoPayload]
  /\ plan' = [plan EXCEPT ![p] = <<>>]
  /\ words' = [words EXCEPT ![p] = <<>>]

\* read(): with O_NONBLOCK, -EAGAIN when nothing is there, which changes nothing
ReadCall(p) ==
  /\ Reads(p)
  /\ read_flags => CanRead
  /\ Goto(p, "user", IF read_flags THEN "read_len" ELSE "read_wait")
  /\ IF read_flags THEN Joins(p, InRead) ELSE UNCHANGED disturbed
  /\ UNCHANGED <<lifeVars, core, irq, flagVars, thresholdVars, lockVars, file,
                 transferVars, asleep, late>>

\* The condition is evaluated with the process already in the wait queue; one
\* that goes on wakes the pollers.
ReadWait(p) ==
  /\ Mapped
  /\ pc[p] = "read_wait" /\ p \notin asleep
  /\ IF CanRead
     THEN /\ pc' = [pc EXCEPT ![p] = "read_len"]
          /\ Joins(p, InRead)
          /\ asleep' = {q \in asleep : pc[q] # "poll"}
     ELSE /\ asleep' = asleep \cup {p}
          /\ UNCHANGED <<pc, disturbed>>
  /\ late' = late \cap asleep'
  /\ UNCHANGED <<lifeVars, core, irq, flagVars, thresholdVars, lockVars, file,
                 transferVars>>

\* read(): the length of the packet.  Nothing there, or a buffer too small, and
\* the core is reset.
ReadLength(p) ==
  /\ pc[p] = "read_len"
  /\ core' = ReadRLR(core)
  /\ IF core.lens = <<>>
     THEN /\ Goto(p, "read_len", "reset")
          /\ UNCHANGED transferVars
     ELSE \E fits \in BOOLEAN :
          LET x == Head(core.lens) IN
            IF fits
            THEN /\ Goto(p, "read_len", "read_word")
                 /\ item' = [item EXCEPT ![p] = x]
                 /\ plan' = [plan EXCEPT ![p] = Copies(x)]
                 /\ words' = [words EXCEPT ![p] = <<>>]
            ELSE Goto(p, "read_len", "reset") /\ UNCHANGED transferVars
  /\ UNCHANGED <<lifeVars, irq, flagVars, thresholdVars, lockVars, file, asleep,
                 historyVars>>

\* A word of the packet goes into tmp_buf.  What a disturbed read gets, or a read
\* of an empty FIFO, is recorded as no word of any packet.
ReadWord(p) ==
  /\ Goto(p, "read_word", IF plan[p][1] = 1 THEN "read_copy" ELSE "read_word")
  /\ core' = ReadRDFD(core)
  /\ words' = [words EXCEPT ![p] = Append(@, IF core.rx = <<>> \/ p \in disturbed
                                             THEN <<NoPayload, 0>> ELSE Head(core.rx))]
  /\ plan' = [plan EXCEPT ![p][1] = @ - 1]
  /\ UNCHANGED <<lifeVars, irq, flagVars, thresholdVars, lockVars, file, item,
                 asleep, historyVars>>

\* copy_to_user of a full tmp_buf, and the return after the last
ReadCopy(p) ==
  \/ /\ Goto(p, "read_copy", "reset")                              \* -EFAULT
     /\ Leave(p)
     /\ UNCHANGED <<lifeVars, core, irq, flagVars, thresholdVars, lockVars, file,
                    asleep, historyVars>>
  \/ /\ Len(plan[p]) > 1
     /\ Goto(p, "read_copy", "read_word")
     /\ plan' = [plan EXCEPT ![p] = Tail(@)]
     /\ UNCHANGED <<lifeVars, core, irq, flagVars, thresholdVars, lockVars, file,
                    item, words, asleep, historyVars>>
  \/ /\ Len(plan[p]) = 1
     /\ Goto(p, "read_copy", "read_return")
     /\ UNCHANGED <<lifeVars, core, irq, flagVars, thresholdVars, lockVars, file,
                    transferVars, asleep, historyVars>>

\* The packet is counted and its length returned.
ReadReturn(p) ==
  /\ Goto(p, "read_return", "user")
  /\ Leave(p)
  /\ disturbed' = disturbed \ {p}
  /\ UNCHANGED <<lifeVars, core, irq, flagVars, thresholdVars, lockVars, file, asleep,
                 late>>

\* write(): the lengths that are refused, and with O_NONBLOCK a FIFO without room,
\* leave everything as it is.
WriteCall(p, x) ==
  /\ Writes(p)
  /\ tree.has_tkeep \/ Bytes[x] % WORD = 0
  /\ WordsIn(Bytes[x]) <= TxDepth
  /\ write_flags => Vacancy(core) >= WordsIn(Bytes[x])
  /\ Goto(p, "user", IF write_flags THEN "write_copy" ELSE "write_wait")
  /\ item' = [item EXCEPT ![p] = x]
  /\ plan' = [plan EXCEPT ![p] = Copies(x)]
  /\ IF write_flags THEN Joins(p, InWrite) ELSE UNCHANGED disturbed
  /\ UNCHANGED <<lifeVars, core, irq, flagVars, thresholdVars, lockVars, file, words,
                 asleep, late>>

WriteWait(p) ==
  /\ Mapped
  /\ pc[p] = "write_wait" /\ p \notin asleep
  /\ IF CanWrite(p)
     THEN /\ pc' = [pc EXCEPT ![p] = "write_copy"]
          /\ Joins(p, InWrite)
          /\ asleep' = {q \in asleep : pc[q] # "poll"}
     ELSE /\ asleep' = asleep \cup {p}
          /\ UNCHANGED <<pc, disturbed>>
  /\ late' = late \cap asleep'
  /\ UNCHANGED <<lifeVars, core, irq, flagVars, thresholdVars, lockVars, file,
                 transferVars>>

\* Mutant: a fault returns without the reset.
WriteCopyNoReset(p) ==
  \/ /\ Goto(p, "write_copy", "user")
     /\ Leave(p)
     /\ UNCHANGED <<lifeVars, core, irq, flagVars, thresholdVars, lockVars, file,
                    asleep, historyVars>>
  \/ /\ Goto(p, "write_copy", "write_word")
     /\ UNCHANGED <<lifeVars, core, irq, flagVars, thresholdVars, lockVars, file,
                    transferVars, asleep, historyVars>>
\* copy_from_user fills tmp_buf, or faults
WriteCopy(p) ==
  \/ /\ Goto(p, "write_copy", "reset")                             \* -EFAULT
     /\ Leave(p)
     /\ UNCHANGED <<lifeVars, core, irq, flagVars, thresholdVars, lockVars, file,
                    asleep, historyVars>>
  \/ /\ Goto(p, "write_copy", "write_word")
     /\ UNCHANGED <<lifeVars, core, irq, flagVars, thresholdVars, lockVars, file,
                    transferVars, asleep, historyVars>>

\* The words of tmp_buf go into the FIFO.
WriteWord(p) ==
  LET last == plan[p][1] = 1 IN
    /\ Goto(p, "write_word", IF ~last THEN "write_word"
                             ELSE IF Len(plan[p]) > 1 THEN "write_copy" ELSE "write_len")
    /\ core' = WriteTDFD(core, <<item[p], Len(words[p]) + 1>>)
    /\ words' = [words EXCEPT ![p] = Append(@, <<item[p], Len(@) + 1>>)]
    /\ plan' = IF last THEN [plan EXCEPT ![p] = Tail(@)]
               ELSE [plan EXCEPT ![p][1] = @ - 1]
    /\ UNCHANGED <<lifeVars, irq, flagVars, thresholdVars, lockVars, file, item,
                   asleep, historyVars>>

\* The length sends the packet.
WriteLength(p) ==
  /\ Goto(p, "write_len", "user")
  /\ core' = WriteTLR(core, WordsIn(Bytes[item[p]]))
  /\ Leave(p)
  /\ disturbed' = disturbed \ {p}
  /\ UNCHANGED <<lifeVars, irq, flagVars, thresholdVars, lockVars, file, asleep, late>>

\* Mutant: a sleeper that gives up stays in the wait queue.
GiveUpStaysQueued(p) ==
  /\ Mapped
  /\ p \in asleep
  /\ ~CanRead /\ pc[p] = "read_wait"
  /\ pc' = [pc EXCEPT ![p] = "user"] /\ Leave(p)
  /\ UNCHANGED <<lifeVars, core, irq, flagVars, thresholdVars, lockVars, file, asleep,
                 historyVars>>
\* A sleeper gives up: at the timeout it looks once more, a signal ends the call.
\* A read or write that ends its wait so wakes the pollers, too.
GiveUp(p) ==
  /\ Mapped
  /\ p \in asleep
  /\ IF (pc[p] = "read_wait" /\ CanRead) \/ (pc[p] = "write_wait" /\ CanWrite(p))
     THEN /\ asleep' = asleep \ {p}
          /\ UNCHANGED <<pc, transferVars>>
     ELSE /\ asleep' = asleep \ ({p} \cup (IF pc[p] = "poll" THEN {} ELSE Sleepers("poll")))
          /\ pc' = [pc EXCEPT ![p] = "user"]
          /\ Leave(p)
  /\ late' = late \cap asleep'
  /\ UNCHANGED <<lifeVars, core, irq, flagVars, thresholdVars, lockVars, file,
                 disturbed>>

--------------------------------------------------------------------------------
(* poll                                                                        *)

PollReady ==
  \/ tree.has_rx /\ Occupancy(core) > rx_min
  \/ tree.has_tx /\ Vacancy(core) > tx_max

PollCall(p) ==
  /\ file[p] # Closed
  /\ Goto(p, "user", "poll")
  /\ UNCHANGED <<lifeVars, core, irq, flagVars, thresholdVars, lockVars, file,
                 transferVars, asleep, historyVars>>

Poll(p) ==
  /\ Mapped
  /\ pc[p] = "poll" /\ p \notin asleep
  /\ IF PollReady THEN pc' = [pc EXCEPT ![p] = "user"] /\ UNCHANGED asleep
     ELSE asleep' = asleep \cup {p} /\ UNCHANGED pc
  /\ UNCHANGED <<lifeVars, core, irq, flagVars, thresholdVars, lockVars, file,
                 transferVars, historyVars>>

--------------------------------------------------------------------------------
(* raw register access and ioctl                                               *)

\* What an access to a register by hand does.  The driver is not told: words and
\* lengths may no longer agree afterwards.
RawAccess(c, r) ==
  CASE r = "RDFD" -> [ReadRDFD(c) EXCEPT !.skewed = @ \cup {"rx"}]
    [] r = "RLR" -> [ReadRLR(c) EXCEPT !.skewed = @ \cup {"rx"}]
    [] r = "TDFD" -> [WriteTDFD(c, <<NoPayload, 0>>) EXCEPT !.skewed = @ \cup {"tx"}]
    [] r = "TLR" -> [WriteTLR(c, 1) EXCEPT !.skewed = @ \cup {"tx"}]
    [] r = "RDFR" -> ResetRx(c)
    [] r = "TDFR" -> ResetTx(c)
    [] r = "SRR" -> ResetTx(ResetRx(c))
    [] r = "IER" -> [c EXCEPT !.ier = {}]
    [] r = "ISR" -> [c EXCEPT !.isr = {}]
    [] r \in {"TDFV", "RDFO", "TDR", "RDR"} -> c

\* The registers of a direction that is not built in do nothing.
Touch(r) ==
  /\ r \in {"TDFD", "TLR", "TDFR"} => tree.has_tx
  /\ r \in {"RDFD", "RLR", "RDFR"} => tree.has_rx
  /\ core' = RawAccess(core, r)
  /\ disturbed' = disturbed \cup (IF r \in {"RDFR", "SRR"} THEN InRead ELSE {})
                            \cup (IF r \in {"TDFR", "SRR"} THEN InWrite ELSE {})
  /\ late' = late \cup (CASE r \in {"IER", "ISR"} -> asleep
                           [] r \in {"TDFR", "SRR"} -> Sleepers("write_wait")
                           [] OTHER -> {})

\* sysfs: the register files, reached without the lock and without the file
SysfsAccess(p, r) ==
  /\ Has("sysfs")
  /\ pc[p] = "user"
  /\ Touch(r)
  /\ UNCHANGED <<lifeVars, irq, flagVars, thresholdVars, lockVars, file, pc,
                 transferVars, asleep>>

SetThreshold(rx, tx) ==
  /\ rx_min' = rx
  /\ tx_max' = tx
  /\ late' = late \cup {p \in asleep : pc[p] = "poll"}

SysfsThreshold(p, rx, tx) ==
  /\ Has("sysfs")
  /\ pc[p] = "user"
  /\ SetThreshold(rx, tx)
  /\ UNCHANGED <<lifeVars, core, irq, flagVars, lockVars, file, pc, transferVars,
                 asleep, disturbed>>

\* mutex_lock_interruptible; a signal while it waits leaves no trace.  The last step
\* of a command that succeeds unlocks.
IoctlLock(p) ==
  /\ file[p] # Closed
  /\ ioctl_lock = Nobody
  /\ Goto(p, "user", "ioctl")
  /\ ioctl_lock' = p
  /\ UNCHANGED <<leaked, lifeVars, core, irq, flagVars, thresholdVars, file, transferVars,
                 asleep, historyVars>>

\* Every error return - wrong magic, number out of range, unknown command, a
\* failed copy from or to the user - keeps the lock.
IoctlFails(p) ==
  /\ Goto(p, "ioctl", "user")
  /\ leaked' = p
  /\ UNCHANGED <<lifeVars, core, irq, flagVars, thresholdVars, ioctl_lock, file,
                 transferVars, asleep, historyVars>>

\* GET_REG and SET_REG
IoctlRegister(p, r) ==
  /\ Goto(p, "ioctl", "user")
  /\ Touch(r)
  /\ ioctl_lock' = Nobody
  /\ UNCHANGED <<lifeVars, irq, flagVars, thresholdVars, leaked, file, transferVars,
                 asleep>>

\* SET_TX_MAX_PKT and SET_RX_MIN_PKT; the commands that only copy a value out are
\* the case that changes nothing
IoctlThreshold(p, rx, tx) ==
  /\ Goto(p, "ioctl", "user")
  /\ SetThreshold(rx, tx)
  /\ ioctl_lock' = Nobody
  /\ UNCHANGED <<lifeVars, core, irq, flagVars, leaked, file, transferVars, asleep,
                 disturbed>>

\* Mutant: RESET_IP returns with the lock.
IoctlResetKeepsLock(p) ==
  \/ /\ Goto(p, "ioctl", "ioctl_reset")
     /\ UNCHANGED <<lifeVars, core, irq, flagVars, thresholdVars, lockVars, file,
                    transferVars, asleep, historyVars>>
  \/ ResetCore(p, "ioctl_reset", "ioctl_isr")
  \/ ResetIsr(p, "ioctl_isr", "user") /\ UNCHANGED lockVars
\* RESET_IP
IoctlReset(p) ==
  \/ /\ Goto(p, "ioctl", "ioctl_reset")
     /\ UNCHANGED <<lifeVars, core, irq, flagVars, thresholdVars, lockVars, file,
                    transferVars, asleep, historyVars>>
  \/ ResetCore(p, "ioctl_reset", "ioctl_isr")
  \/ /\ ResetIsr(p, "ioctl_isr", "user")
     /\ ioctl_lock' = Nobody
     /\ UNCHANGED leaked
--------------------------------------------------------------------------------

Life == ProbeStart \/ ProbeStep \/ ProbeFails \/ axis_fifo_remove \/ Release \/ Gone
Device == Transmit \/ (\E x \in Payload : Arrive(x)) \/ IrqServe \/ IrqClear
Files(p) ==
  \/ \E f \in FlagsOf[p] : Open(p, f) \/ OpenFails(p, f)
  \/ Close(p)
Transfers(p) ==
  \/ ReadCall(p) \/ ReadWait(p) \/ ReadLength(p) \/ ReadWord(p)
  \/ ReadCopy(p) \/ ReadReturn(p)
  \/ \E x \in Payload : WriteCall(p, x)
  \/ WriteWait(p) \/ WriteCopy(p) \/ WriteWord(p) \/ WriteLength(p)
  \/ PollCall(p) \/ Poll(p) \/ GiveUp(p)
  \/ ResetCore(p, "reset", "reset_isr")
  \/ ResetIsr(p, "reset_isr", "user") /\ UNCHANGED lockVars
Control(p) ==
  \/ SysfsReset(p)
  \/ \E r \in Register : SysfsAccess(p, r) \/ IoctlRegister(p, r)
  \/ \E rx, tx \in Threshold : SysfsThreshold(p, rx, tx) \/ IoctlThreshold(p, rx, tx)
  \/ IoctlLock(p) \/ IoctlFails(p) \/ IoctlReset(p)

AxisNext ==
  \/ Life
  \/ Device
  \/ \E p \in Process : Files(p) \/ Transfers(p)
  \/ \E p \in Admin : Control(p)

AxisSpec == AxisInit /\ [][AxisNext]_axisVars

--------------------------------------------------------------------------------
(* properties                                                                  *)

\* Types, and what each place of the code implies: a sleeper is in a wait, the
\* interrupt being served is none or one of the list.
AxisTypeOK ==
  /\ driver \in {"absent", "probing", "live", "unwinding"}
  /\ \E n \in 0 .. Len(ProbeOrder) : held = SubSeq(ProbeOrder, 1, n)
  /\ failed_at \in {"none"} \cup Range(ProbeOrder)
  /\ tree \in Tree
  /\ irq \in {"none"} \cup Interrupts
  /\ read_flags \in BOOLEAN /\ write_flags \in BOOLEAN
  /\ rx_min \in Threshold /\ tx_max \in Threshold
  /\ ioctl_lock \in Process \cup {Nobody}
  /\ \A p \in Process :
       /\ pc[p] \in PCs
       /\ file[p] \in {Closed} \cup FlagsOf[p]
       /\ item[p] \in Payload \cup {NoPayload}
  /\ asleep \subseteq {p \in Process : pc[p] \in WaitPCs}
  /\ core.isr \subseteq Interrupts /\ core.ier \subseteq Interrupts

\* Registers are reached only while they are mapped: an operation under way, or a
\* handler that runs, has the mapping.  The exception is the file that was opened
\* in the moment between cdev_add and a failure of sysfs_create_group
\* (axis_fifo_probe), whose device is taken away under it.
NoUnmappedAccess ==
  /\ irq # "none" => Mapped
  /\ (\E p \in Process : file[p] # Closed \/ pc[p] # "user")
       => Mapped \/ failed_at = "sysfs"

\* The lock of axis_fifo_ioctl is kept by a call under way or by one that has
\* failed, never by one that has succeeded, reset of the core included.
LockHolder ==
  ioctl_lock # Nobody =>
    \/ pc[ioctl_lock] \in {"ioctl", "ioctl_reset", "ioctl_isr"}
    \/ ioctl_lock = leaked

\* A reader sleeps beside a packet, a writer beside room, a poller beside either
\* only while the interrupt that wakes it is still to be served (axis_fifo_irq) -
\* or after a wake-up it has missed: the handler and reset_ip_core clear a status
\* after they have acted on it, a reset makes room without telling anybody, and so
\* does a new threshold.
Awaited(i) == i \in core.isr /\ irq # i
NoLostWakeUp ==
  \A p \in asleep \ late :
    /\ pc[p] = "read_wait" /\ CanRead => Awaited("RC")
    /\ pc[p] = "write_wait" /\ CanWrite(p) => Awaited("TC")
    /\ pc[p] = "poll" /\ PollReady => Awaited("RC") \/ Awaited("TC")

\* A write that meets no other transfer and no reset sends one packet with its
\* words, in order: nothing an earlier write that failed has left precedes them
\* (axis_fifo_write).
WriteSendsItsPacket ==
  \A p \in Process :
    (pc[p] = "write_len" /\ pc'[p] = "user" /\ p \notin disturbed /\ "tx" \notin core.skewed)
      => core'.txq = Append(core.txq, WordsOf(item[p]))
WritesWhole == [][WriteSendsItsPacket]_axisVars

\* What a process is doing as a reader of the channel
ReadOf(p) ==
  CASE pc[p] \in ResetPCs -> [state |-> "torn", packet |-> <<>>]
    [] pc[p] \notin ReadPCs \cup ResetPCs -> [state |-> "idle", packet |-> <<>>]
    [] pc[p] \in ReadPCs /\ p \in disturbed -> [state |-> "torn", packet |-> <<>>]
    [] pc[p] = "read_len" /\ p \notin disturbed -> [state |-> "ready", packet |-> <<>>]
    [] pc[p] \in {"read_word", "read_copy"} /\ p \notin disturbed ->
         [state |-> "taken", packet |-> WordsOf(item[p])]
    [] pc[p] = "read_return" /\ p \notin disturbed -> [state |-> "copied", packet |-> words[p]]

Packets == INSTANCE PacketChannel WITH
  Reader <- Process,
  Packet <- {WordsOf(x) : x \in Payload},
  queue <- [i \in DOMAIN core.lens |-> WordsOf(core.lens[i])],
  read <- [p \in Process |-> ReadOf(p)],
  broken <- "rx" \in core.skewed

\* The receive side implements the packet channel: a read that meets no other read
\* and no reset returns the oldest packet, whole (axis_fifo_read), and the words of
\* the core agree with its lengths again after every reset.
ImplementsChannel == Packets!ChannelSpec

================================================================================
