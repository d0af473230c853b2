------------------------------- MODULE LibAxiDma --------------------------------
(***************************************************************************)
(* The user-space DMA library on top of the driver: every process opens    *)
(* the device, sorts its channels by kind, asks for the completion signal  *)
(* and then makes the calls the library offers, in any order.  A process   *)
(* may end at any time outside a call, with transfers still running.  The  *)
(* library is the only client of the driver.                               *)
(*                                                                         *)
(* Sources: libaxidma.c, and the file operations of axidma_chrdev.c.       *)
(***************************************************************************)
EXTENDS AxiDma

CONSTANT BuffersOf   \* addresses and exported buffers used with a device tree

ASSUME BuffersAssumption ==
  BuffersOf \in [Tree -> [address : SUBSET Address, exported : SUBSET Exported]]

VARIABLE lib      \* struct axidma_dev of a process: [stage, ids]; "aborted" after an
                  \* assertion of the library

libVars == <<dmaVars, lib>>

NoIds == [k \in Kinds |-> <<>>]
Shut == [stage |-> "closed", ids |-> NoIds]

LibInit == DmaInit /\ lib = [p \in Process |-> Shut]

--------------------------------------------------------------------------------
(* axidma_init_dev and axidma_destroy                                          *)

\* Mutant: receive and transmit channels are told apart for DMA only.
CategorizedTxOnly ==
  LET ids[n \in 0..Len(channels)] ==
        IF n = 0 THEN NoIds
        ELSE LET kind == IF channels[n].kind = "vdma_tx" THEN "vdma_rx" ELSE channels[n].kind
             IN [ids[n - 1] EXCEPT ![kind] = Append(@, channels[n].id)]
  IN ids[Len(channels)]
\* categorize_channels: every channel of the driver's table goes to the end of the array
\* of its kind; ids[n] are the arrays after n channels
Categorized ==
  LET ids[n \in 0..Len(channels)] ==
        IF n = 0 THEN NoIds
        ELSE [ids[n - 1] EXCEPT ![channels[n].kind] = Append(@, channels[n].id)]
  IN ids[Len(channels)]

\* axidma_init_dev: the file is opened - axidma_open asks for O_EXCL, which keeps
\* nobody out -, probe_channels reads the table, setup_dma_callback asks for the signal.
\* A failure closes the file again.  A process that was aborted has gone through all its
\* mappings (axidma_free) before another takes its place.
axidma_init_dev(p) ==
  /\ driver = "live"
  /\ lib[p].stage # "ready" /\ todo[p] = <<>>
  /\ lib[p].stage = "aborted" => \A m \in Memory : ~Owns(p, m)
  /\ lib' = [lib EXCEPT ![p] = [stage |-> "ready", ids |-> Categorized]]
  /\ UNCHANGED dmaVars

\* Closing does not stop transfers (axidma_release), nor does it unmap memory: a
\* transfer still under way will signal a handle that is gone.  A process that ends
\* unmaps its memory one mapping at a time (axidma_free) and closes the device; the
\* buffers of other drivers that it registered stay in the list.
Leaves(p, stage) ==
  /\ lib[p].stage = "ready" /\ todo[p] = <<>>
  /\ lib' = [lib EXCEPT ![p] = [stage |-> stage, ids |-> NoIds]]
  /\ excused' = excused \cup {c \in ChannelId : cb_data[c].process = p /\ Busy(c)}
  /\ UNCHANGED <<driverVars, cb_data, memoryVars, engine, callVars, finished,
                 stopped, exposed>>

axidma_destroy(p) == Leaves(p, "closed")

--------------------------------------------------------------------------------
(* the calls of the library                                                    *)

Opened(p) == lib[p].stage = "ready" /\ todo[p] = <<>>

\* find_channel, with the kinds a call asserts
Has(p, c, kinds) == \E k \in kinds : c \in Range(lib[p].ids[k])

axidma_malloc(p, a, m) == Opened(p) /\ axidma_mmap(p, a, m) /\ UNCHANGED lib
axidma_free(p, a) == todo[p] = <<>> /\ axidma_vma_close(p, a) /\ UNCHANGED lib

axidma_register_buffer(p, a, x) ==
  Opened(p) /\ axidma_get_external(p, a, x) /\ UNCHANGED lib

\* The driver refuses the command: its number is AXIDMA_NUM_IOCTLS, and axidma_ioctl
\* takes smaller ones only.  The library asserts, and the process ends with its buffer
\* still in the driver's list.
axidma_unregister_buffer(p, a) ==
  /\ Opened(p)
  /\ \E i \in DOMAIN externals : externals[i].owner = p /\ externals[i].addr = a
  /\ Leaves(p, "aborted")

\* Transfers on DMA channels; frames of a VDMA channel only through the video call
\* (a bound of the model).
axidma_oneway_transfer(p, c, a, wait) ==
  /\ Opened(p) /\ Has(p, c, {"dma_tx", "dma_rx"})
  /\ OneWay(p, c, a, wait)
  /\ UNCHANGED lib
axidma_twoway_transfer(p, tx, a, rx, b, wait) ==
  /\ Opened(p) /\ Has(p, tx, {"dma_tx"}) /\ Has(p, rx, {"dma_rx"})
  /\ TwoWay(p, tx, a, rx, b, wait)
  /\ UNCHANGED lib
axidma_video_transfer(p, c, a) ==
  /\ Opened(p) /\ Has(p, c, {"vdma_tx", "vdma_rx"})
  /\ Video(p, c, a)
  /\ UNCHANGED lib
axidma_stop_transfer(p, c) ==
  /\ Opened(p) /\ Has(p, c, Kinds)
  /\ StopChannel(p, c)
  /\ UNCHANGED lib

Handle(p) == axidma_init_dev(p) \/ axidma_destroy(p)
Buffers(p) ==
  \E a \in BuffersOf[tree].address :
    \/ \E m \in Memory : axidma_malloc(p, a, m)
    \/ axidma_free(p, a)
    \/ \E x \in BuffersOf[tree].exported : axidma_register_buffer(p, a, x)
    \/ axidma_unregister_buffer(p, a)
Calls(p) ==
  \E a \in BuffersOf[tree].address, c \in ChannelId :
    \/ \E wait \in BOOLEAN : axidma_oneway_transfer(p, c, a, wait)
    \/ \E b \in BuffersOf[tree].address, rx \in ChannelId, wait \in BOOLEAN :
         axidma_twoway_transfer(p, c, a, rx, b, wait)
    \/ axidma_video_transfer(p, c, a)
    \/ axidma_stop_transfer(p, c)

Life ==
  \/ ProbeStep \/ ProbeFails
  \/ axidma_remove /\ \A p \in Process : lib[p].stage # "ready"

LibNext ==
  \/ (Life \/ Engine) /\ UNCHANGED lib
  \/ \E p \in Process :
       \/ Handle(p) \/ Buffers(p) \/ Calls(p)
       \/ Step(p) /\ UNCHANGED lib

LibSpec == LibInit /\ [][LibNext]_libVars

--------------------------------------------------------------------------------
(* properties                                                                  *)

\* Types, and the order of cookies: descriptors of a channel are in the order of
\* their cookies, those that are done first.
DmaTypeOK ==
  /\ driver \in {"absent", "probing", "live"}
  /\ held = SubSeq(ProbeOrder, 1, Len(held)) /\ (driver = "live" <=> held = ProbeOrder)
  /\ leaked \subseteq {"channels", "cb_data", "requested"}
  /\ \A p \in Process :
       /\ lib[p].stage \in {"closed", "ready", "aborted"}
       /\ Len(todo[p]) <= 7
  /\ completed \subseteq Process
  /\ \A c \in ChannelId :
       LET q == engine[c].queue IN
         \A i \in DOMAIN q :
           /\ q[i].state = "done" <=> q[i].cookie <= engine[c].last
           /\ i > 1 => q[i - 1].cookie < q[i].cookie

\* A call that waits for its transfer (axidma_start_transfer) succeeds only when the
\* hardware has finished that transfer, whoever has woken the call - or when another
\* call has terminated the channel meanwhile and a later transfer has made its cookie
\* count as complete.
SuccessIsOwnStep ==
  \A p \in Process :
    Doing(p, "wait") /\ todo'[p] = <<>> => p \in finished \cup stopped
SuccessIsOwn == [][SuccessIsOwnStep]_libVars

\* When a call that has waited, or has failed, returns, no transfer of its process is
\* still to be done on the channel it gave up, so that nothing writes to its buffer
\* afterwards (stop_dma of axidma_start_transfer).  The transmit half of a two-way call
\* is not covered: it stays.
ReturnsQuietStep ==
  \A p \in Process :
    (Doing(p, "wait") \/ Doing(p, "terminate")) /\ todo'[p] = <<>> =>
      LET q == engine'[Head(todo[p]).chan].queue IN
        \A i \in DOMAIN q : q[i].owner = p => q[i].state = "done"
ReturnsQuiet == [][ReturnsQuietStep]_libVars

\* A descriptor that the hardware may still work on refers to memory its process has
\* mapped or registered, until that memory is given back under the transfer or belongs to
\* a process with the same address (axidma_uservirt_to_dma, axidma_vma_close).
HasMemory(p, m) ==
  \/ Owns(p, m)
  \/ \E i \in DOMAIN externals : externals[i].mem = m
DmaOnOwnMemory ==
  \A c \in ChannelId : \A i \in DOMAIN engine[c].queue :
    LET d == engine[c].queue[i] IN
      d.state = "done" \/ d.mem \in exposed \/ HasMemory(d.owner, d.mem)

\* axidma_dma_callback wakes a call that still waits on the channel, or signals a
\* process that has the device open - unless transfers of the channel overlap, the
\* process has left, or the channel was terminated while the callback ran.
CallbackTargetAlive ==
  \A c \in ChannelId :
    engine[c].inflight /\ c \notin excused =>
      LET d == cb_data[c] IN
        IF d.comp # None THEN todo[d.comp] # <<>> /\ Head(todo[d.comp]).chan = c
        ELSE lib[d.process].stage = "ready"

\* The channel table of the driver agrees with the numbers it reports, ids are unique,
\* and the arrays of the library, allocated by those numbers, hold every id once and
\* none too many - unless a node without 'compatible' was let through
\* (axidma_parse_compatible_property, categorize_channels).
Complete == \A i \in DOMAIN tree.dmas : Child(tree.dmas[i]).compatible # "absent"
TableSound ==
  driver = "live" =>
    /\ Len(channels) = tree.names
    /\ Cardinality(Ids) = Len(channels)
    /\ \A p \in Process : lib[p].stage = "ready" /\ Complete =>
         /\ \A k \in Kinds : Len(lib[p].ids[k]) = counts[k]
         /\ UNION {Range(lib[p].ids[k]) : k \in Kinds} = Ids

================================================================================
