--------------------------------- MODULE AxiDma ---------------------------------
(***************************************************************************)
(* The character device driver of the AXI DMA channels: the channel table  *)
(* read from the device tree, probe with its unwinding, the lists of DMA   *)
(* memory, and the transfers of several processes down to the single calls *)
(* into the DMA engine.  The engine (dmaengine with the Xilinx driver) is  *)
(* external: a queue of descriptors per channel whose callback runs some   *)
(* time after the hardware has finished.  Memory is a set of regions, user *)
(* addresses count regions, so that one address is one region.             *)
(*                                                                         *)
(* Sources: axidma_of.c, axi_dma.c, axidma_dma.c, axidma_chrdev.c.         *)
(***************************************************************************)
EXTENDS Integers, Sequences, FiniteSetsExt, SequencesExt

CONSTANTS
  Process,        \* processes, each with an address space of its own
  Tree,           \* device trees: [names, index, dmas]
  ChannelId,      \* the device-ids that occur in them
  NoId,           \* a channel node without xlnx,device-id
  Address,        \* user addresses, in regions
  Memory,         \* regions of DMA memory
  Exported,       \* regions that another driver exports
  MaxTransfers,   \* bound on the transfers prepared in all
  None

ASSUME ConstantsAssumption ==
  /\ ChannelId \subseteq Nat /\ NoId \notin ChannelId
  /\ Address \subseteq Nat
  /\ Memory \cap Exported = {}
  /\ MaxTransfers \in Nat
  /\ None \notin Process \cup Memory \cup Exported

\* 'dma-names' is counted, 'dmas' is a list of phandles with their argument
ASSUME TreeAssumption ==
  \A t \in Tree :
    /\ t.names \in Nat /\ t.index \in Nat
    /\ t.dmas \in Seq([arg : Nat,
                       children : Seq([id : ChannelId \cup {NoId}, compatible : STRING])])

VARIABLES
  \* the driver
  driver,         \* "absent", "probing" or "live"
  held,           \* what probe has acquired, in order
  leaked,         \* resources that failed probes have left behind
  tree,           \* the device tree entry
  channels,       \* dev->channels: sequence of [id, kind]
  counts,         \* number of channels of each kind
  cb_data,        \* per channel: [comp, process]
  \* memory
  dmabufs,        \* dmabuf_list, newest first: [owner, addr, mem]
  externals,      \* external_dmabufs, newest first: [owner, addr, mem]
  \* the engine, per channel: [queue, used, last, inflight]
  engine,
  \* processes
  todo,           \* what is left of a call: steps [op, chan, mem, wait]
  cookie,         \* cookie of the transfer last submitted
  completed,      \* processes whose struct completion is done
  \* history
  finished,       \* processes whose awaited transfer the hardware has done
  stopped,        \* processes whose channel another call has terminated
  exposed,        \* memory given back under a transfer, or found under the
                  \* address of another process
  excused         \* channels whose callback may find its target gone

driverVars == <<driver, held, leaked, tree, channels, counts>>
memoryVars == <<dmabufs, externals>>
callVars == <<todo, cookie, completed>>
historyVars == <<finished, stopped, exposed, excused>>
dmaVars == <<driverVars, cb_data, memoryVars, engine, callVars, historyVars>>

--------------------------------------------------------------------------------
(* the channel table                                                           *)

Kinds == {"dma_tx", "dma_rx", "vdma_tx", "vdma_rx"}

\* axidma_of_num_channels: the properties exist, are not empty and agree
CountsChannels(t) == t.names > 0 /\ t.names = Len(t.dmas)

\* An entry of 'dmas': the channel argument and the child nodes of its DMA
Child(e) == e.children[e.arg + 1]
ParsesChannel(e) ==
  /\ e.arg \in {0, 1}
  /\ Len(e.children) \in {1, 2}
  /\ e.arg + 1 \in DOMAIN e.children
  /\ Child(e).id # NoId
  /\ Child(e).compatible \in Kinds \cup {"absent"}

\* axidma_of_parse_dma_nodes, with the check of unique ids at its end
ParsesNodes(t) ==
  /\ \A i \in DOMAIN t.dmas : ParsesChannel(t.dmas[i])
  /\ \A i, j \in DOMAIN t.dmas : Child(t.dmas[i]).id = Child(t.dmas[j]).id => i = j

\* The tables that parsing may leave: a node without 'compatible' passes, and its
\* type and direction stay whatever the memory held.
Tables(t) ==
  {s \in [DOMAIN t.dmas -> [id : ChannelId, kind : Kinds]] :
     \A i \in DOMAIN t.dmas :
       /\ s[i].id = Child(t.dmas[i]).id
       /\ Child(t.dmas[i]).compatible \in {s[i].kind, "absent"}}
Counts(t) ==
  [k \in Kinds |-> Cardinality({i \in DOMAIN t.dmas : Child(t.dmas[i]).compatible = k})]

Ids == {channels[i].id : i \in DOMAIN channels}
\* axidma_get_chan
Chan(c) == channels[Min({i \in DOMAIN channels : channels[i].id = c})]

--------------------------------------------------------------------------------
(* the engine                                                                  *)

Idle == [queue |-> <<>>, used |-> 0, last |-> 0, inflight |-> FALSE]

\* dmaengine_terminate_all drops the descriptors; a callback that has begun goes on.
Terminated(e) == [e EXCEPT !.queue = <<>>]

\* dma_async_is_tx_complete compares the cookie with the last that has completed:
\* one that was terminated counts as complete once a later one is.
IsComplete(c, k) == k <= engine[c].last

\* Processes with a descriptor or a call on a channel
Users(c) == {engine[c].queue[i].owner : i \in DOMAIN engine[c].queue}
              \cup {p \in Process : \E i \in DOMAIN todo[p] : todo[p][i].chan = c}

Busy(c) == engine[c].queue # <<>> \/ engine[c].inflight

\* The hardware finishes the oldest descriptor that was issued.
Finish(c) ==
  LET q == engine[c].queue
      issued == {i \in DOMAIN q : q[i].state = "issued"} IN
    /\ issued # {}
    /\ LET i == Min(issued) IN
         /\ engine' = [engine EXCEPT ![c].queue[i].state = "done", ![c].last = q[i].cookie]
         /\ finished' = finished \cup (IF q[i].wait THEN {q[i].owner} ELSE {})
  /\ UNCHANGED <<driverVars, cb_data, memoryVars, callVars, stopped, exposed,
                 excused>>

\* The tasklet takes a finished descriptor off ...
TakeCallback(c) ==
  /\ engine[c].queue # <<>>
  /\ Head(engine[c].queue).state = "done"
  /\ ~engine[c].inflight
  /\ engine' = [engine EXCEPT ![c].queue = Tail(@), ![c].inflight = TRUE]
  /\ UNCHANGED <<driverVars, cb_data, memoryVars, callVars, historyVars>>

\* ... and calls axidma_dma_callback, which looks at the data of the channel: it
\* wakes the waiting call, or sends its signal.  A completion whose call is over lay on
\* its stack, where that of a later call of the process may be now, which may then
\* return before the callbacks of its own channels.
Callback(c) ==
  /\ engine[c].inflight
  /\ engine' = [engine EXCEPT ![c].inflight = FALSE]
  /\ LET p == cb_data[c].comp IN
       IF p \in Process /\ todo[p] # <<>>
       THEN /\ completed' = completed \cup {p}
            /\ excused' = excused \cup (IF c \in excused THEN {todo[p][i].chan : i \in DOMAIN todo[p]}
                                     ELSE {})
       ELSE UNCHANGED <<completed, excused>>
  /\ UNCHANGED <<driverVars, cb_data, memoryVars, todo, cookie, finished, stopped,
                 exposed>>

--------------------------------------------------------------------------------
(* probe and remove                                                            *)

\* axidma_probe, axidma_dma_init and axidma_chrdev_init in order; the name is
\* allocated for a device with an index.
ProbeOrder ==
  <<"struct", "channels", "cb_data", "parsed", "requested">>
    \o (IF tree.index > 0 THEN <<"name">> ELSE <<>>)
    \o <<"region", "class", "node", "cdev">>

\* Steps that the device tree or an earlier leak makes fail.
MustFail(step) ==
  \/ step = "channels" /\ ~CountsChannels(tree)
  \/ step = "parsed" /\ ~ParsesNodes(tree)
  \/ step = "requested" /\ "requested" \in leaked

\* Mutant: without a device node the class stays.
UnreleasedClass(step) ==
  CASE step = "parsed" -> {"channels", "cb_data"}
    [] step = "name" -> {"channels", "cb_data", "requested"}
    [] step = "node" -> {"class"}
    [] OTHER -> {}
\* What a failure at a step does not give back: parsing returns past the labels of
\* axidma_dma_init, and without a name probe skips axidma_dma_exit.
Unreleased(step) ==
  CASE step = "parsed" -> {"channels", "cb_data"}
    [] step = "name" -> {"channels", "cb_data", "requested"}
    [] OTHER -> {}

DmaInit ==
  /\ driver = "absent" /\ held = <<>> /\ leaked = {}
  /\ tree \in Tree
  /\ channels = <<>>
  /\ counts = [k \in Kinds |-> 0]
  /\ cb_data = [c \in ChannelId |-> [comp |-> None, process |-> None]]
  /\ dmabufs = <<>> /\ externals = <<>>
  /\ engine = [c \in ChannelId |-> Idle]
  /\ todo = [p \in Process |-> <<>>]
  /\ cookie = [p \in Process |-> 0]
  /\ completed = {}
  /\ finished = {} /\ stopped = {} /\ exposed = {} /\ excused = {}

NextStep == ProbeOrder[Len(held) + 1]

ProbeStep ==
  /\ driver \in {"absent", "probing"}
  /\ ~MustFail(NextStep)
  /\ held' = Append(held, NextStep)
  /\ driver' = IF held' = ProbeOrder THEN "live" ELSE "probing"
  /\ IF NextStep = "parsed"
     THEN channels' \in Tables(tree) /\ counts' = Counts(tree)
     ELSE UNCHANGED <<channels, counts>>
  /\ UNCHANGED <<leaked, tree, cb_data, memoryVars, engine, callVars, historyVars>>

\* An allocation, a request or a registration fails, or the tree is malformed.
ProbeFails ==
  /\ driver \in {"absent", "probing"}
  /\ NextStep = "parsed" => MustFail("parsed")
  /\ driver' = "absent"
  /\ held' = <<>>
  /\ leaked' = leaked \cup Unreleased(NextStep)
  /\ channels' = <<>>
  /\ counts' = [k \in Kinds |-> 0]
  /\ UNCHANGED <<tree, cb_data, memoryVars, engine, callVars, historyVars>>

\* axidma_remove, when the module is not in use: every channel is terminated and
\* released.
axidma_remove ==
  /\ driver = "live"
  /\ dmabufs = <<>>
  /\ driver' = "absent"
  /\ held' = <<>>
  /\ channels' = <<>>
  /\ counts' = [k \in Kinds |-> 0]
  /\ externals' = <<>>
  /\ engine' = [c \in ChannelId |-> Terminated(engine[c])]
  /\ excused' = excused \cup {c \in ChannelId : engine[c].inflight}
  /\ UNCHANGED <<leaked, tree, cb_data, dmabufs, callVars, finished, stopped, exposed>>

--------------------------------------------------------------------------------
(* memory                                                                      *)

\* Regions that a descriptor or a call under way refers to
InUse(m) ==
  \/ \E c \in ChannelId : \E i \in DOMAIN engine[c].queue : engine[c].queue[i].mem = m
  \/ \E p \in Process : \E i \in DOMAIN todo[p] : todo[p][i].mem = m

Mapped(p, a) ==
  \/ \E i \in DOMAIN dmabufs : dmabufs[i].owner = p /\ dmabufs[i].addr = a
  \/ \E i \in DOMAIN externals : externals[i].owner = p /\ externals[i].addr = a

\* axidma_mmap; a failure leaves nothing
axidma_mmap(p, a, m) ==
  /\ ~Mapped(p, a)
  /\ \A i \in DOMAIN dmabufs : dmabufs[i].mem # m
  /\ dmabufs' = <<[owner |-> p, addr |-> a, mem |-> m]>> \o dmabufs
  /\ exposed' = IF InUse(m) THEN exposed ELSE exposed \ {m}
  /\ UNCHANGED <<driverVars, cb_data, externals, engine, callVars, finished,
                 stopped, excused>>

\* Mutant: the allocation stays in the list (with the owner None).
axidma_vma_closeKeepsEntry(p, a) ==
  /\ \E i \in DOMAIN dmabufs :
       /\ dmabufs[i].owner = p /\ dmabufs[i].addr = a
       /\ dmabufs' = [dmabufs EXCEPT ![i].owner = None]
       /\ exposed' = exposed \cup (IF InUse(dmabufs[i].mem) THEN {dmabufs[i].mem} ELSE {})
  /\ UNCHANGED <<driverVars, cb_data, externals, engine, callVars, finished,
                 stopped, excused>>
\* The memory goes whether a transfer still uses it or not.
axidma_vma_close(p, a) ==
  /\ \E i \in DOMAIN dmabufs :
       /\ dmabufs[i].owner = p /\ dmabufs[i].addr = a
       /\ dmabufs' = RemoveAt(dmabufs, i)
       /\ exposed' = exposed \cup (IF InUse(dmabufs[i].mem) THEN {dmabufs[i].mem} ELSE {})
  /\ UNCHANGED <<driverVars, cb_data, externals, engine, callVars, finished,
                 stopped, excused>>

\* A buffer of another driver is put in the list; each failure on the way releases
\* what was acquired.  A buffer is registered once (a bound of the model).
axidma_get_external(p, a, x) ==
  /\ ~Mapped(p, a)
  /\ \A i \in DOMAIN externals : externals[i].mem # x
  /\ externals' = <<[owner |-> p, addr |-> a, mem |-> x]>> \o externals
  /\ exposed' = IF InUse(x) THEN exposed ELSE exposed \ {x}
  /\ UNCHANGED <<driverVars, cb_data, dmabufs, engine, callVars, finished,
                 stopped, excused>>

\* axidma_uservirt_to_dma: the first hit in the list of the driver's own memory, then
\* in that of the external buffers; whose address it is does not matter.
uservirt_to_dma(a) ==
  LET entries == dmabufs \o externals
      hits == {i \in DOMAIN entries : entries[i].addr = a}
  IN IF hits = {} THEN None ELSE entries[Min(hits)].mem

--------------------------------------------------------------------------------
(* transfers                                                                   *)

Ready(p) == driver = "live" /\ todo[p] = <<>>

\* The steps of axidma_prep_transfer and of axidma_start_transfer
Prepare(c, m, wait) ==
  <<[op |-> "prep", chan |-> c, mem |-> m, wait |-> wait],
    [op |-> "submit", chan |-> c, mem |-> m, wait |-> wait]>>
StartTransfer(c, m, wait) ==
  <<[op |-> "issue", chan |-> c, mem |-> m, wait |-> wait]>>
    \o (IF wait THEN <<[op |-> "wait", chan |-> c, mem |-> m, wait |-> TRUE]>> ELSE <<>>)

Owns(p, m) == \E i \in DOMAIN dmabufs : dmabufs[i].mem = m /\ dmabufs[i].owner = p

Submissions(s) == Cardinality({i \in DOMAIN s : s[i].op = "submit"})

\* Bound of the model on the transfers submitted or still to be submitted
WithinBound(s) ==
  Submissions(s) + MapThenSumSet(LAMBDA q : Submissions(todo[q]), Process)
    + MapThenSumSet(LAMBDA c : engine[c].used, ChannelId) <= MaxTransfers

\* A call goes into the driver with the steps s; one that fails before any of them, or
\* has nothing to do, leaves no trace.
Begin(p, s) ==
  /\ WithinBound(s)
  /\ todo' = [todo EXCEPT ![p] = s]
  /\ exposed' = exposed \cup {m \in {s[i].mem : i \in DOMAIN s} : \E q \in Process \ {p} : Owns(q, m)}
  /\ UNCHANGED <<driverVars, cb_data, memoryVars, engine, cookie, completed,
                 finished, stopped, excused>>

\* axidma_read_transfer and axidma_write_transfer
OneWay(p, c, a, wait) ==
  /\ Ready(p)
  /\ LET m == uservirt_to_dma(a) IN
       Begin(p, IF m = None THEN <<>> ELSE Prepare(c, m, wait) \o StartTransfer(c, m, wait))

\* axidma_rw_transfer: both are prepared before either starts, and only the receive
\* transfer is waited for.
TwoWay(p, tx, a, rx, b, wait) ==
  /\ Ready(p)
  /\ LET m == uservirt_to_dma(a)
         n == uservirt_to_dma(b) IN
       Begin(p, IF None \in {m, n} THEN <<>>
                ELSE Prepare(tx, m, FALSE) \o Prepare(rx, n, wait)
                       \o StartTransfer(tx, m, FALSE) \o StartTransfer(rx, n, wait))

\* axidma_video_transfer answers 0 whatever happens.
Video(p, c, a) ==
  /\ Ready(p)
  /\ LET m == uservirt_to_dma(a) IN
       Begin(p, IF m = None THEN <<>> ELSE Prepare(c, m, FALSE) \o StartTransfer(c, m, FALSE))

\* The next step of a call, and the step done.  The call succeeds when no step is left;
\* one that fails ends with the step "terminate".
Doing(p, op) == todo[p] # <<>> /\ Head(todo[p]).op = op
Advance(p) == todo' = [todo EXCEPT ![p] = Tail(@)]
FailWith(p, op) == todo' = [todo EXCEPT ![p] = <<[Head(@) EXCEPT !.op = op]>>]

\* The call returns: what it kept on its stack is gone.
Return(p) ==
  /\ todo' = [todo EXCEPT ![p] = <<>>]
  /\ cookie' = [cookie EXCEPT ![p] = 0]
  /\ completed' = completed \ {p}
  /\ finished' = finished \ {p}

\* Mutant: an asynchronous transfer leaves the completion of the channel as it is.
CallbackDataKeepsComp(p, t) ==
  IF t.wait THEN [comp |-> p, process |-> None]
  ELSE [comp |-> cb_data[t.chan].comp, process |-> p]
\* cb_data of a prepared transfer: the stack's completion, or whom to signal
CallbackData(p, t) ==
  IF t.wait THEN [comp |-> p, process |-> None]
  ELSE [comp |-> None, process |-> p]

\* The descriptor is prepared and the data of its channel's callback are set, over
\* those of a transfer that is still under way.
Prep(p) ==
  /\ Doing(p, "prep")
  /\ LET t == Head(todo[p]) IN
       /\ cb_data' = [cb_data EXCEPT ![t.chan] = CallbackData(p, t)]
       /\ IF t.wait THEN completed' = completed \ {p} /\ finished' = finished \ {p}
          ELSE UNCHANGED <<completed, finished>>
       /\ excused' = IF Busy(t.chan) \/ Users(t.chan) # {p}
                     THEN excused \cup {t.chan} ELSE excused \ {t.chan}
  /\ Advance(p)
  /\ UNCHANGED <<driverVars, memoryVars, engine, cookie, stopped, exposed>>

Submit(p) ==
  /\ Doing(p, "submit")
  /\ LET t == Head(todo[p])
         k == engine[t.chan].used + 1 IN
       /\ engine' = [engine EXCEPT ![t.chan].used = k,
            ![t.chan].queue = Append(@, [owner |-> p, mem |-> t.mem, cookie |-> k,
                                         wait |-> t.wait, state |-> "submitted"])]
       /\ cookie' = [cookie EXCEPT ![p] = k]
  /\ Advance(p)
  /\ UNCHANGED <<driverVars, cb_data, memoryVars, completed, historyVars>>

\* Preparing or submitting fails: the channel is terminated.
PrepareFails(p) ==
  /\ Doing(p, "prep") \/ Doing(p, "submit")
  /\ FailWith(p, "terminate")
  /\ UNCHANGED <<driverVars, cb_data, memoryVars, engine, cookie, completed,
                 historyVars>>

Issue(p) ==
  /\ Doing(p, "issue")
  /\ LET c == Head(todo[p]).chan IN
       engine' = [engine EXCEPT ![c].queue =
         [i \in DOMAIN @ |-> IF @[i].state = "submitted" THEN [@[i] EXCEPT !.state = "issued"]
                             ELSE @[i]]]
  /\ IF Len(todo[p]) = 1 THEN Return(p) /\ stopped' = stopped \ {p}
     ELSE Advance(p) /\ UNCHANGED <<cookie, completed, finished, stopped>>
  /\ UNCHANGED <<driverVars, cb_data, memoryVars, exposed, excused>>

\* Mutant: whoever wakes the call, its transfer counts as done.
WaitDoneAnyStatus(p) ==
  /\ Doing(p, "wait")
  /\ p \in completed
  /\ Return(p) /\ stopped' = stopped \ {p}
  /\ UNCHANGED <<driverVars, cb_data, memoryVars, engine, exposed, excused>>
\* The completion is done; the status decides whether the transfer is.
WaitDone(p) ==
  /\ Doing(p, "wait")
  /\ p \in completed
  /\ IF IsComplete(Head(todo[p]).chan, cookie[p]) THEN Return(p) /\ stopped' = stopped \ {p}
     ELSE FailWith(p, "terminate") /\ UNCHANGED <<cookie, completed, finished, stopped>>
  /\ UNCHANGED <<driverVars, cb_data, memoryVars, engine, exposed, excused>>

\* Mutant: a time-out returns without stopping the channel.
WaitTimeoutGoesOn(p) ==
  /\ Doing(p, "wait")
  /\ p \notin completed
  /\ Return(p) /\ stopped' = stopped \ {p}
  /\ UNCHANGED <<driverVars, cb_data, memoryVars, engine, exposed, excused>>
\* AXIDMA_DMA_TIMEOUT is over.
WaitTimeout(p) ==
  /\ Doing(p, "wait")
  /\ p \notin completed
  /\ FailWith(p, "terminate")
  /\ UNCHANGED <<driverVars, cb_data, memoryVars, engine, cookie, completed,
                 historyVars>>

\* The descriptors of a channel are dropped, those of other calls as well.  A
\* callback that is under way may find the stack of this call gone.
Terminates(p, c) ==
  /\ engine' = [engine EXCEPT ![c] = Terminated(@)]
  /\ stopped' = (stopped \ {p}) \cup {q \in Users(c) \ {p} : todo[q] # <<>>}
  /\ excused' = excused \cup (IF engine[c].inflight THEN {c} ELSE {})

\* The error return of a call, and the return of axidma_video_transfer that hides it
Terminate(p) ==
  /\ Doing(p, "terminate")
  /\ Terminates(p, Head(todo[p]).chan)
  /\ Return(p)
  /\ UNCHANGED <<driverVars, cb_data, memoryVars, exposed>>

\* axidma_stop_channel
StopChannel(p, c) ==
  /\ Ready(p)
  /\ Terminates(p, c)
  /\ UNCHANGED <<driverVars, cb_data, memoryVars, callVars, finished, exposed>>

--------------------------------------------------------------------------------

Engine == \E c \in ChannelId : Finish(c) \/ TakeCallback(c) \/ Callback(c)
Step(p) ==
  \/ Prep(p) \/ Submit(p) \/ PrepareFails(p) \/ Issue(p)
  \/ WaitDone(p) \/ WaitTimeout(p) \/ Terminate(p)

================================================================================
