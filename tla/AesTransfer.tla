------------------------------ MODULE AesTransfer ------------------------------
(***************************************************************************)
(* One direction (cipher or decipher) of the AES engine of the player:     *)
(* every aes_thread runs one file through aes::_do_transfer, the DMA       *)
(* engine streams the data, and the completion signal runs                 *)
(* aes::_dma_callback ON the thread that issued the transfer, suspending   *)
(* whatever that thread was doing.  The two directions share no state but  *)
(* the process; each is an instance of this module.                        *)
(*                                                                         *)
(* Sources: src/app/aes.cpp, src/app/aes_thread.cpp, and the part of       *)
(* src/app/ui_thread.cpp that starts aes_threads and collects their        *)
(* results.                                                                *)
(***************************************************************************)
EXTENDS Integers, FiniteSets, Sequences

CONSTANTS
  Thread,    \* the aes_thread objects the UI creates; each runs once
  Buffer,    \* addresses axidma_malloc may return
  NoThread,  \* no owner, no job
  NoBuffer,  \* the null pointer
  Partial    \* content of an output file whose write failed half way

ASSUME ConstantsAssumption ==
  /\ NoThread \notin Thread
  /\ Partial \notin Thread
  /\ Partial # NoThread
  /\ NoBuffer \notin Buffer

VARIABLES
  \* shared through _dma_state_t
  is_busy,           \* a transfer is ongoing
  dma_memories,      \* buffers registered as allocated
  current_transfer,  \* [tx, rx: buffers, job: whose path/callback/param]
  config_reg,        \* key loading switched on in the AES core
  state_mutex,       \* the thread that locked it, or NoThread
  \* the DMA device and its driver
  mapped,            \* buffers really mapped (axidma_malloc, axidma_free)
  mem,               \* whose data a buffer holds
  channel,           \* transfers queued on the channel pair
  signalled,         \* completion signals pending for each thread
  \* one aes_thread
  op,                \* "FILE" (output_file_path) or "INTO" (output_buffer)
  pc,                \* where the thread is
  hpc,               \* where the signal handler on top of it is, or "off"
  tx, rx,            \* locals tx_buff and rx_buff of _do_transfer
  htx, hrx,          \* locals tx_buff and rx_buff of _dma_callback
  exception,         \* where _do_transfer threw, or "none"
  operation_status,  \* _operation_status
  aes_mutex,         \* the thread's _aes_mutex is locked
  woken,             \* _aes_cond was signalled
  out,               \* whose data is in the thread's output
  result,            \* what the UI read with get_status
  \* history
  defects            \* defects of the locking protocol met so far

sharedVars == <<is_busy, dma_memories, current_transfer, config_reg>>
lockVars == <<state_mutex, defects>>
deviceVars == <<mapped, mem, channel, signalled>>
statusVars == <<operation_status, aes_mutex, woken>>
localVars == <<tx, rx, exception>>
handlerVars == <<hpc, htx, hrx>>
resultVars == <<op, out, result>>
vars == <<sharedVars, lockVars, deviceVars, statusVars, localVars, handlerVars,
          resultVars, pc>>

--------------------------------------------------------------------------------
SetupPCs == {"check", "alloc_tx", "alloc_rx", "read", "publish", "stop"}
CatchPCs == {"catch_free", "catch_clear", "catch_unlock"}
WaitPCs  == {"wait_lock", "wait_test", "waiting"}
PCs == {"new", "lock", "start", "unlock", "report", "close", "exited"}
         \cup SetupPCs \cup CatchPCs \cup WaitPCs
HandlerPCs == {"off", "output", "lock", "free", "callback", "unlock"}

Init ==
  /\ is_busy = FALSE
  /\ dma_memories = {}
  /\ current_transfer = [tx |-> NoBuffer, rx |-> NoBuffer, job |-> NoThread]
  /\ config_reg = FALSE
  /\ state_mutex = NoThread
  /\ mapped = {}
  /\ mem = [b \in Buffer |-> NoThread]
  /\ channel = <<>>
  /\ signalled = [t \in Thread |-> 0]
  /\ op \in [Thread -> {"FILE", "INTO"}]
  /\ pc = [t \in Thread |-> "new"]
  /\ hpc = [t \in Thread |-> "off"]
  /\ tx = [t \in Thread |-> NoBuffer]
  /\ rx = [t \in Thread |-> NoBuffer]
  /\ htx = [t \in Thread |-> NoBuffer]
  /\ hrx = [t \in Thread |-> NoBuffer]
  /\ exception = [t \in Thread |-> "none"]
  /\ operation_status = [t \in Thread |-> "SUCCESS"]
  /\ aes_mutex = [t \in Thread |-> FALSE]
  /\ woken = [t \in Thread |-> FALSE]
  /\ out = [t \in Thread |-> NoThread]
  /\ result = [t \in Thread |-> "none"]
  /\ defects = {}

\* The program of t moves; it is suspended while the handler runs on top of it.
Goto(t, from, to) ==
  /\ hpc[t] = "off"
  /\ pc[t] = from
  /\ pc' = [pc EXCEPT ![t] = to]
  /\ UNCHANGED <<handlerVars, resultVars>>

\* throw inside the try block of _do_transfer
Throw(t, from, why) ==
  /\ Goto(t, from, "catch_free")
  /\ exception' = [exception EXCEPT ![t] = why]

HandlerGoto(t, from, to) ==
  /\ hpc[t] = from
  /\ hpc' = [hpc EXCEPT ![t] = to]
  /\ UNCHANGED <<pc, localVars, op, result, aes_mutex>>

\* Mutant: the lock does not exclude.
LockStateUnguarded(t) ==
  /\ state_mutex' = t

LockState(t) ==
  /\ state_mutex = NoThread
  /\ state_mutex' = t

\* A normal glibc mutex: unlocking releases it, whoever locked it.
UnlockState(t) ==
  /\ state_mutex' = NoThread
  /\ defects' = IF state_mutex \in {t, NoThread} THEN defects
                ELSE defects \cup {"foreign_unlock"}

\* The buffer pointers of _do_transfer go out of scope.
LocalsEnd(t) ==
  /\ tx' = [tx EXCEPT ![t] = NoBuffer]
  /\ rx' = [rx EXCEPT ![t] = NoBuffer]

\* axidma_free of each buffer of bs: it is unmapped, and its data is gone
Free(bs) ==
  /\ mapped' = mapped \ bs
  /\ mem' = [b \in Buffer |-> IF b \in bs THEN NoThread ELSE mem[b]]

--------------------------------------------------------------------------------
(* aes_thread::run up to the call, and aes::_do_transfer                       *)

\* Mutant: the status is not set to BUSY.
StartNotBusy(t) ==
  /\ Goto(t, "new", "lock")
  /\ UNCHANGED <<sharedVars, lockVars, deviceVars, statusVars, localVars>>

\* The UI starts the thread; its status becomes BUSY.
Start(t) ==
  /\ Goto(t, "new", "lock")
  /\ operation_status' = [operation_status EXCEPT ![t] = "BUSY"]
  /\ UNCHANGED <<sharedVars, lockVars, deviceVars, aes_mutex, woken, localVars>>

Lock(t) ==
  /\ Goto(t, "lock", "check")
  /\ LockState(t)
  /\ UNCHANGED <<sharedVars, defects, deviceVars, statusVars, localVars>>

\* "DMA device is BUSY."  The rejection itself is recorded: the catch block
\* that follows clears the is_busy of the transfer that is ongoing.
RejectBusy(t) ==
  /\ is_busy
  /\ Throw(t, "check", "busy")
  /\ defects' = defects \cup {"busy_rejection"}
  /\ UNCHANGED <<sharedVars, state_mutex, deviceVars, statusVars, tx, rx>>

\* is_busy is clear; the size of the input is taken
CheckIdle(t) ==
  /\ ~is_busy
  /\ Goto(t, "check", "alloc_tx")
  /\ UNCHANGED <<sharedVars, lockVars, deviceVars, statusVars, localVars>>

AllocTx(t) ==
  /\ Goto(t, "alloc_tx", "alloc_rx")
  /\ \E b \in Buffer \ mapped :
       /\ tx' = [tx EXCEPT ![t] = b]
       /\ mapped' = mapped \cup {b}
       /\ dma_memories' = dma_memories \cup {b}
       /\ current_transfer' = [current_transfer EXCEPT !.tx = b]
  /\ UNCHANGED <<is_busy, config_reg, lockVars, mem, channel, signalled,
                 statusVars, rx, exception>>

AllocRx(t) ==
  /\ Goto(t, "alloc_rx", "read")
  /\ \E b \in Buffer \ mapped :
       /\ rx' = [rx EXCEPT ![t] = b]
       /\ mapped' = mapped \cup {b}
       /\ dma_memories' = dma_memories \cup {b}
       /\ current_transfer' = [current_transfer EXCEPT !.rx = b]
  /\ UNCHANGED <<is_busy, config_reg, lockVars, mem, channel, signalled,
                 statusVars, tx, exception>>

\* No size, an output buffer too small, or no continuous memory: throw
SetupFails(t) ==
  /\ \/ Throw(t, "alloc_tx", "setup")
     \/ Throw(t, "alloc_rx", "setup")
  /\ UNCHANGED <<sharedVars, lockVars, deviceVars, statusVars, tx, rx>>

\* Key loading is switched on, then the key and the input are copied
ReadInput(t) ==
  /\ Goto(t, "read", "publish")
  /\ config_reg' = TRUE
  /\ mem' = [mem EXCEPT ![tx[t]] = t]
  /\ UNCHANGED <<is_busy, dma_memories, current_transfer, lockVars, mapped,
                 channel, signalled, statusVars, localVars>>

\* Key loading is switched on, then the input file does not open
OpenInputFails(t) ==
  /\ Throw(t, "read", "setup")
  /\ config_reg' = TRUE
  /\ UNCHANGED <<is_busy, dma_memories, current_transfer, lockVars, deviceVars,
                 statusVars, tx, rx>>

\* Mutant: key loading stays on.
PublishKeepsKeyLoading(t) ==
  /\ Goto(t, "publish", "stop")
  /\ is_busy' = TRUE
  /\ current_transfer' = [current_transfer EXCEPT !.job = t]
  /\ UNCHANGED <<dma_memories, config_reg, lockVars, deviceVars, statusVars,
                 localVars>>

\* Mutant: the details of the first transfer are never replaced.
PublishFirstJobOnly(t) ==
  /\ Goto(t, "publish", "stop")
  /\ is_busy' = TRUE
  /\ current_transfer' = [current_transfer EXCEPT !.job = IF @ = NoThread THEN t
                                                         ELSE @]
  /\ config_reg' = FALSE
  /\ UNCHANGED <<dma_memories, lockVars, deviceVars, statusVars, localVars>>

\* The transfer becomes the current one, with its callback and parameter
Publish(t) ==
  /\ Goto(t, "publish", "stop")
  /\ is_busy' = TRUE
  /\ current_transfer' = [current_transfer EXCEPT !.job = t]
  /\ config_reg' = FALSE
  /\ UNCHANGED <<dma_memories, lockVars, deviceVars, statusVars, localVars>>

\* Mutant: the mutex is not unlocked before the transfer starts.
StopChannelsKeepsLock(t) ==
  /\ Goto(t, "stop", "start")
  /\ channel' = <<>>
  /\ UNCHANGED <<sharedVars, lockVars, mapped, mem, signalled, statusVars,
                 localVars>>

\* Both channels are stopped and the mutex is unlocked for the first time
StopChannels(t) ==
  /\ Goto(t, "stop", "start")
  /\ channel' = <<>>
  /\ UnlockState(t)
  /\ UNCHANGED <<sharedVars, mapped, mem, signalled, statusVars, localVars>>

\* Mutant: the tx buffer is given for both directions.
StartTransferInPlace(t) ==
  /\ Goto(t, "start", "unlock")
  /\ channel' = Append(channel, [tx |-> tx[t], rx |-> tx[t], job |-> t])
  /\ UNCHANGED <<sharedVars, lockVars, mapped, mem, signalled, statusVars,
                 localVars>>

StartTransfer(t) ==
  /\ Goto(t, "start", "unlock")
  /\ channel' = Append(channel, [tx |-> tx[t], rx |-> rx[t], job |-> t])
  /\ UNCHANGED <<sharedVars, lockVars, mapped, mem, signalled, statusVars,
                 localVars>>

\* axidma_twoway_transfer returns an error: throw, the mutex not held
StartFails(t) ==
  /\ Throw(t, "start", "start")
  /\ UNCHANGED <<sharedVars, lockVars, deviceVars, statusVars, tx, rx>>

\* The unlock at the end of the function: the second one on this path
SecondUnlock(t) ==
  /\ Goto(t, "unlock", "wait_lock")
  /\ UnlockState(t)
  /\ LocalsEnd(t)
  /\ UNCHANGED <<sharedVars, deviceVars, statusVars, exception>>

--------------------------------------------------------------------------------
(* the catch block                                                             *)

\* Mutant: the rx buffer is not freed.
CatchFreeTxOnly(t) ==
  /\ Goto(t, "catch_free", "catch_clear")
  /\ Free({tx[t]})
  /\ dma_memories' = dma_memories \ {tx[t], rx[t]}
  /\ UNCHANGED <<is_busy, current_transfer, config_reg, lockVars, channel,
                 signalled, statusVars, localVars>>

CatchFree(t) ==
  /\ Goto(t, "catch_free", "catch_clear")
  /\ Free({tx[t], rx[t]})
  /\ dma_memories' = dma_memories \ {tx[t], rx[t]}
  /\ UNCHANGED <<is_busy, current_transfer, config_reg, lockVars, channel,
                 signalled, statusVars, localVars>>

CatchClear(t) ==
  /\ Goto(t, "catch_clear", "catch_unlock")
  /\ is_busy' = FALSE
  /\ UNCHANGED <<dma_memories, current_transfer, config_reg, lockVars,
                 deviceVars, statusVars, localVars>>

\* unlock, rethrow; aes_thread::run keeps the exception and goes to send_results
CatchUnlock(t) ==
  /\ Goto(t, "catch_unlock", "report")
  /\ UnlockState(t)
  /\ LocalsEnd(t)
  /\ UNCHANGED <<sharedVars, deviceVars, statusVars, exception>>

--------------------------------------------------------------------------------
(* aes_thread::run after the call: wait for the status, send the pointer       *)

WaitLock(t) ==
  /\ Goto(t, "wait_lock", "wait_test")
  /\ ~aes_mutex[t]
  /\ aes_mutex' = [aes_mutex EXCEPT ![t] = TRUE]
  /\ UNCHANGED <<sharedVars, lockVars, deviceVars, operation_status, woken,
                 localVars>>

\* pthread_cond_wait releases the mutex and sleeps
CondWait(t) ==
  /\ operation_status[t] = "BUSY"
  /\ Goto(t, "wait_test", "waiting")
  /\ aes_mutex' = [aes_mutex EXCEPT ![t] = FALSE]
  /\ woken' = [woken EXCEPT ![t] = FALSE]
  /\ UNCHANGED <<sharedVars, lockVars, deviceVars, operation_status, localVars>>

\* pthread_cond_wait returns with the mutex held
Return(t) ==
  /\ Goto(t, "waiting", "wait_test")
  /\ ~aes_mutex[t]
  /\ aes_mutex' = [aes_mutex EXCEPT ![t] = TRUE]
  /\ UNCHANGED <<sharedVars, lockVars, deviceVars, operation_status, woken,
                 localVars>>

Wake(t) == woken[t] /\ Return(t)
SpuriousWake(t) == ~woken[t] /\ Return(t)

\* Mutant: the wait does not look at the status.
WaitDoneAnyStatus(t) ==
  /\ Goto(t, "wait_test", "report")
  /\ aes_mutex' = [aes_mutex EXCEPT ![t] = FALSE]
  /\ UNCHANGED <<sharedVars, lockVars, deviceVars, operation_status, woken,
                 localVars>>

WaitDone(t) ==
  /\ operation_status[t] # "BUSY"
  /\ Goto(t, "wait_test", "report")
  /\ aes_mutex' = [aes_mutex EXCEPT ![t] = FALSE]
  /\ UNCHANGED <<sharedVars, lockVars, deviceVars, operation_status, woken,
                 localVars>>

\* The object's own address is written to the pipe
Report(t) ==
  /\ Goto(t, "report", "close")
  /\ UNCHANGED <<sharedVars, lockVars, deviceVars, statusVars, localVars>>

\* The write end is closed, through a member of the object; the thread ends
Close(t) ==
  /\ Goto(t, "close", "exited")
  /\ UNCHANGED <<sharedVars, lockVars, deviceVars, statusVars, localVars>>

\* The UI reads the pointer, takes the result and deletes the object
Collect(t) ==
  /\ pc[t] \in {"close", "exited"}
  /\ result[t] = "none"
  /\ result' = [result EXCEPT ![t] = IF exception[t] # "none" THEN "EXCEPTION"
                                     ELSE operation_status[t]]
  /\ UNCHANGED <<sharedVars, lockVars, deviceVars, statusVars, localVars,
                 handlerVars, op, out, pc>>

--------------------------------------------------------------------------------
(* the DMA device, and aes::_dma_callback on the thread it signals             *)

\* The oldest transfer finishes; the driver signals the thread that issued the
\* latest one: the callback data belong to the channel, not to the transfer.
\* (The completion of the tx channel is signalled too, but no callback is set
\* on that channel, so its handler returns at once.)
Complete ==
  /\ channel # <<>>
  /\ LET tr == Head(channel) IN mem' = [mem EXCEPT ![tr.rx] = mem[tr.tx]]
  /\ LET t == channel[Len(channel)].job IN
       signalled' = [signalled EXCEPT ![t] = @ + 1]
  /\ channel' = Tail(channel)
  /\ UNCHANGED <<sharedVars, lockVars, mapped, statusVars, localVars,
                 handlerVars, resultVars, pc>>

\* The signal interrupts t; both buffers are looked up, without the mutex
Interrupt(t) ==
  /\ signalled[t] > 0
  /\ pc[t] # "exited"
  /\ HandlerGoto(t, "off", "output")
  /\ signalled' = [signalled EXCEPT ![t] = @ - 1]
  /\ LET Find(b) == IF b \in dma_memories THEN b ELSE NoBuffer IN
       /\ htx' = [htx EXCEPT ![t] = Find(current_transfer.tx)]
       /\ hrx' = [hrx EXCEPT ![t] = Find(current_transfer.rx)]
  /\ UNCHANGED <<sharedVars, lockVars, mapped, mem, channel, operation_status,
                 woken, out>>

\* The rx buffer goes to the output of the current transfer.  A stream never
\* throws here: an open or a write that fails leaves is_success true.
HandlerOutput(t) ==
  /\ HandlerGoto(t, "output", "lock")
  /\ LET job == current_transfer.job
         data == IF hrx[t] = NoBuffer THEN NoThread ELSE mem[hrx[t]] IN
       IF job = NoThread THEN out' = out
       ELSE \/ out' = [out EXCEPT ![job] = data]
            \/ /\ op[job] = "FILE"
               /\ out' = [out EXCEPT ![job] = Partial]
  /\ UNCHANGED <<sharedVars, lockVars, deviceVars, operation_status, woken, htx,
                 hrx>>

HandlerLock(t) ==
  /\ HandlerGoto(t, "lock", "free")
  /\ LockState(t)
  /\ UNCHANGED <<sharedVars, defects, deviceVars, operation_status, woken, htx,
                 hrx, out>>

\* Mutant: is_busy stays set.
HandlerFreeStaysBusy(t) ==
  /\ HandlerGoto(t, "free", "callback")
  /\ Free({htx[t], hrx[t]})
  /\ dma_memories' = dma_memories \ {htx[t], hrx[t]}
  /\ UNCHANGED <<is_busy, current_transfer, config_reg, lockVars, channel,
                 signalled, operation_status, woken, htx, hrx, out>>

HandlerFree(t) ==
  /\ HandlerGoto(t, "free", "callback")
  /\ Free({htx[t], hrx[t]})
  /\ dma_memories' = dma_memories \ {htx[t], hrx[t]}
  /\ is_busy' = FALSE
  /\ UNCHANGED <<current_transfer, config_reg, lockVars, channel, signalled,
                 operation_status, woken, htx, hrx, out>>

\* Mutant: the condition is not signalled.
dma_complete_callbackNoSignal(job) ==
  /\ ~aes_mutex[job]
  /\ operation_status' = [operation_status EXCEPT ![job] = "SUCCESS"]
  /\ UNCHANGED woken

\* Mutant: every transfer is reported as failed.
dma_complete_callbackFailed(job) ==
  /\ ~aes_mutex[job]
  /\ operation_status' = [operation_status EXCEPT ![job] = "FAILED"]
  /\ woken' = [woken EXCEPT ![job] = TRUE]

\* aes_thread::_dma_complete_callback, under the _aes_mutex of the object
dma_complete_callback(job) ==
  /\ ~aes_mutex[job]
  /\ operation_status' = [operation_status EXCEPT ![job] = "SUCCESS"]
  /\ woken' = [woken EXCEPT ![job] = TRUE]

\* The user callback of the current transfer is called with its parameter
HandlerCallback(t) ==
  /\ HandlerGoto(t, "callback", "unlock")
  /\ IF current_transfer.job = NoThread THEN UNCHANGED <<operation_status, woken>>
     ELSE dma_complete_callback(current_transfer.job)
  /\ UNCHANGED <<sharedVars, lockVars, deviceVars, htx, hrx, out>>

HandlerUnlock(t) ==
  /\ HandlerGoto(t, "unlock", "off")
  /\ UnlockState(t)
  /\ htx' = [htx EXCEPT ![t] = NoBuffer]
  /\ hrx' = [hrx EXCEPT ![t] = NoBuffer]
  /\ UNCHANGED <<sharedVars, deviceVars, operation_status, woken, out>>

--------------------------------------------------------------------------------
Program(t) ==
  \/ Lock(t) \/ RejectBusy(t) \/ CheckIdle(t) \/ AllocTx(t) \/ AllocRx(t)
  \/ SetupFails(t) \/ ReadInput(t) \/ OpenInputFails(t) \/ Publish(t)
  \/ StopChannels(t) \/ StartTransfer(t) \/ StartFails(t) \/ SecondUnlock(t)
  \/ CatchFree(t) \/ CatchClear(t) \/ CatchUnlock(t)
  \/ WaitLock(t) \/ CondWait(t) \/ Wake(t) \/ WaitDone(t)
  \/ Report(t) \/ Close(t)

Handler(t) ==
  \/ Interrupt(t) \/ HandlerOutput(t) \/ HandlerLock(t) \/ HandlerFree(t)
  \/ HandlerCallback(t) \/ HandlerUnlock(t)

Next ==
  \/ \E t \in Thread : \/ Start(t) \/ Program(t) \/ SpuriousWake(t)
                       \/ Handler(t) \/ Collect(t)
  \/ Complete

Spec == Init /\ [][Next]_vars

\* Started threads and their handlers are scheduled, the device finishes what
\* it was given, the UI returns to its select loop.  Nobody has to press a key,
\* and no wake-up has to be spurious.
Fairness ==
  /\ \A t \in Thread : /\ WF_vars(Program(t))
                       /\ WF_vars(Handler(t))
                       /\ WF_vars(Collect(t))
  /\ WF_vars(Complete)

FairSpec == Spec /\ Fairness
--------------------------------------------------------------------------------
(* Properties                                                                  *)

\* No BUSY rejection and no unlock of somebody else's lock has happened yet.
\* Either one breaks the engine for good (see the README); the invariants that
\* start with Clean say that nothing else does.
Clean == defects = {}

\* t runs code written to run under state_mutex
InCriticalSection(t) ==
  \/ pc[t] \in SetupPCs
  \/ pc[t] \in CatchPCs /\ exception[t] \in {"busy", "setup"}
  \/ hpc[t] \in {"free", "callback", "unlock"}

\* t has published a transfer that is neither handled nor given up
Ongoing(t) ==
  \/ pc[t] \in {"stop", "start"}
  \/ pc[t] \in {"catch_free", "catch_clear"} /\ exception[t] = "start"
  \/ \E i \in DOMAIN channel : channel[i].job = t
  \/ signalled[t] > 0
  \/ hpc[t] \in {"output", "lock", "free"}

\* t owns buffers it has not freed yet
HoldsBuffers(t) ==
  \/ pc[t] \in {"alloc_rx", "read", "publish"}
  \/ pc[t] = "catch_free" /\ exception[t] = "setup"
  \/ Ongoing(t) /\ pc[t] # "catch_clear"

BuffersOf(t) ==
  IF Ongoing(t) THEN {current_transfer.tx, current_transfer.rx}
  ELSE {tx[t], rx[t]} \ {NoBuffer}

\* t blocks on its own _aes_mutex: the signal came while run() held it
SelfDeadlock(t) ==
  /\ hpc[t] = "callback"
  /\ current_transfer.job = t
  /\ aes_mutex[t]

Transfer == [tx : Buffer \cup {NoBuffer}, rx : Buffer \cup {NoBuffer},
             job : Thread \cup {NoThread}]

\* Real-time signals are queued: a thread may owe several.
SignalCounts == [Thread -> Nat]

\* Every variable has its type.
TypeOK ==
  /\ is_busy \in BOOLEAN
  /\ dma_memories \subseteq Buffer
  /\ current_transfer \in Transfer
  /\ config_reg \in BOOLEAN
  /\ state_mutex \in Thread \cup {NoThread}
  /\ mapped \subseteq Buffer
  /\ mem \in [Buffer -> Thread \cup {NoThread}]
  /\ channel \in Seq([tx : Buffer, rx : Buffer, job : Thread])
  /\ signalled \in SignalCounts
  /\ op \in [Thread -> {"FILE", "INTO"}]
  /\ pc \in [Thread -> PCs]
  /\ hpc \in [Thread -> HandlerPCs]
  /\ tx \in [Thread -> Buffer \cup {NoBuffer}]
  /\ rx \in [Thread -> Buffer \cup {NoBuffer}]
  /\ htx \in [Thread -> Buffer \cup {NoBuffer}]
  /\ hrx \in [Thread -> Buffer \cup {NoBuffer}]
  /\ exception \in [Thread -> {"none", "busy", "setup", "start"}]
  /\ operation_status \in [Thread -> {"SUCCESS", "BUSY"}]
  /\ aes_mutex \in [Thread -> BOOLEAN]
  /\ woken \in [Thread -> BOOLEAN]
  /\ out \in [Thread -> Thread \cup {NoThread, Partial}]
  /\ result \in [Thread -> {"none", "EXCEPTION", "SUCCESS", "BUSY"}]
  /\ defects \subseteq {"busy_rejection", "foreign_unlock"}

\* Two threads never run the code that state_mutex protects at once: the setup
\* of a transfer, the catch block of a failed setup, the cleanup of a handler.
MutualExclusion ==
  \A t, u \in Thread :
    InCriticalSection(t) /\ InCriticalSection(u) => t = u

\* The same, as long as the locking protocol is intact.
CleanMutualExclusion == Clean => MutualExclusion

\* is_busy is set exactly while some transfer is ongoing, and only one is.
BusyIffOngoing ==
  Clean => /\ is_busy <=> \E t \in Thread : Ongoing(t)
           /\ \A t, u \in Thread : Ongoing(t) /\ Ongoing(u) => t = u

\* The buffers mapped in the driver are the registered ones, and all of them
\* belong to the one operation under way: nothing leaks, nothing is freed twice.
MemoryAccounted ==
  Clean => /\ mapped = dma_memories
           /\ mapped = UNION {BuffersOf(t) :
                                t \in {u \in Thread : HoldsBuffers(u)}}

\* The device only reads and writes buffers that are mapped, and never
\* overwrites the buffer it reads.
DmaBuffersMapped ==
  Clean => \A i \in DOMAIN channel :
             /\ {channel[i].tx, channel[i].rx} \subseteq mapped
             /\ channel[i].tx # channel[i].rx

\* An output only ever receives the data of its own operation.
OwnOutput == Clean => \A t \in Thread : out[t] \in {NoThread, t, Partial}

\* The completion callback is invoked for the thread that runs the handler,
\* while that thread is still there to be told.
CallbackReachesOwner ==
  Clean => \A t \in Thread : hpc[t] = "callback" =>
             /\ current_transfer.job = t
             /\ operation_status[t] = "BUSY"
             /\ pc[t] \in {"unlock"} \cup WaitPCs

\* A handler never waits for a state_mutex held by the code it interrupted.
HandlerNeverBlocksOnItself ==
  \A t \in Thread : hpc[t] = "lock" => state_mutex # t

\* The output file of t did not open or could not be written (aes.cpp:129): the
\* streams do not throw, and the handler goes on with is_success.
WriteFailed(t) == op[t] = "FILE" /\ out[t] = Partial

\* What the UI reads is what happened: SUCCESS comes with the result of the
\* thread's own transfer in its output, an exception with an untouched output.
\* The one exception is a file whose write has failed: see SuccessIsWritten.
ResultTruthful ==
  Clean => \A t \in Thread :
             /\ result[t] = "SUCCESS" => out[t] = t \/ WriteFailed(t)
             /\ result[t] = "EXCEPTION" => out[t] = NoThread
             /\ result[t] # "BUSY"

\* Key loading is never switched on under a transfer.
KeyStable == Clean /\ channel # <<>> => ~config_reg

\* The first rejection hits a thread only while another one has a transfer
\* ongoing: is_busy is never left set by mistake.
RejectionJustified ==
  [][\A t \in Thread : RejectBusy(t) /\ Clean =>
       \E u \in Thread \ {t} : Ongoing(u)]_vars

\* A started operation ends with a result in the UI, unless the locking
\* protocol was broken or its own handler blocks on its own mutex.
OperationEnds ==
  \A t \in Thread :
    pc[t] = "lock" ~> (result[t] # "none" \/ ~Clean
                         \/ \E u \in Thread : SelfDeadlock(u))

--------------------------------------------------------------------------------
(* What the comments of the code say, and the code does not do                 *)

\* (MutualExclusion above: aes.h:74 "mutual exclusion", of state_mutex.)

\* aes.h:61 "file path to copy the content of the rx buffer once finished": an
\* operation that the UI is told has succeeded has its whole output.
SuccessIsWritten ==
  \A t \in Thread : Clean /\ result[t] = "SUCCESS" => out[t] = t

\* aes_thread.cpp:45 "wait until operation finishes": the wait ends.
WaitEnds == \A t \in Thread : pc[t] = "wait_lock" ~> pc[t] = "exited"
================================================================================
