--------------------------- MODULE AesTransferProofs ---------------------------
(***************************************************************************)
(* What holds of one direction of the AES engine for every set of threads  *)
(* and every set of buffers: first its lock, then what the engine          *)
(* guarantees while its locking protocol is intact, when it is idle or     *)
(* serves one operation, in one of five stages.                            *)
(***************************************************************************)
EXTENDS AesTransfer, SequenceTheorems, TLAPS

\* The oldest element of a queue that is not empty, and the queue without it.
LEMMA QueueHeadTail ==
  ASSUME NEW S, NEW q \in Seq(S), q # <<>>
  PROVE  Head(q) \in S /\ Tail(q) \in Seq(S)
  OBVIOUS

\* The youngest one.
LEMMA QueueLast ==
  ASSUME NEW S, NEW q \in Seq(S), q # <<>>
  PROVE  Len(q) \in DOMAIN q /\ q[Len(q)] \in S
  OBVIOUS

\* Both consist of elements the queue had.
LEMMA QueueElements ==
  ASSUME NEW S, NEW q \in Seq(S), q # <<>>
  PROVE  /\ \E j \in DOMAIN q : Head(q) = q[j]
         /\ \A i \in DOMAIN Tail(q) : \E j \in DOMAIN q : Tail(q)[i] = q[j]
  <1>1. 1 \in DOMAIN q /\ Head(q) = q[1]
    OBVIOUS
  <1>2. ASSUME NEW i \in DOMAIN Tail(q)
        PROVE  i + 1 \in DOMAIN q /\ Tail(q)[i] = q[i + 1]
    OBVIOUS
  <1>3. QED
    BY <1>1, <1>2

\* The strengthening TypeOK needs: the buffers of a transfer are known from
\* their allocation until _do_transfer returns or throws.
LocalsSet ==
  \A t \in Thread :
    /\ pc[t] \in {"alloc_rx", "read", "publish", "stop", "start"} =>
         tx[t] \in Buffer
    /\ pc[t] \in {"read", "publish", "stop", "start"} => rx[t] \in Buffer

TypeInv == TypeOK /\ LocalsSet

\* The initial state is well typed.
LEMMA InitTypeOK == Init => TypeInv
  <1> USE ConstantsAssumption DEF Init
  <1>1. ASSUME Init PROVE current_transfer \in Transfer
    BY <1>1 DEF Transfer
  <1>2. ASSUME Init PROVE channel \in Seq([tx : Buffer, rx : Buffer, job : Thread])
    BY <1>2
  <1>3. ASSUME Init PROVE TypeOK
    BY <1>1, <1>2, <1>3 DEF TypeOK, PCs, HandlerPCs, SignalCounts
  <1>4. QED
    BY <1>3 DEF TypeInv, LocalsSet

\* Every step of a thread, of its handler, of the UI and of the device keeps
\* the types.
LEMMA NextTypeOK == TypeInv /\ [Next]_vars => TypeInv'
  <1> SUFFICES ASSUME TypeInv, [Next]_vars
               PROVE  TypeInv'
    OBVIOUS
  <1> USE ConstantsAssumption
      DEF  TypeInv, LocalsSet, TypeOK, Transfer, PCs, SetupPCs, CatchPCs, WaitPCs, HandlerPCs,
         Goto,
          Throw, HandlerGoto, LockState, UnlockState, LocalsEnd, Free,
          sharedVars, lockVars, deviceVars, handlerVars, statusVars,
          localVars, resultVars
  <1>1. ASSUME NEW t \in Thread, Start(t)
        PROVE  TypeInv'
    BY <1>1 DEF Start
  <1>2. ASSUME NEW t \in Thread, Program(t)
        PROVE  TypeInv'
    <2>1. CASE Lock(t)
      BY <2>1 DEF Lock
    <2>2. CASE RejectBusy(t)
      BY <2>2 DEF RejectBusy
    <2>3. CASE CheckIdle(t)
      BY <2>3 DEF CheckIdle
    <2>4. CASE AllocTx(t)
      <3>1. PICK b \in Buffer :
              /\ tx' = [tx EXCEPT ![t] = b]
              /\ mapped' = mapped \cup {b}
              /\ dma_memories' = dma_memories \cup {b}
              /\ current_transfer' = [current_transfer EXCEPT !.tx = b]
        BY <2>4 DEF AllocTx
      <3>2. current_transfer' \in Transfer
        BY <3>1
      <3>3. pc[t] = "alloc_tx" /\ pc' = [pc EXCEPT ![t] = "alloc_rx"]
        BY <2>4 DEF AllocTx
      <3>4. UNCHANGED <<is_busy, config_reg, lockVars, mem, channel, signalled,
                        statusVars, rx, exception, handlerVars, resultVars>>
        BY <2>4 DEF AllocTx
      <3>5. QED
        BY <3>1, <3>2, <3>3, <3>4
    <2>5. CASE AllocRx(t)
      <3>1. PICK b \in Buffer :
              /\ rx' = [rx EXCEPT ![t] = b]
              /\ mapped' = mapped \cup {b}
              /\ dma_memories' = dma_memories \cup {b}
              /\ current_transfer' = [current_transfer EXCEPT !.rx = b]
        BY <2>5 DEF AllocRx
      <3>2. current_transfer' \in Transfer
        BY <3>1
      <3>3. pc[t] = "alloc_rx" /\ pc' = [pc EXCEPT ![t] = "read"]
        BY <2>5 DEF AllocRx
      <3>4. UNCHANGED <<is_busy, config_reg, lockVars, mem, channel, signalled,
                        statusVars, tx, exception, handlerVars, resultVars>>
        BY <2>5 DEF AllocRx
      <3>5. QED
        BY <3>1, <3>2, <3>3, <3>4
    <2>6. CASE SetupFails(t)
      <3>1. pc' = [pc EXCEPT ![t] = "catch_free"]
        BY <2>6 DEF SetupFails
      <3>2. exception' = [exception EXCEPT ![t] = "setup"]
        BY <2>6 DEF SetupFails
      <3>3. UNCHANGED <<sharedVars, lockVars, deviceVars, statusVars, tx, rx,
                        handlerVars, resultVars>>
        BY <2>6 DEF SetupFails
      <3>4. QED
        BY <3>1, <3>2, <3>3
    <2>7. CASE ReadInput(t)
      BY <2>7 DEF ReadInput
    <2>8. CASE OpenInputFails(t)
      BY <2>8 DEF OpenInputFails
    <2>9. CASE Publish(t)
      <3>1. is_busy' \in BOOLEAN /\ config_reg' \in BOOLEAN
        BY <2>9, Zenon DEF Publish
      <3>2. current_transfer' \in Transfer
        BY <2>9 DEF Publish
      <3>3. pc' = [pc EXCEPT ![t] = "stop"] /\ pc[t] = "publish"
        BY <2>9 DEF Publish
      <3>4. UNCHANGED <<dma_memories, state_mutex, deviceVars, handlerVars,
                        statusVars, resultVars, tx, rx, exception, defects>>
        BY <2>9 DEF Publish
      <3>5. QED
        BY <3>1, <3>2, <3>3, <3>4
    <2>10. CASE StopChannels(t)
      BY <2>10 DEF StopChannels
    <2>11. CASE StartTransfer(t)
      BY <2>11 DEF StartTransfer
    <2>12. CASE StartFails(t)
      BY <2>12 DEF StartFails
    <2>13. CASE SecondUnlock(t)
      BY <2>13 DEF SecondUnlock
    <2>14. CASE CatchFree(t)
      BY <2>14 DEF CatchFree
    <2>15. CASE CatchClear(t)
      <3>1. is_busy' \in BOOLEAN
        BY <2>15, Zenon DEF CatchClear
      <3>2. pc' = [pc EXCEPT ![t] = "catch_unlock"]
        BY <2>15 DEF CatchClear
      <3>3. UNCHANGED <<dma_memories, current_transfer, config_reg,
                        state_mutex, deviceVars, handlerVars, statusVars,
                        resultVars, tx, rx, exception, defects>>
        BY <2>15 DEF CatchClear
      <3>4. QED
        BY <3>1, <3>2, <3>3
    <2>16. CASE CatchUnlock(t)
      BY <2>16 DEF CatchUnlock
    <2>17. CASE WaitLock(t)
      BY <2>17 DEF WaitLock
    <2>18. CASE CondWait(t)
      BY <2>18 DEF CondWait
    <2>19. CASE Wake(t)
      BY <2>19 DEF Wake, Return
    <2>20. CASE WaitDone(t)
      BY <2>20 DEF WaitDone
    <2>21. CASE Report(t)
      BY <2>21 DEF Report
    <2>22. CASE Close(t)
      BY <2>22 DEF Close
    <2>23. QED
      BY <1>2, <2>1, <2>2, <2>3, <2>4, <2>5, <2>6, <2>7, <2>8, <2>9, <2>10,
         <2>11, <2>12, <2>13, <2>14, <2>15, <2>16, <2>17, <2>18, <2>19, <2>20,
         <2>21, <2>22
      DEF Program
  <1>3. ASSUME NEW t \in Thread, SpuriousWake(t)
        PROVE  TypeInv'
    BY <1>3 DEF SpuriousWake, Return
  <1>4. ASSUME NEW t \in Thread, Handler(t)
        PROVE  TypeInv'
    <2>1. CASE Interrupt(t)
      BY <2>1 DEF Interrupt, SignalCounts
    <2>2. CASE HandlerOutput(t)
      BY <2>2 DEF HandlerOutput
    <2>3. CASE HandlerLock(t)
      BY <2>3 DEF HandlerLock
    <2>4. CASE HandlerFree(t)
      BY <2>4 DEF HandlerFree
    <2>5. CASE HandlerCallback(t)
      <3>1. hpc' = [hpc EXCEPT ![t] = "unlock"]
        BY <2>5 DEF HandlerCallback, dma_complete_callback
      <3>2. operation_status' \in [Thread -> {"SUCCESS", "BUSY"}]
        BY <2>5 DEF HandlerCallback, dma_complete_callback
      <3>3. woken' \in [Thread -> BOOLEAN]
        <4>1. woken' = woken \/ \E j : woken' = [woken EXCEPT ![j] = TRUE]
          BY <2>5, Zenon DEF HandlerCallback, dma_complete_callback
        <4>2. woken \in [Thread -> BOOLEAN]
          OBVIOUS
        <4>3. QED
          BY ONLY <4>1, <4>2
      <3>4. UNCHANGED <<sharedVars, state_mutex, deviceVars, htx, hrx,
                        aes_mutex, resultVars, pc, tx, rx, exception, defects>>
        BY <2>5 DEF HandlerCallback, dma_complete_callback
      <3>5. QED
        BY <3>1, <3>2, <3>3, <3>4
    <2>6. CASE HandlerUnlock(t)
      BY <2>6 DEF HandlerUnlock
    <2>7. QED
      BY <1>4, <2>1, <2>2, <2>3, <2>4, <2>5, <2>6
      DEF Handler
  <1>5. ASSUME NEW t \in Thread, Collect(t)
        PROVE  TypeInv'
    BY <1>5 DEF Collect
  <1>6. CASE Complete
    <2>1. Head(channel) \in [tx : Buffer, rx : Buffer, job : Thread]
      BY <1>6, QueueHeadTail DEF Complete
    <2>2. channel' \in Seq([tx : Buffer, rx : Buffer, job : Thread])
      BY <1>6, QueueHeadTail DEF Complete
    <2>3. mem' \in [Buffer -> Thread \cup {NoThread}]
      BY <1>6, <2>1 DEF Complete
    <2>4. signalled' \in SignalCounts
      <3>1. channel[Len(channel)] \in [tx : Buffer, rx : Buffer, job : Thread]
        BY <1>6, QueueLast DEF Complete
      <3>2. QED
        BY <1>6, <3>1 DEF Complete, SignalCounts
    <2>5. UNCHANGED <<sharedVars, state_mutex, mapped, handlerVars, statusVars,
                      resultVars, pc, tx, rx, exception, defects>>
      BY <1>6 DEF Complete
    <2>6. QED
      BY <2>2, <2>3, <2>4, <2>5
  <1>7. CASE UNCHANGED vars
    BY <1>7 DEF vars
  <1>8. QED
    BY <1>1, <1>2, <1>3, <1>4, <1>5, <1>6, <1>7 DEF Next

\* Every reachable state is well typed.
THEOREM TypeCorrect == Spec => []TypeOK
    <1>1. TypeInv => TypeOK
    BY DEF TypeInv
  <1>2. QED
    BY <1>1, InitTypeOK, NextTypeOK, PTL DEF Spec

--------------------------------------------------------------------------------
(* The lock                                                                    *)

\* Where a thread is once its transfer is on the channels
AfterStart == {"unlock", "report", "close", "exited"} \cup WaitPCs

\* The mutex is only held by a thread inside one of its critical sections.
OwnerInside == \A t \in Thread : state_mutex = t => InCriticalSection(t)

\* Transfers, signals and handlers belong to threads past StartTransfer.
SignalsAfterStart ==
  /\ \A i \in DOMAIN channel : pc[channel[i].job] \in AfterStart
  /\ \A t \in Thread : signalled[t] > 0 => pc[t] \in AfterStart
  /\ \A t \in Thread : hpc[t] # "off" => pc[t] \in AfterStart

\* While the protocol is intact, a thread inside one holds the mutex.
InsideOwner ==
  Clean => \A t \in Thread : InCriticalSection(t) => state_mutex = t

LockInv == OwnerInside /\ SignalsAfterStart /\ InsideOwner

\* At first nobody holds the lock, and nobody is inside.
LEMMA InitLockInv == Init => LockInv
  BY ConstantsAssumption
  DEF Init, LockInv, OwnerInside, SignalsAfterStart, InsideOwner,
      InCriticalSection, SetupPCs, CatchPCs

\* Every step keeps the lock with the thread inside, and the signals with the
\* threads that are past the section they could block.
LEMMA NextLockInv == TypeInv /\ LockInv /\ [Next]_vars => LockInv'
  <1> SUFFICES ASSUME TypeInv, LockInv, [Next]_vars
               PROVE  LockInv'
    OBVIOUS
  <1> USE ConstantsAssumption
      DEF TypeInv, TypeOK, LockInv, OwnerInside, SignalsAfterStart,
          InsideOwner, InCriticalSection, Clean, AfterStart, SetupPCs,
          CatchPCs, WaitPCs, Goto, Throw, HandlerGoto, LockState,
          UnlockState, LocalsEnd, Free, sharedVars, lockVars, deviceVars,
          handlerVars, statusVars, localVars, resultVars
  <1>1. ASSUME NEW t \in Thread, Start(t)
        PROVE  LockInv'
    BY <1>1 DEF Start
  <1>2. ASSUME NEW t \in Thread, Program(t)
        PROVE  LockInv'
    <2>1. CASE Lock(t)
      BY <2>1 DEF Lock
    <2>2. CASE RejectBusy(t)
      BY <2>2 DEF RejectBusy
    <2>3. CASE CheckIdle(t)
      BY <2>3 DEF CheckIdle
    <2>4. CASE AllocTx(t)
      BY <2>4 DEF AllocTx
    <2>5. CASE AllocRx(t)
      BY <2>5 DEF AllocRx
    <2>6. CASE SetupFails(t)
      <3>1. hpc[t] = "off" /\ pc[t] \in {"alloc_tx", "alloc_rx"}
        BY <2>6 DEF SetupFails
      <3>2. pc' = [pc EXCEPT ![t] = "catch_free"]
        BY <2>6 DEF SetupFails
      <3>3. exception' = [exception EXCEPT ![t] = "setup"]
        BY <2>6 DEF SetupFails
      <3>4. UNCHANGED <<state_mutex, channel, signalled, hpc, defects>>
        BY <2>6 DEF SetupFails
      <3>5. QED
        BY <3>1, <3>2, <3>3, <3>4
    <2>7. CASE ReadInput(t)
      BY <2>7 DEF ReadInput
    <2>8. CASE OpenInputFails(t)
      BY <2>8 DEF OpenInputFails
    <2>9. CASE Publish(t)
      BY <2>9 DEF Publish
    <2>10. CASE StopChannels(t)
      BY <2>10 DEF StopChannels
    <2>11. CASE StartTransfer(t)
      BY <2>11 DEF StartTransfer
    <2>12. CASE StartFails(t)
      BY <2>12 DEF StartFails
    <2>13. CASE SecondUnlock(t)
      BY <2>13 DEF SecondUnlock
    <2>14. CASE CatchFree(t)
      BY <2>14 DEF CatchFree
    <2>15. CASE CatchClear(t)
      BY <2>15 DEF CatchClear
    <2>16. CASE CatchUnlock(t)
      BY <2>16 DEF CatchUnlock
    <2>17. CASE WaitLock(t)
      BY <2>17 DEF WaitLock
    <2>18. CASE CondWait(t)
      BY <2>18 DEF CondWait
    <2>19. CASE Wake(t)
      BY <2>19 DEF Wake, Return
    <2>20. CASE WaitDone(t)
      BY <2>20 DEF WaitDone
    <2>21. CASE Report(t)
      BY <2>21 DEF Report
    <2>22. CASE Close(t)
      BY <2>22 DEF Close
    <2>23. QED
      BY <1>2, <2>1, <2>2, <2>3, <2>4, <2>5, <2>6, <2>7, <2>8, <2>9, <2>10,
         <2>11, <2>12, <2>13, <2>14, <2>15, <2>16, <2>17, <2>18, <2>19, <2>20,
         <2>21, <2>22
      DEF Program
  <1>3. ASSUME NEW t \in Thread, SpuriousWake(t)
        PROVE  LockInv'
    BY <1>3 DEF SpuriousWake, Return
  <1>4. ASSUME NEW t \in Thread, Handler(t)
        PROVE  LockInv'
    <2>1. CASE Interrupt(t)
      BY <2>1 DEF Interrupt, SignalCounts
    <2>2. CASE HandlerOutput(t)
      BY <2>2 DEF HandlerOutput
    <2>3. CASE HandlerLock(t)
      BY <2>3 DEF HandlerLock
    <2>4. CASE HandlerFree(t)
      BY <2>4 DEF HandlerFree
    <2>5. CASE HandlerCallback(t)
      BY <2>5 DEF HandlerCallback, dma_complete_callback
    <2>6. CASE HandlerUnlock(t)
      BY <2>6 DEF HandlerUnlock
    <2>7. QED
      BY <1>4, <2>1, <2>2, <2>3, <2>4, <2>5, <2>6
      DEF Handler
  <1>5. ASSUME NEW t \in Thread, Collect(t)
        PROVE  LockInv'
    BY <1>5 DEF Collect
  <1>6. CASE Complete
    <2> channel # <<>>
      BY <1>6 DEF Complete
    <2> DEFINE last == channel[Len(channel)].job
    <2>1. last \in Thread /\ pc[last] \in AfterStart
      <3>1. /\ Len(channel) \in DOMAIN channel
            /\ channel[Len(channel)] \in [tx : Buffer, rx : Buffer, job : Thread]
        BY QueueLast
      <3>2. QED
        BY <3>1
    <2>2. \A i \in DOMAIN channel' : pc[channel'[i].job] \in AfterStart
      BY <1>6, QueueElements DEF Complete
    <2>3. signalled' = [signalled EXCEPT ![last] = @ + 1]
      BY <1>6 DEF Complete
    <2>4. UNCHANGED <<state_mutex, hpc, pc, exception, defects>>
      BY <1>6 DEF Complete
    <2>5. QED
      BY <2>1, <2>2, <2>3, <2>4 DEF SignalCounts
  <1>7. CASE UNCHANGED vars
    BY <1>7 DEF vars
  <1>8. QED
    BY <1>1, <1>2, <1>3, <1>4, <1>5, <1>6, <1>7 DEF Next

\* The lock invariant holds in every reachable state.
THEOREM LockCorrect == Spec => [](TypeInv /\ LockInv)
  BY InitTypeOK, NextTypeOK, InitLockInv, NextLockInv, PTL DEF Spec

\* Until a BUSY rejection or a foreign unlock, two threads are never in code
\* that state_mutex protects.
THEOREM CleanExclusion == Spec => []CleanMutualExclusion
  <1>1. LockInv => CleanMutualExclusion
    BY DEF LockInv, InsideOwner, CleanMutualExclusion, MutualExclusion
  <1>2. QED
    BY <1>1, LockCorrect, PTL

\* The completion handler never waits for a mutex its own thread holds, with
\* or without those defects: unlocking before the transfer starts ensures it.
THEOREM HandlerNotBlocked == Spec => []HandlerNeverBlocksOnItself
  <1>1. TypeInv /\ LockInv => HandlerNeverBlocksOnItself
    BY DEF TypeInv, TypeOK, LockInv, OwnerInside, SignalsAfterStart, AfterStart,
           InCriticalSection, SetupPCs, CatchPCs, WaitPCs,
           HandlerNeverBlocksOnItself
  <1>2. QED
    BY <1>1, LockCorrect, PTL

--------------------------------------------------------------------------------
(* the stages of the engine                                                    *)

\* Between the start of the transfer and the end of the wait
After == {"unlock"} \cup WaitPCs
Ended == {"report", "close", "exited"}

\* u has no buffers, no transfer and no signal under way.
Bystander(u) ==
  /\ signalled[u] = 0
  /\ hpc[u] \in {"off", "callback", "unlock"}
  /\ pc[u] \in {"new", "lock", "check", "catch_unlock"} \cup After \cup Ended

Idle ==
  /\ is_busy = FALSE
  /\ channel = <<>>
  /\ mapped = {}
  /\ \A u \in Thread : Bystander(u)

Alone(t) == \A u \in Thread \ {t} : Bystander(u)

\* The buffers of t are the mapped ones and those of the current transfer.
OwnBuffers(t) ==
  /\ tx[t] \in Buffer /\ rx[t] \in Buffer /\ tx[t] # rx[t]
  /\ mapped = {tx[t], rx[t]}
  /\ current_transfer.tx = tx[t] /\ current_transfer.rx = rx[t]

\* The program of t runs, and nothing of its transfer is on the device.
NotStarted(t) ==
  /\ channel = <<>>
  /\ signalled[t] = 0
  /\ hpc[t] = "off"
  /\ Alone(t)

SettingUp(t) ==
  /\ NotStarted(t)
  /\ is_busy = FALSE
  /\ \/ pc[t] = "alloc_tx" /\ mapped = {}
     \/ /\ pc[t] = "alloc_rx"
        /\ tx[t] \in Buffer /\ mapped = {tx[t]} /\ current_transfer.tx = tx[t]
     \/ pc[t] = "read" /\ OwnBuffers(t)
     \/ pc[t] = "publish" /\ OwnBuffers(t) /\ mem[tx[t]] = t
     \/ /\ pc[t] = "catch_free" /\ exception[t] = "setup"
        /\ mapped = {tx[t], rx[t]} \ {NoBuffer}
     \/ pc[t] = "catch_clear" /\ exception[t] = "setup" /\ mapped = {}

Published(t) ==
  /\ NotStarted(t)
  /\ is_busy = TRUE /\ config_reg = FALSE
  /\ current_transfer.job = t
  /\ \/ pc[t] \in {"stop", "start"} /\ OwnBuffers(t) /\ mem[tx[t]] = t
     \/ pc[t] = "catch_free" /\ exception[t] = "start" /\ OwnBuffers(t)
     \/ pc[t] = "catch_clear" /\ exception[t] = "start" /\ mapped = {}

\* The transfer has been given to the device and t has not been told of its end.
Started(t) ==
  /\ is_busy = TRUE /\ config_reg = FALSE
  /\ Alone(t)
  /\ pc[t] \in After /\ exception[t] = "none" /\ operation_status[t] = "BUSY"
  /\ current_transfer.job = t
  /\ current_transfer.tx \in Buffer /\ current_transfer.rx \in Buffer
  /\ current_transfer.tx # current_transfer.rx
  /\ mapped = {current_transfer.tx, current_transfer.rx}

Queued(t) ==
  /\ Started(t)
  /\ channel = <<current_transfer>>
  /\ signalled[t] = 0 /\ hpc[t] = "off"
  /\ mem[current_transfer.tx] = t

Signalled(t) ==
  /\ Started(t)
  /\ channel = <<>>
  /\ signalled[t] = 1 /\ hpc[t] = "off"
  /\ mem[current_transfer.rx] = t

\* t has its output, or lost it in a write that failed unnoticed.
Written(t) == out[t] = t \/ WriteFailed(t)

Handling(t) ==
  /\ Started(t)
  /\ channel = <<>>
  /\ signalled[t] = 0
  /\ htx[t] = current_transfer.tx /\ hrx[t] = current_transfer.rx
  /\ \/ hpc[t] = "output" /\ mem[current_transfer.rx] = t
     \/ hpc[t] \in {"lock", "free"} /\ Written(t)

Busy(t) == \/ SettingUp(t) \/ Published(t) \/ Queued(t) \/ Signalled(t) \/ Handling(t)
Stage == Idle \/ \E t \in Thread : Busy(t)

--------------------------------------------------------------------------------
(* the story of one thread                                                     *)

BuffersUnset(t) ==
  /\ pc[t] \in {"new", "lock", "check", "alloc_tx"} => tx[t] = NoBuffer
  /\ pc[t] \in {"new", "lock", "check", "alloc_tx", "alloc_rx"} => rx[t] = NoBuffer

ExceptionKnown(t) ==
  /\ pc[t] \in CatchPCs => exception[t] \in {"setup", "start"}
  /\ pc[t] \notin CatchPCs \cup Ended => exception[t] = "none"

StatusKnown(t) ==
  /\ pc[t] \notin {"new"} \cup After \cup Ended => operation_status[t] = "BUSY"
  /\ pc[t] \in Ended => exception[t] # "none" \/ operation_status[t] # "BUSY"

OutputKnown(t) ==
  /\ out[t] \in {NoThread, t, Partial}
  /\ pc[t] \notin After \cup Ended => out[t] = NoThread
  /\ pc[t] \in Ended /\ exception[t] # "none" => out[t] = NoThread
  /\ pc[t] # "new" /\ operation_status[t] # "BUSY" => Written(t)

HandlerKnown(t) ==
  /\ hpc[t] # "off" => pc[t] \in After
  /\ hpc[t] = "callback" => /\ operation_status[t] = "BUSY"
                            /\ Written(t)
                            /\ current_transfer.job = t
  /\ hpc[t] = "unlock" => operation_status[t] # "BUSY"

ResultKnown(t) ==
  /\ result[t] # "none" => pc[t] \in {"close", "exited"}
  /\ result[t] = "SUCCESS" => exception[t] = "none" /\ operation_status[t] # "BUSY"
  /\ result[t] = "EXCEPTION" => exception[t] # "none"
  /\ result[t] # "BUSY"

Story(t) ==
  /\ BuffersUnset(t) /\ ExceptionKnown(t) /\ StatusKnown(t) /\ OutputKnown(t)
  /\ HandlerKnown(t) /\ ResultKnown(t)

Engine ==
  /\ mapped = dma_memories
  /\ Stage
  /\ \A t \in Thread : Story(t)

EngineInv == Clean => Engine

\* At first the engine is idle.
LEMMA InitEngine == Init => EngineInv
  <1> SUFFICES ASSUME Init PROVE EngineInv
    OBVIOUS
  <1> USE ConstantsAssumption DEF Init
  <1>1. mapped = dma_memories
    OBVIOUS
  <1>2. Stage
    BY DEF Stage, Idle, Bystander
  <1>3. ASSUME NEW t \in Thread PROVE Story(t)
    BY DEF Story, BuffersUnset, ExceptionKnown, StatusKnown, OutputKnown, HandlerKnown,
           ResultKnown, CatchPCs, WaitPCs, After, Ended
  <1>4. QED
    BY <1>1, <1>2, <1>3 DEF EngineInv, Engine

--------------------------------------------------------------------------------
(* what a step leaves alone                                                    *)

SameLocals(u) ==
  /\ pc'[u] = pc[u] /\ hpc'[u] = hpc[u] /\ signalled'[u] = signalled[u]
  /\ tx'[u] = tx[u] /\ rx'[u] = rx[u] /\ htx'[u] = htx[u] /\ hrx'[u] = hrx[u]
  /\ exception'[u] = exception[u] /\ operation_status'[u] = operation_status[u]
  /\ out'[u] = out[u] /\ result'[u] = result[u] /\ op'[u] = op[u]

OthersSame(t) == \A u \in Thread \ {t} : SameLocals(u)

SharedSame == UNCHANGED <<is_busy, channel, mapped, mem, config_reg, current_transfer>>

\* The story of a thread goes on while nobody touches its locals; the details of a
\* transfer are only replaced when no callback is about to use them.
LEMMA StoryKept ==
  ASSUME NEW u \in Thread, Story(u), SameLocals(u),
         hpc[u] = "callback" => current_transfer'.job = current_transfer.job
  PROVE  Story(u)'
  BY DEF Story, SameLocals, BuffersUnset, ExceptionKnown, StatusKnown, OutputKnown,
         HandlerKnown, ResultKnown, Written, WriteFailed

LEMMA BystanderKept ==
  ASSUME NEW u \in Thread, Bystander(u), SameLocals(u)
  PROVE  Bystander(u)'
  BY DEF Bystander, SameLocals

LEMMA AloneKept ==
  ASSUME NEW t \in Thread, Alone(t), OthersSame(t)
  PROVE  Alone(t)'
  BY BystanderKept DEF Alone, OthersSame

\* The stage is that of the thread that is not a bystander.
LEMMA StageIs ==
  ASSUME Stage, NEW t \in Thread, ~Bystander(t)
  PROVE  Busy(t)
  <1>1. ~Idle
    BY DEF Idle
  <1>2. PICK u \in Thread : Busy(u)
    BY <1>1 DEF Stage
  <1>3. Alone(u)
    BY <1>2 DEF Busy, SettingUp, Published, NotStarted, Queued, Signalled, Handling, Started
  <1>4. u = t
    BY <1>3 DEF Alone
  <1>5. QED
    BY <1>2, <1>4

\* A step of t that leaves the engine alone keeps its stage.
LEMMA StageKept ==
  ASSUME Stage, NEW t \in Thread, SharedSame, OthersSame(t),
         Bystander(t) => Bystander(t)', Busy(t) => Busy(t)'
  PROVE  Stage'
  <1>1. CASE Idle
    <2>1. \A u \in Thread : Bystander(u)'
      BY <1>1, BystanderKept DEF Idle, OthersSame
    <2>2. Idle'
      BY <1>1, <2>1 DEF Idle, SharedSame
    <2>3. QED
      BY <2>2 DEF Stage
  <1>2. ASSUME NEW u \in Thread, Busy(u) PROVE Stage'
    <2>1. CASE u = t
      BY <1>2, <2>1 DEF Stage
    <2>2. CASE u # t
      <3>1. Alone(u)
        BY <1>2 DEF Busy, SettingUp, Published, NotStarted, Queued, Signalled, Handling,
                    Started
      <3>2. Alone(u)'
        <4>1. ASSUME NEW v \in Thread \ {u} PROVE Bystander(v)'
          <5>1. Bystander(v)
            BY <3>1 DEF Alone
          <5>2. QED
            BY <5>1, BystanderKept DEF OthersSame
        <4>2. QED
          BY <4>1 DEF Alone
      <3>3. SameLocals(u)
        BY <2>2 DEF OthersSame
      <3>4. Busy(u)'
        <4>1. CASE SettingUp(u)
          BY <3>2, <3>3, <4>1
          DEF Busy, SettingUp, NotStarted, OwnBuffers, SharedSame, SameLocals
        <4>2. CASE Published(u)
          BY <3>2, <3>3, <4>2
          DEF Busy, Published, NotStarted, OwnBuffers, SharedSame, SameLocals
        <4>3. CASE Queued(u) \/ Signalled(u) \/ Handling(u)
          BY <3>2, <3>3, <4>3
          DEF Busy, Queued, Signalled, Handling, Started, SharedSame, SameLocals,
              Written, WriteFailed
        <4>4. QED
          BY <1>2, <4>1, <4>2, <4>3 DEF Busy
      <3>5. QED
        BY <3>4 DEF Stage
    <2>3. QED
      BY <2>1, <2>2
  <1>3. QED
    BY <1>1, <1>2 DEF Stage

LEMMA BesideKept ==
  ASSUME Engine, NEW t \in Thread, SharedSame, dma_memories' = dma_memories,
         OthersSame(t), Bystander(t) => Bystander(t)', Busy(t) => Busy(t)', Story(t)'
  PROVE  Engine'
  <1>1. Stage'
    BY StageKept DEF Engine
  <1>2. ASSUME NEW u \in Thread PROVE Story(u)'
    <2>1. CASE u = t
      BY <2>1
    <2>2. CASE u # t
      BY <2>2, StoryKept DEF Engine, OthersSame, SharedSame
    <2>3. QED
      BY <2>1, <2>2
  <1>3. QED
    BY <1>1, <1>2 DEF Engine, SharedSame

\* A step of t that moves the engine on.
LEMMA MovedOn ==
  ASSUME Engine, NEW t \in Thread, OthersSame(t), mapped' = dma_memories', Stage',
         Story(t)', \A u \in Thread \ {t} :
                      hpc[u] = "callback" => current_transfer'.job = current_transfer.job
  PROVE  Engine'
  <1>1. ASSUME NEW u \in Thread PROVE Story(u)'
    <2>1. CASE u = t
      BY <2>1
    <2>2. CASE u # t
      BY <2>2, StoryKept DEF Engine, OthersSame
    <2>3. QED
      BY <2>1, <2>2
  <1>2. QED
    BY <1>1 DEF Engine

--------------------------------------------------------------------------------
(* the program of a thread beside the engine                                   *)

Sound == TypeInv /\ LockInv /\ Clean /\ Engine

\* The locals a step of the program may change, one at a time.
LEMMA ProgramBeside ==
  ASSUME Sound, NEW t \in Thread,
         \/ Start(t) \/ Lock(t) \/ SecondUnlock(t) \/ CatchUnlock(t) \/ WaitLock(t)
         \/ CondWait(t) \/ Return(t) \/ WaitDone(t) \/ Report(t) \/ Close(t)
  PROVE  Engine'
  <1> USE DEF Sound
  <1>1. SharedSame /\ dma_memories' = dma_memories
    BY DEF SharedSame, sharedVars, deviceVars, Start, Lock, SecondUnlock, CatchUnlock, WaitLock,
           CondWait, Return, WaitDone, Report, Close
  <1>2. OthersSame(t)
    BY DEF OthersSame, SameLocals, deviceVars, statusVars, localVars, handlerVars, resultVars,
           Goto, LocalsEnd, TypeInv, TypeOK, Start, Lock, SecondUnlock, CatchUnlock,
           WaitLock, CondWait, Return, WaitDone, Report, Close
  <1>3. /\ hpc[t] = "off" /\ hpc'[t] = "off" /\ signalled'[t] = signalled[t]
        /\ exception'[t] = exception[t] /\ out'[t] = out[t]
        /\ result'[t] = result[t] /\ op'[t] = op[t]
        /\ htx'[t] = htx[t] /\ hrx'[t] = hrx[t]
    BY DEF deviceVars, localVars, handlerVars, resultVars, Goto, LocalsEnd, TypeInv, TypeOK,
           Start, Lock, SecondUnlock, CatchUnlock,
           WaitLock, CondWait, Return, WaitDone, Report, Close
  <1>4. \/ /\ pc[t] = "new" /\ pc'[t] = "lock" /\ operation_status'[t] = "BUSY"
           /\ tx'[t] = tx[t] /\ rx'[t] = rx[t]
        \/ /\ pc[t] = "lock" /\ pc'[t] = "check"
           /\ tx'[t] = tx[t] /\ rx'[t] = rx[t] /\ operation_status'[t] = operation_status[t]
        \/ /\ pc[t] \in After /\ pc'[t] \in After
           /\ operation_status'[t] = operation_status[t]
        \/ /\ pc[t] \in After /\ pc'[t] = "report" /\ operation_status[t] # "BUSY"
           /\ operation_status'[t] = operation_status[t]
        \/ /\ pc[t] = "catch_unlock" /\ pc'[t] = "report"
           /\ operation_status'[t] = operation_status[t]
        \/ /\ pc[t] = "report" /\ pc'[t] = "close"
           /\ operation_status'[t] = operation_status[t]
        \/ /\ pc[t] = "close" /\ pc'[t] = "exited"
           /\ operation_status'[t] = operation_status[t]
    BY DEF statusVars, localVars, Goto, LocalsEnd, TypeInv, TypeOK, After, WaitPCs,
           Start, Lock, SecondUnlock, CatchUnlock,
           WaitLock, CondWait, Return, WaitDone, Report, Close
  <1>5. Bystander(t) => Bystander(t)'
    BY <1>3, <1>4 DEF Bystander, After, Ended
  <1>6. Busy(t) => Busy(t)'
    <2>1. ~Handling(t) /\ ~SettingUp(t) /\ ~Published(t)
      BY <1>3, <1>4 DEF Handling, SettingUp, Published, NotStarted, After, WaitPCs
    <2>2. ASSUME Started(t) PROVE Started(t)'
      <3>1. Alone(t)'
        BY <1>2, <2>2, AloneKept DEF Started
      <3>2. pc'[t] \in After /\ operation_status'[t] = "BUSY"
        BY <1>4, <2>2 DEF Started, After, WaitPCs
      <3>3. QED
        BY <1>1, <1>3, <2>2, <3>1, <3>2 DEF Started, SharedSame
    <2>3. QED
      BY <1>1, <1>3, <2>1, <2>2 DEF Busy, Queued, Signalled, SharedSame
  <1>7. Story(t)'
    <2>1. Story(t)
      BY DEF Engine
    <2>2. QED
      BY <1>3, <1>4, <2>1
      DEF Story, BuffersUnset, ExceptionKnown, StatusKnown, OutputKnown, HandlerKnown,
          ResultKnown, CatchPCs, WaitPCs, After, Ended, Written, WriteFailed
  <1>8. QED
    BY <1>1, <1>2, <1>5, <1>6, <1>7, BesideKept

\* The UI takes the result.
LEMMA CollectBeside == ASSUME Sound, NEW t \in Thread, Collect(t) PROVE Engine'
  <1> USE DEF Sound
  <1>1. SharedSame /\ dma_memories' = dma_memories
    BY DEF SharedSame, sharedVars, deviceVars, Collect
  <1>2. OthersSame(t)
    BY DEF OthersSame, SameLocals, deviceVars, statusVars, localVars, handlerVars,
           TypeInv, TypeOK, Collect
  <1>3. /\ UNCHANGED <<pc, hpc, signalled, tx, rx, htx, hrx, exception, operation_status, out, op>>
        /\ pc[t] \in {"close", "exited"}
        /\ result'[t] = IF exception[t] # "none" THEN "EXCEPTION" ELSE operation_status[t]
    BY DEF deviceVars, statusVars, localVars, handlerVars, TypeInv, TypeOK, Collect
  <1>4. Bystander(t) => Bystander(t)'
    BY <1>3 DEF Bystander
  <1>5. ~Busy(t)
    BY <1>3 DEF Busy, SettingUp, Published, NotStarted, Queued, Signalled, Handling, Started,
                After, WaitPCs
  <1>6. Story(t)'
    <2>1. Story(t) /\ operation_status[t] \in {"SUCCESS", "BUSY"}
      BY DEF Engine, TypeInv, TypeOK
    <2>2. QED
      BY <1>1, <1>3, <2>1
      DEF Story, BuffersUnset, ExceptionKnown, StatusKnown, OutputKnown, HandlerKnown,
          ResultKnown, CatchPCs, WaitPCs, After, Ended, SharedSame, Written, WriteFailed
  <1>7. QED
    BY <1>1, <1>2, <1>4, <1>5, <1>6, BesideKept

--------------------------------------------------------------------------------
(* the setup of a transfer                                                     *)

\* The program counter tells the stage.
LEMMA ProgramStage ==
  ASSUME Sound, NEW t \in Thread
  PROVE  /\ pc[t] \in {"alloc_tx", "alloc_rx", "read", "publish"} => SettingUp(t)
         /\ pc[t] \in {"stop", "start"} => Published(t)
         /\ pc[t] \in {"catch_free", "catch_clear"} =>
              \/ exception[t] = "setup" /\ SettingUp(t)
              \/ exception[t] = "start" /\ Published(t)
  <1>1. ASSUME pc[t] \in {"alloc_tx", "alloc_rx", "read", "publish", "stop", "start",
                          "catch_free", "catch_clear"}
        PROVE  SettingUp(t) \/ Published(t)
    <2>1. ~Bystander(t) /\ ~Started(t)
      BY <1>1 DEF Bystander, Started, After, Ended, WaitPCs
    <2>2. Busy(t)
      BY <2>1, StageIs DEF Sound, Engine
    <2>3. QED
      BY <2>1, <2>2 DEF Busy, Queued, Signalled, Handling
  <1>2. QED
    BY <1>1 DEF SettingUp, Published

\* Only one thread is inside, and no other is in a callback.
LEMMA OnlyInside ==
  ASSUME Sound, NEW t \in Thread, NEW u \in Thread, u # t, InCriticalSection(t)
  PROVE  ~InCriticalSection(u) /\ hpc[u] # "callback"
  BY DEF Sound, LockInv, InsideOwner, InCriticalSection

\* What a step in the setup has in common
LEMMA SetupMoves ==
  ASSUME Sound, NEW t \in Thread, NotStarted(t), OthersSame(t), hpc'[t] = "off",
         signalled'[t] = signalled[t], channel' = channel, mapped' = dma_memories',
         Alone(t)' /\ NotStarted(t)' => Stage', Story(t)',
         InCriticalSection(t) \/ current_transfer'.job = current_transfer.job
  PROVE  Engine'
  <1>1. Alone(t)'
    BY AloneKept DEF NotStarted
  <1>2. NotStarted(t)'
    BY <1>1 DEF NotStarted
  <1>3. \A u \in Thread \ {t} :
          hpc[u] = "callback" => current_transfer'.job = current_transfer.job
    BY OnlyInside
  <1>4. QED
    BY <1>1, <1>2, <1>3, MovedOn DEF Sound

LEMMA CheckIdleMoves == ASSUME Sound, NEW t \in Thread, CheckIdle(t) PROVE Engine'
  <1>1. /\ pc[t] = "check" /\ is_busy = FALSE /\ hpc[t] = "off" /\ pc'[t] = "alloc_tx"
        /\ UNCHANGED <<sharedVars, lockVars, deviceVars, statusVars, localVars, handlerVars,
                       resultVars>>
        /\ OthersSame(t)
    BY DEF CheckIdle, Goto, Sound, TypeInv, TypeOK, OthersSame, SameLocals, deviceVars,
           statusVars, localVars, handlerVars, resultVars
  <1>2. Story(t) /\ mapped = dma_memories
    BY DEF Sound, Engine
  <1>3. Idle
    <2>1. ASSUME NEW u \in Thread, Busy(u) PROVE FALSE
      <3>1. SettingUp(u)
        BY <1>1, <2>1 DEF Busy, Published, Queued, Signalled, Handling, Started
      <3>2. u # t /\ InCriticalSection(u)
        BY <1>1, <3>1 DEF SettingUp, InCriticalSection, SetupPCs, CatchPCs
      <3>3. InCriticalSection(t)
        BY <1>1 DEF InCriticalSection, SetupPCs
      <3>4. QED
        BY <3>2, <3>3, OnlyInside
    <2>2. QED
      BY <2>1 DEF Sound, Engine, Stage
  <1>4. NotStarted(t)
    BY <1>1, <1>3 DEF Idle, NotStarted, Alone, Bystander
  <1>5. Story(t)'
    BY <1>1, <1>2
    DEF Story, BuffersUnset, ExceptionKnown, StatusKnown, OutputKnown, HandlerKnown,
        ResultKnown, CatchPCs, WaitPCs, After, Ended, deviceVars, statusVars, localVars,
        handlerVars, resultVars, sharedVars
  <1>6. NotStarted(t)' => Stage'
    BY <1>1, <1>3 DEF Idle, Stage, Busy, SettingUp, sharedVars, deviceVars
  <1>7. QED
    BY <1>1, <1>2, <1>4, <1>5, <1>6, SetupMoves DEF sharedVars, deviceVars, handlerVars

LEMMA AllocTxMoves == ASSUME Sound, NEW t \in Thread, AllocTx(t) PROVE Engine'
  <1> USE ConstantsAssumption
  <1>1. /\ pc[t] = "alloc_tx" /\ hpc[t] = "off" /\ pc'[t] = "alloc_rx"
        /\ UNCHANGED <<is_busy, config_reg, mem, channel, signalled, statusVars, rx,
                       exception, handlerVars, resultVars>>
        /\ OthersSame(t)
    BY DEF AllocTx, Goto, Sound, TypeInv, TypeOK, OthersSame, SameLocals, statusVars,
           handlerVars, resultVars
  <1>2. PICK b \in Buffer \ mapped :
          /\ tx'[t] = b
          /\ mapped' = mapped \cup {b}
          /\ dma_memories' = dma_memories \cup {b}
          /\ current_transfer'.tx = b /\ current_transfer'.job = current_transfer.job
    BY DEF AllocTx, Sound, TypeInv, TypeOK, Transfer
  <1>3. Story(t) /\ mapped = dma_memories /\ SettingUp(t)
    BY <1>1, ProgramStage DEF Sound, Engine
  <1>4. Story(t)'
    BY <1>1, <1>3
    DEF Story, BuffersUnset, ExceptionKnown, StatusKnown, OutputKnown, HandlerKnown,
        ResultKnown, CatchPCs, WaitPCs, After, Ended, statusVars, handlerVars, resultVars
  <1>5. NotStarted(t)' => Stage'
    BY <1>1, <1>2, <1>3 DEF Stage, Busy, SettingUp
  <1>6. QED
    BY <1>1, <1>2, <1>3, <1>4, <1>5, SetupMoves DEF handlerVars, SettingUp

LEMMA AllocRxMoves == ASSUME Sound, NEW t \in Thread, AllocRx(t) PROVE Engine'
  <1> USE ConstantsAssumption
  <1>1. /\ pc[t] = "alloc_rx" /\ hpc[t] = "off" /\ pc'[t] = "read"
        /\ UNCHANGED <<is_busy, config_reg, mem, channel, signalled, statusVars, tx,
                       exception, handlerVars, resultVars>>
        /\ OthersSame(t)
    BY DEF AllocRx, Goto, Sound, TypeInv, TypeOK, OthersSame, SameLocals, statusVars,
           handlerVars, resultVars
  <1>2. PICK b \in Buffer \ mapped :
          /\ rx'[t] = b
          /\ mapped' = mapped \cup {b}
          /\ dma_memories' = dma_memories \cup {b}
          /\ current_transfer'.rx = b /\ current_transfer'.tx = current_transfer.tx
          /\ current_transfer'.job = current_transfer.job
    BY DEF AllocRx, Sound, TypeInv, TypeOK, Transfer
  <1>3. Story(t) /\ mapped = dma_memories /\ SettingUp(t)
    BY <1>1, ProgramStage DEF Sound, Engine
  <1>4. Story(t)'
    BY <1>1, <1>3
    DEF Story, BuffersUnset, ExceptionKnown, StatusKnown, OutputKnown, HandlerKnown,
        ResultKnown, CatchPCs, WaitPCs, After, Ended, statusVars, handlerVars, resultVars
  <1>5. OwnBuffers(t)'
    BY <1>1, <1>2, <1>3 DEF SettingUp, OwnBuffers
  <1>6. NotStarted(t)' => Stage'
    BY <1>1, <1>3, <1>5 DEF Stage, Busy, SettingUp
  <1>7. QED
    BY <1>1, <1>2, <1>3, <1>4, <1>6, SetupMoves DEF handlerVars, SettingUp

LEMMA SetupFailsMoves ==
  ASSUME Sound, NEW t \in Thread, SetupFails(t) \/ OpenInputFails(t)
  PROVE  Engine'
  <1> USE ConstantsAssumption
  <1>1. /\ pc[t] \in {"alloc_tx", "alloc_rx", "read"} /\ hpc[t] = "off"
        /\ pc'[t] = "catch_free" /\ exception'[t] = "setup"
        /\ UNCHANGED <<is_busy, dma_memories, current_transfer, deviceVars, statusVars, tx, rx,
                       handlerVars, resultVars>>
        /\ OthersSame(t)
    BY DEF SetupFails, OpenInputFails, Throw, Goto, Sound, TypeInv, TypeOK, OthersSame,
           SameLocals, sharedVars, deviceVars, statusVars, handlerVars, resultVars
  <1>2. Story(t) /\ mapped = dma_memories /\ SettingUp(t)
    BY <1>1, ProgramStage DEF Sound, Engine
  <1>3. Story(t)'
    BY <1>1, <1>2
    DEF Story, BuffersUnset, ExceptionKnown, StatusKnown, OutputKnown, HandlerKnown,
        ResultKnown, CatchPCs, WaitPCs, After, Ended, statusVars, handlerVars, resultVars
  <1>4. mapped = {tx[t], rx[t]} \ {NoBuffer}
    <2>1. NoBuffer \notin Buffer
      OBVIOUS
    <2>2. CASE pc[t] = "alloc_tx"
      BY <1>2, <2>2 DEF SettingUp, Story, BuffersUnset
    <2>3. CASE pc[t] = "alloc_rx"
      <3>1. rx[t] = NoBuffer /\ tx[t] \in Buffer /\ mapped = {tx[t]}
        BY <1>2, <2>3 DEF SettingUp, Story, BuffersUnset
      <3>2. QED
        BY <2>1, <3>1
    <2>4. CASE pc[t] = "read"
      <3>1. rx[t] \in Buffer /\ tx[t] \in Buffer /\ mapped = {tx[t], rx[t]}
        BY <1>2, <2>4 DEF SettingUp, OwnBuffers
      <3>2. QED
        BY <2>1, <3>1
    <2>5. QED
      BY <1>1, <2>2, <2>3, <2>4
  <1>5. is_busy = FALSE
    BY <1>2 DEF SettingUp
  <1>6. NotStarted(t)' => Stage'
    BY <1>1, <1>4, <1>5 DEF Stage, Busy, SettingUp, deviceVars
  <1>7. QED
    BY <1>1, <1>2, <1>3, <1>6, SetupMoves DEF handlerVars, deviceVars, SettingUp

LEMMA ReadInputMoves == ASSUME Sound, NEW t \in Thread, ReadInput(t) PROVE Engine'
  <1>1. /\ pc[t] = "read" /\ hpc[t] = "off" /\ pc'[t] = "publish"
        /\ UNCHANGED <<is_busy, dma_memories, current_transfer, mapped, channel, signalled,
                       statusVars, localVars, handlerVars, resultVars>>
        /\ mem' = [mem EXCEPT ![tx[t]] = t]
        /\ OthersSame(t)
    BY DEF ReadInput, Goto, Sound, TypeInv, TypeOK, OthersSame, SameLocals, statusVars,
           localVars, handlerVars, resultVars
  <1>2. Story(t) /\ mapped = dma_memories /\ SettingUp(t)
    BY <1>1, ProgramStage DEF Sound, Engine
  <1>3. Story(t)'
    BY <1>1, <1>2
    DEF Story, BuffersUnset, ExceptionKnown, StatusKnown, OutputKnown, HandlerKnown,
        ResultKnown, CatchPCs, WaitPCs, After, Ended, statusVars, localVars, handlerVars,
        resultVars
  <1>4. OwnBuffers(t) /\ is_busy = FALSE
    BY <1>1, <1>2 DEF SettingUp
  <1>5. OwnBuffers(t)' /\ mem'[tx'[t]] = t
    BY <1>1, <1>4 DEF OwnBuffers, localVars, Sound, TypeInv, TypeOK
  <1>6. NotStarted(t)' => Stage'
    BY <1>1, <1>4, <1>5 DEF Stage, Busy, SettingUp
  <1>7. QED
    BY <1>1, <1>2, <1>3, <1>6, SetupMoves DEF handlerVars, SettingUp

LEMMA PublishMoves == ASSUME Sound, NEW t \in Thread, Publish(t) PROVE Engine'
  <1>1. /\ pc[t] = "publish" /\ hpc[t] = "off" /\ pc'[t] = "stop"
        /\ UNCHANGED <<dma_memories, deviceVars, statusVars, localVars, handlerVars, resultVars>>
        /\ is_busy' = TRUE /\ config_reg' = FALSE
        /\ OthersSame(t)
    BY DEF Publish, Goto, Sound, TypeInv, TypeOK, OthersSame, SameLocals, deviceVars, statusVars,
           localVars, handlerVars, resultVars
  <1>2. /\ current_transfer'.job = t
        /\ current_transfer'.tx = current_transfer.tx
        /\ current_transfer'.rx = current_transfer.rx
    BY DEF Publish, Sound, TypeInv, TypeOK, Transfer
  <1>3. Story(t) /\ mapped = dma_memories /\ SettingUp(t)
    BY <1>1, ProgramStage DEF Sound, Engine
  <1>4. Story(t)'
    BY <1>1, <1>3
    DEF Story, BuffersUnset, ExceptionKnown, StatusKnown, OutputKnown, HandlerKnown,
        ResultKnown, CatchPCs, WaitPCs, After, Ended, statusVars, localVars, handlerVars,
        resultVars
  <1>5. OwnBuffers(t)' /\ mem'[tx'[t]] = t
    BY <1>1, <1>2, <1>3 DEF SettingUp, OwnBuffers, localVars, deviceVars
  <1>6. NotStarted(t)' => Stage'
    BY <1>1, <1>2, <1>5 DEF Stage, Busy, Published
  <1>7. InCriticalSection(t)
    BY <1>1 DEF InCriticalSection, SetupPCs
  <1>8. QED
    BY <1>1, <1>3, <1>4, <1>6, <1>7, SetupMoves DEF handlerVars, deviceVars, SettingUp

LEMMA PublishedMoves ==
  ASSUME Sound, NEW t \in Thread, StopChannels(t) \/ StartFails(t)
  PROVE  Engine'
  <1>1. /\ \/ /\ pc[t] = "stop" /\ pc'[t] = "start" /\ exception'[t] = exception[t]
              /\ channel' = <<>>
           \/ /\ pc[t] = "start" /\ pc'[t] = "catch_free" /\ exception'[t] = "start"
              /\ channel' = channel
        /\ hpc[t] = "off"
        /\ UNCHANGED <<sharedVars, mapped, mem, signalled, statusVars, tx, rx, handlerVars,
                       resultVars>>
        /\ OthersSame(t)
    BY DEF StopChannels, StartFails, Throw, Goto, Sound, TypeInv, TypeOK, OthersSame, SameLocals,
           sharedVars, deviceVars, statusVars, localVars, handlerVars, resultVars
  <1>2. Story(t) /\ mapped = dma_memories /\ Published(t)
    BY <1>1, ProgramStage DEF Sound, Engine
  <1>3. Story(t)'
    BY <1>1, <1>2
    DEF Story, BuffersUnset, ExceptionKnown, StatusKnown, OutputKnown, HandlerKnown,
        ResultKnown, CatchPCs, WaitPCs, After, Ended, sharedVars, statusVars, handlerVars,
        resultVars
  <1>4. NotStarted(t) /\ OwnBuffers(t) /\ mem[tx[t]] = t
    BY <1>1, <1>2 DEF Published
  <1>5. OwnBuffers(t)' /\ mem'[tx'[t]] = t
    BY <1>1, <1>4 DEF OwnBuffers, sharedVars
  <1>6. NotStarted(t)' => Stage'
    BY <1>1, <1>2, <1>5 DEF Stage, Busy, Published, sharedVars
  <1>7. QED
    BY <1>1, <1>2, <1>3, <1>4, <1>6, SetupMoves DEF handlerVars, sharedVars, NotStarted

LEMMA CatchFreeMoves == ASSUME Sound, NEW t \in Thread, CatchFree(t) PROVE Engine'
  <1>1. /\ pc[t] = "catch_free" /\ pc'[t] = "catch_clear" /\ hpc[t] = "off"
        /\ mapped' = mapped \ {tx[t], rx[t]} /\ dma_memories' = dma_memories \ {tx[t], rx[t]}
        /\ UNCHANGED <<is_busy, current_transfer, config_reg, channel, signalled, statusVars,
                       localVars, handlerVars, resultVars>>
        /\ OthersSame(t)
    BY DEF CatchFree, Free, Goto, Sound, TypeInv, TypeOK, OthersSame, SameLocals,
           statusVars, localVars, handlerVars, resultVars
  <1>2. /\ Story(t) /\ mapped = dma_memories
        /\ \/ exception[t] = "setup" /\ SettingUp(t)
           \/ exception[t] = "start" /\ Published(t)
    BY <1>1, ProgramStage DEF Sound, Engine
  <1>3. Story(t)'
    BY <1>1, <1>2
    DEF Story, BuffersUnset, ExceptionKnown, StatusKnown, OutputKnown, HandlerKnown,
        ResultKnown, CatchPCs, WaitPCs, After, Ended, statusVars, localVars, handlerVars,
        resultVars
  <1>4. mapped' = {} /\ NotStarted(t)
    BY <1>1, <1>2 DEF SettingUp, Published, OwnBuffers
  <1>5. ASSUME NotStarted(t)' PROVE Stage'
    <2>1. CASE exception[t] = "setup" /\ SettingUp(t)
      <3>1. SettingUp(t)'
        BY <1>1, <1>4, <1>5, <2>1 DEF SettingUp, localVars
      <3>2. QED
        BY <3>1 DEF Stage, Busy
    <2>2. CASE exception[t] = "start" /\ Published(t)
      <3>1. Published(t)'
        BY <1>1, <1>4, <1>5, <2>2 DEF Published, localVars
      <3>2. QED
        BY <3>1 DEF Stage, Busy
    <2>3. QED
      BY <1>2, <2>1, <2>2
  <1>6. QED
    BY <1>1, <1>2, <1>3, <1>4, <1>5, SetupMoves DEF handlerVars

LEMMA CatchClearMoves == ASSUME Sound, NEW t \in Thread, CatchClear(t) PROVE Engine'
  <1>1. /\ pc[t] = "catch_clear" /\ pc'[t] = "catch_unlock" /\ hpc[t] = "off"
        /\ is_busy' = FALSE
        /\ UNCHANGED <<dma_memories, current_transfer, config_reg, deviceVars, statusVars,
                       localVars, handlerVars, resultVars>>
        /\ OthersSame(t)
    BY DEF CatchClear, Goto, Sound, TypeInv, TypeOK, OthersSame, SameLocals,
           deviceVars, statusVars, localVars, handlerVars, resultVars
  <1>2. /\ Story(t) /\ mapped = dma_memories
        /\ \/ exception[t] = "setup" /\ SettingUp(t)
           \/ exception[t] = "start" /\ Published(t)
    BY <1>1, ProgramStage DEF Sound, Engine
  <1>3. Story(t)'
    BY <1>1, <1>2
    DEF Story, BuffersUnset, ExceptionKnown, StatusKnown, OutputKnown, HandlerKnown,
        ResultKnown, CatchPCs, WaitPCs, After, Ended, statusVars, localVars, handlerVars,
        resultVars
  <1>4. mapped = {} /\ NotStarted(t)
    BY <1>1, <1>2 DEF SettingUp, Published
  <1>5. Stage'
    <2>1. Alone(t)'
      BY <1>1, <1>4, AloneKept DEF NotStarted
    <2>2. Bystander(t)'
      BY <1>1, <1>4 DEF Bystander, NotStarted, handlerVars, deviceVars
    <2>3. Idle'
      BY <1>1, <1>4, <2>1, <2>2 DEF Idle, Alone, NotStarted, deviceVars
    <2>4. QED
      BY <2>3 DEF Stage
  <1>6. QED
    BY <1>1, <1>2, <1>3, <1>4, <1>5, SetupMoves DEF handlerVars, deviceVars

\* The transfer that is queued is the current one.
LEMMA StartTransferMoves == ASSUME Sound, NEW t \in Thread, StartTransfer(t) PROVE Engine'
  <1>1. /\ pc[t] = "start" /\ pc'[t] = "unlock" /\ hpc[t] = "off"
        /\ channel' = Append(channel, [tx |-> tx[t], rx |-> rx[t], job |-> t])
        /\ UNCHANGED <<sharedVars, mapped, mem, signalled, statusVars,
                       localVars, handlerVars, resultVars>>
        /\ OthersSame(t)
    BY DEF StartTransfer, Goto, Sound, TypeInv, TypeOK, OthersSame, SameLocals,
           sharedVars, statusVars, localVars, handlerVars, resultVars
  <1>2. Story(t) /\ mapped = dma_memories /\ Published(t)
    BY <1>1, ProgramStage DEF Sound, Engine
  <1>3. Story(t)'
    BY <1>1, <1>2
    DEF Story, BuffersUnset, ExceptionKnown, StatusKnown, OutputKnown, HandlerKnown,
        ResultKnown, CatchPCs, WaitPCs, After, Ended, sharedVars, statusVars, localVars,
        handlerVars, resultVars
  <1>4. NotStarted(t) /\ OwnBuffers(t) /\ mem[tx[t]] = t /\ current_transfer.job = t
    BY <1>1, <1>2 DEF Published
  <1>5. current_transfer = [tx |-> tx[t], rx |-> rx[t], job |-> t]
    BY <1>4 DEF OwnBuffers, Sound, TypeInv, TypeOK, Transfer
  <1>6. channel' = <<current_transfer>>
    BY <1>1, <1>4, <1>5 DEF NotStarted
  <1>7. Alone(t)'
    BY <1>1, <1>4, AloneKept DEF NotStarted
  <1>8. Started(t)'
    <2>1. exception[t] = "none" /\ operation_status[t] = "BUSY"
      BY <1>1, <1>2 DEF Story, ExceptionKnown, StatusKnown, CatchPCs, Ended, After, WaitPCs
    <2>2. QED
      BY <1>1, <1>2, <1>4, <1>7, <2>1
      DEF Started, Published, OwnBuffers, After, sharedVars, statusVars, localVars
  <1>9. Queued(t)'
    BY <1>1, <1>4, <1>6, <1>8
    DEF Queued, NotStarted, OwnBuffers, sharedVars, handlerVars
  <1>10. Stage'
    BY <1>9 DEF Stage, Busy
  <1>11. QED
    BY <1>1, <1>2, <1>3, <1>10, MovedOn DEF Sound, sharedVars

--------------------------------------------------------------------------------
(* the device and the handler                                                  *)

\* What the device completes is the transfer of t, and t is told.
LEMMA CompleteMoves == ASSUME Sound, Complete PROVE Engine'
  <1>1. /\ channel # <<>>
        /\ mem' = [mem EXCEPT ![Head(channel).rx] = mem[Head(channel).tx]]
        /\ signalled' = [signalled EXCEPT ![channel[Len(channel)].job] = @ + 1]
        /\ channel' = Tail(channel)
        /\ UNCHANGED <<sharedVars, mapped, statusVars, localVars, handlerVars, resultVars, pc>>
    BY DEF Complete
  <1>2. PICK t \in Thread : Queued(t)
    BY <1>1 DEF Sound, Engine, Stage, Idle, Busy, SettingUp, Published, NotStarted, Signalled,
                Handling
  <1>3. /\ channel = <<current_transfer>>
        /\ Head(channel) = current_transfer /\ channel[Len(channel)] = current_transfer
        /\ Tail(channel) = <<>>
    BY <1>2 DEF Queued
  <1>4. /\ current_transfer.job = t
        /\ current_transfer.tx \in Buffer /\ current_transfer.rx \in Buffer
        /\ mem[current_transfer.tx] = t /\ signalled[t] = 0
    BY <1>2 DEF Queued, Started
  <1>5. /\ channel' = <<>> /\ signalled' = [signalled EXCEPT ![t] = @ + 1]
        /\ mem' = [mem EXCEPT ![current_transfer.rx] = t]
    BY <1>1, <1>3, <1>4
  <1>6. signalled'[t] = 1 /\ mem'[current_transfer.rx] = t
    BY <1>4, <1>5 DEF Sound, TypeInv, TypeOK, SignalCounts
  <1>7. OthersSame(t)
    BY <1>1, <1>5 DEF OthersSame, SameLocals, Sound, TypeInv, TypeOK, SignalCounts, statusVars,
                      localVars, handlerVars, resultVars
  <1>8. Alone(t)'
    BY <1>2, <1>7, AloneKept DEF Queued, Started
  <1>9. Started(t)'
    BY <1>1, <1>2, <1>8 DEF Queued, Started, sharedVars, statusVars, localVars
  <1>10. Stage'
    BY <1>1, <1>2, <1>5, <1>6, <1>9 DEF Queued, Signalled, Stage, Busy, sharedVars, handlerVars
  <1>11. Story(t)'
    BY <1>1
    DEF Sound, Engine, Story, BuffersUnset, ExceptionKnown, StatusKnown, OutputKnown,
        HandlerKnown, ResultKnown, sharedVars, statusVars, localVars, handlerVars, resultVars,
            Written, WriteFailed
  <1>12. QED
    BY <1>1, <1>7, <1>10, <1>11, MovedOn DEF Sound, Engine, sharedVars

LEMMA InterruptMoves == ASSUME Sound, NEW t \in Thread, Interrupt(t) PROVE Engine'
  <1> DEFINE Find(b) == IF b \in dma_memories THEN b ELSE NoBuffer
  <1>1. /\ signalled[t] > 0 /\ hpc'[t] = "output" /\ signalled'[t] = signalled[t] - 1
        /\ htx'[t] = Find(current_transfer.tx) /\ hrx'[t] = Find(current_transfer.rx)
        /\ UNCHANGED <<sharedVars, mapped, mem, channel, statusVars, localVars, resultVars, pc>>
        /\ OthersSame(t)
    BY DEF Interrupt, HandlerGoto, Sound, TypeInv, TypeOK, SignalCounts, OthersSame, SameLocals,
           sharedVars, statusVars, localVars, resultVars
  <1>2. Story(t) /\ mapped = dma_memories
    BY DEF Sound, Engine
  <1>3. Signalled(t)
    <2>1. ~Bystander(t)
      BY <1>1 DEF Bystander
    <2>2. Busy(t)
      BY <2>1, StageIs DEF Sound, Engine
    <2>3. QED
      BY <1>1, <2>2 DEF Busy, SettingUp, Published, NotStarted, Queued, Handling
  <1>4. signalled'[t] = 0
    BY <1>1, <1>3 DEF Signalled
  <1>5. htx'[t] = current_transfer.tx /\ hrx'[t] = current_transfer.rx
    BY <1>1, <1>2, <1>3 DEF Signalled, Started
  <1>6. Alone(t)'
    BY <1>1, <1>3, AloneKept DEF Signalled, Started
  <1>7. Started(t)'
    BY <1>1, <1>3, <1>6 DEF Signalled, Started, sharedVars, statusVars, localVars
  <1>8. Stage'
    BY <1>1, <1>3, <1>4, <1>5, <1>7 DEF Signalled, Handling, Stage, Busy, sharedVars
  <1>9. Story(t)'
    BY <1>1, <1>2, <1>3
    DEF Story, BuffersUnset, ExceptionKnown, StatusKnown, OutputKnown, HandlerKnown,
        ResultKnown, Signalled, Started, sharedVars, statusVars, localVars, resultVars
  <1>10. QED
    BY <1>1, <1>2, <1>8, <1>9, MovedOn DEF Sound, sharedVars

\* A handler that has the output or the lock before it is in the stage of its thread.
LEMMA HandlerStage ==
  ASSUME Sound, NEW t \in Thread, hpc[t] \in {"output", "lock", "free"}
  PROVE  Handling(t)
  <1>1. ~Bystander(t)
    BY DEF Bystander
  <1>2. Busy(t)
    BY <1>1, StageIs DEF Sound, Engine
  <1>3. QED
    BY <1>2 DEF Busy, SettingUp, Published, NotStarted, Queued, Signalled

LEMMA HandlerOutputMoves == ASSUME Sound, NEW t \in Thread, HandlerOutput(t) PROVE Engine'
  <1> USE ConstantsAssumption
  <1>1. /\ hpc[t] = "output" /\ hpc'[t] = "lock"
        /\ UNCHANGED <<sharedVars, deviceVars, statusVars, localVars, htx, hrx, op, result, pc>>
    BY DEF HandlerOutput, HandlerGoto, Sound, TypeInv, TypeOK, statusVars
  <1>2. Story(t) /\ Handling(t) /\ mapped = dma_memories
    BY <1>1, HandlerStage DEF Sound, Engine
  <1>3. current_transfer.job = t /\ hrx[t] \in Buffer /\ mem[hrx[t]] = t
    BY <1>1, <1>2 DEF Handling, Started
  <1>4. \/ out' = [out EXCEPT ![t] = t]
        \/ op[t] = "FILE" /\ out' = [out EXCEPT ![t] = Partial]
    <2>1. NoThread # t /\ NoBuffer # hrx[t]
      BY <1>3
    <2>2. QED
      BY <1>3, <2>1 DEF HandlerOutput
  <1>5. Written(t)'
    BY <1>1, <1>4 DEF Sound, TypeInv, TypeOK, Written, WriteFailed
  <1>6. OthersSame(t)
    BY <1>1, <1>4
    DEF HandlerOutput, HandlerGoto, Sound, TypeInv, TypeOK, OthersSame, SameLocals, deviceVars,
        statusVars, localVars
  <1>7. Alone(t)'
    BY <1>2, <1>6, AloneKept DEF Handling, Started
  <1>8. Started(t)'
    BY <1>1, <1>2, <1>7 DEF Handling, Started, sharedVars, deviceVars, statusVars, localVars
  <1>9. Stage'
    BY <1>1, <1>2, <1>5, <1>8 DEF Handling, Stage, Busy, sharedVars, deviceVars
  <1>10. Story(t)'
    BY <1>1, <1>2, <1>5
    DEF Story, BuffersUnset, ExceptionKnown, StatusKnown, OutputKnown, HandlerKnown, ResultKnown,
        Handling, Started, After, Ended, WaitPCs, statusVars, localVars, Written, WriteFailed
  <1>11. QED
    BY <1>1, <1>2, <1>6, <1>9, <1>10, MovedOn DEF Sound, sharedVars, deviceVars

LEMMA HandlerLockMoves == ASSUME Sound, NEW t \in Thread, HandlerLock(t) PROVE Engine'
  <1>1. /\ hpc[t] = "lock" /\ hpc'[t] = "free"
        /\ UNCHANGED <<sharedVars, deviceVars, statusVars, localVars, htx, hrx, resultVars, pc>>
        /\ OthersSame(t)
    BY DEF HandlerLock, HandlerGoto, Sound, TypeInv, TypeOK, OthersSame, SameLocals, deviceVars,
           statusVars, localVars, resultVars
  <1>2. Story(t) /\ Handling(t) /\ mapped = dma_memories
    BY <1>1, HandlerStage DEF Sound, Engine
  <1>3. Alone(t)'
    BY <1>1, <1>2, AloneKept DEF Handling, Started
  <1>4. Started(t)'
    BY <1>1, <1>2, <1>3 DEF Handling, Started, sharedVars, deviceVars, statusVars, localVars
  <1>5. Stage'
    BY <1>1, <1>2, <1>4 DEF Handling, Stage, Busy, sharedVars, deviceVars, resultVars,
        Written, WriteFailed
  <1>6. Story(t)'
    BY <1>1, <1>2
    DEF Story, BuffersUnset, ExceptionKnown, StatusKnown, OutputKnown, HandlerKnown, ResultKnown,
        statusVars, localVars, resultVars, Written, WriteFailed
  <1>7. QED
    BY <1>1, <1>2, <1>5, <1>6, MovedOn DEF Sound, sharedVars, deviceVars

LEMMA HandlerFreeMoves == ASSUME Sound, NEW t \in Thread, HandlerFree(t) PROVE Engine'
  <1>1. /\ hpc[t] = "free" /\ hpc'[t] = "callback" /\ is_busy' = FALSE
        /\ mapped' = mapped \ {htx[t], hrx[t]} /\ dma_memories' = dma_memories \ {htx[t], hrx[t]}
        /\ UNCHANGED <<current_transfer, config_reg, channel, signalled, statusVars, localVars,
                       htx, hrx, resultVars, pc>>
        /\ OthersSame(t)
    BY DEF HandlerFree, HandlerGoto, Free, Sound, TypeInv, TypeOK, OthersSame, SameLocals,
           statusVars, localVars, resultVars
  <1>2. Story(t) /\ Handling(t) /\ mapped = dma_memories
    BY <1>1, HandlerStage DEF Sound, Engine
  <1>3. mapped' = {} /\ channel = <<>> /\ signalled[t] = 0 /\ Written(t)
    BY <1>1, <1>2 DEF Handling, Started
  <1>4. Alone(t)'
    BY <1>1, <1>2, AloneKept DEF Handling, Started
  <1>5. Bystander(t)'
    BY <1>1, <1>2, <1>3 DEF Bystander, Handling, Started
  <1>6. Idle'
    BY <1>1, <1>3, <1>4, <1>5 DEF Idle, Alone
  <1>7. Story(t)'
    BY <1>1, <1>2, <1>3
    DEF Story, BuffersUnset, ExceptionKnown, StatusKnown, OutputKnown, HandlerKnown, ResultKnown,
        Handling, Started, statusVars, localVars, resultVars, Written, WriteFailed
  <1>8. QED
    BY <1>1, <1>2, <1>6, <1>7, MovedOn DEF Sound, Stage

\* The callback is that of the thread the handler runs on.
LEMMA HandlerCallbackBeside ==
  ASSUME Sound, NEW t \in Thread, HandlerCallback(t)
  PROVE  Engine'
  <1> USE ConstantsAssumption
  <1>1. /\ hpc[t] = "callback" /\ hpc'[t] = "unlock"
        /\ UNCHANGED <<sharedVars, deviceVars, localVars, htx, hrx, resultVars, pc>>
    BY DEF HandlerCallback, HandlerGoto, Sound, TypeInv, TypeOK, resultVars
  <1>2. Story(t)
    BY DEF Sound, Engine
  <1>3. current_transfer.job = t /\ t # NoThread /\ pc[t] \in After
    BY <1>1, <1>2 DEF Story, HandlerKnown
  <1>4. operation_status' = [operation_status EXCEPT ![t] = "SUCCESS"]
    BY <1>3 DEF HandlerCallback, dma_complete_callback
  <1>5. SharedSame /\ dma_memories' = dma_memories
    BY <1>1 DEF SharedSame, sharedVars, deviceVars
  <1>6. OthersSame(t)
    BY <1>1, <1>4
       DEF HandlerCallback, HandlerGoto, Sound, TypeInv, TypeOK, OthersSame, SameLocals,
                      deviceVars, localVars, resultVars
  <1>7. Bystander(t) => Bystander(t)'
    BY <1>1 DEF Bystander, deviceVars
  <1>8. ~Busy(t)
    BY <1>1 DEF Busy, SettingUp, Published, NotStarted, Queued, Signalled, Handling
  <1>9. Story(t)'
    <2>1. operation_status'[t] = "SUCCESS"
      BY <1>4 DEF Sound, TypeInv, TypeOK
    <2>2. QED
      BY <1>1, <1>2, <1>3, <2>1
      DEF Story, BuffersUnset, ExceptionKnown, StatusKnown, OutputKnown, HandlerKnown,
          ResultKnown, After, Ended, WaitPCs, CatchPCs, localVars, resultVars,
              Written, WriteFailed
  <1>10. QED
    BY <1>5, <1>6, <1>7, <1>8, <1>9, BesideKept DEF Sound

LEMMA HandlerUnlockBeside ==
  ASSUME Sound, NEW t \in Thread, HandlerUnlock(t)
  PROVE  Engine'
  <1>1. /\ hpc[t] = "unlock" /\ hpc'[t] = "off"
        /\ UNCHANGED <<sharedVars, deviceVars, statusVars, localVars, resultVars, pc>>
        /\ OthersSame(t)
    BY DEF HandlerUnlock, HandlerGoto, Sound, TypeInv, TypeOK, OthersSame, SameLocals, deviceVars,
           statusVars, localVars, resultVars
  <1>2. SharedSame /\ dma_memories' = dma_memories
    BY <1>1 DEF SharedSame, sharedVars, deviceVars
  <1>3. Bystander(t) => Bystander(t)'
    BY <1>1 DEF Bystander, deviceVars
  <1>4. ~Busy(t)
    BY <1>1 DEF Busy, SettingUp, Published, NotStarted, Queued, Signalled, Handling
  <1>5. Story(t)'
    BY <1>1
    DEF  Sound, Engine, Story, BuffersUnset, ExceptionKnown, StatusKnown, OutputKnown,
       HandlerKnown,
        ResultKnown, statusVars, localVars, resultVars, Written, WriteFailed
  <1>6. QED
    BY <1>1, <1>2, <1>3, <1>4, <1>5, BesideKept DEF Sound

--------------------------------------------------------------------------------
(* the invariant                                                               *)

\* Defects of the locking protocol are not forgotten.
LEMMA CleanBefore == [Next]_vars /\ Clean' => Clean
  <1> SUFFICES ASSUME [Next]_vars, Clean' PROVE Clean
    OBVIOUS
  <1> USE DEF Clean, Goto, Throw, HandlerGoto, LockState, UnlockState, lockVars
  <1>1. ASSUME NEW t \in Thread, Start(t) \/ Collect(t) \/ SpuriousWake(t) PROVE Clean
    BY <1>1 DEF Start, Collect, SpuriousWake, Return
  <1>2. ASSUME NEW t \in Thread, Program(t) PROVE Clean
    BY <1>2
    DEF Program, Lock, RejectBusy, CheckIdle, AllocTx, AllocRx, SetupFails, ReadInput,
        OpenInputFails, Publish, StopChannels, StartTransfer, StartFails, SecondUnlock,
        CatchFree, CatchClear, CatchUnlock, WaitLock, CondWait, Wake, Return, WaitDone,
        Report, Close
  <1>3. ASSUME NEW t \in Thread, Handler(t) PROVE Clean
    BY <1>3
    DEF Handler, Interrupt, HandlerOutput, HandlerLock, HandlerFree, HandlerCallback,
        HandlerUnlock
  <1>4. CASE Complete
    BY <1>4 DEF Complete
  <1>5. CASE UNCHANGED vars
    BY <1>5 DEF vars
  <1>6. QED
    BY <1>1, <1>2, <1>3, <1>4, <1>5 DEF Next

\* Every step keeps the engine as it should be, or breaks the locking protocol.
LEMMA NextEngine == TypeInv /\ LockInv /\ EngineInv /\ [Next]_vars => EngineInv'
  <1> SUFFICES ASSUME TypeInv, LockInv, EngineInv, [Next]_vars, Clean'
               PROVE  Engine'
    BY DEF EngineInv
  <1>1. Sound
    BY CleanBefore DEF Sound, EngineInv
  <1>2. ASSUME NEW t \in Thread, Program(t) PROVE Engine'
    <2>1. CASE \/ Lock(t) \/ SecondUnlock(t) \/ CatchUnlock(t) \/ WaitLock(t) \/ CondWait(t)
               \/ Wake(t) \/ WaitDone(t) \/ Report(t) \/ Close(t)
      BY <1>1, <2>1, ProgramBeside DEF Wake
    <2>2. ~RejectBusy(t)
      BY DEF RejectBusy, Clean
    <2>3. CASE CheckIdle(t) \/ AllocTx(t) \/ AllocRx(t) \/ SetupFails(t) \/ OpenInputFails(t)
      BY <1>1, <2>3, CheckIdleMoves, AllocTxMoves, AllocRxMoves, SetupFailsMoves
    <2>4. CASE \/ ReadInput(t) \/ Publish(t) \/ StopChannels(t) \/ StartTransfer(t)
               \/ StartFails(t)
      BY <1>1, <2>4, ReadInputMoves, PublishMoves, PublishedMoves, StartTransferMoves
    <2>5. CASE CatchFree(t) \/ CatchClear(t)
      BY <1>1, <2>5, CatchFreeMoves, CatchClearMoves
    <2>6. QED
      BY <1>2, <2>1, <2>2, <2>3, <2>4, <2>5 DEF Program
  <1>3. ASSUME NEW t \in Thread, Handler(t) PROVE Engine'
    BY <1>1, <1>3, InterruptMoves, HandlerOutputMoves, HandlerLockMoves, HandlerFreeMoves,
       HandlerCallbackBeside, HandlerUnlockBeside
    DEF Handler
  <1>4. ASSUME NEW t \in Thread, Start(t) \/ SpuriousWake(t) \/ Collect(t) PROVE Engine'
    BY <1>1, <1>4, ProgramBeside, CollectBeside DEF SpuriousWake
  <1>5. CASE Complete
    BY <1>1, <1>5, CompleteMoves
  <1>6. CASE UNCHANGED vars
    <2>1. /\ mapped' = dma_memories' /\ Stage'
      <3>1. UNCHANGED <<is_busy, config_reg, current_transfer, dma_memories, mapped, mem, channel,
                        signalled, operation_status, pc, tx, rx, exception, hpc, htx, hrx, out, op>>
        BY <1>6
        DEF vars, sharedVars, lockVars, deviceVars, statusVars, localVars, handlerVars, resultVars
      <3>2. Idle => Idle'
        BY <3>1, Zenon DEF Idle, Bystander
      <3>3. ASSUME NEW t \in Thread, Busy(t) PROVE Busy(t)'
        BY <3>1, <3>3
        DEF Busy, SettingUp, Published, NotStarted, OwnBuffers, Queued, Signalled, Handling,
            Started, Alone, Bystander, Written, WriteFailed
      <3>4. QED
        BY <1>1, <3>1, <3>2, <3>3, Zenon DEF Sound, Engine, Stage
    <2>2. ASSUME NEW t \in Thread PROVE Story(t)'
      BY <1>1, <1>6
      DEF Sound, Engine, Story, BuffersUnset, ExceptionKnown, StatusKnown, OutputKnown,
          HandlerKnown, ResultKnown, vars, sharedVars, lockVars, deviceVars,
          statusVars, localVars, handlerVars, resultVars, Written, WriteFailed
    <2>3. QED
      BY <2>1, <2>2 DEF Engine
  <1>7. QED
    BY <1>2, <1>3, <1>4, <1>5, <1>6 DEF Next

\* While the locking protocol is intact, the engine is idle or serves one operation in one
\* of five stages, and every thread knows what has become of its own.
THEOREM EngineCorrect == Spec => [](TypeInv /\ LockInv /\ EngineInv)
  BY InitEngine, NextEngine, LockCorrect, PTL DEF Spec

--------------------------------------------------------------------------------
(* what follows for the properties                                             *)

LEMMA OngoingStage ==
  ASSUME Sound, NEW t \in Thread
  PROVE  Ongoing(t) <=> Published(t) \/ Queued(t) \/ Signalled(t) \/ Handling(t)
  <1>1. ASSUME Published(t) PROVE Ongoing(t)
    BY <1>1 DEF Published, Ongoing
  <1>2. ASSUME Queued(t) PROVE Ongoing(t)
    <2>1. 1 \in DOMAIN channel /\ channel[1].job = t
      BY <1>2 DEF Queued, Started
    <2>2. QED
      BY <2>1 DEF Ongoing
  <1>3. ASSUME Signalled(t) \/ Handling(t) PROVE Ongoing(t)
    BY <1>3 DEF Signalled, Handling, Ongoing
  <1>4. ASSUME Ongoing(t) PROVE Published(t) \/ Queued(t) \/ Signalled(t) \/ Handling(t)
    <2>1. CASE \E i \in DOMAIN channel : channel[i].job = t
      <3>1. PICK u \in Thread : Queued(u)
        BY <2>1 DEF Sound, Engine, Stage, Idle, Busy, SettingUp, Published, NotStarted,
                    Signalled, Handling
      <3>2. channel = <<current_transfer>> /\ current_transfer.job = u
        BY <3>1 DEF Queued, Started
      <3>3. \A i \in DOMAIN channel : channel[i].job = u
        BY <3>2
      <3>4. QED
        BY <2>1, <3>1, <3>3
    <2>2. CASE \/ pc[t] \in {"stop", "start"}
               \/ pc[t] \in {"catch_free", "catch_clear"} /\ exception[t] = "start"
      BY <2>2, ProgramStage
    <2>3. CASE signalled[t] > 0 \/ hpc[t] \in {"output", "lock", "free"}
      <3>1. ~Bystander(t)
        BY <2>3 DEF Bystander
      <3>2. Busy(t)
        BY <3>1, StageIs DEF Sound, Engine
      <3>3. QED
        BY <2>3, <3>2 DEF Busy, SettingUp, NotStarted
    <2>4. QED
      BY <1>4, <2>1, <2>2, <2>3 DEF Ongoing
  <1>5. QED
    BY <1>1, <1>2, <1>3, <1>4

\* The published details name the ongoing operation.
LEMMA OngoingJob ==
  ASSUME Sound, NEW t \in Thread, Ongoing(t)
  PROVE  is_busy = TRUE /\ config_reg = FALSE /\ current_transfer.job = t
  BY OngoingStage DEF Published, Queued, Signalled, Handling, Started

LEMMA BusySound == Sound => BusyIffOngoing
  <1> SUFFICES ASSUME Sound PROVE BusyIffOngoing
    OBVIOUS
  <1>1. \A t, u \in Thread : Ongoing(t) /\ Ongoing(u) => t = u
    BY OngoingJob
  <1>2. ASSUME is_busy PROVE \E t \in Thread : Ongoing(t)
    <2>1. PICK t \in Thread : Busy(t)
      BY <1>2 DEF Sound, Engine, Stage, Idle
    <2>2. ~SettingUp(t)
      BY <1>2 DEF SettingUp
    <2>3. QED
      BY <2>1, <2>2, OngoingStage DEF Busy
  <1>3. ASSUME NEW t \in Thread, Ongoing(t) PROVE is_busy
    BY <1>3, OngoingJob
  <1>4. QED
    BY <1>1, <1>2, <1>3 DEF BusyIffOngoing

\* Whoever holds buffers holds the mapped ones.
LEMMA HolderStage ==
  ASSUME Sound, NEW t \in Thread, HoldsBuffers(t)
  PROVE  BuffersOf(t) = mapped
  <1> USE ConstantsAssumption
  <1>1. CASE Ongoing(t) /\ pc[t] # "catch_clear"
    <2>1. mapped = {current_transfer.tx, current_transfer.rx}
      BY <1>1, OngoingStage
      DEF Published, Queued, Signalled, Handling, Started, OwnBuffers
    <2>2. QED
      BY <1>1, <2>1 DEF BuffersOf
  <1>2. CASE ~(Ongoing(t) /\ pc[t] # "catch_clear")
    <2>1. SettingUp(t) /\ pc[t] \in {"alloc_rx", "read", "publish", "catch_free"}
      BY <1>2, ProgramStage DEF HoldsBuffers, Published
    <2>2. ~Ongoing(t)
      BY <2>1, OngoingJob DEF SettingUp
    <2>3. Story(t) /\ NoBuffer \notin Buffer
      BY DEF Sound, Engine
    <2>4. mapped = {tx[t], rx[t]} \ {NoBuffer}
      <3>1. CASE pc[t] = "alloc_rx"
        BY <2>1, <2>3, <3>1 DEF SettingUp, Story, BuffersUnset
      <3>2. CASE pc[t] \in {"read", "publish"}
        BY <2>1, <2>3, <3>2 DEF SettingUp, OwnBuffers
      <3>3. CASE pc[t] = "catch_free"
        BY <2>1, <3>3 DEF SettingUp
      <3>4. QED
        BY <2>1, <3>1, <3>2, <3>3
    <2>5. QED
      BY <2>2, <2>4 DEF BuffersOf
  <1>3. QED
    BY <1>1, <1>2

LEMMA MemorySound == Sound => MemoryAccounted
  <1> SUFFICES ASSUME Sound PROVE MemoryAccounted
    OBVIOUS
  <1> DEFINE Holders == {u \in Thread : HoldsBuffers(u)}
  <1>1. \A u \in Holders : BuffersOf(u) = mapped
    BY HolderStage
  <1>2. mapped # {} => Holders # {}
    <2> SUFFICES ASSUME mapped # {} PROVE \E t \in Thread : HoldsBuffers(t)
      OBVIOUS
    <2>1. PICK t \in Thread : Busy(t)
      BY DEF Sound, Engine, Stage, Idle
    <2>2. CASE SettingUp(t)
      BY <2>2 DEF SettingUp, HoldsBuffers
    <2>3. CASE ~SettingUp(t)
      <3>1. Ongoing(t) /\ pc[t] # "catch_clear"
        BY <2>1, <2>3, OngoingStage
        DEF Busy, Published, Queued, Signalled, Handling, Started, OwnBuffers, After, WaitPCs
      <3>2. QED
        BY <3>1 DEF HoldsBuffers
    <2>4. QED
      BY <2>2, <2>3
  <1>3. mapped = UNION {BuffersOf(t) : t \in Holders}
    BY <1>1, <1>2
  <1>4. QED
    BY <1>3 DEF MemoryAccounted, Sound, Engine

LEMMA DeviceSound == Sound => DmaBuffersMapped /\ KeyStable
  <1> SUFFICES ASSUME Sound, channel # <<>>
               PROVE  /\ \A i \in DOMAIN channel :
                           /\ {channel[i].tx, channel[i].rx} \subseteq mapped
                           /\ channel[i].tx # channel[i].rx
                      /\ ~config_reg
    BY DEF DmaBuffersMapped, KeyStable
  <1>1. PICK t \in Thread : Queued(t)
    BY DEF Sound, Engine, Stage, Idle, Busy, SettingUp, Published, NotStarted, Signalled, Handling
  <1>2. \A i \in DOMAIN channel : channel[i] = current_transfer
    BY <1>1 DEF Queued
  <1>3. QED
    BY <1>1, <1>2 DEF Queued, Started

LEMMA ThreadsSound == Sound => OwnOutput /\ CallbackReachesOwner /\ ResultTruthful
  <1> SUFFICES ASSUME Sound, NEW t \in Thread
               PROVE  /\ out[t] \in {NoThread, t, Partial}
                      /\ hpc[t] = "callback" => /\ current_transfer.job = t
                                                /\ operation_status[t] = "BUSY"
                                                /\ pc[t] \in {"unlock"} \cup WaitPCs
                      /\ result[t] = "SUCCESS" => out[t] = t \/ WriteFailed(t)
                      /\ result[t] = "EXCEPTION" => out[t] = NoThread
                      /\ result[t] # "BUSY"
    BY DEF OwnOutput, CallbackReachesOwner, ResultTruthful
  <1>1. Story(t)
    BY DEF Sound, Engine
  <1>2. QED
    BY <1>1
    DEF Story, ExceptionKnown, StatusKnown, OutputKnown, HandlerKnown, ResultKnown, After, Ended,
        WaitPCs, CatchPCs, Written

\* When Clean does not hold, the properties promise nothing.
LEMMA SoundOrBroken ==
  TypeInv /\ LockInv /\ EngineInv =>
    /\ BusyIffOngoing /\ MemoryAccounted /\ DmaBuffersMapped /\ KeyStable
    /\ OwnOutput /\ CallbackReachesOwner /\ ResultTruthful
  <1> SUFFICES ASSUME TypeInv, LockInv, EngineInv
               PROVE  /\ BusyIffOngoing /\ MemoryAccounted /\ DmaBuffersMapped /\ KeyStable
                      /\ OwnOutput /\ CallbackReachesOwner /\ ResultTruthful
    OBVIOUS
  <1>1. CASE Clean
    <2>1. Sound
      BY <1>1 DEF Sound, EngineInv
    <2>2. QED
      BY <2>1, BusySound, MemorySound, DeviceSound, ThreadsSound
  <1>2. CASE ~Clean
    BY <1>2 DEF BusyIffOngoing, MemoryAccounted, DmaBuffersMapped, KeyStable, OwnOutput,
                CallbackReachesOwner, ResultTruthful
  <1>3. QED
    BY <1>1, <1>2

\* is_busy tells whether an operation is ongoing, and only one is.
THEOREM BusyCorrect == Spec => []BusyIffOngoing
  BY EngineCorrect, SoundOrBroken, PTL

\* No buffer leaks and none is freed twice: those mapped belong to the operation under way.
THEOREM MemoryCorrect == Spec => []MemoryAccounted
  BY EngineCorrect, SoundOrBroken, PTL

\* The device works on mapped buffers, from one to another.
THEOREM DeviceCorrect == Spec => []DmaBuffersMapped
  BY EngineCorrect, SoundOrBroken, PTL

\* A transfer is only on the device while key loading is off.
THEOREM KeyCorrect == Spec => []KeyStable
  BY EngineCorrect, SoundOrBroken, PTL

\* The callback reaches the thread whose transfer it is.
THEOREM CallbackCorrect == Spec => []CallbackReachesOwner
  BY EngineCorrect, SoundOrBroken, PTL

\* An output only ever has data of its own operation.
THEOREM OutputCorrect == Spec => []OwnOutput
  BY EngineCorrect, SoundOrBroken, PTL

\* SUCCESS comes with the thread's own output, whole but for a file write that failed
\* unnoticed; an exception with an untouched output; nobody collects BUSY.
THEOREM ResultCorrect == Spec => []ResultTruthful
  BY EngineCorrect, SoundOrBroken, PTL

\* A first rejection hits a thread only while another one has a transfer ongoing.
THEOREM RejectionCorrect == Spec => RejectionJustified
  <1>1. ASSUME TypeInv, LockInv, EngineInv, NEW t \in Thread, RejectBusy(t), Clean
        PROVE  \E u \in Thread \ {t} : Ongoing(u)
    <2>1. Sound
      BY <1>1 DEF Sound, EngineInv
    <2>2. PICK u \in Thread : Ongoing(u)
      BY <1>1, <2>1, BusySound DEF BusyIffOngoing, RejectBusy
    <2>3. ~Ongoing(t)
      <3>1. pc[t] = "check" /\ hpc[t] = "off"
        BY <1>1 DEF RejectBusy, Throw, Goto
      <3>2. ~Published(t) /\ ~Queued(t) /\ ~Signalled(t) /\ ~Handling(t)
        BY <3>1 DEF Published, Queued, Signalled, Handling, Started, After, WaitPCs
      <3>3. QED
        BY <2>1, <3>2, OngoingStage
    <2>4. QED
      BY <2>2, <2>3
  <1>2. TypeInv /\ LockInv /\ EngineInv =>
          [\A t \in Thread : RejectBusy(t) /\ Clean => \E u \in Thread \ {t} : Ongoing(u)]_vars
    BY <1>1
  <1>3. Spec => [][\A t \in Thread : RejectBusy(t) /\ Clean =>
                     \E u \in Thread \ {t} : Ongoing(u)]_vars
    BY <1>2, EngineCorrect, PTL
  <1>4. QED
    BY <1>3 DEF RejectionJustified
================================================================================
