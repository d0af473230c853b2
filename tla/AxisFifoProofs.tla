----------------------------- MODULE AxisFifoProofs ----------------------------
(***************************************************************************)
(* What holds of the FIFO driver for every set of processes, every core    *)
(* and every size of its FIFOs: who has the lock of ioctl, and that the    *)
(* registers are reached only while they are mapped.                       *)
(***************************************************************************)
EXTENDS AxisFifo, SequenceTheorems, TLAPS

IoctlPCs == {"ioctl", "ioctl_reset", "ioctl_isr"}
Active(p) == file[p] # Closed \/ pc[p] # "user"

\* The variables the two invariants are about
FileType == [mode : {"closed", "r", "w", "rw"}, nonblock : BOOLEAN]
Resource == {"region", "map", "irq", "chrdev", "device", "cdev", "sysfs"}
TypesInv ==
  /\ driver \in {"absent", "probing", "live", "unwinding"}
  /\ pc \in [Process -> PCs]
  /\ file \in [Process -> FileType]
  /\ held \in Seq(Resource)
  /\ asleep \subseteq {p \in Process : pc[p] \in WaitPCs}
  /\ ioctl_lock \in Process \cup {Nobody}

\* Probe acquires in its order and gives back in reverse: what is held is a
\* beginning of the list.
HeldInv ==
  /\ Len(held) \in 0 .. 7
  /\ \A i \in 1 .. Len(held) : held[i] = ProbeOrder[i]
  /\ irq # "none" => Len(held) >= 3
  /\ driver = "absent" => Len(held) = 0
  /\ driver = "probing" => failed_at = "none"
  /\ driver = "live" => Len(held) = 7 /\ failed_at = "none"
  /\ driver = "unwinding" /\ failed_at # "none" /\ Len(held) >= 6 => failed_at = "sysfs"

\* When a process can have the file open or be in a call
ActiveInv ==
  \A p \in Process : Active(p) =>
    /\ driver = "absent" => failed_at = "sysfs"
    /\ driver = "probing" => Len(held) >= 6
    /\ driver = "unwinding" /\ failed_at # "none" => failed_at = "sysfs"
    /\ driver = "unwinding" /\ failed_at = "none" => file[p] = Closed /\ Len(held) = 7

\* The lock excludes: a process inside ioctl has it, and has the file open.
InsideInv ==
  \A p \in Process : pc[p] \in IoctlPCs => ioctl_lock = p /\ file[p] # Closed

DriverInv == TypesInv /\ HeldInv /\ ActiveInv /\ InsideInv /\ LockHolder

\* What a process does outside ioctl: it goes from one place to another, with the
\* registers mapped, and from user space only when the driver is live.  It may fall
\* asleep in a wait.
Moves(p) ==
  /\ UNCHANGED <<lifeVars, irq, lockVars, file>>
  /\ asleep' \subseteq asleep \cup {p}
  /\ p \in asleep' => pc'[p] \in WaitPCs
  /\ pc' # pc =>
       /\ Mapped
       /\ driver = "live" \/ pc[p] # "user"
       /\ pc[p] \notin IoctlPCs
       /\ pc'[p] \in PCs \ IoctlPCs
       /\ pc' = [pc EXCEPT ![p] = pc'[p]]

\* The places of the list that matter.
LEMMA Order ==
  ASSUME NEW n \in 1 .. 7
  PROVE  /\ ProbeOrder[n] \in Resource
         /\ ProbeOrder[n] # "none"
         /\ ProbeOrder[n] = "irq" <=> n = 3
         /\ ProbeOrder[n] = "sysfs" <=> n = 7
  BY DEF ProbeOrder, Resource

\* The resource of a place in the list is held when the list is held up to there.
LEMMA HeldUpTo ==
  ASSUME TypesInv, HeldInv
  PROVE  /\ Len(held) \in 0 .. 7
         /\ Mapped <=> Len(held) >= 2
         /\ Has("irq") <=> Len(held) >= 3
         /\ Has("cdev") <=> Len(held) >= 6
         /\ Has("sysfs") <=> Len(held) >= 7
         /\ held = ProbeOrder <=> Len(held) = 7
  <1> USE DEF TypesInv, HeldInv, ProbeOrder
  <1>1. Len(held) \in Nat /\ DOMAIN held = 1 .. Len(held)
    OBVIOUS
  <1>2. ASSUME NEW r PROVE Has(r) <=> \E i \in 1 .. Len(held) : ProbeOrder[i] = r
    BY <1>1 DEF Has, Range
  <1>3. Mapped <=> Len(held) >= 2
    BY <1>1, <1>2 DEF Mapped
  <1>4. Has("irq") <=> Len(held) >= 3
    BY <1>1, <1>2
  <1>5. Has("cdev") <=> Len(held) >= 6
    BY <1>1, <1>2
  <1>6. Has("sysfs") <=> Len(held) >= 7
    BY <1>1, <1>2
  <1>7. held = ProbeOrder <=> Len(held) = 7
    BY <1>1
  <1>8. Len(held) \in 0 .. 7
    OBVIOUS
  <1> HIDE DEF TypesInv, HeldInv, ProbeOrder
  <1>9. QED
    BY <1>3, <1>4, <1>5, <1>6, <1>7, <1>8

\* A sequence without its last element.
LEMMA FrontOf ==
  ASSUME NEW S, NEW s \in Seq(S), s # <<>>
  PROVE  /\ Len(s) \in Nat \ {0}
         /\ Front(s) \in Seq(S)
         /\ Len(Front(s)) = Len(s) - 1
         /\ \A i \in 1 .. Len(s) - 1 : Front(s)[i] = s[i]
  <1>1. Len(s) \in Nat \ {0} /\ \A i \in 1 .. Len(s) : s[i] \in S
    OBVIOUS
  <1> DEFINE n == Len(s) - 1
  <1>2. n \in Nat /\ \A i \in 1 .. n : s[i] \in S
    BY <1>1
  <1>3. /\ SubSeq(s, 1, n) \in Seq(S)
        /\ Len(SubSeq(s, 1, n)) = IF 1 <= n THEN n - 1 + 1 ELSE 0
        /\ \A i \in 1 .. n - 1 + 1 : SubSeq(s, 1, n)[i] = s[1 + i - 1]
    BY <1>2, SubSeqProperties
  <1>4. Front(s) = SubSeq(s, 1, n)
    BY DEF Front
  <1> HIDE DEF n
  <1>5. /\ Len(SubSeq(s, 1, n)) = n
        /\ \A i \in 1 .. n : SubSeq(s, 1, n)[i] = s[i]
    BY <1>2, <1>3
  <1>6. QED
    BY <1>1, <1>3, <1>4, <1>5 DEF n

\* The initial state has nothing held and nobody active.
LEMMA InitDriverInv == AxisInit => DriverInv
  <1> SUFFICES ASSUME AxisInit PROVE DriverInv
    OBVIOUS
  <1> USE ConstantsAssumption DEF AxisInit
  <1>1. TypesInv
    BY DEF TypesInv, FileType, Closed, PCs
  <1>2. HeldInv
    BY DEF HeldInv
  <1>3. ActiveInv /\ InsideInv /\ LockHolder
    BY DEF ActiveInv, Active, InsideInv, IoctlPCs, LockHolder
  <1>4. QED
    BY <1>1, <1>2, <1>3 DEF DriverInv

\* Everything reads, writes, polls and resets do is such a move.
LEMMA TransfersMove ==
  ASSUME TypesInv, NEW p \in Process, Transfers(p)
  PROVE  Moves(p)
  <1> USE DEF Moves, Goto, IoctlPCs, PCs, ReadPCs, WritePCs, ResetPCs, WaitPCs, TypesInv,
             lifeVars, lockVars
  <1>1. CASE ReadCall(p)
    BY <1>1 DEF ReadCall
  <1>2. CASE ReadWait(p)
    BY <1>2 DEF ReadWait
  <1>3. CASE ReadLength(p)
    BY <1>3 DEF ReadLength
  <1>4. CASE ReadWord(p)
    BY <1>4 DEF ReadWord
  <1>5. CASE ReadCopy(p)
    BY <1>5 DEF ReadCopy
  <1>6. CASE ReadReturn(p)
    BY <1>6 DEF ReadReturn
  <1>7. ASSUME NEW x \in Payload, WriteCall(p, x)
        PROVE  Moves(p)
    BY <1>7 DEF WriteCall
  <1>8. CASE WriteWait(p)
    BY <1>8 DEF WriteWait
  <1>9. CASE WriteCopy(p)
    BY <1>9 DEF WriteCopy
  <1>10. CASE WriteWord(p)
    BY <1>10 DEF WriteWord
  <1>11. CASE WriteLength(p)
    BY <1>11 DEF WriteLength
  <1>12. CASE PollCall(p)
    BY <1>12 DEF PollCall
  <1>13. CASE Poll(p)
    BY <1>13 DEF Poll
  <1>14. CASE GiveUp(p)
    BY <1>14 DEF GiveUp
  <1>15. CASE ResetCore(p, "reset", "reset_isr")
    BY <1>15 DEF ResetCore
  <1>16. CASE ResetIsr(p, "reset_isr", "user") /\ UNCHANGED lockVars
    <2>1. Goto(p, "reset_isr", "user") /\ UNCHANGED <<lifeVars, irq, file, asleep>>
      BY <1>16, Zenon DEF ResetIsr
    <2>2. QED
      BY <1>16, <2>1
  <1>17. QED
    BY <1>1, <1>2, <1>3, <1>4, <1>5, <1>6, <1>7, <1>8, <1>9, <1>10, <1>11, <1>12,
       <1>13, <1>14, <1>15, <1>16
    DEF Transfers

\* A move keeps the invariant.
LEMMA MovesKeep ==
  ASSUME DriverInv, NEW p \in Process, Moves(p)
  PROVE  DriverInv'
  <1> USE DEF DriverInv, Moves, lifeVars, lockVars
  <1>1. TypesInv'
    BY DEF TypesInv
  <1>2. HeldInv'
    BY DEF HeldInv
  <1>3. ActiveInv'
    <2>1. pc' # pc => Len(held) >= 2 /\ (driver = "live" \/ pc[p] # "user")
      BY HeldUpTo
    <2>2. \A q \in Process : q # p => pc'[q] = pc[q]
      BY DEF TypesInv
    <2>3. \A q \in Process : Active(q)' => Active(q) \/ driver = "live"
      BY <2>1, <2>2 DEF Active
    <2>4. QED
      BY <2>3 DEF ActiveInv
  <1>4. InsideInv'
    BY DEF InsideInv, TypesInv
  <1>5. LockHolder'
    BY DEF LockHolder, InsideInv, TypesInv, IoctlPCs
  <1>6. QED
    BY <1>1, <1>2, <1>3, <1>4, <1>5

\* The steps of ioctl and sysfs.
LEMMA ControlKeeps ==
  ASSUME DriverInv, NEW p \in Process, Control(p)
  PROVE  DriverInv'
  <1> USE DEF DriverInv, TypesInv
  <1> DEFINE Same == UNCHANGED <<lifeVars, irq, file, asleep>>
  <1>1. ASSUME Same, UNCHANGED lockVars, UNCHANGED pc
        PROVE  DriverInv'
    BY <1>1, MovesKeep DEF Moves, lifeVars, lockVars
  <1>2. ASSUME Same, NEW from \in IoctlPCs, NEW to \in {"user"} \cup IoctlPCs, Goto(p, from, to),
               \/ to # "user" /\ UNCHANGED lockVars
               \/ to = "user" /\ ioctl_lock' = Nobody /\ UNCHANGED leaked
               \/ to = "user" /\ leaked' = p /\ UNCHANGED ioctl_lock
        PROVE  DriverInv'
    <2> USE <1>2 DEF Goto, lifeVars, lockVars, IoctlPCs
    <2>1. ioctl_lock = p /\ file[p] # Closed /\ \A q \in Process \ {p} : pc[q] \notin IoctlPCs
      <3> HIDE DEF IoctlPCs
      <3>1. pc[p] \in IoctlPCs
        OBVIOUS
      <3>2. \A q \in Process : pc[q] \in IoctlPCs => ioctl_lock = q /\ file[q] # Closed
        BY DEF InsideInv
      <3>3. QED
        BY <3>1, <3>2, Zenon
    <2>2. /\ pc'[p] = to
          /\ \A q \in Process \ {p} : pc'[q] = pc[q]
      OBVIOUS
    <2>3. TypesInv'
      <3>1. to \in PCs
        BY DEF PCs, ResetPCs
      <3>2. pc' \in [Process -> PCs]
        BY <3>1
      <3>3. \A q \in asleep : q # p /\ pc'[q] \in WaitPCs
        BY <2>2
      <3>4. QED
        BY <3>2, <3>3
    <2>4. HeldInv'
      BY DEF HeldInv
    <2>5. \A q \in Process : Active(q)' => Active(q)
      BY <2>1, <2>2 DEF Active
    <2>6. ActiveInv'
      BY <2>5 DEF ActiveInv
    <2>7. InsideInv'
      BY <2>1, <2>2 DEF InsideInv
    <2>8. LockHolder'
      BY <2>1, <2>2, ConstantsAssumption DEF LockHolder
    <2>9. QED
      BY <2>3, <2>4, <2>6, <2>7, <2>8
  <1>3. CASE SysfsReset(p)
    BY <1>3, MovesKeep
    DEF SysfsReset, Goto, Moves, PCs, ResetPCs, WaitPCs, IoctlPCs, lifeVars, lockVars
  <1>4. ASSUME NEW r \in Register, SysfsAccess(p, r)
        PROVE  DriverInv'
    BY <1>1, <1>4 DEF SysfsAccess
  <1>5. ASSUME NEW r \in Register, IoctlRegister(p, r)
        PROVE  DriverInv'
    BY <1>2, <1>5 DEF IoctlRegister, IoctlPCs
  <1>6. ASSUME NEW rx \in Threshold, NEW tx \in Threshold, SysfsThreshold(p, rx, tx)
        PROVE  DriverInv'
    BY <1>1, <1>6 DEF SysfsThreshold
  <1>7. ASSUME NEW rx \in Threshold, NEW tx \in Threshold, IoctlThreshold(p, rx, tx)
        PROVE  DriverInv'
    BY <1>2, <1>7 DEF IoctlThreshold, IoctlPCs
  <1>8. CASE IoctlLock(p)
    <2> USE <1>8 DEF IoctlLock, Goto, lifeVars
    <2>1. \A q \in Process : pc[q] \notin IoctlPCs
      BY ConstantsAssumption DEF InsideInv
    <2>2. /\ pc'[p] = "ioctl"
          /\ \A q \in Process \ {p} : pc'[q] = pc[q]
      OBVIOUS
    <2>3. TypesInv'
      BY DEF PCs, WaitPCs
    <2>4. HeldInv'
      BY DEF HeldInv
    <2>5. \A q \in Process : Active(q)' => Active(q)
      BY <2>2 DEF Active
    <2>6. ActiveInv'
      BY <2>5 DEF ActiveInv
    <2>7. InsideInv' /\ LockHolder'
      BY <2>1, <2>2 DEF InsideInv, LockHolder, IoctlPCs
    <2>8. QED
      BY <2>3, <2>4, <2>6, <2>7
  <1>9. CASE IoctlFails(p)
    BY <1>2, <1>9 DEF IoctlFails, IoctlPCs
  <1>10. CASE IoctlReset(p)
    <2>1. \/ Goto(p, "ioctl", "ioctl_reset") /\ Same /\ UNCHANGED lockVars
          \/ Goto(p, "ioctl_reset", "ioctl_isr") /\ Same /\ UNCHANGED lockVars
          \/ Goto(p, "ioctl_isr", "user") /\ Same /\ ioctl_lock' = Nobody /\ UNCHANGED leaked
      BY <1>10, Zenon DEF IoctlReset, ResetCore, ResetIsr
    <2>2. QED
      BY <1>2, <2>1 DEF IoctlPCs
  <1>11. QED
    BY <1>3, <1>4, <1>5, <1>6, <1>7, <1>8, <1>9, <1>10 DEF Control

\* The steps of the core and of its interrupt handler, which runs only while the
\* interrupt is held.
LEMMA DeviceKeeps ==
  ASSUME DriverInv, Device
  PROVE  DriverInv'
  <1> USE DEF DriverInv
  <1>1. /\ UNCHANGED <<lifeVars, lockVars, file, pc>>
        /\ asleep' \subseteq asleep
        /\ irq' # irq /\ irq' # "none" => Has("irq")
    <2>1. CASE Transmit
      BY <2>1 DEF Transmit
    <2>2. ASSUME NEW x \in Payload, Arrive(x)
          PROVE  UNCHANGED <<lifeVars, lockVars, file, pc, asleep, irq>>
      BY <2>2, Zenon DEF Arrive
    <2>3. CASE IrqServe
      <3>1. Has("irq") /\ UNCHANGED <<lifeVars, lockVars, file, pc>>
        BY <2>3, Zenon DEF IrqServe
      <3>2. asleep' \subseteq asleep
        BY <2>3 DEF IrqServe
      <3>3. QED
        BY <3>1, <3>2
    <2>4. CASE IrqClear
      <3>1. UNCHANGED <<lifeVars, lockVars, file, pc, asleep>> /\ irq' = "none"
        BY <2>4, Zenon DEF IrqClear, historyVars
      <3>2. QED
        BY <3>1
    <2>5. QED
      BY <2>1, <2>2, <2>3, <2>4 DEF Device
  <1> USE DEF lifeVars, lockVars
  <1>2. TypesInv'
    BY <1>1 DEF TypesInv
  <1>3. HeldInv'
    BY <1>1, HeldUpTo DEF HeldInv
  <1>4. ActiveInv' /\ InsideInv' /\ LockHolder'
    BY <1>1 DEF ActiveInv, Active, InsideInv, LockHolder
  <1>5. QED
    BY <1>2, <1>3, <1>4

\* Open and close.
LEMMA FilesKeep ==
  ASSUME DriverInv, NEW p \in Process, Files(p)
  PROVE  DriverInv'
  <1> USE DEF DriverInv
  <1>1. ASSUME NEW f \in FlagsOf[p], Open(p, f)
        PROVE  DriverInv'
    <2>1. /\ UNCHANGED <<lifeVars, lockVars, irq, pc, asleep>>
          /\ pc[p] = "user"
          /\ file' = [file EXCEPT ![p] = f]
          /\ Has("cdev") /\ (driver = "unwinding" => failed_at # "none")
      BY <1>1, Zenon DEF Open, Openable
    <2>2. f \in FileType /\ f # Closed
      BY ConstantsAssumption DEF FileType, Closed
    <2>3. Len(held) >= 6
      BY <2>1, HeldUpTo
    <2> USE DEF lifeVars, lockVars
    <2>4. TypesInv'
      BY <2>1, <2>2 DEF TypesInv
    <2>5. HeldInv'
      BY <2>1 DEF HeldInv
    <2>6. ActiveInv'
      <3>1. \A q \in Process \ {p} : Active(q)' => Active(q) /\ file'[q] = file[q]
        BY <2>1 DEF Active, TypesInv
      <3>2. /\ driver # "absent"
            /\ driver = "unwinding" => failed_at = "sysfs"
        BY <2>1, <2>3 DEF HeldInv
      <3>3. QED
        BY <2>1, <2>3, <3>1, <3>2 DEF ActiveInv
    <2>7. InsideInv' /\ LockHolder'
      BY <2>1 DEF InsideInv, LockHolder, TypesInv, IoctlPCs
    <2>8. QED
      BY <2>4, <2>5, <2>6, <2>7
  <1>2. ASSUME NEW f \in FlagsOf[p], OpenFails(p, f)
        PROVE  DriverInv'
    BY <1>2, MovesKeep DEF OpenFails, Moves, TypesInv, historyVars
  <1>3. CASE Close(p)
    <2>1. /\ UNCHANGED <<lifeVars, lockVars, irq, pc, asleep>>
          /\ pc[p] = "user"
          /\ file' = [file EXCEPT ![p] = Closed]
      BY <1>3, Zenon DEF Close
    <2> USE DEF lifeVars, lockVars
    <2>2. TypesInv'
      BY <2>1 DEF TypesInv, FileType, Closed
    <2>3. HeldInv'
      BY <2>1 DEF HeldInv
    <2>4. \A q \in Process : file'[q] = file[q] \/ file'[q] = Closed
      BY <2>1 DEF TypesInv
    <2>5. ActiveInv'
      <3>1. ASSUME NEW q \in Process, Active(q)'
            PROVE  Active(q) /\ (file[q] = Closed => file'[q] = Closed)
        BY <2>1, <2>4, <3>1 DEF Active
      <3>2. QED
        BY <2>1, <3>1 DEF ActiveInv
    <2>6. InsideInv' /\ LockHolder'
      BY <2>1 DEF InsideInv, LockHolder, TypesInv, IoctlPCs
    <2>7. QED
      BY <2>2, <2>3, <2>5, <2>6
  <1>4. QED
    BY <1>1, <1>2, <1>3 DEF Files

\* Probe, remove and the unwinding of both.
LEMMA LifeKeeps ==
  ASSUME DriverInv, Life
  PROVE  DriverInv'
  <1> USE DEF DriverInv
  <1>1. CASE ProbeStart
    <2>1. /\ driver = "absent" /\ driver' = "probing" /\ failed_at' = "none"
          /\ \A p \in Process : file[p] = Closed /\ pc[p] = "user"
          /\ UNCHANGED <<held, irq, lockVars, file, pc, asleep>>
      BY <1>1, Zenon DEF ProbeStart
    <2> USE <2>1 DEF lockVars
    <2>2. TypesInv' /\ HeldInv' /\ InsideInv' /\ LockHolder'
      BY DEF TypesInv, HeldInv, InsideInv, LockHolder
    <2>3. ActiveInv'
      BY DEF ActiveInv, Active
    <2>4. QED
      BY <2>2, <2>3
  <1>2. CASE ProbeStep
    <2> DEFINE next == ProbeOrder[Len(held) + 1]
    <2>1. /\ driver = "probing" /\ held # ProbeOrder
          /\ held' = Append(held, next)
          /\ driver' = IF held' = ProbeOrder THEN "live" ELSE "probing"
          /\ UNCHANGED <<failed_at, irq, lockVars, file, pc, asleep>>
      BY <1>2, Zenon DEF ProbeStep
    <2>2. Len(held) \in 0 .. 6
      BY <2>1, HeldUpTo
    <2>3. next \in Resource
      <3> DEFINE n == Len(held)
      <3> HIDE DEF n
      <3>1. n \in 0 .. 6 => n + 1 \in 1 .. 7
        OBVIOUS
      <3>2. QED
        BY <2>2, <3>1, Order DEF n
    <2> HIDE DEF next
    <2>4. /\ held' \in Seq(Resource)
          /\ Len(held') = Len(held) + 1
          /\ \A i \in 1 .. Len(held) : held'[i] = held[i]
          /\ held'[Len(held) + 1] = next
      BY <2>1, <2>3 DEF TypesInv
    <2>5. driver' \in {"live", "probing"} /\ (driver' = "live" => Len(held') = 7)
      BY <2>1 DEF ProbeOrder
    <2> USE <2>1, <2>2, <2>4, <2>5 DEF lockVars
    <2>6. TypesInv' /\ InsideInv' /\ LockHolder'
      BY DEF TypesInv, InsideInv, LockHolder
    <2>7. HeldInv'
      <3>1. \A i \in 1 .. Len(held') : held'[i] = ProbeOrder[i]
        BY DEF HeldInv, next
      <3>2. Len(held') \in 0 .. 7 /\ (irq # "none" => Len(held') >= 3)
        <4> DEFINE n == Len(held)
                   m == Len(held')
        <4>1. n \in 0 .. 6 /\ m = n + 1 /\ (irq # "none" => n >= 3)
          BY DEF HeldInv
        <4> HIDE DEF n, m
        <4>2. m \in 0 .. 7 /\ (irq # "none" => m >= 3)
          BY <4>1
        <4>3. QED
          BY <4>2 DEF m
      <3>3. failed_at = "none"
        BY DEF HeldInv
      <3>4. QED
        BY <3>1, <3>2, <3>3 DEF HeldInv
    <2>8. ActiveInv'
      BY DEF ActiveInv, Active
    <2>9. QED
      BY <2>6, <2>7, <2>8
  <1>3. CASE ProbeFails
    <2>1. /\ driver = "probing" /\ driver' = "unwinding" /\ held # ProbeOrder
          /\ failed_at' = ProbeOrder[Len(held) + 1]
          /\ UNCHANGED <<held, irq, lockVars, file, pc, asleep>>
      BY <1>3, Zenon DEF ProbeFails
    <2>2. Len(held) \in 0 .. 6
      BY <2>1, HeldUpTo
    <2>3. failed_at' # "none" /\ (Len(held) >= 6 => failed_at' = "sysfs")
      <3> DEFINE n == Len(held)
      <3> HIDE DEF n
      <3>1. n \in 0 .. 6 => n + 1 \in 1 .. 7 /\ (n >= 6 => n + 1 = 7)
        OBVIOUS
      <3>2. QED
        BY <2>1, <2>2, <3>1, Order DEF n
    <2> USE <2>1 DEF lockVars
    <2>4. TypesInv' /\ HeldInv' /\ InsideInv' /\ LockHolder'
      BY <2>3 DEF TypesInv, HeldInv, InsideInv, LockHolder
    <2>5. ActiveInv'
      BY <2>3 DEF ActiveInv, Active
    <2>6. QED
      BY <2>4, <2>5
  <1>4. CASE axis_fifo_remove
    <2>1. /\ driver = "live" /\ driver' = "unwinding"
          /\ \A p \in Process : file[p] = Closed
          /\ UNCHANGED <<held, failed_at, irq, lockVars, file, pc, asleep>>
      BY <1>4, Zenon DEF axis_fifo_remove
    <2> USE <2>1 DEF lockVars
    <2>2. TypesInv' /\ HeldInv' /\ InsideInv' /\ LockHolder'
      BY DEF TypesInv, HeldInv, InsideInv, LockHolder
    <2>3. ActiveInv'
      BY DEF ActiveInv, HeldInv
    <2>4. QED
      BY <2>2, <2>3
  <1>5. CASE Release
    <2>1. /\ driver = "unwinding" /\ held # <<>> /\ held' = Front(held)
          /\ Last(held) = "irq" => irq = "none"
          /\ Last(held) = "sysfs" => \A p \in Process : file[p] = Closed => pc[p] = "user"
          /\ UNCHANGED <<driver, failed_at, irq, lockVars, file, pc, asleep>>
      BY <1>5, Zenon DEF Release
    <2>2. /\ Len(held) \in 1 .. 7
          /\ held' \in Seq(Resource)
          /\ Len(held') = Len(held) - 1
          /\ \A i \in 1 .. Len(held') : held'[i] = held[i]
      BY <2>1, FrontOf, HeldUpTo DEF TypesInv
    <2>3. Last(held) = ProbeOrder[Len(held)]
      BY <2>2 DEF HeldInv, Last
    <2>4. Len(held) = 3 => irq = "none"
      BY <2>1, <2>2, <2>3, Order
    <2>5. ASSUME Len(held) = 7, NEW p \in Process, file[p] = Closed
          PROVE  pc[p] = "user"
      BY <2>1, <2>3, <2>5, Order
    <2> USE <2>1, <2>2, <2>4, <2>5 DEF lockVars
    <2>6. TypesInv' /\ InsideInv' /\ LockHolder'
      BY DEF TypesInv, InsideInv, LockHolder
    <2>7. HeldInv'
      <3>1. \A i \in 1 .. Len(held') : held'[i] = ProbeOrder[i]
        BY DEF HeldInv
      <3>2. Len(held') \in 0 .. 7 /\ (irq # "none" => Len(held') >= 3)
        BY SMTT(30) DEF HeldInv
      <3>3. failed_at # "none" /\ Len(held') >= 6 => failed_at = "sysfs"
        BY SMTT(30) DEF HeldInv
      <3>4. QED
        BY <3>1, <3>2, <3>3 DEF HeldInv
    <2>8. ActiveInv'
      BY DEF ActiveInv, Active
    <2>9. QED
      BY <2>6, <2>7, <2>8
  <1>6. CASE Gone
    <2>1. /\ driver = "unwinding" /\ held = <<>> /\ driver' = "absent"
          /\ IF failed_at = "none" THEN ioctl_lock' = Nobody /\ leaked' = Nobody
             ELSE UNCHANGED lockVars
          /\ UNCHANGED <<held, failed_at, irq, file, pc, asleep>>
      BY <1>6, Zenon DEF Gone
    <2> USE <2>1 DEF lockVars
    <2>2. failed_at = "none" => \A p \in Process : ~Active(p)
      BY DEF ActiveInv, TypesInv
    <2>3. TypesInv' /\ HeldInv'
      BY ConstantsAssumption DEF TypesInv, HeldInv
    <2>4. InsideInv' /\ LockHolder'
      BY <2>2 DEF InsideInv, LockHolder, Active, IoctlPCs
    <2>5. ActiveInv'
      BY <2>2 DEF ActiveInv, Active
    <2>6. QED
      BY <2>3, <2>4, <2>5
  <1>7. QED
    BY <1>1, <1>2, <1>3, <1>4, <1>5, <1>6 DEF Life

\* Every step keeps the invariant.
LEMMA NextDriverInv == DriverInv /\ [AxisNext]_axisVars => DriverInv'
  <1> SUFFICES ASSUME DriverInv, [AxisNext]_axisVars
               PROVE  DriverInv'
    OBVIOUS
  <1>1. CASE Life
    BY <1>1, LifeKeeps
  <1>2. CASE Device
    BY <1>2, DeviceKeeps
  <1>3. ASSUME NEW p \in Process, Files(p)
        PROVE  DriverInv'
    BY <1>3, FilesKeep
  <1>4. ASSUME NEW p \in Process, Transfers(p)
        PROVE  DriverInv'
    BY <1>4, TransfersMove, MovesKeep DEF DriverInv
  <1>5. ASSUME NEW p \in Admin, Control(p)
        PROVE  DriverInv'
    BY <1>5, ControlKeeps, ConstantsAssumption
  <1>6. CASE UNCHANGED axisVars
    BY <1>6
    DEF axisVars, lifeVars, lockVars, DriverInv, TypesInv, HeldInv, ActiveInv, Active, InsideInv,
        LockHolder
  <1>7. QED
    BY <1>1, <1>2, <1>3, <1>4, <1>5, <1>6 DEF AxisNext

\* The invariant holds in every reachable state.
THEOREM DriverCorrect == AxisSpec => []DriverInv
  BY InitDriverInv, NextDriverInv, PTL DEF AxisSpec

\* The ioctl lock is kept by the call under way or by one that has failed, whatever the
\* processes, the resets and the device do.
THEOREM LockHeldOrLeaked == AxisSpec => []LockHolder
  <1>1. DriverInv => LockHolder
    BY DEF DriverInv
  <1>2. QED
    BY <1>1, DriverCorrect, PTL

\* No register is reached unless it is mapped, the device of a failed probe excepted.
THEOREM RegistersMapped == AxisSpec => []NoUnmappedAccess
  <1>1. ASSUME DriverInv
        PROVE  NoUnmappedAccess
    <2> USE <1>1 DEF DriverInv
    <2>1. irq # "none" => Mapped
      BY HeldUpTo DEF HeldInv
    <2>2. ASSUME NEW p \in Process, Active(p)
          PROVE  Mapped \/ failed_at = "sysfs"
      <3>1. driver \in {"absent", "probing", "live", "unwinding"}
        BY DEF TypesInv
      <3>2. Len(held) >= 6 => Mapped
        BY HeldUpTo
      <3>3. Len(held) >= 6 \/ failed_at = "sysfs"
        <4>1. Len(held) = 7 => Len(held) >= 6
          OBVIOUS
        <4>2. /\ driver = "absent" => failed_at = "sysfs"
              /\ driver = "probing" => Len(held) >= 6
              /\ driver = "live" => Len(held) = 7
              /\ driver = "unwinding" => failed_at = "sysfs" \/ Len(held) = 7
          BY <2>2 DEF ActiveInv, HeldInv
        <4>3. QED
          BY <3>1, <4>1, <4>2
      <3>4. QED
        BY <3>2, <3>3
    <2>3. QED
      BY <2>1, <2>2 DEF NoUnmappedAccess, Active
  <1>2. QED
    BY <1>1, DriverCorrect, PTL
================================================================================
