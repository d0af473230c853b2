--------------------------- MODULE AxisChannelProofs ---------------------------
(***************************************************************************)
(* The receive side of the FIFO driver implements the packet channel, for  *)
(* every set of processes, payloads and buffer sizes: with every step the  *)
(* driver, the core and the processes take a step of the channel or none.  *)
(***************************************************************************)
EXTENDS AxisFifoProofs

--------------------------------------------------------------------------------
(* the inductive invariant                                                     *)

Word == (Payload \cup {NoPayload}) \X Nat
Fields == {"rx", "lens", "claimed", "tx", "txq", "isr", "ier", "skewed"}

\* The part of the core that receives
RxTypes ==
  /\ DOMAIN core = Fields
  /\ core.rx \in Seq(Word) /\ core.lens \in Seq(Payload) /\ core.claimed \in Nat
  /\ DOMAIN item = Process /\ DOMAIN plan = Process /\ DOMAIN words = Process

\* A call is made while the driver is live, or is one of sysfs that its removal
\* waits for.
CallInv ==
  \A p \in Process : pc[p] # "user" =>
    /\ Len(held) = 7
    /\ driver = "live" \/ (driver = "unwinding" /\ failed_at = "none")

\* The copies still to be made: after[i] words are left after the i-th of them.
Loading(p) == pc[p] \in {"read_word", "read_copy"}
Left(p) == WordsIn(Bytes[item[p]]) - Len(words[p])
PlanSums(pl, n) ==
  \E after \in [0 .. Len(pl) -> Nat] :
    /\ after[0] = n /\ after[Len(pl)] = 0
    /\ \A i \in 1 .. Len(pl) : after[i-1] = after[i] + pl[i]
PlanRight(at, x, ws, pl) ==
  /\ x \in Payload /\ ws \in Seq(Word)
  /\ pl \in Seq(Nat) /\ Len(pl) >= 1
  /\ PlanSums(pl, WordsIn(Bytes[x]) - Len(ws))
  /\ \A i \in 2 .. Len(pl) : pl[i] >= 1
  /\ IF at = "read_word" THEN pl[1] >= 1 ELSE pl[1] = 0
PlanInv ==
  \A p \in Process : Loading(p) => PlanRight(pc[p], item[p], words[p], plan[p])

\* Behind the words that have been claimed, those of the packets whose length is
\* still to be read: behind[i] words stand behind the i-th of them.
FramedBy(rx, lens, claimed, behind) ==
  /\ behind[Len(lens)] = 0 /\ Len(rx) = claimed + behind[0]
  /\ \A i \in 0 .. Len(lens) : \A j \in i .. Len(lens) : behind[j] <= behind[i]
  /\ \A i \in 1 .. Len(lens) :
       /\ behind[i-1] = behind[i] + WordsIn(Bytes[lens[i]])
       /\ \A j \in 1 .. WordsIn(Bytes[lens[i]]) :
            rx[Len(rx) - behind[i-1] + j] = <<lens[i], j>>
Framed(rx, lens, claimed) ==
  \E behind \in [0 .. Len(lens) -> Nat] : FramedBy(rx, lens, claimed, behind)

\* Each word that has been claimed is one that a reader will take, unless somebody
\* is about to reset the core.
Owned ==
  (\A p \in Process : pc[p] \notin ResetPCs) =>
    \E own \in [1 .. core.claimed -> Process \X Nat] :
      /\ \A j \in 1 .. core.claimed :
           Loading(own[j][1]) /\ own[j][2] \in 1 .. Left(own[j][1])
      /\ \A j, k \in 1 .. core.claimed : own[j] = own[k] => j = k

\* A reader that nobody disturbs is alone; the words it has claimed are those of its
\* packet that it has not read yet.
Undisturbed(p) ==
  /\ \A q \in Process : pc[q] \in ReadPCs => q = p
  /\ pc[p] = "read_len" => core.claimed = 0 /\ core.lens # <<>>
  /\ Loading(p) =>
       /\ core.claimed = Left(p)
       /\ \A i \in 1 .. Len(words[p]) : words[p][i] = <<item[p], i>>
       /\ \A i \in 1 .. core.claimed : core.rx[i] = <<item[p], Len(words[p]) + i>>

ReadInv ==
  "rx" \notin core.skewed =>
    /\ Framed(core.rx, core.lens, core.claimed)
    /\ Owned
    /\ \A p \in Process : pc[p] \in ReadPCs /\ p \notin disturbed => Undisturbed(p)

ChannelInv == DriverInv /\ RxTypes /\ CallInv /\ PlanInv /\ ReadInv

--------------------------------------------------------------------------------
(* the operations of the core                                                  *)

RxSame(c, d) ==
  /\ DOMAIN d = Fields
  /\ d.rx = c.rx /\ d.lens = c.lens /\ d.claimed = c.claimed
  /\ "rx" \in d.skewed <=> "rx" \in c.skewed
Flushed(d) ==
  /\ DOMAIN d = Fields
  /\ d.rx = <<>> /\ d.lens = <<>> /\ d.claimed = 0 /\ "rx" \notin d.skewed

\* The transmit side, the interrupt registers and a change of status leave the receive
\* side alone.
LEMMA TxOps ==
  ASSUME NEW c, DOMAIN c = Fields
  PROVE  /\ RxSame(c, ResetTx(c))
         /\ \A i : RxSame(c, Raise(c, i))
         /\ \A i : RxSame(c, [c EXCEPT !.isr = @ \ {i}])
         /\ RxSame(c, [c EXCEPT !.isr = {}])
         /\ RxSame(c, [c EXCEPT !.ier = {}])
         /\ \A s : RxSame(c, [c EXCEPT !.txq = s])
         /\ \A s : RxSame(c, [c EXCEPT !.skewed = @ \cup {"tx"}])
  BY DEF RxSame, Fields, ResetTx, Raise

\* Words and lengths that are written go to the transmit side.
LEMMA TxWrites ==
  ASSUME NEW c, DOMAIN c = Fields
  PROVE  /\ \A w : RxSame(c, WriteTDFD(c, w))
         /\ \A n : RxSame(c, WriteTLR(c, n))
  <1>1. ASSUME NEW d, NEW i, RxSame(c, d)
        PROVE  RxSame(c, Fail(d, i, "tx"))
    BY <1>1 DEF RxSame, Fail, Raise, Fields
  <1>2. ASSUME NEW w
        PROVE  RxSame(c, WriteTDFD(c, w))
    <2>1. RxSame(c, c) /\ RxSame(c, [c EXCEPT !.tx = Append(@, w)])
      BY DEF RxSame, Fields
    <2>2. QED
      BY <1>1, <2>1, Zenon DEF WriteTDFD
  <1>3. ASSUME NEW n
        PROVE  RxSame(c, WriteTLR(c, n))
    <2>1. \A s, t : RxSame(c, [c EXCEPT !.txq = s, !.tx = t])
      BY DEF RxSame, Fields
    <2>2. QED
      BY <1>1, <2>1 DEF WriteTLR
  <1>4. QED
    BY <1>2, <1>3

\* The resets flush it.
LEMMA Resets ==
  ASSUME NEW c, DOMAIN c = Fields
  PROVE  /\ Flushed(ResetRx(c))
         /\ Flushed(ResetTx(ResetRx(c)))
         /\ Flushed(CoreReset(c))
         /\ Flushed([CoreReset(c) EXCEPT !.isr = {}])
         /\ Flushed(EmptyCore)
  <1>1. Flushed(ResetRx(c)) /\ Flushed(EmptyCore)
    BY DEF Flushed, ResetRx, EmptyCore, Fields
  <1>2. ASSUME NEW d, Flushed(d)
        PROVE  Flushed(ResetTx(d)) /\ Flushed([d EXCEPT !.ier = Interrupts])
               /\ Flushed([d EXCEPT !.isr = {}])
    BY <1>2 DEF Flushed, ResetTx, Fields
  <1>3. QED
    BY <1>1, <1>2 DEF CoreReset

--------------------------------------------------------------------------------
(* the copies of a transfer                                                    *)

\* A payload has its full words and one for the bytes left over, at least one in all.
LEMMA WordCount ==
  ASSUME NEW b \in Nat \ {0}
  PROVE  /\ WordsIn(b) \in Nat \ {0}
         /\ b \div WORD \in Nat
         /\ WordsIn(b) = (b \div WORD) + (IF b % WORD = 0 THEN 0 ELSE 1)
         /\ b % WORD = 0 => b \div WORD >= 1
  BY DEF WordsIn, WORD

\* How many pieces of B words f words need.
LEMMA Pieces ==
  ASSUME NEW f \in Nat, NEW B \in Nat \ {0}
  PROVE  \E n \in Nat :
           /\ n = (f + B - 1) \div B
           /\ f <= n * B
           /\ \A k \in 1 .. n : (k - 1) * B < f
           /\ f >= 1 => n >= 1
  <1> DEFINE n == (f + B - 1) \div B
             r == (f + B - 1) % B
  <1>1. f + B - 1 \in Nat
    OBVIOUS
  <1>2. n \in Nat /\ r \in 0 .. B - 1 /\ f + B - 1 = B * n + r
    BY <1>1
  <1> HIDE DEF n, r
  <1>3. f <= n * B /\ (f >= 1 => n >= 1)
    BY <1>2
  <1>4. ASSUME NEW k \in 1 .. n
        PROVE  (k - 1) * B < f
    <2>1. PICK m \in Nat : n = (k - 1) + 1 + m
      <3>1. n - k \in Nat
        BY <1>2
      <3>2. QED
        BY <1>2, <3>1
    <2>2. B * n = (k - 1) * B + B + m * B
      BY <2>1
    <2>3. m * B >= 0 /\ (k - 1) * B \in Int
      BY <2>1
    <2>4. m * B \in Int /\ B * n \in Int
      BY <1>2, <2>1
    <2>5. QED
      BY <1>2, <2>2, <2>3, <2>4
  <1>5. QED
    BY <1>2, <1>3, <1>4 DEF n

\* They copy the words of the payload, at least one each.
LEMMA CopiesSum ==
  ASSUME NEW x \in Payload
  PROVE  /\ Copies(x) \in Seq(Nat) /\ Len(Copies(x)) >= 1
         /\ \A i \in 1 .. Len(Copies(x)) : Copies(x)[i] >= 1
         /\ PlanSums(Copies(x), WordsIn(Bytes[x]))
  <1> DEFINE b == Bytes[x]
             rest == IF b % WORD = 0 THEN 0 ELSE 1
  <1>1. PICK f : f = b \div WORD
    OBVIOUS
  <1>2. PICK B : B = BUF_SIZE
    OBVIOUS
  <1>3. /\ b \in Nat \ {0} /\ f \in Nat /\ WordsIn(b) = f + rest
        /\ B \in Nat \ {0}
        /\ rest = 0 => f >= 1
    BY <1>1, <1>2, WordCount, ConstantsAssumption
  <1>4. PICK n \in Nat :
          /\ n = (f + B - 1) \div B
          /\ f <= n * B
          /\ \A k \in 1 .. n : (k - 1) * B < f
          /\ f >= 1 => n >= 1
    BY <1>3, Pieces
  <1> DEFINE piece == [k \in 1 .. n |-> IF k * B <= f THEN B ELSE f - (k - 1) * B]
  <1>5. PICK pl : pl = piece \o (IF b % WORD = 0 THEN <<>> ELSE <<1>>)
    OBVIOUS
  <1>6. Copies(x) = pl
    BY <1>1, <1>2, <1>4, <1>5 DEF Copies
  <1>7. \A k \in 1 .. n : piece[k] \in Nat \ {0}
    <2>1. TAKE k \in 1 .. n
    <2>2. k * B \in Int /\ (k - 1) * B \in Int /\ (k - 1) * B < f
      BY <1>3, <1>4
    <2>3. QED
      BY <1>3, <2>2
  <1>8. piece \in Seq(Nat) /\ Len(piece) = n /\ rest \in {0, 1}
    BY <1>7
  <1>9. /\ pl \in Seq(Nat)
        /\ Len(pl) = n + rest
        /\ \A i \in 1 .. n : pl[i] = piece[i]
        /\ rest = 1 => pl[n + 1] = 1
    <2>1. CASE rest = 0
      <3>1. pl = piece \o <<>>
        BY <1>5, <2>1
      <3>2. QED
        BY <1>8, <2>1, <3>1, ConcatEmptySeq
    <2>2. CASE rest = 1
      <3>1. pl = piece \o <<1>>
        BY <1>5, <2>2
      <3>2. pl = Append(piece, 1)
        BY <1>8, <3>1, AppendIsConcat
      <3>3. QED
        BY <1>8, <2>2, <3>2
    <2>3. QED
      BY <1>8, <2>1, <2>2
  <1>10. Len(pl) >= 1 /\ \A i \in 1 .. Len(pl) : pl[i] >= 1
    <2> HIDE DEF piece, rest, b
    <2>1. Len(pl) >= 1
      BY <1>3, <1>4, <1>8, <1>9
    <2>2. \A i \in 1 .. n : pl[i] >= 1
      BY <1>7, <1>9
    <2>3. QED
      BY <1>8, <1>9, <2>1, <2>2
  <1> DEFINE after == [k \in 0 .. Len(pl) |->
                         IF k <= n THEN (IF k * B <= f THEN f - k * B ELSE 0) + rest ELSE 0]
  <1> HIDE DEF piece, rest, b
  <1>11. \A k \in 0 .. n : k * B \in Int /\ (k + 1) * B = k * B + B
    BY <1>3
  <1>12. after \in [0 .. Len(pl) -> Nat]
    <2>1. ASSUME NEW k \in 0 .. Len(pl)
          PROVE  (IF k <= n THEN (IF k * B <= f THEN f - k * B ELSE 0) + rest ELSE 0) \in Nat
      <3>1. k \in Nat /\ (k <= n => k \in 0 .. n)
        BY <1>8, <1>9
      <3>2. k * B \in Nat
        BY <1>3, <3>1
      <3>3. QED
        BY <1>3, <1>8, <3>2
    <2>2. QED
      BY <2>1
  <1>13. after[0] = f + rest /\ after[Len(pl)] = 0
    <2>1. 0 * B = 0 /\ n * B \in Int
      BY <1>3, <1>11
    <2>2. n * B <= f => n * B = f
      BY <1>3, <1>4, <2>1
    <2>3. QED
      BY <1>3, <1>8, <1>9, <2>1, <2>2
  <1>14. ASSUME NEW i \in 1 .. Len(pl)
         PROVE  after[i-1] = after[i] + pl[i]
    <2>1. CASE i \in 1 .. n
      <3>1. PICK u \in Int : u = (i - 1) * B
        BY <1>3
      <3>2. i * B = u + B /\ u < f
        BY <1>4, <1>11, <2>1, <3>1
      <3>3. after[i-1] = f - u + rest
        BY <1>3, <1>8, <1>9, <2>1, <3>1, <3>2
      <3>4. pl[i] = IF i * B <= f THEN B ELSE f - u
        BY <1>9, <2>1, <3>1 DEF piece
      <3>5. after[i] = (IF i * B <= f THEN f - i * B ELSE 0) + rest
        BY <2>1
      <3>6. QED
        BY <1>3, <1>8, <3>1, <3>2, <3>3, <3>4, <3>5
    <2>2. CASE i = n + 1
      <3>1. n * B \in Int /\ (n * B <= f => n * B = f)
        BY <1>3, <1>4, <1>11
      <3>2. rest = 1 /\ pl[i] = 1
        BY <1>8, <1>9, <2>2
      <3>3. after[n] = 1
        BY <1>3, <1>9, <3>1, <3>2
      <3>4. QED
        BY <2>2, <3>2, <3>3
    <2>3. QED
      BY <1>8, <1>9, <2>1, <2>2
  <1> HIDE DEF after
  <1>15. PlanSums(pl, f + rest)
    BY <1>12, <1>13, <1>14 DEF PlanSums
  <1>16. QED
    BY <1>3, <1>6, <1>9, <1>10, <1>15 DEF b

--------------------------------------------------------------------------------
(* the steps of the channel, in terms of the driver                            *)

Queue == [i \in DOMAIN core.lens |-> WordsOf(core.lens[i])]
Readers == [p \in Process |-> ReadOf(p)]
Broken == "rx" \in core.skewed
ChannelStep == [Packets!ChannelNext]_(Packets!channelVars)

IdleRead == [state |-> "idle", packet |-> <<>>]
ReadyRead == [state |-> "ready", packet |-> <<>>]
TornRead == [state |-> "torn", packet |-> <<>>]
\* Every read under way is torn
Teared == [q \in Process |-> IF Readers[q] = IdleRead THEN IdleRead ELSE TornRead]

\* What each step of the channel means for the queue, the readers and the damage.
LEMMA StepNone ==
  ASSUME Queue' = Queue, Readers' = Readers, Broken' <=> Broken
  PROVE  ChannelStep
  BY DEF ChannelStep, Packets!channelVars, Queue, Readers, Broken

\* A broken channel may do anything.
LEMMA StepBroken ==
  ASSUME Broken
  PROVE  ChannelStep
  BY DEF ChannelStep, Packets!ChannelNext, Broken

\* A packet arrives.
LEMMA StepArrive ==
  ASSUME NEW x \in Payload, Queue' = Append(Queue, WordsOf(x)), Readers' = Readers,
         Broken' <=> Broken
  PROVE  ChannelStep
  <1>1. UNCHANGED ("rx" \in core.skewed)
    BY DEF Broken
  <1>2. Packets!Arrive(WordsOf(x))
    BY <1>1, Zenon DEF Packets!Arrive, Queue, Readers
  <1>3. QED
    BY <1>2, Zenon DEF ChannelStep, Packets!ChannelNext

\* A read begins, alone or among others.
LEMMA StepBegin ==
  ASSUME NEW p \in Process, Queue' = Queue, Broken' <=> Broken, Readers[p] = IdleRead,
         \/ /\ \A q \in Process : Readers[q] = IdleRead
            /\ Queue # <<>> /\ Readers' = [Readers EXCEPT ![p] = ReadyRead]
         \/ /\ \E q \in Process : Readers[q] # IdleRead
            /\ Readers' = [Teared EXCEPT ![p] = TornRead]
  PROVE  ChannelStep
  <1>1. Packets!Begin(p)
    BY DEF Packets!Begin, Packets!TearAll, Packets!Idle, Packets!Ready, Packets!Torn,
           Packets!Reading, Queue, Readers, Broken, Teared, IdleRead, ReadyRead, TornRead
  <1>2. QED
    BY <1>1 DEF ChannelStep, Packets!ChannelNext

\* The oldest packet is taken.
LEMMA StepTake ==
  ASSUME NEW p \in Process, Readers[p] = ReadyRead, Queue # <<>>,
         Readers' = [Readers EXCEPT ![p] = [state |-> "taken", packet |-> Head(Queue)]],
         Queue' = SubSeq(Queue, 2, Len(Queue)), Broken' <=> Broken
  PROVE  ChannelStep
  <1>1. UNCHANGED ("rx" \in core.skewed)
    BY DEF Broken
  <1>2. Packets!Take(p)
    BY <1>1, Zenon
    DEF Packets!Take, Packets!Ready, Packets!Reading, Queue, Readers, ReadyRead
  <1>3. QED
    BY <1>2 DEF ChannelStep, Packets!ChannelNext

\* It has been copied.
LEMMA StepCopied ==
  ASSUME NEW p \in Process, NEW x, Readers[p] = [state |-> "taken", packet |-> x],
         Readers' = [Readers EXCEPT ![p] = [state |-> "copied", packet |-> x]],
         Queue' = Queue, Broken' <=> Broken
  PROVE  ChannelStep
  <1>1. UNCHANGED ("rx" \in core.skewed)
    BY DEF Broken
  <1>2. /\ Readers[p].state = "taken"
        /\ Readers' =
             [Readers EXCEPT ![p] = [state |-> "copied", packet |-> Readers[p].packet]]
    OBVIOUS
  <1>3. Packets!Copied(p)
    BY <1>1, <1>2, Zenon DEF Packets!Copied, Packets!Reading, Queue, Readers
  <1>4. QED
    BY <1>3 DEF ChannelStep, Packets!ChannelNext

\* The read returns.
LEMMA StepReturn ==
  ASSUME NEW p \in Process, Readers[p].state \in {"copied", "torn"},
         Readers' = [Readers EXCEPT ![p] = IdleRead],
         Queue' = Queue, Broken' <=> Broken
  PROVE  ChannelStep
  <1>1. Packets!Return(p)
    BY DEF Packets!Return, Packets!Idle, Packets!Reading, Queue, Readers, Broken, IdleRead
  <1>2. QED
    BY <1>1 DEF ChannelStep, Packets!ChannelNext

\* A torn read takes a packet, or breaks the channel.
LEMMA StepTornTake ==
  ASSUME NEW p \in Process, Readers[p] = TornRead, Readers' = Readers,
         \/ Queue' = SubSeq(Queue, 2, Len(Queue)) /\ Queue # <<>> /\ (Broken' <=> Broken)
         \/ Queue' = Queue /\ Broken'
  PROVE  ChannelStep
  <1>1. (Broken' <=> Broken) => UNCHANGED ("rx" \in core.skewed)
    BY DEF Broken
  <1>2. Broken' => ("rx" \in core.skewed)' = TRUE
    BY DEF Broken
  <1>3. Packets!TornTake(p)
    BY <1>1, <1>2, Zenon
    DEF Packets!TornTake, Packets!Torn, Packets!Reading, Queue, Readers, TornRead
  <1>4. QED
    BY <1>3 DEF ChannelStep, Packets!ChannelNext

\* Somebody is about to flush the channel.
LEMMA StepFail ==
  ASSUME NEW p \in Process, Readers' = [Readers EXCEPT ![p] = TornRead], Broken' <=> Broken,
         Queue' = Queue \/ (Queue # <<>> /\ Queue' = SubSeq(Queue, 2, Len(Queue)))
  PROVE  ChannelStep
  <1>1. UNCHANGED ("rx" \in core.skewed)
    BY DEF Broken
  <1>2. Packets!Fail(p)
    BY <1>1, Zenon
    DEF Packets!Fail, Packets!Torn, Packets!Reading, Queue, Readers, TornRead
  <1>3. QED
    BY <1>2 DEF ChannelStep, Packets!ChannelNext

\* He flushes it.
LEMMA StepFlush ==
  ASSUME NEW p \in Process, Readers[p] = TornRead, Queue' = <<>>, ~Broken',
         Readers' = [Teared EXCEPT ![p] = IdleRead]
  PROVE  ChannelStep
  <1>1. Packets!Flush(p)
    BY DEF Packets!Flush, Packets!TearAll, Packets!Idle, Packets!Torn, Packets!Reading,
           Queue, Readers, Broken, Teared, IdleRead, TornRead
  <1>2. QED
    BY <1>1 DEF ChannelStep, Packets!ChannelNext

\* The device flushes it.
LEMMA StepDeviceFlush ==
  ASSUME Queue' = <<>>, ~Broken', Readers' = Teared
  PROVE  ChannelStep
  <1>1. Packets!DeviceFlush
    BY DEF Packets!DeviceFlush, Packets!TearAll, Packets!Idle, Packets!Torn, Packets!Reading,
           Queue, Readers, Broken, Teared, IdleRead, TornRead
  <1>2. QED
    BY <1>1 DEF ChannelStep, Packets!ChannelNext

\* It is tampered with.
LEMMA StepTamper ==
  ASSUME Readers' = Readers, Broken'
  PROVE  ChannelStep
  <1>1. Packets!Tamper
    BY DEF Packets!Tamper, Readers, Broken
  <1>2. QED
    BY <1>1 DEF ChannelStep, Packets!ChannelNext

--------------------------------------------------------------------------------
(* steps that leave the receive side alone, or flush it                        *)

\* What a process at a place of the code is doing as a reader
Doing(at, x, ws, torn) ==
  IF at \in ResetPCs THEN TornRead
  ELSE IF at \notin ReadPCs THEN IdleRead
  ELSE IF torn THEN TornRead
  ELSE IF at = "read_len" THEN ReadyRead
  ELSE IF at = "read_return" THEN [state |-> "copied", packet |-> ws]
  ELSE [state |-> "taken", packet |-> WordsOf(x)]

\* The readers of the channel, before and after a step.
LEMMA ReadersNow ==
  ASSUME TypesInv
  PROVE  Readers = [p \in Process |-> Doing(pc[p], item[p], words[p], p \in disturbed)]
  <1>1. ASSUME NEW p \in Process
        PROVE  ReadOf(p) = Doing(pc[p], item[p], words[p], p \in disturbed)
    BY DEF TypesInv, ReadOf, Doing, TornRead, IdleRead, ReadyRead, ReadPCs, ResetPCs
  <1>2. QED
    BY <1>1 DEF Readers

\* The readers after a step.
LEMMA ReadersNext ==
  ASSUME TypesInv'
  PROVE  Readers' = [p \in Process |-> Doing(pc'[p], item'[p], words'[p], p \in disturbed')]
  <1>1. ASSUME NEW p \in Process
        PROVE  ReadOf(p)' = Doing(pc'[p], item'[p], words'[p], p \in disturbed')
    BY DEF TypesInv, ReadOf, Doing, TornRead, IdleRead, ReadyRead, ReadPCs, ResetPCs
  <1>2. QED
    BY <1>1 DEF Readers

\* A process that a step does not concern, and one that is not reading and does not
\* begin to.
Stays(q) ==
  /\ pc'[q] = pc[q] /\ item'[q] = item[q] /\ plan'[q] = plan[q] /\ words'[q] = words[q]
  /\ pc[q] \in ReadPCs => (q \in disturbed' <=> q \in disturbed)
Aside(q) == pc[q] \notin ReadPCs \cup ResetPCs /\ pc'[q] \notin ReadPCs

TablesKept == DOMAIN item' = Process /\ DOMAIN plan' = Process /\ DOMAIN words' = Process

\* Plans that a step does not touch stay right.
LEMMA PlanKept ==
  ASSUME PlanInv, \A q \in Process : Stays(q) \/ pc'[q] \notin {"read_word", "read_copy"}
  PROVE  PlanInv'
  BY DEF PlanInv, Loading, Stays

\* A step that leaves the receive side alone keeps its types.
LEMMA SameTypes ==
  ASSUME RxTypes, RxSame(core, core'), TablesKept
  PROVE  RxTypes'
  BY DEF RxTypes, RxSame, TablesKept

\* Claimed words keep their readers when no reader moves.
LEMMA OwnedKept ==
  ASSUME Owned, core'.claimed = core.claimed,
         \A q \in Process :
           \/ pc'[q] = pc[q] /\ item'[q] = item[q] /\ words'[q] = words[q]
           \/ pc[q] \notin ReadPCs \cup ResetPCs
  PROVE  Owned'
  <1> SUFFICES ASSUME \A q \in Process : pc'[q] \notin ResetPCs
               PROVE  \E own \in [1 .. core'.claimed -> Process \X Nat] :
                        /\ \A j \in 1 .. core'.claimed :
                             Loading(own[j][1])' /\ own[j][2] \in 1 .. Left(own[j][1])'
                        /\ \A j, k \in 1 .. core'.claimed : own[j] = own[k] => j = k
    BY DEF Owned
  <1>1. \A q \in Process : Loading(q) => Loading(q)' /\ Left(q)' = Left(q)
    BY DEF Loading, Left, ReadPCs
  <1>2. \A q \in Process : pc[q] \notin ResetPCs
    OBVIOUS
  <1>3. PICK own \in [1 .. core.claimed -> Process \X Nat] :
          /\ \A j \in 1 .. core.claimed :
               Loading(own[j][1]) /\ own[j][2] \in 1 .. Left(own[j][1])
          /\ \A j, k \in 1 .. core.claimed : own[j] = own[k] => j = k
    BY <1>2 DEF Owned
  <1>4. \A j \in 1 .. core.claimed :
          Loading(own[j][1])' /\ own[j][2] \in 1 .. Left(own[j][1])'
    BY <1>1, <1>3
  <1>5. QED
    BY <1>3, <1>4, Zenon

\* The receive side keeps its invariant.
LEMMA SameKeeps ==
  ASSUME ReadInv, RxSame(core, core'), \A q \in Process : Stays(q) \/ Aside(q)
  PROVE  ReadInv'
  <1> SUFFICES ASSUME "rx" \notin core'.skewed
               PROVE  /\ Framed(core'.rx, core'.lens, core'.claimed)
                      /\ Owned'
                      /\ \A p \in Process : pc'[p] \in ReadPCs /\ p \notin disturbed'
                                              => Undisturbed(p)'
    BY DEF ReadInv
  <1>1. /\ Framed(core.rx, core.lens, core.claimed)
        /\ Owned
        /\ \A p \in Process : pc[p] \in ReadPCs /\ p \notin disturbed => Undisturbed(p)
    BY DEF ReadInv, RxSame
  <1>2. Framed(core'.rx, core'.lens, core'.claimed)
    BY <1>1 DEF RxSame
  <1>3. ASSUME NEW q \in Process, pc[q] \in ReadPCs \/ pc'[q] \in ReadPCs
        PROVE  Stays(q)
    BY <1>3 DEF Stays, Aside
  <1>4. Owned'
    BY <1>1, OwnedKept DEF RxSame, Stays, Aside
  <1>5. ASSUME NEW p \in Process, pc'[p] \in ReadPCs, p \notin disturbed'
        PROVE  Undisturbed(p)'
    <2>1. Stays(p) /\ Undisturbed(p)
      BY <1>1, <1>3, <1>5 DEF Stays
    <2>2. \A q \in Process : pc'[q] \in ReadPCs => q = p
      BY <1>3, <2>1 DEF Stays, Undisturbed
    <2>3. Loading(p)' <=> Loading(p)
      BY <2>1 DEF Loading, Stays
    <2>4. Left(p)' = Left(p)
      BY <2>1 DEF Left, Stays
    <2>5. QED
      BY <2>1, <2>2, <2>3, <2>4 DEF Undisturbed, Stays, RxSame
  <1>6. QED
    BY <1>2, <1>4, <1>5

\* The queue of the channel depends on the lengths only.
LEMMA QueueKept ==
  ASSUME core'.lens = core.lens
  PROVE  Queue' = Queue
  BY DEF Queue

\* When all others stay, one reader at most changes.
LEMMA OthersRead ==
  ASSUME TypesInv, TypesInv', NEW p \in Process, \A q \in Process \ {p} : Stays(q)
  PROVE  Readers' = [Readers EXCEPT ![p] = Doing(pc'[p], item'[p], words'[p], p \in disturbed')]
  <1>1. \A q \in Process \ {p} :
          Doing(pc'[q], item'[q], words'[q], q \in disturbed')
            = Doing(pc[q], item[q], words[q], q \in disturbed)
    BY DEF Stays, Doing
  <1>2. QED
    BY <1>1, ReadersNow, ReadersNext

\* When all stay, none does.
LEMMA AllRead ==
  ASSUME TypesInv, TypesInv', \A q \in Process : Stays(q)
  PROVE  Readers' = Readers
  <1>1. \A q \in Process :
          Doing(pc'[q], item'[q], words'[q], q \in disturbed')
            = Doing(pc[q], item[q], words[q], q \in disturbed)
    BY DEF Stays, Doing
  <1>2. QED
    BY <1>1, ReadersNow, ReadersNext

\* The channel does not see it.
LEMMA AllStay ==
  ASSUME TypesInv, TypesInv', RxSame(core, core'), \A q \in Process : Stays(q)
  PROVE  ChannelStep
  BY AllRead, QueueKept, StepNone DEF RxSame, Broken

\* Nor does it see a process that is aside, unless the process is about to reset the core.
LEMMA OneAside ==
  ASSUME TypesInv, TypesInv', RxSame(core, core'), NEW p \in Process, Aside(p),
         \A q \in Process \ {p} : Stays(q)
  PROVE  ChannelStep
  <1>1. Queue' = Queue /\ (Broken' <=> Broken)
    BY QueueKept DEF RxSame, Broken
  <1>2. /\ Readers[p] = IdleRead
        /\ Doing(pc'[p], item'[p], words'[p], p \in disturbed') \in {IdleRead, TornRead}
    BY ReadersNow DEF Doing, Aside
  <1>3. Readers' = Readers \/ Readers' = [Readers EXCEPT ![p] = TornRead]
    BY <1>2, OthersRead, ReadersNow
  <1>4. QED
    BY <1>1, <1>3, StepNone, StepFail

\* A flush makes words and lengths agree.
LEMMA FlushKeeps ==
  ASSUME Flushed(core'), \A q \in Process : pc'[q] \in ReadPCs => q \in disturbed'
  PROVE  ReadInv'
  <1>1. Framed(core'.rx, core'.lens, core'.claimed)
    <2>1. FramedBy(<<>>, <<>>, 0, [i \in 0 .. 0 |-> 0])
      BY DEF FramedBy
    <2>2. [i \in 0 .. 0 |-> 0] \in [0 .. Len(<<>>) -> Nat]
      OBVIOUS
    <2>3. Framed(<<>>, <<>>, 0)
      BY <2>1, <2>2 DEF Framed
    <2>4. QED
      BY <2>3 DEF Flushed
  <1>2. Owned'
    <2>1. core'.claimed = 0
      BY DEF Flushed
    <2>2. \E own \in [1 .. core'.claimed -> Process \X Nat] :
            /\ \A j \in 1 .. core'.claimed :
                 Loading(own[j][1])' /\ own[j][2] \in 1 .. Left(own[j][1])'
            /\ \A j, k \in 1 .. core'.claimed : own[j] = own[k] => j = k
      <3>1. [j \in 1 .. 0 |-> <<>>] \in [1 .. 0 -> Process \X Nat]
        OBVIOUS
      <3>2. \A j \in 1 .. 0 : FALSE
        OBVIOUS
      <3>3. QED
        BY <2>1, <3>1, <3>2
    <2>3. QED
      BY <2>2 DEF Owned
  <1>3. QED
    BY <1>1, <1>2 DEF ReadInv

\* A flush keeps the types.
LEMMA FlushTypes ==
  ASSUME Flushed(core'), TablesKept
  PROVE  RxTypes'
  BY DEF Flushed, TablesKept, RxTypes

\* It empties the queue and mends the channel.
LEMMA FlushedQueue ==
  ASSUME Flushed(core')
  PROVE  Queue' = <<>> /\ ~Broken'
  BY DEF Flushed, Queue, Broken

\* A flush that the readers do not expect is one of the device.
LEMMA FlushByDevice ==
  ASSUME TypesInv, TypesInv', Flushed(core'),
         \A q \in Process :
           /\ \/ pc'[q] = pc[q]
              \/ pc[q] \notin ReadPCs \cup ResetPCs /\ pc'[q] \notin ReadPCs \cup ResetPCs
           /\ pc[q] \in ReadPCs => q \in disturbed'
  PROVE  ChannelStep
  <1>1. Readers' = Teared
    BY ReadersNow, ReadersNext DEF Teared, Doing, IdleRead, TornRead, ReadyRead
  <1>2. QED
    BY <1>1, FlushedQueue, StepDeviceFlush

\* One by a process about to reset the core is that of the channel.
LEMMA FlushByReset ==
  ASSUME TypesInv, TypesInv', Flushed(core'),
         NEW p \in Process, pc[p] \in ResetPCs, pc'[p] \notin ReadPCs \cup ResetPCs,
         \A q \in Process \ {p} : pc'[q] = pc[q] /\ (pc[q] \in ReadPCs => q \in disturbed')
  PROVE  ChannelStep
  <1>1. Readers[p] = TornRead
    BY ReadersNow DEF Doing
  <1>2. Readers' = [Teared EXCEPT ![p] = IdleRead]
    BY ReadersNow, ReadersNext DEF Teared, Doing, IdleRead, TornRead, ReadyRead
  <1>3. QED
    BY <1>1, <1>2, FlushedQueue, StepFlush

--------------------------------------------------------------------------------
(* words and lengths of the receive FIFO                                       *)

\* The words of a packet.
LEMMA PacketWords ==
  ASSUME NEW x \in Payload
  PROVE  /\ WordsIn(Bytes[x]) \in Nat \ {0}
         /\ WordsOf(x) \in Seq(Word)
         /\ Len(WordsOf(x)) = WordsIn(Bytes[x])
         /\ \A i \in 1 .. WordsIn(Bytes[x]) : WordsOf(x)[i] = <<x, i>>
  <1>1. PICK n : n = WordsIn(Bytes[x])
    OBVIOUS
  <1>2. n \in Nat \ {0}
    BY <1>1, WordCount, ConstantsAssumption
  <1>3. WordsOf(x) = [i \in 1 .. n |-> <<x, i>>]
    BY <1>1 DEF WordsOf
  <1>4. \A i \in 1 .. n : <<x, i>> \in Word
    BY <1>2 DEF Word
  <1>5. PICK ws : ws = [i \in 1 .. n |-> <<x, i>>]
    OBVIOUS
  <1>6. ws \in [1 .. n -> Word]
    BY <1>4, <1>5
  <1>7. ws \in Seq(Word) /\ Len(ws) = n
    BY <1>2, <1>6
  <1>8. \A i \in 1 .. n : ws[i] = <<x, i>>
    BY <1>5
  <1>9. QED
    BY <1>1, <1>2, <1>3, <1>5, <1>7, <1>8

\* What it means to be framed, for one of the packets.
FramedAt(rx, claimed, x, b, before) ==
  /\ x \in Payload
  /\ before \in Nat /\ b \in Nat
  /\ WordsIn(Bytes[x]) \in Nat \ {0}
  /\ before = b + WordsIn(Bytes[x])
  /\ \A j \in 1 .. WordsIn(Bytes[x]) :
       /\ rx[Len(rx) - before + j] = <<x, j>>
       /\ Len(rx) - before + j \in claimed + 1 .. Len(rx)

\* A packet in the FIFO has its words there, behind those that have been claimed.
LEMMA FramedFacts ==
  ASSUME NEW rx \in Seq(Word), NEW lens \in Seq(Payload), NEW claimed \in Nat,
         NEW behind \in [0 .. Len(lens) -> Nat], FramedBy(rx, lens, claimed, behind),
         NEW i \in 1 .. Len(lens)
  PROVE  FramedAt(rx, claimed, lens[i], behind[i], behind[i-1])
  <1>1. lens[i] \in Payload /\ WordsIn(Bytes[lens[i]]) \in Nat \ {0}
    BY PacketWords
  <1>2. i - 1 \in 0 .. Len(lens) /\ i \in 0 .. Len(lens) /\ 0 \in 0 .. Len(lens)
    OBVIOUS
  <1>3. behind[i-1] \in Nat /\ behind[i] \in Nat /\ behind[0] \in Nat
    BY <1>2
  <1>4. behind[i-1] <= behind[0]
    BY <1>2 DEF FramedBy
  <1>5. Len(rx) = claimed + behind[0]
    BY DEF FramedBy
  <1>6. /\ behind[i-1] = behind[i] + WordsIn(Bytes[lens[i]])
        /\ \A j \in 1 .. WordsIn(Bytes[lens[i]]) :
             rx[Len(rx) - behind[i-1] + j] = <<lens[i], j>>
    BY DEF FramedBy
  <1>7. ASSUME NEW j \in 1 .. WordsIn(Bytes[lens[i]])
        PROVE  Len(rx) - behind[i-1] + j \in claimed + 1 .. Len(rx)
    <2>1. PICK m : m = Len(rx)
      OBVIOUS
    <2>2. PICK b : b = behind[i-1]
      OBVIOUS
    <2>3. PICK e : e = behind[i]
      OBVIOUS
    <2>4. PICK z : z = behind[0]
      OBVIOUS
    <2>5. PICK w : w = WordsIn(Bytes[lens[i]])
      OBVIOUS
    <2>6. /\ m = claimed + z /\ b \in Nat /\ z \in Nat /\ e \in Nat /\ b <= z
          /\ w \in Nat /\ b = e + w /\ j \in 1 .. w
      BY <1>1, <1>3, <1>4, <1>5, <1>6, <2>1, <2>2, <2>3, <2>4, <2>5
    <2>7. m - b + j \in claimed + 1 .. m
      BY <2>6
    <2>8. QED
      BY <2>1, <2>2, <2>7
  <1>8. QED
    BY <1>1, <1>3, <1>6, <1>7, Zenon DEF FramedAt

\* The ends of the list of packets.
LEMMA FramedEnds ==
  ASSUME NEW rx \in Seq(Word), NEW lens \in Seq(Payload), NEW claimed \in Nat,
         NEW behind \in [0 .. Len(lens) -> Nat], FramedBy(rx, lens, claimed, behind)
  PROVE  /\ behind[Len(lens)] = 0 /\ Len(rx) = claimed + behind[0]
         /\ \A i \in 0 .. Len(lens) : behind[i] \in Nat
         /\ \A i \in 0 .. Len(lens) : \A j \in i .. Len(lens) : behind[j] <= behind[i]
         /\ claimed <= Len(rx)
  <1>1. /\ behind[Len(lens)] = 0 /\ Len(rx) = claimed + behind[0]
        /\ \A i \in 0 .. Len(lens) : \A j \in i .. Len(lens) : behind[j] <= behind[i]
    BY Zenon DEF FramedBy
  <1>2. \A i \in 0 .. Len(lens) : behind[i] \in Nat
    OBVIOUS
  <1>3. behind[0] \in Nat
    BY <1>2
  <1>4. claimed <= Len(rx)
    BY <1>1, <1>3
  <1>5. QED
    BY <1>1, <1>2, <1>4

\* Put together again.
LEMMA FramedIf ==
  ASSUME NEW rx \in Seq(Word), NEW lens \in Seq(Payload), NEW claimed \in Nat,
         NEW behind \in [0 .. Len(lens) -> Nat],
         behind[Len(lens)] = 0, Len(rx) = claimed + behind[0],
         \A i \in 0 .. Len(lens) : \A j \in i .. Len(lens) : behind[j] <= behind[i],
         \A i \in 1 .. Len(lens) :
           /\ behind[i-1] = behind[i] + WordsIn(Bytes[lens[i]])
           /\ \A j \in 1 .. WordsIn(Bytes[lens[i]]) :
                rx[Len(rx) - behind[i-1] + j] = <<lens[i], j>>
  PROVE  Framed(rx, lens, claimed)
  <1>1. FramedBy(rx, lens, claimed, behind)
    BY Zenon DEF FramedBy
  <1>2. QED
    BY <1>1, Zenon DEF Framed

\* A packet that arrives stands behind all others.
LEMMA FramedArrive ==
  ASSUME NEW rx \in Seq(Word), NEW lens \in Seq(Payload), NEW claimed \in Nat,
         NEW x \in Payload, Framed(rx, lens, claimed)
  PROVE  Framed(rx \o WordsOf(x), Append(lens, x), claimed)
  <1>1. PICK n : n = WordsIn(Bytes[x])
    OBVIOUS
  <1>2. PICK l \in Nat : l = Len(lens)
    OBVIOUS
  <1>3. PICK m \in Nat : m = Len(rx)
    OBVIOUS
  <1>4. PICK behind \in [0 .. Len(lens) -> Nat] : FramedBy(rx, lens, claimed, behind)
    BY DEF Framed
  <1>5. PICK more : more = rx \o WordsOf(x)
    OBVIOUS
  <1>6. PICK last : last = Append(lens, x)
    OBVIOUS
  <1>7. PICK further : further = [i \in 0 .. l + 1 |-> IF i <= l THEN behind[i] + n ELSE 0]
    OBVIOUS
  <1>8. n \in Nat \ {0}
    BY <1>1, PacketWords
  <1>9. /\ more \in Seq(Word) /\ Len(more) = m + n
        /\ \A i \in 1 .. m : more[i] = rx[i]
        /\ \A i \in 1 .. n : more[m + i] = <<x, i>>
    <2>1. PICK ws : ws = WordsOf(x)
      OBVIOUS
    <2>2. ws \in Seq(Word) /\ Len(ws) = n /\ \A i \in 1 .. n : ws[i] = <<x, i>>
      BY <1>1, <2>1, PacketWords
    <2>3. /\ rx \o ws \in Seq(Word)
          /\ Len(rx \o ws) = Len(rx) + Len(ws)
          /\ \A i \in 1 .. Len(rx) + Len(ws) :
               (rx \o ws)[i] = IF i <= Len(rx) THEN rx[i] ELSE ws[i - Len(rx)]
      BY <2>2, ConcatProperties
    <2>4. /\ more \in Seq(Word) /\ Len(more) = m + n
          /\ \A i \in 1 .. m + n : more[i] = IF i <= m THEN rx[i] ELSE ws[i - m]
      BY <1>3, <1>5, <2>1, <2>2, <2>3
    <2>5. ASSUME NEW i \in 1 .. n
          PROVE  more[m + i] = <<x, i>>
      <3>1. m + i \in 1 .. m + n /\ ~(m + i <= m) /\ (m + i) - m = i
        BY <1>8
      <3>2. QED
        BY <2>2, <2>4, <3>1
    <2>6. \A i \in 1 .. m : i \in 1 .. m + n /\ i <= m
      BY <1>8
    <2>7. QED
      BY <2>4, <2>5, <2>6
  <1>10. /\ last \in Seq(Payload) /\ Len(last) = l + 1
         /\ \A i \in 1 .. l : last[i] = lens[i]
         /\ last[l + 1] = x
    BY <1>2, <1>6
  <1>11. /\ behind[l] = 0 /\ m = claimed + behind[0]
         /\ \A i \in 0 .. l : behind[i] \in Nat
         /\ \A i \in 0 .. l : \A j \in i .. l : behind[j] <= behind[i]
    BY <1>2, <1>3, <1>4, FramedEnds
  <1>12. /\ further \in [0 .. l + 1 -> Nat]
         /\ \A i \in 0 .. l : further[i] = behind[i] + n
         /\ further[l + 1] = 0
    <2>1. \A i \in 0 .. l + 1 : i <= l => i \in 0 .. l
      OBVIOUS
    <2>2. \A i \in 0 .. l + 1 : (IF i <= l THEN behind[i] + n ELSE 0) \in Nat
      BY <1>8, <1>11, <2>1
    <2>3. QED
      BY <1>7, <2>2
  <1>13. m + n = claimed + further[0]
    <2>1. behind[0] \in Nat /\ further[0] = behind[0] + n
      BY <1>11, <1>12
    <2>2. QED
      BY <1>8, <1>11, <2>1
  <1>14. ASSUME NEW i \in 0 .. l + 1, NEW j \in i .. l + 1
         PROVE  further[j] <= further[i]
    <2>1. CASE j = l + 1
      <3>1. further[j] = 0 /\ further[i] \in Nat
        BY <1>12, <2>1
      <3>2. QED
        BY <3>1
    <2>2. CASE i \in 0 .. l /\ j \in i .. l
      <3>1. j \in 0 .. l
        BY <2>2
      <3>2. /\ behind[j] <= behind[i] /\ behind[i] \in Nat /\ behind[j] \in Nat
            /\ further[j] = behind[j] + n /\ further[i] = behind[i] + n
        BY <1>11, <1>12, <2>2, <3>1
      <3>3. QED
        BY <1>8, <3>2
    <2>3. QED
      BY <2>1, <2>2
  <1>15. ASSUME NEW i \in 1 .. l + 1
         PROVE  /\ further[i-1] = further[i] + WordsIn(Bytes[last[i]])
                /\ \A j \in 1 .. WordsIn(Bytes[last[i]]) :
                     more[Len(more) - further[i-1] + j] = <<last[i], j>>
    <2>1. CASE i \in 1 .. l
      <3>1. PICK w : w = WordsIn(Bytes[lens[i]])
        OBVIOUS
      <3>2. /\ behind[i-1] \in Nat /\ behind[i] \in Nat
            /\ w \in Nat \ {0} /\ behind[i-1] = behind[i] + w
            /\ \A j \in 1 .. w : /\ rx[m - behind[i-1] + j] = <<lens[i], j>>
                                 /\ m - behind[i-1] + j \in claimed + 1 .. m
        <4>1. i \in 1 .. Len(lens)
          BY <1>2, <2>1
        <4>2. FramedAt(rx, claimed, lens[i], behind[i], behind[i-1])
          BY <1>4, <4>1, FramedFacts
        <4>3. QED
          BY <1>3, <3>1, <4>2 DEF FramedAt
      <3>3. further[i-1] = behind[i-1] + n /\ further[i] = behind[i] + n /\ last[i] = lens[i]
        <4>1. i - 1 \in 0 .. l /\ i \in 0 .. l
          BY <2>1
        <4>2. QED
          BY <1>10, <1>12, <2>1, <4>1
      <3>4. ASSUME NEW j \in 1 .. w
            PROVE  more[Len(more) - further[i-1] + j] = <<lens[i], j>>
        <4>1. PICK k : k = m - behind[i-1] + j
          OBVIOUS
        <4>2. Len(more) - further[i-1] + j = k
          <5>1. PICK b \in Nat : b = behind[i-1] /\ further[i-1] = b + n
            BY <3>2, <3>3
          <5>2. j \in Nat
            OBVIOUS
          <5>3. QED
            BY <1>8, <1>9, <4>1, <5>1, <5>2, SMTT(30)
        <4>3. k \in 1 .. m /\ rx[k] = <<lens[i], j>>
          <5>1. k \in claimed + 1 .. m /\ rx[k] = <<lens[i], j>>
            BY <3>2, <4>1, ZenonT(30)
          <5>2. QED
            BY <5>1
        <4>4. QED
          BY <1>9, <4>2, <4>3
      <3>5. further[i-1] = further[i] + w
        BY <1>8, <3>2, <3>3
      <3>6. QED
        BY <3>1, <3>3, <3>4, <3>5
    <2>2. CASE i = l + 1
      <3>1. i - 1 = l /\ l \in 0 .. l
        BY <2>2
      <3>2. further[i-1] = n /\ further[i] = 0 /\ last[i] = x
        BY <1>8, <1>10, <1>11, <1>12, <2>2, <3>1
      <3>3. \A j \in 1 .. n : Len(more) - n + j = m + j
        BY <1>8, <1>9
      <3>4. further[i-1] = further[i] + n
        BY <1>8, <3>2
      <3>5. \A j \in 1 .. n : more[Len(more) - further[i-1] + j] = <<last[i], j>>
        BY <1>9, <3>2, <3>3
      <3>6. QED
        BY <1>1, <3>2, <3>4, <3>5
    <2>3. QED
      BY <2>1, <2>2
  <1>16. Framed(more, last, claimed)
    <2>1. more \in Seq(Word) /\ last \in Seq(Payload) /\ further \in [0 .. Len(last) -> Nat]
      BY <1>9, <1>10, <1>12
    <2>2. further[Len(last)] = 0 /\ Len(more) = claimed + further[0]
      BY <1>9, <1>10, <1>12, <1>13
    <2>3. \A i \in 0 .. Len(last) : \A j \in i .. Len(last) : further[j] <= further[i]
      BY <1>10, <1>14
    <2>4. \A i \in 1 .. Len(last) :
            /\ further[i-1] = further[i] + WordsIn(Bytes[last[i]])
            /\ \A j \in 1 .. WordsIn(Bytes[last[i]]) :
                 more[Len(more) - further[i-1] + j] = <<last[i], j>>
      <3>1. Len(more) = m + n /\ Len(last) = l + 1
        BY <1>9, <1>10
      <3>2. QED
        BY <1>15, <3>1
    <2>5. QED
      BY <2>1, <2>2, <2>3, <2>4, FramedIf, Zenon
  <1>17. QED
    BY <1>5, <1>6, <1>16

\* Reading a length claims the words of its packet, the next in the FIFO.
LEMMA FramedLength ==
  ASSUME NEW rx \in Seq(Word), NEW lens \in Seq(Payload), NEW claimed \in Nat,
         lens # <<>>, Framed(rx, lens, claimed)
  PROVE  /\ Framed(rx, Tail(lens), claimed + WordsIn(Bytes[Head(lens)]))
         /\ claimed = 0 =>
              \A i \in 1 .. WordsIn(Bytes[Head(lens)]) : rx[i] = <<Head(lens), i>>
  <1>1. PICK n : n = WordsIn(Bytes[Head(lens)])
    OBVIOUS
  <1>2. PICK l \in Nat \ {0} : l = Len(lens)
    OBVIOUS
  <1>3. PICK m \in Nat : m = Len(rx)
    OBVIOUS
  <1>4. PICK behind \in [0 .. Len(lens) -> Nat] : FramedBy(rx, lens, claimed, behind)
    BY DEF Framed
  <1>5. PICK less : less = Tail(lens)
    OBVIOUS
  <1>6. PICK nearer : nearer = [i \in 0 .. l - 1 |-> behind[i + 1]]
    OBVIOUS
  <1>7. n \in Nat \ {0} /\ Head(lens) = lens[1]
    BY <1>1, PacketWords
  <1>8. /\ less \in Seq(Payload) /\ Len(less) = l - 1
        /\ \A i \in 1 .. l - 1 : less[i] = lens[i + 1]
    BY <1>2, <1>5
  <1>9. /\ behind[l] = 0 /\ m = claimed + behind[0]
        /\ \A i \in 0 .. l : behind[i] \in Nat
        /\ \A i \in 0 .. l : \A j \in i .. l : behind[j] <= behind[i]
    BY <1>2, <1>3, <1>4, FramedEnds
  <1>10. /\ behind[0] = behind[1] + n /\ behind[0] \in Nat /\ behind[1] \in Nat
         /\ \A j \in 1 .. n : rx[m - behind[0] + j] = <<lens[1], j>>
    <2>1. PICK k \in 1 .. Len(lens) : k = 1 /\ k - 1 = 0
      BY <1>2
    <2>2. FramedAt(rx, claimed, lens[k], behind[k], behind[k-1])
      BY <1>4, FramedFacts
    <2>3. FramedAt(rx, claimed, lens[1], behind[1], behind[0])
      BY <2>1, <2>2
    <2>4. QED
      BY <1>1, <1>3, <1>7, <2>3 DEF FramedAt
  <1>11. /\ nearer \in [0 .. l - 1 -> Nat]
         /\ \A i \in 0 .. l - 1 : nearer[i] = behind[i + 1]
    BY <1>6, <1>9
  <1>12. nearer[l - 1] = 0 /\ m = claimed + n + nearer[0]
    <2>1. l - 1 \in 0 .. l - 1 /\ (l - 1) + 1 = l /\ 0 \in 0 .. l - 1
      OBVIOUS
    <2>2. nearer[l - 1] = 0 /\ nearer[0] = behind[1]
      BY <1>9, <1>11, <2>1
    <2>3. QED
      BY <1>7, <1>9, <1>10, <2>2, SMTT(30)
  <1>13. ASSUME NEW i \in 0 .. l - 1, NEW j \in i .. l - 1
         PROVE  nearer[j] <= nearer[i]
    <2>1. i + 1 \in 0 .. l /\ j + 1 \in i + 1 .. l /\ j \in 0 .. l - 1
      OBVIOUS
    <2>2. QED
      BY <1>9, <1>11, <2>1
  <1>14. ASSUME NEW i \in 1 .. l - 1
         PROVE  /\ nearer[i-1] = nearer[i] + WordsIn(Bytes[less[i]])
                /\ \A j \in 1 .. WordsIn(Bytes[less[i]]) :
                     rx[m - nearer[i-1] + j] = <<less[i], j>>
    <2>1. i - 1 \in 0 .. l - 1 /\ i \in 0 .. l - 1 /\ (i - 1) + 1 = i
      OBVIOUS
    <2>2. nearer[i-1] = behind[i] /\ nearer[i] = behind[i+1] /\ less[i] = lens[i+1]
      BY <1>8, <1>11, <2>1
    <2>3. i + 1 \in 1 .. Len(lens) /\ (i + 1) - 1 = i
      BY <1>2
    <2>4. /\ behind[i] = behind[i + 1] + WordsIn(Bytes[lens[i + 1]])
          /\ \A j \in 1 .. WordsIn(Bytes[lens[i + 1]]) :
               rx[m - behind[i] + j] = <<lens[i + 1], j>>
      <3>1. PICK k \in 1 .. Len(lens) : k = i + 1
        BY <2>3
      <3>2. FramedAt(rx, claimed, lens[k], behind[k], behind[k-1])
        BY <1>4, FramedFacts
      <3>3. FramedAt(rx, claimed, lens[i+1], behind[i+1], behind[i])
        BY <2>3, <3>1, <3>2
      <3>4. QED
        BY <1>3, <3>3 DEF FramedAt
    <2>5. QED
      BY <2>2, <2>4
  <1>15. claimed + n \in Nat
    BY <1>7
  <1>16. Framed(rx, less, claimed + n)
    <2>1. less \in Seq(Payload) /\ nearer \in [0 .. Len(less) -> Nat]
      BY <1>8, <1>11
    <2>2. nearer[Len(less)] = 0 /\ Len(rx) = claimed + n + nearer[0]
      BY <1>3, <1>8, <1>12
    <2>3. \A i \in 0 .. Len(less) : \A j \in i .. Len(less) : nearer[j] <= nearer[i]
      BY <1>8, <1>13
    <2>4. \A i \in 1 .. Len(less) :
            /\ nearer[i-1] = nearer[i] + WordsIn(Bytes[less[i]])
            /\ \A j \in 1 .. WordsIn(Bytes[less[i]]) :
                 rx[Len(rx) - nearer[i-1] + j] = <<less[i], j>>
      BY <1>3, <1>8, <1>14
    <2>5. QED
      BY <1>15, <2>1, <2>2, <2>3, <2>4, FramedIf, Zenon
  <1>17. ASSUME claimed = 0, NEW i \in 1 .. n
         PROVE  rx[i] = <<lens[1], i>>
    <2>1. m - behind[0] + i = i
      BY <1>7, <1>9, <1>10, <1>17
    <2>2. QED
      BY <1>10, <2>1
  <1>18. QED
    BY <1>1, <1>5, <1>7, <1>16, <1>17

\* Words that have been claimed are there, and reading one leaves the packets behind.
LEMMA FramedWord ==
  ASSUME NEW rx \in Seq(Word), NEW lens \in Seq(Payload), NEW claimed \in Nat \ {0},
         Framed(rx, lens, claimed)
  PROVE  /\ rx # <<>> /\ claimed <= Len(rx)
         /\ Framed(Tail(rx), lens, claimed - 1)
  <1>1. PICK m \in Nat : m = Len(rx)
    OBVIOUS
  <1>2. PICK behind \in [0 .. Len(lens) -> Nat] : FramedBy(rx, lens, claimed, behind)
    BY DEF Framed
  <1>3. /\ behind[Len(lens)] = 0 /\ m = claimed + behind[0] /\ claimed <= m
        /\ behind[0] \in Nat
        /\ \A i \in 0 .. Len(lens) : \A j \in i .. Len(lens) : behind[j] <= behind[i]
    BY <1>1, <1>2, FramedEnds
  <1>4. m \in Nat \ {0} /\ rx # <<>>
    <2>1. m >= 1
      BY <1>3
    <2>2. QED
      BY <1>1, <2>1
  <1>5. PICK less : less = Tail(rx)
    OBVIOUS
  <1>6. less \in Seq(Word) /\ Len(less) = m - 1 /\ \A i \in 1 .. m - 1 : less[i] = rx[i + 1]
    BY <1>1, <1>4, <1>5
  <1>7. ASSUME NEW i \in 1 .. Len(lens)
        PROVE  /\ behind[i-1] = behind[i] + WordsIn(Bytes[lens[i]])
               /\ \A j \in 1 .. WordsIn(Bytes[lens[i]]) :
                    less[m - 1 - behind[i-1] + j] = <<lens[i], j>>
    <2>1. PICK w : w = WordsIn(Bytes[lens[i]])
      OBVIOUS
    <2>2. /\ behind[i-1] \in Nat /\ WordsIn(Bytes[lens[i]]) \in Nat \ {0}
          /\ behind[i-1] = behind[i] + WordsIn(Bytes[lens[i]])
          /\ \A j \in 1 .. WordsIn(Bytes[lens[i]]) :
               /\ rx[Len(rx) - behind[i-1] + j] = <<lens[i], j>>
               /\ Len(rx) - behind[i-1] + j \in claimed + 1 .. Len(rx)
      <3>1. FramedAt(rx, claimed, lens[i], behind[i], behind[i-1])
        BY <1>2, FramedFacts
      <3>2. QED
        BY <3>1 DEF FramedAt
    <2>3. ASSUME NEW j \in 1 .. w
          PROVE  less[m - 1 - behind[i-1] + j] = <<lens[i], j>>
      <3>1. PICK b \in Nat : b = behind[i-1]
        BY <2>2
      <3>2. PICK k : k = m - b + j
        OBVIOUS
      <3>3. k \in claimed + 1 .. m /\ rx[k] = <<lens[i], j>>
        BY <1>1, <2>1, <2>2, <3>1, <3>2, Zenon
      <3>4. j \in Nat
        BY <2>1, <2>2
      <3>5. m - 1 - b + j = k - 1
        BY <3>2, <3>4
      <3>6. k - 1 \in 1 .. m - 1 /\ (k - 1) + 1 = k
        BY <3>3
      <3>7. QED
        BY <1>6, <3>1, <3>3, <3>5, <3>6
    <2>4. QED
      BY <2>1, <2>2, <2>3
  <1>8. m - 1 = claimed - 1 + behind[0] /\ claimed - 1 \in Nat
    BY <1>3
  <1>9. Framed(less, lens, claimed - 1)
    <2>1. less \in Seq(Word) /\ Len(less) = claimed - 1 + behind[0]
      BY <1>6, <1>8
    <2>2. \A i \in 1 .. Len(lens) :
            /\ behind[i-1] = behind[i] + WordsIn(Bytes[lens[i]])
            /\ \A j \in 1 .. WordsIn(Bytes[lens[i]]) :
                 less[Len(less) - behind[i-1] + j] = <<lens[i], j>>
      BY <1>6, <1>7
    <2>3. QED
      BY <1>2, <1>3, <1>8, <2>1, <2>2, FramedIf, Zenon
  <1>10. QED
    BY <1>1, <1>3, <1>4, <1>5, <1>9

\* With nothing claimed, words in the FIFO are those of a packet.
LEMMA FramedPacket ==
  ASSUME NEW rx \in Seq(Word), NEW lens \in Seq(Payload), Framed(rx, lens, 0), Len(rx) > 0
  PROVE  lens # <<>>
  BY DEF Framed, FramedBy

--------------------------------------------------------------------------------
(* every step keeps the invariant and is a step of the channel                 *)

Kept == RxTypes' /\ PlanInv' /\ ReadInv' /\ ChannelStep

\* A packet arrives.
LEMMA ArriveKept ==
  ASSUME ChannelInv, TypesInv', NEW x \in Payload, Arrive(x)
  PROVE  Kept
  <1> USE DEF ChannelInv
  <1>1. /\ DOMAIN core' = Fields
        /\ core'.rx = core.rx \o WordsOf(x)
        /\ core'.lens = Append(core.lens, x)
        /\ core'.claimed = core.claimed
        /\ "rx" \in core'.skewed <=> "rx" \in core.skewed
    BY DEF Arrive, Raise, RxTypes, Fields
  <1>2. /\ core.rx \in Seq(Word) /\ core.lens \in Seq(Payload) /\ core.claimed \in Nat
        /\ WordsOf(x) \in Seq(Word)
    BY PacketWords DEF RxTypes
  <1>3. /\ UNCHANGED <<pc, item, plan, words, disturbed>>
    BY Zenon DEF Arrive, transferVars
  <1>4. \A q \in Process : Stays(q)
    BY <1>3 DEF Stays
  <1>5. RxTypes'
    BY <1>1, <1>2, <1>3 DEF RxTypes
  <1>6. PlanInv'
    BY <1>4, PlanKept
  <1>7. ReadInv'
    <2> SUFFICES ASSUME "rx" \notin core'.skewed
                 PROVE  /\ Framed(core'.rx, core'.lens, core'.claimed)
                        /\ Owned'
                        /\ \A p \in Process : pc'[p] \in ReadPCs /\ p \notin disturbed'
                                                => Undisturbed(p)'
      BY DEF ReadInv
    <2>1. /\ Framed(core.rx, core.lens, core.claimed)
          /\ Owned
          /\ \A p \in Process : pc[p] \in ReadPCs /\ p \notin disturbed => Undisturbed(p)
      BY <1>1 DEF ReadInv
    <2>2. Framed(core'.rx, core'.lens, core'.claimed)
      BY <1>1, <1>2, <2>1, FramedArrive
    <2>3. Owned'
      BY <1>1, <1>3, <2>1, OwnedKept
    <2>4. core.claimed <= Len(core.rx)
      BY <1>2, <2>1, FramedEnds DEF Framed
    <2>5. \A i \in 1 .. core.claimed : core'.rx[i] = core.rx[i]
      BY <1>1, <1>2, <2>4
    <2>6. core'.lens # <<>>
      <3>1. \A s \in Seq(Payload) : Append(s, x) # <<>>
        BY AppendProperties
      <3>2. QED
        BY <1>1, <1>2, <3>1
    <2>7. \A p \in Process : pc'[p] \in ReadPCs /\ p \notin disturbed' => Undisturbed(p)'
      BY <1>1, <1>3, <2>1, <2>5, <2>6 DEF Undisturbed, Loading, Left
    <2>8. QED
      BY <2>2, <2>3, <2>7
  <1>8. ChannelStep
    <2>1. Queue' = Append(Queue, WordsOf(x))
      BY <1>1, <1>2 DEF Queue
    <2>2. Readers' = Readers
      BY <1>4, AllRead DEF DriverInv
    <2>3. QED
      BY <1>1, <2>1, <2>2, StepArrive DEF Broken
  <1>9. QED
    BY <1>5, <1>6, <1>7, <1>8 DEF Kept

\* A read passes its check and begins, alone or among others.
LEMMA BeginKept ==
  ASSUME ChannelInv, TypesInv', NEW p \in Process, pc[p] \notin ReadPCs \cup ResetPCs,
         CanRead, pc' = [pc EXCEPT ![p] = "read_len"], Joins(p, InRead),
         UNCHANGED <<core, item, plan, words>>
  PROVE  Kept
  <1> USE DEF ChannelInv
  <1>1. TypesInv /\ pc'[p] = "read_len" /\ \A q \in Process \ {p} : pc'[q] = pc[q]
    BY DEF DriverInv, TypesInv
  <1>2. RxTypes'
    BY DEF RxTypes
  <1>3. PlanInv'
    BY <1>1 DEF PlanInv, Loading
  <1>4. Readers = [q \in Process |-> Doing(pc[q], item[q], words[q], q \in disturbed)]
    BY <1>1, ReadersNow
  <1>5. \A q \in Process : Readers[q] = IdleRead <=> q \notin InRead
    BY <1>4 DEF Doing, InRead, IdleRead, TornRead, ReadyRead
  <1>6. /\ core.rx \in Seq(Word) /\ core.lens \in Seq(Payload) /\ core.claimed \in Nat
        /\ Len(core.rx) > 0
    BY DEF RxTypes, CanRead, Occupancy
  <1>7. Queue' = Queue /\ (Broken' <=> Broken)
    BY DEF Queue, Broken
  <1>8. CASE InRead = {}
    <2>1. disturbed' = disturbed \ {p}
      BY <1>8 DEF Joins
    <2>2. \A q \in Process \ {p} : pc[q] \notin ReadPCs \cup ResetPCs /\ Stays(q)
      BY <1>1, <1>8, <2>1 DEF InRead, Stays
    <2>3. Readers' = [Readers EXCEPT ![p] = ReadyRead]
      BY <1>1, <2>1, <2>2, OthersRead DEF Doing, ReadPCs, ResetPCs
    <2>4. ASSUME ~Broken
          PROVE  core.claimed = 0 /\ core.lens # <<>>
      <3>1. Framed(core.rx, core.lens, core.claimed) /\ Owned
        BY <2>4 DEF ReadInv, Broken
      <3>2. core.claimed = 0
        <4>1. PICK own \in [1 .. core.claimed -> Process \X Nat] :
                \A j \in 1 .. core.claimed : Loading(own[j][1])
          BY <1>8, <3>1 DEF Owned, InRead
        <4>2. \A q \in Process : ~Loading(q)
          BY <1>8 DEF Loading, InRead, ReadPCs
        <4>3. core.claimed >= 1 => own[1][1] \in Process /\ Loading(own[1][1])
          <5>1. core.claimed >= 1 => 1 \in 1 .. core.claimed
            BY <1>6
          <5>2. QED
            BY <4>1, <5>1
        <4>4. QED
          BY <1>6, <4>2, <4>3
      <3>3. QED
        BY <1>6, <3>1, <3>2, FramedPacket
    <2>5. ReadInv'
      <3> SUFFICES ASSUME ~Broken
                   PROVE  /\ Framed(core'.rx, core'.lens, core'.claimed)
                          /\ Owned'
                          /\ \A q \in Process : pc'[q] \in ReadPCs /\ q \notin disturbed'
                                                  => Undisturbed(q)'
        BY DEF ReadInv, Broken
      <3>1. Framed(core'.rx, core'.lens, core'.claimed) /\ Owned
        BY DEF ReadInv, Broken
      <3>2. Owned'
        BY <1>1, <3>1, OwnedKept
      <3>3. Undisturbed(p)'
        BY <1>1, <2>2, <2>4 DEF Undisturbed, Loading
      <3>4. QED
        BY <1>1, <2>2, <3>1, <3>2, <3>3
    <2>6. ChannelStep
      <3>1. CASE Broken
        BY <3>1, StepBroken
      <3>2. CASE ~Broken
        <4>1. Queue # <<>>
          BY <1>6, <2>4, <3>2 DEF Queue
        <4>2. \A q \in Process : Readers[q] = IdleRead
          BY <1>5, <1>8
        <4>3. QED
          BY <1>7, <2>3, <4>1, <4>2, StepBegin
      <3>3. QED
        BY <3>1, <3>2
    <2>7. QED
      BY <1>2, <1>3, <2>5, <2>6 DEF Kept
  <1>9. CASE InRead # {}
    <2>1. disturbed' = disturbed \cup InRead \cup {p}
      BY <1>9 DEF Joins
    <2>2. \A q \in Process : pc'[q] \in ReadPCs => q \in disturbed'
      BY <1>1, <2>1 DEF InRead
    <2>3. ReadInv'
      <3>1. Owned => Owned'
        BY <1>1, OwnedKept
      <3>2. QED
        BY <2>2, <3>1 DEF ReadInv
    <2>4. ChannelStep
      <3>1. Readers' = [q \in Process |-> Doing(pc'[q], item'[q], words'[q], q \in disturbed')]
        BY ReadersNext
      <3>2. Readers' = [Teared EXCEPT ![p] = TornRead]
        <4>1. ASSUME NEW q \in Process \ {p}
              PROVE  Readers'[q] = Teared[q]
          BY <1>1, <1>5, <2>2, <3>1 DEF Teared, Doing, InRead
        <4>2. Readers'[p] = TornRead
          BY <1>1, <2>1, <3>1 DEF Doing, ReadPCs, ResetPCs
        <4>3. Readers' = [q \in Process |-> Readers'[q]]
          BY <3>1
        <4>4. [Teared EXCEPT ![p] = TornRead]
                = [q \in Process |-> IF q = p THEN TornRead ELSE Teared[q]]
          BY DEF Teared
        <4>5. QED
          BY <4>1, <4>2, <4>3, <4>4
      <3>3. Readers[p] = IdleRead /\ \E q \in Process : Readers[q] # IdleRead
        BY <1>5, <1>9 DEF InRead
      <3>4. QED
        BY <1>7, <3>2, <3>3, StepBegin
    <2>5. QED
      BY <1>2, <1>3, <2>3, <2>4 DEF Kept
  <1>10. QED
    BY <1>8, <1>9

\* The length of a packet, and a FIFO or a buffer that does not let it be read.
LEMMA LengthKept ==
  ASSUME ChannelInv, TypesInv', NEW p \in Process, ReadLength(p)
  PROVE  Kept
  <1> USE DEF ChannelInv
  <1>1. /\ pc[p] = "read_len" /\ core' = ReadRLR(core)
        /\ UNCHANGED disturbed
        /\ \A q \in Process \ {p} : pc'[q] = pc[q]
        /\ \/ /\ core.lens = <<>> /\ pc'[p] = "reset"
              /\ UNCHANGED <<item, plan, words>>
           \/ /\ core.lens # <<>> /\ pc'[p] = "reset"
              /\ UNCHANGED <<item, plan, words>>
           \/ /\ core.lens # <<>> /\ pc'[p] = "read_word"
              /\ item' = [item EXCEPT ![p] = Head(core.lens)]
              /\ plan' = [plan EXCEPT ![p] = Copies(Head(core.lens))]
              /\ words' = [words EXCEPT ![p] = <<>>]
    BY DEF ReadLength, Goto, transferVars, historyVars, DriverInv, TypesInv
  <1>2. TypesInv /\ TablesKept /\ \A q \in Process \ {p} : Stays(q)
    BY <1>1 DEF DriverInv, TablesKept, Stays, RxTypes
  <1>3. DOMAIN core = Fields /\ core.rx \in Seq(Word) /\ core.lens \in Seq(Payload)
        /\ core.claimed \in Nat
    BY DEF RxTypes
  <1>4. Readers[p] = IF p \in disturbed THEN TornRead ELSE ReadyRead
    BY <1>1, <1>2, ReadersNow DEF Doing, ReadPCs, ResetPCs
  <1>5. Readers' = [Readers EXCEPT ![p] = Doing(pc'[p], item'[p], words'[p], p \in disturbed')]
    BY <1>2, OthersRead
  <1>6. CASE core.lens = <<>>
    <2>1. /\ DOMAIN core' = Fields /\ core'.rx = core.rx /\ core'.lens = core.lens
          /\ core'.claimed = core.claimed /\ "rx" \in core'.skewed
      BY <1>1, <1>3, <1>6 DEF ReadRLR, Fail, Raise, Fields
    <2>2. RxTypes' /\ ReadInv'
      BY <1>2, <1>3, <2>1 DEF RxTypes, TablesKept, ReadInv
    <2>3. PlanInv'
      BY <1>1, <1>2, <1>6, PlanKept
    <2>4. ChannelStep
      <3>1. CASE Broken
        BY <3>1, StepBroken
      <3>2. CASE ~Broken
        <4>1. p \in disturbed
          BY <1>1, <1>6, <3>2 DEF ReadInv, Undisturbed, Broken, ReadPCs
        <4>2. Readers[p] = TornRead /\ Readers' = Readers
          BY <1>1, <1>4, <1>5, <1>6, <4>1, ReadersNow DEF Doing, ResetPCs, Readers
        <4>3. Queue' = Queue /\ Broken'
          BY <2>1 DEF Queue, Broken
        <4>4. QED
          BY <4>2, <4>3, StepTornTake
      <3>3. QED
        BY <3>1, <3>2
    <2>5. QED
      BY <2>2, <2>3, <2>4 DEF Kept
  <1>7. CASE core.lens # <<>>
    <2> DEFINE x == Head(core.lens)
               n == WordsIn(Bytes[x])
    <2>1. x \in Payload /\ n \in Nat \ {0}
      BY <1>3, <1>7, PacketWords
    <2> HIDE DEF x
    <2>2. /\ DOMAIN core' = Fields /\ core'.rx = core.rx /\ core'.lens = Tail(core.lens)
          /\ core'.claimed = core.claimed + n
          /\ "rx" \in core'.skewed <=> "rx" \in core.skewed
      BY <1>1, <1>3, <1>7 DEF ReadRLR, Fields, x
    <2>3. RxTypes'
      BY <1>2, <1>3, <1>7, <2>1, <2>2 DEF RxTypes, TablesKept
    <2>4. ASSUME ~Broken
          PROVE  /\ Framed(core'.rx, core'.lens, core'.claimed)
                 /\ core.claimed = 0 => \A i \in 1 .. n : core.rx[i] = <<x, i>>
      <3>1. Framed(core.rx, core.lens, core.claimed)
        BY <2>4 DEF ReadInv, Broken
      <3>2. QED
        BY <1>3, <1>7, <2>2, <3>1, FramedLength DEF x
    <2>5. Queue # <<>> /\ Head(Queue) = WordsOf(x) /\ Queue' = SubSeq(Queue, 2, Len(Queue))
      <3>1. PICK l \in Nat \ {0} : l = Len(core.lens)
        BY <1>3, <1>7
      <3>2. Queue = [i \in 1 .. l |-> WordsOf(core.lens[i])]
        BY <1>3, <3>1 DEF Queue
      <3>3. Len(Queue) = l /\ Head(Queue) = WordsOf(core.lens[1]) /\ Queue # <<>>
        BY <3>1, <3>2
      <3>4. /\ Len(Tail(core.lens)) = l - 1
            /\ Tail(core.lens) \in Seq(Payload)
            /\ \A i \in 1 .. l - 1 : Tail(core.lens)[i] = core.lens[i + 1]
        BY <1>3, <1>7, <3>1
      <3>5. Queue' = [i \in 1 .. l - 1 |-> WordsOf(core.lens[i + 1])]
        BY <2>2, <3>4 DEF Queue
      <3>6. SubSeq(Queue, 2, Len(Queue)) = [i \in 1 .. l - 1 |-> Queue[i + 1]]
        BY <3>2, <3>3
      <3>7. \A i \in 1 .. l - 1 : Queue[i + 1] = WordsOf(core.lens[i + 1])
        BY <3>2
      <3>8. x = core.lens[1]
        BY <1>3, <1>7 DEF x
      <3>9. SubSeq(Queue, 2, Len(Queue)) = [i \in 1 .. l - 1 |-> WordsOf(core.lens[i + 1])]
        BY <3>6, <3>7
      <3>10. QED
        BY <3>3, <3>5, <3>8, <3>9, Zenon
    <2>6. CASE pc'[p] = "reset"
      <3>1. UNCHANGED <<item, plan, words>>
        BY <1>1, <2>6
      <3>2. PlanInv'
        BY <1>2, <2>6, PlanKept
      <3>3. ReadInv'
        <4> SUFFICES ASSUME ~Broken
                     PROVE  /\ Framed(core'.rx, core'.lens, core'.claimed)
                            /\ Owned'
                            /\ \A q \in Process : pc'[q] \in ReadPCs /\ q \notin disturbed'
                                                    => Undisturbed(q)'
          BY <2>2 DEF ReadInv, Broken
        <4>1. Owned'
          BY <2>6 DEF Owned, ResetPCs
        <4>2. ASSUME NEW q \in Process, pc'[q] \in ReadPCs, q \notin disturbed'
              PROVE  FALSE
          <5>1. q # p /\ pc[q] \in ReadPCs /\ q \notin disturbed
            BY <1>1, <2>6, <4>2 DEF ReadPCs
          <5>2. Undisturbed(q)
            BY <5>1 DEF ReadInv, Broken
          <5>3. QED
            BY <1>1, <5>1, <5>2 DEF Undisturbed, ReadPCs
        <4>3. QED
          BY <2>4, <4>1, <4>2
      <3>4. ChannelStep
        <4>1. Readers' = [Readers EXCEPT ![p] = TornRead]
          BY <1>5, <2>6 DEF Doing, ResetPCs
        <4>2. QED
          BY <2>2, <2>5, <4>1, StepFail DEF Broken
      <3>5. QED
        BY <2>3, <3>2, <3>3, <3>4 DEF Kept
    <2>7. CASE pc'[p] = "read_word"
      <3>1. /\ item'[p] = x /\ plan'[p] = Copies(x) /\ words'[p] = <<>>
            /\ \A q \in Process \ {p} :
                 item'[q] = item[q] /\ plan'[q] = plan[q] /\ words'[q] = words[q]
        BY <1>1, <2>7 DEF x, RxTypes
      <3>2. Left(p)' = n /\ Loading(p)' /\ ~Loading(p)
        BY <1>1, <2>1, <2>7, <3>1 DEF Left, Loading
      <3>3. \A q \in Process \ {p} :
              /\ Loading(q)' <=> Loading(q)
              /\ Left(q)' = Left(q)
        BY <1>1, <3>1 DEF Left, Loading
      <3>4. PlanInv'
        <4>1. /\ Copies(x) \in Seq(Nat) /\ Len(Copies(x)) >= 1
              /\ \A i \in 1 .. Len(Copies(x)) : Copies(x)[i] >= 1
              /\ PlanSums(Copies(x), n)
          BY <2>1, CopiesSum
        <4>2. \A i \in 2 .. Len(Copies(x)) : Copies(x)[i] >= 1
          BY <4>1
        <4>3. Copies(x)[1] >= 1 /\ <<>> \in Seq(Word)
          BY <4>1
        <4>4. Len(words'[p]) = 0 /\ n - 0 = n
          BY <2>1, <3>1
        <4>5. PlanRight(pc'[p], item'[p], words'[p], plan'[p])
          BY <2>1, <2>7, <3>1, <4>1, <4>2, <4>3, <4>4 DEF PlanRight
        <4>6. ASSUME NEW q \in Process \ {p}, Loading(q)'
              PROVE  PlanRight(pc'[q], item'[q], words'[q], plan'[q])
          BY <1>1, <3>1, <3>3, <4>6 DEF PlanInv
        <4>7. QED
          BY <4>5, <4>6 DEF PlanInv
      <3>5. ASSUME ~Broken
            PROVE  Owned'
        <4>1. CASE \E q \in Process : pc'[q] \in ResetPCs
          BY <4>1 DEF Owned
        <4>2. CASE \A q \in Process : pc'[q] \notin ResetPCs
          <5>1. \A q \in Process : pc[q] \notin ResetPCs
            BY <1>1, <4>2 DEF ResetPCs
          <5>2. PICK own \in [1 .. core.claimed -> Process \X Nat] :
                  /\ \A j \in 1 .. core.claimed :
                       Loading(own[j][1]) /\ own[j][2] \in 1 .. Left(own[j][1])
                  /\ \A j, k \in 1 .. core.claimed : own[j] = own[k] => j = k
            BY <3>5, <5>1 DEF ReadInv, Owned, Broken
          <5>3. PICK c \in Nat : c = core.claimed
            BY <1>3
          <5>4. PICK new : new = [j \in 1 .. c + n |-> IF j <= c THEN own[j] ELSE <<p, j - c>>]
            OBVIOUS
          <5>5. \A j \in 1 .. c + n : (j <= c => j \in 1 .. c) /\ (~(j <= c) => j - c \in 1 .. n)
            BY <2>1
          <5>6. \A j \in 1 .. c : /\ own[j] \in Process \X Nat /\ own[j][1] # p
                                  /\ Loading(own[j][1])'
                                  /\ own[j][2] \in 1 .. Left(own[j][1])'
            <6>1. TAKE j \in 1 .. c
            <6>2. own[j] \in Process \X Nat /\ Loading(own[j][1])
              BY <5>2, <5>3
            <6>3. own[j][1] \in Process \ {p}
              BY <3>2, <6>2
            <6>4. QED
              BY <3>3, <5>2, <5>3, <6>2, <6>3
          <5>7. new \in [1 .. c + n -> Process \X Nat]
            <6>1. \A j \in 1 .. c + n :
                    (IF j <= c THEN own[j] ELSE <<p, j - c>>) \in Process \X Nat
              BY <2>1, <5>5, <5>6
            <6>2. QED
              BY <5>4, <6>1
          <5>8. \A j \in 1 .. c + n :
                  Loading(new[j][1])' /\ new[j][2] \in 1 .. Left(new[j][1])'
            <6>1. ASSUME NEW j \in 1 .. c + n, j <= c
                  PROVE  Loading(new[j][1])' /\ new[j][2] \in 1 .. Left(new[j][1])'
              <7>1. new[j] = own[j] /\ j \in 1 .. c
                BY <5>4, <5>5, <6>1
              <7>2. QED
                BY <5>6, <7>1
            <6>2. ASSUME NEW j \in 1 .. c + n, ~(j <= c)
                  PROVE  Loading(new[j][1])' /\ new[j][2] \in 1 .. Left(new[j][1])'
              <7>1. new[j] = <<p, j - c>> /\ j - c \in 1 .. n
                BY <5>4, <5>5, <6>2
              <7>2. QED
                BY <3>2, <7>1
            <6>3. QED
              BY <6>1, <6>2
          <5>9. \A j, k \in 1 .. c + n : new[j] = new[k] => j = k
            <6>1. ASSUME NEW j \in 1 .. c + n, NEW k \in 1 .. c + n, new[j] = new[k]
                  PROVE  j = k
              <7>1. j <= c <=> k <= c
                BY <5>4, <5>5, <5>6, <6>1
              <7>2. CASE j <= c
                BY <5>2, <5>3, <5>4, <5>5, <6>1, <7>1, <7>2
              <7>3. CASE ~(j <= c)
                <8>1. j - c = k - c
                  BY <5>4, <6>1, <7>1, <7>3
                <8>2. QED
                  BY <2>1, <8>1
              <7>4. QED
                BY <7>2, <7>3
            <6>2. QED
              BY <6>1
          <5>10. core'.claimed = c + n
            BY <2>2, <5>3
          <5>11. QED
            BY <5>7, <5>8, <5>9, <5>10 DEF Owned
        <4>3. QED
          BY <4>1, <4>2
      <3>6. ASSUME ~Broken, NEW q \in Process, pc'[q] \in ReadPCs, q \notin disturbed'
            PROVE  Undisturbed(q)'
        <4>1. pc[q] \in ReadPCs /\ q \notin disturbed
          BY <1>1, <3>6 DEF ReadPCs
        <4>2. Undisturbed(q)
          BY <3>6, <4>1 DEF ReadInv, Broken
        <4>3. q = p
          BY <1>1, <4>2 DEF Undisturbed, ReadPCs
        <4>4. core.claimed = 0 /\ \A r \in Process : pc[r] \in ReadPCs => r = p
          BY <1>1, <4>2, <4>3 DEF Undisturbed
        <4>5. /\ core'.claimed = Left(p)'
              /\ \A i \in 1 .. core'.claimed : core'.rx[i] = <<x, i>>
          BY <2>1, <2>2, <2>4, <3>2, <3>6, <4>4
        <4>6. \A r \in Process : pc'[r] \in ReadPCs => r = p
          BY <1>1, <4>4
        <4>7. /\ pc'[p] # "read_len"
              /\ Len(words'[p]) = 0
              /\ \A i \in 1 .. core'.claimed : Len(words'[p]) + i = i
          BY <2>1, <2>2, <2>7, <3>1, <4>4
        <4>8. QED
          BY <3>1, <4>3, <4>5, <4>6, <4>7 DEF Undisturbed
      <3>7. ReadInv'
        BY <2>2, <2>4, <3>5, <3>6 DEF ReadInv, Broken
      <3>8. ChannelStep
        <4>1. CASE p \in disturbed
          <5>1. Readers[p] = TornRead /\ Readers' = Readers
            BY <1>1, <1>4, <1>5, <2>7, <4>1 DEF Doing, ReadPCs, ResetPCs, Readers
          <5>2. QED
            BY <2>2, <2>5, <5>1, StepTornTake DEF Broken
        <4>2. CASE p \notin disturbed
          <5>1. Readers' = [Readers EXCEPT ![p] = [state |-> "taken", packet |-> Head(Queue)]]
            BY <1>1, <1>5, <2>5, <2>7, <3>1, <4>2 DEF Doing, ReadPCs, ResetPCs
          <5>2. QED
            BY <1>4, <2>2, <2>5, <4>2, <5>1, StepTake DEF Broken
        <4>3. QED
          BY <4>1, <4>2
      <3>9. QED
        BY <2>3, <3>4, <3>7, <3>8 DEF Kept
    <2>8. QED
      BY <1>1, <1>7, <2>6, <2>7
  <1>8. QED
    BY <1>6, <1>7

\* What is left of a plan after a word, after a copy, and after the last copy.
LEMMA PlanWord ==
  ASSUME NEW pl \in Seq(Nat), NEW n \in Int, Len(pl) >= 1, pl[1] >= 1, PlanSums(pl, n)
  PROVE  /\ n >= 1
         /\ [pl EXCEPT ![1] = @ - 1] \in Seq(Nat)
         /\ Len([pl EXCEPT ![1] = @ - 1]) = Len(pl)
         /\ [pl EXCEPT ![1] = @ - 1][1] = pl[1] - 1
         /\ \A i \in 2 .. Len(pl) : [pl EXCEPT ![1] = @ - 1][i] = pl[i]
         /\ PlanSums([pl EXCEPT ![1] = @ - 1], n - 1)
  <1>1. PICK l \in Nat \ {0} : l = Len(pl)
    OBVIOUS
  <1>2. PICK after \in [0 .. l -> Nat] :
          /\ after[0] = n /\ after[l] = 0
          /\ \A i \in 1 .. l : after[i-1] = after[i] + pl[i]
    BY <1>1 DEF PlanSums
  <1>3. PICK new : new = [pl EXCEPT ![1] = @ - 1]
    OBVIOUS
  <1>4. /\ new \in Seq(Nat) /\ Len(new) = l /\ new[1] = pl[1] - 1
        /\ \A i \in 2 .. l : new[i] = pl[i]
    BY <1>1, <1>3
  <1>5. after[0] = after[1] + pl[1] /\ after[1] \in Nat /\ pl[1] \in Nat
    <2>1. 1 \in 1 .. l /\ 1 - 1 = 0 /\ 1 \in 0 .. l
      OBVIOUS
    <2>2. QED
      BY <1>1, <1>2, <2>1
  <1>6. n >= 1
    BY <1>2, <1>5
  <1>7. PICK less : less = [after EXCEPT ![0] = n - 1]
    OBVIOUS
  <1>8. /\ less \in [0 .. l -> Nat] /\ less[0] = n - 1 /\ less[l] = 0
        /\ \A i \in 1 .. l : less[i] = after[i]
    BY <1>2, <1>6, <1>7
  <1>9. ASSUME NEW i \in 1 .. l
        PROVE  less[i-1] = less[i] + new[i]
    <2>1. CASE i = 1
      <3>1. i - 1 = 0 /\ less[1] = after[1] /\ new[1] = pl[1] - 1
        BY <1>4, <1>8, <2>1, SMTT(30)
      <3>2. less[0] = n - 1 /\ after[0] = n
        BY <1>2, <1>8, Zenon
      <3>3. QED
        BY <1>5, <2>1, <3>1, <3>2
    <2>2. CASE i \in 2 .. l
      <3>1. i - 1 \in 1 .. l
        BY <2>2
      <3>2. QED
        BY <1>2, <1>4, <1>8, <2>2, <3>1
    <2>3. QED
      BY <2>1, <2>2
  <1>10. PlanSums(new, n - 1)
    <2>1. \E f \in [0 .. Len(new) -> Nat] :
            /\ f[0] = n - 1 /\ f[Len(new)] = 0
            /\ \A i \in 1 .. Len(new) : f[i-1] = f[i] + new[i]
      BY <1>4, <1>8, <1>9, Zenon
    <2>2. QED
      BY <2>1, Zenon DEF PlanSums
  <1>11. \A i \in 2 .. Len(pl) : new[i] = pl[i]
    BY <1>1, <1>4, Zenon
  <1>12. QED
    BY <1>1, <1>3, <1>4, <1>6, <1>10, <1>11, Zenon

\* After a copy that is not the last, the next one is to be made.
LEMMA PlanCopy ==
  ASSUME NEW pl \in Seq(Nat), NEW n \in Int, Len(pl) > 1, pl[1] = 0, PlanSums(pl, n),
         \A i \in 2 .. Len(pl) : pl[i] >= 1
  PROVE  /\ Tail(pl) \in Seq(Nat) /\ Len(Tail(pl)) >= 1
         /\ \A i \in 1 .. Len(Tail(pl)) : Tail(pl)[i] >= 1
         /\ PlanSums(Tail(pl), n)
  <1>1. PICK l \in Nat \ {0, 1} : l = Len(pl)
    OBVIOUS
  <1>2. PICK after \in [0 .. l -> Nat] :
          /\ after[0] = n /\ after[l] = 0
          /\ \A i \in 1 .. l : after[i-1] = after[i] + pl[i]
    BY <1>1 DEF PlanSums
  <1>3. PICK new : new = Tail(pl)
    OBVIOUS
  <1>4. /\ new \in Seq(Nat) /\ Len(new) = l - 1
        /\ \A i \in 1 .. l - 1 : new[i] = pl[i + 1]
    BY <1>1, <1>3
  <1>5. PICK less : less = [i \in 0 .. l - 1 |-> after[i + 1]]
    OBVIOUS
  <1>6. /\ less \in [0 .. l - 1 -> Nat] /\ \A i \in 0 .. l - 1 : less[i] = after[i + 1]
    BY <1>2, <1>5
  <1>7. less[0] = n /\ less[l - 1] = 0
    <2>1. 1 \in 1 .. l /\ 1 - 1 = 0 /\ 1 \in 0 .. l /\ 0 \in 0 .. l - 1 /\ l - 1 \in 0 .. l - 1
      OBVIOUS
    <2>2. after[0] = after[1] + pl[1] /\ after[1] \in Nat
      BY <1>2, <2>1
    <2>3. QED
      BY <1>2, <1>6, <2>1, <2>2
  <1>8. ASSUME NEW i \in 1 .. l - 1
        PROVE  less[i-1] = less[i] + new[i] /\ new[i] >= 1
    <2>1. i + 1 \in 1 .. l /\ (i + 1) - 1 = i /\ i + 1 \in 2 .. l /\ (i - 1) + 1 = i
          /\ i - 1 \in 0 .. l - 1 /\ i \in 0 .. l - 1
      OBVIOUS
    <2>2. after[i] = after[i + 1] + pl[i + 1]
      BY <1>2, <2>1
    <2>3. QED
      BY <1>1, <1>4, <1>6, <2>1, <2>2
  <1>9. PlanSums(new, n)
    BY <1>4, <1>6, <1>7, <1>8 DEF PlanSums
  <1>10. QED
    BY <1>1, <1>3, <1>4, <1>8, <1>9

\* After the last copy nothing is left.
LEMMA PlanDone ==
  ASSUME NEW pl \in Seq(Nat), NEW n \in Int, Len(pl) = 1, pl[1] = 0, PlanSums(pl, n)
  PROVE  n = 0
  <1>1. PICK after \in [0 .. 1 -> Nat] :
          after[0] = n /\ after[1] = 0 /\ \A i \in 1 .. 1 : after[i-1] = after[i] + pl[i]
    BY DEF PlanSums
  <1>2. after[0] = after[1] + pl[1]
    BY <1>1
  <1>3. QED
    BY <1>1, <1>2

\* A word of a packet.
LEMMA WordKept ==
  ASSUME ChannelInv, TypesInv', NEW p \in Process, ReadWord(p)
  PROVE  Kept
  <1> USE DEF ChannelInv
  <1> DEFINE w == IF core.rx = <<>> \/ p \in disturbed THEN <<NoPayload, 0>> ELSE Head(core.rx)
  <1>1. /\ pc[p] = "read_word" /\ core' = ReadRDFD(core)
        /\ UNCHANGED <<disturbed, item>>
        /\ pc'[p] = IF plan[p][1] = 1 THEN "read_copy" ELSE "read_word"
        /\ words' = [words EXCEPT ![p] = Append(@, w)]
        /\ plan' = [plan EXCEPT ![p][1] = @ - 1]
        /\ \A q \in Process \ {p} : pc'[q] = pc[q]
    <2>1. /\ Goto(p, "read_word", IF plan[p][1] = 1 THEN "read_copy" ELSE "read_word")
          /\ core' = ReadRDFD(core)
          /\ UNCHANGED <<disturbed, item>>
          /\ words' = [words EXCEPT ![p] = Append(@, w)]
          /\ plan' = [plan EXCEPT ![p][1] = @ - 1]
      BY Zenon DEF ReadWord, historyVars
    <2>2. /\ pc[p] = "read_word" /\ pc \in [Process -> PCs]
          /\ pc' = [pc EXCEPT ![p] = IF plan[p][1] = 1 THEN "read_copy" ELSE "read_word"]
      BY <2>1, Zenon DEF Goto, DriverInv, TypesInv
    <2>3. QED
      BY <2>1, <2>2
  <1> HIDE DEF w
  <1>2. DOMAIN core = Fields /\ core.rx \in Seq(Word) /\ core.lens \in Seq(Payload)
        /\ core.claimed \in Nat /\ TypesInv
        /\ DOMAIN item = Process /\ DOMAIN plan = Process /\ DOMAIN words = Process
    BY DEF RxTypes, DriverInv
  <1>3. /\ words'[p] = Append(words[p], w)
        /\ plan'[p] = [plan[p] EXCEPT ![1] = @ - 1]
        /\ \A q \in Process \ {p} : words'[q] = words[q] /\ plan'[q] = plan[q]
        /\ TablesKept /\ \A q \in Process \ {p} : Stays(q)
    <2>1. /\ words'[p] = Append(words[p], w)
          /\ \A q \in Process \ {p} : words'[q] = words[q]
          /\ DOMAIN words' = Process /\ DOMAIN item' = Process
      BY <1>1, <1>2
    <2>2. /\ plan'[p] = [plan[p] EXCEPT ![1] = @ - 1]
          /\ \A q \in Process \ {p} : plan'[q] = plan[q]
          /\ DOMAIN plan' = Process
      BY <1>1, <1>2
    <2>3. QED
      BY <1>1, <2>1, <2>2 DEF TablesKept, Stays
  <1>4. PlanRight("read_word", item[p], words[p], plan[p])
    BY <1>1 DEF PlanInv, Loading
  <1>5. PICK n : n = WordsIn(Bytes[item[p]])
    OBVIOUS
  <1>6. PICK k : k = Len(words[p])
    OBVIOUS
  <1>7. /\ item[p] \in Payload /\ words[p] \in Seq(Word) /\ n \in Nat /\ k \in Nat
        /\ plan[p] \in Seq(Nat) /\ Len(plan[p]) >= 1 /\ plan[p][1] >= 1
        /\ plan[p][1] \in Nat
        /\ PlanSums(plan[p], n - k)
        /\ \A i \in 2 .. Len(plan[p]) : plan[p][i] >= 1
    BY <1>4, <1>5, <1>6, PacketWords DEF PlanRight
  <1>8. /\ n - k >= 1
        /\ plan'[p] \in Seq(Nat) /\ Len(plan'[p]) = Len(plan[p])
        /\ plan'[p][1] = plan[p][1] - 1
        /\ \A i \in 2 .. Len(plan[p]) : plan'[p][i] = plan[p][i]
        /\ PlanSums(plan'[p], (n - k) - 1)
    <2>1. PICK pl \in Seq(Nat) : pl = plan[p]
      BY <1>7
    <2>2. PICK d \in Int : d = n - k
      BY <1>7
    <2>3. plan'[p] = [pl EXCEPT ![1] = @ - 1]
      BY <1>3, <2>1
    <2>4. Len(pl) >= 1 /\ pl[1] >= 1 /\ PlanSums(pl, d)
      BY <1>7, <2>1, <2>2
    <2>5. PICK new : new = [pl EXCEPT ![1] = @ - 1]
      OBVIOUS
    <2>6. /\ d >= 1 /\ new \in Seq(Nat) /\ Len(new) = Len(pl) /\ new[1] = pl[1] - 1
          /\ \A i \in 2 .. Len(pl) : new[i] = pl[i]
          /\ PlanSums(new, d - 1)
      BY <2>4, <2>5, PlanWord, Zenon
    <2>7. QED
      BY <2>1, <2>2, <2>3, <2>5, <2>6, Zenon
  <1>9. w \in Word
    BY <1>2 DEF w, Word
  <1>10. /\ words'[p] \in Seq(Word) /\ Len(words'[p]) = k + 1
         /\ \A i \in 1 .. k : words'[p][i] = words[p][i]
         /\ words'[p][k + 1] = w
    BY <1>3, <1>6, <1>7, <1>9, AppendProperties
  <1>11. PlanInv'
    <2>1. PlanRight(pc'[p], item'[p], words'[p], plan'[p])
      <3>1. PlanSums(plan'[p], n - Len(words'[p]))
        <4>1. (n - k) - 1 = n - (k + 1)
          BY <1>7
        <4>2. QED
          BY <1>8, <1>10, <4>1
      <3>2. IF pc'[p] = "read_word" THEN plan'[p][1] >= 1 ELSE plan'[p][1] = 0
        BY <1>1, <1>7, <1>8
      <3>3. QED
        BY <1>1, <1>5, <1>7, <1>8, <1>10, <3>1, <3>2 DEF PlanRight
    <2>2. \A q \in Process \ {p} :
            Loading(q)' => PlanRight(pc'[q], item'[q], words'[q], plan'[q])
      BY <1>1, <1>3 DEF PlanInv, Loading
    <2>3. QED
      BY <2>1, <2>2 DEF PlanInv
  <1>12. Loading(p) /\ Loading(p)' /\ Left(p) = n - k /\ Left(p)' = (n - k) - 1
    BY <1>1, <1>5, <1>6, <1>7, <1>10 DEF Loading, Left
  <1>13. \A q \in Process \ {p} : (Loading(q)' <=> Loading(q)) /\ Left(q)' = Left(q)
    BY <1>1, <1>3 DEF Loading, Left
  <1>14. Readers[p] = IF p \in disturbed THEN TornRead
                      ELSE [state |-> "taken", packet |-> WordsOf(item[p])]
    BY <1>1, <1>2, ReadersNow DEF Doing, ReadPCs, ResetPCs
  <1>15. Readers' = Readers
    <2>1. Doing(pc'[p], item'[p], words'[p], p \in disturbed') = Readers[p]
      BY <1>1, <1>14 DEF Doing, ReadPCs, ResetPCs
    <2>2. QED
      BY <1>2, <1>3, <2>1, OthersRead DEF Readers
  <1>16. core'.lens = core.lens /\ Queue' = Queue
    BY <1>1, <1>2, QueueKept DEF ReadRDFD, Fail, Raise, Fields
  <1>17. CASE core.rx = <<>> \/ core.claimed = 0
    <2>1. /\ DOMAIN core' = Fields /\ core'.rx \in Seq(Word) /\ core'.claimed = core.claimed
          /\ "rx" \in core'.skewed
      BY <1>1, <1>2, <1>17 DEF ReadRDFD, Fail, Raise, Fields
    <2>2. RxTypes' /\ ReadInv'
      BY <1>2, <1>3, <1>16, <2>1 DEF RxTypes, TablesKept, ReadInv
    <2>3. ChannelStep
      <3>1. CASE Broken
        BY <3>1, StepBroken
      <3>2. CASE ~Broken /\ p \notin disturbed
        <4>1. Undisturbed(p) /\ Framed(core.rx, core.lens, core.claimed)
          BY <1>1, <3>2 DEF ReadInv, Broken, ReadPCs
        <4>2. core.claimed = n - k
          BY <1>12, <4>1 DEF Undisturbed
        <4>3. core.claimed \in Nat \ {0}
          BY <1>2, <1>8, <4>2
        <4>4. QED
          BY <1>2, <1>17, <4>1, <4>3, FramedWord
      <3>3. CASE ~Broken /\ p \in disturbed
        BY <1>14, <1>15, <1>16, <2>1, <3>3, StepTornTake DEF Broken
      <3>4. QED
        BY <3>1, <3>2, <3>3
    <2>4. QED
      BY <1>11, <2>2, <2>3 DEF Kept
  <1>18. CASE core.rx # <<>> /\ core.claimed # 0
    <2>1. /\ DOMAIN core' = Fields /\ core'.rx = Tail(core.rx)
          /\ core'.claimed = core.claimed - 1
          /\ "rx" \in core'.skewed <=> "rx" \in core.skewed
      BY <1>1, <1>2, <1>18 DEF ReadRDFD, Fields
    <2>2. PICK c \in Nat \ {0} : c = core.claimed
      BY <1>2, <1>18
    <2>3. RxTypes'
      <3>1. Tail(core.rx) \in Seq(Word) /\ c - 1 \in Nat
        BY <1>2, <1>18
      <3>2. QED
        BY <1>2, <1>3, <1>16, <2>1, <2>2, <3>1 DEF RxTypes, TablesKept
    <2>4. ChannelStep
      BY <1>15, <1>16, <2>1, StepNone DEF Broken
    <2>5. ASSUME ~Broken
          PROVE  /\ Framed(core'.rx, core'.lens, core'.claimed)
                 /\ c <= Len(core.rx)
      BY <1>2, <1>16, <2>1, <2>2, <2>5, FramedWord DEF ReadInv, Broken
    <2>6. ASSUME ~Broken
          PROVE  Owned'
      <3>1. CASE \E q \in Process : pc'[q] \in ResetPCs
        BY <3>1 DEF Owned
      <3>2. CASE \A q \in Process : pc'[q] \notin ResetPCs
        <4>1. \A q \in Process : pc[q] \notin ResetPCs
          BY <1>1, <3>2 DEF ResetPCs
        <4>2. PICK own \in [1 .. c -> Process \X Nat] :
                /\ \A j \in 1 .. c : Loading(own[j][1]) /\ own[j][2] \in 1 .. Left(own[j][1])
                /\ \A j, l \in 1 .. c : own[j] = own[l] => j = l
          BY <2>2, <2>6, <4>1 DEF ReadInv, Owned, Broken
        <4>3. PICK mine : mine = <<p, n - k>>
          OBVIOUS
        <4>4. PICK new : new = [j \in 1 .. c - 1 |-> IF own[j] = mine THEN own[c] ELSE own[j]]
          OBVIOUS
        <4>5. \A j \in 1 .. c - 1 : j \in 1 .. c /\ j # c /\ c \in 1 .. c
          OBVIOUS
        <4>6. new \in [1 .. c - 1 -> Process \X Nat]
          BY <4>2, <4>4, <4>5
        <4>7. ASSUME NEW j \in 1 .. c - 1
              PROVE  new[j] # mine /\ \E l \in 1 .. c : new[j] = own[l]
          <5>1. j \in 1 .. c /\ j # c /\ c \in 1 .. c
            BY <4>5
          <5>2. new[j] = IF own[j] = mine THEN own[c] ELSE own[j]
            BY <4>4
          <5>3. own[j] = mine => own[c] # mine
            BY <4>2, <5>1
          <5>4. QED
            BY <5>1, <5>2, <5>3
        <4>8. ASSUME NEW j \in 1 .. c - 1
              PROVE  Loading(new[j][1])' /\ new[j][2] \in 1 .. Left(new[j][1])'
          <5>1. PICK l \in 1 .. c : new[j] = own[l]
            BY <4>7
          <5>2. PICK q \in Process, i \in Nat : own[l] = <<q, i>>
            <6>1. own[l] \in Process \X Nat
              BY <4>2
            <6>2. QED
              BY <6>1
          <5>3. Loading(q) /\ i \in 1 .. Left(q)
            BY <4>2, <5>2
          <5>4. CASE q = p
            <6>1. i # n - k
              BY <4>3, <4>7, <5>1, <5>2, <5>4
            <6>2. i \in 1 .. (n - k) - 1
              BY <1>7, <1>12, <5>3, <5>4, <6>1
            <6>3. QED
              BY <1>12, <5>1, <5>2, <5>4, <6>2
          <5>5. CASE q # p
            BY <1>13, <5>1, <5>2, <5>3, <5>5
          <5>6. QED
            BY <5>4, <5>5
        <4>9. ASSUME NEW j \in 1 .. c - 1, NEW l \in 1 .. c - 1, new[j] = new[l]
              PROVE  j = l
          <5>1. j \in 1 .. c /\ j # c /\ l \in 1 .. c /\ l # c /\ c \in 1 .. c
            BY <4>5
          <5>2. /\ new[j] = IF own[j] = mine THEN own[c] ELSE own[j]
                /\ new[l] = IF own[l] = mine THEN own[c] ELSE own[l]
            BY <4>4
          <5>3. QED
            BY <4>2, <4>9, <5>1, <5>2
        <4>10. core'.claimed = c - 1
          BY <2>1, <2>2
        <4>11. QED
          BY <4>6, <4>8, <4>9, <4>10 DEF Owned
      <3>3. QED
        BY <3>1, <3>2
    <2>7. ASSUME ~Broken, NEW q \in Process, pc'[q] \in ReadPCs, q \notin disturbed'
          PROVE  Undisturbed(q)'
      <3>1. pc[q] \in ReadPCs /\ q \notin disturbed
        BY <1>1, <2>7 DEF ReadPCs
      <3>2. Undisturbed(q)
        BY <2>7, <3>1 DEF ReadInv, Broken
      <3>3. q = p
        BY <1>1, <3>2 DEF Undisturbed, ReadPCs
      <3>4. /\ \A r \in Process : pc[r] \in ReadPCs => r = p
            /\ c = n - k
            /\ \A i \in 1 .. k : words[p][i] = <<item[p], i>>
            /\ \A i \in 1 .. c : core.rx[i] = <<item[p], k + i>>
        BY <1>6, <1>12, <2>2, <3>2, <3>3 DEF Undisturbed
      <3>5. w = <<item[p], k + 1>>
        <4>1. w = core.rx[1]
          BY <1>2, <1>18, <2>7, <3>1, <3>3 DEF w
        <4>2. 1 \in 1 .. c
          OBVIOUS
        <4>3. QED
          BY <3>4, <4>1, <4>2
      <3>6. \A i \in 1 .. k + 1 : words'[p][i] = <<item[p], i>>
        <4>1. \A i \in 1 .. k + 1 : i \in 1 .. k \/ i = k + 1
          BY <1>7
        <4>2. QED
          BY <1>10, <3>4, <3>5, <4>1
      <3>7. \A i \in 1 .. c - 1 : core'.rx[i] = <<item[p], (k + 1) + i>>
        <4>1. TAKE i \in 1 .. c - 1
        <4>2. i + 1 \in 1 .. c /\ k + (i + 1) = (k + 1) + i
          BY <1>7
        <4>3. i \in 1 .. Len(core.rx) - 1
          BY <1>2, <2>5, <2>7
        <4>4. core'.rx[i] = core.rx[i + 1]
          BY <1>2, <1>18, <2>1, <4>3
        <4>5. QED
          BY <3>4, <4>2, <4>4
      <3>8. \A r \in Process : pc'[r] \in ReadPCs => r = p
        BY <1>1, <3>4
      <3>9. core'.claimed = c - 1 /\ pc'[p] # "read_len"
        BY <1>1, <2>1, <2>2
      <3>10. QED
        BY <1>1, <1>10, <1>12, <3>3, <3>4, <3>6, <3>7, <3>8, <3>9 DEF Undisturbed
    <2>8. ReadInv'
      BY <2>1, <2>5, <2>6, <2>7 DEF ReadInv, Broken
    <2>9. QED
      BY <1>11, <2>3, <2>4, <2>8 DEF Kept
  <1>19. QED
    BY <1>17, <1>18

\* A step that leaves the receive side alone, of a process that is not reading.
LEMMA AsideKept ==
  ASSUME ChannelInv, TypesInv', NEW p \in Process, RxSame(core, core'), TablesKept,
         Aside(p), \A q \in Process \ {p} : Stays(q)
  PROVE  Kept
  <1> USE DEF ChannelInv
  <1>1. \A q \in Process : Stays(q) \/ Aside(q)
    OBVIOUS
  <1>2. \A q \in Process : Stays(q) \/ pc'[q] \notin {"read_word", "read_copy"}
    BY <1>1 DEF Aside, ReadPCs
  <1>3. RxTypes' /\ PlanInv' /\ ReadInv'
    BY <1>1, <1>2, SameTypes, PlanKept, SameKeeps
  <1>4. ChannelStep
    BY OneAside DEF DriverInv
  <1>5. QED
    BY <1>3, <1>4 DEF Kept

\* A step that leaves both alone.
LEMMA StayKept ==
  ASSUME ChannelInv, TypesInv', RxSame(core, core'), TablesKept, \A q \in Process : Stays(q)
  PROVE  Kept
  <1> USE DEF ChannelInv
  <1>1. RxTypes' /\ PlanInv' /\ ReadInv'
    BY SameTypes, PlanKept, SameKeeps
  <1>2. ChannelStep
    BY AllStay DEF DriverInv
  <1>3. QED
    BY <1>1, <1>2 DEF Kept

\* A flush that nobody expects.
LEMMA FlushKept ==
  ASSUME ChannelInv, TypesInv', Flushed(core'), UNCHANGED <<item, plan, words>>,
         \A q \in Process :
           /\ \/ pc'[q] = pc[q]
              \/ pc[q] \notin ReadPCs \cup ResetPCs /\ pc'[q] \notin ReadPCs \cup ResetPCs
           /\ pc[q] \in ReadPCs => q \in disturbed'
  PROVE  Kept
  <1> USE DEF ChannelInv
  <1>1. RxTypes'
    BY FlushTypes DEF TablesKept, RxTypes
  <1>2. PlanInv'
    BY DEF PlanInv, Loading, ReadPCs
  <1>3. ReadInv'
    BY FlushKeeps
  <1>4. ChannelStep
    BY FlushByDevice DEF DriverInv
  <1>5. QED
    BY <1>1, <1>2, <1>3, <1>4 DEF Kept

\* The reset of the core.
LEMMA ResetKept ==
  ASSUME ChannelInv, TypesInv', NEW p \in Process, NEW from \in ResetPCs,
         NEW to \in {"reset_isr", "ioctl_isr"}, ResetCore(p, from, to)
  PROVE  Kept
  <1> USE DEF ChannelInv
  <1>1. /\ pc[p] = from /\ pc' = [pc EXCEPT ![p] = to]
        /\ core' = CoreReset(core)
        /\ disturbed' = (InRead \cup InWrite) \ {p}
        /\ UNCHANGED <<item, plan, words>>
    BY Zenon DEF ResetCore, Goto, transferVars
  <1>2. TypesInv /\ pc'[p] = to /\ \A q \in Process \ {p} : pc'[q] = pc[q]
    BY <1>1 DEF DriverInv, TypesInv
  <1>3. pc[p] \in ResetPCs /\ pc'[p] \notin ReadPCs \cup ResetPCs
    BY <1>1, <1>2 DEF ReadPCs, ResetPCs
  <1>4. Flushed(core')
    BY <1>1, Resets DEF RxTypes
  <1>5. \A q \in Process \ {p} : pc[q] \in ReadPCs => q \in disturbed'
    BY <1>1 DEF InRead
  <1>6. RxTypes'
    BY <1>1, <1>4, FlushTypes DEF TablesKept, RxTypes
  <1>7. PlanInv'
    BY <1>1, <1>2, <1>3 DEF PlanInv, Loading, ReadPCs
  <1>8. ReadInv'
    BY <1>2, <1>3, <1>4, <1>5, FlushKeeps
  <1>9. ChannelStep
    BY <1>2, <1>3, <1>4, <1>5, FlushByReset
  <1>10. QED
    BY <1>6, <1>7, <1>8, <1>9 DEF Kept

\* The words that have been read go to the user, or a fault ends the read.
LEMMA CopyKept ==
  ASSUME ChannelInv, TypesInv', NEW p \in Process, ReadCopy(p)
  PROVE  Kept
  <1> USE DEF ChannelInv
  <1>1. /\ pc[p] = "read_copy" /\ UNCHANGED <<core, disturbed>>
        /\ \A q \in Process \ {p} : pc'[q] = pc[q]
        /\ \/ pc'[p] = "reset" /\ Leave(p)
           \/ /\ pc'[p] = "read_word" /\ Len(plan[p]) > 1
              /\ plan' = [plan EXCEPT ![p] = Tail(@)] /\ UNCHANGED <<item, words>>
           \/ pc'[p] = "read_return" /\ Len(plan[p]) = 1 /\ UNCHANGED <<item, plan, words>>
    BY DEF ReadCopy, Goto, transferVars, historyVars, DriverInv, TypesInv
  <1>2. TypesInv /\ TablesKept /\ \A q \in Process \ {p} : Stays(q)
    BY <1>1 DEF DriverInv, TablesKept, Stays, RxTypes, Leave
  <1>3. RxTypes' /\ Queue' = Queue /\ (Broken' <=> Broken)
    BY <1>1, <1>2 DEF RxTypes, TablesKept, Queue, Broken
  <1>4. /\ Loading(p)
        /\ PlanRight("read_copy", item[p], words[p], plan[p])
    BY <1>1 DEF PlanInv, Loading
  <1>5. PICK n : n = WordsIn(Bytes[item[p]])
    OBVIOUS
  <1>6. PICK k : k = Len(words[p])
    OBVIOUS
  <1>7. /\ item[p] \in Payload /\ words[p] \in Seq(Word) /\ n \in Nat /\ k \in Nat
        /\ plan[p] \in Seq(Nat) /\ plan[p][1] = 0
        /\ PlanSums(plan[p], n - k)
        /\ \A i \in 2 .. Len(plan[p]) : plan[p][i] >= 1
        /\ Left(p) = n - k
    BY <1>4, <1>5, <1>6, PacketWords DEF PlanRight, Left
  <1>8. Readers[p] = IF p \in disturbed THEN TornRead
                     ELSE [state |-> "taken", packet |-> WordsOf(item[p])]
    BY <1>1, <1>2, ReadersNow DEF Doing, ReadPCs, ResetPCs
  <1>9. Readers' = [Readers EXCEPT ![p] = Doing(pc'[p], item'[p], words'[p], p \in disturbed')]
    BY <1>2, OthersRead
  <1>10. \A q \in Process \ {p} : (Loading(q)' <=> Loading(q)) /\ Left(q)' = Left(q)
    BY <1>2 DEF Loading, Left, Stays
  <1>11. CASE pc'[p] = "reset"
    <2>1. PlanInv'
      BY <1>2, <1>11, PlanKept
    <2>2. ReadInv'
      <3> SUFFICES ASSUME ~Broken
                   PROVE  /\ Framed(core'.rx, core'.lens, core'.claimed)
                          /\ Owned'
                          /\ \A q \in Process : pc'[q] \in ReadPCs /\ q \notin disturbed'
                                                  => Undisturbed(q)'
        BY <1>3 DEF ReadInv, Broken
      <3>1. Framed(core'.rx, core'.lens, core'.claimed)
        BY <1>1 DEF ReadInv, Broken
      <3>2. Owned'
        BY <1>11 DEF Owned, ResetPCs
      <3>3. ASSUME NEW q \in Process, pc'[q] \in ReadPCs, q \notin disturbed'
            PROVE  FALSE
        <4>1. q # p /\ pc[q] \in ReadPCs /\ q \notin disturbed
          BY <1>1, <1>11, <3>3 DEF ReadPCs
        <4>2. Undisturbed(q)
          BY <4>1 DEF ReadInv, Broken
        <4>3. QED
          BY <1>1, <4>1, <4>2 DEF Undisturbed, ReadPCs
      <3>4. QED
        BY <3>1, <3>2, <3>3
    <2>3. ChannelStep
      <3>1. Readers' = [Readers EXCEPT ![p] = TornRead]
        BY <1>9, <1>11 DEF Doing, ResetPCs
      <3>2. QED
        BY <1>3, <3>1, StepFail
    <2>4. QED
      BY <1>3, <2>1, <2>2, <2>3 DEF Kept
  <1>12. CASE pc'[p] = "read_word"
    <2>1. /\ Len(plan[p]) > 1 /\ plan'[p] = Tail(plan[p])
          /\ UNCHANGED <<item, words>>
      BY <1>1, <1>12 DEF RxTypes
    <2>2. PlanInv'
      <3>1. /\ plan'[p] \in Seq(Nat) /\ Len(plan'[p]) >= 1
            /\ \A i \in 1 .. Len(plan'[p]) : plan'[p][i] >= 1
            /\ PlanSums(plan'[p], n - k)
        <4>1. PICK pl \in Seq(Nat) : pl = plan[p]
          BY <1>7
        <4>2. PICK d \in Int : d = n - k
          BY <1>7
        <4>3. Len(pl) > 1 /\ pl[1] = 0 /\ PlanSums(pl, d) /\ \A i \in 2 .. Len(pl) : pl[i] >= 1
          BY <1>7, <2>1, <4>1, <4>2
        <4>4. QED
          BY <2>1, <4>1, <4>2, <4>3, PlanCopy
      <3>2. \A i \in 2 .. Len(plan'[p]) : plan'[p][i] >= 1
        BY <3>1
      <3>3. plan'[p][1] >= 1
        BY <3>1
      <3>4. PlanRight(pc'[p], item'[p], words'[p], plan'[p])
        BY <1>5, <1>6, <1>7, <1>12, <2>1, <3>1, <3>2, <3>3 DEF PlanRight
      <3>5. \A q \in Process \ {p} :
              Loading(q)' => PlanRight(pc'[q], item'[q], words'[q], plan'[q])
        BY <1>2 DEF PlanInv, Loading, Stays
      <3>6. QED
        BY <3>4, <3>5 DEF PlanInv
    <2>3. Loading(p)' /\ Left(p)' = Left(p)
      BY <1>12, <2>1 DEF Loading, Left
    <2>4. ReadInv'
      <3> SUFFICES ASSUME ~Broken
                   PROVE  /\ Framed(core'.rx, core'.lens, core'.claimed)
                          /\ Owned'
                          /\ \A q \in Process : pc'[q] \in ReadPCs /\ q \notin disturbed'
                                                  => Undisturbed(q)'
        BY <1>3 DEF ReadInv, Broken
      <3>1. Framed(core'.rx, core'.lens, core'.claimed) /\ Owned
        BY <1>1 DEF ReadInv, Broken
      <3>2. Owned'
        <4>1. (\A q \in Process : pc'[q] \notin ResetPCs)
                => \A q \in Process : pc[q] \notin ResetPCs
          BY <1>1 DEF ResetPCs
        <4>2. \A q \in Process : (Loading(q)' <=> Loading(q)) /\ Left(q)' = Left(q)
          BY <1>4, <1>10, <2>3
        <4>3. CASE \E q \in Process : pc'[q] \in ResetPCs
          BY <4>3 DEF Owned
        <4>4. CASE \A q \in Process : pc'[q] \notin ResetPCs
          <5>1. PICK own \in [1 .. core.claimed -> Process \X Nat] :
                  /\ \A j \in 1 .. core.claimed :
                       Loading(own[j][1]) /\ own[j][2] \in 1 .. Left(own[j][1])
                  /\ \A j, l \in 1 .. core.claimed : own[j] = own[l] => j = l
            BY <3>1, <4>1, <4>4 DEF Owned
          <5>2. \A j \in 1 .. core.claimed :
                  Loading(own[j][1])' /\ own[j][2] \in 1 .. Left(own[j][1])'
            BY <4>2, <5>1
          <5>3. core'.claimed = core.claimed
            BY <1>1
          <5>4. QED
            BY <5>1, <5>2, <5>3, Zenon DEF Owned
        <4>5. QED
          BY <4>3, <4>4
      <3>3. ASSUME NEW q \in Process, pc'[q] \in ReadPCs, q \notin disturbed'
            PROVE  Undisturbed(q)'
        <4>1. pc[q] \in ReadPCs /\ q \notin disturbed
          BY <1>1, <3>3 DEF ReadPCs
        <4>2. Undisturbed(q)
          BY <4>1 DEF ReadInv, Broken
        <4>3. q = p /\ \A r \in Process : pc'[r] \in ReadPCs => r = p
          BY <1>1, <4>2 DEF Undisturbed, ReadPCs
        <4>4. QED
          BY <1>1, <1>4, <1>12, <2>1, <2>3, <4>2, <4>3 DEF Undisturbed
      <3>4. QED
        BY <3>1, <3>2, <3>3
    <2>5. ChannelStep
      <3>1. Doing(pc'[p], item'[p], words'[p], p \in disturbed') = Readers[p]
        BY <1>1, <1>8, <1>12, <2>1 DEF Doing, ReadPCs, ResetPCs
      <3>2. Readers' = Readers
        BY <1>9, <3>1 DEF Readers
      <3>3. QED
        BY <1>3, <3>2, StepNone
    <2>6. QED
      BY <1>3, <2>2, <2>4, <2>5 DEF Kept
  <1>13. CASE pc'[p] = "read_return"
    <2>1. Len(plan[p]) = 1 /\ UNCHANGED <<item, plan, words>>
      BY <1>1, <1>13
    <2>2. n - k = 0
      <3>1. PICK pl \in Seq(Nat) : pl = plan[p]
        BY <1>7
      <3>2. PICK d \in Int : d = n - k
        BY <1>7
      <3>3. Len(pl) = 1 /\ pl[1] = 0 /\ PlanSums(pl, d)
        BY <1>7, <2>1, <3>1, <3>2
      <3>4. QED
        BY <3>2, <3>3, PlanDone
    <2>3. PlanInv'
      BY <1>2, <1>13, PlanKept
    <2>4. ReadInv'
      <3> SUFFICES ASSUME ~Broken
                   PROVE  /\ Framed(core'.rx, core'.lens, core'.claimed)
                          /\ Owned'
                          /\ \A q \in Process : pc'[q] \in ReadPCs /\ q \notin disturbed'
                                                  => Undisturbed(q)'
        BY <1>3 DEF ReadInv, Broken
      <3>1. Framed(core'.rx, core'.lens, core'.claimed) /\ Owned
        BY <1>1 DEF ReadInv, Broken
      <3>2. Owned'
        <4>1. CASE \E q \in Process : pc'[q] \in ResetPCs
          BY <4>1 DEF Owned
        <4>2. CASE \A q \in Process : pc'[q] \notin ResetPCs
          <5>1. \A q \in Process : pc[q] \notin ResetPCs
            BY <1>1, <4>2 DEF ResetPCs
          <5>2. PICK own \in [1 .. core.claimed -> Process \X Nat] :
                  /\ \A j \in 1 .. core.claimed :
                       Loading(own[j][1]) /\ own[j][2] \in 1 .. Left(own[j][1])
                  /\ \A j, l \in 1 .. core.claimed : own[j] = own[l] => j = l
            BY <3>1, <5>1 DEF Owned
          <5>3. ASSUME NEW j \in 1 .. core.claimed
                PROVE  Loading(own[j][1])' /\ own[j][2] \in 1 .. Left(own[j][1])'
            <6>1. PICK q \in Process, i \in Nat : own[j] = <<q, i>>
              BY <5>2
            <6>2. Loading(q) /\ i \in 1 .. Left(q)
              BY <5>2, <6>1
            <6>3. q # p
              BY <1>7, <2>2, <6>2
            <6>4. QED
              BY <1>10, <6>1, <6>2, <6>3
          <5>4. core'.claimed = core.claimed
            BY <1>1
          <5>5. QED
            BY <5>2, <5>3, <5>4, Zenon DEF Owned
        <4>3. QED
          BY <4>1, <4>2
      <3>3. ASSUME NEW q \in Process, pc'[q] \in ReadPCs, q \notin disturbed'
            PROVE  Undisturbed(q)'
        <4>1. pc[q] \in ReadPCs /\ q \notin disturbed
          BY <1>1, <3>3 DEF ReadPCs
        <4>2. Undisturbed(q)
          BY <4>1 DEF ReadInv, Broken
        <4>3. q = p /\ \A r \in Process : pc'[r] \in ReadPCs => r = p
          BY <1>1, <4>2 DEF Undisturbed, ReadPCs
        <4>4. QED
          BY <1>13, <4>3 DEF Undisturbed, Loading
      <3>4. QED
        BY <3>1, <3>2, <3>3
    <2>5. ChannelStep
      <3>1. CASE Broken
        BY <3>1, StepBroken
      <3>2. CASE p \in disturbed
        <4>1. Readers' = Readers
          BY <1>1, <1>8, <1>9, <1>13, <3>2 DEF Doing, ReadPCs, ResetPCs, Readers
        <4>2. QED
          BY <1>3, <4>1, StepNone
      <3>3. CASE ~Broken /\ p \notin disturbed
        <4>1. Undisturbed(p)
          BY <1>1, <3>3 DEF ReadInv, Broken, ReadPCs
        <4>2. k = n /\ \A i \in 1 .. n : words[p][i] = <<item[p], i>>
          BY <1>4, <1>6, <1>7, <2>2, <4>1 DEF Undisturbed
        <4>3. words[p] = WordsOf(item[p])
          <5>1. PICK ws \in Seq(Word) : ws = WordsOf(item[p])
            BY <1>7, PacketWords
          <5>2. Len(ws) = n /\ \A i \in 1 .. n : ws[i] = <<item[p], i>>
            BY <1>5, <1>7, <5>1, PacketWords
          <5>3. PICK vs \in Seq(Word) : vs = words[p]
            BY <1>7
          <5>4. Len(vs) = n /\ \A i \in 1 .. n : vs[i] = <<item[p], i>>
            BY <1>6, <4>2, <5>3
          <5>5. vs = ws
            BY <5>2, <5>4, SeqEqual
          <5>6. QED
            BY <5>1, <5>3, <5>5
        <4>4. Readers' = [Readers EXCEPT ![p] = [state |-> "copied", packet |-> WordsOf(item[p])]]
          BY <1>1, <1>9, <1>13, <2>1, <3>3, <4>3 DEF Doing, ReadPCs, ResetPCs
        <4>5. Readers[p] = [state |-> "taken", packet |-> WordsOf(item[p])]
          BY <1>8, <3>3
        <4>6. QED
          BY <1>3, <4>4, <4>5, StepCopied
      <3>4. QED
        BY <3>1, <3>2, <3>3
    <2>6. QED
      BY <1>3, <2>3, <2>4, <2>5 DEF Kept
  <1>14. QED
    BY <1>1, <1>11, <1>12, <1>13

\* The read returns.
LEMMA ReturnKept ==
  ASSUME ChannelInv, TypesInv', NEW p \in Process, ReadReturn(p)
  PROVE  Kept
  <1> USE DEF ChannelInv
  <1>1. /\ pc[p] = "read_return" /\ pc'[p] = "user" /\ UNCHANGED core
        /\ disturbed' = disturbed \ {p}
        /\ \A q \in Process \ {p} : pc'[q] = pc[q]
        /\ Leave(p)
    BY DEF ReadReturn, Goto, DriverInv, TypesInv
  <1>2. TypesInv /\ TablesKept /\ \A q \in Process \ {p} : Stays(q)
    BY <1>1 DEF DriverInv, TablesKept, Stays, RxTypes, Leave
  <1>3. RxTypes' /\ Queue' = Queue /\ (Broken' <=> Broken)
    BY <1>1, <1>2 DEF RxTypes, TablesKept, Queue, Broken
  <1>4. PlanInv'
    BY <1>1, <1>2, PlanKept
  <1>5. ReadInv'
    <2> SUFFICES ASSUME ~Broken
                 PROVE  /\ Framed(core'.rx, core'.lens, core'.claimed)
                        /\ Owned'
                        /\ \A q \in Process : pc'[q] \in ReadPCs /\ q \notin disturbed'
                                                => Undisturbed(q)'
      BY <1>3 DEF ReadInv, Broken
    <2>1. Framed(core'.rx, core'.lens, core'.claimed) /\ Owned
      BY <1>1 DEF ReadInv, Broken
    <2>2. Owned'
      <3>1. (\A q \in Process : pc'[q] \notin ResetPCs)
              => \A q \in Process : pc[q] \notin ResetPCs
        BY <1>1 DEF ResetPCs
      <3>2. /\ ~Loading(p)
            /\ \A q \in Process \ {p} : (Loading(q)' <=> Loading(q)) /\ Left(q)' = Left(q)
        BY <1>1, <1>2 DEF Loading, Left, Stays
      <3>3. \A q \in Process : Loading(q) => Loading(q)' /\ Left(q)' = Left(q)
        BY <3>2
      <3>4. core'.claimed = core.claimed
        BY <1>1
      <3>5. CASE \E q \in Process : pc'[q] \in ResetPCs
        BY <3>5 DEF Owned
      <3>6. CASE \A q \in Process : pc'[q] \notin ResetPCs
        <4>1. PICK own \in [1 .. core.claimed -> Process \X Nat] :
                /\ \A j \in 1 .. core.claimed :
                     Loading(own[j][1]) /\ own[j][2] \in 1 .. Left(own[j][1])
                /\ \A j, l \in 1 .. core.claimed : own[j] = own[l] => j = l
          BY <2>1, <3>1, <3>6 DEF Owned
        <4>2. \A j \in 1 .. core.claimed :
                Loading(own[j][1])' /\ own[j][2] \in 1 .. Left(own[j][1])'
          BY <3>3, <4>1
        <4>3. QED
          BY <3>4, <4>1, <4>2, Zenon DEF Owned
      <3>7. QED
        BY <3>5, <3>6
    <2>3. ASSUME NEW q \in Process, pc'[q] \in ReadPCs, q \notin disturbed'
          PROVE  Undisturbed(q)'
      <3>1. q # p /\ pc[q] \in ReadPCs /\ q \notin disturbed
        BY <1>1, <2>3 DEF ReadPCs
      <3>2. Undisturbed(q)
        BY <3>1 DEF ReadInv, Broken
      <3>3. QED
        BY <1>1, <3>1, <3>2 DEF Undisturbed, ReadPCs
    <2>4. QED
      BY <2>1, <2>2, <2>3
  <1>6. ChannelStep
    <2>1. Readers' = [Readers EXCEPT ![p] = IdleRead]
      BY <1>1, <1>2, OthersRead DEF Doing, ReadPCs, ResetPCs
    <2>2. Readers[p].state \in {"copied", "torn"}
      BY <1>1, <1>2, ReadersNow DEF Doing, ReadPCs, ResetPCs, TornRead
    <2>3. QED
      BY <1>3, <2>1, <2>2, StepReturn
  <1>7. QED
    BY <1>3, <1>4, <1>5, <1>6 DEF Kept

\* What others than p have, and the tables after a call.
Untouched(p) ==
  \A q \in Process \ {p} :
    /\ item'[q] = item[q] /\ plan'[q] = plan[q] /\ words'[q] = words[q]
    /\ pc[q] \in ReadPCs => (q \in disturbed' <=> q \in disturbed)

\* A process that goes from one place to another, neither of them a read.
LEMMA AsideGoes ==
  ASSUME ChannelInv, TypesInv', NEW p \in Process, NEW from, NEW to, Goto(p, from, to),
         from \notin ReadPCs \cup ResetPCs, to \notin ReadPCs,
         RxSame(core, core'), TablesKept, Untouched(p)
  PROVE  Kept
  <1>1. /\ pc[p] = from /\ pc'[p] = to
        /\ \A q \in Process \ {p} : pc'[q] = pc[q]
    BY DEF Goto, ChannelInv, DriverInv, TypesInv
  <1>2. Aside(p) /\ \A q \in Process \ {p} : Stays(q)
    BY <1>1 DEF Aside, Stays, Untouched
  <1>3. QED
    BY <1>2, AsideKept

\* Calls leave the tables of the others alone.
LEMMA TablesOf ==
  ASSUME RxTypes, NEW p \in Process
  PROVE  /\ UNCHANGED <<item, plan, words>> => TablesKept
         /\ Leave(p) => TablesKept
         /\ UNCHANGED <<item, plan, words, disturbed>> => Untouched(p)
         /\ Leave(p) /\ UNCHANGED disturbed => Untouched(p)
         /\ Leave(p) /\ disturbed' = disturbed \ {p} => Untouched(p)
         /\ UNCHANGED core => RxSame(core, core')
  BY DEF RxTypes, TablesKept, Leave, Untouched, RxSame

\* write() leaves the receive side alone.
LEMMA WritesKept ==
  ASSUME ChannelInv, TypesInv', NEW p \in Process,
         \/ \E x \in Payload : WriteCall(p, x)
         \/ WriteWait(p) \/ WriteCopy(p) \/ WriteWord(p) \/ WriteLength(p)
  PROVE  Kept
  <1> USE DEF ChannelInv
  <1>1. ASSUME Joins(p, InWrite)
        PROVE  \A q \in Process \ {p} : pc[q] \in ReadPCs => (q \in disturbed' <=> q \in disturbed)
    BY <1>1 DEF Joins, InWrite, ReadPCs, WritePCs, ResetPCs
  <1>2. ASSUME NEW x \in Payload, WriteCall(p, x)
        PROVE  Kept
    <2>1. /\ Goto(p, "user", IF write_flags THEN "write_copy" ELSE "write_wait")
          /\ item' = [item EXCEPT ![p] = x] /\ plan' = [plan EXCEPT ![p] = Copies(x)]
          /\ UNCHANGED <<core, words>>
          /\ Joins(p, InWrite) \/ UNCHANGED disturbed
      BY <1>2, Zenon DEF WriteCall
    <2>2. TablesKept /\ Untouched(p) /\ RxSame(core, core')
      BY <1>1, <2>1 DEF RxTypes, TablesKept, Untouched, RxSame
    <2>3. QED
      BY <2>1, <2>2, AsideGoes DEF ReadPCs, ResetPCs
  <1>3. CASE WriteWait(p)
    <2>1. /\ pc[p] = "write_wait" /\ UNCHANGED <<core, item, plan, words>>
          /\ \/ pc' = [pc EXCEPT ![p] = "write_copy"] /\ Joins(p, InWrite)
             \/ UNCHANGED <<pc, disturbed>>
      BY <1>3, Zenon DEF WriteWait, transferVars
    <2>2. Aside(p) /\ \A q \in Process \ {p} : Stays(q)
      BY <1>1, <2>1 DEF Aside, Stays, ReadPCs, ResetPCs, DriverInv, TypesInv
    <2>3. QED
      BY <2>1, <2>2, TablesOf, AsideKept
  <1>4. CASE WriteCopy(p)
    <2>1. /\ UNCHANGED <<core, disturbed>>
          /\ \/ Goto(p, "write_copy", "reset") /\ Leave(p)
             \/ Goto(p, "write_copy", "write_word") /\ UNCHANGED <<item, plan, words>>
      BY <1>4, Zenon DEF WriteCopy, transferVars, historyVars
    <2>2. QED
      BY <2>1, TablesOf, AsideGoes DEF ReadPCs, ResetPCs
  <1>5. CASE WriteWord(p)
    <2>1. PICK w : core' = WriteTDFD(core, w)
      BY <1>5, Zenon DEF WriteWord
    <2>2. PICK to \in {"write_word", "write_copy", "write_len"} : Goto(p, "write_word", to)
      BY <1>5 DEF WriteWord
    <2>3. /\ words' = [words EXCEPT ![p] = Append(@, <<item[p], Len(@) + 1>>)]
          /\ \/ plan' = [plan EXCEPT ![p] = Tail(@)]
             \/ plan' = [plan EXCEPT ![p][1] = @ - 1]
          /\ UNCHANGED <<item, disturbed>>
      BY <1>5, Zenon DEF WriteWord, historyVars
    <2>4. TablesKept /\ Untouched(p)
      BY <2>3 DEF RxTypes, TablesKept, Untouched
    <2>5. RxSame(core, core')
      BY <2>1, TxWrites DEF RxTypes
    <2>6. QED
      BY <2>2, <2>4, <2>5, AsideGoes DEF ReadPCs, ResetPCs
  <1>6. CASE WriteLength(p)
    <2>1. /\ Goto(p, "write_len", "user") /\ Leave(p) /\ disturbed' = disturbed \ {p}
          /\ core' = WriteTLR(core, WordsIn(Bytes[item[p]]))
      BY <1>6, Zenon DEF WriteLength
    <2>2. RxSame(core, core')
      BY <2>1, TxWrites DEF RxTypes
    <2>3. QED
      BY <2>1, <2>2, TablesOf, AsideGoes DEF ReadPCs, ResetPCs
  <1>7. QED
    BY <1>2, <1>3, <1>4, <1>5, <1>6

\* The calls of a process.
LEMMA TransfersKept ==
  ASSUME ChannelInv, TypesInv', NEW p \in Process, Transfers(p)
  PROVE  Kept
  <1> USE DEF ChannelInv
  <1>1. CASE ReadCall(p)
    <2>1. /\ Goto(p, "user", IF read_flags THEN "read_len" ELSE "read_wait")
          /\ read_flags => CanRead /\ Joins(p, InRead)
          /\ ~read_flags => UNCHANGED disturbed
          /\ UNCHANGED <<core, item, plan, words>>
      BY <1>1, Zenon DEF ReadCall, transferVars
    <2>2. CASE read_flags
      BY <2>1, <2>2, BeginKept DEF Goto, ReadPCs, ResetPCs
    <2>3. CASE ~read_flags
      BY <2>1, <2>3, TablesOf, AsideGoes DEF ReadPCs, ResetPCs
    <2>4. QED
      BY <2>2, <2>3
  <1>2. CASE ReadWait(p)
    <2>1. /\ pc[p] = "read_wait" /\ UNCHANGED <<core, item, plan, words>>
          /\ \/ CanRead /\ pc' = [pc EXCEPT ![p] = "read_len"] /\ Joins(p, InRead)
             \/ UNCHANGED <<pc, disturbed>>
      BY <1>2, Zenon DEF ReadWait, transferVars
    <2>2. CASE CanRead /\ pc' = [pc EXCEPT ![p] = "read_len"] /\ Joins(p, InRead)
      BY <2>1, <2>2, BeginKept DEF ReadPCs, ResetPCs
    <2>3. CASE UNCHANGED <<pc, disturbed>>
      <3>1. \A q \in Process : Stays(q)
        BY <2>1, <2>3 DEF Stays
      <3>2. QED
        BY <2>1, <3>1, TablesOf, StayKept
    <2>4. QED
      BY <2>1, <2>2, <2>3
  <1>3. CASE ReadLength(p) \/ ReadWord(p) \/ ReadCopy(p) \/ ReadReturn(p)
    BY <1>3, LengthKept, WordKept, CopyKept, ReturnKept
  <1>4. CASE \/ \E x \in Payload : WriteCall(p, x)
             \/ WriteWait(p) \/ WriteCopy(p) \/ WriteWord(p) \/ WriteLength(p)
    BY <1>4, WritesKept
  <1>5. CASE PollCall(p)
    <2>1. Goto(p, "user", "poll") /\ UNCHANGED <<core, item, plan, words, disturbed>>
      BY <1>5, Zenon DEF PollCall, transferVars, historyVars
    <2>2. QED
      BY <2>1, TablesOf, AsideGoes DEF ReadPCs, ResetPCs
  <1>6. CASE Poll(p)
    <2>1. /\ pc[p] = "poll" /\ UNCHANGED <<core, item, plan, words, disturbed>>
          /\ pc' = [pc EXCEPT ![p] = "user"] \/ UNCHANGED pc
      BY <1>6, Zenon DEF Poll, transferVars, historyVars
    <2>2. Aside(p) /\ \A q \in Process \ {p} : Stays(q)
      BY <2>1 DEF Aside, Stays, ReadPCs, ResetPCs, DriverInv, TypesInv
    <2>3. QED
      BY <2>1, <2>2, TablesOf, AsideKept
  <1>7. CASE GiveUp(p)
    <2>1. /\ p \in asleep /\ UNCHANGED <<core, disturbed>>
          /\ \/ UNCHANGED <<pc, item, plan, words>>
             \/ pc' = [pc EXCEPT ![p] = "user"] /\ Leave(p)
      BY <1>7, Zenon DEF GiveUp, transferVars
    <2>2. pc[p] \in WaitPCs /\ pc \in [Process -> PCs]
      BY <2>1 DEF DriverInv, TypesInv
    <2>3. TablesKept /\ Untouched(p) /\ RxSame(core, core')
      BY <2>1, TablesOf
    <2>4. Aside(p) /\ \A q \in Process \ {p} : Stays(q)
      BY <2>1, <2>2, <2>3 DEF Aside, Stays, Untouched, ReadPCs, ResetPCs, WaitPCs
    <2>5. QED
      BY <2>3, <2>4, AsideKept
  <1>8. CASE ResetCore(p, "reset", "reset_isr")
    BY <1>8, ResetKept DEF ResetPCs
  <1>9. CASE ResetIsr(p, "reset_isr", "user") /\ UNCHANGED lockVars
    <2>1. /\ Goto(p, "reset_isr", "user") /\ UNCHANGED <<item, plan, words, disturbed>>
          /\ core' = [core EXCEPT !.isr = {}]
      BY <1>9, Zenon DEF ResetIsr, transferVars, historyVars
    <2>2. RxSame(core, core')
      BY <2>1, TxOps DEF RxTypes
    <2>3. QED
      BY <2>1, <2>2, TablesOf, AsideGoes DEF ReadPCs, ResetPCs
  <1>10. QED
    BY <1>1, <1>2, <1>3, <1>4, <1>5, <1>6, <1>7, <1>8, <1>9 DEF Transfers

\* A register that is reached by hand, by a process that is not reading.
LEMMA TouchKept ==
  ASSUME ChannelInv, TypesInv', NEW p \in Process, NEW r \in Register, Touch(r),
         UNCHANGED <<item, plan, words>>,
         pc[p] \notin ReadPCs \cup ResetPCs, pc'[p] \notin ReadPCs \cup ResetPCs,
         \A q \in Process \ {p} : pc'[q] = pc[q]
  PROVE  Kept
  <1> USE DEF ChannelInv
  <1>1. /\ core' = RawAccess(core, r)
        /\ disturbed' = disturbed \cup (IF r \in {"RDFR", "SRR"} THEN InRead ELSE {})
                                  \cup (IF r \in {"TDFR", "SRR"} THEN InWrite ELSE {})
    BY Zenon DEF Touch
  <1>2. TablesKept /\ DOMAIN core = Fields /\ TypesInv
    BY TablesOf DEF RxTypes, DriverInv
  <1>3. /\ core.rx \in Seq(Word) /\ core.lens \in Seq(Payload) /\ core.claimed \in Nat
    BY DEF RxTypes
  <1>4. CASE r \in {"RDFR", "SRR"}
    <2>1. Flushed(core')
      <3>1. core' = ResetRx(core) \/ core' = ResetTx(ResetRx(core))
        BY <1>1, <1>4 DEF RawAccess
      <3>2. QED
        BY <1>2, <3>1, Resets
    <2>2. \A q \in Process : pc[q] \in ReadPCs => q \in disturbed'
      BY <1>1, <1>4 DEF InRead
    <2>3. QED
      BY <2>1, <2>2, FlushKept
  <1>5. ASSUME r \notin {"RDFR", "SRR"}
        PROVE  Untouched(p)
    BY <1>1, <1>5 DEF Untouched, InWrite, ReadPCs, WritePCs, ResetPCs
  <1>6. CASE r \in {"RDFD", "RLR"}
    <2>1. /\ DOMAIN core' = Fields
          /\ core'.rx \in Seq(Word) /\ core'.lens \in Seq(Payload) /\ core'.claimed \in Nat
          /\ "rx" \in core'.skewed
      <3>1. CASE r = "RDFD"
        <4>1. core' = [ReadRDFD(core) EXCEPT !.skewed = @ \cup {"rx"}]
          BY <1>1, <3>1 DEF RawAccess
        <4>2. /\ DOMAIN ReadRDFD(core) = Fields
              /\ ReadRDFD(core).rx \in Seq(Word)
              /\ ReadRDFD(core).lens = core.lens
              /\ ReadRDFD(core).claimed \in Nat
          <5>1. CASE core.rx = <<>>
            BY <1>2, <1>3, <5>1 DEF ReadRDFD, Fail, Raise, Fields
          <5>2. CASE core.rx # <<>> /\ core.claimed = 0
            <6>1. Tail(core.rx) \in Seq(Word)
              BY <1>3, <5>2
            <6>2. QED
              BY <1>2, <1>3, <5>2, <6>1 DEF ReadRDFD, Fail, Raise, Fields
          <5>3. CASE core.rx # <<>> /\ core.claimed # 0
            <6>1. Tail(core.rx) \in Seq(Word) /\ core.claimed - 1 \in Nat
              BY <1>3, <5>3
            <6>2. QED
              BY <1>2, <1>3, <5>3, <6>1 DEF ReadRDFD, Fields
          <5>4. QED
            BY <5>1, <5>2, <5>3
        <4>3. QED
          BY <1>3, <4>1, <4>2 DEF Fields
      <3>2. CASE r = "RLR"
        <4>1. core' = [ReadRLR(core) EXCEPT !.skewed = @ \cup {"rx"}]
          BY <1>1, <3>2 DEF RawAccess
        <4>2. /\ DOMAIN ReadRLR(core) = Fields
              /\ ReadRLR(core).rx = core.rx
              /\ ReadRLR(core).lens \in Seq(Payload)
              /\ ReadRLR(core).claimed \in Nat
          <5>1. CASE core.lens = <<>>
            BY <1>2, <1>3, <5>1 DEF ReadRLR, Fail, Raise, Fields
          <5>2. CASE core.lens # <<>>
            <6>1. Head(core.lens) \in Payload /\ Tail(core.lens) \in Seq(Payload)
              BY <1>3, <5>2
            <6>2. core.claimed + WordsIn(Bytes[Head(core.lens)]) \in Nat
              BY <1>3, <6>1, PacketWords
            <6>3. QED
              BY <1>2, <1>3, <5>2, <6>1, <6>2 DEF ReadRLR, Fields
          <5>3. QED
            BY <5>1, <5>2
        <4>3. QED
          BY <1>3, <4>1, <4>2 DEF Fields
      <3>3. QED
        BY <1>6, <3>1, <3>2
    <2>2. RxTypes' /\ ReadInv'
      BY <1>2, <2>1 DEF RxTypes, TablesKept, ReadInv
    <2>3. PlanInv'
      BY DEF PlanInv, Loading, ReadPCs
    <2>4. ChannelStep
      <3>1. \A q \in Process \ {p} : Stays(q)
        BY <1>5, <1>6 DEF Stays, Untouched
      <3>2. Readers' = [Readers EXCEPT ![p] = Doing(pc'[p], item'[p], words'[p], p \in disturbed')]
        BY <1>2, <3>1, OthersRead
      <3>3. Readers[p] = Doing(pc'[p], item'[p], words'[p], p \in disturbed')
        BY <1>2, ReadersNow DEF Doing
      <3>4. Readers' = Readers
        BY <3>2, <3>3 DEF Readers
      <3>5. QED
        BY <2>1, <3>4, StepTamper DEF Broken
    <2>5. QED
      BY <2>2, <2>3, <2>4 DEF Kept
  <1>7. CASE r \notin {"RDFR", "SRR", "RDFD", "RLR"}
    <2>1. RxSame(core, core')
      <3>1. RxSame(core, core)
        BY <1>2 DEF RxSame
      <3>2. ASSUME NEW d, RxSame(core, d)
            PROVE  RxSame(core, [d EXCEPT !.skewed = @ \cup {"tx"}])
        BY <3>2 DEF RxSame, Fields
      <3>3. CASE r \in {"TDFD", "TLR"}
        <4>1. PICK d : /\ d = WriteTDFD(core, <<NoPayload, 0>>) \/ d = WriteTLR(core, 1)
                       /\ core' = [d EXCEPT !.skewed = @ \cup {"tx"}]
          BY <1>1, <3>3 DEF RawAccess
        <4>2. QED
          BY <1>2, <3>2, <4>1, TxWrites
      <3>4. CASE r = "TDFR"
        BY <1>1, <1>2, <3>4, TxOps DEF RawAccess
      <3>5. CASE r \in {"IER", "ISR"}
        <4>1. core' = [core EXCEPT !.ier = {}] \/ core' = [core EXCEPT !.isr = {}]
          BY <1>1, <3>5 DEF RawAccess
        <4>2. QED
          BY <1>2, <4>1, TxOps
      <3>6. CASE r \in {"TDFV", "RDFO", "TDR", "RDR"}
        <4>1. core' = core
          BY <1>1, <3>6 DEF RawAccess
        <4>2. QED
          BY <3>1, <4>1
      <3>7. QED
        BY <1>7, <3>3, <3>4, <3>5, <3>6, ConstantsAssumption
    <2>2. Aside(p) /\ \A q \in Process \ {p} : Stays(q)
      BY <1>5, <1>7 DEF Aside, Stays, Untouched
    <2>3. QED
      BY <1>2, <2>1, <2>2, AsideKept
  <1>8. QED
    BY <1>4, <1>6, <1>7

\* ioctl and sysfs.
LEMMA ControlKept ==
  ASSUME ChannelInv, TypesInv', NEW p \in Process, Control(p)
  PROVE  Kept
  <1> USE DEF ChannelInv
  <1>1. CASE SysfsReset(p)
    <2>1. Goto(p, "user", "reset") /\ UNCHANGED <<core, item, plan, words, disturbed>>
      BY <1>1, Zenon DEF SysfsReset, transferVars, historyVars
    <2>2. QED
      BY <2>1, TablesOf, AsideGoes DEF ReadPCs, ResetPCs
  <1>2. ASSUME NEW r \in Register, SysfsAccess(p, r)
        PROVE  Kept
    <2>1. pc[p] = "user" /\ Touch(r) /\ UNCHANGED <<pc, item, plan, words>>
      BY <1>2, Zenon DEF SysfsAccess, transferVars
    <2>2. pc[p] \notin ReadPCs \cup ResetPCs /\ pc'[p] \notin ReadPCs \cup ResetPCs
      BY <2>1 DEF ReadPCs, ResetPCs
    <2>3. QED
      BY <2>1, <2>2, TouchKept
  <1>3. ASSUME NEW r \in Register, IoctlRegister(p, r)
        PROVE  Kept
    <2>1. Goto(p, "ioctl", "user") /\ Touch(r) /\ UNCHANGED <<item, plan, words>>
      BY <1>3, Zenon DEF IoctlRegister, transferVars
    <2>2. /\ pc[p] \notin ReadPCs \cup ResetPCs /\ pc'[p] \notin ReadPCs \cup ResetPCs
          /\ \A q \in Process \ {p} : pc'[q] = pc[q]
      BY <2>1 DEF ReadPCs, ResetPCs, Goto, DriverInv, TypesInv
    <2>3. QED
      BY <2>1, <2>2, TouchKept
  <1>4. ASSUME NEW rx \in Threshold, NEW tx \in Threshold, SysfsThreshold(p, rx, tx)
        PROVE  Kept
    <2>1. UNCHANGED <<core, pc, item, plan, words, disturbed>>
      BY <1>4, Zenon DEF SysfsThreshold, transferVars
    <2>2. \A q \in Process : Stays(q)
      BY <2>1 DEF Stays
    <2>3. QED
      BY <2>1, <2>2, TablesOf, StayKept
  <1>5. ASSUME NEW rx \in Threshold, NEW tx \in Threshold, IoctlThreshold(p, rx, tx)
        PROVE  Kept
    <2>1. Goto(p, "ioctl", "user") /\ UNCHANGED <<core, item, plan, words, disturbed>>
      BY <1>5, Zenon DEF IoctlThreshold, transferVars
    <2>2. QED
      BY <2>1, TablesOf, AsideGoes DEF ReadPCs, ResetPCs
  <1>6. CASE IoctlLock(p)
    <2>1. Goto(p, "user", "ioctl") /\ UNCHANGED <<core, item, plan, words, disturbed>>
      BY <1>6, Zenon DEF IoctlLock, transferVars, historyVars
    <2>2. QED
      BY <2>1, TablesOf, AsideGoes DEF ReadPCs, ResetPCs
  <1>7. CASE IoctlFails(p)
    <2>1. Goto(p, "ioctl", "user") /\ UNCHANGED <<core, item, plan, words, disturbed>>
      BY <1>7, Zenon DEF IoctlFails, transferVars, historyVars
    <2>2. QED
      BY <2>1, TablesOf, AsideGoes DEF ReadPCs, ResetPCs
  <1>8. CASE IoctlReset(p)
    <2>1. CASE Goto(p, "ioctl", "ioctl_reset") /\ UNCHANGED <<core, item, plan, words, disturbed>>
      BY <2>1, TablesOf, AsideGoes DEF ReadPCs, ResetPCs
    <2>2. CASE ResetCore(p, "ioctl_reset", "ioctl_isr")
      BY <2>2, ResetKept DEF ResetPCs
    <2>3. CASE ResetIsr(p, "ioctl_isr", "user")
      <3>1. /\ Goto(p, "ioctl_isr", "user") /\ UNCHANGED <<item, plan, words, disturbed>>
            /\ core' = [core EXCEPT !.isr = {}]
        BY <2>3, Zenon DEF ResetIsr, transferVars, historyVars
      <3>2. RxSame(core, core')
        BY <3>1, TxOps DEF RxTypes
      <3>3. QED
        BY <3>1, <3>2, TablesOf, AsideGoes DEF ReadPCs, ResetPCs
    <2>4. QED
      BY <1>8, <2>1, <2>2, <2>3, Zenon DEF IoctlReset, transferVars, historyVars
  <1>9. QED
    BY <1>1, <1>2, <1>3, <1>4, <1>5, <1>6, <1>7, <1>8 DEF Control

\* The core and the interrupt handler.
LEMMA DeviceKept ==
  ASSUME ChannelInv, TypesInv', Device
  PROVE  Kept
  <1> USE DEF ChannelInv
  <1>1. DOMAIN core = Fields
    BY DEF RxTypes
  <1>2. CASE Transmit
    <2>1. /\ core' = Raise([core EXCEPT !.txq = Tail(@)], "TC")
          /\ UNCHANGED <<pc, item, plan, words, disturbed>>
      BY <1>2, Zenon DEF Transmit, transferVars
    <2>2. PICK d : d = [core EXCEPT !.txq = Tail(core.txq)]
      OBVIOUS
    <2>3. RxSame(core, d) /\ core' = Raise(d, "TC")
      BY <1>1, <2>1, <2>2, TxOps
    <2>4. RxSame(d, core')
      BY <2>3, TxOps DEF RxSame
    <2>5. RxSame(core, core')
      BY <2>3, <2>4 DEF RxSame
    <2>6. TablesKept /\ \A q \in Process : Stays(q)
      BY <2>1 DEF TablesKept, Stays, RxTypes
    <2>7. QED
      BY <2>5, <2>6, StayKept
  <1>3. ASSUME NEW x \in Payload, Arrive(x)
        PROVE  Kept
    BY <1>3, ArriveKept
  <1>4. CASE IrqServe
    <2>1. PICK i : /\ core' = CASE i = "RXERROR" -> ResetRx(core)
                              [] i = "TPOE" -> ResetTx(core)
                              [] OTHER -> core
                   /\ disturbed' = disturbed \cup (CASE i = "RXERROR" -> InRead
                                                    [] i = "TPOE" -> InWrite
                                                    [] OTHER -> {})
      BY <1>4, Zenon DEF IrqServe
    <2>2. UNCHANGED <<pc, item, plan, words>>
      BY <1>4, Zenon DEF IrqServe, transferVars
    <2>3. CASE i = "RXERROR"
      <3>1. core' = ResetRx(core) /\ disturbed' = disturbed \cup InRead
        BY <2>1, <2>3
      <3>2. Flushed(core') /\ \A q \in Process : pc[q] \in ReadPCs => q \in disturbed'
        BY <1>1, <3>1, Resets DEF InRead
      <3>3. QED
        BY <2>2, <3>2, FlushKept
    <2>4. CASE i # "RXERROR"
      <3>1. /\ core' = ResetTx(core) \/ core' = core
            /\ disturbed' = disturbed \cup InWrite \/ disturbed' = disturbed
        BY <2>1, <2>4
      <3>2. RxSame(core, core')
        BY <1>1, <3>1, TxOps DEF RxSame
      <3>3. TablesKept /\ \A q \in Process : Stays(q)
        BY <2>2, <3>1
        DEF TablesKept, Stays, RxTypes, InWrite, ReadPCs, WritePCs, ResetPCs
      <3>4. QED
        BY <3>2, <3>3, StayKept
    <2>5. QED
      BY <2>3, <2>4
  <1>5. CASE IrqClear
    <2>1. core' = [core EXCEPT !.isr = @ \ {irq}] /\ UNCHANGED <<pc, item, plan, words, disturbed>>
      BY <1>5, Zenon DEF IrqClear, transferVars, historyVars
    <2>2. RxSame(core, core')
      BY <1>1, <2>1, TxOps
    <2>3. TablesKept /\ \A q \in Process : Stays(q)
      BY <2>1 DEF TablesKept, Stays, RxTypes
    <2>4. QED
      BY <2>2, <2>3, StayKept
  <1>6. QED
    BY <1>2, <1>3, <1>4, <1>5 DEF Device

\* Opening and closing.
LEMMA FilesKept ==
  ASSUME ChannelInv, TypesInv', NEW p \in Process, Files(p)
  PROVE  Kept
  <1>1. UNCHANGED <<core, pc, item, plan, words, disturbed>>
    BY Zenon DEF Files, Open, OpenFails, Close, transferVars, historyVars
  <1>2. \A q \in Process : Stays(q)
    BY <1>1 DEF Stays
  <1>3. QED
    BY <1>1, <1>2, TablesOf, StayKept DEF ChannelInv

\* Nobody is in a call while a resource is acquired or given back.
LEMMA LifeQuiet ==
  ASSUME ChannelInv, Life, ~axis_fifo_remove
  PROVE  \A p \in Process : pc[p] = "user"
  <1> USE DEF ChannelInv, DriverInv
  <1>1. CASE ProbeStart
    BY <1>1 DEF ProbeStart
  <1>2. CASE ProbeStep \/ ProbeFails
    <2>1. held # ProbeOrder
      BY <1>2 DEF ProbeStep, ProbeFails
    <2>2. QED
      BY <2>1, HeldUpTo DEF CallInv
  <1>3. CASE Release
    <2> SUFFICES ASSUME NEW p \in Process, pc[p] # "user"
                 PROVE  FALSE
      OBVIOUS
    <2>1. Len(held) = 7 /\ driver = "unwinding" /\ failed_at = "none"
      BY <1>3 DEF Release, CallInv
    <2>2. Last(held) = "sysfs"
      BY <2>1, Order DEF Last, HeldInv
    <2>3. file[p] = Closed
      BY <2>1 DEF ActiveInv, Active
    <2>4. QED
      BY <1>3, <2>2, <2>3 DEF Release
  <1>4. CASE Gone
    BY <1>4 DEF Gone, CallInv
  <1>5. QED
    BY <1>1, <1>2, <1>3, <1>4 DEF Life

\* Probe, remove and their unwinding.
LEMMA LifeKept ==
  ASSUME ChannelInv, TypesInv', Life
  PROVE  Kept
  <1>1. UNCHANGED <<pc, item, plan, words, disturbed>>
    BY Zenon DEF Life, ProbeStart, ProbeStep, ProbeFails, axis_fifo_remove, Release, Gone,
                 transferVars, historyVars
  <1>2. CASE UNCHANGED core
    <2>1. \A q \in Process : Stays(q)
      BY <1>1 DEF Stays
    <2>2. RxSame(core, core') /\ TablesKept
      BY <1>1, <1>2 DEF RxSame, TablesKept, RxTypes, ChannelInv
    <2>3. QED
      BY <2>1, <2>2, StayKept
  <1>3. CASE core' # core
    <2>1. ProbeStep \/ Release
      BY <1>3, Zenon DEF Life, ProbeStart, ProbeFails, axis_fifo_remove, Gone
    <2>2. Flushed(core')
      <3>1. core' = [CoreReset(core) EXCEPT !.isr = {}] \/ core' = EmptyCore
        BY <1>3, <2>1, Zenon DEF ProbeStep, Release
      <3>2. QED
        BY <3>1, Resets DEF ChannelInv, RxTypes
    <2>3. ~axis_fifo_remove
      BY <1>3 DEF axis_fifo_remove
    <2>4. \A q \in Process : pc'[q] = pc[q] /\ pc[q] \notin ReadPCs
      BY <1>1, <2>3, LifeQuiet DEF ReadPCs
    <2>5. QED
      BY <1>1, <2>2, <2>4, FlushKept
  <1>4. QED
    BY <1>2, <1>3

\* Calls are made of a live driver only.
LEMMA CallsKept ==
  ASSUME ChannelInv, [AxisNext]_axisVars
  PROVE  CallInv'
  <1> USE DEF ChannelInv, DriverInv
  <1>1. ASSUME UNCHANGED lifeVars,
               \A q \in Process : pc'[q] # "user" => pc[q] # "user" \/ driver = "live"
        PROVE  CallInv'
    <2>1. UNCHANGED <<driver, held, failed_at>>
      BY <1>1 DEF lifeVars
    <2>2. QED
      BY <1>1, <2>1 DEF CallInv, HeldInv
  <1>2. CASE Life
    <2>1. UNCHANGED pc
      BY <1>2, Zenon
      DEF Life, ProbeStart, ProbeStep, ProbeFails, axis_fifo_remove, Release, Gone
    <2>2. CASE axis_fifo_remove
      BY <2>1, <2>2 DEF axis_fifo_remove, CallInv, HeldInv
    <2>3. CASE ~axis_fifo_remove
      BY <1>2, <2>1, <2>3, LifeQuiet DEF CallInv
    <2>4. QED
      BY <2>2, <2>3
  <1>3. CASE Device
    <2>1. UNCHANGED <<lifeVars, pc>>
      BY <1>3, Zenon DEF Device, Transmit, Arrive, IrqServe, IrqClear
    <2>2. QED
      BY <1>1, <2>1
  <1>4. ASSUME NEW p \in Process, Files(p)
        PROVE  CallInv'
    <2>1. UNCHANGED <<lifeVars, pc>>
      BY <1>4, Zenon DEF Files, Open, OpenFails, Close
    <2>2. QED
      BY <1>1, <2>1
  <1>5. ASSUME NEW p \in Process, Transfers(p)
        PROVE  CallInv'
    <2>1. Moves(p)
      BY <1>5, TransfersMove
    <2>2. UNCHANGED lifeVars /\ (pc' # pc => (driver = "live" \/ pc[p] # "user")
                                              /\ pc' = [pc EXCEPT ![p] = pc'[p]])
      BY <2>1, Zenon DEF Moves
    <2>3. \A q \in Process : pc'[q] # "user" => pc[q] # "user" \/ driver = "live"
      BY <2>2 DEF TypesInv
    <2>4. QED
      BY <1>1, <2>2, <2>3
  <1>6. ASSUME NEW p \in Process, Control(p)
        PROVE  CallInv'
    <2>1. UNCHANGED lifeVars /\ (UNCHANGED pc \/ \E from, to : Goto(p, from, to))
      BY <1>6, Zenon
      DEF Control, SysfsReset, SysfsAccess, IoctlRegister, SysfsThreshold, IoctlThreshold,
          IoctlLock, IoctlFails, IoctlReset, ResetCore, ResetIsr
    <2>2. \A q \in Process : pc'[q] # "user" => pc[q] # "user" \/ driver = "live"
      BY <2>1 DEF Goto, TypesInv
    <2>3. QED
      BY <1>1, <2>1, <2>2
  <1>7. CASE UNCHANGED axisVars
    <2>1. UNCHANGED <<lifeVars, pc>>
      BY <1>7, Zenon DEF axisVars
    <2>2. QED
      BY <1>1, <2>1
  <1>8. QED
    BY <1>2, <1>3, <1>4, <1>5, <1>6, <1>7, ConstantsAssumption DEF AxisNext

\* The initial states of the driver are those of an empty channel.
LEMMA InitChannel ==
  ASSUME AxisInit
  PROVE  ChannelInv /\ Packets!ChannelInit
  <1> USE DEF AxisInit
  <1>1. DriverInv
    BY InitDriverInv
  <1>2. RxTypes
    BY DEF RxTypes, EmptyCore, Fields
  <1>3. CallInv /\ PlanInv
    BY DEF CallInv, PlanInv, Loading
  <1>4. core.rx = <<>> /\ core.lens = <<>> /\ core.claimed = 0 /\ core.skewed = {}
    BY DEF EmptyCore
  <1>5. ReadInv
    <2>1. Framed(core.rx, core.lens, core.claimed)
      <3>1. FramedBy(<<>>, <<>>, 0, [i \in 0 .. 0 |-> 0])
        BY DEF FramedBy
      <3>2. [i \in 0 .. 0 |-> 0] \in [0 .. Len(<<>>) -> Nat]
        OBVIOUS
      <3>3. QED
        BY <1>4, <3>1, <3>2 DEF Framed
    <2>2. Owned
      <3>1. [j \in 1 .. 0 |-> <<>>] \in [1 .. 0 -> Process \X Nat]
        OBVIOUS
      <3>2. \A j \in 1 .. 0 : FALSE
        OBVIOUS
      <3>3. QED
        BY <1>4, <3>1, <3>2 DEF Owned
    <2>3. QED
      BY <2>1, <2>2 DEF ReadInv, ReadPCs
  <1>6. Packets!ChannelInit
    <2>1. Queue = <<>>
      BY <1>4 DEF Queue
    <2>2. Readers = [p \in Process |-> IdleRead]
      <3>1. TypesInv
        BY <1>1 DEF DriverInv
      <3>2. \A p \in Process : pc[p] = "user"
        OBVIOUS
      <3>3. \A p \in Process : Doing(pc[p], item[p], words[p], p \in disturbed) = IdleRead
        BY <3>2 DEF Doing, ReadPCs, ResetPCs
      <3>4. QED
        BY <3>1, <3>3, ReadersNow
    <2>3. ("rx" \in core.skewed) = FALSE
      BY <1>4
    <2>4. QED
      BY <2>1, <2>2, <2>3, Zenon
      DEF Packets!ChannelInit, Packets!Idle, Packets!Reading, IdleRead, Queue, Readers
  <1>7. QED
    BY <1>1, <1>2, <1>3, <1>5, <1>6 DEF ChannelInv

\* Every step of the driver, the core and the processes keeps the invariant and is one
\* of the channel.
LEMMA NextChannel ==
  ChannelInv /\ [AxisNext]_axisVars => ChannelInv' /\ ChannelStep
  <1> SUFFICES ASSUME ChannelInv, [AxisNext]_axisVars
               PROVE  ChannelInv' /\ ChannelStep
    OBVIOUS
  <1>1. DriverInv' /\ TypesInv'
    BY NextDriverInv DEF ChannelInv, DriverInv
  <1>2. CallInv'
    BY CallsKept
  <1>3. Kept
    <2>1. CASE Life
      BY <1>1, <2>1, LifeKept
    <2>2. CASE Device
      BY <1>1, <2>2, DeviceKept
    <2>3. ASSUME NEW p \in Process, Files(p) \/ Transfers(p)
          PROVE  Kept
      BY <1>1, <2>3, FilesKept, TransfersKept
    <2>4. ASSUME NEW p \in Admin, Control(p)
          PROVE  Kept
      BY <1>1, <2>4, ControlKept, ConstantsAssumption
    <2>5. CASE UNCHANGED axisVars
      <3>1. UNCHANGED <<core, pc, item, plan, words, disturbed>>
        BY <2>5, Zenon DEF axisVars, transferVars, historyVars
      <3>2. \A q \in Process : Stays(q)
        BY <3>1 DEF Stays
      <3>3. QED
        BY <1>1, <3>1, <3>2, StayKept DEF RxSame, RxTypes, TablesKept, ChannelInv
    <2>6. QED
      BY <2>1, <2>2, <2>3, <2>4, <2>5 DEF AxisNext
  <1>4. QED
    BY <1>1, <1>2, <1>3 DEF ChannelInv, Kept

\* The receive side implements the packet channel, whatever the processes, the packets
\* and the sizes: a read that meets no other read and no reset returns the oldest packet,
\* whole, and after every reset words and lengths agree again.
THEOREM ChannelImplemented == AxisSpec => ImplementsChannel
  <1>1. AxisInit => ChannelInv /\ Packets!ChannelInit
    BY InitChannel
  <1>2. ChannelInv /\ [AxisNext]_axisVars
          => ChannelInv' /\ [Packets!ChannelNext]_(Packets!channelVars)
    BY NextChannel DEF ChannelStep
  <1>3. QED
    BY <1>1, <1>2, PTL DEF AxisSpec, ImplementsChannel, Packets!ChannelSpec
================================================================================
