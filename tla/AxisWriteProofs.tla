---------------------------- MODULE AxisWriteProofs ----------------------------
(***************************************************************************)
(* The transmit side of the FIFO driver: a write that meets no other write *)
(* and no reset sends one packet, its own, for every set of processes,     *)
(* payloads and buffer sizes.  At the end, the types of the variables that *)
(* neither side of the FIFO needed, and that no wake-up is lost.           *)
(***************************************************************************)
EXTENDS AxisChannelProofs, FiniteSetTheorems

--------------------------------------------------------------------------------
(* the inductive invariant                                                     *)

Storing(p) == pc[p] \in WritePCs

\* What a process has at a place of the code: words only inside a transfer, and in a
\* write the copies of the words of its packet that it has not written yet.
WritePlan(at, x, ws, pl) ==
  /\ at \notin ReadPCs \cup WritePCs => ws = <<>>
  /\ at = "read_len" => ws = <<>>
  /\ at = "write_wait" => x \in Payload /\ pl = Copies(x)
  /\ at \in WritePCs =>
       /\ x \in Payload /\ ws \in Seq(Word) /\ pl \in Seq(Nat)
       /\ \A i \in 1 .. Len(pl) : pl[i] >= 1
       /\ PlanSums(pl, WordsIn(Bytes[x]) - Len(ws))
       /\ IF at = "write_len" THEN pl = <<>> ELSE Len(pl) >= 1
WritePlans == \A p \in Process : WritePlan(pc[p], item[p], words[p], plan[p])

\* Each word that waits for its length was written in a write still under way, unless
\* somebody is about to reset the core.
Pairing(own, n) ==
  /\ own \in [1 .. n -> Process \X Nat]
  /\ \A j \in 1 .. n : Storing(own[j][1]) /\ own[j][2] \in 1 .. Len(words[own[j][1]])
  /\ \A j, k \in 1 .. n : own[j] = own[k] => j = k
Written ==
  (\A p \in Process : pc[p] \notin ResetPCs) => \E own : Pairing(own, Len(core.tx))

\* A writer that nobody disturbs is alone, and what waits in the FIFO is what it has
\* written.
Alone(p) ==
  /\ \A q \in Process : Storing(q) => q = p
  /\ Len(core.tx) = Len(words[p])
  /\ \A i \in 1 .. Len(words[p]) : core.tx[i] = <<item[p], i>>

SendInv ==
  "tx" \notin core.skewed =>
    /\ Written
    /\ \A p \in Process : Storing(p) /\ p \notin disturbed => Alone(p)

WriteInv == core.tx \in Seq(Word) /\ WritePlans /\ SendInv

--------------------------------------------------------------------------------
(* steps that leave the transmit side alone, or flush it                       *)

TxSame(c, d) == d.tx = c.tx /\ ("tx" \in d.skewed <=> "tx" \in c.skewed)

\* The receive side, the interrupt registers and what leaves the FIFO do not touch the
\* words being written.
LEMMA RxOps ==
  ASSUME NEW c, DOMAIN c = Fields
  PROVE  /\ TxSame(c, c) /\ TxSame(c, ResetRx(c))
         /\ TxSame(c, ReadRLR(c)) /\ TxSame(c, ReadRDFD(c))
         /\ TxSame(c, [ReadRLR(c) EXCEPT !.skewed = @ \cup {"rx"}])
         /\ TxSame(c, [ReadRDFD(c) EXCEPT !.skewed = @ \cup {"rx"}])
         /\ \A i : TxSame(c, [c EXCEPT !.isr = @ \ {i}])
         /\ TxSame(c, [c EXCEPT !.isr = {}]) /\ TxSame(c, [c EXCEPT !.ier = {}])
         /\ \A s, i : TxSame(c, Raise([c EXCEPT !.txq = s], i))
         /\ \A s, t, i : TxSame(c, Raise([c EXCEPT !.rx = s, !.lens = t], i))
  <1>1. ASSUME NEW d, TxSame(c, d), DOMAIN d = Fields
        PROVE  /\ TxSame(c, Fail(d, "RXERROR", "rx"))
               /\ TxSame(c, [d EXCEPT !.skewed = @ \cup {"rx"}])
               /\ DOMAIN Fail(d, "RXERROR", "rx") = Fields
    BY <1>1 DEF TxSame, Fail, Raise, Fields
  <1>2. TxSame(c, ReadRLR(c)) /\ DOMAIN ReadRLR(c) = Fields
    <2>1. \A s, t : /\ TxSame(c, [c EXCEPT !.lens = s, !.claimed = t])
                    /\ DOMAIN [c EXCEPT !.lens = s, !.claimed = t] = Fields
      BY DEF TxSame, Fields
    <2>2. TxSame(c, c)
      BY DEF TxSame
    <2>3. QED
      BY <1>1, <2>1, <2>2 DEF ReadRLR
  <1>3. TxSame(c, ReadRDFD(c)) /\ DOMAIN ReadRDFD(c) = Fields
    <2>1. \A s, t : /\ TxSame(c, [c EXCEPT !.rx = s, !.claimed = t])
                    /\ DOMAIN [c EXCEPT !.rx = s, !.claimed = t] = Fields
                    /\ TxSame(c, [c EXCEPT !.rx = s])
                    /\ DOMAIN [c EXCEPT !.rx = s] = Fields
      BY DEF TxSame, Fields
    <2>2. TxSame(c, c)
      BY DEF TxSame
    <2>3. QED
      BY <1>1, <2>1, <2>2 DEF ReadRDFD
  <1>4. QED
    BY <1>1, <1>2, <1>3 DEF TxSame, ResetRx, Raise, Fields

\* The resets empty it.
LEMMA TxResets ==
  ASSUME NEW c, DOMAIN c = Fields
  PROVE  /\ ResetTx(c).tx = <<>> /\ ResetTx(ResetRx(c)).tx = <<>>
         /\ CoreReset(c).tx = <<>> /\ [CoreReset(c) EXCEPT !.isr = {}].tx = <<>>
         /\ EmptyCore.tx = <<>>
  <1>1. ResetTx(c).tx = <<>> /\ EmptyCore.tx = <<>>
    BY DEF ResetTx, EmptyCore, Fields
  <1>2. DOMAIN ResetRx(c) = Fields
    BY DEF ResetRx
  <1>3. /\ DOMAIN ResetTx(ResetRx(c)) = Fields
        /\ ResetTx(ResetRx(c)).tx = <<>>
    BY <1>2 DEF ResetTx, Fields
  <1>4. QED
    BY <1>1, <1>3 DEF CoreReset, Fields

\* A step that changes nothing of a write.
Apart(q) ==
  /\ pc[q] \in ResetPCs => pc'[q] \in ResetPCs
  /\ Storing(q)' <=> Storing(q)
  /\ Storing(q) => /\ item'[q] = item[q] /\ words'[q] = words[q]
                   /\ q \in disturbed' <=> q \in disturbed

\* It keeps the invariant.
LEMMA ApartKeeps ==
  ASSUME SendInv, TxSame(core, core'), \A q \in Process : Apart(q)
  PROVE  SendInv'
  <1> SUFFICES ASSUME "tx" \notin core.skewed
               PROVE  /\ Written'
                      /\ \A p \in Process : Storing(p)' /\ p \notin disturbed' => Alone(p)'
    BY DEF SendInv, TxSame
  <1>1. core'.tx = core.tx
    BY DEF TxSame
  <1>2. Written'
    <2>1. CASE \E q \in Process : pc'[q] \in ResetPCs
      BY <2>1 DEF Written
    <2>2. CASE \A q \in Process : pc'[q] \notin ResetPCs
      <3>1. PICK own : Pairing(own, Len(core.tx))
        BY <2>2 DEF SendInv, Written, Apart
      <3>2. \A q \in Process : Storing(q) => Storing(q)' /\ words'[q] = words[q]
        BY DEF Apart
      <3>3. \A j \in 1 .. Len(core.tx) :
              Storing(own[j][1])' /\ own[j][2] \in 1 .. Len(words'[own[j][1]])
        BY <3>1, <3>2 DEF Pairing
      <3>4. Pairing(own, Len(core.tx))'
        BY <1>1, <3>1, <3>3, Zenon DEF Pairing
      <3>5. QED
        BY <3>4, Zenon DEF Written
    <2>3. QED
      BY <2>1, <2>2
  <1>3. ASSUME NEW p \in Process, Storing(p)', p \notin disturbed'
        PROVE  Alone(p)'
    <2>1. Storing(p) /\ p \notin disturbed /\ Apart(p)
      BY <1>3 DEF Apart
    <2>2. Alone(p) /\ item'[p] = item[p] /\ words'[p] = words[p]
      BY <2>1 DEF SendInv, Apart
    <2>3. \A q \in Process : Storing(q)' => q = p
      BY <2>2 DEF Alone, Apart
    <2>4. QED
      BY <1>1, <2>2, <2>3 DEF Alone
  <1>4. QED
    BY <1>2, <1>3

\* So does one that empties the transmit side under the writers.
LEMMA EmptyKeeps ==
  ASSUME core'.tx = <<>>, \A q \in Process : Storing(q)' => q \in disturbed'
  PROVE  SendInv'
  <1>1. Pairing(<<>>, 0)'
    <2>1. <<>> \in [1 .. 0 -> Process \X Nat] /\ \A j \in 1 .. 0 : FALSE
      OBVIOUS
    <2>2. QED
      BY <2>1 DEF Pairing
  <1>2. Len(core'.tx) = 0
    OBVIOUS
  <1>3. Written'
    <2>1. Pairing(<<>>, Len(core.tx))'
      BY <1>1, <1>2 DEF Pairing
    <2>2. QED
      BY <2>1, Zenon DEF Written
  <1>4. QED
    BY <1>3 DEF SendInv

\* And one that leaves the words and lengths at odds.
LEMMA SkewedKeeps ==
  ASSUME "tx" \in core'.skewed
  PROVE  SendInv'
  BY DEF SendInv

\* What holds after a step.
Sent == core'.tx \in Seq(Word) /\ WritePlans' /\ SendInv'

\* The plans of all but one process are untouched.
LEMMA PlansKept ==
  ASSUME WritePlans, NEW p \in Process,
         \A q \in Process \ {p} : /\ pc'[q] = pc[q] /\ item'[q] = item[q]
                                  /\ plan'[q] = plan[q] /\ words'[q] = words[q],
         WritePlan(pc'[p], item'[p], words'[p], plan'[p])
  PROVE  WritePlans'
  BY DEF WritePlans

\* When the last word of a copy has been written, the next copy is to be made.
LEMMA PlanLast ==
  ASSUME NEW pl \in Seq(Nat), NEW n \in Int, Len(pl) >= 1, pl[1] = 1, PlanSums(pl, n),
         \A i \in 1 .. Len(pl) : pl[i] >= 1
  PROVE  /\ Tail(pl) \in Seq(Nat) /\ Len(Tail(pl)) = Len(pl) - 1
         /\ \A i \in 1 .. Len(Tail(pl)) : Tail(pl)[i] >= 1
         /\ PlanSums(Tail(pl), n - 1)
  <1>1. PICK l \in Nat \ {0} : l = Len(pl)
    OBVIOUS
  <1>2. PICK after \in [0 .. l -> Nat] :
          /\ after[0] = n /\ after[l] = 0
          /\ \A i \in 1 .. l : after[i-1] = after[i] + pl[i]
    BY <1>1 DEF PlanSums
  <1>3. PICK new : new = Tail(pl)
    OBVIOUS
  <1>4. /\ new \in Seq(Nat) /\ Len(new) = l - 1
        /\ \A i \in 1 .. l - 1 : new[i] = pl[i + 1]
    BY <1>1, <1>3
  <1>5. PICK less : less = [i \in 0 .. l - 1 |-> after[i + 1]]
    OBVIOUS
  <1>6. /\ less \in [0 .. l - 1 -> Nat] /\ \A i \in 0 .. l - 1 : less[i] = after[i + 1]
    BY <1>2, <1>5
  <1>7. less[0] = n - 1 /\ less[l - 1] = 0
    <2>1. 1 \in 1 .. l /\ 1 - 1 = 0 /\ 1 \in 0 .. l /\ 0 \in 0 .. l - 1 /\ l - 1 \in 0 .. l - 1
      OBVIOUS
    <2>2. after[0] = after[1] + pl[1] /\ after[1] \in Nat
      BY <1>2, <2>1
    <2>3. QED
      BY <1>2, <1>6, <2>1, <2>2
  <1>8. ASSUME NEW i \in 1 .. l - 1
        PROVE  less[i-1] = less[i] + new[i] /\ new[i] >= 1
    <2>1. i + 1 \in 1 .. l /\ (i + 1) - 1 = i /\ (i - 1) + 1 = i
          /\ i - 1 \in 0 .. l - 1 /\ i \in 0 .. l - 1
      OBVIOUS
    <2>2. after[i] = after[i + 1] + pl[i + 1]
      BY <1>2, <2>1
    <2>3. QED
      BY <1>1, <1>4, <1>6, <2>1, <2>2
  <1>9. PlanSums(new, n - 1)
    BY <1>4, <1>6, <1>7, <1>8 DEF PlanSums
  <1>10. QED
    BY <1>1, <1>3, <1>4, <1>8, <1>9

\* When nothing is left to copy, nothing is left.
LEMMA PlanEmpty ==
  ASSUME NEW n, PlanSums(<<>>, n)
  PROVE  n = 0
  BY DEF PlanSums

--------------------------------------------------------------------------------
(* the steps of a write                                                        *)

\* A write passes its check and begins, alone or among others.
LEMMA BeginSends ==
  ASSUME ChannelInv, WriteInv, NEW p \in Process, pc[p] \notin WritePCs \cup ResetPCs,
         pc'[p] \in WritePCs, words[p] = <<>>, Joins(p, InWrite), UNCHANGED <<core, words>>,
         \A q \in Process \ {p} : pc'[q] = pc[q] /\ item'[q] = item[q]
  PROVE  SendInv'
  <1> USE DEF WriteInv
  <1>1. PICK m \in Nat : m = Len(core.tx)
    OBVIOUS
  <1>2. CASE "tx" \in core.skewed
    BY <1>2 DEF SendInv
  <1>3. CASE "tx" \notin core.skewed /\ InWrite = {}
    <2>1. disturbed' = disturbed \ {p} /\ \A q \in Process : pc[q] \notin WritePCs \cup ResetPCs
      BY <1>3 DEF Joins, InWrite
    <2>2. PICK own : Pairing(own, m)
      BY <1>1, <1>3, <2>1 DEF SendInv, Written
    <2>3. m = 0
      <3>1. m >= 1 => 1 \in 1 .. m /\ own[1] \in Process \X Nat
        BY <2>2 DEF Pairing
      <3>2. m >= 1 => Storing(own[1][1]) /\ own[1][1] \in Process
        BY <2>2, <3>1 DEF Pairing
      <3>3. QED
        BY <2>1, <3>2 DEF Storing
    <2>4. core.tx = <<>>
      BY <1>1, <2>3, EmptySeq
    <2>5. Alone(p)'
      BY <2>1, <2>4 DEF Alone, Storing
    <2>6. Written'
      <3>1. <<>> \in [1 .. 0 -> Process \X Nat] /\ \A j \in 1 .. 0 : FALSE
        OBVIOUS
      <3>2. Len(core'.tx) = 0
        BY <2>4
      <3>3. Pairing(<<>>, Len(core.tx))'
        BY <3>1, <3>2 DEF Pairing
      <3>4. QED
        BY <3>3, Zenon DEF Written
    <2>7. QED
      BY <2>1, <2>5, <2>6 DEF SendInv, Storing
  <1>4. CASE "tx" \notin core.skewed /\ InWrite # {}
    <2>1. disturbed' = disturbed \cup InWrite \cup {p}
      BY <1>4 DEF Joins
    <2>2. \A q \in Process : Storing(q)' => q \in disturbed'
      BY <2>1 DEF Storing, InWrite
    <2>3. \A q \in Process : Storing(q) => Storing(q)'
      BY DEF Storing
    <2>4. Written'
      <3>1. CASE \E q \in Process : pc'[q] \in ResetPCs
        BY <3>1 DEF Written
      <3>2. CASE \A q \in Process : pc'[q] \notin ResetPCs
        <4>1. PICK own : Pairing(own, Len(core.tx))
          BY <1>4, <3>2 DEF SendInv, Written
        <4>2. \A j \in 1 .. Len(core.tx) :
                Storing(own[j][1])' /\ own[j][2] \in 1 .. Len(words'[own[j][1]])
          BY <2>3, <4>1 DEF Pairing
        <4>3. Pairing(own, Len(core.tx))'
          BY <4>1, <4>2, Zenon DEF Pairing
        <4>4. QED
          BY <4>3, Zenon DEF Written
      <3>3. QED
        BY <3>1, <3>2
    <2>5. QED
      BY <2>2, <2>4 DEF SendInv
  <1>5. QED
    BY <1>2, <1>3, <1>4

\* The calls that start a write.
LEMMA WriteCallSent ==
  ASSUME ChannelInv, ChannelInv', WriteInv, NEW p \in Process,
         NEW x \in Payload, WriteCall(p, x)
  PROVE  Sent
  <1> USE DEF ChannelInv, WriteInv
  <1>1. /\ pc[p] = "user"
        /\ pc' = [pc EXCEPT ![p] = IF write_flags THEN "write_copy" ELSE "write_wait"]
        /\ item' = [item EXCEPT ![p] = x] /\ plan' = [plan EXCEPT ![p] = Copies(x)]
        /\ UNCHANGED <<core, words>>
        /\ IF write_flags THEN Joins(p, InWrite) ELSE UNCHANGED disturbed
    BY Zenon DEF WriteCall, Goto
  <1>2. /\ pc'[p] = IF write_flags THEN "write_copy" ELSE "write_wait"
        /\ item'[p] = x /\ plan'[p] = Copies(x)
        /\ \A q \in Process \ {p} : pc'[q] = pc[q] /\ item'[q] = item[q] /\ plan'[q] = plan[q]
    BY <1>1 DEF DriverInv, TypesInv, RxTypes
  <1>3. words[p] = <<>>
    BY <1>1 DEF WritePlans, WritePlan, ReadPCs, WritePCs
  <1>4. WritePlan(pc'[p], item'[p], words'[p], plan'[p])
    <2>1. /\ Copies(x) \in Seq(Nat) /\ Len(Copies(x)) >= 1
          /\ \A i \in 1 .. Len(Copies(x)) : Copies(x)[i] >= 1
          /\ PlanSums(Copies(x), WordsIn(Bytes[x]))
      BY CopiesSum
    <2>2. WordsIn(Bytes[x]) - Len(<<>>) = WordsIn(Bytes[x]) /\ <<>> \in Seq(Word)
      BY PacketWords
    <2>3. QED
      BY <1>1, <1>2, <1>3, <2>1, <2>2 DEF WritePlan, ReadPCs, WritePCs
  <1>5. WritePlans'
    BY <1>1, <1>2, <1>4, PlansKept
  <1>6. CASE write_flags
    <2>1. pc[p] \notin WritePCs \cup ResetPCs /\ pc'[p] \in WritePCs
      BY <1>1, <1>2, <1>6 DEF WritePCs, ResetPCs
    <2>2. SendInv'
      BY <1>1, <1>2, <1>3, <1>6, <2>1, BeginSends
    <2>3. QED
      BY <1>1, <1>5, <2>2 DEF Sent
  <1>7. CASE ~write_flags
    <2>1. \A q \in Process : Apart(q)
      BY <1>1, <1>2, <1>7 DEF Apart, Storing, WritePCs, ResetPCs
    <2>2. TxSame(core, core')
      BY <1>1 DEF TxSame
    <2>3. QED
      BY <1>1, <1>5, <2>1, <2>2, ApartKeeps DEF Sent
  <1>8. QED
    BY <1>6, <1>7

LEMMA WriteWaitSent ==
  ASSUME ChannelInv, ChannelInv', WriteInv, NEW p \in Process, WriteWait(p)
  PROVE  Sent
  <1> USE DEF ChannelInv, WriteInv
  <1>1. /\ pc[p] = "write_wait" /\ UNCHANGED <<core, item, plan, words>>
        /\ \/ pc' = [pc EXCEPT ![p] = "write_copy"] /\ Joins(p, InWrite)
           \/ UNCHANGED <<pc, disturbed>>
    BY Zenon DEF WriteWait, transferVars
  <1>2. words[p] = <<>> /\ item[p] \in Payload /\ plan[p] = Copies(item[p])
    BY <1>1 DEF WritePlans, WritePlan, ReadPCs, WritePCs
  <1>3. CASE UNCHANGED <<pc, disturbed>>
    <2>1. \A q \in Process : Apart(q)
      BY <1>1, <1>3 DEF Apart, Storing
    <2>2. TxSame(core, core') /\ WritePlans'
      BY <1>1, <1>3 DEF TxSame, WritePlans
    <2>3. QED
      BY <1>1, <2>1, <2>2, ApartKeeps DEF Sent
  <1>4. CASE pc' = [pc EXCEPT ![p] = "write_copy"] /\ Joins(p, InWrite)
    <2>1. pc'[p] = "write_copy" /\ \A q \in Process \ {p} : pc'[q] = pc[q]
      BY <1>4 DEF DriverInv, TypesInv
    <2>2. pc[p] \notin WritePCs \cup ResetPCs /\ pc'[p] \in WritePCs
      BY <1>1, <2>1 DEF WritePCs, ResetPCs
    <2>3. SendInv'
      BY <1>1, <1>2, <1>4, <2>1, <2>2, BeginSends
    <2>4. WritePlan(pc'[p], item'[p], words'[p], plan'[p])
      <3>1. PICK x \in Payload : x = item[p]
        BY <1>2
      <3>2. /\ Copies(x) \in Seq(Nat) /\ Len(Copies(x)) >= 1
            /\ \A i \in 1 .. Len(Copies(x)) : Copies(x)[i] >= 1
            /\ PlanSums(Copies(x), WordsIn(Bytes[x]))
        BY CopiesSum
      <3>3. WordsIn(Bytes[x]) - Len(<<>>) = WordsIn(Bytes[x]) /\ <<>> \in Seq(Word)
        BY PacketWords
      <3>4. QED
        BY <1>1, <1>2, <2>1, <3>1, <3>2, <3>3 DEF WritePlan, ReadPCs, WritePCs
    <2>5. WritePlans'
      BY <1>1, <2>1, <2>4, PlansKept
    <2>6. QED
      BY <1>1, <2>3, <2>5 DEF Sent
  <1>5. QED
    BY <1>1, <1>3, <1>4

\* The user's bytes are copied, or a fault ends the write.
LEMMA WriteCopySent ==
  ASSUME ChannelInv, ChannelInv', WriteInv, NEW p \in Process, WriteCopy(p)
  PROVE  Sent
  <1> USE DEF ChannelInv, WriteInv
  <1>1. /\ pc[p] = "write_copy" /\ UNCHANGED <<core, disturbed>>
        /\ \/ pc' = [pc EXCEPT ![p] = "reset"] /\ Leave(p)
           \/ pc' = [pc EXCEPT ![p] = "write_word"] /\ UNCHANGED <<item, plan, words>>
    BY Zenon DEF WriteCopy, Goto, transferVars, historyVars
  <1>2. /\ \A q \in Process \ {p} : /\ pc'[q] = pc[q] /\ item'[q] = item[q]
                                    /\ plan'[q] = plan[q] /\ words'[q] = words[q]
        /\ \/ pc'[p] = "reset" /\ words'[p] = <<>>
           \/ pc'[p] = "write_word" /\ UNCHANGED <<item, plan, words>>
    BY <1>1 DEF DriverInv, TypesInv, RxTypes, Leave
  <1>3. WritePlan(pc[p], item[p], words[p], plan[p])
    BY DEF WritePlans
  <1>4. CASE pc'[p] = "write_word"
    <2>1. WritePlan(pc'[p], item'[p], words'[p], plan'[p])
      BY <1>1, <1>2, <1>3, <1>4 DEF WritePlan, ReadPCs, WritePCs
    <2>2. \A q \in Process : Apart(q)
      BY <1>1, <1>2, <1>4 DEF Apart, Storing, WritePCs, ResetPCs
    <2>3. TxSame(core, core')
      BY <1>1 DEF TxSame
    <2>4. QED
      BY <1>1, <1>2, <2>1, <2>2, <2>3, ApartKeeps, PlansKept DEF Sent
  <1>5. CASE pc'[p] = "reset"
    <2>1. words'[p] = <<>>
      BY <1>2, <1>5
    <2>2. WritePlan(pc'[p], item'[p], words'[p], plan'[p])
      BY <1>5, <2>1 DEF WritePlan, ReadPCs, WritePCs
    <2>3. SendInv'
      <3>1. Written'
        BY <1>5 DEF Written, ResetPCs
      <3>2. ASSUME "tx" \notin core.skewed, NEW q \in Process, Storing(q)', q \notin disturbed'
            PROVE  FALSE
        <4>1. q # p /\ Storing(q) /\ q \notin disturbed
          BY <1>1, <1>2, <1>5, <3>2 DEF Storing, WritePCs
        <4>2. Alone(q)
          BY <3>2, <4>1 DEF SendInv
        <4>3. QED
          BY <1>1, <4>1, <4>2 DEF Alone, Storing, WritePCs
      <3>3. QED
        BY <1>1, <3>1, <3>2 DEF SendInv
    <2>4. QED
      BY <1>1, <1>2, <2>2, <2>3, PlansKept DEF Sent
  <1>6. QED
    BY <1>2, <1>4, <1>5

\* A word goes into the FIFO.
LEMMA WriteWordSent ==
  ASSUME ChannelInv, ChannelInv', WriteInv, NEW p \in Process, WriteWord(p)
  PROVE  Sent
  <1> USE DEF ChannelInv, WriteInv
  <1>1. PICK k : k = Len(words[p])
    OBVIOUS
  <1>2. PICK w : w = <<item[p], k + 1>>
    OBVIOUS
  <1>3. PICK pl : pl = plan[p]
    OBVIOUS
  <1>4. PICK n : n = WordsIn(Bytes[item[p]])
    OBVIOUS
  <1>5. /\ pc[p] = "write_word"
        /\ pc' = [pc EXCEPT ![p] = IF pl[1] # 1 THEN "write_word"
                                   ELSE IF Len(pl) > 1 THEN "write_copy" ELSE "write_len"]
        /\ core' = WriteTDFD(core, w)
        /\ words' = [words EXCEPT ![p] = Append(@, <<item[p], Len(@) + 1>>)]
        /\ plan' = IF pl[1] = 1 THEN [plan EXCEPT ![p] = Tail(@)]
                   ELSE [plan EXCEPT ![p][1] = @ - 1]
        /\ UNCHANGED <<item, disturbed>>
    BY <1>1, <1>2, <1>3, Zenon DEF WriteWord, Goto, historyVars
  <1>6. /\ pc'[p] = IF pl[1] # 1 THEN "write_word"
                    ELSE IF Len(pl) > 1 THEN "write_copy" ELSE "write_len"
        /\ words'[p] = Append(words[p], w)
        /\ \A q \in Process \ {p} : /\ pc'[q] = pc[q] /\ item'[q] = item[q]
                                    /\ plan'[q] = plan[q] /\ words'[q] = words[q]
    <2>1. pc'[p] = (IF pl[1] # 1 THEN "write_word"
                    ELSE IF Len(pl) > 1 THEN "write_copy" ELSE "write_len")
          /\ \A q \in Process \ {p} : pc'[q] = pc[q]
      BY <1>5 DEF DriverInv, TypesInv
    <2>2. words'[p] = Append(words[p], w) /\ \A q \in Process \ {p} : words'[q] = words[q]
      BY <1>1, <1>2, <1>5 DEF RxTypes
    <2>3. \A q \in Process \ {p} : plan'[q] = plan[q] /\ item'[q] = item[q]
      BY <1>5 DEF RxTypes
    <2>4. QED
      BY <2>1, <2>2, <2>3
  <1>7. plan'[p] = IF pl[1] = 1 THEN Tail(pl) ELSE [pl EXCEPT ![1] = @ - 1]
    BY <1>3, <1>5 DEF RxTypes
  <1>8. /\ item[p] \in Payload /\ words[p] \in Seq(Word) /\ pl \in Seq(Nat)
        /\ \A i \in 1 .. Len(pl) : pl[i] >= 1
        /\ PlanSums(pl, n - k) /\ Len(pl) >= 1
    BY <1>1, <1>3, <1>4, <1>5 DEF WritePlans, WritePlan, WritePCs
  <1>9. n \in Nat /\ k \in Nat /\ w \in Word /\ core.tx \in Seq(Word)
    BY <1>1, <1>2, <1>4, <1>8, PacketWords DEF Word
  <1>10. /\ words'[p] \in Seq(Word) /\ Len(words'[p]) = k + 1
         /\ \A i \in 1 .. k : words'[p][i] = words[p][i]
         /\ words'[p][k + 1] = w
    BY <1>1, <1>6, <1>8, <1>9, AppendProperties
  <1>11. (n - k) - 1 = n - (k + 1) /\ n - k \in Int
    BY <1>9
  <1>12. Storing(p) /\ Storing(p)' /\ pc'[p] \notin ResetPCs
    BY <1>5, <1>6 DEF Storing, WritePCs, ResetPCs
  <1>13. WritePlan(pc'[p], item'[p], words'[p], plan'[p])
    <2>1. CASE pl[1] = 1
      <3>1. /\ plan'[p] \in Seq(Nat) /\ Len(plan'[p]) = Len(pl) - 1
            /\ \A i \in 1 .. Len(plan'[p]) : plan'[p][i] >= 1
            /\ PlanSums(plan'[p], n - (k + 1))
        BY <1>7, <1>8, <1>11, <2>1, PlanLast
      <3>2. IF pc'[p] = "write_len" THEN plan'[p] = <<>> ELSE Len(plan'[p]) >= 1
        <4>1. CASE Len(pl) > 1
          BY <1>6, <1>8, <2>1, <3>1, <4>1
        <4>2. CASE ~(Len(pl) > 1)
          <5>1. Len(pl) = 1
            <6>1. PICK l \in Nat : l = Len(pl)
              BY <1>8
            <6>2. l >= 1 /\ ~(l > 1)
              BY <1>8, <4>2, <6>1, Zenon
            <6>3. l = 1
              BY <6>2
            <6>4. QED
              BY <6>1, <6>3
          <5>2. Len(plan'[p]) = 0
            BY <3>1, <5>1
          <5>3. QED
            BY <1>6, <2>1, <3>1, <4>2, <5>2, EmptySeq
        <4>3. QED
          BY <4>1, <4>2
      <3>3. QED
        BY <1>4, <1>5, <1>8, <1>10, <1>12, <3>1, <3>2
        DEF WritePlan, Storing, ReadPCs, WritePCs
    <2>2. CASE pl[1] # 1
      <3>1. pl[1] >= 2 /\ pl[1] \in Nat
        <4>1. pl[1] >= 1 /\ pl[1] \in Nat
          BY <1>8
        <4>2. QED
          BY <2>2, <4>1
      <3>2. /\ plan'[p] \in Seq(Nat) /\ Len(plan'[p]) = Len(pl)
            /\ plan'[p][1] = pl[1] - 1
            /\ \A i \in 2 .. Len(pl) : plan'[p][i] = pl[i]
            /\ PlanSums(plan'[p], n - (k + 1))
        <4>1. PICK d \in Int : d = n - k
          BY <1>11
        <4>2. PICK less : less = [pl EXCEPT ![1] = @ - 1]
          OBVIOUS
        <4>3. plan'[p] = less /\ d - 1 = n - (k + 1)
          BY <1>7, <1>11, <2>2, <4>1, <4>2
        <4>4. pl[1] >= 1 /\ PlanSums(pl, d) /\ pl \in Seq(Nat) /\ Len(pl) >= 1
          BY <1>8, <3>1, <4>1
        <4>5. /\ less \in Seq(Nat) /\ Len(less) = Len(pl)
              /\ less[1] = pl[1] - 1
              /\ \A i \in 2 .. Len(pl) : less[i] = pl[i]
              /\ PlanSums(less, d - 1)
          BY <4>2, <4>4, PlanWord
        <4>6. QED
          BY <4>3, <4>5
      <3>3. \A i \in 1 .. Len(plan'[p]) : plan'[p][i] >= 1
        <4>1. TAKE i \in 1 .. Len(plan'[p])
        <4>2. CASE i = 1
          BY <3>1, <3>2, <4>2
        <4>3. CASE i \in 2 .. Len(pl)
          BY <1>8, <3>2, <4>3
        <4>4. QED
          BY <1>8, <3>2, <4>2, <4>3
      <3>4. pc'[p] = "write_word"
        BY <1>6, <2>2
      <3>5. QED
        BY <1>4, <1>5, <1>8, <1>10, <3>2, <3>3, <3>4
        DEF WritePlan, ReadPCs, WritePCs
    <2>3. QED
      BY <2>1, <2>2
  <1>14. WritePlans'
    BY <1>6, <1>13, PlansKept
  <1>15. CASE Vacancy(core) = 0
    <2>1. core' = Fail(core, "TPOE", "tx")
      BY <1>5, <1>15 DEF WriteTDFD
    <2>2. core'.tx = core.tx /\ "tx" \in core'.skewed
      BY <2>1 DEF Fail, Raise, RxTypes, Fields
    <2>3. QED
      BY <1>9, <1>14, <2>2, SkewedKeeps DEF Sent
  <1>16. CASE Vacancy(core) # 0
    <2>1. PICK m \in Nat : m = Len(core.tx)
      OBVIOUS
    <2>2. core'.tx = Append(core.tx, w) /\ ("tx" \in core'.skewed <=> "tx" \in core.skewed)
      BY <1>5, <1>16 DEF WriteTDFD, RxTypes, Fields
    <2>3. /\ core'.tx \in Seq(Word) /\ Len(core'.tx) = m + 1
          /\ \A i \in 1 .. m : core'.tx[i] = core.tx[i]
          /\ core'.tx[m + 1] = w
      BY <1>9, <2>1, <2>2, AppendProperties
    <2>4. ASSUME "tx" \notin core.skewed
          PROVE  Written'
      <3>1. CASE \E q \in Process : pc'[q] \in ResetPCs
        BY <3>1 DEF Written
      <3>2. CASE \A q \in Process : pc'[q] \notin ResetPCs
        <4>1. \A q \in Process : pc[q] \notin ResetPCs
          BY <1>5, <1>6, <3>2 DEF ResetPCs
        <4>2. PICK own : Pairing(own, m)
          BY <2>1, <2>4, <4>1 DEF SendInv, Written
        <4>3. PICK new : new = [j \in 1 .. m + 1 |-> IF j <= m THEN own[j] ELSE <<p, k + 1>>]
          OBVIOUS
        <4>4. \A j \in 1 .. m + 1 : (j <= m => j \in 1 .. m) /\ (~(j <= m) => j = m + 1)
          OBVIOUS
        <4>5. \A j \in 1 .. m : /\ own[j] \in Process \X Nat /\ Storing(own[j][1])
                                /\ own[j][2] \in 1 .. Len(words[own[j][1]])
          BY <4>2, Zenon DEF Pairing
        <4>6. ASSUME NEW j \in 1 .. m
              PROVE  /\ Storing(own[j][1])' /\ own[j][2] \in 1 .. Len(words'[own[j][1]])
                     /\ own[j] # <<p, k + 1>>
          <5>1. PICK q \in Process, i \in Nat : own[j] = <<q, i>>
            BY <4>5
          <5>2. Storing(q) /\ i \in 1 .. Len(words[q])
            BY <4>5, <5>1
          <5>3. CASE q = p
            BY <1>1, <1>9, <1>10, <1>12, <5>1, <5>2, <5>3
          <5>4. CASE q # p
            BY <1>6, <5>1, <5>2, <5>4 DEF Storing
          <5>5. QED
            BY <5>3, <5>4
        <4>7. new \in [1 .. m + 1 -> Process \X Nat]
          <5>1. \A j \in 1 .. m + 1 : (IF j <= m THEN own[j] ELSE <<p, k + 1>>) \in Process \X Nat
            BY <1>9, <4>4, <4>5
          <5>2. QED
            BY <4>3, <5>1
        <4>8. ASSUME NEW j \in 1 .. m + 1
              PROVE  Storing(new[j][1])' /\ new[j][2] \in 1 .. Len(words'[new[j][1]])
          <5>1. CASE j <= m
            BY <4>3, <4>4, <4>6, <5>1
          <5>2. CASE ~(j <= m)
            <6>1. new[j] = <<p, k + 1>>
              BY <4>3, <5>2
            <6>2. k + 1 \in 1 .. Len(words'[p])
              BY <1>9, <1>10
            <6>3. QED
              BY <1>12, <6>1, <6>2
          <5>3. QED
            BY <5>1, <5>2
        <4>9. ASSUME NEW j \in 1 .. m + 1, NEW l \in 1 .. m + 1, new[j] = new[l]
              PROVE  j = l
          <5>1. j <= m <=> l <= m
            BY <4>3, <4>4, <4>6, <4>9
          <5>2. CASE j <= m
            <6>1. own[j] = own[l] /\ j \in 1 .. m /\ l \in 1 .. m
              BY <4>3, <4>4, <4>9, <5>1, <5>2
            <6>2. QED
              BY <4>2, <6>1, Zenon DEF Pairing
          <5>3. CASE ~(j <= m)
            BY <4>4, <5>1, <5>3
          <5>4. QED
            BY <5>2, <5>3
        <4>10. Pairing(new, Len(core.tx))'
          BY <2>3, <4>7, <4>8, <4>9 DEF Pairing
        <4>11. QED
          BY <4>10, Zenon DEF Written
      <3>3. QED
        BY <3>1, <3>2
    <2>5. ASSUME "tx" \notin core.skewed, NEW q \in Process, Storing(q)', q \notin disturbed'
          PROVE  Alone(q)'
      <3>1. Storing(q) /\ q \notin disturbed
        BY <1>5, <1>6, <1>12, <2>5 DEF Storing
      <3>2. Alone(q)
        BY <2>5, <3>1 DEF SendInv
      <3>3. q = p /\ m = k /\ \A i \in 1 .. k : core.tx[i] = <<item[p], i>>
        BY <1>1, <1>12, <2>1, <3>2 DEF Alone
      <3>4. \A r \in Process : Storing(r)' => r = p
        BY <1>6, <3>2, <3>3 DEF Alone, Storing
      <3>5. \A i \in 1 .. k + 1 : core'.tx[i] = <<item[p], i>>
        <4>1. \A i \in 1 .. k + 1 : i \in 1 .. k \/ i = k + 1
          BY <1>9
        <4>2. QED
          BY <1>2, <2>3, <3>3, <4>1
      <3>6. QED
        BY <1>5, <1>10, <2>3, <3>3, <3>4, <3>5 DEF Alone
    <2>6. SendInv'
      BY <2>2, <2>4, <2>5 DEF SendInv
    <2>7. QED
      BY <1>14, <2>3, <2>6 DEF Sent
  <1>17. QED
    BY <1>15, <1>16

\* The length sends the packet.
LEMMA WriteLengthSent ==
  ASSUME ChannelInv, ChannelInv', WriteInv, NEW p \in Process, WriteLength(p)
  PROVE  /\ Sent
         /\ p \notin disturbed /\ "tx" \notin core.skewed
              => core'.txq = Append(core.txq, WordsOf(item[p]))
  <1> USE DEF ChannelInv, WriteInv
  <1>1. PICK n : n = WordsIn(Bytes[item[p]])
    OBVIOUS
  <1>2. /\ pc[p] = "write_len" /\ pc' = [pc EXCEPT ![p] = "user"]
        /\ core' = WriteTLR(core, n) /\ Leave(p) /\ disturbed' = disturbed \ {p}
    BY <1>1, Zenon DEF WriteLength, Goto
  <1>3. /\ \A q \in Process \ {p} : /\ pc'[q] = pc[q] /\ item'[q] = item[q]
                                    /\ plan'[q] = plan[q] /\ words'[q] = words[q]
        /\ pc'[p] = "user" /\ words'[p] = <<>>
    BY <1>2 DEF DriverInv, TypesInv, RxTypes, Leave
  <1>4. WritePlan(pc'[p], item'[p], words'[p], plan'[p])
    BY <1>3 DEF WritePlan, ReadPCs, WritePCs
  <1>5. WritePlans'
    BY <1>3, <1>4, PlansKept
  <1>6. PICK k : k = Len(words[p])
    OBVIOUS
  <1>7. /\ item[p] \in Payload /\ words[p] \in Seq(Word) /\ PlanSums(<<>>, n - k)
    BY <1>1, <1>2, <1>6 DEF WritePlans, WritePlan, WritePCs
  <1>8. n \in Nat /\ k \in Nat /\ k = n
    <2>1. n \in Nat /\ k \in Nat
      BY <1>1, <1>6, <1>7, PacketWords
    <2>2. n - k = 0
      BY <1>7, PlanEmpty
    <2>3. QED
      BY <2>1, <2>2
  <1>9. CASE n # Len(core.tx)
    <2>1. PICK m \in Nat : m = Len(core.tx)
      OBVIOUS
    <2>2. PICK i \in 0 .. m :
            core' = Fail([core EXCEPT !.txq = Append(@, SubSeq(core.tx, 1, i)),
                                      !.tx = SubSeq(@, i + 1, Len(@))], "TSE", "tx")
      <3>1. (IF n < m THEN n ELSE m) \in 0 .. m
        BY <1>8
      <3>2. QED
        BY <1>2, <1>9, <2>1, <3>1 DEF WriteTLR
    <2>3. core'.tx = SubSeq(core.tx, i + 1, m) /\ "tx" \in core'.skewed
      BY <2>1, <2>2 DEF Fail, Raise, RxTypes, Fields
    <2>4. SubSeq(core.tx, i + 1, m) \in Seq(Word)
      <3>1. \A j \in i + 1 .. m : core.tx[j] \in Word
        BY <2>1
      <3>2. QED
        BY <3>1, SubSeqProperties
    <2>5. p \in disturbed \/ "tx" \in core.skewed
      <3>1. p \notin disturbed /\ "tx" \notin core.skewed => Alone(p)
        BY <1>2 DEF SendInv, Storing, WritePCs
      <3>2. QED
        BY <1>6, <1>8, <1>9, <3>1 DEF Alone
    <2>6. QED
      BY <1>5, <2>3, <2>4, <2>5, SkewedKeeps DEF Sent
  <1>10. CASE n = Len(core.tx)
    <2>1. core' = [core EXCEPT !.txq = Append(@, core.tx), !.tx = <<>>]
      BY <1>2, <1>10 DEF WriteTLR
    <2>2. /\ core'.tx = <<>> /\ core'.txq = Append(core.txq, core.tx)
          /\ "tx" \in core'.skewed <=> "tx" \in core.skewed
      BY <2>1 DEF RxTypes, Fields
    <2>3. SendInv'
      <3>1. CASE "tx" \in core.skewed
        BY <2>2, <3>1 DEF SendInv
      <3>2. CASE "tx" \notin core.skewed
        <4>1. ASSUME NEW q \in Process, Storing(q)', q \notin disturbed'
              PROVE  FALSE
          <5>1. q # p /\ Storing(q) /\ q \notin disturbed
            BY <1>2, <1>3, <4>1 DEF Storing, WritePCs
          <5>2. Alone(q)
            BY <3>2, <5>1 DEF SendInv
          <5>3. QED
            BY <1>2, <5>1, <5>2 DEF Alone, Storing, WritePCs
        <4>2. QED
          BY <2>2, <4>1, EmptyKeeps
      <3>3. QED
        BY <3>1, <3>2
    <2>4. ASSUME p \notin disturbed, "tx" \notin core.skewed
          PROVE  core.tx = WordsOf(item[p])
      <3>1. Alone(p)
        BY <1>2, <2>4 DEF SendInv, Storing, WritePCs
      <3>2. PICK ws \in Seq(Word) : ws = WordsOf(item[p])
        BY <1>7, PacketWords
      <3>3. Len(ws) = n /\ \A i \in 1 .. n : ws[i] = <<item[p], i>>
        BY <1>1, <1>7, <3>2, PacketWords
      <3>4. Len(core.tx) = n /\ \A i \in 1 .. n : core.tx[i] = <<item[p], i>>
        BY <1>6, <1>8, <3>1 DEF Alone
      <3>5. core.tx = ws
        BY <3>3, <3>4, SeqEqual
      <3>6. QED
        BY <3>2, <3>5
    <2>5. QED
      BY <1>5, <2>2, <2>3, <2>4 DEF Sent
  <1>11. QED
    BY <1>9, <1>10

--------------------------------------------------------------------------------
(* the other steps                                                             *)

\* A step that leaves the words being written alone.
LEMMA ApartSent ==
  ASSUME ChannelInv, WriteInv, NEW p \in Process, TxSame(core, core'),
         \A q \in Process \ {p} :
           /\ pc'[q] = pc[q] /\ item'[q] = item[q] /\ plan'[q] = plan[q] /\ words'[q] = words[q]
           /\ Storing(q) => (q \in disturbed' <=> q \in disturbed),
         pc[p] \notin WritePCs \cup ResetPCs, pc'[p] \notin WritePCs,
         WritePlan(pc'[p], item'[p], words'[p], plan'[p])
  PROVE  Sent
  <1>1. \A q \in Process : Apart(q)
    BY DEF Apart, Storing
  <1>2. SendInv' /\ WritePlans' /\ core'.tx \in Seq(Word)
    BY <1>1, ApartKeeps, PlansKept DEF WriteInv, TxSame
  <1>3. QED
    BY <1>2 DEF Sent

\* A step of a process between two places outside its transfers.
LEMMA OutsideSent ==
  ASSUME ChannelInv, WriteInv, NEW p \in Process, TxSame(core, core'),
         UNCHANGED <<item, plan, words, disturbed>>,
         \A q \in Process \ {p} : pc'[q] = pc[q],
         pc[p] \notin ReadPCs \cup WritePCs \cup ResetPCs,
         pc'[p] \notin WritePCs \cup {"write_wait"}
  PROVE  Sent
  <1>1. words[p] = <<>>
    BY DEF WriteInv, WritePlans, WritePlan
  <1>2. WritePlan(pc'[p], item'[p], words'[p], plan'[p])
    BY <1>1 DEF WritePlan
  <1>3. QED
    BY <1>2, ApartSent

\* A step of the device, or one that changes nothing here.
LEMMA StaySent ==
  ASSUME WriteInv, TxSame(core, core'), UNCHANGED <<pc, item, plan, words>>,
         \A q \in Process : Storing(q) => (q \in disturbed' <=> q \in disturbed)
  PROVE  Sent
  <1>1. \A q \in Process : Apart(q)
    BY DEF Apart, Storing
  <1>2. SendInv' /\ WritePlans' /\ core'.tx \in Seq(Word)
    BY <1>1, ApartKeeps DEF WriteInv, WritePlans, TxSame
  <1>3. QED
    BY <1>2 DEF Sent

\* A step that empties the transmit side, of a process that is in no transfer or of none.
LEMMA EmptySent ==
  ASSUME ChannelInv, WriteInv, core'.tx = <<>>, UNCHANGED <<item, plan, words>>,
         \A q \in Process :
           /\ \/ pc'[q] = pc[q]
              \/ /\ pc[q] \notin ReadPCs \cup WritePCs
                 /\ pc'[q] \notin WritePCs \cup {"write_wait"}
           /\ Storing(q) => q \in disturbed'
  PROVE  Sent
  <1>1. WritePlans'
    BY DEF WriteInv, WritePlans, WritePlan
  <1>2. SendInv'
    BY EmptyKeeps DEF Storing
  <1>3. core'.tx \in Seq(Word)
    OBVIOUS
  <1>4. QED
    BY <1>1, <1>2, <1>3 DEF Sent

\* Joining the readers disturbs no writer.
LEMMA ReadersJoin ==
  ASSUME ChannelInv, NEW p \in Process, Joins(p, InRead)
  PROVE  \A q \in Process \ {p} : Storing(q) => (q \in disturbed' <=> q \in disturbed)
  BY DEF Joins, InRead, Storing, ReadPCs, WritePCs, ResetPCs

\* The reset of the core.
LEMMA ResetSent ==
  ASSUME ChannelInv, WriteInv, NEW p \in Process, NEW from \in ResetPCs,
         NEW to \in {"reset_isr", "ioctl_isr"}, ResetCore(p, from, to)
  PROVE  Sent
  <1> USE DEF ChannelInv
  <1>1. /\ pc[p] = from /\ pc' = [pc EXCEPT ![p] = to]
        /\ core' = CoreReset(core)
        /\ disturbed' = (InRead \cup InWrite) \ {p}
        /\ UNCHANGED <<item, plan, words>>
    BY Zenon DEF ResetCore, Goto, transferVars
  <1>2. pc'[p] = to /\ \A q \in Process \ {p} : pc'[q] = pc[q]
    BY <1>1 DEF DriverInv, TypesInv
  <1>3. core'.tx = <<>>
    BY <1>1, TxResets DEF RxTypes
  <1>4. /\ pc[p] \notin ReadPCs \cup WritePCs
        /\ pc'[p] \notin WritePCs \cup {"write_wait"}
        /\ ~Storing(p)
    BY <1>1, <1>2 DEF ReadPCs, WritePCs, ResetPCs, Storing
  <1>5. \A q \in Process \ {p} : Storing(q) => q \in disturbed'
    BY <1>1 DEF InWrite, Storing
  <1>6. QED
    BY <1>1, <1>2, <1>3, <1>4, <1>5, EmptySent

\* Everything a process does beside ioctl and sysfs.
LEMMA TransfersSent ==
  ASSUME ChannelInv, ChannelInv', WriteInv, NEW p \in Process, Transfers(p)
  PROVE  Sent
  <1> USE DEF ChannelInv, WriteInv
  <1>1. DOMAIN core = Fields /\ pc \in [Process -> PCs]
    BY DEF RxTypes, DriverInv, TypesInv
  <1>2. WritePlan(pc[p], item[p], words[p], plan[p])
    BY DEF WritePlans
  <1>3. ASSUME UNCHANGED core
        PROVE  TxSame(core, core')
    BY <1>3 DEF TxSame
  <1>4. ASSUME Leave(p)
        PROVE  /\ words'[p] = <<>>
               /\ \A q \in Process \ {p} : item'[q] = item[q] /\ plan'[q] = plan[q]
                                           /\ words'[q] = words[q]
    BY <1>4 DEF Leave, RxTypes
  <1>5. ASSUME NEW from, NEW to, Goto(p, from, to)
        PROVE  pc[p] = from /\ pc'[p] = to /\ \A q \in Process \ {p} : pc'[q] = pc[q]
    BY <1>1, <1>5 DEF Goto
  <1>6. CASE ReadCall(p)
    <2>1. /\ Goto(p, "user", IF read_flags THEN "read_len" ELSE "read_wait")
          /\ Joins(p, InRead) \/ UNCHANGED disturbed
          /\ UNCHANGED <<core, item, plan, words>>
      BY <1>6, Zenon DEF ReadCall, transferVars
    <2>2. words[p] = <<>>
      BY <1>2, <1>5, <2>1 DEF WritePlan, ReadPCs, WritePCs
    <2>3. WritePlan(pc'[p], item'[p], words'[p], plan'[p])
      BY <1>5, <2>1, <2>2 DEF WritePlan, WritePCs
    <2>4. pc[p] \notin WritePCs \cup ResetPCs /\ pc'[p] \notin WritePCs
      BY <1>5, <2>1 DEF WritePCs, ResetPCs
    <2>5. QED
      BY <1>3, <1>5, <2>1, <2>3, <2>4, ReadersJoin, ApartSent
  <1>7. CASE ReadWait(p)
    <2>1. /\ pc[p] = "read_wait" /\ UNCHANGED <<core, item, plan, words>>
          /\ \/ pc' = [pc EXCEPT ![p] = "read_len"] /\ Joins(p, InRead)
             \/ UNCHANGED <<pc, disturbed>>
      BY <1>7, Zenon DEF ReadWait, transferVars
    <2>2. words[p] = <<>>
      BY <1>2, <2>1 DEF WritePlan, ReadPCs, WritePCs
    <2>3. pc'[p] \in {"read_wait", "read_len"} /\ \A q \in Process \ {p} : pc'[q] = pc[q]
      BY <1>1, <2>1
    <2>4. WritePlan(pc'[p], item'[p], words'[p], plan'[p])
      BY <2>1, <2>2, <2>3 DEF WritePlan, WritePCs
    <2>5. pc[p] \notin WritePCs \cup ResetPCs /\ pc'[p] \notin WritePCs
      BY <2>1, <2>3 DEF WritePCs, ResetPCs
    <2>6. \A q \in Process \ {p} : Storing(q) => (q \in disturbed' <=> q \in disturbed)
      BY <2>1, ReadersJoin
    <2>7. QED
      BY <1>3, <2>1, <2>3, <2>4, <2>5, <2>6, ApartSent
  <1>8. CASE ReadLength(p)
    <2>1. /\ pc[p] = "read_len" /\ core' = ReadRLR(core) /\ UNCHANGED disturbed
          /\ \A q \in Process \ {p} : pc'[q] = pc[q]
          /\ \/ pc'[p] = "reset" /\ UNCHANGED <<item, plan, words>>
             \/ /\ pc'[p] = "read_word"
                /\ item' = [item EXCEPT ![p] = Head(core.lens)]
                /\ plan' = [plan EXCEPT ![p] = Copies(Head(core.lens))]
                /\ words' = [words EXCEPT ![p] = <<>>]
      BY <1>1, <1>8 DEF ReadLength, Goto, transferVars, historyVars
    <2>2. words[p] = <<>>
      BY <1>2, <2>1 DEF WritePlan
    <2>3. /\ words'[p] = <<>>
          /\ \A q \in Process \ {p} : item'[q] = item[q] /\ plan'[q] = plan[q]
                                      /\ words'[q] = words[q]
      BY <2>1, <2>2 DEF RxTypes
    <2>4. WritePlan(pc'[p], item'[p], words'[p], plan'[p])
      BY <2>1, <2>3 DEF WritePlan, WritePCs
    <2>5. pc[p] \notin WritePCs \cup ResetPCs /\ pc'[p] \notin WritePCs
      BY <2>1 DEF WritePCs, ResetPCs
    <2>6. TxSame(core, core')
      BY <1>1, <2>1, RxOps
    <2>7. QED
      BY <2>1, <2>3, <2>4, <2>5, <2>6, ApartSent
  <1>9. CASE ReadWord(p)
    <2>1. PICK to \in {"read_copy", "read_word"} : Goto(p, "read_word", to)
      BY <1>9 DEF ReadWord
    <2>2. PICK w : words' = [words EXCEPT ![p] = Append(@, w)]
      BY <1>9 DEF ReadWord
    <2>3. /\ core' = ReadRDFD(core) /\ plan' = [plan EXCEPT ![p][1] = @ - 1]
          /\ UNCHANGED <<item, disturbed>>
      BY <1>9, Zenon DEF ReadWord, historyVars
    <2>4. \A q \in Process \ {p} : item'[q] = item[q] /\ plan'[q] = plan[q]
                                   /\ words'[q] = words[q]
      BY <2>2, <2>3 DEF RxTypes
    <2>5. WritePlan(pc'[p], item'[p], words'[p], plan'[p])
      BY <1>5, <2>1 DEF WritePlan, ReadPCs, WritePCs
    <2>6. pc[p] \notin WritePCs \cup ResetPCs /\ pc'[p] \notin WritePCs
      BY <1>5, <2>1 DEF WritePCs, ResetPCs
    <2>7. TxSame(core, core')
      BY <1>1, <2>3, RxOps
    <2>8. QED
      BY <1>5, <2>1, <2>3, <2>4, <2>5, <2>6, <2>7, ApartSent
  <1>10. CASE ReadCopy(p)
    <2>1. /\ UNCHANGED <<core, disturbed>>
          /\ \/ Goto(p, "read_copy", "reset") /\ Leave(p)
             \/ Goto(p, "read_copy", "read_word") /\ plan' = [plan EXCEPT ![p] = Tail(@)]
                /\ UNCHANGED <<item, words>>
             \/ Goto(p, "read_copy", "read_return") /\ UNCHANGED <<item, plan, words>>
      BY <1>10, Zenon DEF ReadCopy, transferVars, historyVars
    <2>2. \A q \in Process \ {p} : item'[q] = item[q] /\ plan'[q] = plan[q]
                                   /\ words'[q] = words[q]
      BY <1>4, <2>1 DEF RxTypes
    <2>3. WritePlan(pc'[p], item'[p], words'[p], plan'[p])
      BY <1>4, <1>5, <2>1 DEF WritePlan, ReadPCs, WritePCs
    <2>4. /\ pc[p] \notin WritePCs \cup ResetPCs /\ pc'[p] \notin WritePCs
          /\ \A q \in Process \ {p} : pc'[q] = pc[q]
      BY <1>5, <2>1 DEF WritePCs, ResetPCs
    <2>5. QED
      BY <1>3, <2>1, <2>2, <2>3, <2>4, ApartSent
  <1>11. CASE ReadReturn(p)
    <2>1. /\ Goto(p, "read_return", "user") /\ Leave(p) /\ UNCHANGED core
          /\ disturbed' = disturbed \ {p}
      BY <1>11, Zenon DEF ReadReturn
    <2>2. WritePlan(pc'[p], item'[p], words'[p], plan'[p])
      BY <1>4, <1>5, <2>1 DEF WritePlan, ReadPCs, WritePCs
    <2>3. pc[p] \notin WritePCs \cup ResetPCs /\ pc'[p] \notin WritePCs
      BY <1>5, <2>1 DEF WritePCs, ResetPCs
    <2>4. QED
      BY <1>3, <1>4, <1>5, <2>1, <2>2, <2>3, ApartSent
  <1>12. CASE \E x \in Payload : WriteCall(p, x)
    BY <1>12, WriteCallSent
  <1>13. CASE WriteWait(p) \/ WriteCopy(p) \/ WriteWord(p) \/ WriteLength(p)
    BY <1>13, WriteWaitSent, WriteCopySent, WriteWordSent, WriteLengthSent
  <1>14. CASE PollCall(p)
    <2>1. Goto(p, "user", "poll") /\ UNCHANGED <<core, item, plan, words, disturbed>>
      BY <1>14, Zenon DEF PollCall, transferVars, historyVars
    <2>2. QED
      BY <1>3, <1>5, <2>1, OutsideSent DEF ReadPCs, WritePCs, ResetPCs
  <1>15. CASE Poll(p)
    <2>1. /\ pc[p] = "poll" /\ UNCHANGED <<core, item, plan, words, disturbed>>
          /\ pc' = [pc EXCEPT ![p] = "user"] \/ UNCHANGED pc
      BY <1>15, Zenon DEF Poll, transferVars, historyVars
    <2>2. pc'[p] \in {"poll", "user"} /\ \A q \in Process \ {p} : pc'[q] = pc[q]
      BY <1>1, <2>1
    <2>3. TxSame(core, core')
      BY <1>3, <2>1
    <2>4. /\ pc[p] \notin ReadPCs \cup WritePCs \cup ResetPCs
          /\ pc'[p] \notin WritePCs \cup {"write_wait"}
      BY <2>1, <2>2 DEF ReadPCs, WritePCs, ResetPCs
    <2>5. QED
      BY <2>1, <2>2, <2>3, <2>4, OutsideSent
  <1>16. CASE GiveUp(p)
    <2>1. /\ p \in asleep /\ UNCHANGED <<core, disturbed>>
          /\ \/ UNCHANGED <<pc, item, plan, words>>
             \/ pc' = [pc EXCEPT ![p] = "user"] /\ Leave(p)
      BY <1>16, Zenon DEF GiveUp, transferVars
    <2>2. pc[p] \in WaitPCs
      BY <2>1 DEF DriverInv, TypesInv
    <2>3. /\ \A q \in Process \ {p} : pc'[q] = pc[q] /\ item'[q] = item[q]
                                      /\ plan'[q] = plan[q] /\ words'[q] = words[q]
          /\ \/ UNCHANGED <<pc, item, plan, words>>
             \/ pc'[p] = "user" /\ words'[p] = <<>>
      BY <1>1, <1>4, <2>1
    <2>4. WritePlan(pc'[p], item'[p], words'[p], plan'[p])
      BY <1>2, <2>3 DEF WritePlan, WritePCs
    <2>5. pc[p] \notin WritePCs \cup ResetPCs /\ pc'[p] \notin WritePCs
      BY <2>2, <2>3 DEF WaitPCs, WritePCs, ResetPCs
    <2>6. QED
      BY <1>3, <2>1, <2>3, <2>4, <2>5, ApartSent
  <1>17. CASE ResetCore(p, "reset", "reset_isr")
    BY <1>17, ResetSent DEF ResetPCs
  <1>18. CASE ResetIsr(p, "reset_isr", "user") /\ UNCHANGED lockVars
    <2>1. /\ Goto(p, "reset_isr", "user") /\ UNCHANGED <<item, plan, words, disturbed>>
          /\ core' = [core EXCEPT !.isr = {}]
      BY <1>18, Zenon DEF ResetIsr, transferVars, historyVars
    <2>2. TxSame(core, core')
      BY <1>1, <2>1, RxOps
    <2>3. /\ pc[p] \notin ReadPCs \cup WritePCs \cup ResetPCs
          /\ pc'[p] \notin WritePCs \cup {"write_wait"}
          /\ \A q \in Process \ {p} : pc'[q] = pc[q]
      BY <1>5, <2>1 DEF ReadPCs, WritePCs, ResetPCs
    <2>4. QED
      BY <2>1, <2>2, <2>3, OutsideSent
  <1>19. QED
    BY <1>6, <1>7, <1>8, <1>9, <1>10, <1>11, <1>12, <1>13, <1>14, <1>15, <1>16, <1>17,
       <1>18
    DEF Transfers

\* Registers touched by hand.
LEMMA TouchSent ==
  ASSUME ChannelInv, WriteInv, NEW p \in Process, NEW r \in Register, Touch(r),
         UNCHANGED <<item, plan, words>>,
         pc[p] \notin ReadPCs \cup WritePCs \cup ResetPCs,
         pc'[p] \notin WritePCs \cup {"write_wait"},
         \A q \in Process \ {p} : pc'[q] = pc[q]
  PROVE  Sent
  <1> USE DEF ChannelInv, WriteInv
  <1>1. /\ core' = RawAccess(core, r)
        /\ disturbed' = disturbed \cup (IF r \in {"RDFR", "SRR"} THEN InRead ELSE {})
                                  \cup (IF r \in {"TDFR", "SRR"} THEN InWrite ELSE {})
    BY Zenon DEF Touch
  <1>2. DOMAIN core = Fields
    BY DEF RxTypes
  <1>3. words[p] = <<>>
    BY DEF WritePlans, WritePlan
  <1>4. CASE r \in {"TDFR", "SRR"}
    <2>1. core' = ResetTx(core) \/ core' = ResetTx(ResetRx(core))
      BY <1>1, <1>4 DEF RawAccess
    <2>2. core'.tx = <<>>
      BY <1>2, <2>1, TxResets
    <2>3. \A q \in Process : Storing(q) => q \in disturbed'
      BY <1>1, <1>4 DEF InWrite, Storing
    <2>4. QED
      BY <2>2, <2>3, EmptySent
  <1>5. CASE r \in {"TDFD", "TLR"}
    <2>1. PICK d : /\ d = WriteTDFD(core, <<NoPayload, 0>>) \/ d = WriteTLR(core, 1)
                   /\ core' = [d EXCEPT !.skewed = @ \cup {"tx"}]
      BY <1>1, <1>5 DEF RawAccess
    <2>2. DOMAIN d = Fields /\ d.tx \in Seq(Word)
      <3>1. CASE d = WriteTDFD(core, <<NoPayload, 0>>)
        <4>1. PICK w \in Word : w = <<NoPayload, 0>>
          BY DEF Word
        <4>2. Append(core.tx, w) \in Seq(Word)
          OBVIOUS
        <4>3. QED
          BY <1>2, <3>1, <4>1, <4>2 DEF WriteTDFD, Fail, Raise, Fields
      <3>2. CASE d = WriteTLR(core, 1)
        <4>1. PICK m \in Nat : m = Len(core.tx)
          OBVIOUS
        <4>2. CASE 1 = m
          BY <1>2, <3>2, <4>1, <4>2 DEF WriteTLR, Fields
        <4>3. CASE 1 # m
          <5>1. PICK i \in 0 .. m :
                  d = Fail([core EXCEPT !.txq = Append(@, SubSeq(core.tx, 1, i)),
                                        !.tx = SubSeq(@, i + 1, Len(@))], "TSE", "tx")
            <6>1. (IF 1 < m THEN 1 ELSE m) \in 0 .. m
              OBVIOUS
            <6>2. QED
              BY <3>2, <4>1, <4>3, <6>1 DEF WriteTLR
          <5>2. DOMAIN d = Fields /\ d.tx = SubSeq(core.tx, i + 1, m)
            BY <1>2, <4>1, <5>1 DEF Fail, Raise, Fields
          <5>3. SubSeq(core.tx, i + 1, m) \in Seq(Word)
            <6>1. \A j \in i + 1 .. m : core.tx[j] \in Word
              BY <4>1
            <6>2. QED
              BY <6>1, SubSeqProperties
          <5>4. QED
            BY <5>2, <5>3
        <4>4. QED
          BY <4>2, <4>3
      <3>3. QED
        BY <2>1, <3>1, <3>2
    <2>3. core'.tx \in Seq(Word) /\ "tx" \in core'.skewed
      BY <2>1, <2>2 DEF Fields
    <2>4. WritePlans'
      <3>1. WritePlan(pc'[p], item'[p], words'[p], plan'[p])
        BY <1>3 DEF WritePlan
      <3>2. QED
        BY <3>1, PlansKept
    <2>5. QED
      BY <2>3, <2>4, SkewedKeeps DEF Sent
  <1>6. CASE r \notin {"TDFR", "SRR", "TDFD", "TLR"}
    <2>1. TxSame(core, core')
      <3>1. CASE r \in {"RDFD", "RLR", "RDFR"}
        <4>1. \/ core' = [ReadRDFD(core) EXCEPT !.skewed = @ \cup {"rx"}]
              \/ core' = [ReadRLR(core) EXCEPT !.skewed = @ \cup {"rx"}]
              \/ core' = ResetRx(core)
          BY <1>1, <3>1 DEF RawAccess
        <4>2. QED
          BY <1>2, <4>1, RxOps
      <3>2. CASE r \in {"IER", "ISR"}
        <4>1. core' = [core EXCEPT !.ier = {}] \/ core' = [core EXCEPT !.isr = {}]
          BY <1>1, <3>2 DEF RawAccess
        <4>2. QED
          BY <1>2, <4>1, RxOps
      <3>3. CASE r \in {"TDFV", "RDFO", "TDR", "RDR"}
        <4>1. core' = core
          BY <1>1, <3>3 DEF RawAccess
        <4>2. QED
          BY <4>1 DEF TxSame
      <3>4. QED
        BY <1>6, <3>1, <3>2, <3>3, ConstantsAssumption
    <2>2. WritePlan(pc'[p], item'[p], words'[p], plan'[p])
      BY <1>3 DEF WritePlan
    <2>3. \A q \in Process : Storing(q) => (q \in disturbed' <=> q \in disturbed)
      BY <1>1, <1>6 DEF InRead, Storing, ReadPCs, WritePCs, ResetPCs
    <2>4. QED
      BY <2>1, <2>2, <2>3, ApartSent
  <1>7. QED
    BY <1>4, <1>5, <1>6

\* A process goes from one place outside its transfers to another.
LEMMA GoesSent ==
  ASSUME ChannelInv, WriteInv, NEW p \in Process, NEW from, NEW to, Goto(p, from, to),
         from \notin ReadPCs \cup WritePCs \cup ResetPCs,
         to \notin WritePCs \cup {"write_wait"},
         TxSame(core, core'), UNCHANGED <<item, plan, words, disturbed>>
  PROVE  Sent
  <1>1. /\ pc[p] = from /\ pc'[p] = to /\ \A q \in Process \ {p} : pc'[q] = pc[q]
    BY DEF Goto, ChannelInv, DriverInv, TypesInv
  <1>2. QED
    BY <1>1, OutsideSent

\* ioctl and sysfs.
LEMMA ControlSent ==
  ASSUME ChannelInv, WriteInv, NEW p \in Process, Control(p)
  PROVE  Sent
  <1>1. DOMAIN core = Fields /\ pc \in [Process -> PCs]
    BY DEF RxTypes, DriverInv, TypesInv, ChannelInv
  <1>2. ASSUME UNCHANGED core
        PROVE  TxSame(core, core')
    BY <1>2 DEF TxSame
  <1>3. CASE SysfsReset(p)
    <2>1. Goto(p, "user", "reset") /\ UNCHANGED <<core, item, plan, words, disturbed>>
      BY <1>3, Zenon DEF SysfsReset, transferVars, historyVars
    <2>2. "user" \notin ReadPCs \cup WritePCs \cup ResetPCs
          /\ "reset" \notin WritePCs \cup {"write_wait"}
      BY DEF ReadPCs, WritePCs, ResetPCs
    <2>3. QED
      BY <1>2, <2>1, <2>2, GoesSent
  <1>4. ASSUME NEW r \in Register, SysfsAccess(p, r)
        PROVE  Sent
    <2>1. pc[p] = "user" /\ Touch(r) /\ UNCHANGED <<pc, item, plan, words>>
      BY <1>4, Zenon DEF SysfsAccess, transferVars
    <2>2. /\ pc[p] \notin ReadPCs \cup WritePCs \cup ResetPCs
          /\ pc'[p] \notin WritePCs \cup {"write_wait"}
      BY <2>1 DEF ReadPCs, WritePCs, ResetPCs
    <2>3. QED
      BY <2>1, <2>2, TouchSent
  <1>5. ASSUME NEW r \in Register, IoctlRegister(p, r)
        PROVE  Sent
    <2>1. Goto(p, "ioctl", "user") /\ Touch(r) /\ UNCHANGED <<item, plan, words>>
      BY <1>5, Zenon DEF IoctlRegister, transferVars
    <2>2. /\ pc[p] \notin ReadPCs \cup WritePCs \cup ResetPCs
          /\ pc'[p] \notin WritePCs \cup {"write_wait"}
          /\ \A q \in Process \ {p} : pc'[q] = pc[q]
      BY <1>1, <2>1 DEF ReadPCs, WritePCs, ResetPCs, Goto
    <2>3. QED
      BY <2>1, <2>2, TouchSent
  <1>6. ASSUME NEW rx \in Threshold, NEW tx \in Threshold, SysfsThreshold(p, rx, tx)
        PROVE  Sent
    <2>1. UNCHANGED <<core, pc, item, plan, words, disturbed>>
      BY <1>6, Zenon DEF SysfsThreshold, transferVars
    <2>2. QED
      BY <1>2, <2>1, StaySent
  <1>7. ASSUME \/ Goto(p, "ioctl", "user") \/ Goto(p, "user", "ioctl")
               \/ Goto(p, "ioctl", "ioctl_reset"),
               UNCHANGED <<core, item, plan, words, disturbed>>
        PROVE  Sent
    <2>1. /\ {"user", "ioctl"} \cap (ReadPCs \cup WritePCs \cup ResetPCs) = {}
          /\ {"user", "ioctl", "ioctl_reset"} \cap (WritePCs \cup {"write_wait"}) = {}
      BY DEF ReadPCs, WritePCs, ResetPCs
    <2>2. QED
      BY <1>2, <1>7, <2>1, GoesSent
  <1>8. ASSUME NEW rx \in Threshold, NEW tx \in Threshold, IoctlThreshold(p, rx, tx)
        PROVE  Sent
    BY <1>7, <1>8, Zenon DEF IoctlThreshold, transferVars
  <1>9. CASE IoctlLock(p) \/ IoctlFails(p)
    BY <1>7, <1>9, Zenon DEF IoctlLock, IoctlFails, transferVars, historyVars
  <1>10. CASE IoctlReset(p)
    <2>1. CASE Goto(p, "ioctl", "ioctl_reset") /\ UNCHANGED <<core, item, plan, words, disturbed>>
      BY <1>7, <2>1
    <2>2. CASE ResetCore(p, "ioctl_reset", "ioctl_isr")
      BY <2>2, ResetSent DEF ResetPCs
    <2>3. CASE ResetIsr(p, "ioctl_isr", "user")
      <3>1. /\ Goto(p, "ioctl_isr", "user") /\ UNCHANGED <<item, plan, words, disturbed>>
            /\ core' = [core EXCEPT !.isr = {}]
        BY <2>3, Zenon DEF ResetIsr, transferVars, historyVars
      <3>2. TxSame(core, core')
        BY <1>1, <3>1, RxOps
      <3>3. "ioctl_isr" \notin ReadPCs \cup WritePCs \cup ResetPCs
            /\ "user" \notin WritePCs \cup {"write_wait"}
        BY DEF ReadPCs, WritePCs, ResetPCs
      <3>4. QED
        BY <3>1, <3>2, <3>3, GoesSent
    <2>4. QED
      BY <1>10, <2>1, <2>2, <2>3, Zenon DEF IoctlReset, transferVars, historyVars
  <1>11. QED
    BY <1>3, <1>4, <1>5, <1>6, <1>8, <1>9, <1>10, Zenon DEF Control

\* The core and the interrupt handler.
LEMMA DeviceSent ==
  ASSUME ChannelInv, WriteInv, Device
  PROVE  Sent
  <1>1. DOMAIN core = Fields
    BY DEF RxTypes, ChannelInv
  <1>2. CASE Transmit
    <2>1. /\ core' = Raise([core EXCEPT !.txq = Tail(core.txq)], "TC")
          /\ UNCHANGED <<pc, item, plan, words, disturbed>>
      BY <1>2 DEF Transmit, transferVars
    <2>2. QED
      BY <1>1, <2>1, RxOps, StaySent
  <1>3. ASSUME NEW x \in Payload, Arrive(x)
        PROVE  Sent
    <2>1. PICK s, t : core' = Raise([core EXCEPT !.rx = s, !.lens = t], "RC")
      BY <1>3 DEF Arrive
    <2>2. UNCHANGED <<pc, item, plan, words, disturbed>>
      BY <1>3, Zenon DEF Arrive, transferVars
    <2>3. QED
      BY <1>1, <2>1, <2>2, RxOps, StaySent
  <1>4. CASE IrqServe
    <2>1. PICK i : /\ core' = CASE i = "RXERROR" -> ResetRx(core)
                              [] i = "TPOE" -> ResetTx(core)
                              [] OTHER -> core
                   /\ disturbed' = disturbed \cup (CASE i = "RXERROR" -> InRead
                                                    [] i = "TPOE" -> InWrite
                                                    [] OTHER -> {})
      BY <1>4, Zenon DEF IrqServe
    <2>2. UNCHANGED <<pc, item, plan, words>>
      BY <1>4, Zenon DEF IrqServe, transferVars
    <2>3. CASE i = "TPOE"
      <3>1. core' = ResetTx(core) /\ disturbed' = disturbed \cup InWrite
        BY <2>1, <2>3
      <3>2. core'.tx = <<>> /\ \A q \in Process : Storing(q) => q \in disturbed'
        BY <1>1, <3>1, TxResets DEF InWrite, Storing
      <3>3. QED
        BY <2>2, <3>2, EmptySent
    <2>4. CASE i # "TPOE"
      <3>1. /\ core' = ResetRx(core) \/ core' = core
            /\ disturbed' = disturbed \cup InRead \/ disturbed' = disturbed
        BY <2>1, <2>4
      <3>2. TxSame(core, core')
        BY <1>1, <3>1, RxOps
      <3>3. \A q \in Process : Storing(q) => (q \in disturbed' <=> q \in disturbed)
        BY <3>1 DEF InRead, Storing, ReadPCs, WritePCs, ResetPCs
      <3>4. QED
        BY <2>2, <3>2, <3>3, StaySent
    <2>5. QED
      BY <2>3, <2>4
  <1>5. CASE IrqClear
    <2>1. core' = [core EXCEPT !.isr = @ \ {irq}] /\ UNCHANGED <<pc, item, plan, words, disturbed>>
      BY <1>5, Zenon DEF IrqClear, transferVars, historyVars
    <2>2. TxSame(core, core')
      BY <1>1, <2>1, RxOps
    <2>3. QED
      BY <2>1, <2>2, StaySent
  <1>6. QED
    BY <1>2, <1>3, <1>4, <1>5, Zenon DEF Device

\* Opening and closing.
LEMMA FilesSent ==
  ASSUME WriteInv, NEW p \in Process, Files(p)
  PROVE  Sent
  <1>1. UNCHANGED <<core, pc, item, plan, words, disturbed>>
    BY Zenon DEF Files, Open, OpenFails, Close, transferVars, historyVars
  <1>2. TxSame(core, core')
    BY <1>1 DEF TxSame
  <1>3. QED
    BY <1>1, <1>2, StaySent

\* Probe, remove and their unwinding.
LEMMA LifeSent ==
  ASSUME ChannelInv, WriteInv, Life
  PROVE  Sent
  <1>1. UNCHANGED <<pc, item, plan, words, disturbed>>
    BY Zenon DEF Life, ProbeStart, ProbeStep, ProbeFails, axis_fifo_remove, Release, Gone,
                 transferVars, historyVars
  <1>2. CASE UNCHANGED core
    BY <1>1, <1>2, StaySent DEF TxSame
  <1>3. CASE core' # core
    <2>1. ProbeStep \/ Release
      BY <1>3, Zenon DEF Life, ProbeStart, ProbeFails, axis_fifo_remove, Gone
    <2>2. core'.tx = <<>>
      <3>1. core' = [CoreReset(core) EXCEPT !.isr = {}] \/ core' = EmptyCore
        BY <1>3, <2>1, Zenon DEF ProbeStep, Release
      <3>2. QED
        BY <3>1, TxResets DEF ChannelInv, RxTypes
    <2>3. ~axis_fifo_remove
      BY <1>3 DEF axis_fifo_remove
    <2>4. \A q \in Process : ~Storing(q)
      BY <2>3, LifeQuiet DEF WritePCs, Storing
    <2>5. QED
      BY <1>1, <2>2, <2>4, EmptySent
  <1>4. QED
    BY <1>2, <1>3

--------------------------------------------------------------------------------
(* the theorem                                                                 *)

\* It holds when the driver is loaded.
LEMMA InitWrite ==
  ASSUME AxisInit
  PROVE  WriteInv
  <1> USE DEF AxisInit
  <1>1. core.tx = <<>> /\ core.tx \in Seq(Word)
    BY DEF EmptyCore
  <1>2. WritePlans
    BY DEF WritePlans, WritePlan, WritePCs
  <1>3. SendInv
    <2>1. <<>> \in [1 .. 0 -> Process \X Nat] /\ \A j \in 1 .. 0 : FALSE
      OBVIOUS
    <2>2. Pairing(<<>>, 0)
      BY <2>1 DEF Pairing
    <2>3. Written
      BY <1>1, <2>2, EmptySeq DEF Written
    <2>4. QED
      BY <2>3 DEF SendInv, Storing, WritePCs
  <1>4. QED
    BY <1>1, <1>2, <1>3 DEF WriteInv

\* Every step keeps it.
LEMMA NextWrite ==
  ASSUME ChannelInv, ChannelInv', WriteInv, [AxisNext]_axisVars
  PROVE  WriteInv'
  <1>1. CASE Life
    BY <1>1, LifeSent DEF Sent, WriteInv
  <1>2. CASE Device
    BY <1>2, DeviceSent DEF Sent, WriteInv
  <1>3. ASSUME NEW p \in Process, Files(p) \/ Transfers(p)
        PROVE  WriteInv'
    BY <1>3, FilesSent, TransfersSent DEF Sent, WriteInv
  <1>4. ASSUME NEW p \in Admin, Control(p)
        PROVE  WriteInv'
    BY <1>4, ControlSent, ConstantsAssumption DEF Sent, WriteInv
  <1>5. CASE UNCHANGED axisVars
    <2>1. UNCHANGED <<core, pc, item, plan, words, disturbed>>
      BY <1>5, Zenon DEF axisVars, transferVars, historyVars
    <2>2. QED
      BY <2>1, StaySent DEF TxSame, Sent, WriteInv
  <1>6. QED
    BY <1>1, <1>2, <1>3, <1>4, <1>5 DEF AxisNext

\* A process that is about to write the length of its packet stays there until it does.
LEMMA LengthNext ==
  ASSUME TypesInv, [AxisNext]_axisVars, NEW p \in Process, pc[p] = "write_len", pc'[p] = "user"
  PROVE  WriteLength(p)
  <1>1. UNCHANGED pc => FALSE
    OBVIOUS
  <1>2. pc \in [Process -> PCs] /\ asleep \subseteq {q \in Process : pc[q] \in WaitPCs}
    BY DEF TypesInv
  <1>3. ASSUME NEW q \in Process, NEW from, NEW to, Goto(q, from, to), from # "write_len"
        PROVE  FALSE
    BY <1>2, <1>3 DEF Goto
  <1>4. AxisNext
    BY <1>1, Zenon DEF axisVars
  <1>5. ~Life /\ ~Device
    BY <1>1, Zenon DEF Life, ProbeStart, ProbeStep, ProbeFails, axis_fifo_remove, Release,
                       Gone, Device, Transmit, Arrive, IrqServe, IrqClear
  <1>6. ASSUME NEW q \in Process, Files(q)
        PROVE  FALSE
    BY <1>1, <1>6, Zenon DEF Files, Open, OpenFails, Close
  <1>7. ASSUME NEW q \in Process, Control(q)
        PROVE  FALSE
    <2>1. {"user", "ioctl", "ioctl_reset", "ioctl_isr"} \cap {"write_len"} = {}
      OBVIOUS
    <2>2. UNCHANGED pc \/ \E from \in {"user", "ioctl", "ioctl_reset", "ioctl_isr"} :
                            \E to : Goto(q, from, to)
      BY <1>7
      DEF Control, SysfsReset, SysfsAccess, IoctlRegister, SysfsThreshold, IoctlThreshold,
          IoctlLock, IoctlFails, IoctlReset, ResetCore, ResetIsr
    <2>3. QED
      BY <1>1, <1>3, <2>1, <2>2
  <1>8. ASSUME NEW q \in Process, Transfers(q)
        PROVE  WriteLength(p)
    <2>1. CASE WriteLength(q)
      <3>1. q = p
        BY <1>2, <2>1 DEF WriteLength, Goto
      <3>2. QED
        BY <2>1, <3>1
    <2>2. CASE ReadWait(q) \/ WriteWait(q) \/ Poll(q)
      <3>1. pc[q] \in {"read_wait", "write_wait", "poll"}
            /\ (UNCHANGED pc \/ \E to : pc' = [pc EXCEPT ![q] = to])
        BY <2>2 DEF ReadWait, WriteWait, Poll
      <3>2. QED
        BY <1>1, <1>2, <3>1
    <2>3. CASE GiveUp(q)
      <3>1. q \in asleep /\ (UNCHANGED pc \/ \E to : pc' = [pc EXCEPT ![q] = to])
        BY <2>3 DEF GiveUp
      <3>2. QED
        BY <1>1, <1>2, <3>1 DEF WaitPCs
    <2>4. CASE ~WriteLength(q) /\ ~(ReadWait(q) \/ WriteWait(q) \/ Poll(q)) /\ ~GiveUp(q)
      <3>1. \E from \in {"user", "read_len", "read_word", "read_copy", "read_return",
                         "write_copy", "write_word", "reset", "reset_isr"} :
              \E to : Goto(q, from, to)
        <4>1. CASE ReadCall(q) \/ PollCall(q) \/ \E x \in Payload : WriteCall(q, x)
          BY <4>1 DEF ReadCall, PollCall, WriteCall
        <4>2. CASE ReadLength(q)
          BY <4>2 DEF ReadLength
        <4>3. CASE ReadWord(q) \/ ReadCopy(q) \/ ReadReturn(q)
          BY <4>3 DEF ReadWord, ReadCopy, ReadReturn
        <4>4. CASE WriteCopy(q) \/ WriteWord(q)
          BY <4>4 DEF WriteCopy, WriteWord
        <4>5. CASE ResetCore(q, "reset", "reset_isr") \/ ResetIsr(q, "reset_isr", "user")
          BY <4>5 DEF ResetCore, ResetIsr
        <4>6. QED
          BY <1>8, <2>4, <4>1, <4>2, <4>3, <4>4, <4>5, Zenon DEF Transfers
      <3>2. QED
        BY <1>3, <3>1
    <2>5. QED
      BY <2>1, <2>2, <2>3, <2>4
  <1>9. QED
    BY <1>4, <1>5, <1>6, <1>7, <1>8, ConstantsAssumption DEF AxisNext

\* A write that meets no other transfer and no reset sends one packet with its words, in
\* order, and nothing that an earlier write has left precedes them (axis_fifo_write),
\* whatever the processes, the payloads and the sizes.
THEOREM WritesAreWhole == AxisSpec => WritesWhole
  <1>1. AxisInit => ChannelInv /\ WriteInv
    BY InitChannel, InitWrite
  <1>2. ChannelInv /\ WriteInv /\ [AxisNext]_axisVars => ChannelInv' /\ WriteInv'
    BY NextChannel, NextWrite
  <1>3. ChannelInv /\ WriteInv /\ [AxisNext]_axisVars => [WriteSendsItsPacket]_axisVars
    <2> SUFFICES ASSUME ChannelInv, WriteInv, [AxisNext]_axisVars
                 PROVE  WriteSendsItsPacket
      OBVIOUS
    <2>1. ChannelInv' /\ TypesInv
      BY NextChannel DEF ChannelInv, DriverInv
    <2> SUFFICES ASSUME NEW p \in Process, pc[p] = "write_len", pc'[p] = "user",
                        p \notin disturbed, "tx" \notin core.skewed
                 PROVE  core'.txq = Append(core.txq, WordsOf(item[p]))
      BY DEF WriteSendsItsPacket
    <2>2. WriteLength(p)
      BY <2>1, LengthNext
    <2>3. QED
      BY <2>1, <2>2, WriteLengthSent
  <1>4. QED
    BY <1>1, <1>2, <1>3, PTL DEF AxisSpec, WritesWhole

--------------------------------------------------------------------------------
(* the types of the rest of the state                                          *)

Irqs(c) == c.isr \subseteq Interrupts /\ c.ier \subseteq Interrupts
RestInv ==
  /\ failed_at \in {"none"} \cup Range(ProbeOrder)
  /\ tree \in Tree
  /\ irq \in {"none"} \cup Interrupts
  /\ read_flags \in BOOLEAN /\ write_flags \in BOOLEAN
  /\ rx_min \in Threshold /\ tx_max \in Threshold
  /\ \A p \in Process : /\ file[p] \in {Closed} \cup FlagsOf[p]
                        /\ item[p] \in Payload \cup {NoPayload}
  /\ Irqs(core)

\* The handler's list has the interrupts of the core.
LEMMA InterruptsAre ==
  /\ DOMAIN IrqOrder = 1 .. 5
  /\ Interrupts = {"RC", "TC", "RXERROR", "TPOE", "TSE"}
  /\ \A k \in 1 .. 5 : IrqOrder[k] \in Interrupts
  <1>1. DOMAIN IrqOrder = 1 .. 5
    BY DEF IrqOrder
  <1>2. Interrupts = {IrqOrder[k] : k \in 1 .. 5}
    BY <1>1, Zenon DEF Interrupts, Range
  <1>3. IrqOrder[1] = "RC" /\ IrqOrder[2] = "TC" /\ IrqOrder[3] = "RXERROR"
        /\ IrqOrder[4] = "TPOE" /\ IrqOrder[5] = "TSE"
    BY DEF IrqOrder
  <1>4. \A k \in 1 .. 5 : k = 1 \/ k = 2 \/ k = 3 \/ k = 4 \/ k = 5
    OBVIOUS
  <1>5. Interrupts = {"RC", "TC", "RXERROR", "TPOE", "TSE"}
    BY <1>2, <1>3, <1>4
  <1>6. QED
    BY <1>1, <1>2, <1>5

\* The core raises no other.
LEMMA IrqOps ==
  ASSUME NEW c, DOMAIN c = Fields, Irqs(c)
  PROVE  /\ Irqs(ResetRx(c)) /\ Irqs(ResetTx(c)) /\ Irqs(ResetTx(ResetRx(c)))
         /\ Irqs(CoreReset(c)) /\ Irqs([CoreReset(c) EXCEPT !.isr = {}]) /\ Irqs(EmptyCore)
         /\ Irqs(ReadRLR(c)) /\ Irqs([ReadRLR(c) EXCEPT !.skewed = @ \cup {"rx"}])
         /\ Irqs(ReadRDFD(c)) /\ Irqs([ReadRDFD(c) EXCEPT !.skewed = @ \cup {"rx"}])
         /\ \A w : /\ Irqs(WriteTDFD(c, w))
                   /\ Irqs([WriteTDFD(c, w) EXCEPT !.skewed = @ \cup {"tx"}])
         /\ \A n : /\ Irqs(WriteTLR(c, n))
                   /\ Irqs([WriteTLR(c, n) EXCEPT !.skewed = @ \cup {"tx"}])
         /\ \A i : Irqs([c EXCEPT !.isr = @ \ {i}])
         /\ Irqs([c EXCEPT !.isr = {}]) /\ Irqs([c EXCEPT !.ier = {}])
         /\ \A s : Irqs(Raise([c EXCEPT !.txq = s], "TC"))
         /\ \A s, t : Irqs(Raise([c EXCEPT !.rx = s, !.lens = t], "RC"))
  <1> DEFINE Fine(d) == DOMAIN d = Fields /\ Irqs(d)
  <1>1. ASSUME NEW d, Fine(d)
        PROVE  /\ Fine(ResetRx(d)) /\ Fine(ResetTx(d))
               /\ \A s : Fine([d EXCEPT !.ier = Interrupts]) /\ Fine([d EXCEPT !.isr = {}])
               /\ \A s : Fine([d EXCEPT !.skewed = s])
    BY <1>1 DEF Irqs, ResetRx, ResetTx, Fields
  <1>2. ASSUME NEW d, Fine(d), NEW i \in Interrupts, NEW way
        PROVE  Fine(Raise(d, i)) /\ Fine(Fail(d, i, way))
    BY <1>2 DEF Irqs, Raise, Fail, Fields
  <1>3. \A s, t : /\ Fine([c EXCEPT !.lens = s, !.claimed = t])
                  /\ Fine([c EXCEPT !.rx = s, !.claimed = t])
                  /\ Fine([c EXCEPT !.rx = s]) /\ Fine([c EXCEPT !.tx = s])
                  /\ Fine([c EXCEPT !.txq = s, !.tx = t]) /\ Fine([c EXCEPT !.txq = s])
                  /\ Fine([c EXCEPT !.rx = s, !.lens = t])
    BY DEF Irqs, Fields
  <1>4. Fine(c)
    OBVIOUS
  <1>5. Fine(ReadRLR(c))
    BY <1>2, <1>3, <1>4, InterruptsAre DEF ReadRLR
  <1>6. Fine(ReadRDFD(c))
    BY <1>2, <1>3, <1>4, InterruptsAre DEF ReadRDFD
  <1>7. ASSUME NEW w
        PROVE  Fine(WriteTDFD(c, w))
    BY <1>2, <1>3, <1>4, InterruptsAre DEF WriteTDFD
  <1>8. ASSUME NEW n
        PROVE  Fine(WriteTLR(c, n))
    <2>1. PICK m : m = (IF n < Len(c.tx) THEN n ELSE Len(c.tx))
      OBVIOUS
    <2>2. PICK s, t : \/ WriteTLR(c, n) = [c EXCEPT !.txq = s, !.tx = t]
                      \/ WriteTLR(c, n) = Fail([c EXCEPT !.txq = s, !.tx = t], "TSE", "tx")
      BY <2>1 DEF WriteTLR
    <2>3. PICK d : d = [c EXCEPT !.txq = s, !.tx = t]
      OBVIOUS
    <2>4. Fine(d) /\ "TSE" \in Interrupts
      BY <1>3, <2>3, InterruptsAre
    <2>5. Fine(Fail(d, "TSE", "tx"))
      BY <1>2, <2>4
    <2>6. QED
      BY <2>2, <2>3, <2>4, <2>5
  <1>9. /\ Fine(ResetRx(c)) /\ Fine(ResetTx(c)) /\ Fine(ResetTx(ResetRx(c)))
        /\ Fine(CoreReset(c)) /\ Fine([CoreReset(c) EXCEPT !.isr = {}])
    BY <1>1, <1>4 DEF CoreReset
  <1>10. Irqs(EmptyCore)
    BY DEF Irqs, EmptyCore
  <1>11. /\ \A w : Irqs([WriteTDFD(c, w) EXCEPT !.skewed = @ \cup {"tx"}])
         /\ \A n : Irqs([WriteTLR(c, n) EXCEPT !.skewed = @ \cup {"tx"}])
         /\ Irqs([ReadRLR(c) EXCEPT !.skewed = @ \cup {"rx"}])
         /\ Irqs([ReadRDFD(c) EXCEPT !.skewed = @ \cup {"rx"}])
    BY <1>1, <1>5, <1>6, <1>7, <1>8
  <1>12. /\ \A s : Irqs(Raise([c EXCEPT !.txq = s], "TC"))
         /\ \A s, t : Irqs(Raise([c EXCEPT !.rx = s, !.lens = t], "RC"))
    BY <1>2, <1>3, InterruptsAre
  <1>13. /\ \A i : Irqs([c EXCEPT !.isr = @ \ {i}])
         /\ Irqs([c EXCEPT !.isr = {}]) /\ Irqs([c EXCEPT !.ier = {}])
    BY DEF Irqs, Fields
  <1>14. QED
    BY <1>5, <1>6, <1>7, <1>8, <1>9, <1>10, <1>11, <1>12, <1>13

\* A register touched by hand leaves the core within its types.
LEMMA TouchTypes ==
  ASSUME DOMAIN core = Fields, Irqs(core), NEW r \in Register, Touch(r)
  PROVE  Irqs(core')
  <1>1. core' = RawAccess(core, r)
    BY Zenon DEF Touch
  <1>2. CASE r \in {"RDFD", "RLR", "TDFD", "TLR"}
    BY <1>1, <1>2, IrqOps DEF RawAccess
  <1>3. CASE r \in {"RDFR", "TDFR", "SRR", "IER", "ISR"}
    BY <1>1, <1>3, IrqOps DEF RawAccess
  <1>4. CASE r \in {"TDFV", "RDFO", "TDR", "RDR"}
    BY <1>1, <1>4 DEF RawAccess
  <1>5. QED
    BY <1>2, <1>3, <1>4, ConstantsAssumption

\* The handler serves an interrupt of its list.
LEMMA ServedIs ==
  ASSUME Irqs(core), IrqServe
  PROVE  irq' \in Interrupts
  <1>1. PICK pending : pending = Pending
    OBVIOUS
  <1>2. PICK K : K = {k \in DOMAIN IrqOrder : IrqOrder[k] \in pending}
    OBVIOUS
  <1>3. irq' = IrqOrder[Min(K)] /\ pending # {}
    BY <1>1, <1>2, Zenon DEF IrqServe
  <1>4. K \subseteq 1 .. 5 /\ K # {}
    BY <1>1, <1>2, <1>3, InterruptsAre DEF Pending, Irqs, Interrupts, Range
  <1>5. \E k \in K : \A l \in K : k <= l
    <2>1. \A k \in K : k = 1 \/ k = 2 \/ k = 3 \/ k = 4 \/ k = 5
      BY <1>4
    <2>2. CASE 1 \in K
      BY <2>1, <2>2
    <2>3. CASE 1 \notin K /\ 2 \in K
      BY <2>1, <2>3
    <2>4. CASE 1 \notin K /\ 2 \notin K /\ 3 \in K
      BY <2>1, <2>4
    <2>5. CASE 1 \notin K /\ 2 \notin K /\ 3 \notin K /\ 4 \in K
      BY <2>1, <2>5
    <2>6. CASE 1 \notin K /\ 2 \notin K /\ 3 \notin K /\ 4 \notin K
      <3>1. PICK k : k \in K
        BY <1>4
      <3>2. \A l \in K : l = 5
        BY <2>1, <2>6
      <3>3. \A l \in K : k <= l
        BY <3>1, <3>2
      <3>4. QED
        BY <3>1, <3>3
    <2>7. QED
      BY <2>2, <2>3, <2>4, <2>5, <2>6
  <1>6. Min(K) \in K
    BY <1>5, Zenon DEF Min
  <1>7. QED
    BY <1>3, <1>4, <1>6, InterruptsAre

\* A step that changes no more than one item and the core.
LEMMA RestKept ==
  ASSUME RestInv, RxTypes, Irqs(core'),
         UNCHANGED <<failed_at, tree, irq, flagVars, thresholdVars, file>>,
         \/ UNCHANGED item
         \/ \E p \in Process : \E x \in Payload \cup {NoPayload} : item' = [item EXCEPT ![p] = x]
  PROVE  RestInv'
  <1>1. \A p \in Process : item'[p] \in Payload \cup {NoPayload}
    BY DEF RestInv, RxTypes
  <1>2. UNCHANGED <<failed_at, tree, irq, read_flags, write_flags, rx_min, tx_max, file>>
    BY DEF flagVars, thresholdVars
  <1>3. QED
    BY <1>1, <1>2 DEF RestInv

\* Every step keeps these types.
LEMMA NextRest ==
  ASSUME ChannelInv, RestInv, [AxisNext]_axisVars
  PROVE  RestInv'
  <1> USE DEF ChannelInv
  <1>1. DOMAIN core = Fields /\ core.lens \in Seq(Payload) /\ Irqs(core)
    BY DEF RxTypes, RestInv
  <1>2. CASE Life
    <2>1. UNCHANGED <<tree, irq, flagVars, thresholdVars, file, item>>
      BY <1>2, Zenon DEF Life, ProbeStart, ProbeStep, ProbeFails, axis_fifo_remove, Release,
                         Gone, transferVars
    <2>2. Irqs(core')
      <3>1. UNCHANGED core \/ core' = [CoreReset(core) EXCEPT !.isr = {}] \/ core' = EmptyCore
        BY <1>2, Zenon
        DEF Life, ProbeStart, ProbeStep, ProbeFails, axis_fifo_remove, Release, Gone
      <3>2. QED
        BY <1>1, <3>1, IrqOps
    <2>3. failed_at' \in {"none"} \cup Range(ProbeOrder)
      <3>1. CASE ProbeFails
        <4>1. failed_at' = ProbeOrder[Len(held) + 1] /\ held # ProbeOrder
          BY <3>1, Zenon DEF ProbeFails
        <4>2. PICK n \in 0 .. 6 : n = Len(held)
          BY <4>1, HeldUpTo DEF DriverInv
        <4>3. n + 1 \in DOMAIN ProbeOrder
          BY DEF ProbeOrder
        <4>4. QED
          BY <4>1, <4>2, <4>3, Zenon DEF Range
      <3>2. CASE ~ProbeFails
        <4>1. failed_at' = failed_at \/ failed_at' = "none"
          BY <1>2, <3>2, Zenon
          DEF Life, ProbeStart, ProbeStep, axis_fifo_remove, Release, Gone
        <4>2. QED
          BY <4>1 DEF RestInv
      <3>3. QED
        BY <3>1, <3>2
    <2>4. QED
      BY <2>1, <2>2, <2>3 DEF RestInv, flagVars, thresholdVars
  <1>3. CASE Device
    <2>1. UNCHANGED <<failed_at, tree, flagVars, thresholdVars, file, item>>
      BY <1>3, Zenon DEF Device, Transmit, Arrive, IrqServe, IrqClear, lifeVars, transferVars
    <2>2. Irqs(core')
      <3>1. CASE Transmit
        BY <1>1, <3>1, IrqOps DEF Transmit
      <3>2. CASE \E x \in Payload : Arrive(x)
        <4>1. PICK s, t : core' = Raise([core EXCEPT !.rx = s, !.lens = t], "RC")
          BY <3>2 DEF Arrive
        <4>2. Irqs(Raise([core EXCEPT !.rx = s, !.lens = t], "RC"))
          BY <1>1, IrqOps
        <4>3. QED
          BY <4>1, <4>2, Zenon
      <3>3. CASE IrqServe
        <4>1. core' = ResetRx(core) \/ core' = ResetTx(core) \/ core' = core
          BY <3>3 DEF IrqServe
        <4>2. Irqs(ResetRx(core)) /\ Irqs(ResetTx(core))
          BY <1>1, IrqOps
        <4>3. QED
          BY <1>1, <4>1, <4>2, Zenon
      <3>4. CASE IrqClear
        BY <1>1, <3>4, IrqOps DEF IrqClear
      <3>5. QED
        BY <1>3, <3>1, <3>2, <3>3, <3>4, Zenon DEF Device
    <2>3. irq' \in {"none"} \cup Interrupts
      <3>1. CASE IrqServe
        BY <1>1, <3>1, ServedIs
      <3>2. CASE ~IrqServe
        <4>1. irq' = irq \/ irq' = "none"
          BY <1>3, <3>2, Zenon DEF Device, Transmit, Arrive, IrqClear
        <4>2. QED
          BY <4>1 DEF RestInv
      <3>3. QED
        BY <3>1, <3>2
    <2>4. QED
      BY <2>1, <2>2, <2>3 DEF RestInv, flagVars, thresholdVars
  <1>4. ASSUME NEW p \in Process, Files(p)
        PROVE  RestInv'
    <2>1. UNCHANGED <<failed_at, tree, irq, core, thresholdVars, item>>
      BY <1>4, Zenon DEF Files, Open, OpenFails, Close, lifeVars, transferVars
    <2>2. /\ UNCHANGED file \/ \E f \in {Closed} \cup FlagsOf[p] : file' = [file EXCEPT ![p] = f]
          /\ UNCHANGED write_flags \/ \E f \in FlagsOf[p] : write_flags' = f.nonblock
          /\ UNCHANGED read_flags \/ \E f \in FlagsOf[p] : read_flags' = f.nonblock
      <3>1. ASSUME NEW f \in FlagsOf[p], Open(p, f)
            PROVE  /\ file' = [file EXCEPT ![p] = f]
                   /\ UNCHANGED write_flags \/ write_flags' = f.nonblock
                   /\ UNCHANGED read_flags \/ read_flags' = f.nonblock
        BY <3>1 DEF Open
      <3>2. ASSUME NEW f \in FlagsOf[p], OpenFails(p, f)
            PROVE  write_flags' = f.nonblock /\ UNCHANGED <<file, read_flags>>
        BY <3>2 DEF OpenFails
      <3>3. ASSUME Close(p)
            PROVE  file' = [file EXCEPT ![p] = Closed] /\ UNCHANGED <<read_flags, write_flags>>
        BY <3>3 DEF Close, flagVars
      <3>4. QED
        BY <1>4, <3>1, <3>2, <3>3 DEF Files
    <2>3. \A f \in FlagsOf[p] : f.nonblock \in BOOLEAN
      BY ConstantsAssumption
    <2>4. read_flags' \in BOOLEAN /\ write_flags' \in BOOLEAN
      BY <2>2, <2>3 DEF RestInv
    <2>5. \A q \in Process : file'[q] \in {Closed} \cup FlagsOf[q]
      BY <2>2 DEF RestInv, DriverInv, TypesInv
    <2>6. QED
      BY <2>1, <2>4, <2>5 DEF RestInv, thresholdVars
  <1>5. ASSUME NEW p \in Process, Transfers(p)
        PROVE  RestInv'
    <2>1. UNCHANGED <<failed_at, tree, irq, flagVars, thresholdVars, file>>
      BY <1>5, Zenon
      DEF Transfers, ReadCall, ReadWait, ReadLength, ReadWord, ReadCopy, ReadReturn,
          WriteCall, WriteWait, WriteCopy, WriteWord, WriteLength, PollCall, Poll, GiveUp,
          ResetCore, ResetIsr, lifeVars
    <2>2. \/ UNCHANGED item
          \/ \E x \in Payload \cup {NoPayload} : item' = [item EXCEPT ![p] = x]
      <3>1. CASE \E x \in Payload : WriteCall(p, x)
        BY <3>1 DEF WriteCall
      <3>2. CASE ReadLength(p)
        <4>1. CASE core.lens = <<>>
          BY <3>2, <4>1, Zenon DEF ReadLength, transferVars
        <4>2. CASE core.lens # <<>>
          <5>1. PICK x : x = Head(core.lens)
            OBVIOUS
          <5>2. UNCHANGED item \/ item' = [item EXCEPT ![p] = x]
            BY <3>2, <4>2, <5>1, Zenon DEF ReadLength, transferVars
          <5>3. x \in Payload
            BY <1>1, <4>2, <5>1
          <5>4. QED
            BY <5>2, <5>3
        <4>3. QED
          BY <4>1, <4>2
      <3>3. CASE ~ReadLength(p) /\ ~(\E x \in Payload : WriteCall(p, x))
        BY <1>5, <3>3, Zenon
        DEF Transfers, ReadCall, ReadWait, ReadWord, ReadCopy, ReadReturn, WriteWait,
            WriteCopy, WriteWord, WriteLength, PollCall, Poll, GiveUp, ResetCore, ResetIsr,
            Leave, transferVars
      <3>4. QED
        BY <3>1, <3>2, <3>3
    <2>3. \/ UNCHANGED core
          \/ core' = ReadRLR(core) \/ core' = ReadRDFD(core) \/ core' = CoreReset(core)
          \/ core' = [core EXCEPT !.isr = {}]
          \/ \E w : core' = WriteTDFD(core, w)
          \/ \E n : core' = WriteTLR(core, n)
      BY <1>5, Zenon
      DEF Transfers, ReadCall, ReadWait, ReadLength, ReadWord, ReadCopy, ReadReturn,
          WriteCall, WriteWait, WriteCopy, WriteWord, WriteLength, PollCall, Poll, GiveUp,
          ResetCore, ResetIsr
    <2>4. Irqs(core')
      <3>1. /\ Irqs(ReadRLR(core)) /\ Irqs(ReadRDFD(core)) /\ Irqs(CoreReset(core))
            /\ Irqs([core EXCEPT !.isr = {}])
            /\ \A w : Irqs(WriteTDFD(core, w))
            /\ \A n : Irqs(WriteTLR(core, n))
        BY <1>1, IrqOps
      <3>2. QED
        BY <1>1, <2>3, <3>1, Zenon
    <2>5. QED
      BY <2>1, <2>2, <2>4, RestKept
  <1>6. ASSUME NEW p \in Process, Control(p)
        PROVE  RestInv'
    <2>1. UNCHANGED <<failed_at, tree, irq, flagVars, file, item>>
      BY <1>6, Zenon
      DEF Control, SysfsReset, SysfsAccess, IoctlRegister, SysfsThreshold, IoctlThreshold,
          IoctlLock, IoctlFails, IoctlReset, ResetCore, ResetIsr, lifeVars, transferVars
    <2>2. \/ UNCHANGED thresholdVars
          \/ \E rx, tx \in Threshold : rx_min' = rx /\ tx_max' = tx
      BY <1>6, Zenon
      DEF Control, SysfsReset, SysfsAccess, IoctlRegister, SysfsThreshold, IoctlThreshold,
          IoctlLock, IoctlFails, IoctlReset, ResetCore, ResetIsr, SetThreshold
    <2>3. Irqs(core')
      <3>1. \/ UNCHANGED core \/ core' = CoreReset(core) \/ core' = [core EXCEPT !.isr = {}]
            \/ \E r \in Register : Touch(r)
        BY <1>6, Zenon
        DEF Control, SysfsReset, SysfsAccess, IoctlRegister, SysfsThreshold, IoctlThreshold,
            IoctlLock, IoctlFails, IoctlReset, ResetCore, ResetIsr
      <3>2. QED
        BY <1>1, <3>1, IrqOps, TouchTypes
    <2>4. QED
      BY <2>1, <2>2, <2>3 DEF RestInv, flagVars, thresholdVars
  <1>7. CASE UNCHANGED axisVars
    <2>1. UNCHANGED <<failed_at, tree, irq, flagVars, thresholdVars, file, item, core>>
      BY <1>7, Zenon DEF axisVars, lifeVars, transferVars
    <2>2. QED
      BY <1>1, <2>1, RestKept
  <1>8. QED
    BY <1>2, <1>3, <1>4, <1>5, <1>6, <1>7, ConstantsAssumption DEF AxisNext

\* The initial state has them.
LEMMA InitRest == AxisInit => RestInv
  <1> SUFFICES ASSUME AxisInit PROVE RestInv
    OBVIOUS
  <1>1. Irqs(core)
    BY DEF AxisInit, Irqs, EmptyCore
  <1>2. \A p \in Process : file[p] \in {Closed} \cup FlagsOf[p]
                           /\ item[p] \in Payload \cup {NoPayload}
    BY DEF AxisInit
  <1>3. QED
    BY <1>1, <1>2 DEF AxisInit, RestInv

\* What probe holds is a beginning of its list, a sleeper is in a wait, and every variable
\* has its type (AxisTypeOK).
THEOREM AxisTypes == AxisSpec => []AxisTypeOK
  <1>1. AxisInit => ChannelInv /\ RestInv
    BY InitChannel, InitRest
  <1>2. ChannelInv /\ RestInv /\ [AxisNext]_axisVars => ChannelInv' /\ RestInv'
    BY NextChannel, NextRest
  <1>3. ChannelInv /\ RestInv => AxisTypeOK
    <2> SUFFICES ASSUME ChannelInv, RestInv PROVE AxisTypeOK
      OBVIOUS
    <2>1. TypesInv /\ HeldInv
      BY DEF ChannelInv, DriverInv
    <2>2. \E n \in 0 .. Len(ProbeOrder) : held = SubSeq(ProbeOrder, 1, n)
      <3>1. PICK n \in 0 .. 7 : n = Len(held)
        BY <2>1 DEF HeldInv
      <3>2. /\ ProbeOrder \in Seq(Resource) /\ Len(ProbeOrder) = 7
            /\ \A i \in 1 .. n : ProbeOrder[i] \in Resource
        BY DEF ProbeOrder, Resource
      <3>3. PICK part : part = SubSeq(ProbeOrder, 1, n)
        OBVIOUS
      <3>4. /\ part \in Seq(Resource) /\ Len(part) = n
            /\ \A i \in 1 .. n : part[i] = ProbeOrder[i]
        BY <3>2, <3>3
      <3>5. held = part
        BY <2>1, <3>1, <3>4, SeqEqual DEF TypesInv, HeldInv
      <3>6. QED
        BY <3>2, <3>3, <3>5
    <2>3. \A p \in Process : pc[p] \in PCs
      BY <2>1 DEF TypesInv
    <2>4. QED
      BY <2>1, <2>2, <2>3, Zenon DEF AxisTypeOK, TypesInv, RestInv, Irqs
  <1>4. QED
    BY <1>1, <1>2, <1>3, PTL DEF AxisSpec

--------------------------------------------------------------------------------
(* the room in the transmit FIFO                                               *)

\* The numbers up to m
LEMMA UpTo ==
  ASSUME NEW m \in Nat
  PROVE  IsFiniteSet(1 .. m) /\ Cardinality(1 .. m) = m
  <1>1. 1 \in Int /\ m \in Int
    OBVIOUS
  <1>2. /\ IsFiniteSet(1 .. m)
        /\ Cardinality(1 .. m) = IF 1 > m THEN 0 ELSE m - 1 + 1
    BY <1>1, FS_Interval, Zenon
  <1>3. QED
    BY <1>2

\* One more packet takes the room of its words.
LEMMA CellsOfAppend ==
  ASSUME NEW s \in Seq(Seq(Word)), NEW t \in Seq(Word)
  PROVE  /\ Cardinality(Cells(s)) \in Nat
         /\ Cardinality(Cells(Append(s, t))) = Cardinality(Cells(s)) + Len(t)
  <1> DEFINE n == Len(s)
             new == {n + 1} \X (1 .. Len(t))
  <1>1. /\ n \in Nat /\ DOMAIN s = 1 .. n /\ Len(t) \in Nat /\ DOMAIN t = 1 .. Len(t)
        /\ \A k \in 1 .. n : s[k] \in Seq(Word)
    OBVIOUS
  <1>2. IsFiniteSet(Cells(s))
    <2>1. IsFiniteSet({{k} \X DOMAIN s[k] : k \in 1 .. n})
      <3>1. [k \in 1 .. n |-> {k} \X DOMAIN s[k]]
              \in Surjection(1 .. n, {{k} \X DOMAIN s[k] : k \in 1 .. n})
        BY DEF Surjection
      <3>2. QED
        BY <1>1, <3>1, UpTo, FS_Surjection
    <2>2. ASSUME NEW k \in 1 .. n PROVE IsFiniteSet({k} \X DOMAIN s[k])
      <3>1. Len(s[k]) \in Nat /\ DOMAIN s[k] = 1 .. Len(s[k])
        BY <1>1
      <3>2. IsFiniteSet(DOMAIN s[k]) /\ IsFiniteSet({k})
        BY <3>1, UpTo, FS_Singleton, Zenon
      <3>3. QED
        BY <3>2, FS_Product
    <2>3. \A T \in {{k} \X DOMAIN s[k] : k \in 1 .. n} : IsFiniteSet(T)
      BY <2>2
    <2>4. QED
      BY <1>1, <2>1, <2>3, FS_UNION DEF Cells
  <1>3. IsFiniteSet(new) /\ Cardinality(new) = Len(t)
    <2>1. IsFiniteSet({n + 1}) /\ Cardinality({n + 1}) = 1
      BY FS_Singleton
    <2>2. IsFiniteSet(1 .. Len(t)) /\ Cardinality(1 .. Len(t)) = Len(t)
      BY <1>1, UpTo, Zenon
    <2>3. IsFiniteSet(new) /\ Cardinality(new) = Cardinality({n + 1}) * Cardinality(1 .. Len(t))
      BY <2>1, <2>2, FS_Product, Zenon
    <2>4. QED
      BY <1>1, <2>1, <2>2, <2>3
  <1>4. Cells(Append(s, t)) = Cells(s) \cup new
    <2>1. /\ DOMAIN Append(s, t) = 1 .. (n + 1) /\ Append(s, t)[n + 1] = t
          /\ \A k \in 1 .. n : Append(s, t)[k] = s[k]
      BY <1>1
    <2>2. 1 .. (n + 1) = (1 .. n) \cup {n + 1}
      BY <1>1
    <2>3. QED
      BY <1>1, <2>1, <2>2 DEF Cells
  <1>5. Cells(s) \cap new = {}
    BY <1>1 DEF Cells
  <1>6. Cardinality(Cells(s) \cap new) = 0
    BY <1>5, FS_EmptySet, Zenon
  <1>7. Cardinality(Cells(s)) \in Nat
    BY <1>2, FS_CardinalityType
  <1>8. Cardinality(Cells(s) \cup new) = Cardinality(Cells(s)) + Cardinality(new) - Cardinality(Cells(s) \cap new)
    BY <1>2, <1>3, FS_Union, Zenon
  <1>9. Cardinality(Cells(Append(s, t))) = Cardinality(Cells(s) \cup new)
    BY <1>4, Zenon
  <1> HIDE DEF new
  <1>10. QED
    BY <1>1, <1>3, <1>6, <1>7, <1>8, <1>9

\* The core d has no more to receive than c, no more room, and every interrupt of c.
NoMore(c, d) ==
  /\ d.txq \in Seq(Seq(Word))
  /\ Used(c) \in Nat /\ Used(d) \in Nat /\ Used(c) <= Used(d)
  /\ Len(c.rx) \in Nat /\ Len(d.rx) \in Nat /\ Len(d.rx) <= Len(c.rx)
  /\ c.isr \subseteq d.isr

\* So it is after a word has been taken, or written, or a packet completed.
LEMMA CoreGivesNoMore ==
  ASSUME NEW c, DOMAIN c = Fields, c.rx \in Seq(Word), c.tx \in Seq(Word),
         c.txq \in Seq(Seq(Word))
  PROVE  /\ NoMore(c, c) /\ NoMore(c, ResetRx(c))
         /\ NoMore(c, ReadRLR(c)) /\ NoMore(c, [ReadRLR(c) EXCEPT !.skewed = @ \cup {"rx"}])
         /\ NoMore(c, ReadRDFD(c)) /\ NoMore(c, [ReadRDFD(c) EXCEPT !.skewed = @ \cup {"rx"}])
         /\ \A w \in Word : /\ NoMore(c, WriteTDFD(c, w))
                            /\ NoMore(c, [WriteTDFD(c, w) EXCEPT !.skewed = @ \cup {"tx"}])
         /\ \A n \in Nat : /\ NoMore(c, WriteTLR(c, n))
                           /\ NoMore(c, [WriteTLR(c, n) EXCEPT !.skewed = @ \cup {"tx"}])
  <1> DEFINE Fine(d) == DOMAIN d = Fields /\ NoMore(c, d)
  <1>1. Cardinality(Cells(c.txq)) \in Nat /\ Len(c.tx) \in Nat /\ Len(c.rx) \in Nat
    <2>1. <<>> \in Seq(Word)
      OBVIOUS
    <2>2. QED
      BY <2>1, CellsOfAppend
  <1>2. ASSUME NEW d, DOMAIN d = Fields, d.txq = c.txq, d.isr = c.isr,
               d.tx \in Seq(Word) /\ Len(c.tx) <= Len(d.tx),
               d.rx \in Seq(Word) /\ Len(d.rx) <= Len(c.rx)
        PROVE  Fine(d)
    <2>1. Len(d.tx) \in Nat /\ Len(d.rx) \in Nat
      BY <1>2
    <2>2. Used(c) = Len(c.tx) + Cardinality(Cells(c.txq))
          /\ Used(d) = Len(d.tx) + Cardinality(Cells(c.txq))
      BY <1>2 DEF Used
    <2>3. QED
      BY <1>1, <1>2, <2>1, <2>2 DEF NoMore
  <1>a. /\ c.tx \in Seq(Word) /\ Len(c.tx) <= Len(c.tx)
        /\ c.rx \in Seq(Word) /\ Len(c.rx) <= Len(c.rx)
    BY <1>1
  <1>3. ASSUME NEW d, Fine(d)
        PROVE  /\ \A s : Fine([d EXCEPT !.skewed = s])
               /\ \A i, way : Fine(Fail(d, i, way))
    <2>1. ASSUME NEW e, DOMAIN e = Fields, e.tx = d.tx, e.txq = d.txq, e.rx = d.rx,
                 d.isr \subseteq e.isr
          PROVE  Fine(e)
      <3>1. Used(e) = Used(d)
        BY <2>1 DEF Used
      <3>2. QED
        BY <1>3, <2>1, <3>1 DEF NoMore
    <2>2. ASSUME NEW s PROVE Fine([d EXCEPT !.skewed = s])
      <3>1. PICK e : e = [d EXCEPT !.skewed = s]
        OBVIOUS
      <3>2. DOMAIN e = Fields /\ e.tx = d.tx /\ e.txq = d.txq /\ e.rx = d.rx /\ e.isr = d.isr
        BY <1>3, <3>1 DEF Fields
      <3>3. QED
        BY <2>1, <3>1, <3>2
    <2>3. ASSUME NEW i, NEW way PROVE Fine(Fail(d, i, way))
      <3>1. PICK e : e = Fail(d, i, way)
        OBVIOUS
      <3>2. DOMAIN e = Fields /\ e.tx = d.tx /\ e.txq = d.txq /\ e.rx = d.rx
            /\ d.isr \subseteq e.isr
        BY <1>3, <3>1 DEF Fields, Fail, Raise
      <3>3. QED
        BY <2>1, <3>1, <3>2
    <2>4. QED
      BY <2>2, <2>3
  <1> HIDE DEF Fine
  <1>4. Fine(c) /\ Fine(ResetRx(c))
    <2>1. PICK d : d = ResetRx(c)
      OBVIOUS
    <2>2. DOMAIN d = Fields /\ d.tx = c.tx /\ d.txq = c.txq /\ d.rx = <<>> /\ d.isr = c.isr
      BY <2>1 DEF ResetRx, Fields
    <2>3. <<>> \in Seq(Word) /\ Len(<<>>) <= Len(c.rx)
      BY <1>1
    <2>4. Fine(d)
      BY <1>2, <1>a, <2>2, <2>3, Zenon
    <2>5. QED
      BY <1>2, <1>a, <2>1, <2>4, Zenon
  <1>5. Fine(ReadRLR(c))
    <2>1. \A s, n : Fine([c EXCEPT !.lens = s, !.claimed = n])
      <3>1. ASSUME NEW s, NEW n PROVE Fine([c EXCEPT !.lens = s, !.claimed = n])
        <4>1. PICK d : d = [c EXCEPT !.lens = s, !.claimed = n]
          OBVIOUS
        <4>2. DOMAIN d = Fields /\ d.tx = c.tx /\ d.txq = c.txq /\ d.rx = c.rx /\ d.isr = c.isr
          BY <4>1 DEF Fields
        <4>3. QED
          BY <1>2, <1>a, <4>1, <4>2, Zenon
      <3>2. QED
        BY <3>1
    <2>2. QED
      BY <1>3, <1>4, <2>1 DEF ReadRLR
  <1>6. Fine(ReadRDFD(c))
    <2>1. CASE c.rx = <<>>
      BY <1>3, <1>4, <2>1 DEF ReadRDFD
    <2>2. CASE c.rx # <<>>
      <3>1. Tail(c.rx) \in Seq(Word) /\ Len(Tail(c.rx)) <= Len(c.rx)
        BY <2>2
      <3>2. \A n : Fine([c EXCEPT !.rx = Tail(@), !.claimed = n])
        <4>1. ASSUME NEW n PROVE Fine([c EXCEPT !.rx = Tail(@), !.claimed = n])
          <5>1. PICK d : d = [c EXCEPT !.rx = Tail(@), !.claimed = n]
            OBVIOUS
          <5>2. DOMAIN d = Fields /\ d.tx = c.tx /\ d.txq = c.txq /\ d.rx = Tail(c.rx)
                /\ d.isr = c.isr
            BY <5>1 DEF Fields
          <5>3. QED
            BY <1>2, <1>a, <3>1, <5>1, <5>2, Zenon
        <4>2. QED
          BY <4>1
      <3>3. Fine([c EXCEPT !.rx = Tail(@)])
        <4>1. PICK d : d = [c EXCEPT !.rx = Tail(@)]
          OBVIOUS
        <4>2. DOMAIN d = Fields /\ d.tx = c.tx /\ d.txq = c.txq /\ d.rx = Tail(c.rx)
              /\ d.isr = c.isr
          BY <4>1 DEF Fields
        <4>3. QED
          BY <1>2, <1>a, <3>1, <4>1, <4>2, Zenon
      <3>4. QED
        BY <1>3, <2>2, <3>2, <3>3 DEF ReadRDFD
    <2>3. QED
      BY <2>1, <2>2
  <1>7. ASSUME NEW w \in Word PROVE Fine(WriteTDFD(c, w))
    <2>1. Append(c.tx, w) \in Seq(Word) /\ Len(c.tx) <= Len(Append(c.tx, w))
      OBVIOUS
    <2>2. PICK d : d = [c EXCEPT !.tx = Append(@, w)]
      OBVIOUS
    <2>3. DOMAIN d = Fields /\ d.tx = Append(c.tx, w) /\ d.txq = c.txq /\ d.rx = c.rx
          /\ d.isr = c.isr
      BY <2>2 DEF Fields
    <2>4. Fine(d)
      BY <1>2, <1>a, <2>1, <2>3, Zenon
    <2>5. QED
      BY <1>3, <1>4, <2>2, <2>4 DEF WriteTDFD
  <1>8. ASSUME NEW n \in Nat PROVE Fine(WriteTLR(c, n))
    <2>1. ASSUME NEW s \in Seq(Word), NEW t \in Seq(Word), Len(s) + Len(t) = Len(c.tx)
          PROVE  Fine([c EXCEPT !.txq = Append(@, s), !.tx = t])
      <3>1. PICK d : d = [c EXCEPT !.txq = Append(@, s), !.tx = t]
        OBVIOUS
      <3>2. DOMAIN d = Fields /\ d.tx = t /\ d.txq = Append(c.txq, s) /\ d.rx = c.rx
            /\ d.isr = c.isr
        BY <3>1 DEF Fields
      <3>3. Cardinality(Cells(d.txq)) = Cardinality(Cells(c.txq)) + Len(s)
        BY <3>2, CellsOfAppend
      <3>4. Used(d) = Len(d.tx) + Cardinality(Cells(d.txq))
            /\ Used(c) = Len(c.tx) + Cardinality(Cells(c.txq))
        BY DEF Used
      <3>5. d.txq \in Seq(Seq(Word)) /\ Len(s) \in Nat /\ Len(t) \in Nat
        BY <3>2
      <3>6. Used(c) \in Nat /\ Used(d) \in Nat /\ Used(c) <= Used(d)
        BY <1>1, <2>1, <3>2, <3>3, <3>4, <3>5
      <3>7. Len(c.rx) \in Nat /\ Len(d.rx) \in Nat /\ Len(d.rx) <= Len(c.rx)
            /\ c.isr \subseteq d.isr
        BY <1>1, <3>2
      <3>8. NoMore(c, d)
        BY <3>5, <3>6, <3>7, Zenon DEF NoMore
      <3>9. QED
        BY <3>1, <3>2, <3>8, Zenon DEF Fine
    <2>2. CASE n = Len(c.tx)
      <3>1. <<>> \in Seq(Word) /\ Len(c.tx) + Len(<<>>) = Len(c.tx)
        BY <1>1
      <3>2. Fine([c EXCEPT !.txq = Append(@, c.tx), !.tx = <<>>])
        BY <2>1, <3>1, Zenon
      <3>3. QED
        BY <2>2, <3>2 DEF WriteTLR
    <2>3. CASE n # Len(c.tx)
      <3>1. PICK m : m = IF n < Len(c.tx) THEN n ELSE Len(c.tx)
        OBVIOUS
      <3>2. m \in 0 .. Len(c.tx)
        BY <1>1, <3>1
      <3>3. PICK s, t : s = SubSeq(c.tx, 1, m) /\ t = SubSeq(c.tx, m + 1, Len(c.tx))
        OBVIOUS
      <3>4. s \in Seq(Word) /\ t \in Seq(Word) /\ Len(s) + Len(t) = Len(c.tx)
        <4>1. PICK l \in Nat : l = Len(c.tx)
          BY <1>1
        <4>2. s \in Seq(Word) /\ Len(s) = m
          BY <3>2, <3>3, <4>1
        <4>3. t \in Seq(Word) /\ Len(t) = l - m
          BY <3>2, <3>3, <4>1
        <4>4. QED
          BY <3>2, <4>1, <4>2, <4>3
      <3>5. Fine([c EXCEPT !.txq = Append(@, s), !.tx = t])
        BY <2>1, <3>4
      <3>6. WriteTLR(c, n) = Fail([c EXCEPT !.txq = Append(@, s), !.tx = t], "TSE", "tx")
        BY <2>3, <3>1, <3>3 DEF WriteTLR
      <3>7. PICK d : d = [c EXCEPT !.txq = Append(@, s), !.tx = t]
        OBVIOUS
      <3>8. Fine(Fail(d, "TSE", "tx"))
        BY <1>3, <3>5, <3>7, Zenon
      <3>9. QED
        BY <3>6, <3>7, <3>8, Zenon
    <2>4. QED
      BY <2>2, <2>3
  <1>9. QED
    BY <1>3, <1>4, <1>5, <1>6, <1>7, <1>8 DEF Fine

--------------------------------------------------------------------------------
(* sleepers and wake-ups                                                       *)

\* Somebody is about to clear every interrupt status.
Cleaning == \E p \in Process : pc[p] \in {"reset_isr", "ioctl_isr"}
\* A sleeper beside what it waits for has its interrupt to come, and nobody is about to
\* clear it.
Woken(p) ==
  /\ pc[p] = "read_wait" /\ CanRead => Awaited("RC") /\ ~Cleaning
  /\ pc[p] = "write_wait" /\ CanWrite(p) => Awaited("TC") /\ ~Cleaning
  /\ pc[p] = "poll" /\ PollReady => (Awaited("RC") \/ Awaited("TC")) /\ ~Cleaning
WakeInv == core.txq \in Seq(Seq(Word)) /\ \A p \in asleep \ late : Woken(p)

\* What the core offers to a sleeper
Offered(at, x, c, t, rx, tx) ==
  \/ at = "read_wait" /\ Len(c.rx) > 0
  \/ at = "write_wait" /\ TxDepth - Used(c) >= WordsIn(Bytes[x])
  \/ at = "poll" /\ t.has_rx /\ Len(c.rx) > rx
  \/ at = "poll" /\ t.has_tx /\ TxDepth - Used(c) > tx
Ready(p) == Offered(pc[p], item[p], core, tree, rx_min, tx_max)
ReadyThen(p) == Offered(pc'[p], item'[p], core', tree', rx_min', tx_max')

\* A sleeper that is not ready is as good as woken.
LEMMA IdleIsWoken ==
  ASSUME NEW p
  PROVE  /\ ~Ready(p) => Woken(p)
         /\ ~ReadyThen(p) => Woken(p)'
  BY DEF Ready, ReadyThen, Offered, Woken, CanRead, CanWrite, PollReady, Vacancy, Occupancy, Used

\* A sleeper is in one of three waits.
LEMMA SleeperAt ==
  ASSUME TypesInv, NEW p \in asleep
  PROVE  p \in Process /\ pc[p] \in {"read_wait", "write_wait", "poll"}
  BY DEF TypesInv, WaitPCs

\* Ready sleepers know their interrupts.
LEMMA ReadyIsAwaited ==
  ASSUME NEW p, Woken(p), Ready(p)
  PROVE  /\ ~Cleaning
         /\ pc[p] = "read_wait" => Awaited("RC")
         /\ pc[p] = "write_wait" => Awaited("TC")
         /\ Awaited("RC") \/ Awaited("TC")
  BY DEF Ready, Offered, Woken, CanRead, CanWrite, PollReady, Vacancy, Occupancy, Used

\* And the other way round.
LEMMA AwaitedIsWoken ==
  ASSUME NEW p, ~Cleaning',
         pc'[p] = "read_wait" => "RC" \in core'.isr /\ irq' # "RC",
         pc'[p] = "write_wait" => "TC" \in core'.isr /\ irq' # "TC",
         pc'[p] = "poll" =>
           ("RC" \in core'.isr /\ irq' # "RC") \/ ("TC" \in core'.isr /\ irq' # "TC")
  PROVE  Woken(p)'
  BY DEF Woken, Awaited

\* Less on offer: whoever is ready then was ready before.
LEMMA NoMoreReady ==
  ASSUME ChannelInv, WriteInv, RestInv, NEW p \in asleep, NoMore(core, core'),
         pc'[p] = pc[p], item'[p] = item[p], UNCHANGED <<tree, thresholdVars>>, ReadyThen(p)
  PROVE  Ready(p)
  <1>1. p \in Process /\ pc[p] \in {"read_wait", "write_wait", "poll"}
    BY SleeperAt DEF ChannelInv, DriverInv
  <1>2. /\ Used(core) \in Nat /\ Used(core') \in Nat /\ Used(core) <= Used(core')
        /\ Len(core.rx) \in Nat /\ Len(core'.rx) \in Nat /\ Len(core'.rx) <= Len(core.rx)
    BY DEF NoMore
  <1>3. rx_min \in Nat /\ tx_max \in Nat /\ TxDepth \in Nat
    BY ConstantsAssumption DEF RestInv
  <1>4. UNCHANGED <<tree, rx_min, tx_max>>
    BY DEF thresholdVars
  <1>5. CASE pc[p] = "read_wait"
    BY <1>2, <1>4, <1>5 DEF Ready, ReadyThen, Offered
  <1>6. CASE pc[p] = "poll"
    BY <1>2, <1>3, <1>4, <1>6 DEF Ready, ReadyThen, Offered
  <1>7. CASE pc[p] = "write_wait"
    <2>1. item[p] \in Payload
      BY <1>1, <1>7 DEF WriteInv, WritePlans, WritePlan
    <2>2. WordsIn(Bytes[item[p]]) \in Int
      BY <2>1, PacketWords
    <2>3. QED
      BY <1>2, <1>3, <1>7, <2>2 DEF Ready, ReadyThen, Offered
  <1>8. QED
    BY <1>1, <1>5, <1>6, <1>7

\* A step of a process that offers nothing to the others and wakes nobody, or wakes
\* some, and after which the process itself is not asleep beside what it waits for.
LEMMA QuietStep ==
  ASSUME ChannelInv, WriteInv, RestInv, WakeInv, NEW p \in Process,
         NoMore(core, core'), UNCHANGED <<tree, irq, thresholdVars>>,
         UNCHANGED pc \/ \E to : to \notin {"reset_isr", "ioctl_isr"} /\ pc' = [pc EXCEPT ![p] = to],
         UNCHANGED item \/ \E x : item' = [item EXCEPT ![p] = x],
         asleep' \subseteq asleep \cup {p}, p \in asleep' => ~ReadyThen(p),
         late \cap asleep' \subseteq late'
  PROVE  WakeInv'
  <1>1. TypesInv /\ DOMAIN item = Process
    BY DEF ChannelInv, DriverInv, RxTypes
  <1>2. pc \in [Process -> PCs]
    BY <1>1 DEF TypesInv
  <1>3. Cleaning' => Cleaning
    BY <1>2 DEF Cleaning
  <1>4. ASSUME NEW q \in asleep' \ late'
        PROVE  Woken(q)'
    <2>1. CASE q = p \/ ~ReadyThen(q)
      BY <2>1, <1>4, IdleIsWoken
    <2>2. CASE q # p /\ ReadyThen(q)
      <3>1. q \in asleep \ late /\ q \in Process
        BY <1>1, <1>4, <2>2 DEF TypesInv
      <3>2. pc'[q] = pc[q] /\ item'[q] = item[q]
        BY <1>1, <1>2, <2>2, <3>1
      <3>3. Woken(q) /\ Ready(q)
        BY <2>2, <3>1, <3>2, NoMoreReady DEF WakeInv
      <3>4. /\ ~Cleaning
            /\ pc[q] = "read_wait" => Awaited("RC")
            /\ pc[q] = "write_wait" => Awaited("TC")
            /\ Awaited("RC") \/ Awaited("TC")
        BY <3>3, ReadyIsAwaited
      <3>5. core.isr \subseteq core'.isr /\ irq' = irq
        BY DEF NoMore
      <3>6. QED
        BY <1>3, <3>2, <3>4, <3>5, AwaitedIsWoken DEF Awaited
    <2>3. QED
      BY <2>1, <2>2
  <1>5. QED
    BY <1>4 DEF WakeInv, NoMore

\* A step that may make room, or move a threshold: it makes everybody but the readers late,
\* and gives the readers nothing.
LEMMA LateStep ==
  ASSUME TypesInv, WakeInv, NEW p \in Process, p \notin asleep, UNCHANGED <<irq, asleep>>,
         UNCHANGED pc \/ \E to : pc' = [pc EXCEPT ![p] = to],
         late \cup Sleepers("write_wait") \subseteq late',
         core'.txq \in Seq(Seq(Word)),
         \/ core'.rx = <<>>
         \/ core'.rx = core.rx /\ core'.isr = core.isr /\ (Cleaning' => Cleaning)
  PROVE  WakeInv'
  <1>1. pc \in [Process -> PCs]
    BY DEF TypesInv
  <1>2. ASSUME NEW q \in asleep' \ late'
        PROVE  Woken(q)'
    <2>1. q \in asleep \ late /\ q \in Process /\ pc'[q] = pc[q] /\ pc[q] = "read_wait"
      <3>1. q \in asleep \ late /\ q # p /\ q \in Process
        BY <1>2 DEF TypesInv
      <3>2. pc'[q] = pc[q]
        BY <1>1, <3>1
      <3>3. q \notin Sleepers("write_wait")
        BY <1>2
      <3>4. QED
        BY <3>1, <3>2, <3>3, SleeperAt DEF Sleepers
    <2>2. CASE core'.rx = <<>>
      <3>1. ~ReadyThen(q)
        BY <2>1, <2>2 DEF ReadyThen, Offered
      <3>2. QED
        BY <3>1, IdleIsWoken
    <2>3. CASE core'.rx = core.rx /\ core'.isr = core.isr /\ (Cleaning' => Cleaning)
      <3>1. CASE ~ReadyThen(q)
        BY <3>1, IdleIsWoken
      <3>2. CASE ReadyThen(q)
        <4>1. Ready(q)
          BY <2>1, <2>3, <3>2 DEF Ready, ReadyThen, Offered
        <4>2. Woken(q)
          BY <2>1 DEF WakeInv
        <4>3. ~Cleaning /\ Awaited("RC")
          BY <2>1, <4>1, <4>2, ReadyIsAwaited
        <4>4. QED
          BY <2>1, <2>3, <4>3, AwaitedIsWoken DEF Awaited
      <3>3. QED
        BY <3>1, <3>2
    <2>4. QED
      BY <2>2, <2>3
  <1>3. QED
    BY <1>2 DEF WakeInv

\* The steps between two places of the code are of the first kind.
LEMMA GotoStep ==
  ASSUME ChannelInv, WriteInv, RestInv, WakeInv, NEW p \in Process, NEW from, NEW to,
         Goto(p, from, to), to \notin {"reset_isr", "ioctl_isr"}, NoMore(core, core'),
         UNCHANGED <<tree, irq, thresholdVars, asleep, late>>,
         UNCHANGED item \/ \E x : item' = [item EXCEPT ![p] = x]
  PROVE  WakeInv'
  <1>1. p \notin asleep /\ pc' = [pc EXCEPT ![p] = to]
    BY DEF Goto
  <1>2. /\ asleep' \subseteq asleep \cup {p} /\ p \notin asleep'
        /\ late \cap asleep' \subseteq late'
    BY <1>1
  <1>3. QED
    BY <1>1, <1>2, QuietStep

\* What the core offers stays what it is.
LEMMA CoreTyped ==
  ASSUME ChannelInv, WriteInv, WakeInv
  PROVE  /\ DOMAIN core = Fields /\ core.rx \in Seq(Word) /\ core.tx \in Seq(Word)
         /\ core.txq \in Seq(Seq(Word))
         /\ NoMore(core, core)
  <1>1. /\ DOMAIN core = Fields /\ core.rx \in Seq(Word) /\ core.tx \in Seq(Word)
        /\ core.txq \in Seq(Seq(Word))
    BY DEF ChannelInv, RxTypes, WriteInv, WakeInv
  <1>2. QED
    BY <1>1, CoreGivesNoMore

\* The two resets of reset_ip_core: the first empties the core and makes everybody but the
\* readers late, the second clears the interrupts when nobody is ready.
LEMMA ResetCoreWoken ==
  ASSUME ChannelInv, WriteInv, WakeInv, NEW p \in Process, NEW from, NEW to,
         ResetCore(p, from, to)
  PROVE  WakeInv'
  <1>1. p \notin asleep /\ pc' = [pc EXCEPT ![p] = to] /\ UNCHANGED <<irq, asleep>>
    BY DEF ResetCore, Goto
  <1>2. core'.rx = <<>> /\ core'.txq = <<>>
    BY CoreTyped DEF ResetCore, CoreReset, ResetTx, ResetRx, Fields
  <1>3. core'.txq \in Seq(Seq(Word)) /\ late \cup Sleepers("write_wait") \subseteq late'
    BY <1>2 DEF ResetCore
  <1>4. TypesInv
    BY DEF ChannelInv, DriverInv
  <1>5. QED
    BY <1>1, <1>2, <1>3, <1>4, LateStep

LEMMA ResetIsrWoken ==
  ASSUME ChannelInv, WriteInv, RestInv, WakeInv, NEW p \in Process,
         NEW from \in {"reset_isr", "ioctl_isr"}, NEW to, ResetIsr(p, from, to)
  PROVE  WakeInv'
  <1>1. p \notin asleep /\ pc' = [pc EXCEPT ![p] = to] /\ pc[p] = from
        /\ UNCHANGED <<asleep, late, item, tree, thresholdVars>>
    BY DEF ResetIsr, Goto, lifeVars, transferVars, historyVars
  <1>2. Cleaning
    BY <1>1 DEF Cleaning
  <1>3. TypesInv /\ pc \in [Process -> PCs]
    BY DEF ChannelInv, DriverInv, TypesInv
  <1>4. core'.txq = core.txq /\ core'.rx = core.rx /\ core'.tx = core.tx
    BY CoreTyped DEF ResetIsr, Fields
  <1>5. ASSUME NEW q \in asleep' \ late'
        PROVE  Woken(q)'
    <2>1. q \in asleep \ late /\ q # p /\ q \in Process
      BY <1>1, <1>3 DEF TypesInv
    <2>2. pc'[q] = pc[q] /\ item'[q] = item[q]
      BY <1>1, <1>3, <2>1
    <2>3. ~Ready(q)
      BY <1>2, <2>1, ReadyIsAwaited DEF WakeInv
    <2>4. Used(core') = Used(core) /\ UNCHANGED <<tree, rx_min, tx_max>>
      BY <1>1, <1>4 DEF Used, thresholdVars
    <2>5. ~ReadyThen(q)
      BY <1>4, <2>2, <2>3, <2>4 DEF Ready, ReadyThen, Offered
    <2>6. QED
      BY <2>5, IdleIsWoken
  <1>6. QED
    BY <1>4, <1>5 DEF WakeInv

\* A wait: who finds what it waits for goes on and wakes the pollers, who does not falls
\* asleep, and who gives up is no sleeper.
LEMMA WaitsWoken ==
  ASSUME ChannelInv, WriteInv, RestInv, WakeInv, NEW p \in Process,
         ReadWait(p) \/ WriteWait(p) \/ Poll(p) \/ GiveUp(p)
  PROVE  WakeInv'
  <1>1. /\ UNCHANGED <<core, tree, irq, thresholdVars>>
        /\ NoMore(core, core')
    <2>1. UNCHANGED <<core, tree, irq, thresholdVars>>
      BY Zenon DEF ReadWait, WriteWait, Poll, GiveUp, lifeVars
    <2>2. QED
      BY <2>1, CoreTyped
  <1>2. CASE ReadWait(p)
    <2>1. UNCHANGED item /\ p \notin asleep /\ pc[p] = "read_wait"
      BY <1>2 DEF ReadWait, transferVars
    <2>2. /\ UNCHANGED pc \/ pc' = [pc EXCEPT ![p] = "read_len"]
          /\ asleep' \subseteq asleep \cup {p}
          /\ p \in asleep' => UNCHANGED pc /\ ~CanRead
          /\ late \cap asleep' \subseteq late'
      BY <1>2, <2>1 DEF ReadWait
    <2>3. p \in asleep' => ~ReadyThen(p)
      BY <1>1, <2>1, <2>2 DEF ReadyThen, Offered, CanRead, Occupancy
    <2>4. UNCHANGED pc \/ \E to : to \notin {"reset_isr", "ioctl_isr"} /\ pc' = [pc EXCEPT ![p] = to]
      BY <2>2
    <2>5. QED
      BY <1>1, <2>1, <2>2, <2>3, <2>4, QuietStep
  <1>3. CASE WriteWait(p)
    <2>1. UNCHANGED item /\ p \notin asleep /\ pc[p] = "write_wait"
      BY <1>3 DEF WriteWait, transferVars
    <2>2. /\ UNCHANGED pc \/ pc' = [pc EXCEPT ![p] = "write_copy"]
          /\ asleep' \subseteq asleep \cup {p}
          /\ p \in asleep' => UNCHANGED pc /\ ~CanWrite(p)
          /\ late \cap asleep' \subseteq late'
      BY <1>3, <2>1 DEF WriteWait
    <2>3. p \in asleep' => ~ReadyThen(p)
      BY <1>1, <2>1, <2>2 DEF ReadyThen, Offered, CanWrite, Vacancy
    <2>4. UNCHANGED pc \/ \E to : to \notin {"reset_isr", "ioctl_isr"} /\ pc' = [pc EXCEPT ![p] = to]
      BY <2>2
    <2>5. QED
      BY <1>1, <2>1, <2>2, <2>3, <2>4, QuietStep
  <1>4. CASE Poll(p)
    <2>1. UNCHANGED <<item, late>> /\ p \notin asleep /\ pc[p] = "poll"
      BY <1>4 DEF Poll, transferVars, historyVars
    <2>2. /\ UNCHANGED pc \/ pc' = [pc EXCEPT ![p] = "user"]
          /\ asleep' \subseteq asleep \cup {p}
          /\ p \in asleep' => UNCHANGED pc /\ ~PollReady
      BY <1>4, <2>1 DEF Poll
    <2>3. p \in asleep' => ~ReadyThen(p)
      BY <1>1, <2>1, <2>2 DEF ReadyThen, Offered, PollReady, Vacancy, Occupancy, thresholdVars
    <2>4. UNCHANGED pc \/ \E to : to \notin {"reset_isr", "ioctl_isr"} /\ pc' = [pc EXCEPT ![p] = to]
      BY <2>2
    <2>5. late \cap asleep' \subseteq late'
      BY <2>1
    <2>6. QED
      BY <1>1, <2>1, <2>2, <2>3, <2>4, <2>5, QuietStep
  <1>5. CASE GiveUp(p)
    <2>1. /\ asleep' \subseteq asleep \ {p} /\ late' = late \cap asleep'
          /\ UNCHANGED pc \/ pc' = [pc EXCEPT ![p] = "user"]
          /\ UNCHANGED item \/ item' = [item EXCEPT ![p] = NoPayload]
      BY <1>5, Zenon DEF GiveUp, Leave, transferVars
    <2>2. UNCHANGED pc \/ \E to : to \notin {"reset_isr", "ioctl_isr"} /\ pc' = [pc EXCEPT ![p] = to]
      BY <2>1
    <2>3. asleep' \subseteq asleep \cup {p} /\ p \notin asleep' /\ late \cap asleep' \subseteq late'
      BY <2>1
    <2>4. UNCHANGED item \/ \E x : item' = [item EXCEPT ![p] = x]
      BY <2>1
    <2>5. QED
      BY <1>1, <2>2, <2>3, <2>4, QuietStep
  <1>6. QED
    BY <1>2, <1>3, <1>4, <1>5

\* The steps of a process in a transfer, in poll or in a reset.
LEMMA TransfersWoken ==
  ASSUME ChannelInv, WriteInv, RestInv, WakeInv, NEW p \in Process, Transfers(p)
  PROVE  WakeInv'
  <1>1. /\ DOMAIN core = Fields /\ core.rx \in Seq(Word) /\ core.tx \in Seq(Word)
        /\ core.txq \in Seq(Seq(Word)) /\ NoMore(core, core)
    BY CoreTyped
  <1>2. CASE ReadCall(p) \/ PollCall(p) \/ ReadCopy(p) \/ ReadReturn(p) \/ WriteCopy(p)
             \/ \E x \in Payload : WriteCall(p, x)
    <2>1. /\ UNCHANGED <<core, tree, irq, thresholdVars, asleep, late>>
          /\ UNCHANGED item \/ \E x : item' = [item EXCEPT ![p] = x]
      BY <1>2, Zenon DEF ReadCall, PollCall, ReadCopy, ReadReturn, WriteCopy, WriteCall, Leave,
                         lifeVars, transferVars, historyVars
    <2>2. \E from : \E to : Goto(p, from, to) /\ to \notin {"reset_isr", "ioctl_isr"}
      <3>1. \E from : \E to \in {"read_len", "read_wait", "poll", "reset", "read_word", "read_return",
                                "user", "write_word", "write_copy", "write_wait"} : Goto(p, from, to)
        BY <1>2 DEF ReadCall, PollCall, ReadCopy, ReadReturn, WriteCopy, WriteCall
      <3>2. QED
        BY <3>1
    <2>3. NoMore(core, core')
      BY <1>1, <2>1
    <2>4. QED
      BY <2>1, <2>2, <2>3, GotoStep
  <1>3. CASE ReadLength(p)
    <2>1. UNCHANGED <<tree, irq, thresholdVars, asleep, late>> /\ core' = ReadRLR(core)
      BY <1>3, Zenon DEF ReadLength, lifeVars, historyVars
    <2>2. UNCHANGED item \/ \E x : item' = [item EXCEPT ![p] = x]
      BY <1>3, Zenon DEF ReadLength, transferVars
    <2>3. Goto(p, "read_len", "reset") \/ Goto(p, "read_len", "read_word")
      BY <1>3, Zenon DEF ReadLength
    <2>4. NoMore(core, core')
      BY <1>1, <2>1, CoreGivesNoMore
    <2>5. QED
      BY <2>1, <2>2, <2>3, <2>4, GotoStep
  <1>4. CASE ReadWord(p)
    <2>1. UNCHANGED <<tree, irq, thresholdVars, asleep, late, item>> /\ core' = ReadRDFD(core)
      BY <1>4, Zenon DEF ReadWord, lifeVars, historyVars
    <2>2. Goto(p, "read_word", "read_copy") \/ Goto(p, "read_word", "read_word")
      BY <1>4 DEF ReadWord
    <2>3. NoMore(core, core')
      BY <1>1, <2>1, CoreGivesNoMore
    <2>4. QED
      BY <2>1, <2>2, <2>3, GotoStep
  <1>5. CASE WriteWord(p)
    <2>1. PICK w : w = <<item[p], Len(words[p]) + 1>>
      OBVIOUS
    <2>2. UNCHANGED <<tree, irq, thresholdVars, asleep, late, item>> /\ core' = WriteTDFD(core, w)
      BY <1>5, <2>1, Zenon DEF WriteWord, lifeVars, historyVars
    <2>3. \/ Goto(p, "write_word", "write_word") \/ Goto(p, "write_word", "write_copy")
          \/ Goto(p, "write_word", "write_len")
      BY <1>5 DEF WriteWord
    <2>4. w \in Word
      <3>1. pc[p] \in WritePCs
        BY <2>3 DEF Goto, WritePCs
      <3>2. item[p] \in Payload /\ words[p] \in Seq(Word)
        BY <3>1 DEF WriteInv, WritePlans, WritePlan
      <3>3. Len(words[p]) + 1 \in Nat
        BY <3>2
      <3>4. QED
        BY <2>1, <3>2, <3>3 DEF Word
    <2>5. NoMore(core, core')
      BY <1>1, <2>2, <2>4, CoreGivesNoMore
    <2>6. QED
      BY <2>2, <2>3, <2>5, GotoStep
  <1>6. CASE WriteLength(p)
    <2>1. PICK n : n = WordsIn(Bytes[item[p]])
      OBVIOUS
    <2>2. /\ UNCHANGED <<tree, irq, thresholdVars, asleep, late>> /\ core' = WriteTLR(core, n)
          /\ item' = [item EXCEPT ![p] = NoPayload] /\ Goto(p, "write_len", "user")
      BY <1>6, <2>1, Zenon DEF WriteLength, Leave, lifeVars
    <2>3. n \in Nat
      <3>1. pc[p] \in WritePCs
        BY <2>2 DEF Goto, WritePCs
      <3>2. item[p] \in Payload
        BY <3>1 DEF WriteInv, WritePlans, WritePlan
      <3>3. QED
        BY <2>1, <3>2, PacketWords
    <2>4. NoMore(core, core')
      BY <1>1, <2>2, <2>3, CoreGivesNoMore
    <2>5. QED
      BY <2>2, <2>4, GotoStep
  <1>7. CASE ResetCore(p, "reset", "reset_isr")
    BY <1>7, ResetCoreWoken
  <1>8. CASE ResetIsr(p, "reset_isr", "user")
    BY <1>8, ResetIsrWoken
  <1>9. QED
    BY <1>2, <1>3, <1>4, <1>5, <1>6, <1>7, <1>8, WaitsWoken, Zenon DEF Transfers

\* A register touched by hand: it takes away what was there, or makes late whom it might
\* have woken.
LEMMA TouchWoken ==
  ASSUME ChannelInv, WriteInv, RestInv, WakeInv, NEW p \in Process, p \notin asleep,
         NEW r \in Register, Touch(r), UNCHANGED <<tree, irq, thresholdVars, asleep, item>>,
         UNCHANGED pc \/ pc' = [pc EXCEPT ![p] = "user"]
  PROVE  WakeInv'
  <1>1. /\ DOMAIN core = Fields /\ core.rx \in Seq(Word) /\ core.tx \in Seq(Word)
        /\ core.txq \in Seq(Seq(Word)) /\ NoMore(core, core)
    BY CoreTyped
  <1>2. /\ core' = RawAccess(core, r)
        /\ late' = late \cup (CASE r \in {"IER", "ISR"} -> asleep
                               [] r \in {"TDFR", "SRR"} -> Sleepers("write_wait")
                               [] OTHER -> {})
    BY Zenon DEF Touch
  <1>3. UNCHANGED pc \/ \E to : to \notin {"reset_isr", "ioctl_isr"} /\ pc' = [pc EXCEPT ![p] = to]
    OBVIOUS
  <1>4. TypesInv /\ pc \in [Process -> PCs]
    BY DEF ChannelInv, DriverInv, TypesInv
  <1>5. CASE r \in {"RDFD", "RLR", "TDFD", "TLR", "RDFR", "TDFV", "RDFO", "TDR", "RDR"}
    <2>1. late' = late
      BY <1>2, <1>5
    <2>2. <<NoPayload, 0>> \in Word /\ 1 \in Nat
      BY DEF Word
    <2>3. NoMore(core, core')
      <3>1. CASE r \in {"RDFD", "RLR", "RDFR"}
        BY <1>1, <1>2, <3>1, CoreGivesNoMore DEF RawAccess
      <3>2. CASE r = "TDFD"
        <4>1. core' = [WriteTDFD(core, <<NoPayload, 0>>) EXCEPT !.skewed = @ \cup {"tx"}]
          BY <1>2, <3>2 DEF RawAccess
        <4>2. NoMore(core, [WriteTDFD(core, <<NoPayload, 0>>) EXCEPT !.skewed = @ \cup {"tx"}])
          BY <1>1, <2>2, CoreGivesNoMore
        <4>3. QED
          BY <4>1, <4>2, Zenon
      <3>3. CASE r = "TLR"
        <4>1. core' = [WriteTLR(core, 1) EXCEPT !.skewed = @ \cup {"tx"}]
          BY <1>2, <3>3 DEF RawAccess
        <4>2. NoMore(core, [WriteTLR(core, 1) EXCEPT !.skewed = @ \cup {"tx"}])
          BY <1>1, <2>2, CoreGivesNoMore
        <4>3. QED
          BY <4>1, <4>2, Zenon
      <3>4. CASE r \in {"TDFV", "RDFO", "TDR", "RDR"}
        <4>1. core' = core
          BY <1>2, <3>4 DEF RawAccess
        <4>2. QED
          BY <1>1, <4>1
      <3>5. QED
        BY <1>5, <3>1, <3>2, <3>3, <3>4
    <2>4. asleep' \subseteq asleep \cup {p} /\ p \notin asleep' /\ late \cap asleep' \subseteq late'
      BY <2>1
    <2>5. UNCHANGED item \/ \E x : item' = [item EXCEPT ![p] = x]
      OBVIOUS
    <2>6. UNCHANGED <<tree, irq, thresholdVars>>
      OBVIOUS
    <2>7. QED
      BY <1>3, <2>3, <2>4, <2>5, <2>6, QuietStep
  <1>6. CASE r \in {"TDFR", "SRR"}
    <2>1. late \cup Sleepers("write_wait") \subseteq late'
      BY <1>2, <1>6
    <2>2. core' = ResetTx(core) \/ core' = ResetTx(ResetRx(core))
      BY <1>2, <1>6 DEF RawAccess
    <2>3. /\ core'.txq = <<>>
          /\ core'.rx = <<>> \/ (core'.rx = core.rx /\ core'.isr = core.isr)
      BY <1>1, <2>2 DEF ResetTx, ResetRx, Fields
    <2>4. core'.txq \in Seq(Seq(Word))
      BY <2>3
    <2>5. Cleaning' => Cleaning
      BY <1>3, <1>4 DEF Cleaning
    <2>6. UNCHANGED pc \/ \E to : pc' = [pc EXCEPT ![p] = to]
      OBVIOUS
    <2>7. QED
      BY <1>4, <2>1, <2>3, <2>4, <2>5, <2>6, LateStep
  <1>7. CASE r \in {"IER", "ISR"}
    <2>1. asleep' \ late' = {}
      BY <1>2, <1>7
    <2>2. core'.txq = core.txq
      BY <1>1, <1>2, <1>7 DEF RawAccess, Fields
    <2>3. QED
      BY <1>1, <2>1, <2>2 DEF WakeInv
  <1>8. QED
    BY <1>5, <1>6, <1>7, ConstantsAssumption

\* A new threshold, which makes the pollers late.
LEMMA ThresholdWoken ==
  ASSUME ChannelInv, WakeInv, NEW p \in Process, p \notin asleep,
         NEW rx, NEW tx, SetThreshold(rx, tx), UNCHANGED <<core, tree, irq, asleep, item>>,
         UNCHANGED pc \/ pc' = [pc EXCEPT ![p] = "user"]
  PROVE  WakeInv'
  <1>1. TypesInv /\ pc \in [Process -> PCs]
    BY DEF ChannelInv, DriverInv, TypesInv
  <1>2. Cleaning' => Cleaning
    BY <1>1 DEF Cleaning
  <1>3. ASSUME NEW q \in asleep' \ late'
        PROVE  Woken(q)'
    <2>1. q \in asleep \ late /\ q # p /\ q \in Process /\ pc[q] # "poll"
      BY <1>1, <1>3 DEF SetThreshold, TypesInv
    <2>2. pc'[q] = pc[q] /\ item'[q] = item[q]
      BY <1>1, <2>1
    <2>3. CASE ~ReadyThen(q)
      BY <2>3, IdleIsWoken
    <2>4. CASE ReadyThen(q)
      <3>1. Ready(q)
        BY <2>1, <2>2, <2>4 DEF Ready, ReadyThen, Offered
      <3>2. /\ ~Cleaning
            /\ pc[q] = "read_wait" => Awaited("RC")
            /\ pc[q] = "write_wait" => Awaited("TC")
        BY <2>1, <3>1, ReadyIsAwaited DEF WakeInv
      <3>3. QED
        BY <1>2, <2>1, <2>2, <3>2, AwaitedIsWoken DEF Awaited
    <2>5. QED
      BY <2>3, <2>4
  <1>4. QED
    BY <1>3 DEF WakeInv

\* The steps of ioctl and sysfs.
LEMMA ControlWoken ==
  ASSUME ChannelInv, WriteInv, RestInv, WakeInv, NEW p \in Process, Control(p)
  PROVE  WakeInv'
  <1>1. asleep \subseteq {q \in Process : pc[q] \in WaitPCs}
    BY DEF ChannelInv, DriverInv, TypesInv
  <1>2. CASE \E from : \E to \in {"reset", "ioctl", "user", "ioctl_reset"} :
               Goto(p, from, to) /\ UNCHANGED <<core, tree, irq, thresholdVars, asleep, late, item>>
    <2>1. NoMore(core, core')
      BY <1>2, CoreTyped
    <2>2. \E from : \E to : Goto(p, from, to) /\ to \notin {"reset_isr", "ioctl_isr"}
      BY <1>2
    <2>3. UNCHANGED <<tree, irq, thresholdVars, asleep, late>> /\ UNCHANGED item
      BY <1>2
    <2>4. QED
      BY <2>1, <2>2, <2>3, GotoStep
  <1>3. CASE SysfsReset(p) \/ IoctlLock(p) \/ IoctlFails(p)
    BY <1>2, <1>3 DEF SysfsReset, IoctlLock, IoctlFails, lifeVars, transferVars, historyVars
  <1>4. CASE IoctlReset(p)
    <2>1. CASE ResetCore(p, "ioctl_reset", "ioctl_isr")
      BY <2>1, ResetCoreWoken
    <2>2. CASE ResetIsr(p, "ioctl_isr", "user")
      BY <2>2, ResetIsrWoken
    <2>3. CASE Goto(p, "ioctl", "ioctl_reset")
               /\ UNCHANGED <<lifeVars, core, irq, flagVars, thresholdVars, lockVars, file,
                              transferVars, asleep, historyVars>>
      BY <1>2, <2>3 DEF lifeVars, transferVars, historyVars
    <2>4. QED
      BY <1>4, <2>1, <2>2, <2>3, Zenon DEF IoctlReset
  <1>5. ASSUME NEW r \in Register, SysfsAccess(p, r) \/ IoctlRegister(p, r)
        PROVE  WakeInv'
    <2>1. Touch(r) /\ UNCHANGED <<tree, irq, thresholdVars, asleep, item>>
      BY <1>5, Zenon DEF SysfsAccess, IoctlRegister, lifeVars, transferVars
    <2>2. p \notin asleep /\ (UNCHANGED pc \/ pc' = [pc EXCEPT ![p] = "user"])
      BY <1>1, <1>5 DEF SysfsAccess, IoctlRegister, Goto, WaitPCs
    <2>3. QED
      BY <2>1, <2>2, TouchWoken
  <1>6. ASSUME NEW rx \in Threshold, NEW tx \in Threshold,
               SysfsThreshold(p, rx, tx) \/ IoctlThreshold(p, rx, tx)
        PROVE  WakeInv'
    <2>1. SetThreshold(rx, tx) /\ UNCHANGED <<core, tree, irq, asleep, item>>
      BY <1>6, Zenon DEF SysfsThreshold, IoctlThreshold, lifeVars, transferVars
    <2>2. p \notin asleep /\ (UNCHANGED pc \/ pc' = [pc EXCEPT ![p] = "user"])
      BY <1>1, <1>6 DEF SysfsThreshold, IoctlThreshold, Goto, WaitPCs
    <2>3. QED
      BY <2>1, <2>2, ThresholdWoken
  <1>7. QED
    BY <1>3, <1>4, <1>5, <1>6, Zenon DEF Control

\* A packet that arrives raises its interrupt, unless the status is being cleared; then the
\* sleepers it concerns are late.
LEMMA ArriveWoken ==
  ASSUME ChannelInv, WriteInv, RestInv, WakeInv, NEW x \in Payload, Arrive(x)
  PROVE  WakeInv'
  <1>1. /\ DOMAIN core = Fields /\ core.rx \in Seq(Word) /\ core.txq \in Seq(Seq(Word))
    BY CoreTyped
  <1>2. /\ core' = Raise([core EXCEPT !.rx = @ \o WordsOf(x), !.lens = Append(@, x)], "RC")
        /\ late' = late \cup (IF Clearing("RC") THEN Sleepers("read_wait") ELSE {})
        /\ UNCHANGED <<tree, irq, rx_min, tx_max, pc, item, asleep>>
    BY Zenon DEF Arrive, lifeVars, thresholdVars, transferVars
  <1>3. core'.tx = core.tx /\ core'.txq = core.txq /\ core'.isr = core.isr \cup {"RC"}
    BY <1>1, <1>2 DEF Raise, Fields
  <1>4. Cleaning' <=> Cleaning
    BY <1>2, Zenon DEF Cleaning
  <1>5. ASSUME NEW q \in asleep' \ late'
        PROVE  Woken(q)'
    <2>1. q \in asleep \ late /\ q \in Process
          /\ pc[q] \in {"read_wait", "write_wait", "poll"} /\ pc'[q] = pc[q] /\ item'[q] = item[q]
      BY <1>2, <1>5, SleeperAt DEF ChannelInv, DriverInv
    <2>2. CASE pc[q] = "write_wait"
      <3>1. CASE ~ReadyThen(q)
        BY <3>1, IdleIsWoken
      <3>2. CASE ReadyThen(q)
        <4>1. Used(core') = Used(core)
          BY <1>3 DEF Used
        <4>2. Ready(q)
          BY <1>2, <2>1, <2>2, <3>2, <4>1 DEF Ready, ReadyThen, Offered
        <4>3. ~Cleaning /\ Awaited("TC")
          BY <2>1, <2>2, <4>2, ReadyIsAwaited DEF WakeInv
        <4>4. QED
          BY <1>2, <1>3, <1>4, <2>1, <2>2, <4>3, AwaitedIsWoken DEF Awaited
      <3>3. QED
        BY <3>1, <3>2
    <2>3. CASE pc[q] \in {"read_wait", "poll"}
      <3>1. ~Clearing("RC")
        BY <1>2, <1>5, <2>1, <2>3 DEF Sleepers
      <3>2. irq' # "RC" /\ ~Cleaning'
        BY <1>2, <1>4, <3>1 DEF Clearing, Cleaning
      <3>3. QED
        BY <1>3, <2>1, <2>3, <3>2, AwaitedIsWoken
    <2>4. QED
      BY <2>1, <2>2, <2>3
  <1>6. QED
    BY <1>1, <1>3, <1>5 DEF WakeInv

\* The same for a packet that has left.
LEMMA TransmitWoken ==
  ASSUME ChannelInv, WriteInv, RestInv, WakeInv, Transmit
  PROVE  WakeInv'
  <1>1. /\ DOMAIN core = Fields /\ core.txq \in Seq(Seq(Word)) /\ core.txq # <<>>
    BY CoreTyped DEF Transmit
  <1>2. /\ core' = Raise([core EXCEPT !.txq = Tail(@)], "TC")
        /\ late' = late \cup (IF Clearing("TC") THEN Sleepers("write_wait") ELSE {})
        /\ UNCHANGED <<tree, irq, rx_min, tx_max, pc, item, asleep>>
    BY Zenon DEF Transmit, lifeVars, thresholdVars, transferVars
  <1>3. core'.rx = core.rx /\ core'.txq = Tail(core.txq) /\ core'.isr = core.isr \cup {"TC"}
    BY <1>1, <1>2 DEF Raise, Fields
  <1>4. core'.txq \in Seq(Seq(Word))
    BY <1>1, <1>3
  <1>5. Cleaning' <=> Cleaning
    BY <1>2, Zenon DEF Cleaning
  <1>6. ASSUME NEW q \in asleep' \ late'
        PROVE  Woken(q)'
    <2>1. q \in asleep \ late /\ q \in Process
          /\ pc[q] \in {"read_wait", "write_wait", "poll"} /\ pc'[q] = pc[q] /\ item'[q] = item[q]
      BY <1>2, <1>6, SleeperAt DEF ChannelInv, DriverInv
    <2>2. CASE pc[q] = "read_wait"
      <3>1. CASE ~ReadyThen(q)
        BY <3>1, IdleIsWoken
      <3>2. CASE ReadyThen(q)
        <4>1. Ready(q)
          BY <1>3, <2>1, <2>2, <3>2 DEF Ready, ReadyThen, Offered
        <4>2. ~Cleaning /\ Awaited("RC")
          BY <2>1, <2>2, <4>1, ReadyIsAwaited DEF WakeInv
        <4>3. QED
          BY <1>2, <1>3, <1>5, <2>1, <2>2, <4>2, AwaitedIsWoken DEF Awaited
      <3>3. QED
        BY <3>1, <3>2
    <2>3. CASE pc[q] \in {"write_wait", "poll"}
      <3>1. ~Clearing("TC")
        BY <1>2, <1>6, <2>1, <2>3 DEF Sleepers
      <3>2. irq' # "TC" /\ ~Cleaning'
        BY <1>2, <1>5, <3>1 DEF Clearing, Cleaning
      <3>3. QED
        BY <1>3, <2>1, <2>3, <3>2, AwaitedIsWoken
    <2>4. QED
      BY <2>1, <2>2, <2>3
  <1>7. QED
    BY <1>4, <1>6 DEF WakeInv

\* What serving an interrupt does
LEMMA ServeEffect ==
  ASSUME IrqServe
  PROVE  /\ irq = "none"
         /\ asleep' = asleep \ (CASE irq' = "RC" -> Sleepers("read_wait")
                                  [] irq' = "TC" -> Sleepers("write_wait")
                                  [] OTHER -> {})
         /\ core' = CASE irq' = "RXERROR" -> ResetRx(core)
                      [] irq' = "TPOE" -> ResetTx(core)
                      [] OTHER -> core
         /\ late' = asleep' \cap (IF irq' = "TPOE" THEN late \cup Sleepers("write_wait") ELSE late)
         /\ UNCHANGED <<tree, rx_min, tx_max, pc, item>>
  <1>1. PICK i : i = IrqOrder[Min({k \in DOMAIN IrqOrder : IrqOrder[k] \in Pending})]
    OBVIOUS
  <1>2. irq' = i /\ irq = "none"
    BY <1>1, Zenon DEF IrqServe
  <1>3. /\ asleep' = asleep \ (CASE i = "RC" -> Sleepers("read_wait")
                                 [] i = "TC" -> Sleepers("write_wait")
                                 [] OTHER -> {})
        /\ core' = CASE i = "RXERROR" -> ResetRx(core)
                     [] i = "TPOE" -> ResetTx(core)
                     [] OTHER -> core
        /\ late' = asleep' \cap (IF i = "TPOE" THEN late \cup Sleepers("write_wait") ELSE late)
        /\ UNCHANGED <<tree, rx_min, tx_max, pc, item>>
    BY <1>1 DEF IrqServe, lifeVars, thresholdVars, transferVars
  <1>4. QED
    BY <1>2, <1>3

\* The handler wakes whom the interrupt is for before its status counts as served; the
\* resets of the errors give the readers nothing and make the writers late.
LEMMA ServeWoken ==
  ASSUME ChannelInv, WriteInv, RestInv, WakeInv, IrqServe
  PROVE  WakeInv'
  <1>1. /\ DOMAIN core = Fields /\ core.rx \in Seq(Word) /\ core.tx \in Seq(Word)
        /\ core.txq \in Seq(Seq(Word)) /\ NoMore(core, core) /\ NoMore(core, ResetRx(core))
    BY CoreTyped, CoreGivesNoMore
  <1>2. irq' \in {"RC", "TC", "RXERROR", "TPOE", "TSE"} /\ irq = "none"
    BY ServedIs, ServeEffect, InterruptsAre DEF RestInv
  <1>3. UNCHANGED <<tree, rx_min, tx_max, pc, item>> /\ UNCHANGED <<tree, thresholdVars>>
    BY ServeEffect DEF thresholdVars
  <1>4. Cleaning' <=> Cleaning
    BY <1>3, Zenon DEF Cleaning
  <1>5. asleep' \subseteq asleep /\ late \cap asleep' \subseteq late' /\ core'.txq \in Seq(Seq(Word))
    <2>1. core'.txq = core.txq \/ core'.txq = <<>>
      BY <1>1, <1>2, ServeEffect DEF ResetRx, ResetTx, Fields
    <2>a. <<>> \in Seq(Seq(Word))
      OBVIOUS
    <2>2. core'.txq \in Seq(Seq(Word))
      BY <1>1, <2>1, <2>a, Zenon
    <2>3. QED
      BY <2>2, ServeEffect
  <1>6. ASSUME NEW q \in asleep' \ late'
        PROVE  Woken(q)'
    <2>1. q \in asleep \ late /\ q \in Process
          /\ pc[q] \in {"read_wait", "write_wait", "poll"} /\ pc'[q] = pc[q] /\ item'[q] = item[q]
      BY <1>3, <1>5, <1>6, SleeperAt DEF ChannelInv, DriverInv
    <2>2. CASE irq' = "TPOE"
      <3>1. pc[q] = "read_wait"
        BY <1>6, <2>1, <2>2, ServeEffect DEF Sleepers
      <3>2. core'.rx = core.rx /\ core'.isr = core.isr
        BY <1>1, <2>2, ServeEffect DEF ResetTx, Fields
      <3>3. CASE ~ReadyThen(q)
        BY <3>3, IdleIsWoken
      <3>4. CASE ReadyThen(q)
        <4>1. Ready(q)
          BY <2>1, <3>1, <3>2, <3>4 DEF Ready, ReadyThen, Offered
        <4>2. ~Cleaning /\ Awaited("RC")
          BY <2>1, <3>1, <4>1, ReadyIsAwaited DEF WakeInv
        <4>3. QED
          BY <1>4, <2>1, <2>2, <3>1, <3>2, <4>2, AwaitedIsWoken DEF Awaited
      <3>5. QED
        BY <3>3, <3>4
    <2>3. CASE irq' # "TPOE"
      <3>1. NoMore(core, core')
        BY <1>1, <1>2, <2>3, ServeEffect
      <3>2. CASE ~ReadyThen(q)
        BY <3>2, IdleIsWoken
      <3>3. CASE ReadyThen(q)
        <4>1. Ready(q)
          BY <1>3, <2>1, <3>1, <3>3, NoMoreReady
        <4>2. /\ ~Cleaning
              /\ pc[q] = "read_wait" => Awaited("RC")
              /\ pc[q] = "write_wait" => Awaited("TC")
              /\ Awaited("RC") \/ Awaited("TC")
          BY <2>1, <4>1, ReadyIsAwaited DEF WakeInv
        <4>3. /\ irq' = "RC" => pc[q] = "write_wait"
              /\ irq' = "TC" => pc[q] = "read_wait"
          BY <1>6, <2>1, ServeEffect DEF Sleepers
        <4>4. core.isr \subseteq core'.isr
          BY <3>1 DEF NoMore
        <4>5. QED
          BY <1>2, <1>4, <2>1, <4>2, <4>3, <4>4, AwaitedIsWoken DEF Awaited
      <3>4. QED
        BY <3>2, <3>3
    <2>4. QED
      BY <2>2, <2>3
  <1>7. QED
    BY <1>5, <1>6 DEF WakeInv

\* Clearing the status that was served loses no other.
LEMMA ClearWoken ==
  ASSUME ChannelInv, WriteInv, RestInv, WakeInv, IrqClear
  PROVE  WakeInv'
  <1>1. /\ DOMAIN core = Fields /\ core.txq \in Seq(Seq(Word))
    BY CoreTyped
  <1>2. /\ core' = [core EXCEPT !.isr = @ \ {irq}] /\ irq' = "none" /\ irq # "none"
        /\ UNCHANGED <<tree, rx_min, tx_max, pc, item, asleep, late>>
    BY Zenon DEF IrqClear, lifeVars, thresholdVars, transferVars, historyVars
  <1>3. core'.rx = core.rx /\ core'.tx = core.tx /\ core'.txq = core.txq
        /\ core'.isr = core.isr \ {irq}
    BY <1>1, <1>2 DEF Fields
  <1>4. Cleaning' <=> Cleaning
    BY <1>2, Zenon DEF Cleaning
  <1>5. ASSUME NEW q \in asleep' \ late'
        PROVE  Woken(q)'
    <2>1. q \in asleep \ late /\ pc'[q] = pc[q] /\ item'[q] = item[q]
          /\ pc[q] \in {"read_wait", "write_wait", "poll"}
      BY <1>2, <1>5, SleeperAt DEF ChannelInv, DriverInv
    <2>2. CASE ~ReadyThen(q)
      BY <2>2, IdleIsWoken
    <2>3. CASE ReadyThen(q)
      <3>1. Used(core') = Used(core)
        BY <1>3 DEF Used
      <3>2. Ready(q)
        BY <1>2, <1>3, <2>1, <2>3, <3>1 DEF Ready, ReadyThen, Offered
      <3>3. /\ ~Cleaning
            /\ pc[q] = "read_wait" => Awaited("RC")
            /\ pc[q] = "write_wait" => Awaited("TC")
            /\ Awaited("RC") \/ Awaited("TC")
        BY <2>1, <3>2, ReadyIsAwaited DEF WakeInv
      <3>4. \A i \in {"RC", "TC"} : Awaited(i) => i \in core'.isr /\ irq' # i
        BY <1>2, <1>3 DEF Awaited
      <3>5. QED
        BY <1>4, <2>1, <3>3, <3>4, AwaitedIsWoken
    <2>4. QED
      BY <2>2, <2>3
  <1>6. QED
    BY <1>1, <1>3, <1>5 DEF WakeInv

\* A step that touches nothing of a wait.
LEMMA WakeSame ==
  ASSUME WakeInv, UNCHANGED <<core, tree, irq, rx_min, tx_max, pc, item, asleep, late>>
  PROVE  WakeInv'
  <1>1. Cleaning' <=> Cleaning
    BY Zenon DEF Cleaning
  <1>2. ASSUME NEW q \in asleep' \ late' PROVE Woken(q)'
    <2>1. Woken(q)
      BY <1>2 DEF WakeInv
    <2>2. CASE ~ReadyThen(q)
      BY <2>2, IdleIsWoken
    <2>3. CASE ReadyThen(q)
      <3>1. Ready(q)
        BY <2>3 DEF Ready, ReadyThen
      <3>2. /\ ~Cleaning
            /\ pc[q] = "read_wait" => Awaited("RC")
            /\ pc[q] = "write_wait" => Awaited("TC")
            /\ Awaited("RC") \/ Awaited("TC")
        BY <2>1, <3>1, ReadyIsAwaited
      <3>3. QED
        BY <1>1, <3>2, AwaitedIsWoken DEF Awaited
    <2>4. QED
      BY <2>2, <2>3
  <1>3. QED
    BY <1>2 DEF WakeInv

\* While probe or the release of its resources reaches the core nobody sleeps.
LEMMA LifeWoken ==
  ASSUME ChannelInv, WakeInv, Life
  PROVE  WakeInv'
  <1>1. /\ UNCHANGED <<tree, irq, rx_min, tx_max, pc, item, asleep, late>>
        /\ core' = core \/ (core' \in {[CoreReset(core) EXCEPT !.isr = {}], EmptyCore}
                            /\ \/ driver = "probing"
                               \/ driver = "unwinding" /\ held # <<>> /\ Last(held) = "irq")
    BY Zenon DEF Life, ProbeStart, ProbeStep, ProbeFails, axis_fifo_remove, Release, Gone,
                 thresholdVars, transferVars, historyVars
  <1>2. CASE core' = core
    <2>1. UNCHANGED <<core, tree, irq, rx_min, tx_max, pc, item, asleep, late>>
      BY <1>1, <1>2
    <2>2. QED
      BY <2>1, WakeSame
  <1>3. CASE core' # core
    <2>1. asleep = {}
      <3>1. ASSUME driver = "unwinding", held # <<>>, Last(held) = "irq"
            PROVE  Len(held) # 7
        <4>1. Len(held) = 7 => held[7] = "sysfs"
          BY DEF ChannelInv, DriverInv, HeldInv, ProbeOrder
        <4>2. Last(held) = held[Len(held)]
          BY DEF Last
        <4>3. QED
          BY <3>1, <4>1, <4>2
      <3>2. \A p \in Process : pc[p] = "user"
        BY <1>1, <1>3, <3>1 DEF ChannelInv, CallInv
      <3>3. QED
        BY <3>2 DEF ChannelInv, DriverInv, TypesInv, WaitPCs
    <2>2. core'.txq = <<>>
      <3>1. DOMAIN core = Fields /\ EmptyCore.txq = <<>>
        BY DEF ChannelInv, RxTypes, EmptyCore
      <3>2. PICK c : c = ResetRx(core)
        OBVIOUS
      <3>3. DOMAIN c = Fields
        BY <3>1, <3>2 DEF ResetRx
      <3>4. PICK d : d = ResetTx(c)
        OBVIOUS
      <3>5. DOMAIN d = Fields /\ d.txq = <<>>
        BY <3>3, <3>4 DEF ResetTx, Fields
      <3>6. CoreReset(core) = [d EXCEPT !.ier = Interrupts]
        BY <3>2, <3>4, Zenon DEF CoreReset
      <3>7. [[d EXCEPT !.ier = Interrupts] EXCEPT !.isr = {}].txq = <<>>
        BY <3>5 DEF Fields
      <3>8. QED
        BY <1>1, <1>3, <3>1, <3>6, <3>7, Zenon
    <2>3. core'.txq \in Seq(Seq(Word))
      BY <2>2
    <2>4. asleep' = {}
      BY <1>1, <2>1
    <2>5. QED
      BY <2>3, <2>4 DEF WakeInv
  <1>4. QED
    BY <1>2, <1>3

\* Every step keeps it.
LEMMA NextWake ==
  ASSUME ChannelInv, WriteInv, RestInv, WakeInv, [AxisNext]_axisVars
  PROVE  WakeInv'
  <1>1. CASE Life
    BY <1>1, LifeWoken
  <1>2. CASE Device
    BY <1>2, ArriveWoken, TransmitWoken, ServeWoken, ClearWoken, Zenon DEF Device
  <1>3. ASSUME NEW p \in Process, Files(p) PROVE WakeInv'
    <2>1. UNCHANGED <<core, tree, irq, rx_min, tx_max, pc, item, asleep, late>>
      BY <1>3, Zenon DEF Files, Open, OpenFails, Close, lifeVars, thresholdVars, transferVars,
                         historyVars
    <2>2. QED
      BY <2>1, WakeSame
  <1>4. ASSUME NEW p \in Process, Transfers(p) PROVE WakeInv'
    BY <1>4, TransfersWoken
  <1>5. ASSUME NEW p \in Admin, Control(p) PROVE WakeInv'
    <2>1. p \in Process
      BY ConstantsAssumption
    <2>2. QED
      BY <1>5, <2>1, ControlWoken
  <1>6. CASE UNCHANGED axisVars
    <2>1. UNCHANGED <<core, tree, irq, rx_min, tx_max, pc, item, asleep, late>>
      BY <1>6, Zenon DEF axisVars, lifeVars, thresholdVars, transferVars, historyVars
    <2>2. QED
      BY <2>1, WakeSame
  <1>7. QED
    BY <1>1, <1>2, <1>3, <1>4, <1>5, <1>6 DEF AxisNext

\* A reader sleeps beside a packet, a writer beside room and a poller beside either only
\* while the interrupt that wakes it is still to be served (axis_fifo_irq), or after one
\* of the wake-ups that the driver misses, whatever the processes and the sizes.
THEOREM WakeUpsArrive == AxisSpec => []NoLostWakeUp
  <1>1. AxisInit => ChannelInv /\ WriteInv /\ RestInv /\ WakeInv
    <2> SUFFICES ASSUME AxisInit PROVE WakeInv
      BY InitChannel, InitWrite, InitRest
    <2>1. asleep = {} /\ core.txq = <<>>
      BY DEF AxisInit, EmptyCore
    <2>2. QED
      BY <2>1 DEF WakeInv
  <1>2. ChannelInv /\ WriteInv /\ RestInv /\ WakeInv /\ [AxisNext]_axisVars
          => ChannelInv' /\ WriteInv' /\ RestInv' /\ WakeInv'
    BY NextChannel, NextWrite, NextRest, NextWake
  <1>3. WakeInv => NoLostWakeUp
    BY DEF WakeInv, Woken, NoLostWakeUp
  <1>4. QED
    BY <1>1, <1>2, <1>3, PTL DEF AxisSpec
================================================================================
