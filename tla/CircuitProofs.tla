----------------------------- MODULE CircuitProofs -----------------------------
(***************************************************************************)
(* The three circuits do what is promised of them whatever their           *)
(* parameters: the SPI master transfers its words, the I2S slave plays     *)
(* those it takes in time, the stream interfaces of the AES core put out   *)
(* every word they accept, in order and under its key.  Each part has an   *)
(* inductive invariant and the action property that follows from it.       *)
(***************************************************************************)
EXTENDS SpiMaster, I2sSlave, AesStream, SequenceTheorems, TLAPS

(***************************************************************************)
(* The SPI master: the position in the shift register is tied to the       *)
(* counter and to what the slave has seen.                                 *)
(***************************************************************************)

Word == 0 .. 2
Registers ==
  [state : {"S0", "S1", "S2"}, tx : [word : Word, bit : 1 .. WIDTH + 1],
   rx : Seq(1 .. WIDTH), ready : BOOLEAN, last : BOOLEAN, last_buff : BOOLEAN,
   rx_full : [1 .. 2 -> BOOLEAN], counter : 0 .. WIDTH, clk_counter : Nat,
   mosi : [word : Word, bit : 0 .. WIDTH + 1], TVALID : BOOLEAN,
   TDATA : Seq(1 .. WIDTH)]

SpiTypes ==
  /\ spi \in Registers
  /\ slave \in 0 .. WIDTH
  /\ next \in Word
  /\ expect \in [word : Word, bit : 1 .. WIDTH]
  /\ ended \in BOOLEAN
  /\ torn \in BOOLEAN

\* The last bit of a word is on the wire.
WordOver == spi.state = "S2" /\ spi.counter = WIDTH

\* Where the master is, the slave is; a word is let in when the last one is over.
FrameInv ==
  /\ spi.state # "S0" => spi.counter >= 1
  /\ spi.ready => spi.state = "S0" \/ WordOver
  /\ spi.state = "S0" => slave = 0
  /\ spi.state = "S1" => \/ slave = spi.counter - 1
                         \/ slave = WIDTH /\ spi.counter = 1
  /\ spi.state = "S2" => slave = spi.counter
  /\ spi.state = "S1" => spi.mosi = spi.tx

\* The bits received of the word under way are the last ones of rx, and a full
\* buffer is whole.
Received(k) ==
  /\ Len(spi.rx) >= k
  /\ \A i \in 1 .. k : spi.rx[Len(spi.rx) - k + i] = i
Whole == [i \in 1 .. WIDTH |-> i]
ReceiveInv ==
  /\ Len(spi.rx) <= WIDTH
  /\ spi.state = "S1" => Received(spi.counter - 1)
  /\ spi.state = "S2" => Received(spi.counter)
  /\ spi.rx_full[1] /\ ~torn => spi.TDATA = Whole /\ spi.state # "S2"

\* TLAST of the word on the wire is known when its last bit is over, also after a
\* reset has shifted the word on.
LastInv ==
  /\ spi.state # "S0" /\ ~WordOver => spi.last_buff = spi.last
  /\ spi.state = "S1" /\ slave # 0 /\ spi.counter = 1 => ~ended
  /\ ~spi.ready /\ spi.tx.bit > WIDTH => ended = spi.last
  /\ spi.state = "S1" => spi.tx.bit >= spi.counter
  /\ spi.state = "S2" /\ ~WordOver => spi.tx.bit >= spi.counter + 1
  /\ WordOver => ended = spi.last_buff
  /\ WordOver /\ ~spi.ready => spi.tx.bit = 1

\* The next bit to be sampled is the first of the shift register.
Position ==
  IF spi.state = "S1" THEN spi.counter
  ELSE IF spi.state = "S2" /\ ~WordOver THEN spi.counter + 1 ELSE 1
OrderInv ==
  ~torn =>
    /\ spi.ready => expect = [word |-> next, bit |-> 1]
    /\ ~spi.ready => /\ spi.tx = expect
                     /\ Following(spi.tx.word) = next
                     /\ spi.tx.bit = Position

SpiInv == SpiTypes /\ FrameInv /\ ReceiveInv /\ LastInv /\ OrderInv

--------------------------------------------------------------------------------
(* the registers after an edge                                                 *)

LEMMA WidthKnown == WIDTH \in Nat /\ WIDTH > 1
  BY SpiAssumption

LEMMA FollowingWord ==
  /\ \A n \in Word : Following(n) \in Word
  BY DEF Word, Following, Numbers

LEMMA Flags ==
  ASSUME NEW a \in BOOLEAN, NEW b \in BOOLEAN
  PROVE  <<a, b>> \in [1 .. 2 -> BOOLEAN]
  <1> DEFINE s == <<a, b>>
  <1>1. s \in Seq(BOOLEAN) /\ Len(s) = 2
    OBVIOUS
  <1>2. s = [i \in 1 .. 2 |-> s[i]]
    BY <1>1
  <1> HIDE DEF s
  <1>3. \A i \in 1 .. 2 : s[i] \in BOOLEAN
    BY <1>1, ElementOfSeq
  <1>4. s \in [1 .. 2 -> BOOLEAN]
    BY <1>2, <1>3
  <1>5. QED
    BY <1>4 DEF s

\* What each part of an edge makes of the registers r, as typed fields.
AfterTake(r, n, taken, last) ==
  /\ n \in Registers
  /\ n.state = r.state /\ n.rx = r.rx /\ n.last_buff = r.last_buff
  /\ n.counter = r.counter /\ n.mosi = r.mosi /\ n.TDATA = r.TDATA
  /\ n.tx = IF taken THEN [word |-> next, bit |-> 1] ELSE r.tx
  /\ n.last = IF taken THEN last ELSE r.last
  /\ n.ready = (r.ready /\ ~taken)
  /\ n.rx_full[1] = FALSE
  /\ n.TVALID = (r.rx_full[1] /\ ~r.rx_full[2])

\* TakeWord changes the input side and the flags of the output side.
LEMMA TakeWordIs ==
  ASSUME NEW r \in Registers, NEW valid \in BOOLEAN, NEW last \in BOOLEAN, next \in Word,
         NEW n, n = TakeWord(r, valid, last),
         NEW taken \in BOOLEAN, taken = (valid /\ r.ready)
  PROVE  AfterTake(r, n, taken, last)
  <1>1. [word |-> next, bit |-> 1] \in [word : Word, bit : 1 .. WIDTH + 1]
    BY SpiAssumption
  <1>2. r.rx_full \in [1 .. 2 -> BOOLEAN] /\ r.ready \in BOOLEAN
    BY DEF Registers
  <1>3. r.rx_full[1] \in BOOLEAN /\ r.rx_full[2] \in BOOLEAN
    BY <1>2
  <1>4. <<FALSE, r.rx_full[1]>> \in [1 .. 2 -> BOOLEAN]
    BY <1>3, Flags
  <1>5. (r.clk_counter + 1) % Period \in Nat
    BY SpiAssumption DEF Registers, Period
  <1> DEFINE tx == IF taken THEN [word |-> next, bit |-> 1] ELSE r.tx
             full == <<FALSE, r.rx_full[1]>>
             clk == (r.clk_counter + 1) % Period
             ready == r.ready /\ ~taken
             tlast == IF taken THEN last ELSE r.last
             tvalid == r.rx_full[1] /\ ~r.rx_full[2]
  <1>6. n = [r EXCEPT !.tx = tx, !.last = tlast, !.ready = ready,
              !.rx_full = full, !.TVALID = tvalid, !.clk_counter = clk]
    BY DEF TakeWord, Registers
  <1>7. /\ tx \in [word : Word, bit : 1 .. WIDTH + 1] /\ full \in [1 .. 2 -> BOOLEAN]
        /\ clk \in Nat
    BY <1>1, <1>4, <1>5 DEF Registers
  <1>8. ready \in BOOLEAN /\ tvalid \in BOOLEAN
    BY <1>2, <1>3
  <1>9. tlast \in BOOLEAN
    BY DEF Registers
  <1>10. full[1] = FALSE
    OBVIOUS
  <1> HIDE DEF tx, full, clk, ready, tvalid, tlast
  <1>11. n \in Registers
    BY <1>6, <1>7, <1>8, <1>9 DEF Registers
  <1>12. /\ n.tx = tx /\ n.last = tlast /\ n.ready = ready /\ n.rx_full = full
         /\ n.TVALID = tvalid
    BY <1>6 DEF Registers
  <1>13. /\ n.state = r.state /\ n.rx = r.rx /\ n.last_buff = r.last_buff
         /\ n.counter = r.counter /\ n.mosi = r.mosi /\ n.TDATA = r.TDATA
    BY <1>6 DEF Registers
  <1>14. QED
    BY <1>10, <1>11, <1>12, <1>13 DEF tx, ready, tvalid, tlast, AfterTake

AfterBegin(r, n, m) ==
  /\ m \in Registers
  /\ m.state = "S1" /\ m.mosi = r.tx /\ m.last_buff = r.last /\ m.counter = 1
  /\ m.tx = n.tx /\ m.rx = n.rx /\ m.ready = n.ready /\ m.last = n.last
  /\ m.rx_full = n.rx_full /\ m.TVALID = n.TVALID /\ m.TDATA = n.TDATA

LEMMA BeginWordIs ==
  ASSUME NEW r \in Registers, NEW n \in Registers, NEW m, m = BeginWord(r, n)
  PROVE  AfterBegin(r, n, m)
  <1>1. r.tx \in [word : Word, bit : 0 .. WIDTH + 1]
    BY SpiAssumption DEF Registers
  <1>2. 1 \in 0 .. WIDTH /\ r.last \in BOOLEAN
    BY SpiAssumption DEF Registers
  <1>3. QED
    BY <1>1, <1>2 DEF Registers, BeginWord, AfterBegin

\* The receive buffer, a bit appended
Grown(r, miso) == (IF Len(r.rx) = WIDTH THEN Tail(r.rx) ELSE r.rx) \o <<miso>>

AfterLow(r, n, m, miso) ==
  /\ m \in Registers
  /\ m.state = "S2"
  /\ m.tx = IF r.counter # WIDTH THEN Shifted(r.tx) ELSE r.tx
  /\ m.ready = (r.ready \/ r.counter = WIDTH)
  /\ m.rx = Grown(r, miso)
  /\ m.mosi = n.mosi /\ m.last = n.last /\ m.last_buff = n.last_buff
  /\ m.counter = n.counter /\ m.rx_full = n.rx_full /\ m.TVALID = n.TVALID
  /\ m.TDATA = n.TDATA

LEMMA LowHalfIs ==
  ASSUME NEW r \in Registers, NEW n \in Registers, n.ready = r.ready, n.tx = r.tx,
         n.rx = r.rx, NEW miso \in 1 .. WIDTH, NEW m, m = LowHalf(r, n, miso)
  PROVE  AfterLow(r, n, m, miso)
  <1> DEFINE tx == IF r.counter # WIDTH THEN Shifted(r.tx) ELSE n.tx
             ready == IF r.counter # WIDTH THEN n.ready ELSE TRUE
             rx == (IF Len(n.rx) = WIDTH THEN Tail(n.rx) ELSE n.rx) \o <<miso>>
  <1>1. tx \in [word : Word, bit : 1 .. WIDTH + 1]
    <2>1. r.tx \in [word : Word, bit : 1 .. WIDTH + 1]
      BY DEF Registers
    <2>2. Shifted(r.tx) \in [word : Word, bit : 1 .. WIDTH + 1]
      BY <2>1, SpiAssumption DEF Shifted
    <2>3. QED
      BY <2>1, <2>2
  <1>2. ready \in BOOLEAN /\ ready = (r.ready \/ r.counter = WIDTH)
    BY DEF Registers
  <1>3. rx \in Seq(1 .. WIDTH)
    <2>1. n.rx \in Seq(1 .. WIDTH) /\ WIDTH > 0 /\ WIDTH \in Nat
      BY SpiAssumption DEF Registers
    <2>2. CASE Len(n.rx) = WIDTH
      <3>1. n.rx # <<>>
        BY <2>1, <2>2
      <3>2. Tail(n.rx) \in Seq(1 .. WIDTH)
        BY <2>1, <3>1, HeadTailProperties
      <3>3. QED
        BY <2>2, <3>2
    <2>3. CASE Len(n.rx) # WIDTH
      BY <2>1, <2>3
    <2>4. QED
      BY <2>2, <2>3
  <1>4. rx = Grown(r, miso) /\ tx = IF r.counter # WIDTH THEN Shifted(r.tx) ELSE r.tx
    BY DEF Grown
  <1>5. m = [n EXCEPT !.tx = tx, !.ready = ready, !.rx = rx, !.state = "S2"]
    BY DEF LowHalf, Registers
  <1> HIDE DEF tx, ready, rx
  <1>6. m \in Registers
    BY <1>1, <1>2, <1>3, <1>5 DEF Registers
  <1>7. /\ m.state = "S2" /\ m.tx = tx /\ m.ready = ready /\ m.rx = rx
        /\ m.mosi = n.mosi /\ m.last = n.last /\ m.last_buff = n.last_buff
        /\ m.counter = n.counter /\ m.rx_full = n.rx_full /\ m.TVALID = n.TVALID
        /\ m.TDATA = n.TDATA
    BY <1>5 DEF Registers
  <1>8. QED
    BY <1>2, <1>4, <1>6, <1>7 DEF AfterLow

AfterNext(r, n, m) ==
  /\ m \in Registers
  /\ m.state = "S1" /\ m.mosi = r.tx /\ m.counter = r.counter + 1
  /\ m.tx = n.tx /\ m.rx = n.rx /\ m.ready = n.ready /\ m.last = n.last
  /\ m.last_buff = n.last_buff /\ m.rx_full = n.rx_full /\ m.TVALID = n.TVALID
  /\ m.TDATA = n.TDATA

LEMMA NextBitIs ==
  ASSUME NEW r \in Registers, NEW n \in Registers, n.counter = r.counter,
         r.counter # WIDTH, NEW m, m = HighHalf(r, n)
  PROVE  AfterNext(r, n, m)
  <1>1. r.tx \in [word : Word, bit : 0 .. WIDTH + 1]
    BY SpiAssumption DEF Registers
  <1>2. r.counter + 1 \in 0 .. WIDTH
    BY SpiAssumption DEF Registers
  <1>3. m = [n EXCEPT !.mosi = r.tx, !.counter = n.counter + 1, !.state = "S1"]
    BY DEF HighHalf, Registers
  <1> DEFINE k == r.counter + 1
  <1> HIDE DEF k
  <1>4. m = [n EXCEPT !.mosi = r.tx, !.counter = k, !.state = "S1"]
    BY <1>3 DEF k
  <1>5. m \in Registers
    BY <1>1, <1>2, <1>4 DEF Registers, k
  <1>6. QED
    BY <1>4, <1>5 DEF Registers, k, AfterNext

AfterEnd(r, n, m) ==
  /\ m \in Registers
  /\ m.mosi = r.tx /\ m.TDATA = r.rx /\ m.rx_full[1] = TRUE
  /\ m.tx = n.tx /\ m.rx = n.rx /\ m.ready = n.ready /\ m.last = n.last
  /\ m.TVALID = n.TVALID
  /\ IF ~r.ready /\ ~r.last_buff
     THEN m.state = "S1" /\ m.last_buff = r.last /\ m.counter = 1
     ELSE m.state = "S0" /\ m.last_buff = n.last_buff /\ m.counter = n.counter

LEMMA WordEndIs ==
  ASSUME NEW r \in Registers, NEW n \in Registers, r.counter = WIDTH,
         NEW m, m = HighHalf(r, n)
  PROVE  AfterEnd(r, n, m)
  <1> DEFINE full == [n EXCEPT !.mosi = r.tx, !.TDATA = r.rx, !.rx_full[1] = TRUE]
  <1>1. n.rx_full \in [1 .. 2 -> BOOLEAN]
    BY DEF Registers
  <1> DEFINE f == [n.rx_full EXCEPT ![1] = TRUE]
  <1>3. f \in [1 .. 2 -> BOOLEAN] /\ f[1] = TRUE
    BY <1>1
  <1>4. full = [n EXCEPT !.mosi = r.tx, !.TDATA = r.rx, !.rx_full = f]
    OBVIOUS
  <1>5. r.tx \in [word : Word, bit : 0 .. WIDTH + 1] /\ r.rx \in Seq(1 .. WIDTH)
    BY SpiAssumption DEF Registers
  <1> HIDE DEF f, full
  <1>6. full \in Registers
    BY <1>3, <1>4, <1>5 DEF Registers
  <1>7. /\ full.mosi = r.tx /\ full.TDATA = r.rx /\ full.rx_full[1] = TRUE
        /\ full.tx = n.tx /\ full.rx = n.rx /\ full.ready = n.ready /\ full.last = n.last
        /\ full.TVALID = n.TVALID /\ full.last_buff = n.last_buff /\ full.counter = n.counter
    BY <1>3, <1>4 DEF Registers
  <1>8. m = IF ~r.ready /\ ~r.last_buff THEN BeginWord(r, full) ELSE [full EXCEPT !.state = "S0"]
    BY DEF HighHalf, full
  <1>9. CASE ~r.ready /\ ~r.last_buff
    <2>1. AfterBegin(r, full, m)
      BY <1>6, <1>8, <1>9, BeginWordIs
    <2>2. QED
      BY <1>7, <1>9, <2>1 DEF AfterBegin, AfterEnd
  <1>10. CASE ~(~r.ready /\ ~r.last_buff)
    <2>1. m = [full EXCEPT !.state = "S0"]
      BY <1>8, <1>10
    <2>2. m \in Registers
      BY <2>1, <1>6 DEF Registers
    <2>3. /\ m.state = "S0" /\ m.mosi = full.mosi /\ m.TDATA = full.TDATA
          /\ m.rx_full = full.rx_full /\ m.tx = full.tx /\ m.rx = full.rx
          /\ m.ready = full.ready /\ m.last = full.last /\ m.TVALID = full.TVALID
          /\ m.last_buff = full.last_buff /\ m.counter = full.counter
      BY <2>1, <1>6 DEF Registers
    <2>4. QED
      BY <1>7, <1>10, <2>2, <2>3 DEF AfterEnd
  <1>11. QED
    BY <1>9, <1>10

--------------------------------------------------------------------------------
(* the invariant                                                               *)

LEMMA InitSpiInv == SpiInit => SpiInv
  <1> SUFFICES ASSUME SpiInit PROVE SpiInv
    OBVIOUS
  <1> USE SpiAssumption DEF SpiInit
  <1>1. <<FALSE, FALSE>> \in [1 .. 2 -> BOOLEAN]
    <2>1. FALSE \in BOOLEAN
      OBVIOUS
    <2>2. QED
      BY <2>1, Flags, Zenon
  <1>2. spi \in Registers
    BY <1>1 DEF Registers, Word, Low
  <1>3. SpiTypes
    <2>1. ended \in BOOLEAN /\ torn \in BOOLEAN
      OBVIOUS
    <2>2. slave \in 0 .. WIDTH /\ next \in Word /\ expect \in [word : Word, bit : 1 .. WIDTH]
      BY DEF Word
    <2>3. QED
      BY <1>2, <2>1, <2>2, Zenon DEF SpiTypes
  <1>4. FrameInv /\ LastInv /\ OrderInv
    BY DEF FrameInv, LastInv, OrderInv, WordOver
  <1>5. ReceiveInv
    BY DEF ReceiveInv
  <1>6. QED
    BY <1>3, <1>4, <1>5 DEF SpiInv

\* A reset gives up the word on the wire and nothing else.
LEMMA ResetSpiInv == SpiInv /\ SpiReset => SpiInv'
  <1> SUFFICES ASSUME SpiInv, SpiReset PROVE SpiInv'
    OBVIOUS
  <1> USE WidthKnown
  <1>1. SpiTypes /\ FrameInv /\ ReceiveInv /\ LastInv /\ OrderInv
    BY DEF SpiInv
  <1>2. spi \in Registers /\ <<>> \in Seq(1 .. WIDTH)
    BY <1>1 DEF SpiTypes
  <1>3. spi' = [spi EXCEPT !.TVALID = FALSE, !.TDATA = <<>>, !.state = "S0"]
    BY DEF SpiReset
  <1>4. spi' \in Registers
    BY <1>2, <1>3 DEF Registers
  <1>5. /\ spi'.state = "S0" /\ spi'.tx = spi.tx /\ spi'.rx = spi.rx
        /\ spi'.ready = spi.ready /\ spi'.last = spi.last /\ spi'.last_buff = spi.last_buff
        /\ spi'.rx_full = spi.rx_full /\ spi'.counter = spi.counter
    BY <1>2, <1>3 DEF Registers
  <1>6. /\ slave' = 0 /\ next' = next /\ expect' = expect /\ ended' = ended
        /\ torn' = (torn \/ spi.state # "S0" \/ spi.rx_full[1])
    BY DEF SpiReset
  <1>7. ~WordOver'
    BY <1>5 DEF WordOver
  <1>8. SpiTypes'
    <2>1. torn' \in BOOLEAN
      BY <1>6
    <2>2. QED
      BY <1>1, <1>4, <1>6, <2>1 DEF SpiTypes
  <1>9. FrameInv'
    BY <1>5, <1>6 DEF FrameInv
  <1>10. ReceiveInv'
    BY <1>1, <1>5, <1>6 DEF ReceiveInv
  <1>11. LastInv'
    BY <1>1, <1>5, <1>6, <1>7 DEF LastInv
  <1>12. OrderInv'
    <2> SUFFICES ASSUME ~torn'
                 PROVE  /\ spi'.ready => expect' = [word |-> next', bit |-> 1]
                        /\ ~spi'.ready => /\ spi'.tx = expect'
                                          /\ Following(spi'.tx.word) = next'
                                          /\ spi'.tx.bit = Position'
      BY DEF OrderInv
    <2>1. ~torn /\ spi.state = "S0"
      BY <1>6
    <2>2. Position = 1 /\ Position' = 1
      BY <1>5, <2>1 DEF Position, WordOver
    <2>3. QED
      BY <1>1, <1>5, <1>6, <2>1, <2>2 DEF OrderInv
  <1>13. QED
    BY <1>8, <1>9, <1>10, <1>11, <1>12 DEF SpiInv

\* The master moves from S1, with the bit the slave puts out.
LEMMA GrownIs ==
  ASSUME NEW r \in Registers, Len(r.rx) <= WIDTH, NEW k \in 0 .. WIDTH - 1,
         Len(r.rx) >= k, \A i \in 1 .. k : r.rx[Len(r.rx) - k + i] = i,
         NEW g, g = Grown(r, k + 1)
  PROVE  /\ Len(g) <= WIDTH
         /\ Len(g) >= k + 1
         /\ \A i \in 1 .. k + 1 : g[Len(g) - (k + 1) + i] = i
  <1> USE WidthKnown
  <1>1. r.rx \in Seq(1 .. WIDTH) /\ Len(r.rx) \in Nat
    BY DEF Registers
  <1> DEFINE b == IF Len(r.rx) = WIDTH THEN Tail(r.rx) ELSE r.rx
             m == Len(b)
  <1>2. /\ b \in Seq(1 .. WIDTH) /\ m \in Nat /\ m < WIDTH /\ m >= k
        /\ \A i \in 1 .. k : b[m - k + i] = i
    <2>1. CASE Len(r.rx) = WIDTH
      <3>1. r.rx # <<>>
        BY <1>1, <2>1
      <3>2. /\ Tail(r.rx) \in Seq(1 .. WIDTH) /\ Len(Tail(r.rx)) = WIDTH - 1
            /\ \A i \in 1 .. WIDTH - 1 : Tail(r.rx)[i] = r.rx[i + 1]
        BY <1>1, <2>1, <3>1, HeadTailProperties
      <3>3. b = Tail(r.rx)
        BY <2>1
      <3> HIDE DEF b
      <3>4. m = WIDTH - 1
        BY <3>2, <3>3
      <3>5. ASSUME NEW i \in 1 .. k PROVE b[m - k + i] = i
        <4>1. m - k + i \in 1 .. WIDTH - 1 /\ m - k + i + 1 = WIDTH - k + i
          BY <3>4
        <4>2. b[m - k + i] = r.rx[WIDTH - k + i]
          BY <3>2, <3>3, <4>1
        <4>3. QED
          BY <2>1, <4>2
      <3>6. m \in Nat /\ m < WIDTH /\ m >= k
        BY <3>4
      <3>7. b \in Seq(1 .. WIDTH)
        BY <3>2, <3>3, Zenon
      <3>8. QED
        BY <3>5, <3>6, <3>7, Zenon
    <2>2. CASE Len(r.rx) # WIDTH
      <3>1. b = r.rx
        BY <2>2
      <3>2. QED
        BY <1>1, <2>2, <3>1
    <2>3. QED
      BY <2>1, <2>2
  <1>3. g = b \o <<k + 1>>
    BY DEF Grown
  <1> HIDE DEF b
  <1>4. /\ Len(g) = m + 1 /\ g[m + 1] = k + 1
        /\ \A i \in 1 .. m : g[i] = b[i]
    BY <1>2, <1>3
  <1> HIDE DEF m
  <1>5. ASSUME NEW i \in 1 .. k + 1 PROVE g[Len(g) - (k + 1) + i] = i
    <2>1. Len(g) - (k + 1) + i = m - k + i
      <3>1. Len(g) = m + 1
        BY <1>4
      <3>2. m \in Nat /\ k \in Nat /\ i \in Nat
        BY <1>2
      <3>3. QED
        BY <3>1, <3>2
    <2>2. CASE i = k + 1
      BY <1>2, <1>4, <2>1, <2>2
    <2>3. CASE i # k + 1
      <3>1. i \in 1 .. k /\ m - k + i \in 1 .. m
        BY <1>2, <2>3
      <3>2. QED
        BY <1>2, <1>4, <2>1, <3>1
    <2>4. QED
      BY <2>2, <2>3
  <1>6. QED
    BY <1>2, <1>4, <1>5

\* The slave puts out the bit that the master counts.
LEMMA MisoIs ==
  ASSUME SpiTypes, FrameInv
  PROVE  /\ Miso \in 1 .. WIDTH
         /\ spi.state = "S1" => Miso = spi.counter
  <1> USE WidthKnown
  <1>1. slave \in 0 .. WIDTH /\ spi.counter \in 0 .. WIDTH
    BY DEF SpiTypes, Registers
  <1>2. slave < WIDTH => slave % WIDTH = slave
    BY <1>1
  <1>3. slave = WIDTH => slave % WIDTH = 0
    BY <1>1
  <1>4. Miso \in 1 .. WIDTH
    BY <1>1, <1>2, <1>3 DEF Miso
  <1>5. ASSUME spi.state = "S1" PROVE Miso = spi.counter
    <2>1. spi.counter >= 1 /\ (slave = spi.counter - 1 \/ (slave = WIDTH /\ spi.counter = 1))
      BY <1>5 DEF FrameInv
    <2>2. QED
      BY <1>1, <1>2, <1>3, <2>1 DEF Miso
  <1>6. QED
    BY <1>4, <1>5

\* What an edge of the clock leaves in the other variables, and their types.
LEMMA AroundClock ==
  ASSUME SpiInv, NEW valid \in BOOLEAN, NEW last \in BOOLEAN, SpiClock(valid, last),
         NEW taken \in BOOLEAN, taken = (valid /\ spi.ready)
  PROVE  /\ next' = IF taken THEN Following(next) ELSE next
         /\ torn' = (torn /\ ~taken)
         /\ ended' = IF SclkRises /\ spi.mosi.bit = WIDTH THEN spi.last ELSE ended
         /\ torn /\ taken => expect' = [word |-> next, bit |-> 1]
         /\ ~(torn /\ taken) /\ ~SclkRises => expect' = expect
         /\ ~(torn /\ taken) /\ SclkRises =>
              expect' = IF expect.bit < WIDTH THEN [expect EXCEPT !.bit = expect.bit + 1]
                        ELSE [word |-> Following(expect.word), bit |-> 1]
         /\ spi' \in Registers => SpiTypes'
         /\ taken => spi.ready /\ (spi.state = "S0" \/ WordOver)
  <1> USE WidthKnown
  <1>1. SpiTypes /\ FrameInv
    BY DEF SpiInv
  <1>2. /\ next' = IF taken THEN Following(next) ELSE next
        /\ torn' = (torn /\ ~taken)
        /\ ended' = IF SclkRises /\ spi.mosi.bit = WIDTH THEN spi.last ELSE ended
        /\ expect' = CASE torn /\ taken -> [word |-> next, bit |-> 1]
                       [] SclkRises -> IF expect.bit < WIDTH
                                       THEN [expect EXCEPT !.bit = @ + 1]
                                       ELSE [word |-> Following(expect.word), bit |-> 1]
                       [] OTHER -> expect
    BY Zenon DEF SpiClock
  <1>3. SclkRises => ~taken
    BY <1>1 DEF SclkRises, FrameInv, WordOver
  <1>4. torn /\ taken => expect' = [word |-> next, bit |-> 1]
    BY <1>2, <1>3
  <1>5. ~(torn /\ taken) /\ ~SclkRises => expect' = expect
    BY <1>2
  <1>6. ~(torn /\ taken) /\ SclkRises =>
          expect' = IF expect.bit < WIDTH THEN [expect EXCEPT !.bit = expect.bit + 1]
                    ELSE [word |-> Following(expect.word), bit |-> 1]
    BY <1>2
  <1>7. /\ next \in Word /\ expect \in [word : Word, bit : 1 .. WIDTH]
        /\ torn \in BOOLEAN /\ ended \in BOOLEAN /\ spi.last \in BOOLEAN
        /\ slave \in 0 .. WIDTH
    BY <1>1 DEF SpiTypes, Registers
  <1>8. torn' \in BOOLEAN /\ ended' \in BOOLEAN
    BY <1>2, <1>7, Zenon
  <1>9. next' \in Word
    BY <1>2, <1>7, FollowingWord
  <1>10. expect' \in [word : Word, bit : 1 .. WIDTH]
    <2>1. CASE torn /\ taken
      BY <1>4, <1>7, <2>1
    <2>2. CASE ~(torn /\ taken) /\ ~SclkRises
      BY <1>5, <1>7, <2>2
    <2>3. CASE ~(torn /\ taken) /\ SclkRises
      <3>1. Following(expect.word) \in Word
        BY <1>7, FollowingWord
      <3>2. QED
        BY <1>6, <1>7, <2>3, <3>1
    <2>4. QED
      BY <2>1, <2>2, <2>3
  <1>11. slave' \in 0 .. WIDTH
    <2>1. slave' = SlaveAfter
      BY DEF SpiClock
    <2>2. QED
      BY <1>1, <1>7, <2>1, MisoIs DEF SlaveAfter
  <1>12. spi' \in Registers => SpiTypes'
    BY <1>8, <1>9, <1>10, <1>11 DEF SpiTypes
  <1>13. taken => spi.ready /\ (spi.state = "S0" \/ WordOver)
    BY <1>1 DEF FrameInv
  <1>14. QED
    BY <1>2, <1>4, <1>5, <1>6, <1>12, <1>13

--------------------------------------------------------------------------------
(* the five ways the state machine moves, or does not                          *)

StepOk == torn \/ (BitsInOrder /\ PacketsApart /\ ReceivedWhole)

\* A buffer that is full is whole, and stays as it is on the edge that shows it.
LEMMA ShownIsWhole ==
  ASSUME SpiInv, ~torn, spi.state # "S2" => spi'.TDATA = spi.TDATA,
         spi'.TVALID => spi.rx_full[1]
  PROVE  ReceivedWhole
  BY DEF SpiInv, ReceiveInv, ReceivedWhole, Whole

\* An edge on which the state machine stays: only a word may be taken.
LEMMA QuietStep ==
  ASSUME SpiInv, NEW valid \in BOOLEAN, NEW last \in BOOLEAN, SpiClock(valid, last),
         NEW taken \in BOOLEAN, taken = (valid /\ spi.ready),
         spi' \in Registers, spi'.state = spi.state, spi'.rx = spi.rx,
         spi'.last_buff = spi.last_buff, spi'.counter = spi.counter,
         spi'.TDATA = spi.TDATA,
         spi'.tx = IF taken THEN [word |-> next, bit |-> 1] ELSE spi.tx,
         spi'.last = IF taken THEN last ELSE spi.last,
         spi'.ready = (spi.ready /\ ~taken), spi'.rx_full[1] = FALSE,
         spi'.TVALID => spi.rx_full[1],
         spi.state # "S0" => spi'.mosi = spi.mosi
  PROVE  SpiInv' /\ StepOk
  <1> USE WidthKnown
  <1>1. SpiTypes /\ FrameInv /\ ReceiveInv /\ LastInv /\ OrderInv
    BY DEF SpiInv
  <1>2. /\ ~SclkRises
        /\ WordOver' <=> WordOver
        /\ Position' = Position
    BY DEF SclkRises, WordOver, Position
  <1>3. /\ next' = IF taken THEN Following(next) ELSE next
        /\ torn' = (torn /\ ~taken)
        /\ ended' = ended
        /\ torn /\ taken => expect' = [word |-> next, bit |-> 1]
        /\ ~(torn /\ taken) => expect' = expect
        /\ SpiTypes'
        /\ taken => spi.ready /\ (spi.state = "S0" \/ WordOver)
    BY <1>2, AroundClock
  <1>4. slave' = slave
    BY <1>1, <1>2 DEF SpiClock, SlaveAfter, FrameInv
  <1>5. FrameInv'
    BY <1>1, <1>2, <1>3, <1>4 DEF FrameInv, WordOver
  <1>6. ReceiveInv'
    BY <1>1 DEF ReceiveInv, Received
  <1>7. LastInv'
    <2>1. CASE taken
      BY <1>1, <1>2, <1>3, <1>4, <2>1 DEF LastInv, WordOver
    <2>2. CASE ~taken
      BY <1>1, <1>2, <1>3, <1>4, <2>2 DEF LastInv
    <2>3. QED
      BY <2>1, <2>2
  <1>8. OrderInv'
    <2>1. CASE taken
      <3>1. Position' = 1
        BY <1>2, <1>3, <2>1 DEF Position, WordOver
      <3>2. expect' = [word |-> next, bit |-> 1]
        BY <1>1, <1>3, <2>1 DEF OrderInv
      <3>3. QED
        BY <1>3, <2>1, <3>1, <3>2 DEF OrderInv
    <2>2. CASE ~taken
      BY <1>1, <1>2, <1>3, <2>2 DEF OrderInv
    <2>3. QED
      BY <2>1, <2>2
  <1>9. StepOk
    BY <1>2, ShownIsWhole DEF StepOk, BitsInOrder, PacketsApart
  <1>10. QED
    BY <1>3, <1>5, <1>6, <1>7, <1>8, <1>9 DEF SpiInv

\* S0 with a word: the first bit is put out.
LEMMA BeginStep ==
  ASSUME SpiInv, NEW valid \in BOOLEAN, NEW last \in BOOLEAN, SpiClock(valid, last),
         spi.state = "S0", ~spi.ready,
         spi' \in Registers, spi'.state = "S1", spi'.mosi = spi.tx,
         spi'.last_buff = spi.last, spi'.counter = 1, spi'.tx = spi.tx,
         spi'.rx = spi.rx, spi'.ready = FALSE, spi'.last = spi.last,
         spi'.rx_full[1] = FALSE, spi'.TVALID => spi.rx_full[1], spi'.TDATA = spi.TDATA
  PROVE  SpiInv' /\ StepOk
  <1> USE WidthKnown
  <1>1. SpiTypes /\ FrameInv /\ ReceiveInv /\ LastInv /\ OrderInv
    BY DEF SpiInv
  <1>2. /\ ~SclkRises /\ ~WordOver' /\ Position = 1 /\ Position' = 1
    BY DEF SclkRises, WordOver, Position
  <1>3. /\ next' = next /\ torn' = torn /\ ended' = ended /\ expect' = expect
        /\ SpiTypes'
    <2>1. FALSE = (valid /\ spi.ready)
      OBVIOUS
    <2>2. torn \in BOOLEAN
      BY <1>1 DEF SpiTypes
    <2>3. QED
      BY <1>2, <2>1, <2>2, AroundClock
  <1>4. slave' = 0
    BY <1>1, <1>2 DEF SpiClock, SlaveAfter, FrameInv
  <1>5. FrameInv'
    BY <1>2, <1>4 DEF FrameInv
  <1>6. ReceiveInv'
    <2>1. Received(0)'
      BY DEF Received, Registers
    <2>2. QED
      BY <1>1, <2>1 DEF ReceiveInv
  <1>7. LastInv'
    <2>1. spi.tx.bit >= 1
      BY <1>1 DEF SpiTypes, Registers
    <2>2. QED
      BY <1>1, <1>2, <1>3, <1>4, <2>1 DEF LastInv
  <1>8. OrderInv'
    BY <1>1, <1>2, <1>3 DEF OrderInv
  <1>9. StepOk
    BY <1>2, ShownIsWhole DEF StepOk, BitsInOrder, PacketsApart
  <1>10. QED
    BY <1>3, <1>5, <1>6, <1>7, <1>8, <1>9 DEF SpiInv

\* S1: sclk rises, the slave samples a bit and the master another.
LEMMA RiseStep ==
  ASSUME SpiInv, NEW valid \in BOOLEAN, NEW last \in BOOLEAN, SpiClock(valid, last),
         spi.state = "S1",
         spi' \in Registers, spi'.state = "S2",
         spi'.tx = IF spi.counter # WIDTH THEN Shifted(spi.tx) ELSE spi.tx,
         spi'.ready = (spi.ready \/ spi.counter = WIDTH), spi'.rx = Grown(spi, Miso),
         spi'.last = spi.last, spi'.last_buff = spi.last_buff,
         spi'.counter = spi.counter, spi'.rx_full[1] = FALSE,
         spi'.TVALID => spi.rx_full[1], spi'.TDATA = spi.TDATA
  PROVE  SpiInv' /\ StepOk
  <1> USE WidthKnown
  <1>1. SpiTypes /\ FrameInv /\ ReceiveInv /\ LastInv /\ OrderInv
    BY DEF SpiInv
  <1>2. SclkRises /\ ~WordOver /\ (WordOver' <=> spi.counter = WIDTH)
    BY DEF SclkRises, WordOver
  <1>3. ~spi.ready /\ spi.counter >= 1 /\ spi.mosi = spi.tx
    BY <1>1, <1>2 DEF FrameInv
  <1>4. /\ spi \in Registers /\ spi.counter \in 1 .. WIDTH
        /\ spi.tx \in [word : Word, bit : 1 .. WIDTH + 1]
        /\ expect \in [word : Word, bit : 1 .. WIDTH]
    BY <1>1, <1>3 DEF SpiTypes, Registers
  <1>5. Miso = spi.counter /\ slave' = spi.counter
    BY <1>1, <1>2, MisoIs DEF SpiClock, SlaveAfter
  <1>6. /\ next' = next /\ torn' = torn
        /\ ended' = IF spi.tx.bit = WIDTH THEN spi.last ELSE ended
        /\ expect' = IF expect.bit < WIDTH THEN [expect EXCEPT !.bit = expect.bit + 1]
                     ELSE [word |-> Following(expect.word), bit |-> 1]
        /\ SpiTypes'
    <2>1. FALSE = (valid /\ spi.ready)
      BY <1>3
    <2>2. torn \in BOOLEAN
      BY <1>1 DEF SpiTypes
    <2>3. QED
      BY <1>2, <1>3, <2>1, <2>2, AroundClock
  <1>7. FrameInv'
    BY <1>2, <1>3, <1>5 DEF FrameInv
  <1>8. ReceiveInv'
    <2> DEFINE k == spi.counter - 1
    <2>1. /\ k \in 0 .. WIDTH - 1 /\ k + 1 = spi.counter
          /\ Len(spi.rx) <= WIDTH /\ Len(spi.rx) >= k
          /\ \A i \in 1 .. k : spi.rx[Len(spi.rx) - k + i] = i
      BY <1>1, <1>4 DEF ReceiveInv, Received
    <2>2. spi'.rx = Grown(spi, k + 1)
      BY <1>5, <2>1
    <2> HIDE DEF k
    <2>3. /\ Len(spi'.rx) <= WIDTH /\ Len(spi'.rx) >= k + 1
          /\ \A i \in 1 .. k + 1 : spi'.rx[Len(spi'.rx) - (k + 1) + i] = i
      BY <1>4, <2>1, <2>2, GrownIs
    <2>4. QED
      BY <2>1, <2>3 DEF ReceiveInv, Received
  <1>9. LastInv'
    <2>1. spi.tx.bit >= spi.counter /\ spi.last_buff = spi.last
      BY <1>1, <1>2 DEF LastInv
    <2>2. spi.tx.bit > WIDTH => ended = spi.last
      BY <1>1, <1>3 DEF LastInv
    <2>3. CASE spi.counter = WIDTH
      <3>1. ended' = spi.last
        BY <1>4, <1>6, <2>1, <2>2, <2>3
      <3>2. spi'.ready
        BY <2>3, Zenon
      <3>3. QED
        BY <1>2, <2>1, <2>3, <3>1, <3>2 DEF LastInv
    <2>4. CASE spi.counter # WIDTH
      <3>1. spi'.tx.bit = IF spi.tx.bit > WIDTH THEN spi.tx.bit ELSE spi.tx.bit + 1
        BY <1>4, <2>4 DEF Shifted
      <3>2. spi'.tx.bit > WIDTH => ended' = spi.last
        BY <1>4, <1>6, <2>2, <3>1
      <3>3. spi'.tx.bit >= spi'.counter + 1
        BY <1>4, <2>1, <2>4, <3>1
      <3>4. QED
        BY <1>2, <2>1, <2>4, <3>2, <3>3 DEF LastInv
    <2>5. QED
      BY <2>3, <2>4
  <1>10. OrderInv'
    <2> SUFFICES ASSUME ~torn
                 PROVE  /\ spi'.ready => expect' = [word |-> next', bit |-> 1]
                        /\ ~spi'.ready => /\ spi'.tx = expect'
                                          /\ Following(spi'.tx.word) = next'
                                          /\ spi'.tx.bit = Position'
      BY <1>6 DEF OrderInv
    <2>1. /\ spi.tx = expect /\ Following(spi.tx.word) = next
          /\ spi.tx.bit = spi.counter
      BY <1>1, <1>3 DEF OrderInv, Position
    <2>2. CASE spi.counter = WIDTH
      <3>1. spi'.ready
        BY <2>2, Zenon
      <3>2. expect' = [word |-> next', bit |-> 1]
        BY <1>4, <1>6, <2>1, <2>2
      <3>3. QED
        BY <3>1, <3>2, Zenon
    <2>3. CASE spi.counter # WIDTH
      <3>1. spi'.ready = FALSE
        BY <1>3, <2>3
      <3>2. Position' = spi.counter + 1
        BY <1>2, <2>3 DEF Position
      <3>3. /\ spi'.tx = [expect EXCEPT !.bit = expect.bit + 1]
            /\ expect' = [expect EXCEPT !.bit = expect.bit + 1]
        BY <1>4, <1>6, <2>1, <2>3 DEF Shifted
      <3>4. QED
        BY <1>4, <1>6, <2>1, <3>1, <3>2, <3>3
    <2>4. QED
      BY <2>2, <2>3
  <1>11. StepOk
    <2> SUFFICES ASSUME ~torn PROVE BitsInOrder /\ PacketsApart /\ ReceivedWhole
      BY DEF StepOk
    <2>1. BitsInOrder
      BY <1>1, <1>3 DEF BitsInOrder, OrderInv
    <2>2. PacketsApart
      <3> SUFFICES ASSUME slave # 0, spi.tx.bit = 1 PROVE ~ended
        BY <1>3 DEF PacketsApart
      <3>1. spi.counter = 1
        BY <1>1, <1>4 DEF LastInv
      <3>2. QED
        BY <1>1, <3>1 DEF LastInv
    <2>3. QED
      BY <2>1, <2>2, ShownIsWhole
  <1>12. QED
    BY <1>6, <1>7, <1>8, <1>9, <1>10, <1>11 DEF SpiInv

\* S2 within a word: the next bit is put out.
LEMMA NextBitStep ==
  ASSUME SpiInv, NEW valid \in BOOLEAN, NEW last \in BOOLEAN, SpiClock(valid, last),
         spi.state = "S2", spi.counter # WIDTH,
         spi' \in Registers, spi'.state = "S1", spi'.mosi = spi.tx,
         spi'.counter = spi.counter + 1, spi'.tx = spi.tx, spi'.rx = spi.rx,
         spi'.ready = spi.ready, spi'.last = spi.last, spi'.last_buff = spi.last_buff,
         spi'.rx_full[1] = FALSE, spi'.TVALID => spi.rx_full[1]
  PROVE  SpiInv' /\ StepOk
  <1> USE WidthKnown
  <1>1. SpiTypes /\ FrameInv /\ ReceiveInv /\ LastInv /\ OrderInv
    BY DEF SpiInv
  <1>2. ~SclkRises /\ ~WordOver /\ ~WordOver' /\ Position' = Position
    BY DEF SclkRises, WordOver, Position
  <1>3. ~spi.ready /\ spi.counter >= 1 /\ spi.counter \in 0 .. WIDTH /\ slave = spi.counter
    BY <1>1, <1>2 DEF FrameInv, SpiTypes, Registers
  <1>4. /\ next' = next /\ torn' = torn /\ ended' = ended /\ expect' = expect
        /\ SpiTypes'
    <2>1. FALSE = (valid /\ spi.ready)
      BY <1>3
    <2>2. torn \in BOOLEAN
      BY <1>1 DEF SpiTypes
    <2>3. QED
      BY <1>2, <2>1, <2>2, AroundClock
  <1>5. slave' = slave
    BY <1>1, <1>2 DEF SpiClock, SlaveAfter
  <1>6. FrameInv'
    BY <1>2, <1>3, <1>5 DEF FrameInv
  <1>7. ReceiveInv'
    <2>1. PICK k \in 0 .. WIDTH : k = spi.counter
      BY <1>3
    <2>2. Len(spi.rx) <= WIDTH /\ Len(spi.rx) >= k
          /\ \A i \in 1 .. k : spi.rx[Len(spi.rx) - k + i] = i
      BY <1>1, <2>1 DEF ReceiveInv, Received
    <2>3. spi'.counter - 1 = k
      BY <2>1
    <2>4. Len(spi'.rx) >= k /\ \A i \in 1 .. k : spi'.rx[Len(spi'.rx) - k + i] = i
      BY <2>2
    <2>5. QED
      BY <2>2, <2>3, <2>4 DEF ReceiveInv, Received
  <1>8. LastInv'
    BY <1>1, <1>2, <1>3, <1>4, <1>5 DEF LastInv
  <1>9. OrderInv'
    BY <1>1, <1>2, <1>4 DEF OrderInv
  <1>10. StepOk
    BY <1>2, ShownIsWhole DEF StepOk, BitsInOrder, PacketsApart
  <1>11. QED
    BY <1>4, <1>6, <1>7, <1>8, <1>9, <1>10 DEF SpiInv

\* S2 at the end of a word: the frame goes on with the next word of the packet or ends.
LEMMA WordEndStep ==
  ASSUME SpiInv, NEW valid \in BOOLEAN, NEW last \in BOOLEAN, SpiClock(valid, last),
         NEW taken \in BOOLEAN, taken = (valid /\ spi.ready),
         spi.state = "S2", spi.counter = WIDTH,
         spi' \in Registers, spi'.mosi = spi.tx, spi'.TDATA = spi.rx,
         spi'.tx = IF taken THEN [word |-> next, bit |-> 1] ELSE spi.tx,
         spi'.last = IF taken THEN last ELSE spi.last,
         spi'.rx = spi.rx, spi'.ready = (spi.ready /\ ~taken),
         spi'.TVALID => spi.rx_full[1],
         IF ~spi.ready /\ ~spi.last_buff
         THEN spi'.state = "S1" /\ spi'.last_buff = spi.last /\ spi'.counter = 1
         ELSE spi'.state = "S0"
  PROVE  SpiInv' /\ StepOk
  <1> USE WidthKnown
  <1>1. SpiTypes /\ FrameInv /\ ReceiveInv /\ LastInv /\ OrderInv
    BY DEF SpiInv
  <1>2. /\ ~SclkRises /\ WordOver /\ ~WordOver' /\ Position = 1
        /\ slave = WIDTH /\ ended = spi.last_buff
        /\ ~spi.ready => spi.tx.bit = 1
    BY <1>1 DEF SclkRises, WordOver, Position, FrameInv, LastInv
  <1>3. /\ next' = IF taken THEN Following(next) ELSE next
        /\ torn' = (torn /\ ~taken)
        /\ ended' = ended
        /\ torn /\ taken => expect' = [word |-> next, bit |-> 1]
        /\ ~(torn /\ taken) => expect' = expect
        /\ SpiTypes'
    BY <1>2, AroundClock
  <1>4. Position' = 1
    BY <1>2 DEF Position
  <1>5. slave' = IF spi'.state = "S0" THEN 0 ELSE WIDTH
    BY <1>2 DEF SpiClock, SlaveAfter
  <1>6. spi.rx = Whole
    <2>1. spi.rx \in Seq(1 .. WIDTH) /\ Len(spi.rx) \in Nat
      BY <1>1 DEF SpiTypes, Registers
    <2>2. PICK b \in Seq(1 .. WIDTH) : b = spi.rx
      BY <2>1
    <2>3. Len(b) <= WIDTH /\ Len(b) >= WIDTH /\ \A i \in 1 .. WIDTH : b[Len(b) - WIDTH + i] = i
      BY <1>1, <2>2 DEF ReceiveInv, Received
    <2>4. Len(b) = WIDTH
      BY <2>1, <2>2, <2>3
    <2>5. \A i \in 1 .. WIDTH : b[i] = i
      <3>1. \A i \in 1 .. WIDTH : Len(b) - WIDTH + i = i
        BY <2>4
      <3>2. QED
        BY <2>3, <3>1
    <2>6. QED
      BY <2>2, <2>4, <2>5 DEF Whole
  <1>7. FrameInv'
    <2>1. CASE ~spi.ready /\ ~spi.last_buff
      <3>1. ~spi'.ready /\ spi'.tx = spi.tx
        BY <2>1, Zenon
      <3>2. QED
        BY <1>2, <1>5, <2>1, <3>1 DEF FrameInv
    <2>2. CASE ~(~spi.ready /\ ~spi.last_buff)
      BY <1>5, <2>2 DEF FrameInv
    <2>3. QED
      BY <2>1, <2>2
  <1>8. ReceiveInv'
    <2>1. Len(spi'.rx) <= WIDTH /\ Received(0)'
      BY <1>1, <1>6 DEF ReceiveInv, Received, SpiTypes, Registers
    <2>2. spi'.state # "S2" /\ (spi'.state = "S1" => spi'.counter - 1 = 0)
      OBVIOUS
    <2>3. QED
      BY <1>6, <2>1, <2>2 DEF ReceiveInv
  <1>9. LastInv'
    <2>1. ~spi'.ready => spi'.tx.bit = 1
      <3>1. CASE taken
        BY <3>1
      <3>2. CASE ~taken
        <4>1. spi'.tx = spi.tx /\ (~spi'.ready => ~spi.ready)
          BY <3>2, Zenon
        <4>2. QED
          BY <1>2, <4>1
      <3>3. QED
        BY <3>1, <3>2
    <2>2. CASE ~spi.ready /\ ~spi.last_buff
      <3>1. ~taken /\ ~ended' /\ spi'.last = spi.last
        BY <1>2, <1>3, <2>2
      <3>2. QED
        BY <1>2, <2>1, <2>2, <3>1 DEF LastInv
    <2>3. CASE ~(~spi.ready /\ ~spi.last_buff)
      BY <1>2, <2>1, <2>3 DEF LastInv
    <2>4. QED
      BY <2>2, <2>3
  <1>10. OrderInv'
    <2>1. CASE taken
      <3>1. expect' = [word |-> next, bit |-> 1]
        BY <1>1, <1>3, <2>1 DEF OrderInv
      <3>2. QED
        BY <1>3, <1>4, <2>1, <3>1 DEF OrderInv
    <2>2. CASE ~taken
      BY <1>1, <1>2, <1>3, <1>4, <2>2 DEF OrderInv
    <2>3. QED
      BY <2>1, <2>2
  <1>11. StepOk
    BY <1>2, ShownIsWhole DEF StepOk, BitsInOrder, PacketsApart
  <1>12. QED
    BY <1>3, <1>7, <1>8, <1>9, <1>10, <1>11 DEF SpiInv

--------------------------------------------------------------------------------
(* the theorems                                                                *)

\* An edge of the clock is one of the five.
LEMMA ClockStep ==
  ASSUME SpiInv, NEW valid \in BOOLEAN, NEW last \in BOOLEAN, SpiClock(valid, last)
  PROVE  SpiInv' /\ StepOk
  <1> USE WidthKnown
  <1>1. SpiTypes /\ FrameInv
    BY DEF SpiInv
  <1>2. /\ spi \in Registers /\ next \in Word
        /\ spi.ready \in BOOLEAN /\ spi.state \in {"S0", "S1", "S2"}
    BY <1>1 DEF SpiTypes, Registers
  <1> DEFINE taken == valid /\ spi.ready
             n == TakeWord(spi, valid, last)
  <1>3. taken \in BOOLEAN /\ taken = (valid /\ spi.ready) /\ n = TakeWord(spi, valid, last)
    BY <1>2
  <1>8. ~spi.ready => ~taken
    OBVIOUS
  <1> HIDE DEF taken, n
  <1>4. /\ n \in Registers
        /\ n.state = spi.state /\ n.rx = spi.rx /\ n.last_buff = spi.last_buff
        /\ n.counter = spi.counter /\ n.mosi = spi.mosi /\ n.TDATA = spi.TDATA
        /\ n.tx = IF taken THEN [word |-> next, bit |-> 1] ELSE spi.tx
        /\ n.last = IF taken THEN last ELSE spi.last
        /\ n.ready = (spi.ready /\ ~taken)
        /\ n.rx_full[1] = FALSE
        /\ n.TVALID = (spi.rx_full[1] /\ ~spi.rx_full[2])
    <2>1. AfterTake(spi, n, taken, last)
      BY <1>2, <1>3, TakeWordIs, Zenon
    <2>2. QED
      BY <2>1, Zenon DEF AfterTake
  <1>5. n.TVALID => spi.rx_full[1]
    BY <1>4, Zenon
  <1>6. spi' = SpiEdge(spi, valid, last, Miso)
    BY DEF SpiClock
  <1>7. spi' = IF spi.clk_counter # CLOCK_DIVISOR THEN n
               ELSE CASE spi.state = "S0" -> IdleState(spi, n)
                      [] spi.state = "S1" -> LowHalf(spi, n, Miso)
                      [] spi.state = "S2" -> HighHalf(spi, n)
    BY <1>3, <1>6 DEF SpiEdge
  <1>9. ~spi.ready => /\ ~taken /\ n.tx = spi.tx /\ n.last = spi.last /\ n.ready = FALSE
    <2> SUFFICES ASSUME ~spi.ready
                 PROVE  ~taken /\ n.tx = spi.tx /\ n.last = spi.last /\ n.ready = FALSE
      OBVIOUS
    <2>1. ~taken
      BY <1>8
    <2>2. n.tx = spi.tx /\ n.last = spi.last
      BY <1>4, <2>1
    <2>3. n.ready = FALSE
      BY <1>4, Zenon
    <2>4. QED
      BY <2>1, <2>2, <2>3
  <1>10. CASE spi.clk_counter # CLOCK_DIVISOR
    <2>1. spi' = n
      BY <1>7, <1>10
    <2>2. QED
      BY <1>3, <1>4, <1>5, <2>1, QuietStep
  <1>11. CASE spi.clk_counter = CLOCK_DIVISOR /\ spi.state = "S0" /\ spi.ready
    <2>1. spi' = [n EXCEPT !.mosi = Low]
      BY <1>7, <1>11 DEF IdleState
    <2>2. Low \in [word : Word, bit : 0 .. WIDTH + 1]
      BY DEF Low, Word
    <2>3. spi' \in Registers
      BY <1>4, <2>1, <2>2 DEF Registers
    <2>4. /\ spi'.state = n.state /\ spi'.rx = n.rx /\ spi'.last_buff = n.last_buff
          /\ spi'.counter = n.counter /\ spi'.TDATA = n.TDATA /\ spi'.tx = n.tx
          /\ spi'.last = n.last /\ spi'.ready = n.ready /\ spi'.rx_full = n.rx_full
          /\ spi'.TVALID = n.TVALID
      BY <1>4, <2>1 DEF Registers
    <2>5. QED
      BY <1>3, <1>4, <1>5, <1>11, <2>3, <2>4, QuietStep
  <1>12. CASE spi.clk_counter = CLOCK_DIVISOR /\ spi.state = "S0" /\ ~spi.ready
    <2>1. spi' = BeginWord(spi, n)
      BY <1>7, <1>12 DEF IdleState
    <2>2. /\ spi' \in Registers
          /\ spi'.state = "S1" /\ spi'.mosi = spi.tx /\ spi'.last_buff = spi.last
          /\ spi'.counter = 1 /\ spi'.tx = n.tx /\ spi'.rx = n.rx
          /\ spi'.ready = n.ready /\ spi'.last = n.last /\ spi'.rx_full = n.rx_full
          /\ spi'.TVALID = n.TVALID /\ spi'.TDATA = n.TDATA
      <3>1. AfterBegin(spi, n, spi')
        BY <1>2, <1>4, <2>1, BeginWordIs, Zenon
      <3>2. QED
        BY <3>1, Zenon DEF AfterBegin
    <2>3. /\ spi'.tx = spi.tx /\ spi'.rx = spi.rx /\ spi'.last = spi.last
          /\ spi'.rx_full[1] = FALSE /\ spi'.TDATA = spi.TDATA
      BY <1>4, <1>9, <1>12, <2>2
    <2>4. spi'.ready = FALSE /\ (spi'.TVALID => spi.rx_full[1])
      BY <1>5, <1>9, <1>12, <2>2, Zenon
    <2>5. QED
      BY <1>12, <2>2, <2>3, <2>4, BeginStep, Zenon
  <1>13. CASE spi.clk_counter = CLOCK_DIVISOR /\ spi.state = "S1"
    <2>1. spi' = LowHalf(spi, n, Miso)
      BY <1>7, <1>13
    <2>2. ~spi.ready /\ Miso \in 1 .. WIDTH
      BY <1>1, <1>13, MisoIs DEF FrameInv, WordOver
    <2>3. n.ready = spi.ready
      BY <1>2, <1>9, <2>2, Zenon
    <2>4. /\ spi' \in Registers
          /\ spi'.state = "S2"
          /\ spi'.tx = IF spi.counter # WIDTH THEN Shifted(spi.tx) ELSE spi.tx
          /\ spi'.ready = (spi.ready \/ spi.counter = WIDTH)
          /\ spi'.rx = Grown(spi, Miso)
          /\ spi'.mosi = n.mosi /\ spi'.last = n.last /\ spi'.last_buff = n.last_buff
          /\ spi'.counter = n.counter /\ spi'.rx_full = n.rx_full
          /\ spi'.TVALID = n.TVALID /\ spi'.TDATA = n.TDATA
      <3>1. n.tx = spi.tx /\ n.rx = spi.rx
        BY <1>4, <1>9, <2>2
      <3>2. QED
        <4>1. AfterLow(spi, n, spi', Miso)
          BY <1>2, <1>4, <2>1, <2>2, <2>3, <3>1, LowHalfIs, Zenon
        <4>2. QED
          BY <4>1, Zenon DEF AfterLow
    <2>5. QED
      BY <1>4, <1>5, <1>9, <1>13, <2>2, <2>4, RiseStep
  <1>14. CASE spi.clk_counter = CLOCK_DIVISOR /\ spi.state = "S2" /\ spi.counter # WIDTH
    <2>1. spi' = HighHalf(spi, n)
      BY <1>7, <1>14
    <2>2. ~spi.ready
      BY <1>1, <1>14 DEF FrameInv, WordOver
    <2>3. n.ready = spi.ready
      BY <1>2, <1>9, <2>2, Zenon
    <2>4. /\ spi' \in Registers
          /\ spi'.state = "S1" /\ spi'.mosi = spi.tx /\ spi'.counter = spi.counter + 1
          /\ spi'.tx = n.tx /\ spi'.rx = n.rx /\ spi'.ready = n.ready
          /\ spi'.last = n.last /\ spi'.last_buff = n.last_buff
          /\ spi'.rx_full = n.rx_full /\ spi'.TVALID = n.TVALID
      <3>1. AfterNext(spi, n, spi')
        BY <1>2, <1>4, <1>14, <2>1, NextBitIs, Zenon
      <3>2. QED
        BY <3>1, Zenon DEF AfterNext
    <2>5. /\ spi'.tx = spi.tx /\ spi'.rx = spi.rx /\ spi'.last = spi.last
          /\ spi'.last_buff = spi.last_buff /\ spi'.rx_full[1] = FALSE
      BY <1>4, <1>9, <2>2, <2>4
    <2>6. spi'.ready = spi.ready /\ (spi'.TVALID => spi.rx_full[1])
      BY <1>5, <2>3, <2>4, Zenon
    <2>7. QED
      BY <1>14, <2>4, <2>5, <2>6, NextBitStep, Zenon
  <1>15. CASE spi.clk_counter = CLOCK_DIVISOR /\ spi.state = "S2" /\ spi.counter = WIDTH
    <2>1. spi' = HighHalf(spi, n)
      BY <1>7, <1>15
    <2>2. /\ spi' \in Registers
          /\ spi'.mosi = spi.tx /\ spi'.TDATA = spi.rx
          /\ spi'.tx = n.tx /\ spi'.rx = n.rx /\ spi'.ready = n.ready
          /\ spi'.last = n.last /\ spi'.TVALID = n.TVALID
          /\ IF ~spi.ready /\ ~spi.last_buff
             THEN spi'.state = "S1" /\ spi'.last_buff = spi.last /\ spi'.counter = 1
             ELSE /\ spi'.state = "S0" /\ spi'.last_buff = n.last_buff
                  /\ spi'.counter = n.counter
      <3>1. AfterEnd(spi, n, spi')
        BY <1>2, <1>4, <1>15, <2>1, WordEndIs, Zenon
      <3>2. QED
        BY <3>1, Zenon DEF AfterEnd
    <2>3. /\ spi'.rx = spi.rx
          /\ spi'.tx = IF taken THEN [word |-> next, bit |-> 1] ELSE spi.tx
          /\ spi'.last = IF taken THEN last ELSE spi.last
      BY <1>4, <2>2, Zenon
    <2>4. spi'.ready = (spi.ready /\ ~taken) /\ (spi'.TVALID => spi.rx_full[1])
      BY <1>4, <1>5, <2>2, Zenon
    <2>5. QED
      BY <1>3, <1>15, <2>2, <2>3, <2>4, WordEndStep, Zenon
  <1>16. QED
    BY <1>2, <1>10, <1>11, <1>12, <1>13, <1>14, <1>15

\* Every step of the master keeps the invariant and transfers its words.
LEMMA SpiStep == SpiInv /\ [SpiNext]_spiVars => SpiInv' /\ (StepOk \/ UNCHANGED spiVars)
  <1> SUFFICES ASSUME SpiInv, [SpiNext]_spiVars
               PROVE  SpiInv' /\ (StepOk \/ UNCHANGED spiVars)
    OBVIOUS
  <1>1. CASE SpiReset
    <2>1. /\ spi'.state = "S0" /\ spi'.TVALID = FALSE
      BY <1>1 DEF SpiReset, SpiInv, SpiTypes, Registers
    <2>2. StepOk
      BY <2>1 DEF StepOk, BitsInOrder, PacketsApart, ReceivedWhole, SclkRises
    <2>3. QED
      BY <1>1, <2>2, ResetSpiInv
  <1>2. ASSUME NEW valid \in BOOLEAN, NEW last \in BOOLEAN, SpiClock(valid, last)
        PROVE  SpiInv' /\ StepOk
    BY <1>2, ClockStep
  <1>3. CASE UNCHANGED spiVars
    BY <1>3 DEF spiVars, SpiInv, SpiTypes, FrameInv, ReceiveInv, LastInv, OrderInv,
                Received, WordOver, Position
  <1>4. QED
    BY <1>1, <1>2, <1>3 DEF SpiNext

\* The position in the shift register, the counter and the slave agree in every
\* reachable state, whatever WIDTH and CLOCK_DIVISOR.
THEOREM SpiCorrect == SpiSpec => []SpiInv
  <1>1. SpiInit => SpiInv
    BY InitSpiInv
  <1>2. SpiInv /\ [SpiNext]_spiVars => SpiInv'
    BY SpiStep
  <1>3. QED
    BY <1>1, <1>2, PTL DEF SpiSpec

\* The slave samples the words handed over, bit by bit, in order and each once, the
\* packets in frames of their own, and what is received is whole.
THEOREM WordsTransferred == SpiSpec => SpiTransfersWords
  <1>1. SpiInv /\ [SpiNext]_spiVars =>
          [torn \/ (BitsInOrder /\ PacketsApart /\ ReceivedWhole)]_spiVars
    BY SpiStep DEF StepOk
  <1>2. SpiSpec => [][torn \/ (BitsInOrder /\ PacketsApart /\ ReceivedWhole)]_spiVars
    BY <1>1, SpiCorrect, PTL DEF SpiSpec
  <1>3. QED
    BY <1>2 DEF SpiTransfersWords

(***************************************************************************)
(* The I2S slave: where the codec is in its frame tells which bit is due,  *)
(* and when the falling edge was tells whether it is shown yet.            *)
(***************************************************************************)

CodecOutputs ==
  [bclk : BOOLEAN, lrclk : BOOLEAN, position : 0 .. (TDATA_WIDTH \div 2) - 1, hold : Nat]
Bits == [word : Int, bit : 0 .. TDATA_WIDTH]
StreamRegisters ==
  [bclk_ctrl : BOOLEAN \X BOOLEAN, busy : BOOLEAN, data_buf : Bits, TREADY : BOOLEAN]

\* The registers of the two clock domains.
I2sTypes ==
  /\ codec \in CodecOutputs
  /\ lrclk_buff \in BOOLEAN \X BOOLEAN
  /\ i2s \in StreamRegisters
  /\ number \in Nat
  /\ due \in Bits

\* The stream side has seen an edge of bclk two edges of its own clock later.
SeenInv ==
  /\ i2s.bclk_ctrl[2] <=> IF codec.hold = 0 THEN ~codec.bclk ELSE codec.bclk
  /\ i2s.bclk_ctrl[1] <=> IF codec.hold \in {0, 1} THEN ~codec.bclk ELSE codec.bclk

\* Where in its frame the codec is when lrclk is seen to fall.
FrameClockInv ==
  /\ codec.bclk /\ lrclk_buff[2] => codec.lrclk
  /\ ~codec.bclk /\ lrclk_buff[2] /\ ~codec.lrclk => codec.position = 0
  /\ Window => ~codec.lrclk /\ codec.position = (IF codec.bclk THEN 0 ELSE 1)

\* Edges of bclk since the frame began
Elapsed == codec.position + (IF codec.lrclk THEN TDATA_WIDTH \div 2 ELSE 0)

\* The bit to be sampled is known from the frame; the last one is sampled in the next.
PhaseInv ==
  due # Nothing =>
    /\ due.bit >= 1
    /\ due.bit = 1 => Window
    /\ codec.bclk => due.bit = Elapsed + 1
    /\ ~codec.bclk => due.bit = Elapsed \/ (Elapsed = 0 /\ due.bit = TDATA_WIDTH)

\* The shift register shows this bit when bclk rises, and the one before it from then
\* until the falling edge is seen.
ShownInv ==
  due # Nothing =>
    /\ i2s.data_buf.word = due.word
    /\ i2s.data_buf.bit = IF Window \/ (~codec.bclk /\ codec.hold >= 2)
                          THEN due.bit ELSE due.bit - 1
    /\ ~i2s.TREADY
    /\ Window => i2s.busy

I2sInv == I2sTypes /\ SeenInv /\ FrameClockInv /\ PhaseInv /\ ShownInv

--------------------------------------------------------------------------------
(* an edge of bclk, an edge of the stream clock                                *)

LEMMA HalfFrame ==
  /\ TDATA_WIDTH \in Nat /\ TDATA_WIDTH \div 2 \in Nat
  /\ TDATA_WIDTH = 2 * (TDATA_WIDTH \div 2) /\ TDATA_WIDTH \div 2 >= 2
  BY I2sAssumption

LEMMA BitsAre ==
  ASSUME NEW w \in Int, NEW b \in 0 .. TDATA_WIDTH
  PROVE  [word |-> w, bit |-> b] \in Bits
  BY DEF Bits

LEMMA NothingIs == Nothing \in Bits /\ Nothing.bit = 0
  BY HalfFrame, BitsAre DEF Nothing

\* Two bits are the same when their names are.
LEMMA SameBits ==
  ASSUME NEW a \in Bits, NEW b \in Bits, a.word = b.word, a.bit = b.bit
  PROVE  a = b
  <1>1. a = [word |-> a.word, bit |-> a.bit] /\ b = [word |-> b.word, bit |-> b.bit]
    BY DEF Bits
  <1>2. QED
    BY <1>1, Zenon

LEMMA BitAfter ==
  ASSUME NEW b \in Bits, b.bit < TDATA_WIDTH
  PROVE  /\ [b EXCEPT !.bit = @ + 1] \in Bits
         /\ [b EXCEPT !.bit = @ + 1].word = b.word
         /\ [b EXCEPT !.bit = @ + 1].bit = b.bit + 1
  BY HalfFrame DEF Bits

LEMMA ShiftIs ==
  ASSUME NEW b \in Bits
  PROVE  /\ Shift(b) \in Bits
         /\ b.bit \in 1 .. TDATA_WIDTH - 1 =>
              Shift(b).word = b.word /\ Shift(b).bit = b.bit + 1
  <1>1. CASE b.bit \in 1 .. TDATA_WIDTH - 1
    <2>1. b.bit < TDATA_WIDTH
      BY <1>1, HalfFrame
    <2>2. Shift(b) = [b EXCEPT !.bit = @ + 1]
      BY <1>1 DEF Shift
    <2>3. QED
      BY <2>1, <2>2, BitAfter
  <1>2. CASE b.bit \notin 1 .. TDATA_WIDTH - 1
    BY <1>2, NothingIs DEF Shift
  <1>3. QED
    BY <1>1, <1>2

LEMMA ClockIs ==
  ASSUME NEW b \in BOOLEAN, NEW l \in BOOLEAN, NEW p \in 0 .. (TDATA_WIDTH \div 2) - 1,
         NEW h \in Nat
  PROVE  [bclk |-> b, lrclk |-> l, position |-> p, hold |-> h] \in CodecOutputs
  BY DEF CodecOutputs

LEMMA Pairs ==
  ASSUME NEW x \in BOOLEAN \X BOOLEAN
  PROVE  /\ x[1] \in BOOLEAN /\ x[2] \in BOOLEAN
         /\ x = Fell <=> x[1] /\ ~x[2]
         /\ x = Rose <=> ~x[1] /\ x[2]
  <1>1. PICK a \in BOOLEAN, b \in BOOLEAN : x = <<a, b>>
    OBVIOUS
  <1>2. x[1] = a /\ x[2] = b
    BY <1>1
  <1>3. CASE a /\ b
    BY <1>1, <1>2, <1>3 DEF Fell, Rose
  <1>4. CASE a /\ ~b
    BY <1>1, <1>2, <1>4 DEF Fell, Rose
  <1>5. CASE ~a /\ b
    BY <1>1, <1>2, <1>5 DEF Fell, Rose
  <1>6. CASE ~a /\ ~b
    BY <1>1, <1>2, <1>6 DEF Fell, Rose
  <1>7. QED
    BY <1>1, <1>2, <1>3, <1>4, <1>5, <1>6

\* What a step may do: the property, step by step.
PlayedOk ==
  /\ (codec.bclk # codec'.bclk /\ codec'.bclk /\ due # Nothing) => i2s.data_buf = due
  /\ number' # number => due = Nothing

LEMMA InitI2sInv == I2sInit => I2sInv
  <1> SUFFICES ASSUME I2sInit PROVE I2sInv
    OBVIOUS
  <1>1. I2sTypes
    <2>1. Nothing \in Bits
      BY NothingIs
    <2>2. <<FALSE, FALSE>> \in BOOLEAN \X BOOLEAN
      OBVIOUS
    <2>3. 0 \in 0 .. (TDATA_WIDTH \div 2) - 1 /\ 0 \in Nat
      BY HalfFrame
    <2>4. QED
      BY <2>1, <2>2, <2>3, ClockIs DEF I2sInit, I2sTypes, StreamRegisters
  <1>2. SeenInv
    BY DEF I2sInit, SeenInv
  <1>3. ~Window /\ lrclk_buff[2] = FALSE
    BY DEF I2sInit, Window, Fell
  <1>4. FrameClockInv /\ PhaseInv /\ ShownInv
    BY <1>3 DEF I2sInit, FrameClockInv, PhaseInv, ShownInv
  <1>5. QED
    BY <1>1, <1>2, <1>4 DEF I2sInv

\* bclk falls: lrclk may change, nothing is sampled.
LEMMA FallKeeps == I2sInv /\ BitClock /\ Falls => I2sInv' /\ PlayedOk
  <1> SUFFICES ASSUME I2sInv, BitClock, Falls PROVE I2sInv' /\ PlayedOk
    OBVIOUS
  <1> DEFINE half == TDATA_WIDTH \div 2
             wraps == codec.position + 1 = half
  <1>1. /\ codec.bclk /\ codec.hold >= 2 /\ UNCHANGED <<i2s, number, lrclk_buff, due>>
        /\ codec'.bclk = FALSE /\ codec'.hold = 0
        /\ codec'.lrclk = (IF wraps THEN ~codec.lrclk ELSE codec.lrclk)
        /\ codec'.position = (IF wraps THEN 0 ELSE codec.position + 1)
    BY I2sAssumption DEF BitClock, Falls, I2sInv, I2sTypes, CodecOutputs
  <1>2. codec' \in CodecOutputs
    <2>1. codec'.lrclk \in BOOLEAN
      BY <1>1 DEF I2sInv, I2sTypes, CodecOutputs
    <2>2. codec'.position \in 0 .. half - 1
      BY <1>1, HalfFrame DEF I2sInv, I2sTypes, CodecOutputs
    <2>3. codec' = [bclk |-> FALSE, lrclk |-> codec'.lrclk,
                    position |-> codec'.position, hold |-> 0]
      BY DEF Falls
    <2>4. FALSE \in BOOLEAN /\ 0 \in Nat
      OBVIOUS
    <2>5. QED
      BY <2>1, <2>2, <2>3, <2>4, ClockIs
  <1>3. I2sTypes'
    BY <1>1, <1>2 DEF I2sInv, I2sTypes
  <1>4. SeenInv'
    BY <1>1 DEF I2sInv, I2sTypes, SeenInv
  <1> DEFINE lr == codec.lrclk
             buff == lrclk_buff[2]
  <1>5. FrameClockInv'
    <2>1. Window' = Window /\ lrclk_buff' = lrclk_buff
      BY <1>1 DEF Window
    <2>2. buff => codec.lrclk
      BY <1>1 DEF I2sInv, FrameClockInv
    <2>3. Window => ~codec.lrclk /\ codec.position = 0
      BY <1>1 DEF I2sInv, FrameClockInv
    <2>4. Window => ~wraps
      BY <2>3, HalfFrame
    <2>5. QED
      BY <1>1, <2>1, <2>2, <2>3, <2>4 DEF FrameClockInv
  <1>6. PhaseInv'
    <2>1. due # Nothing => due.bit = Elapsed + 1
      BY <1>1 DEF I2sInv, PhaseInv
    <2>2. \/ Elapsed' = Elapsed + 1
          \/ Elapsed' = 0 /\ Elapsed + 1 = TDATA_WIDTH
      <3>1. codec.position \in 0 .. half - 1 /\ codec.lrclk \in BOOLEAN
        BY DEF I2sInv, I2sTypes, CodecOutputs
      <3>2. CASE wraps /\ codec.lrclk
        <4>1. codec'.lrclk = ~codec.lrclk
          BY <1>1, <3>2
        <4>2. ~codec'.lrclk
          BY <3>2, <4>1, Zenon
        <4>3. codec.position = half - 1 /\ codec'.position = 0
          BY <1>1, <3>1, <3>2, HalfFrame
        <4>4. Elapsed = codec.position + half /\ Elapsed' = 0
          BY <3>2, <4>2, <4>3 DEF Elapsed
        <4>5. QED
          BY <4>3, <4>4, HalfFrame
      <3>3. CASE wraps /\ ~codec.lrclk
        <4>1. codec'.lrclk = ~codec.lrclk
          BY <1>1, <3>3
        <4>2. codec'.lrclk
          BY <3>3, <4>1, Zenon
        <4>3. codec.position = half - 1 /\ codec'.position = 0
          BY <1>1, <3>1, <3>3, HalfFrame
        <4>4. Elapsed = codec.position /\ Elapsed' = half
          BY <3>1, <3>3, <4>2, <4>3, HalfFrame DEF Elapsed
        <4>5. QED
          BY <4>3, <4>4, HalfFrame
      <3>4. CASE ~wraps
        BY <1>1, <3>1, <3>4, HalfFrame DEF Elapsed
      <3>5. QED
        BY <3>2, <3>3, <3>4
    <2>3. QED
      BY <1>1, <2>1, <2>2 DEF I2sInv, PhaseInv, Window
  <1>7. ShownInv'
    BY <1>1 DEF I2sInv, I2sTypes, ShownInv, Window
  <1>8. PlayedOk
    BY <1>1 DEF PlayedOk
  <1>9. QED
    BY <1>3, <1>4, <1>5, <1>6, <1>7, <1>8 DEF I2sInv

\* bclk rises: the codec samples the bit that is shown.
LEMMA RiseSamples == I2sInv /\ BitClock /\ Rises => I2sInv' /\ PlayedOk
  <1> SUFFICES ASSUME I2sInv, BitClock, Rises PROVE I2sInv' /\ PlayedOk
    OBVIOUS
  <1> DEFINE half == TDATA_WIDTH \div 2
  <1>1. /\ ~codec.bclk /\ codec.hold >= 2 /\ UNCHANGED <<i2s, number>>
        /\ codec'.bclk = TRUE /\ codec'.hold = 0
        /\ codec'.lrclk = codec.lrclk /\ codec'.position = codec.position
        /\ lrclk_buff' = <<lrclk_buff[2], codec.lrclk>>
        /\ codec' \in CodecOutputs
    <2>1. codec \in CodecOutputs /\ codec.hold >= 2
      BY I2sAssumption DEF BitClock, I2sInv, I2sTypes, CodecOutputs
    <2>2. codec' = [codec EXCEPT !.bclk = TRUE, !.hold = 0]
      BY DEF Rises
    <2>3. /\ codec'.bclk = TRUE /\ codec'.hold = 0
          /\ codec'.lrclk = codec.lrclk /\ codec'.position = codec.position
          /\ codec' \in CodecOutputs
      BY <2>1, <2>2 DEF CodecOutputs
    <2>4. QED
      BY <2>1, <2>3 DEF BitClock, Rises
  <1>2. \/ due' = Nothing
        \/ /\ due # Nothing /\ due.bit # TDATA_WIDTH
           /\ due' = [due EXCEPT !.bit = @ + 1]
           /\ due'.word = due.word /\ due'.bit = due.bit + 1
    BY <1>1 DEF Rises, I2sInv, I2sTypes
  <1>3. due' \in Bits
    <2>1. due \in Bits /\ (due.bit # TDATA_WIDTH => due.bit < TDATA_WIDTH)
      BY HalfFrame DEF I2sInv, I2sTypes, Bits
    <2>2. QED
      BY <1>2, <2>1, NothingIs, BitAfter
  <1>4. I2sTypes'
    BY <1>1, <1>3 DEF I2sInv, I2sTypes, CodecOutputs
  <1>5. SeenInv'
    BY <1>1 DEF I2sInv, I2sTypes, SeenInv
  <1>6. FrameClockInv'
    BY <1>1, HalfFrame DEF I2sInv, I2sTypes, FrameClockInv, Window, Fell
  <1>7. PhaseInv'
    BY <1>1, <1>2, HalfFrame DEF I2sInv, I2sTypes, Bits, PhaseInv, Elapsed
  \* A new window opens at the end of a frame, when the last bit has been due.
  <1>8. due' # Nothing => ~Window'
    <2> SUFFICES ASSUME Window', due' # Nothing PROVE FALSE
      OBVIOUS
    <2>1. lrclk_buff' \in BOOLEAN \X BOOLEAN /\ lrclk_buff' = Fell
      BY <1>4 DEF I2sTypes, Window
    <2>2. lrclk_buff'[1] /\ ~lrclk_buff'[2]
      BY <2>1, Pairs
    <2>3. lrclk_buff[2] /\ ~codec.lrclk
      BY <1>1, <2>2
    <2>4. Elapsed = 0
      BY <1>1, <2>3 DEF I2sInv, FrameClockInv, Elapsed
    <2>5. due # Nothing /\ due.bit # TDATA_WIDTH
      BY <1>2
    <2>6. QED
      BY <1>1, <2>4, <2>5 DEF I2sInv, PhaseInv
  <1>9. ShownInv'
    BY <1>1, <1>2, <1>8 DEF I2sInv, I2sTypes, Bits, ShownInv
  <1>10. due # Nothing => i2s.data_buf = due
    BY <1>1, SameBits DEF I2sInv, I2sTypes, StreamRegisters, ShownInv
  <1>11. PlayedOk
    BY <1>1, <1>10 DEF PlayedOk
  <1>12. QED
    BY <1>4, <1>5, <1>6, <1>7, <1>9, <1>11 DEF I2sInv

\* The clock of the stream goes on while the codec's stand.
StreamEdge ==
  /\ UNCHANGED lrclk_buff
  /\ codec' = [codec EXCEPT !.hold = @ + 1]
  /\ i2s'.bclk_ctrl = <<i2s.bclk_ctrl[2], codec.bclk>>

LEMMA StreamEdgeKeeps ==
  ASSUME I2sInv, StreamEdge
  PROVE  /\ codec' \in CodecOutputs
         /\ codec'.bclk = codec.bclk /\ codec'.hold = codec.hold + 1
         /\ SeenInv' /\ FrameClockInv' /\ Elapsed' = Elapsed /\ Window' = Window
  <1>1. /\ codec' \in CodecOutputs
        /\ codec'.bclk = codec.bclk /\ codec'.hold = codec.hold + 1
        /\ codec'.lrclk = codec.lrclk /\ codec'.position = codec.position
    BY DEF StreamEdge, I2sInv, I2sTypes, CodecOutputs
  <1>2. SeenInv'
    BY <1>1 DEF StreamEdge, I2sInv, I2sTypes, CodecOutputs, SeenInv
  <1>3. FrameClockInv' /\ Elapsed' = Elapsed /\ Window' = Window
    BY <1>1 DEF StreamEdge, I2sInv, FrameClockInv, Window, Elapsed
  <1>4. QED
    BY <1>1, <1>2, <1>3

\* A reset forgets what was due.
LEMMA ResetKeeps == I2sInv /\ StreamClock /\ StreamReset => I2sInv' /\ PlayedOk
  <1> SUFFICES ASSUME I2sInv, StreamClock, StreamReset PROVE I2sInv' /\ PlayedOk
    OBVIOUS
  <1>1. i2s' \in StreamRegisters
    BY DEF StreamReset, I2sInv, I2sTypes, CodecOutputs, StreamRegisters
  <1>2. StreamEdge
    BY DEF StreamEdge, StreamClock, StreamReset, I2sInv, I2sTypes
  <1>4. I2sTypes'
    BY <1>1, <1>2, NothingIs, StreamEdgeKeeps DEF StreamEdge, StreamReset, I2sInv, I2sTypes
  <1>5. SeenInv' /\ FrameClockInv' /\ PhaseInv' /\ ShownInv'
    BY <1>2, StreamEdgeKeeps DEF StreamReset, PhaseInv, ShownInv
  <1>6. PlayedOk
    BY <1>2, StreamEdgeKeeps DEF PlayedOk, StreamReset
  <1>7. QED
    BY <1>4, <1>5, <1>6 DEF I2sInv

\* A word is taken or shifted, and the next one asked for.
LEMMA LoadKeeps ==
  ASSUME NEW valid \in BOOLEAN, I2sInv, StreamClock, Load(valid)
  PROVE  I2sInv' /\ PlayedOk
  <1> DEFINE taken == valid /\ i2s.TREADY
             shifts == bclk_fall /\ (~lrclkp \/ lrclk_buff = Rose)
             fresh == [word |-> number, bit |-> 1]
             buf == IF shifts THEN Shift(i2s.data_buf) ELSE IF taken THEN fresh ELSE i2s.data_buf
  <1>1. /\ i2s'.bclk_ctrl = <<i2s.bclk_ctrl[2], codec.bclk>>
        /\ i2s'.busy = ((i2s.busy \/ taken) /\ ~(bclk_fall /\ ~lrclkp))
        /\ i2s'.data_buf = buf
        /\ i2s'.TREADY = ((i2s.TREADY /\ ~taken) \/ (~i2s.TREADY /\ Asks))
        /\ i2s' = [bclk_ctrl |-> i2s'.bclk_ctrl, busy |-> i2s'.busy,
                   data_buf |-> i2s'.data_buf, TREADY |-> i2s'.TREADY]
    BY DEF Load
  <1>2. number' = (IF taken THEN (number + 1) % Numbered ELSE number)
    BY DEF Load
  <1>3. due' = IF taken THEN IF Window THEN fresh ELSE Nothing ELSE due
    BY DEF Load
  <1>4. StreamEdge
    BY <1>1 DEF StreamEdge, StreamClock
  <1>5. fresh \in Bits
    BY HalfFrame, BitsAre DEF I2sInv, I2sTypes
  <1>6. Shift(i2s.data_buf) \in Bits
    BY ShiftIs DEF I2sInv, I2sTypes, StreamRegisters
  <1>7. I2sTypes'
    <2>1. number' \in Nat /\ due' \in Bits /\ buf \in Bits
      BY <1>2, <1>3, <1>5, <1>6, NothingIs DEF I2sInv, I2sTypes, StreamRegisters, Numbered
    <2>2. i2s'.busy \in BOOLEAN /\ i2s'.TREADY \in BOOLEAN /\ i2s'.bclk_ctrl \in BOOLEAN \X BOOLEAN
      BY <1>1 DEF I2sInv, I2sTypes, CodecOutputs, StreamRegisters
    <2>3. i2s' \in StreamRegisters
      BY <1>1, <2>1, <2>2 DEF StreamRegisters
    <2>4. QED
      BY <1>4, <2>1, <2>3, StreamEdgeKeeps DEF StreamEdge, I2sInv, I2sTypes
  \* The falling edge is seen in the second edge after it.
  <1>8. bclk_fall <=> ~codec.bclk /\ codec.hold = 1
    <2>1. i2s.bclk_ctrl \in BOOLEAN \X BOOLEAN /\ codec.hold \in Nat
      BY DEF I2sInv, I2sTypes, CodecOutputs, StreamRegisters
    <2>2. bclk_fall <=> i2s.bclk_ctrl[1] /\ ~i2s.bclk_ctrl[2]
      BY <2>1, Pairs DEF bclk_fall, Fell
    <2>3. QED
      BY <2>1, <2>2 DEF I2sInv, SeenInv
  <1>9. shifts <=> ~codec.bclk /\ codec.hold = 1 /\ ~Window
    <2>1. lrclk_buff = Rose => lrclk_buff # Fell
      BY Pairs DEF I2sInv, I2sTypes
    <2>2. QED
      BY <1>8, <2>1 DEF lrclkp, Window
  <1>10. Asks => Window /\ ~i2s.busy
    BY DEF Asks, lrclkp, Window
  <1>11. Window => i2s'.busy = (i2s.busy \/ taken)
    BY <1>1 DEF lrclkp, Window, I2sInv, I2sTypes
  <1>12. CASE taken
    <2>1. due = Nothing
      BY <1>12 DEF I2sInv, ShownInv
    <2>2. CASE ~Window
      BY <1>2, <1>3, <1>4, <1>7, <1>12, <2>1, <2>2, StreamEdgeKeeps
         DEF I2sInv, PhaseInv, ShownInv, PlayedOk
    <2>3. CASE Window
      <3>1. due' = fresh /\ i2s'.data_buf = fresh /\ i2s'.busy /\ ~i2s'.TREADY
        BY <1>1, <1>3, <1>9, <1>11, <1>12, <2>3
      <3>2. Elapsed = IF codec.bclk THEN 0 ELSE 1
        BY <2>3, HalfFrame DEF I2sInv, I2sTypes, FrameClockInv, Elapsed
      <3>3. due'.word = number /\ due'.bit = 1
        BY <3>1
      <3>4. PhaseInv'
        BY <1>4, <2>3, <3>2, <3>3, StreamEdgeKeeps DEF PhaseInv
      <3>5. ShownInv'
        BY <1>4, <2>3, <3>1, StreamEdgeKeeps DEF ShownInv
      <3>6. QED
        BY <1>4, <1>7, <2>1, <3>4, <3>5, StreamEdgeKeeps DEF I2sInv, PlayedOk
    <2>4. QED
      BY <2>2, <2>3
  <1>13. CASE ~taken
    <2>1. due' = due /\ number' = number
      BY <1>2, <1>3, <1>13
    <2>2. PhaseInv'
      BY <1>4, <2>1, StreamEdgeKeeps DEF I2sInv, PhaseInv
    <2>3. ShownInv'
      <3> SUFFICES ASSUME due # Nothing PROVE ShownInv'
        BY <2>1 DEF ShownInv
      <3>1. ~i2s'.TREADY /\ (Window => i2s'.busy)
        BY <1>1, <1>10, <1>11 DEF I2sInv, ShownInv
      <3>2. CASE shifts
        <4>1. i2s.data_buf.word = due.word /\ i2s.data_buf.bit = due.bit - 1
          BY <1>9, <3>2 DEF I2sInv, ShownInv
        <4>2. i2s.data_buf \in Bits /\ due.bit \in 2 .. TDATA_WIDTH
          BY <1>9, <3>2, HalfFrame DEF I2sInv, I2sTypes, StreamRegisters, Bits, PhaseInv
        <4>3. i2s.data_buf.bit \in 1 .. TDATA_WIDTH - 1
          BY <4>1, <4>2, HalfFrame
        <4>4. i2s'.data_buf.word = due.word /\ i2s'.data_buf.bit = due.bit
          BY <1>1, <3>2, <4>1, <4>2, <4>3, ShiftIs
        <4>5. QED
          BY <1>4, <1>9, <2>1, <3>1, <3>2, <4>4, StreamEdgeKeeps
             DEF StreamEdge, I2sInv, I2sTypes, ShownInv
      <3>3. CASE ~shifts
        <4>1. i2s'.data_buf = i2s.data_buf
          BY <1>1, <1>13, <3>3
        <4>2. QED
          BY <1>4, <1>9, <2>1, <3>1, <3>3, <4>1, StreamEdgeKeeps
             DEF I2sInv, I2sTypes, CodecOutputs, ShownInv
      <3>4. QED
        BY <3>2, <3>3
    <2>4. QED
      BY <1>4, <1>7, <2>1, <2>2, <2>3, StreamEdgeKeeps DEF I2sInv, PlayedOk
  <1>14. QED
    BY <1>12, <1>13

LEMMA I2sStep == I2sInv /\ [I2sNext]_i2sVars => I2sInv' /\ (PlayedOk \/ UNCHANGED i2sVars)
  <1> SUFFICES ASSUME I2sInv, [I2sNext]_i2sVars PROVE I2sInv' /\ (PlayedOk \/ UNCHANGED i2sVars)
    OBVIOUS
  <1>1. CASE BitClock
    BY <1>1, FallKeeps, RiseSamples DEF BitClock
  <1>2. CASE StreamClock
    BY <1>2, ResetKeeps, LoadKeeps DEF StreamClock
  <1>3. CASE UNCHANGED i2sVars
    BY <1>3
       DEF i2sVars, I2sInv, I2sTypes, SeenInv, FrameClockInv, PhaseInv, ShownInv, Window,
           Elapsed
  <1>4. QED
    BY <1>1, <1>2, <1>3 DEF I2sNext

\* The inductive invariant of the I2S slave, for any width of a word and any ratio of the
\* two clocks the code can be built and run with.
THEOREM I2sCorrect == I2sSpec => []I2sInv
  <1>1. I2sInv /\ [I2sNext]_i2sVars => I2sInv'
    BY I2sStep
  <1>2. QED
    BY InitI2sInv, <1>1, PTL DEF I2sSpec

\* A word taken in time is played whole: at every rising edge of bclk the codec samples
\* the next bit of it, and no other word is taken before the last one (the always block
\* of I2S_slave_v1_0.v on S_AXIS_ACLK).
THEOREM WordsPlayed == I2sSpec => TakenWordPlayed
  <1>1. I2sInv /\ [I2sNext]_i2sVars =>
          [/\ (codec.bclk # codec'.bclk /\ codec'.bclk /\ due # Nothing) => i2s.data_buf = due
           /\ number' # number => due = Nothing]_i2sVars
    BY I2sStep DEF PlayedOk
  <1>2. QED
    BY I2sCorrect, <1>1, PTL DEF I2sSpec, TakenWordPlayed

(***************************************************************************)
(* The stream interfaces of the AES core: a word is on offer, on its way   *)
(* through the cipher at a known step, or in M_AXIS.                       *)
(***************************************************************************)

Items == [word : Int, key : Int]
ControlBits == [reg : BOOLEAN, sig : BOOLEAN, prev : BOOLEAN]
Offer == [word : Int, valid : BOOLEAN, follows : BOOLEAN]
SinkRegisters ==
  [state : {"S0", "S1", "S2"}, TREADY : BOOLEAN, setup_done_reg : BOOLEAN,
   data_valid : BOOLEAN, data : Int, key : Int, key_valid : BOOLEAN]
PulseRegisters ==
  [start : BOOLEAN, start_prev : BOOLEAN, kload : BOOLEAN, kload_prev : BOOLEAN]
CipherRegisters ==
  [dcnt : Nat, done : BOOLEAN, kcnt : Int, kb_ld : BOOLEAN, kdone : BOOLEAN,
   work : Items, schedule : Int]
MasterRegisters ==
  [state : {"S0", "S1", "S2"}, TVALID : BOOLEAN, TDATA : Items, busy : BOOLEAN]

AesTypes ==
  /\ decipher \in BOOLEAN /\ fifo \in BOOLEAN /\ sampled \in BOOLEAN /\ disturbed \in BOOLEAN
  /\ control \in ControlBits
  /\ source \in Offer
  /\ sink \in SinkRegisters
  /\ pulses \in PulseRegisters
  /\ cipher \in CipherRegisters
  /\ master \in MasterRegisters

\* The key: in S2 the schedule is being made, elsewhere it is that of the key.
KeyInv ==
  /\ ~decipher => sink.state # "S2"
  /\ sink.state # "S2" =>
       /\ sink.key_valid /\ ~cipher.kdone /\ ~cipher.kb_ld /\ cipher.kcnt # 0
       /\ pulses.kload => pulses.kload_prev
       /\ decipher => cipher.schedule = sink.key
  /\ sink.state = "S2" =>
       /\ ~sink.key_valid /\ ~sink.data_valid
       /\ cipher.kdone => /\ ~cipher.kb_ld /\ cipher.kcnt # 0 /\ cipher.schedule = sink.key
                          /\ pulses.kload /\ pulses.kload_prev
       /\ cipher.kb_ld => pulses.kload /\ pulses.kload_prev
       /\ ~cipher.kdone /\ ~cipher.kb_ld => cipher.kcnt # 0 /\ (pulses.kload => ~pulses.kload_prev)

Idle == cipher.dcnt = 0 /\ ~cipher.done
Running == cipher.dcnt \in 1 .. 11 /\ ~cipher.done
Finished == cipher.done /\ cipher.dcnt = IF decipher THEN 12 ELSE 0

\* The way of a word through the core: S1 begins, data_valid, start, the cipher.  A setup
\* request takes data_valid away, and then it stays away.
WayInv ==
  /\ sink.state # "S1" => /\ Idle
                          /\ pulses.start => pulses.start_prev
                          /\ sink.data_valid => pulses.start
  /\ sink.state = "S1" =>
       \/ /\ Idle /\ ~sink.data_valid
          /\ pulses.start => pulses.start_prev
       \/ Idle /\ sink.data_valid /\ ~pulses.start
       \/ /\ Idle /\ pulses.start /\ ~pulses.start_prev
          /\ ~sink.data_valid => ~sink.setup_done_reg
       \/ /\ Running \/ Finished
          /\ pulses.start => pulses.start_prev
          /\ sink.data_valid => pulses.start
          /\ ~sink.data_valid => ~sink.setup_done_reg
          /\ cipher.work = [word |-> sink.data, key |-> sink.key]

\* What has been sampled and not been put out is in the cipher or in M_AXIS.
PendingInv ==
  /\ sink.state = "S1" => /\ master.state = "S0"
                          /\ pending = <<[word |-> sink.data, key |-> sink.key]>>
  /\ sink.state # "S1" => pending = IF master.state = "S0" THEN <<>> ELSE <<master.TDATA>>
MasterInv ==
  /\ master.state # "S0" => ~master.TVALID
  /\ master.state = "S2" => master.busy
  /\ master.TVALID => Idle

\* A setup is asked for: the control bit has not passed yet, or its key is missing.
Asked == control.reg \/ control.sig \/ ~sink.setup_done_reg
\* As long as the control bit has only been set when the core was empty: nothing is on offer
\* while it is set, and from there until the key comes the core stays empty and is ready for it.
SetupInv ==
  /\ control.reg => ~source.valid
  /\ Asked => sink.state = "S0" /\ pending = <<>> /\ ~master.TVALID
  /\ control.prev /\ (control.reg \/ control.sig) => ~sink.setup_done_reg
  /\ source.valid /\ setup_needed => sink.TREADY
\* Then a word that has been sampled is taken in the next edge, and the FIFO has room when
\* M_AXIS is about to speak.
TakenInv ==
  /\ sampled => source.valid /\ sink.TREADY /\ sink.state = "S1" /\ ~cipher.done
  /\ sink.state # "S0" /\ sink.TREADY => sampled \/ ~source.valid \/ source.follows
  /\ master.state = "S1" => fifo

AesInv ==
  /\ AesTypes /\ KeyInv /\ WayInv /\ PendingInv /\ MasterInv
  /\ ~disturbed => SetupInv /\ TakenInv

--------------------------------------------------------------------------------
(* the registers after an edge, field by field                                 *)

\* S0: a key is sampled, or a word, or nothing.
LEMMA SinkIdleIs ==
  ASSUME AesTypes, sink.state = "S0"
  PROVE  LET n == SinkIdle
             key == setup_needed /\ source.valid
             data == ~setup_needed /\ ~bsy /\ source.valid IN
         /\ n \in SinkRegisters
         /\ n.TREADY <=> setup_needed \/ ~bsy
         /\ ~n.data_valid
         /\ n.setup_done_reg <=> ~setup_needed \/ source.valid
         /\ n.state = IF data THEN "S1" ELSE IF key /\ decipher THEN "S2" ELSE "S0"
         /\ n.key_valid <=> ~(key /\ decipher)
         /\ n.key = IF key THEN source.word ELSE sink.key
         /\ n.data = IF data THEN source.word ELSE sink.data
  <1> DEFINE ready == setup_needed \/ ~bsy
             r == [sink EXCEPT !.TREADY = ready, !.data_valid = FALSE, !.key_valid = TRUE]
  <1>1. /\ ready \in BOOLEAN /\ source.valid \in BOOLEAN /\ source.word \in Int
        /\ decipher \in BOOLEAN /\ bsy \in BOOLEAN
    BY DEF AesTypes, Offer, MasterRegisters, ControlBits, bsy, setup_needed, setup_req,
           SinkRegisters
  <1>2. /\ r \in SinkRegisters /\ r.state = "S0" /\ r.TREADY = ready /\ r.data_valid = FALSE
        /\ r.key_valid = TRUE /\ r.key = sink.key /\ r.data = sink.data
        /\ r.setup_done_reg = sink.setup_done_reg
    BY <1>1 DEF AesTypes, SinkRegisters
  <1>3. SinkIdle = IF setup_needed
                   THEN IF source.valid THEN KeyTaken(r) ELSE [r EXCEPT !.setup_done_reg = FALSE]
                   ELSE IF SamplesData THEN [r EXCEPT !.data = source.word, !.state = "S1"]
                   ELSE r
    BY DEF SinkIdle
  <1>4. SamplesData <=> ~setup_needed /\ ~bsy /\ source.valid
    BY DEF SamplesData
  <1>5. ~setup_needed => sink.setup_done_reg
    BY DEF setup_needed
  <1> HIDE DEF r, ready
  <1>6. CASE setup_needed /\ source.valid
    <2>1. SinkIdle = [r EXCEPT !.setup_done_reg = TRUE, !.key = source.word,
            !.key_valid = ~decipher, !.state = IF decipher THEN "S2" ELSE "S0"]
      BY <1>3, <1>6 DEF KeyTaken
    <2>2. QED
      BY <1>1, <1>2, <1>6, <2>1 DEF SinkRegisters, ready
  <1>7. CASE setup_needed /\ ~source.valid
    BY <1>1, <1>2, <1>3, <1>7 DEF SinkRegisters, ready
  <1>8. CASE ~setup_needed /\ SamplesData
    BY <1>1, <1>2, <1>3, <1>4, <1>5, <1>8 DEF SinkRegisters, ready
  <1>9. CASE ~setup_needed /\ ~SamplesData
    BY <1>1, <1>2, <1>3, <1>4, <1>5, <1>9 DEF ready
  <1>10. QED
    BY <1>6, <1>7, <1>8, <1>9

\* S1: when the cipher is done, a key that is asked for and on offer is taken.
LEMMA SinkBusyIs ==
  ASSUME AesTypes, sink.state = "S1"
  PROVE  LET n == SinkBusy
             key == cipher.done /\ setup_needed /\ source.valid IN
         /\ n \in SinkRegisters
         /\ n.TREADY <=> setup_needed /\ cipher.done
         /\ n.data_valid <=> ~setup_needed
         /\ n.setup_done_reg <=> ~setup_needed \/ key
         /\ n.state = IF ~cipher.done THEN "S1" ELSE IF key /\ decipher THEN "S2" ELSE "S0"
         /\ n.key_valid = IF key THEN ~decipher ELSE sink.key_valid
         /\ n.key = IF key THEN source.word ELSE sink.key
         /\ n.data = sink.data
  <1> DEFINE ready == setup_needed /\ cipher.done
             dv == ~setup_needed
             r == [sink EXCEPT !.TREADY = ready, !.data_valid = dv]
  <1>1. /\ ready \in BOOLEAN /\ dv \in BOOLEAN /\ cipher.done \in BOOLEAN
        /\ decipher \in BOOLEAN /\ source.valid \in BOOLEAN /\ source.word \in Int
    BY DEF AesTypes, CipherRegisters, setup_needed, setup_req, ControlBits, SinkRegisters, Offer
  <1>2. /\ r \in SinkRegisters /\ r.state = "S1" /\ r.TREADY = ready /\ r.data_valid = dv
        /\ r.key_valid = sink.key_valid /\ r.key = sink.key /\ r.data = sink.data
        /\ r.setup_done_reg = sink.setup_done_reg
    BY <1>1 DEF AesTypes, SinkRegisters
  <1>3. SinkBusy =
          CASE ~cipher.done -> [r EXCEPT !.setup_done_reg = @ /\ ~setup_needed]
            [] cipher.done /\ setup_needed ->
                 IF source.valid THEN KeyTaken(r)
                 ELSE [r EXCEPT !.setup_done_reg = FALSE, !.state = "S0"]
            [] OTHER -> [r EXCEPT !.state = "S0"]
    BY DEF SinkBusy
  <1>4. ~setup_needed => sink.setup_done_reg
    BY DEF setup_needed
  <1> HIDE DEF r, ready, dv
  <1>5. CASE ~cipher.done
    <2>1. SinkBusy = [r EXCEPT !.setup_done_reg = @ /\ ~setup_needed]
      BY <1>3, <1>5
    <2>2. QED
      BY <1>1, <1>2, <1>4, <1>5, <2>1 DEF SinkRegisters, ready, dv
  <1>6. CASE cipher.done /\ setup_needed /\ ~source.valid
    <2>1. SinkBusy = [r EXCEPT !.setup_done_reg = FALSE, !.state = "S0"]
      BY <1>3, <1>6
    <2>2. QED
      BY <1>1, <1>2, <1>6, <2>1 DEF SinkRegisters, ready, dv
  <1>7. CASE cipher.done /\ setup_needed /\ source.valid
    <2>1. SinkBusy = [r EXCEPT !.setup_done_reg = TRUE, !.key = source.word,
            !.key_valid = ~decipher, !.state = IF decipher THEN "S2" ELSE "S0"]
      BY <1>3, <1>7 DEF KeyTaken
    <2>2. QED
      BY <1>1, <1>2, <1>7, <2>1 DEF SinkRegisters, ready, dv
  <1>8. CASE cipher.done /\ ~setup_needed
    <2>1. SinkBusy = [r EXCEPT !.state = "S0"]
      BY <1>3, <1>8
    <2>2. QED
      BY <1>1, <1>2, <1>4, <1>8, <2>1 DEF SinkRegisters, ready, dv
  <1>9. QED
    BY <1>5, <1>6, <1>7, <1>8

\* S2: the schedule of the key is waited for.
LEMMA SinkKeyIs ==
  ASSUME AesTypes, sink.state = "S2"
  PROVE  LET n == SinkKey IN
         /\ n \in SinkRegisters
         /\ ~n.TREADY
         /\ n.key_valid = cipher.kdone
         /\ n.state = IF cipher.kdone THEN "S0" ELSE "S2"
         /\ n.data_valid = sink.data_valid /\ n.setup_done_reg = sink.setup_done_reg
         /\ n.key = sink.key /\ n.data = sink.data
  <1> DEFINE st == IF cipher.kdone THEN "S0" ELSE "S2"
  <1>1. cipher.kdone \in BOOLEAN /\ st \in {"S0", "S1", "S2"}
    BY DEF AesTypes, CipherRegisters
  <1>2. SinkKey = [sink EXCEPT !.TREADY = FALSE, !.key_valid = cipher.kdone, !.state = st]
    BY DEF SinkKey
  <1> HIDE DEF st
  <1>3. QED
    BY <1>1, <1>2 DEF AesTypes, SinkRegisters, st

\* The two counters of the cipher.
LEMMA CipherIs ==
  ASSUME AesTypes
  PROVE  LET n == CipherNext IN
         /\ n \in CipherRegisters
         /\ n.done <=> cipher.dcnt = (IF decipher THEN 11 ELSE 1) /\ ~start_pulse
         /\ n.dcnt = IF decipher
                     THEN IF cipher.done THEN 0 ELSE IF start_pulse THEN 1
                          ELSE IF cipher.dcnt = 0 THEN 0 ELSE cipher.dcnt + 1
                     ELSE IF start_pulse THEN 11
                          ELSE IF cipher.dcnt = 0 THEN 0 ELSE cipher.dcnt - 1
         /\ n.work = IF start_pulse
                     THEN [word |-> sink.data,
                           key |-> IF decipher THEN cipher.schedule ELSE sink.key]
                     ELSE cipher.work
         /\ n.kcnt = IF kload_pulse THEN 10
                     ELSE IF cipher.kb_ld THEN (cipher.kcnt - 1) % 16 ELSE cipher.kcnt
         /\ n.kb_ld <=> kload_pulse \/ (cipher.kb_ld /\ cipher.kcnt # 0)
         /\ n.kdone <=> cipher.kcnt = 0 /\ ~kload_pulse
         /\ n.schedule = IF kload_pulse THEN -1
                         ELSE IF cipher.kb_ld /\ cipher.kcnt = 0 THEN sink.key
                         ELSE cipher.schedule
  <1> DEFINE key == IF decipher THEN cipher.schedule ELSE sink.key
             done == cipher.dcnt = (IF decipher THEN 11 ELSE 1) /\ ~start_pulse
             dcnt == IF decipher
                     THEN CASE cipher.done -> 0 [] ~cipher.done /\ start_pulse -> 1
                            [] OTHER -> IF cipher.dcnt = 0 THEN 0 ELSE cipher.dcnt + 1
                     ELSE IF start_pulse THEN 11
                          ELSE IF cipher.dcnt = 0 THEN 0 ELSE cipher.dcnt - 1
             count == IF decipher
                      THEN IF cipher.done THEN 0 ELSE IF start_pulse THEN 1
                           ELSE IF cipher.dcnt = 0 THEN 0 ELSE cipher.dcnt + 1
                      ELSE IF start_pulse THEN 11
                           ELSE IF cipher.dcnt = 0 THEN 0 ELSE cipher.dcnt - 1
             item == [word |-> sink.data, key |-> key]
             work == IF start_pulse THEN item ELSE cipher.work
             kcnt == IF kload_pulse THEN 10
                     ELSE IF cipher.kb_ld THEN (cipher.kcnt - 1) % 16 ELSE cipher.kcnt
             ld == kload_pulse \/ (cipher.kb_ld /\ cipher.kcnt # 0)
             kdone == cipher.kcnt = 0 /\ ~kload_pulse
             sched == IF kload_pulse THEN -1
                      ELSE IF cipher.kb_ld /\ cipher.kcnt = 0 THEN sink.key
                      ELSE cipher.schedule
  <1>1. start_pulse \in BOOLEAN /\ kload_pulse \in BOOLEAN
    BY DEF AesTypes, PulseRegisters, start_pulse, kload_pulse
  <1>2. dcnt = count
    BY DEF AesTypes, CipherRegisters
  <1>3. /\ key \in Int /\ done \in BOOLEAN /\ count \in Nat /\ kcnt \in Int
        /\ ld \in BOOLEAN /\ kdone \in BOOLEAN /\ sched \in Int
    BY <1>1 DEF AesTypes, CipherRegisters, SinkRegisters
  <1>4. item \in Items
    BY <1>3 DEF AesTypes, SinkRegisters, Items
  <1>5. work \in Items
    BY <1>4 DEF AesTypes, CipherRegisters
  <1>6. CipherNext = [cipher EXCEPT !.done = done, !.dcnt = dcnt, !.work = work, !.kcnt = kcnt,
                        !.kb_ld = ld, !.kdone = kdone, !.schedule = sched]
    BY DEF CipherNext
  <1> HIDE DEF key, done, dcnt, item, work, kcnt, ld, kdone, sched, count
  <1>7. cipher \in CipherRegisters
    BY DEF AesTypes
  <1>8. /\ CipherNext \in CipherRegisters
        /\ CipherNext.done = done /\ CipherNext.dcnt = count /\ CipherNext.work = work
        /\ CipherNext.kcnt = kcnt /\ CipherNext.kb_ld = ld /\ CipherNext.kdone = kdone
        /\ CipherNext.schedule = sched
    BY <1>2, <1>3, <1>5, <1>6, <1>7 DEF CipherRegisters
  <1>9. QED
    BY <1>1, <1>3, <1>8 DEF key, done, count, item, work, kcnt, ld, kdone, sched

\* M_AXIS
LEMMA MasterIs ==
  ASSUME AesTypes
  PROVE  LET n == MasterNext IN
         /\ n \in MasterRegisters
         /\ n.TVALID <=> master.state = "S1" \/ (master.state = "S2" /\ master.TVALID)
         /\ n.busy <=> master.state # "S0" \/ ~fifo
         /\ n.TDATA = IF master.state = "S0" /\ cipher.done THEN cipher.work ELSE master.TDATA
         /\ n.state = IF master.state = "S0"
                      THEN IF ~cipher.done THEN "S0" ELSE IF fifo THEN "S1" ELSE "S2"
                      ELSE IF master.state = "S1" THEN "S0"
                      ELSE IF fifo THEN "S1" ELSE "S2"
  <1>1. /\ master \in MasterRegisters /\ cipher.work \in Items /\ fifo \in BOOLEAN
        /\ cipher.done \in BOOLEAN
    BY DEF AesTypes, CipherRegisters
  <1>2. CASE master.state = "S0"
    <2> DEFINE st == IF ~cipher.done THEN "S0" ELSE IF fifo THEN "S1" ELSE "S2"
               td == IF cipher.done THEN cipher.work ELSE master.TDATA
               full == ~fifo
    <2>1. MasterNext = [master EXCEPT !.TVALID = FALSE, !.busy = full, !.TDATA = td, !.state = st]
      BY <1>2 DEF MasterNext
    <2>2. st \in {"S0", "S1", "S2"} /\ td \in Items /\ full \in BOOLEAN
      BY <1>1 DEF MasterRegisters
    <2> HIDE DEF st, td, full
    <2>3. QED
      BY <1>1, <1>2, <2>1, <2>2 DEF MasterRegisters, st, td, full
  <1>3. CASE master.state = "S1"
    <2>1. MasterNext = [master EXCEPT !.TVALID = TRUE, !.busy = TRUE, !.state = "S0"]
      BY <1>3 DEF MasterNext
    <2>2. QED
      BY <1>1, <1>3, <2>1 DEF MasterRegisters
  <1>4. CASE master.state = "S2"
    <2> DEFINE st == IF fifo THEN "S1" ELSE "S2"
    <2>1. MasterNext = [master EXCEPT !.busy = TRUE, !.state = st]
      BY <1>4 DEF MasterNext
    <2>2. st \in {"S0", "S1", "S2"}
      OBVIOUS
    <2> HIDE DEF st
    <2>3. QED
      BY <1>1, <1>4, <2>1, <2>2 DEF MasterRegisters, st
  <1>5. QED
    BY <1>1, <1>2, <1>3, <1>4 DEF MasterRegisters

LEMMA PulsesAre ==
  ASSUME AesTypes
  PROVE  LET n == PulsesNext IN
         /\ n \in PulseRegisters
         /\ n.start = sink.data_valid /\ n.start_prev = pulses.start
         /\ n.kload <=> decipher /\ ~sink.key_valid
         /\ n.kload_prev = pulses.kload
  <1>1. (decipher /\ ~sink.key_valid) \in BOOLEAN
    OBVIOUS
  <1>2. QED
    BY <1>1 DEF AesTypes, PulsesNext, PulseRegisters, SinkRegisters

\* The DMA channel: a word stays on offer until it is taken.
LEMMA OfferIs ==
  ASSUME AesTypes, NEW valid \in BOOLEAN, Offers(valid)
  PROVE  /\ source' \in Offer
         /\ source'.follows <=> TakesIn
         /\ ~TakesIn /\ source.valid => source'.valid
  <1>1. CASE TakesIn
    <2>1. source' = [word |-> (source.word + 1) % Words, valid |-> valid, follows |-> TRUE]
      BY <1>1 DEF Offers
    <2>2. (source.word + 1) % Words \in Int
      BY StreamAssumption DEF AesTypes, Offer
    <2> DEFINE w == (source.word + 1) % Words
    <2> HIDE DEF w
    <2>3. QED
      BY <1>1, <2>1, <2>2 DEF Offer, w
  <1>2. CASE ~TakesIn
    <2> DEFINE v == source.valid \/ valid
    <2>1. source' = [source EXCEPT !.valid = v, !.follows = FALSE]
      BY <1>2 DEF Offers
    <2>2. v \in BOOLEAN /\ (source.valid => v)
      BY DEF AesTypes, Offer
    <2> HIDE DEF v
    <2>3. source' \in Offer /\ source'.follows = FALSE /\ source'.valid = v
      BY <2>1, <2>2 DEF AesTypes, Offer
    <2>4. QED
      BY <1>2, <2>2, <2>3
  <1>3. QED
    BY <1>1, <1>2

--------------------------------------------------------------------------------
(* an edge keeps the invariant                                                 *)

LEMMA InitAesInv == AesInit => AesInv
  <1> SUFFICES ASSUME AesInit PROVE AesInv
    OBVIOUS
  <1>1. AesTypes
    <2>1. NoBlock \in Items
      BY DEF NoBlock, Items
    <2>2. control \in ControlBits /\ source \in Offer /\ pulses \in PulseRegisters
      BY DEF AesInit, ControlBits, Offer, PulseRegisters
    <2>3. sink \in SinkRegisters
      BY DEF AesInit, SinkRegisters
    <2>4. cipher \in CipherRegisters
      BY <2>1 DEF AesInit, CipherRegisters
    <2>5. master \in MasterRegisters
      BY <2>1 DEF AesInit, MasterRegisters
    <2>6. QED
      BY <2>2, <2>3, <2>4, <2>5 DEF AesInit, AesTypes
  <1>2. /\ ~control.reg /\ ~control.sig /\ ~control.prev /\ ~source.valid /\ fifo /\ ~sampled
        /\ sink.state = "S0" /\ ~sink.data_valid /\ sink.key_valid /\ sink.key = -1
        /\ sink.setup_done_reg
        /\ ~pulses.start /\ ~pulses.kload
        /\ cipher.dcnt = 0 /\ ~cipher.done /\ ~cipher.kb_ld /\ ~cipher.kdone
        /\ cipher.kcnt = 10 /\ cipher.schedule = -1
        /\ master.state = "S0" /\ ~master.TVALID /\ pending = <<>>
    BY DEF AesInit
  <1>3. SetupInv /\ TakenInv /\ KeyInv
    BY <1>2 DEF SetupInv, TakenInv, KeyInv, Asked
  <1>4. WayInv /\ PendingInv /\ MasterInv
    BY <1>2 DEF WayInv, PendingInv, MasterInv, Idle
  <1>5. QED
    BY <1>1, <1>3, <1>4 DEF AesInv

LEMMA SetupIs ==
  ASSUME AesTypes
  PROVE  /\ setup_needed \in BOOLEAN
         /\ setup_needed <=> (control.sig /\ ~control.prev) \/ ~sink.setup_done_reg
         /\ setup_needed => Asked
         /\ bsy <=> master.busy \/ control.reg
  BY DEF AesTypes, SinkRegisters, ControlBits, setup_needed, setup_req, Asked, bsy

\* No word is begun in the cipher but by the one pulse of S1.
LEMMA StartIs ==
  ASSUME AesInv
  PROVE  /\ start_pulse <=> pulses.start /\ ~pulses.start_prev
         /\ sink.state # "S1" => ~start_pulse
  BY DEF AesInv, WayInv, start_pulse

\* An edge, register by register.
LEMMA EdgeIs ==
  ASSUME NEW valid \in BOOLEAN, NEW reg \in BOOLEAN, NEW room \in BOOLEAN,
         AesEdge(valid, reg, room)
  PROVE  /\ Offers(valid) /\ decipher' = decipher
         /\ control'.reg = reg /\ control'.sig = control.reg /\ control'.prev = control.sig
         /\ control' = [reg |-> reg, sig |-> control.reg, prev |-> control.sig]
         /\ sink.state = "S0" => sink' = SinkIdle
         /\ sink.state = "S1" => sink' = SinkBusy
         /\ sink.state = "S2" => sink' = SinkKey
         /\ pulses' = PulsesNext /\ cipher' = CipherNext /\ master' = MasterNext
         /\ fifo /\ ~master.TVALID /\ ~reg /\ ~control.reg /\ ~control.sig => room
         /\ fifo' = room
         /\ sampled' = ((sampled \/ SamplesKey \/ SamplesData) /\ ~TakesIn)
         /\ disturbed' = (disturbed \/ Disturbs(reg))
  BY DEF AesEdge, Room

LEMMA TypesKept ==
  ASSUME AesInv, NEW valid \in BOOLEAN, NEW reg \in BOOLEAN, NEW room \in BOOLEAN,
         AesEdge(valid, reg, room)
  PROVE  AesTypes'
  <1>1. AesTypes /\ sink.state \in {"S0", "S1", "S2"}
    BY DEF AesInv, AesTypes, SinkRegisters
  <1>2. source' \in Offer
    BY <1>1, EdgeIs, OfferIs
  <1>3. control' \in ControlBits
    BY <1>1, EdgeIs DEF AesTypes, ControlBits
  <1>4. pulses' \in PulseRegisters /\ cipher' \in CipherRegisters /\ master' \in MasterRegisters
    BY <1>1, EdgeIs, PulsesAre, CipherIs, MasterIs
  <1>5. sink' \in SinkRegisters
    BY <1>1, EdgeIs, SinkIdleIs, SinkBusyIs, SinkKeyIs
  <1>6. decipher' \in BOOLEAN /\ fifo' \in BOOLEAN /\ sampled' \in BOOLEAN /\ disturbed' \in BOOLEAN
    BY <1>1, EdgeIs DEF AesTypes
  <1>7. QED
    BY <1>2, <1>3, <1>4, <1>5, <1>6 DEF AesTypes

LEMMA KeyKept ==
  ASSUME AesInv, NEW valid \in BOOLEAN, NEW reg \in BOOLEAN, NEW room \in BOOLEAN,
         AesEdge(valid, reg, room)
  PROVE  KeyInv'
  <1>1. AesTypes /\ KeyInv /\ sink.state \in {"S0", "S1", "S2"} /\ AesTypes'
    BY TypesKept DEF AesInv, AesTypes, SinkRegisters
  <1>2. kload_pulse <=> decipher /\ pulses.kload /\ ~pulses.kload_prev
    BY DEF kload_pulse
  <1>3. /\ pulses'.kload <=> decipher /\ ~sink.key_valid
        /\ pulses'.kload_prev = pulses.kload
    BY <1>1, EdgeIs, PulsesAre
  <1>4. /\ cipher'.kcnt = IF kload_pulse THEN 10
                          ELSE IF cipher.kb_ld THEN (cipher.kcnt - 1) % 16 ELSE cipher.kcnt
        /\ cipher'.kb_ld <=> kload_pulse \/ (cipher.kb_ld /\ cipher.kcnt # 0)
        /\ cipher'.kdone <=> cipher.kcnt = 0 /\ ~kload_pulse
        /\ cipher'.schedule = IF kload_pulse THEN -1
                              ELSE IF cipher.kb_ld /\ cipher.kcnt = 0 THEN sink.key
                              ELSE cipher.schedule
    BY <1>1, EdgeIs, CipherIs
  <1>5. decipher' = decipher
    BY EdgeIs
  <1>6. CASE sink.state = "S0"
    <2>1. /\ sink'.state # "S2" => sink'.key_valid
          /\ sink'.state # "S2" => sink'.key = sink.key \/ ~decipher
          /\ sink'.state = "S2" => decipher /\ ~sink'.key_valid /\ ~sink'.data_valid
      BY <1>1, <1>6, EdgeIs, SinkIdleIs
    <2>2. /\ sink.key_valid /\ ~cipher.kdone /\ ~cipher.kb_ld /\ cipher.kcnt # 0
          /\ pulses.kload => pulses.kload_prev
          /\ decipher => cipher.schedule = sink.key
      BY <1>1, <1>6 DEF KeyInv
    <2>3. ~kload_pulse
      BY <1>2, <2>2
    <2>4. /\ cipher'.kcnt # 0 /\ ~cipher'.kb_ld /\ ~cipher'.kdone
          /\ cipher'.schedule = cipher.schedule /\ ~pulses'.kload
      BY <1>3, <1>4, <2>2, <2>3
    <2>5. QED
      BY <1>5, <2>1, <2>2, <2>4 DEF KeyInv
  <1>7. CASE sink.state = "S1"
    <2>1. /\ sink'.state # "S2" /\ ~decipher => sink'.key_valid \/ ~sink.key_valid
          /\ sink'.state # "S2" /\ decipher => /\ sink'.key_valid = sink.key_valid
                                              /\ sink'.key = sink.key
          /\ sink'.state = "S2" => decipher /\ ~sink'.key_valid /\ ~sink'.data_valid
      BY <1>1, <1>7, EdgeIs, SinkBusyIs
    <2>2. /\ sink.key_valid /\ ~cipher.kdone /\ ~cipher.kb_ld /\ cipher.kcnt # 0
          /\ pulses.kload => pulses.kload_prev
          /\ decipher => cipher.schedule = sink.key
      BY <1>1, <1>7 DEF KeyInv
    <2>3. ~kload_pulse
      BY <1>2, <2>2
    <2>4. /\ cipher'.kcnt # 0 /\ ~cipher'.kb_ld /\ ~cipher'.kdone
          /\ cipher'.schedule = cipher.schedule /\ ~pulses'.kload
      BY <1>3, <1>4, <2>2, <2>3
    <2>5. QED
      BY <1>5, <2>1, <2>2, <2>4 DEF KeyInv
  <1>8. CASE sink.state = "S2"
    <2>1. /\ sink'.state = IF cipher.kdone THEN "S0" ELSE "S2"
          /\ sink'.key_valid = cipher.kdone /\ sink'.key = sink.key
          /\ sink'.data_valid = sink.data_valid
      BY <1>1, <1>8, EdgeIs, SinkKeyIs
    <2>2. /\ decipher /\ ~sink.key_valid /\ ~sink.data_valid
          /\ cipher.kdone => /\ ~cipher.kb_ld /\ cipher.kcnt # 0 /\ cipher.schedule = sink.key
                             /\ pulses.kload /\ pulses.kload_prev
          /\ cipher.kb_ld => pulses.kload /\ pulses.kload_prev
          /\ ~cipher.kdone /\ ~cipher.kb_ld =>
               cipher.kcnt # 0 /\ (pulses.kload => ~pulses.kload_prev)
      BY <1>1, <1>8 DEF KeyInv
    <2>3. pulses'.kload
      BY <1>3, <2>2
    <2>4. CASE cipher.kdone
      BY <1>2, <1>3, <1>4, <1>5, <2>1, <2>2, <2>3, <2>4 DEF KeyInv
    <2>5. CASE ~cipher.kdone /\ cipher.kb_ld
      <3>1. cipher'.kcnt = (cipher.kcnt - 1) % 16 /\ ~kload_pulse
        BY <1>2, <1>4, <2>2, <2>5
      <3>2. cipher.kcnt = 0 => cipher'.kcnt # 0
        BY <3>1
      <3>3. QED
        BY <1>3, <1>4, <1>5, <2>1, <2>2, <2>3, <2>5, <3>1, <3>2 DEF KeyInv
    <2>6. CASE ~cipher.kdone /\ ~cipher.kb_ld
      BY <1>2, <1>3, <1>4, <1>5, <2>1, <2>2, <2>3, <2>6 DEF KeyInv
    <2>7. QED
      BY <2>4, <2>5, <2>6
  <1>9. QED
    BY <1>1, <1>6, <1>7, <1>8

\* The counter of the cipher: it stands, it is set, it runs, it is done.
LEMMA CounterIs ==
  ASSUME AesInv, NEW valid \in BOOLEAN, NEW reg \in BOOLEAN, NEW room \in BOOLEAN,
         AesEdge(valid, reg, room)
  PROVE  /\ Idle /\ ~start_pulse => Idle'
         /\ Idle /\ start_pulse => Running'
         /\ Running /\ ~start_pulse => Running' \/ Finished'
         /\ Finished /\ ~start_pulse => Idle'
         /\ ~start_pulse => cipher'.work = cipher.work
         /\ start_pulse => cipher'.work =
              [word |-> sink.data, key |-> IF decipher THEN cipher.schedule ELSE sink.key]
  <1>1. AesTypes /\ decipher' = decipher /\ cipher.dcnt \in Nat
    BY EdgeIs DEF AesInv, AesTypes, CipherRegisters
  <1>2. /\ cipher'.done <=> cipher.dcnt = (IF decipher THEN 11 ELSE 1) /\ ~start_pulse
        /\ cipher'.dcnt = IF decipher
                          THEN IF cipher.done THEN 0 ELSE IF start_pulse THEN 1
                               ELSE IF cipher.dcnt = 0 THEN 0 ELSE cipher.dcnt + 1
                          ELSE IF start_pulse THEN 11
                               ELSE IF cipher.dcnt = 0 THEN 0 ELSE cipher.dcnt - 1
        /\ cipher'.work = IF start_pulse
                          THEN [word |-> sink.data,
                                key |-> IF decipher THEN cipher.schedule ELSE sink.key]
                          ELSE cipher.work
    BY <1>1, EdgeIs, CipherIs
  <1>3. Idle /\ ~start_pulse => Idle'
    BY <1>2 DEF Idle
  <1>4. Idle /\ start_pulse => Running'
    BY <1>2 DEF Idle, Running
  <1>5. ASSUME Running, ~start_pulse PROVE Running' \/ Finished'
    <2>1. CASE decipher
      BY <1>1, <1>2, <1>5, <2>1 DEF Running, Finished
    <2>2. CASE ~decipher
      BY <1>1, <1>2, <1>5, <2>2 DEF Running, Finished
    <2>3. QED
      BY <2>1, <2>2
  <1>6. ASSUME Finished, ~start_pulse PROVE Idle'
    <2>1. CASE decipher
      BY <1>1, <1>2, <1>6, <2>1 DEF Idle, Finished
    <2>2. CASE ~decipher
      BY <1>1, <1>2, <1>6, <2>2 DEF Idle, Finished
    <2>3. QED
      BY <2>1, <2>2
  <1>7. QED
    BY <1>2, <1>3, <1>4, <1>5, <1>6

\* A word goes one step of its way.
LEMMA WayKept ==
  ASSUME AesInv, NEW valid \in BOOLEAN, NEW reg \in BOOLEAN, NEW room \in BOOLEAN,
         AesEdge(valid, reg, room)
  PROVE  WayInv'
  <1>1. AesTypes /\ WayInv /\ sink.state \in {"S0", "S1", "S2"} /\ AesTypes'
    BY TypesKept DEF AesInv, AesTypes, SinkRegisters
  <1>2. pulses'.start = sink.data_valid /\ pulses'.start_prev = pulses.start
    BY <1>1, EdgeIs, PulsesAre
  <1>3. CASE sink.state # "S1"
    <2>1. /\ Idle /\ ~start_pulse
          /\ pulses.start => pulses.start_prev
          /\ sink.data_valid => pulses.start
      BY <1>1, <1>3, StartIs DEF WayInv
    <2>2. Idle' /\ (pulses'.start => pulses'.start_prev)
      BY <1>2, <2>1, CounterIs
    <2>3. ~sink'.data_valid
      <3>1. CASE sink.state = "S0"
        BY <1>1, <3>1, EdgeIs, SinkIdleIs
      <3>2. CASE sink.state = "S2"
        BY <1>1, <3>2, EdgeIs, SinkKeyIs DEF AesInv, KeyInv
      <3>3. QED
        BY <1>1, <1>3, <3>1, <3>2
    <2>4. QED
      BY <2>2, <2>3 DEF WayInv
  <1>4. CASE sink.state = "S1"
    <2>1. /\ sink'.data_valid <=> ~setup_needed
          /\ ~cipher.done => /\ sink'.state = "S1" /\ (sink'.setup_done_reg <=> ~setup_needed)
                             /\ sink'.key = sink.key /\ sink'.data = sink.data
          /\ cipher.done => sink'.state # "S1"
      BY <1>1, <1>4, EdgeIs, SinkBusyIs
    <2>2. start_pulse <=> pulses.start /\ ~pulses.start_prev
      BY StartIs
    <2>3. ~sink.setup_done_reg => setup_needed
      BY DEF setup_needed
    <2>4. CASE Idle /\ ~sink.data_valid /\ (pulses.start => pulses.start_prev)
      <3>1. Idle' /\ ~pulses'.start /\ sink'.state = "S1"
        BY <1>2, <2>1, <2>2, <2>4, CounterIs DEF Idle
      <3>2. QED
        BY <3>1, <1>1 DEF WayInv, AesTypes, SinkRegisters
    <2>5. CASE Idle /\ sink.data_valid /\ ~pulses.start
      <3>1. Idle' /\ pulses'.start /\ ~pulses'.start_prev /\ sink'.state = "S1"
        BY <1>2, <2>1, <2>2, <2>5, CounterIs DEF Idle
      <3>2. ~sink'.data_valid => ~sink'.setup_done_reg
        BY <2>1, <2>5 DEF Idle
      <3>3. QED
        BY <3>1, <3>2 DEF WayInv
    <2>6. CASE /\ Idle /\ pulses.start /\ ~pulses.start_prev
               /\ ~sink.data_valid => ~sink.setup_done_reg
      <3>1. Running' /\ sink'.state = "S1" /\ pulses'.start_prev
        BY <1>2, <2>1, <2>2, <2>6, CounterIs DEF Idle
      <3>2. cipher'.work = [word |-> sink.data, key |-> IF decipher THEN cipher.schedule ELSE sink.key]
        BY <2>2, <2>6, CounterIs
      <3>3. decipher => cipher.schedule = sink.key
        BY <1>4 DEF AesInv, KeyInv
      <3>4. sink'.data = sink.data /\ sink'.key = sink.key
        BY <2>1, <2>6 DEF Idle
      <3>5. cipher'.work = [word |-> sink'.data, key |-> sink'.key]
        BY <3>2, <3>3, <3>4
      <3>6. /\ sink'.data_valid => pulses'.start
            /\ ~sink'.data_valid => ~sink'.setup_done_reg
        BY <1>2, <2>1, <2>3, <2>6 DEF Idle
      <3>7. QED
        BY <3>1, <3>5, <3>6 DEF WayInv
    <2>7. CASE /\ Running \/ Finished
               /\ pulses.start => pulses.start_prev
               /\ sink.data_valid => pulses.start
               /\ ~sink.data_valid => ~sink.setup_done_reg
               /\ cipher.work = [word |-> sink.data, key |-> sink.key]
      <3>1. /\ pulses'.start => pulses'.start_prev
            /\ sink'.data_valid => pulses'.start
        BY <1>2, <2>1, <2>3, <2>7
      <3>2. CASE Running
        <4>1. ~cipher.done
          BY <3>2 DEF Running
        <4>2. Running' \/ Finished'
          BY <2>2, <2>7, <3>2, CounterIs
        <4>3. cipher'.work = [word |-> sink'.data, key |-> sink'.key]
          BY <2>1, <2>2, <2>7, <4>1, CounterIs
        <4>4. sink'.state = "S1" /\ (~sink'.data_valid => ~sink'.setup_done_reg)
          BY <2>1, <4>1
        <4>5. QED
          BY <3>1, <4>2, <4>3, <4>4 DEF WayInv
      <3>3. CASE Finished
        <4>1. Idle' /\ sink'.state # "S1"
          BY <2>1, <2>2, <2>7, <3>3, CounterIs DEF Finished
        <4>2. QED
          BY <3>1, <4>1 DEF WayInv
      <3>4. QED
        BY <2>7, <3>2, <3>3
    <2>8. QED
      BY <1>1, <1>4, <2>4, <2>5, <2>6, <2>7 DEF WayInv
  <1>5. QED
    BY <1>3, <1>4

LEMMA MasterKept ==
  ASSUME AesInv, NEW valid \in BOOLEAN, NEW reg \in BOOLEAN, NEW room \in BOOLEAN,
         AesEdge(valid, reg, room)
  PROVE  /\ MasterInv'
         /\ master'.TVALID <=> master.state = "S1"
         /\ master'.TVALID => ~master.TVALID /\ master'.TDATA = master.TDATA
         /\ master'.state = "S1" =>
              fifo /\ ~master.TVALID /\ (master.state = "S2" \/ (master.state = "S0" /\ cipher.done))
  <1>1. AesTypes /\ MasterInv /\ master.state \in {"S0", "S1", "S2"}
    BY DEF AesInv, AesTypes, MasterRegisters
  <1>2. /\ master'.TVALID <=> master.state = "S1" \/ (master.state = "S2" /\ master.TVALID)
        /\ master'.busy <=> master.state # "S0" \/ ~fifo
        /\ master'.TDATA = IF master.state = "S0" /\ cipher.done THEN cipher.work ELSE master.TDATA
        /\ master'.state = IF master.state = "S0"
                           THEN IF ~cipher.done THEN "S0" ELSE IF fifo THEN "S1" ELSE "S2"
                           ELSE IF master.state = "S1" THEN "S0"
                           ELSE IF fifo THEN "S1" ELSE "S2"
    BY <1>1, EdgeIs, MasterIs
  <1>3. /\ master'.TVALID <=> master.state = "S1"
        /\ master'.TVALID => ~master.TVALID /\ master'.TDATA = master.TDATA
    BY <1>1, <1>2 DEF MasterInv
  <1>4. master'.state # "S0" => ~master'.TVALID
    BY <1>1, <1>2 DEF MasterInv
  <1>5. master'.state = "S1" =>
          fifo /\ ~master.TVALID /\ (master.state = "S2" \/ (master.state = "S0" /\ cipher.done))
    BY <1>1, <1>2 DEF MasterInv, Idle
  <1>6. master'.state = "S2" => master'.busy
    BY <1>1, <1>2
  <1>7. master'.TVALID => Idle'
    <2>1. master'.TVALID => sink.state # "S1"
      BY <1>3 DEF AesInv, PendingInv
    <2>2. QED
      BY <2>1, CounterIs, StartIs DEF AesInv, WayInv
  <1>8. QED
    BY <1>3, <1>4, <1>5, <1>6, <1>7 DEF MasterInv

LEMMA OneItem ==
  ASSUME NEW x
  PROVE  /\ Tail(<<x>>) = <<>> /\ Head(<<x>>) = x /\ <<x>> # <<>>
         /\ <<>> \o <<x>> = <<x>> /\ <<x>> \o <<>> = <<x>> /\ <<>> \o <<>> = <<>>
  OBVIOUS

LEMMA PendingKept ==
  ASSUME AesInv, NEW valid \in BOOLEAN, NEW reg \in BOOLEAN, NEW room \in BOOLEAN,
         AesEdge(valid, reg, room)
  PROVE  PendingInv'
  <1>1. AesTypes /\ PendingInv /\ MasterInv /\ sink.state \in {"S0", "S1", "S2"}
        /\ master.state \in {"S0", "S1", "S2"}
    BY DEF AesInv, AesTypes, MasterRegisters, SinkRegisters
  <1> DEFINE new == [word |-> source.word, key |-> sink.key]
             item == [word |-> sink.data, key |-> sink.key]
  <1>2. pending' = (IF master.state = "S1" THEN Tail(pending) ELSE pending)
                     \o (IF SamplesData THEN <<new>> ELSE <<>>)
    <2>1. master'.TVALID /\ ~master.TVALID <=> master.state = "S1"
      BY MasterKept
    <2>2. QED
      BY <2>1 DEF AesEdge
  <1>3. /\ master'.TDATA = IF master.state = "S0" /\ cipher.done THEN cipher.work ELSE master.TDATA
        /\ master'.state = IF master.state = "S0"
                           THEN IF ~cipher.done THEN "S0" ELSE IF fifo THEN "S1" ELSE "S2"
                           ELSE IF master.state = "S1" THEN "S0"
                           ELSE IF fifo THEN "S1" ELSE "S2"
    BY <1>1, EdgeIs, MasterIs
  <1>4. CASE sink.state = "S1"
    <2>1. ~SamplesData /\ master.state = "S0" /\ pending = <<item>>
      BY <1>1, <1>4 DEF SamplesData, PendingInv
    <2>2. pending' = <<item>>
      BY <1>2, <2>1, OneItem
    <2>3. /\ cipher.done => sink'.state # "S1"
          /\ ~cipher.done => sink'.state = "S1" /\ sink'.key = sink.key /\ sink'.data = sink.data
      BY <1>1, <1>4, EdgeIs, SinkBusyIs
    <2>4. cipher.done => cipher.work = item
      BY <1>4 DEF AesInv, WayInv, Idle
    <2>5. CASE cipher.done
      <3>1. sink'.state # "S1" /\ master'.state # "S0" /\ master'.TDATA = item
        BY <1>3, <2>1, <2>3, <2>4, <2>5
      <3>2. QED
        BY <2>2, <3>1 DEF PendingInv
    <2>6. CASE ~cipher.done
      <3>1. sink'.state = "S1" /\ master'.state = "S0"
        BY <1>3, <2>1, <2>3, <2>6
      <3>2. pending' = <<[word |-> sink'.data, key |-> sink'.key]>>
        BY <2>2, <2>3, <2>6
      <3>3. QED
        BY <3>1, <3>2 DEF PendingInv
    <2>7. QED
      BY <2>5, <2>6
  <1>5. CASE sink.state # "S1"
    <2>1. ~cipher.done /\ pending = IF master.state = "S0" THEN <<>> ELSE <<master.TDATA>>
      BY <1>1, <1>5 DEF AesInv, WayInv, Idle, PendingInv
    <2>2. /\ SamplesData => /\ sink'.state = "S1"
                            /\ sink'.data = source.word /\ sink'.key = sink.key
          /\ ~SamplesData => sink'.state # "S1"
      <3>1. SamplesData <=> sink.state = "S0" /\ ~setup_needed /\ ~bsy /\ source.valid
        BY DEF SamplesData
      <3>2. CASE sink.state = "S0"
        BY <1>1, <3>1, <3>2, EdgeIs, SinkIdleIs
      <3>3. CASE sink.state = "S2"
        BY <1>1, <3>1, <3>3, EdgeIs, SinkKeyIs
      <3>4. QED
        BY <1>1, <1>5, <3>2, <3>3
    <2>3. CASE master.state = "S2"
      <3>1. ~SamplesData
        BY <1>1, <2>3 DEF MasterInv, SamplesData, bsy
      <3>2. pending' = <<master.TDATA>>
        BY <1>2, <2>1, <2>3, <3>1, OneItem
      <3>3. master'.state # "S0" /\ master'.TDATA = master.TDATA
        BY <1>3, <2>3
      <3>4. QED
        BY <2>2, <3>1, <3>2, <3>3 DEF PendingInv
    <2>4. CASE master.state # "S2"
      <3>1. master'.state = "S0"
        BY <1>1, <1>3, <2>1, <2>4
      <3>2. (IF master.state = "S1" THEN Tail(pending) ELSE pending) = <<>>
        BY <1>1, <2>1, <2>4, OneItem
      <3>3. CASE SamplesData
        <4>1. pending' = <<new>>
          BY <1>2, <3>2, <3>3, OneItem
        <4>2. pending' = <<[word |-> sink'.data, key |-> sink'.key]>>
          BY <2>2, <3>3, <4>1
        <4>3. QED
          BY <2>2, <3>1, <3>3, <4>2 DEF PendingInv
      <3>4. CASE ~SamplesData
        <4>1. pending' = <<>>
          BY <1>2, <3>2, <3>4, OneItem
        <4>2. QED
          BY <2>2, <3>1, <3>4, <4>1 DEF PendingInv
      <3>5. QED
        BY <3>3, <3>4
    <2>5. QED
      BY <2>3, <2>4
  <1>6. QED
    BY <1>4, <1>5

--------------------------------------------------------------------------------
(* as long as nothing has been disturbed                                       *)

\* What an edge that disturbs nothing leaves out.
LEMMA QuietIs ==
  ASSUME AesInv, NEW valid \in BOOLEAN, NEW reg \in BOOLEAN, NEW room \in BOOLEAN,
         AesEdge(valid, reg, room), ~disturbed'
  PROVE  /\ SetupInv /\ TakenInv
         /\ reg => ~source'.valid
         /\ ~reg /\ control.reg => control.prev
         /\ reg /\ ~control.reg => /\ ~source.valid /\ sink.state # "S2"
                                   /\ pending = <<>> /\ ~master.TVALID
  <1>1. ~disturbed /\ ~Disturbs(reg)
    BY EdgeIs
  <1>2. QED
    BY <1>1 DEF AesInv, Disturbs, Occupied

LEMMA SetupKept ==
  ASSUME AesInv, NEW valid \in BOOLEAN, NEW reg \in BOOLEAN, NEW room \in BOOLEAN,
         AesEdge(valid, reg, room), ~disturbed'
  PROVE  SetupInv'
  <1>1. AesTypes /\ SetupInv /\ PendingInv /\ sink.state \in {"S0", "S1", "S2"}
        /\ master.state \in {"S0", "S1", "S2"}
    BY QuietIs DEF AesInv, AesTypes, SinkRegisters, MasterRegisters
  <1>2. control'.reg = reg /\ control'.sig = control.reg /\ control'.prev = control.sig
    BY EdgeIs
  <1>3. control'.reg => ~source'.valid
    BY <1>2, QuietIs
  <1>4. /\ sink.state = "S0" =>
             /\ sink'.TREADY <=> setup_needed \/ ~bsy
             /\ sink'.setup_done_reg <=> ~setup_needed \/ source.valid
             /\ sink'.state = IF SamplesData THEN "S1"
                              ELSE IF setup_needed /\ source.valid /\ decipher THEN "S2" ELSE "S0"
        /\ sink.state = "S1" => (~setup_needed => sink'.setup_done_reg)
        /\ sink.state = "S2" => sink'.setup_done_reg = sink.setup_done_reg
    BY <1>1, EdgeIs, SinkIdleIs, SinkBusyIs, SinkKeyIs DEF SamplesData
  \* While the setup is asked for, what comes is the key.
  <1>5. Asked /\ source.valid => setup_needed
    BY <1>1, SetupIs DEF SetupInv, Asked
  <1>6. SamplesData => ~setup_needed /\ source.valid
    BY DEF SamplesData
  <1>7. control'.prev /\ (control'.reg \/ control'.sig) => ~sink'.setup_done_reg
    <2> SUFFICES ASSUME control.sig, reg \/ control.reg
                 PROVE  ~sink'.setup_done_reg
      BY <1>2
    <2>1. ~source.valid
      BY <1>1, QuietIs DEF SetupInv
    <2>2. setup_needed
      BY <1>1, SetupIs DEF SetupInv
    <2>3. sink.state = "S0"
      BY <1>1 DEF SetupInv, Asked
    <2>4. QED
      BY <1>4, <2>1, <2>2, <2>3
  <1>8. Asked' => sink'.state = "S0" /\ pending' = <<>> /\ ~master'.TVALID
    <2> SUFFICES ASSUME reg \/ control.reg \/ ~sink'.setup_done_reg
                 PROVE  sink'.state = "S0" /\ pending' = <<>> /\ ~master'.TVALID
      BY <1>2 DEF Asked
    <2>1. sink.state = "S0" /\ pending = <<>> /\ ~SamplesData /\ ~(setup_needed /\ source.valid)
      <3>1. CASE Asked
        <4>1. sink.state = "S0" /\ pending = <<>> /\ ~SamplesData
          BY <1>1, <1>5, <1>6, <3>1 DEF SetupInv
        <4>2. ASSUME setup_needed, source.valid PROVE FALSE
          BY <1>1, <1>4, <4>1, <4>2, QuietIs DEF SetupInv
        <4>3. QED
          BY <4>1, <4>2
      <3>2. CASE ~Asked
        <4>1. ~setup_needed /\ ~control.reg /\ sink.setup_done_reg
          BY <1>1, <3>2, SetupIs DEF Asked
        <4>2. sink'.setup_done_reg
          BY <1>1, <1>4, <4>1
        <4>3. reg /\ ~source.valid /\ sink.state # "S2" /\ pending = <<>>
          BY <4>1, <4>2, QuietIs
        <4>4. sink.state # "S1"
          BY <1>1, <4>3, OneItem DEF PendingInv
        <4>5. QED
          BY <1>1, <1>6, <4>3, <4>4
      <3>3. QED
        BY <3>1, <3>2
    <2>2. sink'.state = "S0"
      BY <1>4, <2>1
    <2>3. master.state = "S0"
      <3>1. ASSUME master.state # "S0" PROVE FALSE
        <4>1. pending = <<master.TDATA>>
          BY <1>1, <2>1, <3>1 DEF PendingInv
        <4>2. QED
          BY <2>1, <4>1, OneItem
      <3>2. QED
        BY <3>1
    <2>4. ~master'.TVALID
      BY <2>3, MasterKept
    <2>5. pending' = pending \o <<>>
      BY <2>1, <2>4 DEF AesEdge
    <2>6. QED
      BY <2>1, <2>2, <2>4, <2>5, OneItem
  <1>9. source'.valid /\ setup_needed' => sink'.TREADY
    <2> SUFFICES ASSUME source'.valid, setup_needed' PROVE sink'.TREADY
      OBVIOUS
    <2>1. (control.reg /\ ~control.sig) \/ ~sink'.setup_done_reg
      BY <1>2 DEF setup_needed, setup_req
    <2>2. ~reg
      BY QuietIs
    <2>3. sink.state = "S0" /\ setup_needed
      <3>1. CASE control.reg
        <4>1. control.prev /\ Asked
          BY <2>2, <3>1, QuietIs DEF Asked
        <4>2. QED
          BY <1>1, <3>1, <4>1, SetupIs DEF SetupInv
      <3>2. CASE ~control.reg
        <4>1. ~sink'.setup_done_reg
          BY <2>1, <3>2
        <4>2. setup_needed \/ (sink.state = "S2" /\ ~sink.setup_done_reg)
          BY <1>1, <1>4, <4>1
        <4>3. Asked
          BY <1>1, <4>2, SetupIs DEF Asked
        <4>4. QED
          BY <1>1, <4>2, <4>3 DEF SetupInv
      <3>3. QED
        BY <3>1, <3>2
    <2>4. QED
      BY <1>4, <2>3
  <1>10. QED
    BY <1>3, <1>7, <1>8, <1>9 DEF SetupInv

LEMMA TakenKept ==
  ASSUME AesInv, NEW valid \in BOOLEAN, NEW reg \in BOOLEAN, NEW room \in BOOLEAN,
         AesEdge(valid, reg, room), ~disturbed'
  PROVE  TakenInv'
  <1>1. AesTypes /\ SetupInv /\ TakenInv /\ PendingInv /\ WayInv
        /\ sink.state \in {"S0", "S1", "S2"} /\ master.state \in {"S0", "S1", "S2"}
    BY QuietIs DEF AesInv, AesTypes, SinkRegisters, MasterRegisters
  <1>2. TakesIn <=> source.valid /\ sink.TREADY
    BY DEF TakesIn
  <1>3. /\ source'.follows <=> TakesIn
        /\ ~TakesIn /\ source.valid => source'.valid
    BY <1>1, EdgeIs, OfferIs
  \* No key is sampled but in S0.
  <1>4. setup_needed => sink.state = "S0"
    BY <1>1, SetupIs DEF SetupInv
  <1>5. /\ SamplesKey <=> sink.state = "S0" /\ setup_needed /\ source.valid
        /\ SamplesData <=> sink.state = "S0" /\ ~setup_needed /\ ~bsy /\ source.valid
    BY <1>4 DEF SamplesKey, SamplesData
  <1>6. /\ sink.state = "S0" =>
             /\ sink'.TREADY <=> setup_needed \/ ~bsy
             /\ sink'.state = IF SamplesData THEN "S1"
                              ELSE IF SamplesKey /\ decipher THEN "S2" ELSE "S0"
        /\ sink.state = "S1" => ~sink'.TREADY
        /\ sink.state = "S2" => ~sink'.TREADY
    BY <1>1, <1>4, <1>5, EdgeIs, SinkIdleIs, SinkBusyIs, SinkKeyIs
  <1>7. sampled' => source'.valid /\ sink'.TREADY /\ sink'.state = "S1" /\ ~cipher'.done
    <2> SUFFICES ASSUME sampled'
                 PROVE  source'.valid /\ sink'.TREADY /\ sink'.state = "S1" /\ ~cipher'.done
      OBVIOUS
    <2>1. ~TakesIn /\ (SamplesKey \/ SamplesData)
      BY <1>1, <1>2, EdgeIs DEF TakenInv
    <2>2. SamplesData
      BY <1>1, <1>2, <1>5, <2>1 DEF SetupInv
    <2>3. source'.valid /\ sink'.TREADY /\ sink'.state = "S1"
      BY <1>3, <1>5, <1>6, <2>1, <2>2
    <2>4. cipher.dcnt = 0
      BY <1>1, <1>5, <2>2 DEF WayInv, Idle
    <2>5. cipher'.done => cipher.dcnt = IF decipher THEN 11 ELSE 1
      BY <1>1, EdgeIs, CipherIs
    <2>6. QED
      BY <2>3, <2>4, <2>5
  <1>8. sink'.state # "S0" /\ sink'.TREADY => sampled' \/ ~source'.valid \/ source'.follows
    <2> SUFFICES ASSUME sink'.state # "S0", sink'.TREADY, ~TakesIn
                 PROVE  sampled'
      BY <1>3
    <2>1. sink.state = "S0" /\ (SamplesData \/ SamplesKey)
      BY <1>1, <1>6
    <2>2. QED
      BY <2>1, EdgeIs
  <1>9. master'.state = "S1" => fifo'
    <2> SUFFICES ASSUME master'.state = "S1" PROVE fifo'
      OBVIOUS
    <2>1. fifo /\ ~master.TVALID /\ (master.state = "S2" \/ (master.state = "S0" /\ cipher.done))
      BY MasterKept
    <2>2. pending # <<>>
      <3>1. CASE sink.state = "S1"
        BY <1>1, <3>1, OneItem DEF PendingInv
      <3>2. CASE sink.state # "S1"
        <4>1. master.state # "S0"
          BY <1>1, <2>1, <3>2 DEF WayInv, Idle
        <4>2. pending = <<master.TDATA>>
          BY <1>1, <3>2, <4>1 DEF PendingInv
        <4>3. QED
          BY <4>2, OneItem
      <3>3. QED
        BY <3>1, <3>2
    <2>3. ~control.reg /\ ~control.sig
      BY <1>1, <2>2 DEF SetupInv, Asked
    <2>4. ~reg
      BY <2>2, <2>3, QuietIs
    <2>5. QED
      BY <2>1, <2>3, <2>4, EdgeIs
  <1>10. QED
    BY <1>7, <1>8, <1>9 DEF TakenInv

--------------------------------------------------------------------------------
(* the properties                                                              *)

LEMMA EdgeKeeps ==
  ASSUME AesInv, NEW valid \in BOOLEAN, NEW reg \in BOOLEAN, NEW room \in BOOLEAN,
         AesEdge(valid, reg, room)
  PROVE  AesInv'
  BY TypesKept, KeyKept, WayKept, PendingKept, MasterKept, SetupKept, TakenKept DEF AesInv

Enciphered ==
  /\ PutsOutInOrder
  /\ disturbed' \/ (TakesWhatItAccepts /\ WordOnItsWay /\ (PutsOut => fifo' /\ ~control'.reg))

LEMMA EdgeEnciphers ==
  ASSUME AesInv, NEW valid \in BOOLEAN, NEW reg \in BOOLEAN, NEW room \in BOOLEAN,
         AesEdge(valid, reg, room)
  PROVE  Enciphered
  <1>1. AesTypes /\ PendingInv /\ sink.state \in {"S0", "S1", "S2"}
    BY DEF AesInv, AesTypes, SinkRegisters
  <1>2. PutsOut => master.state = "S1" /\ pending = <<master.TDATA>> /\ master'.TDATA = master.TDATA
    BY <1>1, MasterKept DEF PutsOut, PendingInv
  <1>3. PutsOutInOrder
    BY <1>2, OneItem DEF PutsOutInOrder
  <1>4. ASSUME ~disturbed'
        PROVE  TakesWhatItAccepts /\ WordOnItsWay /\ (PutsOut => fifo' /\ ~control'.reg)
    <2>1. SetupInv /\ TakenInv
      BY <1>4, QuietIs
    <2>2. setup_needed => sink.state = "S0"
      BY <1>1, <2>1, SetupIs DEF SetupInv
    <2>3. TakesWhatItAccepts
      <3>1. sampled => ~SamplesKey /\ ~SamplesData
        BY <2>1 DEF TakenInv, SamplesKey, SamplesData
      <3>2. ASSUME TakesIn, sink.state = "S0" PROVE SamplesKey \/ SamplesData \/ master.busy
        <4>1. source.valid /\ ~control.reg
          BY <2>1, <3>2 DEF TakesIn, SetupInv
        <4>2. QED
          BY <1>1, <3>2, <4>1, SetupIs DEF SamplesKey, SamplesData
      <3>3. ASSUME TakesIn, sink.state # "S0" PROVE sampled \/ source.follows
        BY <2>1, <3>3 DEF TakesIn, TakenInv
      <3>4. QED
        BY <3>1, <3>2, <3>3 DEF TakesWhatItAccepts, Lost
    <2>4. WordOnItsWay
      <3>1. sink.state = "S1" => sink'.data_valid
        BY <1>1, <2>2, EdgeIs, SinkBusyIs
      <3>2. QED
        BY <3>1 DEF WordOnItsWay
    <2>5. ASSUME PutsOut PROVE fifo' /\ ~control'.reg
      <3>1. pending # <<>> /\ fifo /\ ~master.TVALID
        BY <1>2, <2>1, <2>5, OneItem DEF TakenInv, PutsOut
      <3>2. ~control.reg /\ ~control.sig
        BY <2>1, <3>1 DEF SetupInv, Asked
      <3>3. ~reg
        BY <1>4, <3>1, <3>2, QuietIs
      <3>4. QED
        BY <3>1, <3>2, <3>3, EdgeIs
    <2>6. QED
      BY <2>3, <2>4, <2>5
  <1>5. QED
    BY <1>3, <1>4 DEF Enciphered

LEMMA AesStep == AesInv /\ [AesNext]_aesVars => AesInv' /\ (Enciphered \/ UNCHANGED aesVars)
  <1> SUFFICES ASSUME AesInv, [AesNext]_aesVars
               PROVE  AesInv' /\ (Enciphered \/ UNCHANGED aesVars)
    OBVIOUS
  <1>1. CASE AesNext
    <2>1. PICK valid \in BOOLEAN, reg \in BOOLEAN, room \in BOOLEAN : AesEdge(valid, reg, room)
      BY <1>1 DEF AesNext
    <2>2. QED
      BY <2>1, EdgeKeeps, EdgeEnciphers
  <1>2. CASE UNCHANGED aesVars
    <2>1. AesTypes' /\ (SetupInv => SetupInv') /\ (TakenInv => TakenInv') /\ disturbed' = disturbed
      BY <1>2
         DEF aesVars, AesInv, AesTypes, SetupInv, TakenInv, Asked, setup_needed, setup_req
    <2>2. KeyInv'
      BY <1>2 DEF aesVars, AesInv, KeyInv
    <2>3. WayInv'
      BY <1>2 DEF aesVars, AesInv, WayInv, Idle, Running, Finished
    <2>4. PendingInv' /\ MasterInv'
      BY <1>2 DEF aesVars, AesInv, PendingInv, MasterInv, Idle
    <2>5. QED
      BY <1>2, <2>1, <2>2, <2>3, <2>4 DEF AesInv
  <1>3. QED
    BY <1>1, <1>2

\* The inductive invariant of the stream interfaces of the AES core, for both variants.  The DMA
\* channel may offer a word at any edge, software may set and clear the control bit at any edge,
\* and the FIFO, which is in reset as long as that bit is set, may fall silent then; the last
\* two conjuncts hold until the bit has been set among words, or too short to be seen.
THEOREM AesCorrect == AesSpec => []AesInv
  <1>1. AesInv /\ [AesNext]_aesVars => AesInv'
    BY AesStep
  <1>2. QED
    BY InitAesInv, <1>1, PTL DEF AesSpec

\* What leaves is the oldest word sampled, under its key, whatever the environment does.  As long
\* as the control bit has only been set when the core was empty, a word handed over has been
\* sampled once, but for the two that are lost (Lost), S_AXIS never waits for a word that has
\* gone, and the FIFO takes what is put out (AXI_aes_core_v1_0.v and its S_AXIS and M_AXIS
\* interfaces).
THEOREM WordsLeaveEnciphered == AesSpec => WordsEnciphered
  <1>1. AesInv /\ [AesNext]_aesVars =>
          [/\ PutsOutInOrder
           /\ disturbed' \/ (TakesWhatItAccepts /\ WordOnItsWay
                              /\ (PutsOut => fifo' /\ ~control'.reg))]_aesVars
    BY AesStep DEF Enciphered
  <1>2. QED
    BY AesCorrect, <1>1, PTL DEF AesSpec, WordsEnciphered
================================================================================
