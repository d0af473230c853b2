------------------------------- MODULE SpiMaster -------------------------------
(***************************************************************************)
(* The SPI master between the stream FIFO core and the codec, one clock    *)
(* edge of AXIS_ACLK a step: S0 idle, S1 low and S2 high half of sclk.  A  *)
(* bit is named by its word and its position instead of having a value.    *)
(* The stream side may offer a word or not at every edge, the slave shifts *)
(* with sclk and counts from the edge of ss.                               *)
(*                                                                         *)
(* Sources: SPI_master_v1_0.v.                                             *)
(***************************************************************************)
EXTENDS Integers, Sequences

CONSTANTS
  WIDTH,          \* bits of a word
  CLOCK_DIVISOR

ASSUME SpiAssumption ==
  /\ WIDTH \in Nat /\ WIDTH > 1
  /\ CLOCK_DIVISOR \in Nat \ {0}
  /\ \E k \in 0 .. CLOCK_DIVISOR : CLOCK_DIVISOR = 2 ^ k    \* a power of two

VARIABLES
  spi,            \* the registers
  slave,          \* bits the slave has seen of its word, 0 outside a frame
  next,           \* number of the next word handed over (mod Numbers)
  expect,         \* history: the bit the slave should sample next
  ended,          \* history: TLAST of the word on the wire
  torn            \* history: a reset has cut a word

spiVars == <<spi, slave, next, expect, ended, torn>>

Numbers == 3
Following(n) == (n + 1) % Numbers

\* clk_counter has $clog2(CLOCK_DIVISOR) + 1 bits and is never cleared: the state
\* machine moves once in Period edges.
Period == 2 * CLOCK_DIVISOR

Low == [word |-> 0, bit |-> 0]

SpiInit ==
  /\ spi = [state |-> "S0", tx |-> [word |-> 0, bit |-> 1], rx |-> <<>>, ready |-> TRUE,
            last |-> FALSE, last_buff |-> FALSE, rx_full |-> <<FALSE, FALSE>>,
            counter |-> 0, clk_counter |-> 0, mosi |-> Low,
            TVALID |-> FALSE, TDATA |-> <<>>]
  /\ slave = 0
  /\ next = 0
  /\ expect = [word |-> 0, bit |-> 1]
  /\ ended = FALSE
  /\ torn = FALSE

\* tx_buffer shifted left: zeros follow the word
Shifted(b) == [b EXCEPT !.bit = IF @ > WIDTH THEN @ ELSE @ + 1]

\* What every edge does: a word is taken when both sides are ready, and TVALID is
\* high for the edge after the one that has filled the receive buffer.
TakeWord(r, valid, last) ==
  LET taken == valid /\ r.ready IN
    [r EXCEPT !.tx = IF taken THEN [word |-> next, bit |-> 1] ELSE @,
              !.last = IF taken THEN last ELSE @,
              !.ready = @ /\ ~taken,
              !.rx_full = <<FALSE, @[1]>>,
              !.TVALID = r.rx_full[1] /\ ~r.rx_full[2],
              !.clk_counter = (@ + 1) % Period]

\* The state machine, S0, S1 and S2; r are the registers before the edge, n what
\* TakeWord makes of them.
BeginWord(r, n) ==
  [n EXCEPT !.mosi = r.tx, !.last_buff = r.last, !.counter = 1, !.state = "S1"]

IdleState(r, n) == IF r.ready THEN [n EXCEPT !.mosi = Low] ELSE BeginWord(r, n)

\* Mutant: the next word is let in while the last bit is still to be put out.
LowHalfEarlyReady(r, n, miso) ==
  [n EXCEPT !.tx = IF r.counter # WIDTH THEN Shifted(r.tx) ELSE @,
            !.ready = IF r.counter # WIDTH - 1 THEN @ ELSE TRUE,
            !.rx = (IF Len(@) = WIDTH THEN Tail(@) ELSE @) \o <<miso>>,
            !.state = "S2"]
LowHalf(r, n, miso) ==
  [n EXCEPT !.tx = IF r.counter # WIDTH THEN Shifted(r.tx) ELSE @,
            !.ready = IF r.counter # WIDTH THEN @ ELSE TRUE,
            !.rx = (IF Len(@) = WIDTH THEN Tail(@) ELSE @) \o <<miso>>,
            !.state = "S2"]

HighHalf(r, n) ==
  IF r.counter # WIDTH THEN [n EXCEPT !.mosi = r.tx, !.counter = @ + 1, !.state = "S1"]
  ELSE LET full == [n EXCEPT !.mosi = r.tx, !.TDATA = r.rx, !.rx_full[1] = TRUE] IN
         IF ~r.ready /\ ~r.last_buff THEN BeginWord(r, full)
         ELSE [full EXCEPT !.state = "S0"]

SpiEdge(r, valid, last, miso) ==
  LET n == TakeWord(r, valid, last) IN
    IF r.clk_counter # CLOCK_DIVISOR THEN n
    ELSE CASE r.state = "S0" -> IdleState(r, n)
           [] r.state = "S1" -> LowHalf(r, n, miso)
           [] r.state = "S2" -> HighHalf(r, n)

SclkRises == spi.state = "S1" /\ spi'.state = "S2"

Miso == (slave % WIDTH) + 1
SlaveAfter == IF spi'.state = "S0" THEN 0 ELSE IF SclkRises THEN Miso ELSE slave

\* A clock edge with the offer of the stream side
SpiClock(valid, last) ==
  /\ spi' = SpiEdge(spi, valid, last, Miso)
  /\ slave' = SlaveAfter
  /\ LET taken == valid /\ spi.ready IN
       /\ next' = IF taken THEN Following(next) ELSE next
       /\ torn' = (torn /\ ~taken)
       /\ ended' = IF SclkRises /\ spi.mosi.bit = WIDTH THEN spi.last ELSE ended
       /\ expect' = CASE torn /\ taken -> [word |-> next, bit |-> 1]
                      [] SclkRises -> IF expect.bit < WIDTH
                                      THEN [expect EXCEPT !.bit = @ + 1]
                                      ELSE [word |-> Following(expect.word), bit |-> 1]
                      [] OTHER -> expect

\* Reset stops the state machine; spi_ready, the buffers and the counters stay.
SpiReset ==
  /\ spi' = [spi EXCEPT !.TVALID = FALSE, !.TDATA = <<>>, !.state = "S0"]
  /\ slave' = 0
  /\ torn' = (torn \/ spi.state # "S0" \/ spi.rx_full[1])
  /\ UNCHANGED <<next, expect, ended>>

SpiNext == SpiReset \/ \E valid, last \in BOOLEAN : SpiClock(valid, last)
SpiSpec == SpiInit /\ [][SpiNext]_spiVars

--------------------------------------------------------------------------------
(* properties                                                                  *)

\* The slave samples the bits of the words that were handed over, all of them, in
\* order and each once; a word that follows the last of its packet begins a frame of its
\* own, and a received word is the WIDTH bits of one word of the slave.  A word that a
\* reset has cut is excused, up to the next one handed over.
BitsInOrder == SclkRises => spi.mosi = expect
PacketsApart == SclkRises /\ slave # 0 /\ spi.mosi.bit = 1 => ~ended
ReceivedWhole == spi'.TVALID /\ ~spi.TVALID => spi'.TDATA = [i \in 1 .. WIDTH |-> i]
SpiTransfersWords ==
  [][torn \/ (BitsInOrder /\ PacketsApart /\ ReceivedWhole)]_spiVars
================================================================================
