-------------------------------- MODULE I2sSlave -------------------------------
(***************************************************************************)
(* The I2S slave between the DMA stream and the codec, which drives both   *)
(* the bit clock and the frame clock: lrclk changes when bclk falls, half  *)
(* a frame is half a word.  Two clock domains: an edge of bclk and an edge *)
(* of S_AXIS_ACLK are steps of their own, and bclk is seen by the stream   *)
(* side one edge late.  A bit is named by its word and its position.       *)
(*                                                                         *)
(* Sources: I2S_slave_v1_0.v.                                              *)
(***************************************************************************)
EXTENDS Integers, Sequences

CONSTANTS
  TDATA_WIDTH,    \* bits of a word, a left and a right sample
  HalfMin,        \* edges of S_AXIS_ACLK in half a period of bclk, at least
  HalfMax         \* ... and at most

ASSUME I2sAssumption ==
  /\ TDATA_WIDTH \in Nat /\ TDATA_WIDTH >= 4 /\ TDATA_WIDTH % 2 = 0
  /\ HalfMin \in Nat /\ HalfMin >= 2 /\ HalfMax \in Nat /\ HalfMax >= HalfMin

VARIABLES
  codec,          \* what the codec drives: [bclk, lrclk, position, hold]
  lrclk_buff,     \* lrclk at the last two rising edges of bclk, older first
  i2s,            \* the registers of the stream side
  number,         \* number of the next word handed over (mod Numbered)
  due             \* history: the bit the codec should sample next, or Nothing

i2sVars == <<codec, lrclk_buff, i2s, number, due>>

Numbered == 3
Nothing == [word |-> -1, bit |-> 0]
Fell == <<TRUE, FALSE>>
Rose == <<FALSE, TRUE>>
lrclkp == lrclk_buff \in {Fell, Rose}
\* A word is taken for the next frame while this window is open.
Window == lrclk_buff = Fell

I2sInit ==
  /\ codec = [bclk |-> TRUE, lrclk |-> TRUE, position |-> 0, hold |-> 0]
  /\ lrclk_buff = <<FALSE, FALSE>>
  /\ i2s = [bclk_ctrl |-> <<FALSE, FALSE>>, busy |-> FALSE, data_buf |-> Nothing,
            TREADY |-> FALSE]
  /\ number = 0
  /\ due = Nothing

\* The codec: half a frame is TDATA_WIDTH / 2 falling edges of bclk
Falls ==
  LET wraps == codec.position + 1 = TDATA_WIDTH \div 2 IN
    /\ codec.bclk
    /\ codec' = [bclk |-> FALSE, hold |-> 0,
                 lrclk |-> IF wraps THEN ~codec.lrclk ELSE codec.lrclk,
                 position |-> IF wraps THEN 0 ELSE codec.position + 1]
    /\ UNCHANGED <<lrclk_buff, due>>

\* It samples sdata when bclk rises.
Rises ==
  /\ ~codec.bclk
  /\ codec' = [codec EXCEPT !.bclk = TRUE, !.hold = 0]
  /\ lrclk_buff' = <<lrclk_buff[2], codec.lrclk>>
  /\ due' = IF due = Nothing \/ due.bit = TDATA_WIDTH THEN Nothing
            ELSE [due EXCEPT !.bit = @ + 1]

BitClock ==
  /\ codec.hold >= HalfMin
  /\ Falls \/ Rises
  /\ UNCHANGED <<i2s, number>>

\* data_buf shifted left: zeros follow the word
Shift(b) == IF b.bit \in 1 .. TDATA_WIDTH - 1 THEN [b EXCEPT !.bit = @ + 1] ELSE Nothing

bclk_fall == i2s.bclk_ctrl = <<TRUE, FALSE>>

\* Mutant: the next word is asked for in the middle of a frame as well.
AsksBothEdges == lrclkp /\ ~i2s.busy
\* When a word is asked for
Asks == lrclkp /\ ~i2s.busy /\ lrclk_buff # Rose

\* An edge of the stream clock: a word is taken, and what a falling bclk does comes
\* after it, over the word just taken if it has to.
Load(valid) ==
  LET taken == valid /\ i2s.TREADY
      shifts == bclk_fall /\ (~lrclkp \/ lrclk_buff = Rose) IN
    /\ i2s' = [bclk_ctrl |-> <<i2s.bclk_ctrl[2], codec.bclk>>,
               busy |-> (i2s.busy \/ taken) /\ ~(bclk_fall /\ ~lrclkp),
               data_buf |-> IF shifts THEN Shift(i2s.data_buf)
                            ELSE IF taken THEN [word |-> number, bit |-> 1]
                            ELSE i2s.data_buf,
               TREADY |-> (i2s.TREADY /\ ~taken) \/ (~i2s.TREADY /\ Asks)]
    /\ number' = IF taken THEN (number + 1) % Numbered ELSE number
    /\ due' = IF taken THEN IF Window THEN [word |-> number, bit |-> 1] ELSE Nothing
              ELSE due

\* Reset leaves the word and the clocks as they are.
StreamReset ==
  /\ i2s' = [i2s EXCEPT !.bclk_ctrl = <<@[2], codec.bclk>>, !.busy = FALSE,
                        !.TREADY = FALSE]
  /\ due' = Nothing
  /\ UNCHANGED number

StreamClock ==
  /\ codec.hold < HalfMax
  /\ codec' = [codec EXCEPT !.hold = @ + 1]
  /\ StreamReset \/ \E valid \in BOOLEAN : Load(valid)
  /\ UNCHANGED lrclk_buff

I2sNext == BitClock \/ StreamClock
I2sSpec == I2sInit /\ [][I2sNext]_i2sVars

--------------------------------------------------------------------------------
(* properties                                                                  *)

\* A word that is taken while lrclk is seen to fall is played: the codec samples its bits
\* one after the other from the second rising edge of bclk in the frame on (the bit
\* of delay of I2S), its last one at the first edge of the next frame, and no other word
\* is taken before.  A word that comes later is torn, and a reset excuses the frame.
TakenWordPlayed ==
  [][/\ (codec.bclk # codec'.bclk /\ codec'.bclk /\ due # Nothing) => i2s.data_buf = due
     /\ number' # number => due = Nothing]_i2sVars
================================================================================
