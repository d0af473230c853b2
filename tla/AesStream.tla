------------------------------- MODULE AesStream -------------------------------
(***************************************************************************)
(* The stream interfaces of the AES core around its cipher: words of 128   *)
(* bits come in over S_AXIS, the first after a setup request is the key,   *)
(* the others leave enciphered over M_AXIS.  A step is one clock edge, all *)
(* interfaces share it.  The cipher itself is the number of edges it takes *)
(* and which word and key it works on.  Both variants are modelled: the    *)
(* decipher side expands the key when it is loaded and waits for it.       *)
(* Power-on reset is the initial state.  The DMA channel, software and the *)
(* FIFO may do at any edge what their interfaces let them do; the history  *)
(* variable disturbed tells when software sets the control bit among words.*)
(*                                                                         *)
(* Sources: AXI_aes_core_v1_0.v, its S_AXIS and M_AXIS interfaces, and the *)
(* counters of aes_cipher_top.v and aes_inv_cipher_top.v.                  *)
(***************************************************************************)
EXTENDS Integers, Sequences

CONSTANT Words      \* words are numbered modulo this bound

ASSUME StreamAssumption == Words \in Nat /\ Words > 2

VARIABLES
  decipher,       \* which of the two sides this is
  control,        \* [reg, sig, prev]: bit 0 of the register and its two copies
  source,         \* the DMA channel: [word, valid, follows]; follows: one was taken just now
  fifo,           \* TREADY of the FIFO behind the core
  sink,           \* the registers of S_AXIS
  pulses,         \* start and key load signals of the top module, with their copies
  cipher,         \* [dcnt, done, kcnt, kb_ld, kdone, work, schedule]
  master,         \* the registers of M_AXIS
  \* history
  sampled,        \* the word on offer has been sampled
  pending,        \* words sampled and not yet put out, with their keys
  disturbed       \* the control bit has been set among words, or too short

aesVars == <<decipher, control, source, fifo, sink, pulses, cipher, master,
             sampled, pending, disturbed>>

NoBlock == [word |-> -1, key |-> -1]

AesInit ==
  /\ decipher \in BOOLEAN
  /\ control = [reg |-> FALSE, sig |-> FALSE, prev |-> FALSE]
  /\ source = [word |-> 0, valid |-> FALSE, follows |-> FALSE]
  /\ fifo = TRUE
  /\ sink = [state |-> "S0", TREADY |-> FALSE, setup_done_reg |-> TRUE,
             data_valid |-> FALSE, data |-> -1, key |-> -1, key_valid |-> TRUE]
  /\ pulses = [start |-> FALSE, start_prev |-> FALSE, kload |-> FALSE, kload_prev |-> FALSE]
  /\ cipher = [dcnt |-> 0, done |-> FALSE, kcnt |-> 10, kb_ld |-> FALSE, kdone |-> FALSE,
               work |-> NoBlock, schedule |-> -1]
  /\ master = [state |-> "S0", TVALID |-> FALSE, TDATA |-> NoBlock, busy |-> FALSE]
  /\ sampled = FALSE
  /\ pending = <<>>
  /\ disturbed = FALSE

--------------------------------------------------------------------------------
(* combinational signals                                                       *)

setup_req == control.sig /\ ~control.prev          \* ctrl_reg[0], a pulse
setup_needed == setup_req \/ ~sink.setup_done_reg
bsy == master.busy \/ control.reg                 \* while the bit is set, the FIFO is in reset
start_pulse == pulses.start /\ ~pulses.start_prev
kload_pulse == decipher /\ pulses.kload /\ ~pulses.kload_prev
TakesIn == source.valid /\ sink.TREADY

\* What S_AXIS samples at this edge
SamplesKey ==
  /\ setup_needed /\ source.valid
  /\ sink.state = "S0" \/ (sink.state = "S1" /\ cipher.done)
\* Mutant: the master side is not asked.
SamplesDataAlways == sink.state = "S0" /\ ~setup_needed /\ source.valid
SamplesData == sink.state = "S0" /\ ~setup_needed /\ ~bsy /\ source.valid

--------------------------------------------------------------------------------
(* the registers after an edge                                                 *)

KeyTaken(r) ==
  [r EXCEPT !.setup_done_reg = TRUE, !.key = source.word,
            !.key_valid = ~decipher, !.state = IF decipher THEN "S2" ELSE "S0"]

SinkIdle ==
  LET r == [sink EXCEPT !.TREADY = setup_needed \/ ~bsy, !.data_valid = FALSE,
                      !.key_valid = TRUE] IN
    IF setup_needed
    THEN IF source.valid THEN KeyTaken(r) ELSE [r EXCEPT !.setup_done_reg = FALSE]
    ELSE IF SamplesData THEN [r EXCEPT !.data = source.word, !.state = "S1"]
    ELSE r

SinkBusy ==
  LET r == [sink EXCEPT !.TREADY = setup_needed /\ cipher.done,
                      !.data_valid = ~setup_needed] IN
    CASE ~cipher.done -> [r EXCEPT !.setup_done_reg = @ /\ ~setup_needed]
      [] cipher.done /\ setup_needed ->
           IF source.valid THEN KeyTaken(r)
           ELSE [r EXCEPT !.setup_done_reg = FALSE, !.state = "S0"]
      [] OTHER -> [r EXCEPT !.state = "S0"]

SinkKey ==
  [sink EXCEPT !.TREADY = FALSE, !.key_valid = cipher.kdone,
               !.state = IF cipher.kdone THEN "S0" ELSE "S2"]

\* aes_cipher_top counts down from 11, aes_inv_cipher_top up to 11; done is one edge
\* high.  The decipher side works with the key its schedule holds.
CipherNext ==
  LET ld == start_pulse
      key == IF decipher THEN cipher.schedule ELSE sink.key IN
    [cipher EXCEPT
       !.done = cipher.dcnt = (IF decipher THEN 11 ELSE 1) /\ ~ld,
       !.dcnt = IF decipher
                THEN CASE cipher.done -> 0 [] ~cipher.done /\ ld -> 1
                       [] OTHER -> IF @ = 0 THEN 0 ELSE @ + 1
                ELSE IF ld THEN 11 ELSE IF @ = 0 THEN 0 ELSE @ - 1,
       !.work = IF ld THEN [word |-> sink.data, key |-> key] ELSE @,
       !.kcnt = IF kload_pulse THEN 10 ELSE IF cipher.kb_ld THEN (@ - 1) % 16 ELSE @,
       !.kb_ld = kload_pulse \/ (@ /\ cipher.kcnt # 0),
       !.kdone = cipher.kcnt = 0 /\ ~kload_pulse,
       !.schedule = IF kload_pulse THEN -1
                    ELSE IF cipher.kb_ld /\ cipher.kcnt = 0 THEN sink.key ELSE @]

MasterNext ==
  CASE master.state = "S0" ->
         [master EXCEPT !.TVALID = FALSE, !.busy = ~fifo,
                        !.TDATA = IF cipher.done THEN cipher.work ELSE @,
                        !.state = IF ~cipher.done THEN "S0"
                                  ELSE IF fifo THEN "S1" ELSE "S2"]
    [] master.state = "S1" -> [master EXCEPT !.TVALID = TRUE, !.busy = TRUE, !.state = "S0"]
    [] master.state = "S2" ->
         [master EXCEPT !.busy = TRUE, !.state = IF fifo THEN "S1" ELSE "S2"]

PulsesNext ==
  [start |-> sink.data_valid, start_prev |-> pulses.start,
   kload |-> decipher /\ ~sink.key_valid, kload_prev |-> pulses.kload]

--------------------------------------------------------------------------------
(* an edge                                                                     *)

\* The DMA offers a word at any edge and holds it until it is taken.
Offers(valid) ==
  source' = IF TakesIn
            THEN [word |-> (source.word + 1) % Words, valid |-> valid, follows |-> TRUE]
            ELSE [source EXCEPT !.valid = @ \/ valid, !.follows = FALSE]

\* The FIFO fills only by a word that it takes; its reset, which lasts as long as the control
\* bit is set, drops what it holds, and its TREADY may fall in the meantime.
Room(room) ==
  /\ fifo /\ ~master.TVALID /\ ~(control'.reg \/ control.reg \/ control.sig) => room
  /\ fifo' = room

\* There are words or a key in the core, or on their way into it or out of it.
Occupied == source.valid \/ sink.state = "S2" \/ pending # <<>> \/ master.TVALID
Disturbs(reg) ==
  \/ reg /\ ~control.reg /\ Occupied
  \/ ~reg /\ control.reg /\ ~control.prev
  \/ reg /\ source'.valid

AesEdge(valid, reg, room) ==
  /\ Offers(valid)
  /\ control' = [reg |-> reg, sig |-> control.reg, prev |-> control.sig]
  /\ Room(room)
  /\ sink' = CASE sink.state = "S0" -> SinkIdle
               [] sink.state = "S1" -> SinkBusy
               [] sink.state = "S2" -> SinkKey
  /\ pulses' = PulsesNext
  /\ cipher' = CipherNext
  /\ master' = MasterNext
  /\ sampled' = ((sampled \/ SamplesKey \/ SamplesData) /\ ~TakesIn)
  /\ pending' = (IF master'.TVALID /\ ~master.TVALID THEN Tail(pending) ELSE pending)
                  \o (IF SamplesData THEN <<[word |-> source.word, key |-> sink.key]>> ELSE <<>>)
  /\ disturbed' = (disturbed \/ Disturbs(reg))
  /\ UNCHANGED decipher

AesNext == \E valid, reg, room \in BOOLEAN : AesEdge(valid, reg, room)
AesSpec == AesInit /\ [][AesNext]_aesVars

--------------------------------------------------------------------------------
(* properties                                                                  *)

\* A word that is handed over has been sampled, as key or as data, and once only - but
\* for two that are lost: one that follows the word before it in the very next edge, and one
\* that comes when the master side has just become busy.  TREADY still tells of the edge before.
Lost == IF sink.state = "S0" THEN master.busy ELSE source.follows
TakesWhatItAccepts ==
  /\ TakesIn => sampled \/ SamplesKey \/ SamplesData \/ Lost
  /\ sampled => ~SamplesKey /\ ~SamplesData
PutsOut == master'.TVALID /\ ~master.TVALID
\* What is put out is the oldest word sampled, under the key that was loaded before it.
PutsOutInOrder == PutsOut => pending # <<>> /\ master'.TDATA = Head(pending)
\* S_AXIS waits in S1 only while its word is on its way through the cipher.  (A setup request
\* in the first edge of S1 holds data_valid back: the cipher never starts.)
WordOnItsWay ==
  sink.state = "S1" /\ sink'.state = "S1" =>
    sink'.data_valid \/ pulses'.start \/ cipher'.dcnt # 0 \/ cipher'.done
\* The order of the words and their keys hold whatever the environment does; that each is
\* sampled once, that S_AXIS does not hang and that the FIFO takes what is put out, as long as
\* the control bit has only been set when the core was empty.
WordsEnciphered ==
  [][/\ PutsOutInOrder
     /\ disturbed' \/ (TakesWhatItAccepts /\ WordOnItsWay
                        /\ (PutsOut => fifo' /\ ~control'.reg))]_aesVars
================================================================================
