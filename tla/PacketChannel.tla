----------------------------- MODULE PacketChannel -----------------------------
(* What read() of the stream FIFO promises: packets arrive in a queue, a read   *)
(* takes the oldest one and returns it whole.  Reads that overlap, and reads    *)
(* that meet a reset, are torn: they may return anything.  A channel that is    *)
(* broken promises nothing until it is flushed.                                 *)
EXTENDS Integers, Sequences

CONSTANTS
  Reader,
  Packet      \* sequences of words

VARIABLES
  queue,      \* packets that have arrived and that no read has taken
  read,       \* what each reader is doing: [state, packet]
  broken

channelVars == <<queue, read, broken>>

Reading(state, packet) == [state |-> state, packet |-> packet]
Idle == Reading("idle", <<>>)
Ready == Reading("ready", <<>>)
Torn == Reading("torn", <<>>)

ChannelInit ==
  /\ queue = <<>>
  /\ read = [r \in Reader |-> Idle]
  /\ broken = FALSE

\* Every read under way is torn.
TearAll == [r \in Reader |-> IF read[r] = Idle THEN Idle ELSE Torn]

Arrive(x) ==
  /\ queue' = Append(queue, x)
  /\ UNCHANGED <<read, broken>>

\* A read begins: undisturbed when there is a packet and no other read under way
Begin(r) ==
  /\ read[r] = Idle
  /\ IF \A q \in Reader : read[q] = Idle
     THEN queue # <<>> /\ read' = [read EXCEPT ![r] = Ready]
     ELSE read' = [TearAll EXCEPT ![r] = Torn]
  /\ UNCHANGED <<queue, broken>>

\* The oldest packet is this reader's.
Take(r) ==
  /\ read[r] = Ready
  /\ queue # <<>>
  /\ read' = [read EXCEPT ![r] = Reading("taken", Head(queue))]
  /\ queue' = SubSeq(queue, 2, Len(queue))
  /\ UNCHANGED broken

\* It has been copied; what is returned next is that packet.
Copied(r) ==
  /\ read[r].state = "taken"
  /\ read' = [read EXCEPT ![r] = Reading("copied", @.packet)]
  /\ UNCHANGED <<queue, broken>>

Return(r) ==
  /\ read[r].state \in {"copied", "torn"}
  /\ read' = [read EXCEPT ![r] = Idle]
  /\ UNCHANGED <<queue, broken>>

\* A torn read may take the oldest packet, and break the channel.
TornTake(r) ==
  /\ read[r] = Torn
  /\ \/ queue' = SubSeq(queue, 2, Len(queue)) /\ queue # <<>> /\ UNCHANGED broken
     \/ UNCHANGED queue /\ broken' = TRUE
  /\ UNCHANGED read

\* Someone is about to flush the channel: a reader that has failed, after it has
\* taken a packet or not, or somebody else.
Fail(r) ==
  /\ read' = [read EXCEPT ![r] = Torn]
  /\ UNCHANGED queue \/ (queue # <<>> /\ queue' = SubSeq(queue, 2, Len(queue)))
  /\ UNCHANGED broken

Flush(r) ==
  /\ read[r] = Torn
  /\ queue' = <<>>
  /\ read' = [TearAll EXCEPT ![r] = Idle]
  /\ broken' = FALSE

\* The device flushes by itself, or the channel is tampered with by hand.
DeviceFlush ==
  /\ queue' = <<>>
  /\ read' = TearAll
  /\ broken' = FALSE
Tamper ==
  /\ broken' = TRUE
  /\ UNCHANGED read

ChannelNext ==
  \/ broken
  \/ \E x \in Packet : Arrive(x)
  \/ \E r \in Reader :
       Begin(r) \/ Take(r) \/ Copied(r) \/ Return(r) \/ TornTake(r) \/ Fail(r) \/ Flush(r)
  \/ DeviceFlush \/ Tamper

ChannelSpec == ChannelInit /\ [][ChannelNext]_channelVars
================================================================================
