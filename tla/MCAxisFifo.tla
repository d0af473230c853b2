------------------------------ MODULE MCAxisFifo ------------------------------
(* Model checking AxisFifo: a packet of one word and one of a word and two     *)
(* bytes, a core with both directions and one that only sends.                 *)
EXTENDS AxisFifo, TLC

CONSTANTS odd, p1, p2

Payloads == {odd}
Lengths == odd :> 6
Trees == {[has_rx |-> TRUE, has_tx |-> FALSE, has_tkeep |-> TRUE],
          [has_rx |-> FALSE, has_tx |-> TRUE, has_tkeep |-> TRUE]}
\* p1 blocks, p2 does not; the flags of the device are those of the last to open.
FilesOf(nonblock) == [mode : {"r", "w", "rw"}, nonblock : {nonblock}]
OpenedAs == (p1 :> FilesOf(FALSE)) @@ (p2 :> FilesOf(TRUE))
================================================================================
