------------------------------ MODULE MCLibAxiDma ------------------------------
(* The device tree of the player's AES channels, one of a display, and trees with *)
(* one mistake each, for model checking LibAxiDma.                                *)
EXTENDS LibAxiDma, TLC

CONSTANTS p1, p2, m1, x1

Node(id, compatible) == [id |-> id, compatible |-> compatible]
Entry(arg, children) == [arg |-> arg, children |-> children]

AesNodes == <<Node(0, "dma_tx"), Node(1, "dma_rx")>>
Aes == [names |-> 2, index |-> 1, dmas |-> <<Entry(0, AesNodes), Entry(1, AesNodes)>>]
Display == [names |-> 1, index |-> 0, dmas |-> <<Entry(0, <<Node(0, "vdma_tx")>>)>>]

Malformed ==
  {[Aes EXCEPT !.names = 1],
   [Aes EXCEPT !.dmas[2].arg = 2],
   [Aes EXCEPT !.dmas[2].arg = 0],
   [Aes EXCEPT !.dmas[2].children = <<Node(0, "dma_tx")>>],
   [Aes EXCEPT !.dmas[1].children[1].id = NoId],
   [Aes EXCEPT !.dmas[1].children[1].compatible = "other"],
   [Display EXCEPT !.dmas[1].children[1].compatible = "absent"]}

Processes == Permutations(Process)

Trees == {Aes, Display} \cup Malformed
BuffersUsed ==
  [t \in Trees |-> IF t = Display THEN [address |-> Address, exported |-> Exported]
                   ELSE [address |-> {0}, exported |-> {}]]
================================================================================
