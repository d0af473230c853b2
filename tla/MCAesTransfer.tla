---------------------------- MODULE MCAesTransfer ----------------------------
(* Model checking AesTransfer: interchangeable threads and buffers. *)
EXTENDS AesTransfer, TLC

ThreadAndBufferSymmetry == Permutations(Thread) \cup Permutations(Buffer)
==============================================================================
