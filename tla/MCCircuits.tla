------------------------------ MODULE MCCircuits ------------------------------
(* Model checking the three circuits of the programmable logic on one bench:   *)
(* a behaviour picks one of them and steps it, the other two stand still.       *)
EXTENDS SpiMaster, I2sSlave, AesStream

VARIABLE bench      \* the circuit on the bench

BenchInit == bench \in {"spi", "i2s", "aes"} /\ SpiInit /\ I2sInit /\ AesInit

BenchNext ==
  /\ UNCHANGED bench
  /\ \/ bench = "spi" /\ SpiNext /\ UNCHANGED <<i2sVars, aesVars>>
     \/ bench = "i2s" /\ I2sNext /\ UNCHANGED <<spiVars, aesVars>>
     \/ bench = "aes" /\ AesNext /\ UNCHANGED <<spiVars, i2sVars>>

BenchSpec == BenchInit /\ [][BenchNext]_<<bench, spiVars, i2sVars, aesVars>>
================================================================================
