------------------------------- MODULE MCPlayer -------------------------------
(* Model checking Player: two tracks of different length at the two rates of   *)
(* the PLL table, and one at a rate it does not know.                          *)
EXTENDS Player, TLC

CONSTANTS short, long, odd

Tracks == {short, long, odd}
Sizes == (short :> 1) @@ (long :> 2) @@ (odd :> 1)
Rates == (short :> 44100) @@ (long :> 48000) @@ (odd :> 96000)
PllRates == {44100, 48000}
ArrowSteps == {-2, 2}

AddressSymmetry == Permutations(Address)

\* Bound of the run on what follows a completion that came too late: the client
\* sends the next command when there is nothing in the pipes.
OneAfterLate == InTime \/ ~ClientSend \/ ui_to_player \o player_to_ui = <<>>
================================================================================
