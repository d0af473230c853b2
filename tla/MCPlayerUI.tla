------------------------------ MODULE MCPlayerUI ------------------------------
(* Model checking PlayerUI: a plain and an encrypted track of one size and rate. *)
EXTENDS PlayerUI, TLC

CONSTANTS plain, secret

Tracks == {plain, secret}
Sizes == (plain :> 1) @@ (secret :> 1)
Rates == (plain :> 48000) @@ (secret :> 48000)
PllRates == {48000}
RightArrow == {2}
OneSecret == {secret}

\* Bounds of the run.  The arrow is pressed when all that was asked for before has
\* been served, and so is every key once UIClean is lost; a directory reopened while
\* the program runs forgets its tags (the entries of the first one have any); and a
\* completion that comes too late for stop() does so before anything else goes wrong,
\* without a job under way, and is followed by no further key.
Served == jobs = {} /\ ui_to_player = <<>> /\ player_to_ui = <<>> /\ pc = "idle"
FewKeys ==
  /\ Served \/ ~\E d \in Delta : Arrow(d)
  /\ Served \/ UIClean \/ ~Keys
  /\ InTime \/ ~Keys
FewLosses ==
  /\ (\E j \in jobs : CryptSucceeds(j)) => tag' = AllStopped
  /\ InTime /\ ~InTime' => defects = {} /\ ~tags_lost /\ jobs = {}
================================================================================
