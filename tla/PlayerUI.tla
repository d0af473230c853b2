-------------------------------- MODULE PlayerUI --------------------------------
(***************************************************************************)
(* The whole player: the UI thread, which turns key presses into commands  *)
(* and AES jobs and results into tags, composed with the player thread of  *)
(* Player, with main(), which waits for both and restores the terminal,    *)
(* and with SIGINT.  An AES job is abstracted to its result (see           *)
(* AesTransfer for what happens inside).                                   *)
(*                                                                         *)
(* The UI handles what select() reports in a fixed order, one handler      *)
(* after the other; here each handler is an action and any order possible. *)
(*                                                                         *)
(* Sources: src/app/ui_thread.cpp, src/app/main.cpp, the tags of           *)
(* src/app/directory_navigator.hpp.                                        *)
(***************************************************************************)
EXTENDS Player, FiniteSets

CONSTANTS
  InitiallyEncrypted, \* tracks with the attribute user.is_encrypted
  JobBound            \* bound of the model on the AES jobs under way, of which
                      \* no two do the same to the same track

ASSUME UIAssumption ==
  /\ InitiallyEncrypted \subseteq Track
  /\ JobBound \in Nat

VARIABLES
  tag,         \* entry.tag of each track
  encrypted,   \* tracks whose attribute says encrypted
  jobs,        \* the AES jobs under way, [op, track]
  interrupted, \* SIGINT closed the write end of main's pipe
  terminal,    \* "raw" or "restored"
  tags_lost    \* history: a tag was reset or left uninitialised

uiVars == <<tag, encrypted, jobs, interrupted, terminal, tags_lost>>
allVars == <<playerVars, uiVars>>

Tags == {"STOPPED", "PREPARING", "PLAYING"}
AllStopped == [f \in Track |-> "STOPPED"]

\* The entries are built without a value for their tag.
UIInit ==
  /\ PlayerInit
  /\ tag \in [Track -> Tags]
  /\ encrypted = InitiallyEncrypted
  /\ jobs = {}
  /\ interrupted = FALSE
  /\ terminal = "raw"
  /\ tags_lost = (tag # AllStopped)

--------------------------------------------------------------------------------
(* directory_navigator                                                         *)

has_any_tag(t) == \E f \in Track : tag[f] = t

change_tags(from, to) ==
  tag' = [f \in Track |-> IF tag[f] = from THEN to ELSE tag[f]]

\* Every entry is built anew: the old tags are gone, the new ones arbitrary.
open_directory ==
  /\ tag' \in [Track -> Tags]
  /\ tags_lost' = (tags_lost \/ tag # AllStopped \/ tag' # AllStopped)

--------------------------------------------------------------------------------
(* key presses; f is the selected entry                                        *)

\* The loop runs until it finds main's pipe at its end.
UIRuns == ui_reads /\ ~killed

playerRest == <<player_to_ui, ui_reads, killed, pc, programVars, codecVars,
                deviceVars, defects>>

StartJob(op, f) ==
  /\ Cardinality(jobs) < JobBound
  /\ [op |-> op, track |-> f] \notin jobs
  /\ jobs' = jobs \cup {[op |-> op, track |-> f]}

\* The track that plays is stopped.
SpaceStop(f) ==
  /\ UIRuns
  /\ tag[f] = "PLAYING"
  /\ SendToPlayer(StopMessages)
  /\ UNCHANGED <<playerRest, uiVars>>

\* Mutant: what plays is not stopped.
StopNothing == <<>>

\* What plays is stopped first, before the selected file is looked at.
StopOther == IF has_any_tag("PLAYING") THEN StopMessages ELSE <<>>

CanStart(f) ==
  /\ UIRuns
  /\ tag[f] # "PLAYING"
  /\ ~has_any_tag("PREPARING")

SpacePlay(f) ==
  /\ CanStart(f)
  /\ f \notin encrypted
  /\ SendToPlayer(StopOther \o PlayMessages(f))
  /\ tag' = [tag EXCEPT ![f] = "PREPARING"]
  /\ UNCHANGED <<playerRest, encrypted, jobs, interrupted, terminal, tags_lost>>

SpaceDecrypt(f) ==
  /\ CanStart(f)
  /\ f \in encrypted
  /\ SendToPlayer(StopOther)
  /\ StartJob("DECRYPT_INTO", f)
  /\ tag' = [tag EXCEPT ![f] = "PREPARING"]
  /\ UNCHANGED <<playerRest, encrypted, interrupted, terminal, tags_lost>>

\* The file does not open, no memory, no thread: only the STOP was sent.
SpaceFails(f) ==
  /\ CanStart(f)
  /\ SendToPlayer(StopOther)
  /\ UNCHANGED <<playerRest, uiVars>>

\* 'e' on a plain file, 'd' on an encrypted one
Crypt(f) ==
  /\ UIRuns
  /\ StartJob(IF f \in encrypted THEN "DECRYPT" ELSE "ENCRYPT", f)
  /\ UNCHANGED <<playerVars, tag, encrypted, interrupted, terminal, tags_lost>>

Arrow(d) ==
  /\ UIRuns
  /\ SendToPlayer(VolumeMessages(d))
  /\ UNCHANGED <<playerRest, uiVars>>

--------------------------------------------------------------------------------
(* results                                                                     *)

\* Mutant: STOP clears every tag.
ShowStopsAll(m) ==
  IF m.cmd = "PLAY"
  THEN change_tags("PREPARING", IF m.result = "SUCCESS" THEN "PLAYING" ELSE "STOPPED")
  ELSE tag' = AllStopped

\* Mutant: the result is taken for the tag.
ShowResult(m) ==
  IF m.cmd = "PLAY" THEN change_tags("PREPARING", m.result)
  ELSE change_tags("PLAYING", "STOPPED")

\* What a message of the player does to the tags
Show(m) ==
  IF m.cmd = "PLAY"
  THEN change_tags("PREPARING", IF m.result = "SUCCESS" THEN "PLAYING" ELSE "STOPPED")
  ELSE change_tags("PLAYING", "STOPPED")

PlayerMessage ==
  /\ UIRuns
  /\ player_to_ui # <<>>
  /\ player_to_ui' = Tail(player_to_ui)
  /\ Show(Head(player_to_ui))
  /\ UNCHANGED <<ui_to_player, ui_reads, killed, pc, programVars, codecVars,
                 deviceVars, defects, encrypted, jobs, interrupted, terminal,
                 tags_lost>>

\* The result is renamed over the input, with its attribute if it has one;
\* setxattr or rename may fail, and nothing changes.  The directory is reopened.
CryptSucceeds(j) ==
  /\ UIRuns
  /\ j \in jobs /\ j.op \in {"ENCRYPT", "DECRYPT"}
  /\ jobs' = jobs \ {j}
  /\ \/ encrypted' = IF j.op = "ENCRYPT" THEN encrypted \cup {j.track}
                     ELSE encrypted \ {j.track}
     \/ UNCHANGED encrypted
  /\ open_directory
  /\ UNCHANGED <<playerVars, interrupted, terminal>>

\* The decrypted content is played.
IntoSucceeds(j) ==
  /\ UIRuns
  /\ j \in jobs /\ j.op = "DECRYPT_INTO"
  /\ jobs' = jobs \ {j}
  /\ ui_to_player' = ui_to_player \o PlayMessages(j.track)
  /\ tag' = [tag EXCEPT ![j.track] = "PREPARING"]
  /\ UNCHANGED <<playerRest, encrypted, interrupted, terminal, tags_lost>>

\* Mutant: the tag of a failed job stays.
TagsAfterFailureKept(j) == tag

TagsAfterFailure(j) ==
  IF j.op = "DECRYPT_INTO" THEN [tag EXCEPT ![j.track] = "STOPPED"] ELSE tag

\* FAILED, or an exception
JobFails(j) ==
  /\ UIRuns
  /\ j \in jobs
  /\ jobs' = jobs \ {j}
  /\ tag' = TagsAfterFailure(j)
  /\ UNCHANGED <<playerVars, encrypted, interrupted, terminal, tags_lost>>

\* The UI is gone: the thread writes its result to a pipe without a reader.
JobOrphaned(j) ==
  /\ ~UIRuns /\ ~killed
  /\ j \in jobs
  /\ jobs' = jobs \ {j}
  /\ killed' = TRUE
  /\ UNCHANGED <<ui_to_player, player_to_ui, ui_reads, pc, programVars,
                 codecVars, deviceVars, defects, tag, encrypted, interrupted,
                 terminal, tags_lost>>

--------------------------------------------------------------------------------
(* the end                                                                     *)

\* SIGINT: the handler closes main_to_ui_write_pipe_fd
Sigint ==
  /\ ~killed
  /\ interrupted' = TRUE
  /\ UNCHANGED <<playerVars, tag, encrypted, jobs, terminal, tags_lost>>

\* The UI finds the end of main's pipe, sends EXIT, closes its pipes and ends.
UIExit ==
  /\ UIRuns
  /\ interrupted
  /\ ClientExit
  /\ UNCHANGED uiVars

\* main() has joined both threads
Restore ==
  /\ ~killed
  /\ pc = "done" /\ ~ui_reads
  /\ terminal' = "restored"
  /\ UNCHANGED <<playerVars, tag, encrypted, jobs, interrupted, tags_lost>>

--------------------------------------------------------------------------------
Keys ==
  \/ \E f \in Track : \/ SpaceStop(f) \/ SpacePlay(f) \/ SpaceDecrypt(f)
                      \/ SpaceFails(f) \/ Crypt(f)
  \/ \E d \in Delta : Arrow(d)

Results ==
  \/ PlayerMessage
  \/ \E j \in jobs : \/ CryptSucceeds(j) \/ IntoSucceeds(j) \/ JobFails(j)
                     \/ JobOrphaned(j)

PlayerStep == (Program \/ Device) /\ UNCHANGED uiVars

UINext == PlayerStep \/ Keys \/ Results \/ Sigint \/ UIExit \/ Restore
UISpec == UIInit /\ [][UINext]_allVars

\* The threads are scheduled, tracks end and their completions arrive: of the steps
\* of Device at most one is possible at a time.  Nobody has to press a key or to send
\* SIGINT, and an AES job need not end (AesTransfer shows one that waits for ever).
UIFairness ==
  /\ WF_allVars(Program /\ UNCHANGED uiVars)
  /\ WF_allVars(Device /\ UNCHANGED uiVars)
  /\ WF_allVars(PlayerMessage)
  /\ WF_allVars(UIExit)
  /\ WF_allVars(Restore)

UIFairSpec == UISpec /\ UIFairness

--------------------------------------------------------------------------------
(* Properties                                                                  *)

\* No tag was lost, no transfer failed to start, no track ended before the reply
\* to its PLAY or after its stop() was through: each of these leaves wrong tags
\* behind (see the README).  A stale entry may have been reused: that does not
\* mislead the UI.
UIClean ==
  ~tags_lost /\ InTime /\ defects \cap {"start_failed", "ended_before_reply"} = {}

Playing == {f \in Track : tag[f] = "PLAYING"}
Preparing == {f \in Track : tag[f] = "PREPARING"}

\* The PLAY requests that have no answer yet, wherever they are.
PendingPlays ==
  Cardinality({i \in DOMAIN ui_to_player : ui_to_player[i].cmd = "PLAY"})
  + (IF command = "PLAY" /\ pc # "idle" THEN 1 ELSE 0)
  + Cardinality({i \in DOMAIN player_to_ui : player_to_ui[i].cmd = "PLAY"})
  + Cardinality({j \in jobs : j.op = "DECRYPT_INTO"})

\* Nothing is on its way between the UI and the device.
Quiet ==
  /\ ui_to_player = <<>> /\ player_to_ui = <<>>
  /\ pc = "idle" /\ completion = "none"
  /\ \A j \in jobs : j.op # "DECRYPT_INTO"

\* Every variable of the UI has its type.
UITypeOK ==
  /\ tag \in [Track -> Tags]
  /\ encrypted \subseteq Track
  /\ jobs \subseteq [op : {"ENCRYPT", "DECRYPT", "DECRYPT_INTO"}, track : Track]
  /\ interrupted \in BOOLEAN
  /\ terminal \in {"raw", "restored"}
  /\ tags_lost \in BOOLEAN

\* When nothing is on its way, the display shows what plays.
DisplayAgrees ==
  UIClean /\ Quiet => Playing = {c.track : c \in channel} /\ Preparing = {}

\* While the UI runs, an entry is being prepared exactly while a PLAY has no
\* answer, and there is never a second one.
PreparingIsPending ==
  UIClean /\ UIRuns =>
    PendingPlays = Cardinality(Preparing) /\ PendingPlays \in {0, 1}

\* What plays was asked for: it is displayed, or the answer that displays it is
\* on its way.
PlayingIsKnown ==
  UIClean /\ UIRuns => \A c \in channel : tag[c.track] \in {"PLAYING", "PREPARING"}

\* A preparation that no longer waits for its AES job ends with an answer, while
\* the display can be trusted.  (A job that hangs leaves its entry PREPARING.)
PreparationEnds ==
  \A f \in Track :
    tag[f] = "PREPARING" /\ [op |-> "DECRYPT_INTO", track |-> f] \notin jobs
      ~> (tag[f] # "PREPARING" \/ ~UIClean \/ ~UIRuns)

\* Somebody still has to write to a pipe whose read end the UI closed: an AES job
\* its result, the player a reply, or the STOP of a track that ends.
WriteOwed ==
  \/ jobs # {}
  \/ \E i \in DOMAIN ui_to_player : ui_to_player[i].cmd \in {"PLAY", "STOP"}
  \/ pc # "idle" /\ command # "EXIT"
  \/ channel # {} \/ completion # "none"

\* After SIGINT the program ends, whatever has happened to the tags before.  Only
\* a write that is owed when the UI is gone may end it by SIGPIPE, which leaves
\* the terminal raw; otherwise main() restores the terminal.
InterruptEnds ==
  /\ interrupted ~> (terminal = "restored" \/ killed)
  /\ ~ui_reads /\ ~killed /\ ~WriteOwed ~> terminal = "restored"

--------------------------------------------------------------------------------
(* What the comments of the code say, and the code does not do                 *)

\* ui_thread.cpp:323 "we should not play anything until preparation is done":
\* a second PLAY is never under way before the first one is answered.
OnePlayAtATime == PendingPlays <= 1

\* ui_thread.cpp:276 "check if anything playing", said of the test for the tag
\* PLAYING: when nothing is on its way, a tagged track plays.  (Lost tags, late
\* completions and failed starts are left aside, so that what remains is the order
\* of messages.)
TaggedPlays ==
  ~tags_lost /\ InTime /\ "start_failed" \notin defects /\ Quiet =>
    Playing \subseteq {c.track : c \in channel}

================================================================================
