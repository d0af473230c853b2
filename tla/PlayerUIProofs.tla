---------------------------- MODULE PlayerUIProofs ----------------------------
(***************************************************************************)
(* What holds of the whole player: the UI is a client with which all that  *)
(* PlayerProofs shows of the player thread still holds, and what it shows  *)
(* follows the device, for every set of tracks, any keys and any results   *)
(* of the AES jobs.                                                        *)
(***************************************************************************)
EXTENDS PlayerUI, PlayerProofs, FiniteSetTheorems

--------------------------------------------------------------------------------
(* where a PLAY request can be                                                 *)

Has(q, cmd) == \E i \in 1 .. Len(q) : q[i].cmd = cmd
OnlyPlay(q, i) ==
  /\ i \in 1 .. Len(q) /\ q[i].cmd = "PLAY"
  /\ \A j \in 1 .. Len(q) : q[j].cmd = "PLAY" => j = i
StopBefore(q, i) == \E j \in 1 .. i - 1 : q[j].cmd = "STOP"
StopAfter(q, i) == \E j \in i + 1 .. Len(q) : q[j].cmd = "STOP"

IntoJob(f) == [op |-> "DECRYPT_INTO", track |-> f]

AsJob(f) ==
  IntoJob(f) \in jobs /\ \A j \in jobs : j.op = "DECRYPT_INTO" => j = IntoJob(f)

NoneAsJob == \A j \in jobs : j.op # "DECRYPT_INTO"
NoneInPipe == ~Has(ui_to_player, "PLAY")
NoneServed == ~(command = "PLAY" /\ pc # "idle")
NoneAnswered == ~Has(player_to_ui, "PLAY")

StopServed == command = "STOP" /\ pc # "idle"

\* What plays is displayed: nothing is on its way to the UI.
Displayed ==
  /\ player_to_ui = <<>>
  /\ Playing # {} /\ \A c \in channel : Playing = {c.track}

\* What is displayed plays no more, and the STOP that ends the display is on its way.
EndsShown == Playing = {} \/ Has(player_to_ui, "STOP") \/ StopServed

\* No request: the codec is idle or its track is displayed.
NoRequest ==
  /\ Preparing = {}
  /\ NoneAsJob /\ NoneInPipe /\ NoneServed /\ NoneAnswered
  /\ is_busy => Displayed
  /\ ~is_busy => EndsShown

\* Track f is being decrypted, and a STOP for what plays has been sent before.
BeingDecrypted(f) ==
  /\ Preparing = {f}
  /\ AsJob(f)
  /\ NoneInPipe /\ NoneServed /\ NoneAnswered
  /\ is_busy => Displayed /\ (StopServed \/ Has(ui_to_player, "STOP"))
  /\ ~is_busy => EndsShown

\* The request is message i of the pipe, and a STOP for what plays precedes it.
Requested(f, i) ==
  /\ Preparing = {f}
  /\ OnlyPlay(ui_to_player, i) /\ ui_to_player[i+1].arg = f
  /\ NoneAsJob /\ NoneServed /\ NoneAnswered
  /\ is_busy => Displayed /\ (StopServed \/ StopBefore(ui_to_player, i))
  /\ ~is_busy => EndsShown

\* The player serves the request.
Served(f) ==
  /\ Preparing = {f}
  /\ command = "PLAY" /\ pc # "idle"
  /\ IF AwaitsBuffer THEN ui_to_player[1].arg = f ELSE track = f
  /\ NoneAsJob /\ NoneInPipe /\ NoneAnswered
  /\ pc \in StopPCs => ~is_busy
  /\ pc = "reply" /\ result = "SUCCESS" => is_busy
  /\ \A c \in channel : c.track = f
  /\ Playing = {} \/ Has(player_to_ui, "STOP")

\* The answer is message k of the pipe back.
Answered(f, k) ==
  /\ Preparing = {f}
  /\ OnlyPlay(player_to_ui, k)
  /\ NoneAsJob /\ NoneInPipe /\ NoneServed
  /\ Playing = {} \/ StopBefore(player_to_ui, k)
  /\ is_busy => /\ player_to_ui[k].result = "SUCCESS" /\ k = Len(player_to_ui)
                /\ \A c \in channel : c.track = f
  /\ ~is_busy /\ player_to_ui[k].result = "SUCCESS" => StopServed \/ StopAfter(player_to_ui, k)

Request ==
  \/ NoRequest
  \/ \E f \in Track : BeingDecrypted(f) \/ Served(f)
  \/ \E f \in Track, i \in Nat : Requested(f, i) \/ Answered(f, i)

\* EXIT is the last command, and the UI sends it when it ends.
ExitInv ==
  /\ killed => ~ui_reads
  /\ ui_reads => command # "EXIT" /\ ~Has(ui_to_player, "EXIT")
  /\ ~ui_reads => \/ command = "EXIT" /\ pc # "idle"
                  \/ Has(ui_to_player, "EXIT")

\* A busy codec has a transfer on the device or its completion to come, as long as
\* no completion has been late.
DeviceInv ==
  /\ \A c, d \in channel : c = d
  /\ is_busy /\ InTime /\ "start_failed" \notin defects =>
       channel # {} \/ completion # "none" \/ pc \in {"play_start", "stop_free"}

Trusted == UIClean /\ UIRuns

DisplayInv == ExitInv /\ DeviceInv /\ (Trusted => Request)

--------------------------------------------------------------------------------
(* messages in a pipe                                                          *)

\* Taking the first message
LEMMA TailOf ==
  ASSUME NEW S, NEW q \in Seq(S), q # <<>>
  PROVE  /\ Len(q) \in Nat \ {0} /\ Tail(q) \in Seq(S)
         /\ Len(Tail(q)) = Len(q) - 1
         /\ Head(q) = q[1] /\ Head(q) \in S
         /\ \A i \in 1 .. Len(q) - 1 : Tail(q)[i] = q[i+1]
  <1>1. Len(q) \in Nat \ {0}
    BY EmptySeq
  <1>2. Head(q) = q[1]
    OBVIOUS
  <1>3. QED
    BY <1>1, <1>2, HeadTailProperties

LEMMA TailHas ==
  ASSUME NEW S, NEW q \in Seq(S), q # <<>>, NEW cmd
  PROVE  Has(q, cmd) <=> q[1].cmd = cmd \/ Has(Tail(q), cmd)
  <1>1. PICK n \in Nat \ {0} : n = Len(q)
    BY TailOf
  <1>2. PICK r : r = Tail(q)
    OBVIOUS
  <1>3. Len(r) = n - 1 /\ \A i \in 1 .. n - 1 : r[i] = q[i+1]
    BY <1>1, <1>2, TailOf
  <1>4. ASSUME NEW i \in 1 .. n, q[i].cmd = cmd PROVE q[1].cmd = cmd \/ Has(r, cmd)
    <2>1. CASE i = 1
      BY <1>4, <2>1
    <2>2. CASE i # 1
      <3>1. i - 1 \in 1 .. Len(r) /\ r[i-1] = q[i]
        BY <1>3, <2>2
      <3>2. QED
        BY <1>4, <3>1 DEF Has
    <2>3. QED
      BY <2>1, <2>2
  <1>5. ASSUME NEW i \in 1 .. n - 1, r[i].cmd = cmd PROVE Has(q, cmd)
    <2>1. i + 1 \in 1 .. Len(q) /\ q[i+1].cmd = cmd
      BY <1>1, <1>3, <1>5
    <2>2. QED
      BY <2>1 DEF Has
  <1>6. q[1].cmd = cmd => Has(q, cmd)
    <2>1. 1 \in 1 .. Len(q)
      BY <1>1
    <2>2. QED
      BY <2>1 DEF Has
  <1>7. QED
    BY <1>1, <1>2, <1>3, <1>4, <1>5, <1>6 DEF Has

LEMMA TailPlay ==
  ASSUME NEW S, NEW q \in Seq(S), q # <<>>, NEW i \in Nat, OnlyPlay(q, i), i # 1
  PROVE  /\ i - 1 \in Nat /\ OnlyPlay(Tail(q), i - 1)
         /\ i < Len(q) => Tail(q)[(i-1)+1] = q[i+1]
         /\ Tail(q)[i-1] = q[i]
         /\ StopBefore(q, i) => q[1].cmd = "STOP" \/ StopBefore(Tail(q), i - 1)
         /\ StopAfter(q, i) => StopAfter(Tail(q), i - 1)
  <1>1. PICK n \in Nat \ {0} : n = Len(q)
    BY TailOf
  <1>2. PICK r : r = Tail(q)
    OBVIOUS
  <1>3. Len(r) = n - 1 /\ \A j \in 1 .. n - 1 : r[j] = q[j+1]
    BY <1>1, <1>2, TailOf
  <1>4. PICK k \in 1 .. n - 1 : k = i - 1
    BY <1>1 DEF OnlyPlay
  <1>5. OnlyPlay(r, k)
    <2>1. r[k].cmd = "PLAY"
      BY <1>3, <1>4 DEF OnlyPlay
    <2>2. ASSUME NEW j \in 1 .. n - 1, r[j].cmd = "PLAY" PROVE j = k
      <3>1. q[j+1].cmd = "PLAY" /\ j + 1 \in 1 .. n
        BY <1>3, <2>2
      <3>2. j + 1 = i
        BY <1>1, <3>1 DEF OnlyPlay
      <3>3. QED
        BY <1>4, <3>2
    <2>3. QED
      BY <1>3, <2>1, <2>2 DEF OnlyPlay
  <1>6. i < n => r[k+1] = q[i+1]
    BY <1>3, <1>4
  <1>7. StopBefore(q, i) => q[1].cmd = "STOP" \/ StopBefore(r, k)
    <2>1. SUFFICES ASSUME NEW j \in 1 .. i - 1, q[j].cmd = "STOP", j # 1
                   PROVE  StopBefore(r, k)
      BY DEF StopBefore
    <2>2. j - 1 \in 1 .. k - 1 /\ r[j-1] = q[j]
      BY <1>3, <1>4, <2>1
    <2>3. QED
      BY <2>1, <2>2 DEF StopBefore
  <1>8. StopAfter(q, i) => StopAfter(r, k)
    <2>1. SUFFICES ASSUME NEW j \in i + 1 .. n, q[j].cmd = "STOP" PROVE StopAfter(r, k)
      BY <1>1 DEF StopAfter
    <2>2. j - 1 \in k + 1 .. Len(r) /\ r[j-1] = q[j]
      BY <1>3, <1>4, <2>1
    <2>3. QED
      BY <2>1, <2>2 DEF StopAfter
  <1>9. r[k] = q[i]
    BY <1>3, <1>4
  <1>10. QED
    BY <1>1, <1>2, <1>4, <1>5, <1>6, <1>7, <1>8, <1>9

\* Taking the only PLAY
LEMMA TailFirstPlay ==
  ASSUME NEW S, NEW q \in Seq(S), q # <<>>, OnlyPlay(q, 1)
  PROVE  /\ ~Has(Tail(q), "PLAY")
         /\ StopAfter(q, 1) => Has(Tail(q), "STOP")
         /\ ~StopBefore(q, 1)
  <1>1. PICK n \in Nat \ {0} : n = Len(q)
    BY TailOf
  <1>2. PICK r : r = Tail(q)
    OBVIOUS
  <1>3. Len(r) = n - 1 /\ \A j \in 1 .. n - 1 : r[j] = q[j+1]
    BY <1>1, <1>2, TailOf
  <1>4. ASSUME NEW j \in 1 .. n - 1, r[j].cmd = "PLAY" PROVE FALSE
    <2>1. q[j+1].cmd = "PLAY" /\ j + 1 \in 1 .. n
      BY <1>3, <1>4
    <2>2. QED
      BY <1>1, <2>1 DEF OnlyPlay
  <1>5. ASSUME NEW j \in 2 .. n, q[j].cmd = "STOP" PROVE Has(r, "STOP")
    <2>1. j - 1 \in 1 .. Len(r) /\ r[j-1] = q[j]
      BY <1>3
    <2>2. QED
      BY <1>5, <2>1 DEF Has
  <1>6. ~StopBefore(q, 1)
    BY DEF StopBefore
  <1>7. QED
    BY <1>1, <1>2, <1>3, <1>4, <1>5, <1>6 DEF Has, StopAfter

\* Writing messages behind those of the pipe
LEMMA ConcatHas ==
  ASSUME NEW S, NEW q \in Seq(S), NEW r \in Seq(S), NEW cmd
  PROVE  Has(q \o r, cmd) <=> Has(q, cmd) \/ Has(r, cmd)
  <1>1. PICK n \in Nat : n = Len(q)
    BY LenProperties
  <1>2. PICK m \in Nat : m = Len(r)
    BY LenProperties
  <1>3. PICK all : all = q \o r
    OBVIOUS
  <1>4. Len(all) = n + m /\ \A i \in 1 .. n + m : all[i] = IF i <= n THEN q[i] ELSE r[i-n]
    BY <1>1, <1>2, <1>3, ConcatProperties
  <1>5. ASSUME NEW i \in 1 .. n + m, all[i].cmd = cmd PROVE Has(q, cmd) \/ Has(r, cmd)
    <2>1. CASE i <= n
      BY <1>1, <1>4, <1>5, <2>1 DEF Has
    <2>2. CASE i > n
      <3>1. i - n \in 1 .. Len(r) /\ all[i] = r[i-n]
        BY <1>2, <1>4, <2>2
      <3>2. QED
        BY <1>5, <3>1 DEF Has
    <2>3. QED
      BY <2>1, <2>2
  <1>6. ASSUME NEW i \in 1 .. n, q[i].cmd = cmd PROVE Has(all, cmd)
    <2>1. i \in 1 .. Len(all) /\ all[i] = q[i]
      BY <1>4
    <2>2. QED
      BY <1>6, <2>1 DEF Has
  <1>7. ASSUME NEW i \in 1 .. m, r[i].cmd = cmd PROVE Has(all, cmd)
    <2>1. n + i \in 1 .. Len(all) /\ ~(n + i <= n) /\ (n + i) - n = i
      BY <1>4
    <2>2. all[n+i] = r[i]
      BY <1>4, <2>1
    <2>3. QED
      BY <1>7, <2>1, <2>2 DEF Has
  <1>8. QED
    BY <1>1, <1>2, <1>3, <1>4, <1>5, <1>6, <1>7 DEF Has

LEMMA ConcatPlay ==
  ASSUME NEW S, NEW q \in Seq(S), NEW r \in Seq(S), NEW i \in Nat, OnlyPlay(q, i), ~Has(r, "PLAY")
  PROVE  /\ OnlyPlay(q \o r, i)
         /\ (q \o r)[i] = q[i] /\ (i < Len(q) => (q \o r)[i+1] = q[i+1])
         /\ StopBefore(q, i) => StopBefore(q \o r, i)
         /\ StopAfter(q, i) \/ Has(r, "STOP") => StopAfter(q \o r, i)
  <1>1. PICK n \in Nat : n = Len(q)
    BY LenProperties
  <1>2. PICK m \in Nat : m = Len(r)
    BY LenProperties
  <1>3. PICK all : all = q \o r
    OBVIOUS
  <1>4. Len(all) = n + m /\ \A j \in 1 .. n + m : all[j] = IF j <= n THEN q[j] ELSE r[j-n]
    BY <1>1, <1>2, <1>3, ConcatProperties
  <1>5. i \in 1 .. n
    BY <1>1 DEF OnlyPlay
  <1>6. \A j \in 1 .. n : all[j] = q[j]
    BY <1>4
  <1>7. OnlyPlay(all, i)
    <2>1. ASSUME NEW j \in 1 .. n + m, all[j].cmd = "PLAY" PROVE j = i
      <3>1. CASE j <= n
        BY <1>1, <1>6, <2>1, <3>1 DEF OnlyPlay
      <3>2. CASE j > n
        <4>1. j - n \in 1 .. Len(r) /\ all[j] = r[j-n]
          BY <1>2, <1>4, <3>2
        <4>2. QED
          BY <2>1, <4>1 DEF Has
      <3>3. QED
        BY <3>1, <3>2
    <2>2. QED
      BY <1>4, <1>5, <1>6, <2>1 DEF OnlyPlay
  <1>8. StopBefore(q, i) => StopBefore(all, i)
    BY <1>5, <1>6 DEF StopBefore
  <1>9. StopAfter(q, i) => StopAfter(all, i)
    BY <1>1, <1>4, <1>5, <1>6 DEF StopAfter
  <1>10. Has(r, "STOP") => StopAfter(all, i)
    <2>1. SUFFICES ASSUME NEW j \in 1 .. m, r[j].cmd = "STOP" PROVE StopAfter(all, i)
      BY <1>2 DEF Has
    <2>2. n + j \in i + 1 .. Len(all) /\ n + j \in 1 .. n + m /\ ~(n + j <= n) /\ (n + j) - n = j
      BY <1>4, <1>5
    <2>3. all[n+j] = r[j]
      BY <1>4, <2>2
    <2>4. QED
      BY <2>1, <2>2, <2>3 DEF StopAfter
  <1>11. QED
    BY <1>1, <1>3, <1>5, <1>6, <1>7, <1>8, <1>9, <1>10

LEMMA ConcatNewPlay ==
  ASSUME NEW S, NEW q \in Seq(S), NEW r \in Seq(S), NEW i \in Nat, ~Has(q, "PLAY"), OnlyPlay(r, i)
  PROVE  \E k \in Nat :
           /\ OnlyPlay(q \o r, k)
           /\ (q \o r)[k] = r[i]
           /\ i < Len(r) => k < Len(q \o r) /\ (q \o r)[k+1] = r[i+1]
           /\ Has(q, "STOP") \/ StopBefore(r, i) => StopBefore(q \o r, k)
           /\ i = Len(r) => k = Len(q \o r)
  <1>1. PICK n \in Nat : n = Len(q)
    BY LenProperties
  <1>2. PICK m \in Nat : m = Len(r)
    BY LenProperties
  <1>3. PICK all : all = q \o r
    OBVIOUS
  <1>4. Len(all) = n + m /\ \A j \in 1 .. n + m : all[j] = IF j <= n THEN q[j] ELSE r[j-n]
    BY <1>1, <1>2, <1>3, ConcatProperties
  <1>5. i \in 1 .. m
    BY <1>2 DEF OnlyPlay
  <1>6. PICK k \in n + 1 .. n + m : k = n + i
    BY <1>5
  <1>7. ASSUME NEW j \in 1 .. m PROVE all[n+j] = r[j]
    <2>1. n + j \in 1 .. n + m /\ ~(n + j <= n) /\ (n + j) - n = j
      OBVIOUS
    <2>2. QED
      BY <1>4, <2>1
  <1>8. all[k] = r[i] /\ (i < m => k < Len(all) /\ all[k+1] = r[i+1])
    <2>1. i < m => i + 1 \in 1 .. m /\ n + (i + 1) = k + 1
      BY <1>5, <1>6
    <2>2. QED
      BY <1>4, <1>5, <1>6, <1>7, <2>1
  <1>9. OnlyPlay(all, k)
    <2>1. ASSUME NEW j \in 1 .. n + m, all[j].cmd = "PLAY" PROVE j = k
      <3>1. CASE j <= n
        <4>1. q[j].cmd = "PLAY"
          BY <1>4, <2>1, <3>1
        <4>2. QED
          BY <1>1, <3>1, <4>1 DEF Has
      <3>2. CASE j > n
        <4>1. j - n \in 1 .. m /\ all[j] = r[j-n]
          BY <1>4, <3>2
        <4>2. j - n = i
          BY <1>2, <2>1, <4>1 DEF OnlyPlay
        <4>3. QED
          BY <1>6, <4>2
      <3>3. QED
        BY <3>1, <3>2
    <2>2. QED
      BY <1>4, <1>6, <1>8, <2>1 DEF OnlyPlay
  <1>10. Has(q, "STOP") => StopBefore(all, k)
    <2>1. SUFFICES ASSUME NEW j \in 1 .. n, q[j].cmd = "STOP" PROVE StopBefore(all, k)
      BY <1>1 DEF Has
    <2>2. j \in 1 .. k - 1 /\ all[j] = q[j]
      BY <1>4, <1>6
    <2>3. QED
      BY <2>1, <2>2 DEF StopBefore
  <1>11. StopBefore(r, i) => StopBefore(all, k)
    <2>1. SUFFICES ASSUME NEW j \in 1 .. i - 1, r[j].cmd = "STOP" PROVE StopBefore(all, k)
      BY DEF StopBefore
    <2>2. n + j \in 1 .. k - 1 /\ all[n+j] = r[j]
      BY <1>5, <1>6, <1>7
    <2>3. QED
      BY <2>1, <2>2 DEF StopBefore
  <1>12. i = m => k = Len(all)
    BY <1>4, <1>6
  <1>13. /\ k \in Nat /\ OnlyPlay(all, k) /\ all[k] = r[i]
         /\ i < Len(r) => k < Len(all) /\ all[k+1] = r[i+1]
         /\ Has(q, "STOP") \/ StopBefore(r, i) => StopBefore(all, k)
         /\ i = Len(r) => k = Len(all)
    BY <1>2, <1>6, <1>8, <1>9, <1>10, <1>11, <1>12
  <1>14. QED
    BY <1>3, <1>13, Zenon

\* What the UI and the player write
LEMMA OneMessage ==
  ASSUME NEW m
  PROVE  /\ \A cmd : Has(<<m>>, cmd) <=> m.cmd = cmd
         /\ m.cmd = "PLAY" => OnlyPlay(<<m>>, 1)
  <1>1. Len(<<m>>) = 1 /\ <<m>>[1] = m
    OBVIOUS
  <1>2. QED
    BY <1>1 DEF Has, OnlyPlay

--------------------------------------------------------------------------------
(* the UI as a client of the player                                            *)

\* The steps of the whole that are none of the player thread or the device
UIStep == Keys \/ Results \/ Sigint \/ UIExit \/ Restore

\* What a step of the UI does to the pipes
Writes(ms) == WholeMessages(ms) /\ ui_to_player' = ui_to_player \o ms
Reads == player_to_ui # <<>> /\ player_to_ui' = Tail(player_to_ui)

LEMMA InitUIType == UIInit => UITypeOK
  BY UIAssumption DEF UIInit, UITypeOK, AllStopped, Tags

\* A tag is one of the three; the jobs are those of tracks.
LEMMA NextUIType == UITypeOK /\ [UINext]_allVars => UITypeOK'
  <1> SUFFICES ASSUME UITypeOK, [UINext]_allVars PROVE UITypeOK'
    OBVIOUS
  <1>1. CASE PlayerStep \/ UNCHANGED allVars
    BY <1>1 DEF PlayerStep, allVars, uiVars, UITypeOK
  <1>2. ASSUME NEW f \in Track,
               SpaceStop(f) \/ SpacePlay(f) \/ SpaceDecrypt(f) \/ SpaceFails(f) \/ Crypt(f)
        PROVE  UITypeOK'
    BY <1>2
       DEF SpaceStop, SpacePlay, SpaceDecrypt, SpaceFails, Crypt, StartJob, uiVars, UITypeOK,
           Tags
  <1>3. ASSUME NEW d \in Delta, Arrow(d) PROVE UITypeOK'
    BY <1>3 DEF Arrow, uiVars, UITypeOK
  <1>4. CASE PlayerMessage
    BY <1>4 DEF PlayerMessage, Show, change_tags, UITypeOK, Tags
  <1>5. ASSUME NEW j \in jobs, CryptSucceeds(j) \/ IntoSucceeds(j) \/ JobFails(j) \/ JobOrphaned(j)
        PROVE  UITypeOK'
    <2>1. CASE CryptSucceeds(j)
      BY <2>1 DEF CryptSucceeds, open_directory, UITypeOK
    <2>2. CASE IntoSucceeds(j)
      BY <2>2 DEF IntoSucceeds, UITypeOK, Tags
    <2>3. CASE JobFails(j)
      BY <2>3 DEF JobFails, TagsAfterFailure, UITypeOK, Tags
    <2>4. CASE JobOrphaned(j)
      BY <2>4 DEF JobOrphaned, UITypeOK
    <2>5. QED
      BY <1>5, <2>1, <2>2, <2>3, <2>4
  <1>6. CASE Sigint \/ UIExit \/ Restore
    BY <1>6 DEF Sigint, UIExit, Restore, uiVars, UITypeOK
  <1>7. QED
    BY <1>1, <1>2, <1>3, <1>4, <1>5, <1>6 DEF UINext, Keys, Results

\* A STOP for what plays and the PLAY behind it are whole messages.
LEMMA OtherMessages ==
  /\ WholeMessages(<<>>) /\ WholeMessages(StopOther)
  /\ \A f \in Track : WholeMessages(StopOther \o PlayMessages(f))
  <1>1. WholeMessages(<<>>)
    BY EmptySeq DEF WholeMessages
  <1>2. WholeMessages(StopOther)
    BY <1>1, ClientMessages DEF StopOther
  <1>3. ASSUME NEW f \in Track PROVE WholeMessages(StopMessages \o PlayMessages(f))
    <2>1. /\ StopMessages \in Seq(Command) /\ Len(StopMessages) = 1
          /\ StopMessages[1].cmd = "STOP"
      BY DEF StopMessages, Command
    <2>2. /\ PlayMessages(f) \in Seq(Command) /\ Len(PlayMessages(f)) = 2
          /\ PlayMessages(f)[1].cmd = "PLAY" /\ PlayMessages(f)[2].cmd = "BUFFER"
      BY DEF PlayMessages, Command
    <2>3. PICK all : all = StopMessages \o PlayMessages(f)
      OBVIOUS
    <2>4. /\ all \in Seq(Command) /\ Len(all) = 3
          /\ \A i \in 1 .. 3 : all[i] = IF i <= 1 THEN StopMessages[i] ELSE PlayMessages(f)[i-1]
      BY <2>1, <2>2, <2>3, ConcatProperties, SMTT(30)
    <2>5. all[1].cmd = "STOP" /\ all[2].cmd = "PLAY" /\ all[3].cmd = "BUFFER"
      <3>1. /\ all[1] = StopMessages[1]
            /\ all[2] = PlayMessages(f)[1]
            /\ all[3] = PlayMessages(f)[2]
        BY <2>4
      <3>2. QED
        BY <2>1, <2>2, <3>1, Zenon
    <2>6. QED
      BY <2>3, <2>4, <2>5 DEF WholeMessages
  <1>4. ASSUME NEW f \in Track PROVE WholeMessages(<<>> \o PlayMessages(f))
    <2>1. WholeMessages(PlayMessages(f))
      BY ClientMessages
    <2>2. <<>> \o PlayMessages(f) = PlayMessages(f)
      BY <2>1, ConcatEmptySeq DEF WholeMessages
    <2>3. QED
      BY <2>1, <2>2
  <1>5. QED
    BY <1>2, <1>1, <1>3, <1>4 DEF StopOther

LEMMA UIOutside ==
  ASSUME TypeInv, UITypeOK, UIStep
  PROVE  /\ Outside
         /\ ui_to_player' = ui_to_player \/ \E ms : Writes(ms)
         /\ player_to_ui' = player_to_ui \/ Reads
         /\ ui_reads' \in BOOLEAN /\ killed' \in BOOLEAN
  <1> DEFINE Goal == /\ Outside
                     /\ ui_to_player' = ui_to_player \/ \E ms : Writes(ms)
                     /\ player_to_ui' = player_to_ui \/ Reads
                     /\ ui_reads' \in BOOLEAN /\ killed' \in BOOLEAN
  <1>1. ui_reads \in BOOLEAN /\ killed \in BOOLEAN
    BY DEF TypeInv, TypeOK
  <1>2. ASSUME NEW f \in Track, SpaceStop(f) \/ SpaceFails(f) \/ SpaceDecrypt(f) PROVE Goal
    BY <1>1, <1>2, ClientMessages, OtherMessages
       DEF SpaceStop, SpaceFails, SpaceDecrypt, SendToPlayer, Writes, playerRest, Outside
  <1>3. ASSUME NEW f \in Track, SpacePlay(f) PROVE Goal
    BY <1>1, <1>3, OtherMessages DEF SpacePlay, SendToPlayer, Writes, playerRest, Outside
  <1>4. ASSUME NEW f \in Track, Crypt(f) PROVE Goal
    BY <1>1, <1>4 DEF Crypt, playerVars, pipeVars, Outside
  <1>5. ASSUME NEW d \in Delta, Arrow(d) PROVE Goal
    BY <1>1, <1>5, ClientMessages DEF Arrow, SendToPlayer, Writes, playerRest, Outside
  <1>6. CASE PlayerMessage
    BY <1>1, <1>6 DEF PlayerMessage, Reads, Outside
  <1>7. ASSUME NEW j \in jobs, CryptSucceeds(j) \/ JobFails(j) PROVE Goal
    BY <1>1, <1>7 DEF CryptSucceeds, JobFails, playerVars, pipeVars, Outside
  <1>8. ASSUME NEW j \in jobs, IntoSucceeds(j) PROVE Goal
    <2>1. WholeMessages(PlayMessages(j.track))
      BY ClientMessages DEF UITypeOK
    <2>2. QED
      BY <1>1, <1>8, <2>1 DEF IntoSucceeds, Writes, playerRest, Outside
  <1>9. ASSUME NEW j \in jobs, JobOrphaned(j) PROVE Goal
    BY <1>1, <1>9 DEF JobOrphaned, Outside
  <1>10. CASE Sigint \/ Restore
    BY <1>1, <1>10 DEF Sigint, Restore, playerVars, pipeVars, Outside
  <1>11. CASE UIExit
    BY <1>1, <1>11, ClientMessages DEF UIExit, ClientExit, Writes, Outside
  <1>12. QED
    BY <1>2, <1>3, <1>4, <1>5, <1>6, <1>7, <1>8, <1>9, <1>10, <1>11 DEF UIStep, Keys, Results

\* Every step of the whole is one of the player, or outside it.
LEMMA UISteps ==
  [UINext]_allVars => ((Program \/ Device \/ UNCHANGED vars) /\ UNCHANGED uiVars) \/ UIStep
  BY DEF UINext, PlayerStep, allVars, vars, UIStep

LEMMA InitUIPlayer == UIInit => PlayerInv
  BY InitType, InitSilence, InitMemory DEF UIInit, Init, PlayerInv, MemoryInv

LEMMA NextUIPlayer == UITypeOK /\ PlayerInv /\ [UINext]_allVars => PlayerInv'
  <1> SUFFICES ASSUME UITypeOK, PlayerInv, [UINext]_allVars PROVE PlayerInv'
    OBVIOUS
  <1>1. CASE [Next]_vars
    BY <1>1, NextType, NextSilence, NextMemory DEF PlayerInv
  <1>2. CASE UIStep
    <2>1. Outside /\ TypeInv'
      BY <1>2, UIOutside, TypeOutside DEF PlayerInv, Writes, Reads
    <2>2. SilenceInv'
      BY <2>1, SilenceOutside DEF PlayerInv, SilenceInv, Outside, InTime
    <2>3. Clean' => Clean
      BY <2>1 DEF Outside, Clean, InTime
    <2>4. MemoryInv'
      BY <2>1, <2>3, MemoryOutside DEF PlayerInv, MemoryInv, SilenceInv, Clean, Sound
    <2>5. QED
      BY <2>1, <2>2, <2>4 DEF PlayerInv
  <1>3. QED
    BY <1>1, <1>2, UISteps DEF Next

\* The tags are tags, and the jobs those of tracks.
THEOREM UITypes == UISpec => []UITypeOK
  BY InitUIType, NextUIType, PTL DEF UISpec

\* All that holds of the player with any client holds of it with the UI.
THEOREM PlayerInUI == UISpec => []PlayerInv
  BY InitUIPlayer, NextUIPlayer, UITypes, PTL DEF UISpec

\* With the UI, what plays is a whole track, memory comes back, replies are true,
\* completions are those of the transfer, and EXIT leaves silence.
THEOREM PlayerPropertiesInUI ==
  UISpec => [](/\ TypeOK /\ IdleIsSilent /\ WholeTrackPlayed /\ NothingLeaks
               /\ ReplyTruthful /\ CompletionMatchesTransfer /\ ExitIsClean)
  <1>1. PlayerInv => TypeOK /\ IdleIsSilent
    BY DEF PlayerInv, TypeInv, SilenceInv, DeviceKnown, IdleIsSilent
  <1>2. QED
    BY <1>1, PlayerInUI, PlayingWhole, MemoryUsed, RepliesTrue, CompletionsMatch, EndsClean, PTL

--------------------------------------------------------------------------------
(* the messages of the UI                                                      *)

LEMMA MessagesHave ==
  /\ StopMessages \in Seq(Command)
  /\ \A cmd : Has(StopMessages, cmd) <=> cmd = "STOP"
  /\ ExitMessages \in Seq(Command)
  /\ \A cmd : Has(ExitMessages, cmd) <=> cmd = "EXIT"
  /\ \A d \in Delta : /\ VolumeMessages(d) \in Seq(Command)
                      /\ \A cmd : Has(VolumeMessages(d), cmd) <=> cmd = "VOLUME"
  <1>1. StopMessages \in Seq(Command) /\ ExitMessages \in Seq(Command)
    BY DEF StopMessages, ExitMessages, Command
  <1>2. \A d \in Delta : VolumeMessages(d) \in Seq(Command)
    BY DEF VolumeMessages, Command
  <1>3. QED
    BY <1>1, <1>2, OneMessage DEF StopMessages, ExitMessages, VolumeMessages

LEMMA PlayMessagesHave ==
  ASSUME NEW f \in Track
  PROVE  /\ PlayMessages(f) \in Seq(Command) /\ Len(PlayMessages(f)) = 2
         /\ OnlyPlay(PlayMessages(f), 1) /\ PlayMessages(f)[2].arg = f
         /\ ~Has(PlayMessages(f), "STOP") /\ ~Has(PlayMessages(f), "EXIT")
  <1>1. /\ PlayMessages(f) \in Seq(Command) /\ Len(PlayMessages(f)) = 2
        /\ PlayMessages(f)[1].cmd = "PLAY"
        /\ PlayMessages(f)[2].cmd = "BUFFER" /\ PlayMessages(f)[2].arg = f
    BY DEF PlayMessages, Command
  <1>2. \A i \in 1 .. 2 : i = 1 \/ i = 2
    OBVIOUS
  <1>3. QED
    BY <1>1, <1>2 DEF OnlyPlay, Has

LEMMA StopOtherHas ==
  /\ StopOther \in Seq(Command)
  /\ \A cmd : Has(StopOther, cmd) <=> cmd = "STOP" /\ Playing # {}
  <1>1. has_any_tag("PLAYING") <=> Playing # {}
    BY DEF has_any_tag, Playing
  <1>2. CASE Playing # {}
    BY <1>1, <1>2, MessagesHave DEF StopOther
  <1>3. CASE Playing = {}
    <2>1. StopOther = <<>>
      BY <1>1, <1>3 DEF StopOther
    <2>2. <<>> \in Seq(Command) /\ \A cmd : ~Has(<<>>, cmd)
      BY DEF Has
    <2>3. QED
      BY <1>3, <2>1, <2>2
  <1>4. QED
    BY <1>2, <1>3

LEMMA StopThenPlay ==
  ASSUME NEW f \in Track
  PROVE  /\ StopOther \o PlayMessages(f) \in Seq(Command)
         /\ ~Has(StopOther \o PlayMessages(f), "EXIT")
         /\ \E i \in Nat :
              /\ OnlyPlay(StopOther \o PlayMessages(f), i)
              /\ i < Len(StopOther \o PlayMessages(f))
              /\ (StopOther \o PlayMessages(f))[i+1].arg = f
              /\ Playing # {} => StopBefore(StopOther \o PlayMessages(f), i)
  <1>1. ~Has(StopOther, "PLAY") /\ ~Has(StopOther, "EXIT") /\ (Playing # {} => Has(StopOther, "STOP"))
    BY StopOtherHas
  <1>2. PICK ms : ms = StopOther
    OBVIOUS
  <1>3. PICK ps : ps = PlayMessages(f)
    OBVIOUS
  <1>4. ms \in Seq(Command) /\ ps \in Seq(Command)
    BY <1>2, <1>3, StopOtherHas, PlayMessagesHave
  <1>5. ms \o ps \in Seq(Command)
    BY <1>4, ConcatProperties
  <1>6. ~Has(ms \o ps, "EXIT")
    BY <1>1, <1>2, <1>3, <1>4, ConcatHas, PlayMessagesHave
  <1>7. OnlyPlay(ps, 1) /\ 1 \in Nat /\ 1 < Len(ps) /\ ps[1+1].arg = f
    BY <1>3, PlayMessagesHave
  <1>8. ~Has(ms, "PLAY") /\ (Playing # {} => Has(ms, "STOP"))
    BY <1>1, <1>2
  <1>9. PICK k \in Nat :
          /\ OnlyPlay(ms \o ps, k)
          /\ k < Len(ms \o ps) /\ (ms \o ps)[k+1] = ps[1+1]
          /\ Has(ms, "STOP") => StopBefore(ms \o ps, k)
    BY <1>4, <1>7, <1>8, ConcatNewPlay
  <1>10. QED
    BY <1>2, <1>3, <1>5, <1>6, <1>7, <1>8, <1>9

--------------------------------------------------------------------------------
(* the end of the UI, and the device under a busy codec                        *)

LEMMA InitExit == UIInit => ExitInv /\ DeviceInv
  BY DEF UIInit, PlayerInit, ExitInv, DeviceInv, Has

LEMMA NextDevice == PlayerInv /\ UITypeOK /\ DeviceInv /\ [UINext]_allVars => DeviceInv'
  <1> SUFFICES ASSUME PlayerInv, UITypeOK, DeviceInv, [UINext]_allVars PROVE DeviceInv'
    OBVIOUS
  <1>1. TypeInv /\ SilenceInv
    BY DEF PlayerInv
  <1>2. CASE UIStep \/ UNCHANGED vars
    <2>1. Outside
      BY <1>1, <1>2, UIOutside DEF Outside, vars, playerVars
    <2>2. QED
      BY <2>1 DEF Outside, codecVars, deviceVars, DeviceInv, InTime
  <1>3. CASE Receive \/ ChangeVolume \/ ReadBuffer
    BY <1>1, <1>3
       DEF Receive, ChangeVolume, ReadBuffer, Goto, SystemCall, programVars, codecVars,
           DeviceInv, InTime
  <1>4. CASE RequestBuffer \/ RequestFails \/ Reply \/ Close
    <2>1. UNCHANGED <<is_busy, channel>> /\ (completion # "none" => completion' # "none")
      BY <1>4 DEF RequestBuffer, RequestFails, Reply, Close, SystemCall, codecVars
    <2>2. pc \notin {"play_start", "stop_free"}
      BY <1>4 DEF RequestBuffer, RequestFails, Reply, Close, Goto
    <2>3. defects \subseteq defects'
      BY <1>4 DEF RequestBuffer, RequestFails, Reply, Close
    <2>4. QED
      BY <2>1, <2>2, <2>3 DEF DeviceInv, InTime
  <1>5. CASE StopTest \/ StopIoctl \/ StopFree
    BY <1>1, <1>5
       DEF  StopTest, StopIoctl, StopFree, Goto, SystemCall, programVars, codecVars, deviceVars,
          DeviceInv, InTime,
           AfterStop, TypeInv, TypeOK
  <1>6. CASE SetRate \/ PlayFails \/ PlayStop \/ PlaySetup \/ Release \/ Destroy
    BY <1>1, <1>6
       DEF  SetRate, PlayFails, PlayStop, PlaySetup, Release, Destroy, Goto, SystemCall,
          programVars,
           codecVars, deviceVars, DeviceInv, InTime, SilenceInv, DeviceKnown, IdlePCs, LoadingPCs,
           LoadedPCs, EndPCs,
           TypeInv, TypeOK
  <1>7. CASE PlayStart
    BY <1>1, <1>7 DEF PlayStart, Goto, codecVars, DeviceInv, InTime, SilenceInv, DeviceKnown
  <1>8. CASE Device
    BY <1>1, <1>8 DEF Device, Complete, Signal, Interrupt, codecVars, DeviceInv, InTime
  <1>9. QED
    BY <1>2, <1>3, <1>4, <1>5, <1>6, <1>7, <1>8, UISteps DEF Program

\* Nobody is killed while the UI reads, and while it reads no EXIT has been sent.
LEMMA ExitOutside ==
  ASSUME PlayerInv, UITypeOK, ExitInv, UIStep
  PROVE  ExitInv'
  <1> DEFINE q == ui_to_player
  <1>1. q \in Seq(Command)
    BY DEF PlayerInv, TypeInv, TypeOK
  <1>2. ASSUME NEW ms \in Seq(Command), ~Has(ms, "EXIT"), UIRuns, ui_to_player' = q \o ms,
               UNCHANGED <<ui_reads, killed, pc, command>>
        PROVE  ExitInv'
    <2>1. Has(q \o ms, "EXIT") <=> Has(q, "EXIT")
      BY <1>1, <1>2, ConcatHas
    <2>2. QED
      BY <1>2, <2>1 DEF ExitInv
  <1>3. ASSUME UNCHANGED <<ui_to_player, ui_reads, killed, pc, command>> PROVE ExitInv'
    BY <1>3 DEF ExitInv
  <1> HIDE DEF q
  <1>4. ASSUME NEW f \in Track,
               SpaceStop(f) \/ SpacePlay(f) \/ SpaceDecrypt(f) \/ SpaceFails(f) \/ Crypt(f)
        PROVE  ExitInv'
    <2>1. CASE SpaceStop(f)
      BY <1>2, <2>1, MessagesHave DEF SpaceStop, SendToPlayer, playerRest, programVars, q
    <2>2. CASE SpacePlay(f)
      BY <1>2, <2>2, StopThenPlay
         DEF SpacePlay, CanStart, SendToPlayer, playerRest, programVars, q
    <2>3. CASE SpaceDecrypt(f) \/ SpaceFails(f)
      BY <1>2, <2>3, StopOtherHas
         DEF SpaceDecrypt, SpaceFails, CanStart, SendToPlayer, playerRest, programVars, q
    <2>4. CASE Crypt(f)
      BY <1>3, <2>4 DEF Crypt, playerVars, pipeVars, programVars
    <2>5. QED
      BY <1>4, <2>1, <2>2, <2>3, <2>4
  <1>5. ASSUME NEW d \in Delta, Arrow(d) PROVE ExitInv'
    BY <1>2, <1>5, MessagesHave DEF Arrow, SendToPlayer, playerRest, programVars, q
  <1>6. CASE PlayerMessage
    BY <1>3, <1>6 DEF PlayerMessage, programVars
  <1>7. ASSUME NEW j \in jobs, CryptSucceeds(j) \/ IntoSucceeds(j) \/ JobFails(j) \/ JobOrphaned(j)
        PROVE  ExitInv'
    <2>1. CASE CryptSucceeds(j) \/ JobFails(j)
      BY <1>3, <2>1 DEF CryptSucceeds, JobFails, playerVars, pipeVars, programVars
    <2>2. CASE IntoSucceeds(j)
      <3>1. PlayMessages(j.track) \in Seq(Command) /\ ~Has(PlayMessages(j.track), "EXIT")
        BY PlayMessagesHave DEF UITypeOK
      <3>2. QED
        BY <1>2, <2>2, <3>1 DEF IntoSucceeds, playerRest, programVars, q
    <2>3. CASE JobOrphaned(j)
      BY <2>3 DEF JobOrphaned, UIRuns, programVars, ExitInv
    <2>4. QED
      BY <1>7, <2>1, <2>2, <2>3
  <1>8. CASE Sigint \/ Restore
    BY <1>3, <1>8 DEF Sigint, Restore, playerVars, pipeVars, programVars
  <1>9. CASE UIExit
    <2>1. Has(q \o ExitMessages, "EXIT")
      BY <1>1, ConcatHas, MessagesHave DEF q
    <2>2. QED
      BY <1>9, <2>1 DEF UIExit, ClientExit, ExitInv, q
  <1>10. QED
    BY <1>4, <1>5, <1>6, <1>7, <1>8, <1>9 DEF UIStep, Keys, Results

LEMMA NextExit == PlayerInv /\ UITypeOK /\ ExitInv /\ [UINext]_allVars => ExitInv'
  <1> SUFFICES ASSUME PlayerInv, UITypeOK, ExitInv, [UINext]_allVars PROVE ExitInv'
    OBVIOUS
  <1>1. TypeOK /\ PipeInv /\ ControlInv /\ ui_to_player \in Seq(Command)
    BY DEF PlayerInv, TypeInv, TypeOK
  <1>2. CASE UIStep
    BY <1>2, ExitOutside
  <1>3. ASSUME UNCHANGED <<ui_to_player, ui_reads, command>>, killed' => killed \/ ~ui_reads,
               command = "EXIT" /\ pc # "idle" => pc' # "idle"
        PROVE  ExitInv'
    BY <1>3 DEF ExitInv
  <1>4. ASSUME UNCHANGED vars PROVE ExitInv'
    BY <1>3, <1>4 DEF vars, playerVars, pipeVars, programVars
  <1>5. CASE Receive
    <2>1. /\ ui_to_player # <<>> /\ ui_to_player' = Tail(ui_to_player)
          /\ command' = ui_to_player[1].cmd /\ pc = "idle" /\ pc' = "stop_test"
          /\ UNCHANGED <<ui_reads, killed>>
      BY <1>1, <1>5, TailOf DEF Receive, Goto, FirstStep
    <2>2. Has(ui_to_player, "EXIT") <=> command' = "EXIT" \/ Has(ui_to_player', "EXIT")
      BY <1>1, <2>1, TailHas
    <2>3. QED
      BY <2>1, <2>2 DEF ExitInv
  <1>6. CASE ChangeVolume
    <2>1. /\ ui_to_player # <<>> /\ ui_to_player' = Tail(ui_to_player)
          /\ ui_to_player[1].cmd # "EXIT"
          /\ UNCHANGED <<ui_reads, killed, pc, command>>
      BY <1>1, <1>6, TailOf DEF ChangeVolume, Goto, programVars
    <2>2. Has(ui_to_player, "EXIT") <=> Has(ui_to_player', "EXIT")
      BY <1>1, <2>1, TailHas
    <2>3. QED
      BY <2>1, <2>2 DEF ExitInv
  <1>7. CASE ReadBuffer
    <2>1. /\ ui_to_player # <<>> /\ ui_to_player' = Tail(ui_to_player)
          /\ ui_to_player[1].cmd # "EXIT" /\ command = "PLAY"
          /\ UNCHANGED <<ui_reads, killed, command>>
      BY <1>1, <1>7 DEF ReadBuffer, Goto, PipeInv, ControlInv, LoadingPCs, AwaitsBuffer
    <2>2. Has(ui_to_player, "EXIT") <=> Has(ui_to_player', "EXIT")
      BY <1>1, <2>1, TailHas
    <2>3. QED
      BY <2>1, <2>2 DEF ExitInv
  <1>8. CASE RequestBuffer \/ RequestFails \/ Close \/ SetRate \/ PlayFails
    BY <1>3, <1>8
       DEF RequestBuffer, RequestFails, Close, SetRate, PlayFails, Goto, pipeVars, programVars
  <1>9. CASE StopTest \/ StopIoctl \/ StopFree
    BY <1>1, <1>3, <1>9
       DEF StopTest, StopIoctl, StopFree, Goto, pipeVars, programVars, AfterStop
  <1>10. CASE PlayStop \/ PlaySetup \/ PlayStart \/ Release \/ Destroy \/ Complete \/ Signal
    BY <1>3, <1>10
       DEF PlayStop, PlaySetup, PlayStart, Release, Destroy, Complete, Signal, Goto, pipeVars,
           programVars
  <1>11. CASE Reply
    BY <1>1, <1>3, <1>11 DEF Reply, Answer, Send, Goto, ControlInv
  <1>12. CASE Interrupt
    BY <1>3, <1>12 DEF Interrupt, Send, programVars
  <1>13. QED
    BY <1>2, <1>4, <1>5, <1>6, <1>7, <1>8, <1>9, <1>10, <1>11, <1>12, UISteps DEF Program, Device

--------------------------------------------------------------------------------
(* a request is in one place: steps of the player                              *)

\* Trust is not regained.
LEMMA TrustedBefore == [UINext]_allVars /\ Trusted' => Trusted
  <1> SUFFICES ASSUME [UINext]_allVars, Trusted' PROVE Trusted
    OBVIOUS
  <1>1. (defects \subseteq defects' /\ (ui_reads' => ui_reads) /\ (killed => killed')
          /\ (tags_lost => tags_lost')) => Trusted
    BY DEF Trusted, UIClean, InTime, UIRuns
  <1>2. CASE UNCHANGED allVars
    BY <1>1, <1>2 DEF allVars, playerVars, pipeVars, uiVars
  <1>3. CASE PlayerStep
    <2>1. tags_lost' = tags_lost
      BY <1>3 DEF PlayerStep, uiVars
    <2>2. CASE Receive \/ ChangeVolume \/ ReadBuffer \/ RequestBuffer \/ RequestFails \/ Close
      BY <1>1, <2>1, <2>2
         DEF Receive, ChangeVolume, ReadBuffer, RequestBuffer, RequestFails, Close, pipeVars
    <2>3. CASE StopTest \/ StopIoctl \/ StopFree \/ SetRate \/ PlayFails \/ PlayStop \/ PlaySetup
      BY <1>1, <2>1, <2>3
         DEF StopTest, StopIoctl, StopFree, SetRate, PlayFails, PlayStop, PlaySetup, pipeVars
    <2>4. CASE PlayStart \/ Release \/ Destroy \/ Complete \/ Signal
      BY <1>1, <2>1, <2>4 DEF PlayStart, Release, Destroy, Complete, Signal, pipeVars
    <2>5. CASE Reply \/ Interrupt
      BY <1>1, <2>1, <2>5 DEF Reply, Answer, Interrupt, Send
    <2>6. QED
      BY <1>3, <2>2, <2>3, <2>4, <2>5 DEF PlayerStep, Program, Device
  <1>4. ASSUME NEW f \in Track,
               SpaceStop(f) \/ SpacePlay(f) \/ SpaceDecrypt(f) \/ SpaceFails(f) \/ Crypt(f)
        PROVE  Trusted
    BY <1>1, <1>4
       DEF SpaceStop, SpacePlay, SpaceDecrypt, SpaceFails, Crypt, playerRest, playerVars,
                      pipeVars, uiVars
  <1>5. ASSUME NEW d \in Delta, Arrow(d) PROVE Trusted
    BY <1>1, <1>5 DEF Arrow, playerRest, uiVars
  <1>6. CASE PlayerMessage
    BY <1>1, <1>6 DEF PlayerMessage
  <1>7. ASSUME NEW j \in jobs, CryptSucceeds(j) \/ IntoSucceeds(j) \/ JobFails(j) \/ JobOrphaned(j)
        PROVE  Trusted
    BY <1>1, <1>7
       DEF CryptSucceeds, IntoSucceeds, JobFails, JobOrphaned, open_directory, playerRest,
                      playerVars, pipeVars
  <1>8. CASE Sigint \/ UIExit \/ Restore
    BY <1>1, <1>8 DEF Sigint, UIExit, ClientExit, Restore, playerVars, pipeVars, uiVars
  <1>9. QED
    BY <1>2, <1>3, <1>4, <1>5, <1>6, <1>7, <1>8 DEF UINext, Keys, Results

LEMMA JobsKept ==
  jobs' = jobs => (NoneAsJob => NoneAsJob') /\ \A f \in Track : AsJob(f) => AsJob(f)'
  BY DEF NoneAsJob, AsJob, IntoJob

LEMMA TagsKept == tag' = tag => Playing' = Playing /\ Preparing' = Preparing
  BY DEF Playing, Preparing

\* Where the request can be, by what the player does.
LEMMA RequestServed ==
  ASSUME Request, command = "PLAY", pc # "idle"
  PROVE  \E f \in Track : Served(f)
  BY DEF Request, NoRequest, BeingDecrypted, Requested, Answered, NoneServed

\* While no PLAY is served, the codec may fall silent, when a STOP is served.
LEMMA Quieter ==
  ASSUME Request, NoneServed, NoneServed',
         UNCHANGED <<ui_to_player, player_to_ui, tag, jobs>>, channel' \subseteq channel,
         is_busy' => is_busy, StopServed => StopServed', is_busy /\ ~is_busy' => StopServed'
  PROVE  Request'
  <1>1. /\ Playing' = Playing /\ Preparing' = Preparing
        /\ NoneAsJob => NoneAsJob'
        /\ \A f \in Track : AsJob(f) => AsJob(f)'
        /\ (NoneInPipe => NoneInPipe') /\ (NoneAnswered => NoneAnswered')
        /\ Displayed => Displayed'
    BY TagsKept, JobsKept DEF NoneInPipe, NoneAnswered, Displayed
  <1>2. EndsShown => EndsShown'
    BY <1>1 DEF EndsShown
  <1>3. StopServed' => EndsShown'
    BY DEF EndsShown
  <1>4. CASE NoRequest
    BY <1>1, <1>2, <1>3, <1>4 DEF NoRequest, Request
  <1>5. ASSUME NEW f \in Track, BeingDecrypted(f) PROVE Request'
    BY <1>1, <1>2, <1>3, <1>5 DEF BeingDecrypted, Request
  <1>6. ASSUME NEW f \in Track, NEW i \in Nat, Requested(f, i) PROVE Request'
    BY <1>1, <1>2, <1>3, <1>6 DEF Requested, Request
  <1>7. ASSUME NEW f \in Track, NEW i \in Nat, Answered(f, i) PROVE Request'
    BY <1>1, <1>7 DEF Answered, Request
  <1>8. QED
    BY <1>4, <1>5, <1>6, <1>7 DEF Request, Served, NoneServed

\* A STOP is told to the UI: the reply to the command, or the end of a track.
LEMMA StopTold ==
  ASSUME TypeOK, Request, NoneServed, NoneServed', ~is_busy',
         NEW m \in [cmd : {"PLAY", "STOP"}, result : {"SUCCESS", "FAILURE"}], m.cmd = "STOP",
         player_to_ui' = Append(player_to_ui, m),
         UNCHANGED <<ui_to_player, tag, jobs>>
  PROVE  Request'
  <1> DEFINE Reply0 == [cmd : {"PLAY", "STOP"}, result : {"SUCCESS", "FAILURE"}]
  <1>1. player_to_ui \in Seq(Reply0) /\ <<m>> \in Seq(Reply0)
    BY DEF TypeOK
  <1> HIDE DEF Reply0
  <1>2. player_to_ui' = player_to_ui \o <<m>>
    BY <1>1, AppendIsConcat
  <1>3. ~Has(<<m>>, "PLAY") /\ Has(<<m>>, "STOP")
    BY OneMessage
  <1>4. Has(player_to_ui', "STOP") /\ (NoneAnswered => NoneAnswered')
    <2>1. PICK r : r = <<m>>
      OBVIOUS
    <2>2. \A cmd : Has(player_to_ui \o r, cmd) <=> Has(player_to_ui, cmd) \/ Has(r, cmd)
      BY <1>1, <2>1, ConcatHas
    <2>3. QED
      BY <1>2, <1>3, <2>1, <2>2 DEF NoneAnswered
  <1>5. /\ Playing' = Playing /\ Preparing' = Preparing
        /\ NoneAsJob => NoneAsJob'
        /\ NoneInPipe => NoneInPipe'
        /\ \A f \in Track : AsJob(f) => AsJob(f)'
    BY TagsKept, JobsKept DEF NoneInPipe
  <1>6. EndsShown'
    BY <1>4 DEF EndsShown
  <1>7. CASE NoRequest
    BY <1>4, <1>5, <1>6, <1>7 DEF NoRequest, Request
  <1>8. ASSUME NEW f \in Track, BeingDecrypted(f) PROVE Request'
    BY <1>4, <1>5, <1>6, <1>8 DEF BeingDecrypted, Request
  <1>9. ASSUME NEW f \in Track, NEW i \in Nat, Requested(f, i) PROVE Request'
    BY <1>4, <1>5, <1>6, <1>9 DEF Requested, Request
  <1>10. ASSUME NEW f \in Track, NEW k \in Nat, Answered(f, k) PROVE Request'
    <2>1. /\ OnlyPlay(player_to_ui', k)
          /\ StopBefore(player_to_ui, k) => StopBefore(player_to_ui', k)
          /\ player_to_ui'[k] = player_to_ui[k]
          /\ StopAfter(player_to_ui', k)
      <3>1. PICK r : r = <<m>>
        OBVIOUS
      <3>2. OnlyPlay(player_to_ui, k)
        BY <1>10 DEF Answered
      <3>3. /\ OnlyPlay(player_to_ui \o r, k)
            /\ StopBefore(player_to_ui, k) => StopBefore(player_to_ui \o r, k)
            /\ StopAfter(player_to_ui \o r, k)
            /\ (player_to_ui \o r)[k] = player_to_ui[k]
        BY <1>1, <1>3, <3>1, <3>2, ConcatPlay
      <3>4. QED
        BY <1>2, <3>1, <3>3
    <2>2. Answered(f, k)'
      BY <1>5, <1>10, <2>1 DEF Answered
    <2>3. QED
      BY <2>2 DEF Request
  <1>11. QED
    BY <1>7, <1>8, <1>9, <1>10 DEF Request, Served, NoneServed

\* The service of a PLAY keeps to its track, up to the reply.
LEMMA ServedKept ==
  ASSUME PlayerInv, InTime, Trusted', NEW f \in Track, Served(f), UNCHANGED <<tag, jobs>>,
         \/ StopTest \/ StopIoctl \/ StopFree \/ ReadBuffer \/ RequestBuffer \/ RequestFails
         \/ Close \/ SetRate \/ PlayFails \/ PlayStop \/ PlaySetup \/ PlayStart \/ Release
         \/ Destroy \/ Device
  PROVE  Served(f)'
  <1>1. TypeOK /\ PipeInv /\ ControlInv /\ DeviceKnown
    BY DEF PlayerInv, TypeInv, SilenceInv
  <1>2. /\ Preparing' = Preparing /\ Playing' = Playing
        /\ NoneAsJob => NoneAsJob'
    BY TagsKept, JobsKept
  <1>3. command = "PLAY" /\ pc # "idle" /\ Preparing = {f} /\ NoneAsJob /\ NoneInPipe /\ NoneAnswered
    BY DEF Served
  <1>4. Playing = {} \/ Has(player_to_ui, "STOP")
    BY DEF Served
  \* The step stays in the service and does not send.
  <1>5. ASSUME command' = "PLAY", pc' # "idle", player_to_ui' = player_to_ui, NoneInPipe',
               IF AwaitsBuffer' THEN ui_to_player'[1].arg = f ELSE track' = f,
               pc' \in StopPCs => ~is_busy',
               pc' = "reply" /\ result' = "SUCCESS" => is_busy',
               \A c \in channel' : c.track = f
        PROVE  Served(f)'
    BY <1>2, <1>3, <1>4, <1>5 DEF Served, NoneAnswered
  <1>6. CASE StopTest
    <2>1. pc = "stop_test" /\ ~is_busy /\ pc' = "read_buffer" /\ AwaitsBuffer
      BY <1>3, <1>6 DEF StopTest, Goto, AfterStop, Served, StopPCs, AwaitsBuffer
    <2>2. UNCHANGED <<command, ui_to_player, player_to_ui, channel>>
      BY <1>6 DEF StopTest, pipeVars, programVars, deviceVars
    <2>3. AwaitsBuffer' /\ ui_to_player'[1].arg = f
      BY <1>3, <2>1, <2>2 DEF AwaitsBuffer, Served
    <2>4. QED
      BY <1>3, <1>5, <2>1, <2>2, <2>3 DEF Served, NoneInPipe, StopPCs
  <1>7. CASE StopIoctl \/ StopFree
    <2>1. pc \in {"stop_ioctl", "stop_free"} /\ ~is_busy
      BY <1>7 DEF StopIoctl, StopFree, Goto, Served, StopPCs
    <2>2. \A c \in channel' : c.track = f
      BY <1>7 DEF StopIoctl, StopFree, Served
    <2>3. AwaitsBuffer /\ ui_to_player[1].arg = f
      BY <1>3, <2>1 DEF AwaitsBuffer, Served, StopPCs
    <2>4. UNCHANGED <<command, ui_to_player, player_to_ui>> /\ ~is_busy'
      BY <1>7, <2>1 DEF StopIoctl, StopFree, pipeVars, programVars, codecVars
    <2>5. pc' \in {"stop_free", "read_buffer"}
      BY <1>3, <1>7 DEF StopIoctl, StopFree, Goto, AfterStop
    <2>6. AwaitsBuffer'
      BY <1>3, <2>4, <2>5 DEF AwaitsBuffer, StopPCs
    <2>7. QED
      BY <1>3, <1>5, <2>2, <2>3, <2>4, <2>5, <2>6 DEF NoneInPipe
  <1>8. CASE ReadBuffer
    <2>1. AwaitsBuffer /\ pc' \in {"request", "reply"} /\ result = "FAILURE"
      BY <1>1, <1>3, <1>8 DEF ReadBuffer, Goto, AwaitsBuffer, ControlInv, LoadingPCs
    <2>2. ui_to_player \in Seq(Command) /\ ui_to_player # <<>>
      BY <1>1, <1>8 DEF TypeOK, ReadBuffer
    <2>3. track' = f
      BY <1>8, <2>1, <2>2, TailOf DEF ReadBuffer, Served
    <2>4. ~Has(ui_to_player', "PLAY")
      BY <1>3, <1>8, <2>2, TailHas DEF ReadBuffer, NoneInPipe
    <2>5. UNCHANGED <<command, player_to_ui, channel, result>>
      BY <1>8 DEF ReadBuffer
    <2>6. ~AwaitsBuffer' /\ pc' \notin StopPCs
      BY <2>1 DEF AwaitsBuffer, StopPCs
    <2>7. QED
      BY <1>3, <1>5, <2>1, <2>3, <2>4, <2>5, <2>6 DEF Served, NoneInPipe
  <1>9. CASE RequestBuffer \/ RequestFails \/ SetRate \/ PlayFails \/ PlayStop \/ PlaySetup \/ Release
    <2>1. pc \in LoadedPCs \cup {"request"} /\ ~AwaitsBuffer /\ result = "FAILURE"
      BY <1>1, <1>9
         DEF RequestBuffer, RequestFails, SetRate, PlayFails, PlayStop, PlaySetup, Release, Goto,
             LoadedPCs, LoadingPCs, AwaitsBuffer, StopPCs, ControlInv
    <2>2. pc' \in LoadedPCs \cup {"play_start", "reply"}
      BY <1>9
         DEF  RequestBuffer, RequestFails, SetRate, PlayFails, PlayStop, PlaySetup, Release,
            Goto, LoadedPCs
    <2>3. UNCHANGED <<command, ui_to_player, player_to_ui, track, result>>
      BY <1>9
         DEF RequestBuffer, RequestFails, SetRate, PlayFails, PlayStop, PlaySetup, Release,
             pipeVars, programVars
    <2>4. channel' \subseteq channel
      BY <1>9
         DEF  RequestBuffer, RequestFails, SetRate, PlayFails, PlayStop, PlaySetup, Release,
            deviceVars
    <2>5. ~AwaitsBuffer' /\ pc' \notin StopPCs /\ pc' # "idle"
      BY <2>2 DEF AwaitsBuffer, StopPCs, LoadedPCs
    <2>6. QED
      BY <1>3, <1>5, <2>1, <2>3, <2>4, <2>5 DEF Served, NoneInPipe
  <1>10. CASE PlayStart
    <2>1. /\ pc = "play_start" /\ pc' = "reply" /\ is_busy /\ channel = {}
          /\ UNCHANGED <<command, ui_to_player, player_to_ui, track, is_busy>>
      BY <1>1, <1>10 DEF PlayStart, Goto, DeviceKnown, pipeVars, codecVars
    <2>2. ~AwaitsBuffer /\ ~AwaitsBuffer' /\ pc' \notin StopPCs
      BY <2>1 DEF AwaitsBuffer, StopPCs
    <2>3. track = f
      BY <2>2 DEF Served
    <2>4. \A c \in channel' : c.track = f
      BY <1>10, <2>1, <2>3 DEF PlayStart
    <2>5. QED
      BY <1>3, <1>5, <2>1, <2>2, <2>3, <2>4 DEF NoneInPipe
  <1>11. CASE Close \/ Destroy
    BY <1>1, <1>3, <1>11 DEF Close, Destroy, Goto, ControlInv, EndPCs
  <1>12. CASE Complete \/ Signal
    <2>1. /\ UNCHANGED <<command, pc, ui_to_player, player_to_ui, track, result, is_busy>>
          /\ channel' \subseteq channel
      BY <1>12 DEF Complete, Signal, pipeVars, programVars, codecVars
    <2>2. AwaitsBuffer' <=> AwaitsBuffer
      BY <2>1 DEF AwaitsBuffer
    <2>3. QED
      BY <1>3, <1>5, <2>1, <2>2 DEF Served, NoneInPipe
  \* A track that ends is the one that has just been started: before the reply.
  <1>13. CASE Interrupt
    <2>1. is_busy /\ pc # "play_start" /\ pc \notin IdlePCs
      BY <1>1, <1>13 DEF Interrupt, DeviceKnown
    <2>2. pc \notin StopPCs
      BY <2>1 DEF Served
    <2>3. pc = "reply"
      BY <1>1, <1>3, <2>1, <2>2
         DEF TypeOK, PlayerPCs, StopPCs, IdlePCs, LoadingPCs, LoadedPCs, EndPCs
    <2>4. QED
      BY <1>3, <1>13, <2>3 DEF Interrupt, Trusted, UIClean
  <1>14. QED
    BY <1>6, <1>7, <1>8, <1>9, <1>10, <1>11, <1>12, <1>13 DEF Device

\* A command that is no PLAY is taken out of the pipe.
LEMMA CommandTaken ==
  ASSUME PlayerInv, Request, pc = "idle", NoneServed',
         ui_to_player # <<>>, ui_to_player[1].cmd # "PLAY", ui_to_player' = Tail(ui_to_player),
         ui_to_player[1].cmd = "STOP" => StopServed',
         UNCHANGED <<player_to_ui, tag, jobs, is_busy, channel>>
  PROVE  Request'
  <1>1. ui_to_player \in Seq(Command) /\ Pairs
    BY DEF PlayerInv, TypeInv, TypeOK, PipeInv
  <1>2. \A cmd : Has(ui_to_player, cmd) <=> ui_to_player[1].cmd = cmd \/ Has(ui_to_player', cmd)
    BY <1>1, TailHas
  <1>3. /\ Playing' = Playing /\ Preparing' = Preparing
        /\ NoneAsJob => NoneAsJob'
        /\ \A f \in Track : AsJob(f) => AsJob(f)'
        /\ NoneInPipe => NoneInPipe'
        /\ NoneAnswered => NoneAnswered'
        /\ Displayed => Displayed'
    BY <1>2, TagsKept, JobsKept DEF NoneInPipe, NoneAnswered, Displayed
  <1>4. ~StopServed
    BY DEF StopServed
  <1>5. EndsShown => EndsShown'
    BY <1>3, <1>4 DEF EndsShown
  <1>6. CASE NoRequest
    BY <1>3, <1>5, <1>6 DEF NoRequest, Request
  <1>7. ASSUME NEW f \in Track, BeingDecrypted(f) PROVE Request'
    BY <1>2, <1>3, <1>4, <1>5, <1>7 DEF BeingDecrypted, Request
  <1>8. ASSUME NEW f \in Track, NEW i \in Nat, Requested(f, i) PROVE Request'
    <2>1. OnlyPlay(ui_to_player, i) /\ i # 1 /\ i < Len(ui_to_player)
      BY <1>1, <1>8 DEF Requested, OnlyPlay, Pairs
    <2>2. /\ i - 1 \in Nat /\ OnlyPlay(ui_to_player', i - 1)
          /\ ui_to_player'[(i-1)+1] = ui_to_player[i+1]
          /\ StopBefore(ui_to_player, i) =>
               ui_to_player[1].cmd = "STOP" \/ StopBefore(ui_to_player', i - 1)
      BY <1>1, <2>1, TailPlay
    <2>3. PICK k \in Nat : k = i - 1
      BY <2>2
    <2>4. Requested(f, k)'
      BY <1>3, <1>4, <1>5, <1>8, <2>2, <2>3 DEF Requested
    <2>5. QED
      BY <2>4 DEF Request
  <1>9. ASSUME NEW f \in Track, NEW k \in Nat, Answered(f, k) PROVE Request'
    BY <1>3, <1>4, <1>9 DEF Answered, Request
  <1>10. QED
    BY <1>6, <1>7, <1>8, <1>9 DEF Request, Served

\* A PLAY that is taken out of the pipe is the request, and finds an idle codec.
LEMMA PlayTaken ==
  ASSUME PlayerInv, InTime, Request, Receive, ui_to_player[1].cmd = "PLAY", UNCHANGED <<tag, jobs>>
  PROVE  Request'
  <1>1. TypeOK /\ ui_to_player \in Seq(Command) /\ ui_to_player # <<>> /\ Pairs /\ DeviceKnown
    BY DEF PlayerInv, TypeInv, TypeOK, PipeInv, SilenceInv, Receive
  <1>2. /\ command' = "PLAY" /\ pc = "idle" /\ pc' = "stop_test" /\ ui_to_player' = Tail(ui_to_player)
        /\ UNCHANGED <<player_to_ui, is_busy, channel>>
    BY <1>1, TailOf DEF Receive, Goto, FirstStep, codecVars
  <1>3. Len(ui_to_player) \in Nat \ {0} /\ 1 \in 1 .. Len(ui_to_player)
    BY <1>1, TailOf
  <1>4. ~NoneInPipe
    BY <1>3 DEF NoneInPipe, Has
  <1>5. PICK f \in Track : \E i \in Nat : Requested(f, i)
    BY <1>2, <1>4 DEF Request, NoRequest, BeingDecrypted, Served, Answered
  <1>6. Requested(f, 1) /\ OnlyPlay(ui_to_player, 1)
    BY <1>3, <1>5 DEF Requested, OnlyPlay
  <1>7. ~Has(ui_to_player', "PLAY") /\ ~StopBefore(ui_to_player, 1)
    BY <1>1, <1>2, <1>6, TailFirstPlay
  <1>8. ui_to_player'[1].arg = f
    <2>1. 1 < Len(ui_to_player)
      BY <1>1, <1>3, <1>6 DEF Pairs, OnlyPlay
    <2>2. Tail(ui_to_player)[1] = ui_to_player[1+1]
      <3>1. PICK n \in Nat \ {0} : n = Len(ui_to_player)
        BY <1>3
      <3>2. \A i \in 1 .. n - 1 : Tail(ui_to_player)[i] = ui_to_player[i+1]
        BY <1>1, <3>1, TailOf
      <3>3. 1 \in 1 .. n - 1
        BY <2>1, <3>1
      <3>4. QED
        BY <3>2, <3>3
    <2>3. QED
      BY <1>2, <1>6, <2>2 DEF Requested
  <1>9. ~StopServed
    BY <1>2 DEF StopServed
  <1>10. ~is_busy /\ channel = {} /\ (Playing = {} \/ Has(player_to_ui, "STOP"))
    BY <1>1, <1>6, <1>7, <1>9 DEF Requested, EndsShown, DeviceKnown
  <1>11. AwaitsBuffer' /\ pc' # "idle" /\ pc' # "reply"
    BY <1>2 DEF AwaitsBuffer, StopPCs
  <1>12. Preparing' = Preparing /\ Playing' = Playing /\ (NoneAsJob => NoneAsJob')
    BY TagsKept, JobsKept
  <1>13. Served(f)'
    BY <1>2, <1>6, <1>7, <1>8, <1>10, <1>11, <1>12
       DEF Served, Requested, NoneInPipe, NoneAnswered
  <1>14. QED
    BY <1>13 DEF Request

\* The reply to PLAY is the answer.
LEMMA PlayAnswered ==
  ASSUME PlayerInv, Trusted, Request, Reply, command = "PLAY", UNCHANGED <<tag, jobs>>
  PROVE  Request'
  <1> DEFINE Replies == [cmd : {"PLAY", "STOP"}, result : {"SUCCESS", "FAILURE"}]
  <1>1. TypeOK /\ DeviceKnown /\ ui_reads
    BY DEF PlayerInv, TypeInv, SilenceInv, Trusted, UIClean, UIRuns
  <1>2. PICK m \in Replies : m = [cmd |-> command, result |-> result]
    BY <1>1 DEF TypeOK
  <1>3. /\ pc = "reply" /\ pc' = "idle" /\ player_to_ui' = Append(player_to_ui, m)
        /\ UNCHANGED <<ui_to_player, command, is_busy, channel>>
    BY <1>1, <1>2 DEF Reply, Goto, Answer, Send, codecVars
  <1>4. PICK f \in Track : Served(f)
    BY <1>3, RequestServed
  <1>5. track = f
    BY <1>3, <1>4 DEF Served, AwaitsBuffer, StopPCs
  <1>6. PICK r : r = <<m>>
    OBVIOUS
  <1>7. player_to_ui \in Seq(Replies) /\ r \in Seq(Replies)
    BY <1>1, <1>6 DEF TypeOK
  <1>8. m.cmd = "PLAY" /\ m.result = result
    BY <1>2
  <1> HIDE DEF Replies
  <1>9. player_to_ui' = player_to_ui \o r
    BY <1>3, <1>6, <1>7, AppendIsConcat
  <1>10. OnlyPlay(r, 1) /\ 1 \in Nat /\ Len(r) = 1 /\ r[1] = m
    BY <1>6, <1>8, OneMessage
  <1>11. ~Has(player_to_ui, "PLAY")
    BY <1>4 DEF Served, NoneAnswered
  <1>12. PICK k \in Nat : /\ OnlyPlay(player_to_ui', k)
                          /\ player_to_ui'[k] = m /\ k = Len(player_to_ui')
                          /\ Has(player_to_ui, "STOP") => StopBefore(player_to_ui', k)
    <2>1. \E k \in Nat : /\ OnlyPlay(player_to_ui \o r, k)
                         /\ (player_to_ui \o r)[k] = r[1] /\ k = Len(player_to_ui \o r)
                         /\ Has(player_to_ui, "STOP") => StopBefore(player_to_ui \o r, k)
      BY <1>7, <1>10, <1>11, ConcatNewPlay
    <2>2. QED
      BY <1>9, <1>10, <2>1, Zenon
  <1>13. /\ Preparing' = Preparing /\ Playing' = Playing
         /\ NoneAsJob => NoneAsJob'
         /\ NoneInPipe => NoneInPipe'
         /\ NoneServed'
    BY <1>3, TagsKept, JobsKept DEF NoneInPipe, NoneServed
  <1>14. is_busy <=> result = "SUCCESS"
    BY <1>1, <1>3, <1>4 DEF DeviceKnown, Served
  <1>15. Answered(f, k)'
    BY <1>3, <1>4, <1>5, <1>8, <1>12, <1>13, <1>14 DEF Answered, Served
  <1>16. QED
    BY <1>15 DEF Request

\* Every step of the player and the device keeps the request in one place.
LEMMA RequestPlayer ==
  ASSUME PlayerInv, ExitInv, Trusted, Trusted', Request, Program \/ Device, UNCHANGED <<tag, jobs>>
  PROVE  Request'
  <1>1. TypeOK /\ ControlInv /\ DeviceKnown /\ ui_to_player \in Seq(Command) /\ InTime
    BY DEF PlayerInv, TypeInv, TypeOK, SilenceInv, Trusted, UIClean
  <1>2. command # "EXIT" /\ ~Has(ui_to_player, "EXIT") /\ ui_reads
    BY DEF ExitInv, Trusted, UIRuns
  <1>3. CASE Receive
    <2>1. /\ ui_to_player # <<>> /\ ui_to_player' = Tail(ui_to_player) /\ pc = "idle"
          /\ command' = ui_to_player[1].cmd /\ pc' = "stop_test"
          /\ ui_to_player[1].cmd \in {"PLAY", "STOP", "EXIT"}
          /\ UNCHANGED <<player_to_ui, is_busy, channel>>
      BY <1>1, <1>3, TailOf DEF Receive, Goto, FirstStep, codecVars
    <2>2. ui_to_player[1].cmd # "EXIT"
      BY <1>1, <1>2, <2>1, TailHas
    <2>3. CASE ui_to_player[1].cmd = "PLAY"
      BY <1>1, <1>3, <2>3, PlayTaken
    <2>4. CASE ui_to_player[1].cmd = "STOP"
      <3>1. NoneServed' /\ StopServed'
        BY <2>1, <2>4 DEF NoneServed, StopServed
      <3>2. QED
        BY <2>1, <2>4, <3>1, CommandTaken
    <2>5. QED
      BY <2>1, <2>2, <2>3, <2>4
  <1>4. CASE ChangeVolume
    <2>1. /\ ui_to_player # <<>> /\ ui_to_player' = Tail(ui_to_player) /\ pc = "idle"
          /\ ui_to_player[1].cmd = "VOLUME" /\ pc' = "idle"
          /\ UNCHANGED <<player_to_ui, is_busy, channel>>
      BY <1>1, <1>4, TailOf DEF ChangeVolume, Goto
    <2>2. NoneServed'
      BY <2>1 DEF NoneServed
    <2>3. QED
      BY <2>1, <2>2, CommandTaken
  <1>5. CASE Reply
    <2>1. CASE command = "PLAY"
      BY <1>5, <2>1, PlayAnswered
    <2>2. CASE command # "PLAY"
      <3>1. PICK m \in [cmd : {"PLAY", "STOP"}, result : {"SUCCESS", "FAILURE"}] :
              m = [cmd |-> command, result |-> result]
        BY <1>1, <1>2, <2>2 DEF TypeOK
      <3>2. m.cmd = "STOP"
        BY <1>1, <1>2, <2>2, <3>1 DEF TypeOK
      <3>3. /\ player_to_ui' = Append(player_to_ui, m) /\ pc = "reply" /\ pc' = "idle"
            /\ UNCHANGED <<ui_to_player, command, is_busy>>
        BY <1>2, <1>5, <3>1 DEF Reply, Goto, Answer, Send, codecVars
      <3>4. ~is_busy' /\ NoneServed /\ NoneServed'
        BY <1>1, <2>2, <3>3 DEF DeviceKnown, NoneServed
      <3>5. QED
        BY <1>1, <3>2, <3>3, <3>4, StopTold
    <2>3. QED
      BY <2>1, <2>2
  <1>6. CASE /\ command = "PLAY" /\ pc # "idle"
             /\ \/ StopTest \/ StopIoctl \/ StopFree \/ ReadBuffer \/ RequestBuffer \/ RequestFails
                \/ Close \/ SetRate \/ PlayFails \/ PlayStop \/ PlaySetup \/ PlayStart \/ Release
                \/ Destroy \/ Device
    <2>1. PICK f \in Track : Served(f)
      BY <1>6, RequestServed
    <2>2. Served(f)'
      BY <1>1, <1>6, <2>1, ServedKept
    <2>3. QED
      BY <2>2 DEF Request
  <1>7. ASSUME NoneServed, StopTest \/ StopIoctl \/ StopFree PROVE Request'
    <2>1. command = "STOP" /\ pc \in StopPCs
      BY <1>1, <1>2, <1>7 DEF TypeOK, StopTest, StopIoctl, StopFree, Goto, StopPCs, NoneServed
    <2>2. command' = "STOP" /\ pc' # "idle"
      BY <1>7, <2>1 DEF StopTest, StopIoctl, StopFree, Goto, AfterStop, programVars
    <2>3. /\ UNCHANGED <<ui_to_player, player_to_ui>> /\ channel' \subseteq channel
          /\ is_busy' => is_busy
      BY <1>7 DEF StopTest, StopIoctl, StopFree, pipeVars, codecVars, deviceVars
    <2>4. NoneServed' /\ StopServed'
      BY <2>2 DEF NoneServed, StopServed
    <2>5. QED
      BY <1>7, <2>3, <2>4, Quieter
  <1>8. ASSUME NoneServed, Complete \/ Signal PROVE Request'
    <2>1. /\ UNCHANGED <<ui_to_player, player_to_ui, is_busy, command, pc>>
          /\ channel' \subseteq channel
      BY <1>8 DEF Complete, Signal, pipeVars, programVars, codecVars
    <2>2. NoneServed' /\ (StopServed => StopServed')
      BY <1>8, <2>1 DEF NoneServed, StopServed
    <2>3. QED
      BY <1>8, <2>1, <2>2, Quieter
  <1>9. ASSUME NoneServed, Interrupt PROVE Request'
    <2>1. PICK m \in [cmd : {"PLAY", "STOP"}, result : {"SUCCESS", "FAILURE"}] :
            m = [cmd |-> "STOP", result |-> "SUCCESS"]
      OBVIOUS
    <2>2. /\ player_to_ui' = Append(player_to_ui, m) /\ ~is_busy' /\ m.cmd = "STOP"
          /\ UNCHANGED <<ui_to_player, command, pc>>
      BY <1>1, <1>2, <1>9, <2>1 DEF Interrupt, Send, programVars, ControlInv, EndPCs
    <2>3. NoneServed'
      BY <1>9, <2>2 DEF NoneServed
    <2>4. QED
      BY <1>1, <1>9, <2>2, <2>3, StopTold
  <1>10. ASSUME NoneServed, ReadBuffer \/ RequestBuffer \/ RequestFails \/ Close \/ SetRate
                  \/ PlayFails \/ PlayStop \/ PlaySetup \/ PlayStart \/ Release \/ Destroy
         PROVE  FALSE
    BY <1>1, <1>2, <1>10
       DEF NoneServed, ControlInv, LoadingPCs, LoadedPCs, EndPCs, ReadBuffer, RequestBuffer,
           RequestFails, Close, SetRate, PlayFails, PlayStop, PlaySetup, PlayStart, Release, Destroy, Goto
  <1>11. QED
    BY <1>3, <1>4, <1>5, <1>6, <1>7, <1>8, <1>9, <1>10 DEF Program, Device, NoneServed

--------------------------------------------------------------------------------
(* a request is in one place: steps of the UI                                  *)

\* What the UI leaves alone of what the player does.
PlayerRests == UNCHANGED <<pc, command, track, result, is_busy, channel>>

\* A request that is being served stays so when the UI writes behind it.
LEMMA ServedRests ==
  ASSUME PlayerInv, PlayerRests, NEW f \in Track, Served(f), Preparing' = Preparing,
         Playing' = {} \/ (Playing' = Playing /\ (Has(player_to_ui, "STOP") => Has(player_to_ui', "STOP"))),
         NoneAsJob', NoneInPipe', NoneAnswered',
         AwaitsBuffer => ui_to_player'[1] = ui_to_player[1]
  PROVE  Served(f)'
  <1>1. (AwaitsBuffer' <=> AwaitsBuffer) /\ (pc' = pc) /\ (is_busy' = is_busy)
    BY DEF AwaitsBuffer, PlayerRests
  <1>2. IF AwaitsBuffer' THEN ui_to_player'[1].arg = f ELSE track' = f
    BY <1>1 DEF Served, PlayerRests
  <1>3. QED
    BY <1>1, <1>2 DEF Served, PlayerRests

\* The UI writes no PLAY: a STOP, a volume step, or nothing.
LEMMA OtherWritten ==
  ASSUME PlayerInv, Request, PlayerRests, NEW ms \in Seq(Command), ~Has(ms, "PLAY"),
         ui_to_player' = ui_to_player \o ms,
         UNCHANGED <<player_to_ui, tag, jobs>>
  PROVE  Request'
  <1>1. ui_to_player \in Seq(Command) /\ PipeInv
    BY DEF PlayerInv, TypeInv, TypeOK
  <1>2. PICK q \in Seq(Command) : q = ui_to_player'
    BY <1>1, ConcatProperties
  <1>3. \A cmd : Has(q, cmd) <=> Has(ui_to_player, cmd) \/ Has(ms, cmd)
    BY <1>1, <1>2, ConcatHas
  <1>4. /\ Playing' = Playing /\ Preparing' = Preparing
        /\ NoneAsJob => NoneAsJob'
        /\ \A f \in Track : AsJob(f) => AsJob(f)'
        /\ NoneInPipe => NoneInPipe'
        /\ NoneAnswered => NoneAnswered'
        /\ Displayed => Displayed'
    BY <1>2, <1>3, TagsKept, JobsKept DEF NoneInPipe, NoneAnswered, Displayed, PlayerRests
  <1>5. /\ EndsShown => EndsShown'
        /\ StopServed => StopServed'
        /\ NoneServed => NoneServed'
        /\ is_busy' = is_busy /\ channel' = channel
    BY <1>4 DEF EndsShown, StopServed, NoneServed, PlayerRests
  <1>6. CASE NoRequest
    BY <1>4, <1>5, <1>6 DEF NoRequest, Request
  <1>7. ASSUME NEW f \in Track, BeingDecrypted(f) PROVE Request'
    BY <1>2, <1>3, <1>4, <1>5, <1>7 DEF BeingDecrypted, Request
  <1>8. ASSUME NEW f \in Track, NEW i \in Nat, Requested(f, i) PROVE Request'
    <2>1. OnlyPlay(ui_to_player, i) /\ i < Len(ui_to_player)
      BY <1>1, <1>8 DEF Requested, OnlyPlay, PipeInv, Pairs
    <2>2. /\ OnlyPlay(q, i) /\ q[i+1] = ui_to_player[i+1]
          /\ StopBefore(ui_to_player, i) => StopBefore(q, i)
      BY <1>1, <1>2, <2>1, ConcatPlay
    <2>3. Requested(f, i)'
      BY <1>2, <1>4, <1>5, <1>8, <2>2 DEF Requested
    <2>4. QED
      BY <2>3 DEF Request
  <1>9. ASSUME NEW f \in Track, Served(f) PROVE Request'
    <2>1. AwaitsBuffer => q[1] = ui_to_player[1]
      <3>1. PICK n \in Nat : n = Len(ui_to_player)
        BY <1>1, LenProperties
      <3>2. \A i \in 1 .. n : q[i] = ui_to_player[i]
        BY <1>1, <1>2, <3>1, ConcatProperties
      <3>3. AwaitsBuffer => 1 \in 1 .. n
        BY <1>1, <3>1, EmptySeq DEF PipeInv
      <3>4. QED
        BY <3>2, <3>3
    <2>2. Served(f)'
      BY <1>2, <1>4, <1>9, <2>1, ServedRests DEF Served
    <2>3. QED
      BY <2>2 DEF Request
  <1>10. ASSUME NEW f \in Track, NEW k \in Nat, Answered(f, k) PROVE Request'
    BY <1>4, <1>5, <1>10 DEF Answered, Request
  <1>11. QED
    BY <1>6, <1>7, <1>8, <1>9, <1>10 DEF Request

\* What changes is nothing of the request: another job, or the end of one.
LEMMA NothingWritten ==
  ASSUME PlayerInv, Request, PlayerRests, UNCHANGED <<ui_to_player, player_to_ui, tag>>,
         NoneAsJob => NoneAsJob', \A f \in Track : AsJob(f) => AsJob(f)'
  PROVE  Request'
  <1>1. /\ Playing' = Playing /\ Preparing' = Preparing
        /\ NoneInPipe => NoneInPipe'
        /\ NoneAnswered => NoneAnswered'
        /\ Displayed => Displayed'
    BY TagsKept DEF NoneInPipe, NoneAnswered, Displayed, PlayerRests
  <1>2. /\ EndsShown => EndsShown'
        /\ StopServed => StopServed'
        /\ NoneServed => NoneServed'
        /\ is_busy' = is_busy /\ channel' = channel
    BY <1>1 DEF EndsShown, StopServed, NoneServed, PlayerRests
  <1>3. CASE NoRequest
    BY <1>1, <1>2, <1>3 DEF NoRequest, Request
  <1>4. ASSUME NEW f \in Track, BeingDecrypted(f) PROVE Request'
    BY <1>1, <1>2, <1>4 DEF BeingDecrypted, Request
  <1>5. ASSUME NEW f \in Track, NEW i \in Nat, Requested(f, i) PROVE Request'
    BY <1>1, <1>2, <1>5 DEF Requested, Request
  <1>6. ASSUME NEW f \in Track, Served(f) PROVE Request'
    BY <1>1, <1>6, ServedRests DEF Served, Request
  <1>7. ASSUME NEW f \in Track, NEW k \in Nat, Answered(f, k) PROVE Request'
    BY <1>1, <1>2, <1>7 DEF Answered, Request
  <1>8. QED
    BY <1>3, <1>4, <1>5, <1>6, <1>7 DEF Request

\* A track is asked for only when none is being prepared.
LEMMA NoneRequested ==
  ASSUME Request, NEW f \in Track, CanStart(f)
  PROVE  NoRequest /\ Playing \subseteq Track \ {f}
  <1>1. Preparing = {}
    BY DEF CanStart, has_any_tag, Preparing
  <1>2. \A g \in Track : Preparing # {g}
    BY <1>1
  <1>3. QED
    BY <1>1, <1>2 DEF Request, BeingDecrypted, Requested, Served, Answered, CanStart, Playing

LEMMA PlayRequested ==
  ASSUME PlayerInv, UITypeOK, Request, NEW f \in Track, SpacePlay(f)
  PROVE  Request'
  <1>1. ui_to_player \in Seq(Command) /\ NoRequest /\ Playing \subseteq Track \ {f}
    BY NoneRequested DEF PlayerInv, TypeInv, TypeOK, SpacePlay
  <1>2. PICK ms \in Seq(Command) : ms = StopOther \o PlayMessages(f)
    BY StopThenPlay
  <1>3. PICK i \in Nat : /\ OnlyPlay(ms, i) /\ i < Len(ms) /\ ms[i+1].arg = f
                         /\ Playing # {} => StopBefore(ms, i)
    BY <1>2, StopThenPlay
  <1>4. /\ ui_to_player' = ui_to_player \o ms
        /\ tag' = [tag EXCEPT ![f] = "PREPARING"]
        /\ UNCHANGED <<player_to_ui, pc, command, track, result, is_busy, channel, jobs>>
    BY <1>2 DEF SpacePlay, SendToPlayer, playerRest, programVars, codecVars, deviceVars
  <1>5. ~Has(ui_to_player, "PLAY")
    BY <1>1 DEF NoRequest, NoneInPipe
  <1>6. PICK k \in Nat : /\ OnlyPlay(ui_to_player \o ms, k)
                         /\ (ui_to_player \o ms)[k+1] = ms[i+1]
                         /\ StopBefore(ms, i) => StopBefore(ui_to_player \o ms, k)
    BY <1>1, <1>3, <1>5, ConcatNewPlay
  <1>7. Preparing' = {f} /\ Playing' = Playing
    BY <1>1, <1>4 DEF UITypeOK, NoRequest, Preparing, Playing
  <1>8. NoneAsJob' /\ NoneServed' /\ NoneAnswered'
    BY <1>1, <1>4, JobsKept DEF NoRequest, NoneServed, NoneAnswered
  <1>9. is_busy' => Displayed' /\ StopBefore(ui_to_player', k)
    BY <1>1, <1>3, <1>4, <1>6, <1>7 DEF NoRequest, Displayed
  <1>10. ~is_busy' => EndsShown'
    BY <1>1, <1>4, <1>7 DEF NoRequest, EndsShown, StopServed
  <1>11. Requested(f, k)'
    BY <1>3, <1>4, <1>6, <1>7, <1>8, <1>9, <1>10 DEF Requested
  <1>12. QED
    BY <1>11 DEF Request

LEMMA DecryptionRequested ==
  ASSUME PlayerInv, UITypeOK, Request, NEW f \in Track, SpaceDecrypt(f)
  PROVE  Request'
  <1>1. ui_to_player \in Seq(Command) /\ NoRequest /\ Playing \subseteq Track \ {f}
    BY NoneRequested DEF PlayerInv, TypeInv, TypeOK, SpaceDecrypt
  <1>2. PICK ms \in Seq(Command) : ms = StopOther
    BY StopOtherHas
  <1>3. /\ ui_to_player' = ui_to_player \o ms
        /\ tag' = [tag EXCEPT ![f] = "PREPARING"]
        /\ jobs' = jobs \cup {IntoJob(f)}
        /\ UNCHANGED <<player_to_ui, pc, command, track, result, is_busy, channel>>
    BY <1>2
       DEF  SpaceDecrypt, StartJob, IntoJob, SendToPlayer, playerRest, programVars, codecVars,
          deviceVars
  <1>4. \A cmd : Has(ui_to_player \o ms, cmd) <=> Has(ui_to_player, cmd) \/ Has(ms, cmd)
    BY <1>1, ConcatHas
  <1>5. NoneInPipe' /\ (Playing # {} => Has(ui_to_player', "STOP"))
    BY <1>1, <1>2, <1>3, <1>4, StopOtherHas DEF NoRequest, NoneInPipe
  <1>6. Preparing' = {f} /\ Playing' = Playing
    BY <1>1, <1>3 DEF UITypeOK, NoRequest, Preparing, Playing
  <1>7. AsJob(f)'
    BY <1>1, <1>3 DEF NoRequest, NoneAsJob, AsJob, IntoJob
  <1>8. NoneServed' /\ NoneAnswered'
    BY <1>1, <1>3 DEF NoRequest, NoneServed, NoneAnswered
  <1>9. is_busy' => Displayed' /\ Has(ui_to_player', "STOP")
    BY <1>1, <1>3, <1>5, <1>6 DEF NoRequest, Displayed
  <1>10. ~is_busy' => EndsShown'
    BY <1>1, <1>3, <1>6 DEF NoRequest, EndsShown, StopServed
  <1>11. BeingDecrypted(f)'
    BY <1>5, <1>6, <1>7, <1>8, <1>9, <1>10 DEF BeingDecrypted
  <1>12. QED
    BY <1>11 DEF Request

\* The decrypted track is asked for behind the STOP.
LEMMA DecryptedRequested ==
  ASSUME PlayerInv, UITypeOK, Request, NEW j \in jobs, IntoSucceeds(j)
  PROVE  Request'
  <1>1. ui_to_player \in Seq(Command)
    BY DEF PlayerInv, TypeInv, TypeOK
  <1>2. j.op = "DECRYPT_INTO" /\ ~NoneAsJob
    BY DEF IntoSucceeds, NoneAsJob
  <1>3. PICK f \in Track : BeingDecrypted(f)
    BY <1>2 DEF Request, NoRequest, Requested, Served, Answered
  <1>4. j = IntoJob(f) /\ j.track = f
    BY <1>2, <1>3 DEF BeingDecrypted, AsJob, IntoJob
  <1>5. PICK ms \in Seq(Command) : ms = PlayMessages(f)
    BY PlayMessagesHave
  <1>6. OnlyPlay(ms, 1) /\ 1 \in Nat /\ 1 < Len(ms) /\ ms[1+1].arg = f
    BY <1>5, PlayMessagesHave
  <1>7. /\ ui_to_player' = ui_to_player \o ms
        /\ tag' = [tag EXCEPT ![f] = "PREPARING"]
        /\ jobs' = jobs \ {j}
        /\ UNCHANGED <<player_to_ui, pc, command, track, result, is_busy, channel>>
    BY <1>4, <1>5 DEF IntoSucceeds, playerRest, programVars, codecVars, deviceVars
  <1>8. ~Has(ui_to_player, "PLAY")
    BY <1>3 DEF BeingDecrypted, NoneInPipe
  <1>9. PICK k \in Nat : /\ OnlyPlay(ui_to_player \o ms, k)
                         /\ (ui_to_player \o ms)[k+1] = ms[1+1]
                         /\ Has(ui_to_player, "STOP") => StopBefore(ui_to_player \o ms, k)
    BY <1>1, <1>6, <1>8, ConcatNewPlay
  <1>10. tag[f] = "PREPARING"
    BY <1>3 DEF BeingDecrypted, Preparing
  <1>11. tag' = tag
    BY <1>7, <1>10 DEF UITypeOK
  <1>12. Preparing' = {f} /\ Playing' = Playing
    BY <1>3, <1>11, TagsKept DEF BeingDecrypted
  <1>13. NoneAsJob'
    BY <1>3, <1>4, <1>7 DEF BeingDecrypted, AsJob, NoneAsJob
  <1>14. NoneServed' /\ NoneAnswered'
    BY <1>3, <1>7 DEF BeingDecrypted, NoneServed, NoneAnswered
  <1>15. is_busy' => Displayed' /\ (StopServed' \/ StopBefore(ui_to_player', k))
    BY <1>3, <1>7, <1>9, <1>12 DEF BeingDecrypted, Displayed, StopServed
  <1>16. ~is_busy' => EndsShown'
    BY <1>3, <1>7, <1>12 DEF BeingDecrypted, EndsShown, StopServed
  <1>17. Requested(f, k)'
    BY <1>6, <1>7, <1>9, <1>12, <1>13, <1>14, <1>15, <1>16 DEF Requested
  <1>18. QED
    BY <1>17 DEF Request

\* A job that fails ends the preparation it was for.
LEMMA JobEnded ==
  ASSUME PlayerInv, UITypeOK, Request, NEW j \in jobs, JobFails(j)
  PROVE  Request'
  <1>1. /\ tag' = TagsAfterFailure(j) /\ jobs' = jobs \ {j} /\ PlayerRests
        /\ UNCHANGED <<ui_to_player, player_to_ui>>
    BY DEF JobFails, PlayerRests, playerVars, pipeVars, programVars, codecVars, deviceVars
  <1>2. CASE j.op # "DECRYPT_INTO"
    <2>1. tag' = tag
      BY <1>1, <1>2 DEF TagsAfterFailure
    <2>2. NoneAsJob => NoneAsJob'
      BY <1>1 DEF NoneAsJob
    <2>3. \A f \in Track : AsJob(f) => AsJob(f)'
      BY <1>1, <1>2 DEF AsJob, IntoJob
    <2>4. QED
      BY <1>1, <2>1, <2>2, <2>3, NothingWritten
  <1>3. CASE j.op = "DECRYPT_INTO"
    <2>1. ~NoneAsJob
      BY <1>3 DEF NoneAsJob
    <2>2. PICK f \in Track : BeingDecrypted(f)
      BY <2>1 DEF Request, NoRequest, Requested, Served, Answered
    <2>3. j = IntoJob(f) /\ j.track = f
      BY <1>3, <2>2 DEF BeingDecrypted, AsJob, IntoJob
    <2>4. tag' = [tag EXCEPT ![f] = "STOPPED"] /\ Preparing = {f}
      BY <1>1, <1>3, <2>2, <2>3 DEF TagsAfterFailure, BeingDecrypted
    <2>5. Preparing' = {} /\ Playing' = Playing
      BY <2>4 DEF UITypeOK, Preparing, Playing
    <2>6. NoneAsJob'
      BY <1>1, <2>2, <2>3 DEF BeingDecrypted, AsJob, NoneAsJob
    <2>7. NoneInPipe' /\ NoneServed' /\ NoneAnswered'
      BY <1>1, <2>2 DEF BeingDecrypted, NoneInPipe, NoneServed, NoneAnswered, PlayerRests
    <2>8. is_busy' => Displayed'
      BY <1>1, <2>2, <2>5 DEF BeingDecrypted, Displayed, PlayerRests
    <2>9. ~is_busy' => EndsShown'
      BY <1>1, <2>2, <2>5 DEF BeingDecrypted, EndsShown, StopServed, PlayerRests
    <2>10. NoRequest'
      BY <2>5, <2>6, <2>7, <2>8, <2>9 DEF NoRequest
    <2>11. QED
      BY <2>10 DEF Request
  <1>4. QED
    BY <1>2, <1>3

\* A STOP ends the display.  It never meets a track that plays and is displayed.
LEMMA StopShown ==
  ASSUME PlayerInv, UITypeOK, Request, PlayerMessage, player_to_ui[1].cmd = "STOP"
  PROVE  Request'
  <1> DEFINE Replies == [cmd : {"PLAY", "STOP"}, result : {"SUCCESS", "FAILURE"}]
  <1>1. player_to_ui \in Seq(Replies) /\ player_to_ui # <<>>
    BY DEF PlayerInv, TypeInv, TypeOK, PlayerMessage
  <1> HIDE DEF Replies
  <1>2. /\ player_to_ui' = Tail(player_to_ui) /\ PlayerRests
        /\ change_tags("PLAYING", "STOPPED")
        /\ UNCHANGED <<ui_to_player, jobs>>
    BY <1>1, TailOf DEF PlayerMessage, Show, PlayerRests, programVars, codecVars, deviceVars
  <1>3. Preparing' = Preparing /\ Playing' = {}
    BY <1>2 DEF change_tags, Preparing, Playing
  <1>4. \A cmd : Has(player_to_ui, cmd) <=> player_to_ui[1].cmd = cmd \/ Has(player_to_ui', cmd)
    BY <1>1, <1>2, TailHas
  <1>5. ~Displayed /\ EndsShown'
    BY <1>1, <1>3 DEF Displayed, EndsShown
  <1>6. /\ NoneAsJob => NoneAsJob'
        /\ \A f \in Track : AsJob(f) => AsJob(f)'
        /\ NoneInPipe => NoneInPipe'
        /\ NoneAnswered => NoneAnswered'
        /\ NoneServed => NoneServed'
        /\ StopServed => StopServed'
        /\ is_busy' = is_busy /\ channel' = channel
    BY <1>2, <1>4, JobsKept DEF NoneInPipe, NoneAnswered, NoneServed, StopServed, PlayerRests
  <1>7. CASE NoRequest
    BY <1>3, <1>5, <1>6, <1>7 DEF NoRequest, Request
  <1>8. ASSUME NEW f \in Track, BeingDecrypted(f) PROVE Request'
    BY <1>3, <1>5, <1>6, <1>8 DEF BeingDecrypted, Request
  <1>9. ASSUME NEW f \in Track, NEW i \in Nat, Requested(f, i) PROVE Request'
    BY <1>2, <1>3, <1>5, <1>6, <1>9 DEF Requested, Request
  <1>10. ASSUME NEW f \in Track, Served(f) PROVE Request'
    BY <1>2, <1>3, <1>6, <1>10, ServedRests DEF Served, Request
  <1>11. ASSUME NEW f \in Track, NEW k \in Nat, Answered(f, k) PROVE Request'
    <2>1. OnlyPlay(player_to_ui, k) /\ k # 1
      BY <1>11 DEF Answered, OnlyPlay
    <2>2. /\ k - 1 \in Nat /\ OnlyPlay(player_to_ui', k - 1)
          /\ player_to_ui'[k-1] = player_to_ui[k]
          /\ StopAfter(player_to_ui, k) => StopAfter(player_to_ui', k - 1)
      BY <1>1, <1>2, <2>1, TailPlay
    <2>3. k = Len(player_to_ui) => k - 1 = Len(player_to_ui')
      BY <1>1, <1>2, TailOf
    <2>4. PICK l \in Nat : l = k - 1
      BY <2>2
    <2>5. Answered(f, l)'
      BY <1>3, <1>6, <1>11, <2>2, <2>3, <2>4 DEF Answered
    <2>6. QED
      BY <2>5 DEF Request
  <1>12. QED
    BY <1>7, <1>8, <1>9, <1>10, <1>11 DEF Request

\* The answer to PLAY ends the preparation, and shows what plays.
LEMMA AnswerShown ==
  ASSUME PlayerInv, UITypeOK, Request, PlayerMessage, player_to_ui[1].cmd = "PLAY"
  PROVE  Request'
  <1> DEFINE Replies == [cmd : {"PLAY", "STOP"}, result : {"SUCCESS", "FAILURE"}]
  <1>1. player_to_ui \in Seq(Replies) /\ player_to_ui # <<>>
    BY DEF PlayerInv, TypeInv, TypeOK, PlayerMessage
  <1> HIDE DEF Replies
  <1>2. PICK n \in Nat \ {0} : n = Len(player_to_ui)
    BY <1>1, TailOf
  <1>3. /\ player_to_ui' = Tail(player_to_ui) /\ PlayerRests
        /\ change_tags("PREPARING", IF player_to_ui[1].result = "SUCCESS" THEN "PLAYING" ELSE "STOPPED")
        /\ UNCHANGED <<ui_to_player, jobs>>
    BY <1>1, TailOf DEF PlayerMessage, Show, PlayerRests, programVars, codecVars, deviceVars
  <1>4. 1 \in 1 .. Len(player_to_ui) /\ ~NoneAnswered
    BY <1>2 DEF NoneAnswered, Has
  <1>5. PICK f \in Track, k \in Nat : Answered(f, k)
    BY <1>4 DEF Request, NoRequest, BeingDecrypted, Requested, Served
  <1>6. k = 1 /\ OnlyPlay(player_to_ui, 1)
    BY <1>4, <1>5 DEF Answered, OnlyPlay
  <1>7. /\ ~Has(player_to_ui', "PLAY") /\ ~StopBefore(player_to_ui, 1)
        /\ StopAfter(player_to_ui, 1) => Has(player_to_ui', "STOP")
    BY <1>1, <1>3, <1>6, TailFirstPlay
  <1>8. Preparing = {f} /\ Playing = {}
    BY <1>5, <1>6, <1>7 DEF Answered
  <1>9. /\ Preparing' = {}
        /\ player_to_ui[1].result = "SUCCESS" => Playing' = {f}
        /\ player_to_ui[1].result # "SUCCESS" => Playing' = {}
    BY <1>3, <1>8 DEF change_tags, UITypeOK, Preparing, Playing
  <1>10. NoneAsJob' /\ NoneInPipe' /\ NoneServed' /\ NoneAnswered'
    BY <1>3, <1>5, <1>7, JobsKept DEF Answered, NoneInPipe, NoneServed, NoneAnswered, PlayerRests
  <1>11. is_busy' => Displayed'
    <2>1. SUFFICES ASSUME is_busy' PROVE Displayed'
      OBVIOUS
    <2>2. /\ player_to_ui[1].result = "SUCCESS" /\ 1 = Len(player_to_ui)
          /\ \A c \in channel' : c.track = f
      BY <1>3, <1>5, <1>6, <2>1 DEF Answered, PlayerRests
    <2>3. player_to_ui' = <<>>
      <3>1. Tail(player_to_ui) \in Seq(Replies) /\ Len(Tail(player_to_ui)) = 0
        BY <1>1, <2>2, TailOf
      <3>2. QED
        BY <1>3, <3>1, EmptySeq
    <2>4. QED
      BY <1>9, <2>2, <2>3 DEF Displayed
  <1>12. ~is_busy' => EndsShown'
    <2>1. SUFFICES ASSUME ~is_busy', player_to_ui[1].result = "SUCCESS" PROVE EndsShown'
      BY <1>9 DEF EndsShown
    <2>2. StopServed \/ StopAfter(player_to_ui, 1)
      BY <1>3, <1>5, <1>6, <2>1 DEF Answered, PlayerRests
    <2>3. QED
      BY <1>3, <1>7, <2>2 DEF EndsShown, StopServed, PlayerRests
  <1>13. NoRequest'
    BY <1>9, <1>10, <1>11, <1>12 DEF NoRequest
  <1>14. QED
    BY <1>13 DEF Request

\* Every step of the UI keeps the request in one place.
LEMMA RequestUI ==
  ASSUME PlayerInv, UITypeOK, Trusted, Trusted', Request, UIStep
  PROVE  Request'
  <1>1. /\ playerRest' = playerRest => PlayerRests /\ player_to_ui' = player_to_ui
        /\ playerVars' = playerVars =>
             PlayerRests /\ ui_to_player' = ui_to_player /\ player_to_ui' = player_to_ui
        /\ uiVars' = uiVars => tag' = tag /\ jobs' = jobs
    BY DEF PlayerRests, playerRest, playerVars, pipeVars, programVars, codecVars, deviceVars,
           uiVars
  <1>2. ASSUME NEW f \in Track,
               SpaceStop(f) \/ SpacePlay(f) \/ SpaceDecrypt(f) \/ SpaceFails(f) \/ Crypt(f)
        PROVE  Request'
    <2>1. CASE SpaceStop(f)
      <3>1. StopMessages \in Seq(Command) /\ ~Has(StopMessages, "PLAY")
        BY MessagesHave
      <3>2. QED
        BY <1>1, <2>1, <3>1, OtherWritten DEF SpaceStop, SendToPlayer
    <2>2. CASE SpacePlay(f)
      BY <2>2, PlayRequested
    <2>3. CASE SpaceDecrypt(f)
      BY <2>3, DecryptionRequested
    <2>4. CASE SpaceFails(f)
      <3>1. StopOther \in Seq(Command) /\ ~Has(StopOther, "PLAY")
        BY StopOtherHas
      <3>2. QED
        BY <1>1, <2>4, <3>1, OtherWritten DEF SpaceFails, SendToPlayer
    <2>5. CASE Crypt(f)
      <3>1. PICK op \in {"ENCRYPT", "DECRYPT"} : jobs' = jobs \cup {[op |-> op, track |-> f]}
        BY <2>5 DEF Crypt, StartJob
      <3>2. (NoneAsJob => NoneAsJob') /\ \A g \in Track : AsJob(g) => AsJob(g)'
        BY <3>1 DEF NoneAsJob, AsJob, IntoJob
      <3>3. playerVars' = playerVars /\ tag' = tag
        BY <2>5 DEF Crypt
      <3>4. QED
        BY <1>1, <3>2, <3>3, NothingWritten
    <2>6. QED
      BY <1>2, <2>1, <2>2, <2>3, <2>4, <2>5
  <1>3. ASSUME NEW d \in Delta, Arrow(d) PROVE Request'
    <2>1. VolumeMessages(d) \in Seq(Command) /\ ~Has(VolumeMessages(d), "PLAY")
      BY MessagesHave
    <2>2. QED
      BY <1>1, <1>3, <2>1, OtherWritten DEF Arrow, SendToPlayer
  <1>4. CASE PlayerMessage
    <2>1. player_to_ui[1].cmd \in {"PLAY", "STOP"}
      <3>1. PICK S : S = [cmd : {"PLAY", "STOP"}, result : {"SUCCESS", "FAILURE"}]
        OBVIOUS
      <3>2. player_to_ui \in Seq(S) /\ player_to_ui # <<>>
        BY <1>4, <3>1 DEF PlayerInv, TypeInv, TypeOK, PlayerMessage
      <3>3. player_to_ui[1] \in S
        BY <3>2, TailOf
      <3>4. QED
        BY <3>1, <3>3
    <2>2. QED
      BY <1>4, <2>1, StopShown, AnswerShown
  <1>5. ASSUME NEW j \in jobs, CryptSucceeds(j) \/ IntoSucceeds(j) \/ JobFails(j) \/ JobOrphaned(j)
        PROVE  Request'
    <2>1. CASE CryptSucceeds(j)
      <3>1. playerVars' = playerVars /\ jobs' = jobs \ {j} /\ j.op # "DECRYPT_INTO"
        BY <2>1 DEF CryptSucceeds
      <3>2. tag' = tag
        BY <2>1 DEF CryptSucceeds, open_directory, Trusted, UIClean
      <3>3. (NoneAsJob => NoneAsJob') /\ \A g \in Track : AsJob(g) => AsJob(g)'
        BY <3>1 DEF NoneAsJob, AsJob, IntoJob
      <3>4. QED
        BY <1>1, <3>1, <3>2, <3>3, NothingWritten
    <2>2. CASE IntoSucceeds(j)
      BY <2>2, DecryptedRequested
    <2>3. CASE JobFails(j)
      BY <2>3, JobEnded
    <2>4. CASE JobOrphaned(j)
      BY <2>4 DEF JobOrphaned, Trusted
    <2>5. QED
      BY <1>5, <2>1, <2>2, <2>3, <2>4
  <1>6. CASE Sigint \/ Restore
    <2>1. playerVars' = playerVars /\ tag' = tag /\ jobs' = jobs
      BY <1>6 DEF Sigint, Restore
    <2>2. QED
      BY <1>1, <2>1, JobsKept, NothingWritten
  <1>7. CASE UIExit
    BY <1>7 DEF UIExit, ClientExit, Trusted, UIRuns
  <1>8. QED
    BY <1>2, <1>3, <1>4, <1>5, <1>6, <1>7 DEF UIStep, Keys, Results

--------------------------------------------------------------------------------
(* the display                                                                 *)

LEMMA InitDisplay == UIInit => DisplayInv
  <1> SUFFICES ASSUME UIInit PROVE DisplayInv
    OBVIOUS
  <1>1. ExitInv /\ DeviceInv
    BY InitExit
  <1>2. Trusted => NoRequest
    <2>1. UIClean => Playing = {} /\ Preparing = {}
      BY DEF UIInit, UIClean, AllStopped, Playing, Preparing
    <2>2. QED
      BY <2>1
         DEF  UIInit, PlayerInit, Trusted, NoRequest, NoneAsJob, NoneInPipe, NoneServed,
            NoneAnswered,
             EndsShown, Has
  <1>3. QED
    BY <1>1, <1>2 DEF DisplayInv, Request

LEMMA NextDisplay == PlayerInv /\ UITypeOK /\ DisplayInv /\ [UINext]_allVars => DisplayInv'
  <1> SUFFICES ASSUME PlayerInv, UITypeOK, DisplayInv, [UINext]_allVars PROVE DisplayInv'
    OBVIOUS
  <1>1. ExitInv' /\ DeviceInv'
    BY NextExit, NextDevice DEF DisplayInv
  <1>2. ASSUME Trusted' PROVE Request'
    <2>1. Trusted /\ Request /\ ExitInv
      BY <1>2, TrustedBefore DEF DisplayInv
    <2>2. CASE (Program \/ Device) /\ UNCHANGED uiVars
      BY <1>2, <2>1, <2>2, RequestPlayer DEF uiVars
    <2>3. CASE UNCHANGED vars /\ UNCHANGED uiVars
      <3>1. PlayerRests /\ UNCHANGED <<ui_to_player, player_to_ui, tag, jobs>>
        BY <2>3
           DEF PlayerRests, vars, playerVars, pipeVars, programVars, codecVars, deviceVars,
               uiVars
      <3>2. QED
        BY <2>1, <3>1, JobsKept, NothingWritten
    <2>4. CASE UIStep
      BY <1>2, <2>1, <2>4, RequestUI
    <2>5. QED
      BY <2>2, <2>3, <2>4, UISteps
  <1>3. QED
    BY <1>1, <1>2 DEF DisplayInv

\* As long as the display can be trusted, a request for a track is in exactly one
\* place: being decrypted, in the pipe, served or answered; and what plays is
\* displayed, or will be, or the STOP for it is on its way.
THEOREM DisplayCorrect == UISpec => []DisplayInv
  BY InitDisplay, NextDisplay, PlayerInUI, UITypes, PTL DEF UISpec

LEMMA PlaysIn ==
  ASSUME NEW S, NEW q \in Seq(S)
  PROVE  /\ ~Has(q, "PLAY") => Cardinality({i \in DOMAIN q : q[i].cmd = "PLAY"}) = 0
         /\ \A k \in Nat : OnlyPlay(q, k) => Cardinality({i \in DOMAIN q : q[i].cmd = "PLAY"}) = 1
  <1>1. DOMAIN q = 1 .. Len(q)
    BY LenProperties
  <1>2. ASSUME ~Has(q, "PLAY") PROVE {i \in DOMAIN q : q[i].cmd = "PLAY"} = {}
    BY <1>1, <1>2 DEF Has
  <1>3. ASSUME NEW k \in Nat, OnlyPlay(q, k) PROVE {i \in DOMAIN q : q[i].cmd = "PLAY"} = {k}
    BY <1>1, <1>3 DEF OnlyPlay
  <1>4. QED
    BY <1>2, <1>3, FS_EmptySet, FS_Singleton

LEMMA PreparingPending == PlayerInv /\ DisplayInv => PreparingIsPending
  <1> SUFFICES ASSUME PlayerInv, DisplayInv, UIClean, UIRuns
               PROVE  PendingPlays = Cardinality(Preparing) /\ PendingPlays \in {0, 1}
    BY DEF PreparingIsPending
  <1> DEFINE asJob == Cardinality({j \in jobs : j.op = "DECRYPT_INTO"})
             inPipe == Cardinality({i \in DOMAIN ui_to_player : ui_to_player[i].cmd = "PLAY"})
             served == IF command = "PLAY" /\ pc # "idle" THEN 1 ELSE 0
             answered == Cardinality({i \in DOMAIN player_to_ui : player_to_ui[i].cmd = "PLAY"})
  <1>1. Request
    BY DEF DisplayInv, Trusted
  <1>2. /\ NoneInPipe => inPipe = 0
        /\ \A k \in Nat : OnlyPlay(ui_to_player, k) => inPipe = 1
    <2>1. ui_to_player \in Seq(Command)
      BY DEF PlayerInv, TypeInv, TypeOK
    <2>2. QED
      BY <2>1, PlaysIn DEF NoneInPipe
  <1>3. /\ NoneAnswered => answered = 0
        /\ \A k \in Nat : OnlyPlay(player_to_ui, k) => answered = 1
    <2>1. player_to_ui \in Seq([cmd : {"PLAY", "STOP"}, result : {"SUCCESS", "FAILURE"}])
      BY DEF PlayerInv, TypeInv, TypeOK
    <2>2. QED
      BY <2>1, PlaysIn DEF NoneAnswered
  <1>4. NoneAsJob => asJob = 0
    <2>1. NoneAsJob => {j \in jobs : j.op = "DECRYPT_INTO"} = {}
      BY DEF NoneAsJob
    <2>2. QED
      BY <2>1, FS_EmptySet
  <1>5. ASSUME NEW f \in Track, AsJob(f) PROVE asJob = 1
    <2>1. {j \in jobs : j.op = "DECRYPT_INTO"} = {IntoJob(f)}
      BY <1>5 DEF AsJob, IntoJob
    <2>2. QED
      BY <2>1, FS_Singleton
  <1>6. Preparing = {} => Cardinality(Preparing) = 0
    BY FS_EmptySet
  <1>7. ASSUME NEW f \in Track, Preparing = {f} PROVE Cardinality(Preparing) = 1
    BY <1>7, FS_Singleton
  <1>8. PendingPlays = inPipe + served + answered + asJob
    BY DEF PendingPlays
  <1>9. NoneServed <=> served = 0
    BY DEF NoneServed
  <1>10. served = 0 \/ served = 1
    OBVIOUS
  <1> HIDE DEF asJob, inPipe, served, answered
  <1>11. CASE NoRequest
    BY <1>2, <1>3, <1>4, <1>6, <1>8, <1>9, <1>11 DEF NoRequest
  <1>12. ASSUME NEW f \in Track, BeingDecrypted(f)
         PROVE  PendingPlays = Cardinality(Preparing) /\ PendingPlays \in {0, 1}
    BY <1>2, <1>3, <1>5, <1>7, <1>8, <1>9, <1>12 DEF BeingDecrypted
  <1>13. ASSUME NEW f \in Track, NEW i \in Nat, Requested(f, i)
         PROVE  PendingPlays = Cardinality(Preparing) /\ PendingPlays \in {0, 1}
    BY <1>2, <1>3, <1>4, <1>7, <1>8, <1>9, <1>13 DEF Requested
  <1>14. ASSUME NEW f \in Track, Served(f)
         PROVE  PendingPlays = Cardinality(Preparing) /\ PendingPlays \in {0, 1}
    <2>1. served = 1
      BY <1>9, <1>10, <1>14 DEF Served, NoneServed
    <2>2. NoneInPipe /\ NoneAnswered /\ NoneAsJob /\ Preparing = {f}
      BY <1>14 DEF Served
    <2>3. inPipe = 0 /\ answered = 0 /\ asJob = 0 /\ Cardinality(Preparing) = 1
      BY <1>2, <1>3, <1>4, <1>7, <2>2
    <2>4. QED
      BY <1>8, <2>1, <2>3
  <1>15. ASSUME NEW f \in Track, NEW k \in Nat, Answered(f, k)
         PROVE  PendingPlays = Cardinality(Preparing) /\ PendingPlays \in {0, 1}
    <2>1. NoneInPipe /\ OnlyPlay(player_to_ui, k) /\ NoneServed /\ NoneAsJob /\ Preparing = {f}
      BY <1>15 DEF Answered
    <2>2. inPipe = 0 /\ answered = 1 /\ served = 0 /\ asJob = 0 /\ Cardinality(Preparing) = 1
      BY <1>2, <1>3, <1>4, <1>7, <1>9, <2>1
    <2>3. QED
      BY <1>8, <2>2
  <1>16. QED
    BY <1>1, <1>11, <1>12, <1>13, <1>14, <1>15 DEF Request

LEMMA QuietAgrees == PlayerInv /\ DisplayInv => DisplayAgrees
  <1> SUFFICES ASSUME PlayerInv, DisplayInv, UIClean, Quiet
               PROVE  Playing = {c.track : c \in channel} /\ Preparing = {}
    BY DEF DisplayAgrees
  <1>1. ui_to_player = <<>> /\ player_to_ui = <<>> /\ pc = "idle" /\ completion = "none" /\ NoneAsJob
    BY DEF Quiet, NoneAsJob
  <1>2. \A cmd : ~Has(ui_to_player, cmd) /\ ~Has(player_to_ui, cmd)
    BY <1>1 DEF Has
  <1>3. Trusted /\ Request
    BY <1>1, <1>2 DEF DisplayInv, ExitInv, Trusted, UIRuns
  <1>4. NoRequest
    <2>1. \A i \in Nat : ~OnlyPlay(ui_to_player, i) /\ ~OnlyPlay(player_to_ui, i)
      BY <1>2 DEF OnlyPlay, Has
    <2>2. \A f \in Track : ~AsJob(f)
      BY <1>1 DEF AsJob, IntoJob, NoneAsJob
    <2>3. QED
      BY <1>1, <1>3, <2>1, <2>2 DEF Request, BeingDecrypted, Requested, Served, Answered
  <1>5. CASE is_busy
    <2>1. channel # {} /\ \A c, d \in channel : c = d
      BY <1>1, <1>5 DEF DisplayInv, DeviceInv, UIClean
    <2>2. PICK c \in channel : channel = {c}
      BY <2>1
    <2>3. Playing = {c.track}
      BY <1>4, <1>5 DEF NoRequest, Displayed
    <2>4. QED
      BY <1>4, <2>2, <2>3 DEF NoRequest
  <1>6. CASE ~is_busy
    <2>1. channel = {}
      BY <1>6 DEF PlayerInv, SilenceInv, DeviceKnown, UIClean
    <2>2. Playing = {}
      BY <1>1, <1>2, <1>4, <1>6 DEF NoRequest, EndsShown, StopServed
    <2>3. QED
      BY <1>4, <2>1, <2>2 DEF NoRequest
  <1>7. QED
    BY <1>5, <1>6

LEMMA PlayingDisplayed == PlayerInv /\ DisplayInv => PlayingIsKnown
  <1> SUFFICES ASSUME PlayerInv, DisplayInv, UIClean, UIRuns, NEW c \in channel
               PROVE  tag[c.track] \in {"PLAYING", "PREPARING"}
    BY DEF PlayingIsKnown
  <1>1. Request /\ is_busy
    BY DEF DisplayInv, Trusted, UIClean, PlayerInv, SilenceInv, DeviceKnown
  <1>2. Displayed => tag[c.track] = "PLAYING"
    BY DEF Displayed, Playing
  <1>3. ASSUME NEW f \in Track, Preparing = {f}, c.track = f PROVE tag[c.track] = "PREPARING"
    BY <1>3 DEF Preparing
  <1>4. QED
    BY <1>1, <1>2, <1>3 DEF Request, NoRequest, BeingDecrypted, Requested, Served, Answered

\* While the UI runs and its display can be trusted, an entry is shown as being
\* prepared exactly while its PLAY has no answer, and there is only one.
THEOREM PreparingCorrect == UISpec => []PreparingIsPending
  BY PlayerInUI, DisplayCorrect, PreparingPending, PTL

\* When nothing is on its way, a display that can be trusted shows what plays.
THEOREM DisplayAgreesCorrect == UISpec => []DisplayAgrees
  BY PlayerInUI, DisplayCorrect, QuietAgrees, PTL

\* What plays is displayed, or its answer will display it.
THEOREM PlayingKnown == UISpec => []PlayingIsKnown
  BY PlayerInUI, DisplayCorrect, PlayingDisplayed, PTL

================================================================================
